------------------------------- MODULE TsMap -------------------------------
(***************************************************************************)
(* net::common::ts_map: an unordered_map behind a shared_mutex. TcpSessions *)
(* uses the map as the lock makes it, atomic; this module has the lock and *)
(* the steps an operation takes while it holds it.                         *)
(*                                                                         *)
(* Every operation first finds the node of its key and then works on it:   *)
(* map_data[key] = value makes a node with a null value and fills it.      *)
(***************************************************************************)
CONSTANTS
    Threads,   \* threads that use the map
    Keys,      \* keys: session ids
    Values,    \* what keys are mapped to: sessions
    Null,      \* value_t(): the null shared_ptr
    Absent,    \* no node
    NoThread   \* nobody

ASSUME MapAssumption ==
    /\ NoThread \notin Threads
    /\ Null \notin Values /\ Absent \notin Values /\ Null # Absent

VARIABLES
    map_data,  \* the value in the node of each key
    writer,    \* the thread that holds map_mutex exclusively
    readers,   \* the threads that share it
    pc,        \* where each thread is in its operation
    call,      \* that operation
    found,     \* whether map_data.find came back with a node
    out        \* what the operation is about to return

vars == <<map_data, writer, readers, pc, call, found, out>>

NoCall == [op |-> "none"]

Calls ==
    [op : {"insert"}, key : Keys, value : Values]
        \cup [op : {"erase", "get", "find", "contains"}, key : Keys]

Writes == {"insert", "erase"}
Reads  == {"get", "find", "contains"}

-----------------------------------------------------------------------------
(* shared_mutex, and where a thread goes after it has dropped a value.     *)

BesideReaders == writer = NoThread
CanOwn        == writer = NoThread /\ readers = {}

CanShare == writer = NoThread

\* The value that insert overwrites or erase destroys may be the last reference to
\* a session; ~connection() closes its socket and does not come back to the map.
ErasesAgain(t)  == IF map_data[call[t].key] \in Values THEN "lock" ELSE "unlock"
LooksAgain(t)   == IF found[t] THEN "find" ELSE "unlock"
AfterDestroy(t) == "unlock"

Goto(t, label) == pc' = [pc EXCEPT ![t] = label]

-----------------------------------------------------------------------------
Begin(t, c) ==
    /\ pc[t] = "idle"
    /\ call' = [call EXCEPT ![t] = c]
    /\ Goto(t, "lock")
    /\ UNCHANGED <<map_data, writer, readers, found, out>>

\* unique_lock in insert, scoped_lock in erase.
LockExclusive(t) ==
    /\ pc[t] = "lock" /\ call[t].op \in Writes /\ CanOwn
    /\ writer' = t
    /\ Goto(t, "find")
    /\ UNCHANGED <<map_data, readers, call, found, out>>

\* shared_lock in get, find and contains.
LockShared(t) ==
    /\ pc[t] = "lock" /\ call[t].op \in Reads /\ CanShare
    /\ readers' = readers \cup {t}
    /\ Goto(t, "find")
    /\ UNCHANGED <<map_data, writer, call, found, out>>

\* operator[] makes the node it does not find.
FindNode(t) ==
    LET k == call[t].key IN
    /\ pc[t] = "find"
    /\ found' = [found EXCEPT ![t] = map_data[k] # Absent]
    /\ map_data' = IF call[t].op = "insert" /\ map_data[k] = Absent
                   THEN [map_data EXCEPT ![k] = Null]
                   ELSE map_data
    /\ Goto(t, "use")
    /\ UNCHANGED <<writer, readers, call, out>>

Insert(t) ==
    /\ pc[t] = "use" /\ call[t].op = "insert"
    /\ map_data' = [map_data EXCEPT ![call[t].key] = call[t].value]
    /\ Goto(t, AfterDestroy(t))
    /\ UNCHANGED <<writer, readers, call, found, out>>

Erase(t) ==
    /\ pc[t] = "use" /\ call[t].op = "erase"
    /\ map_data' = [map_data EXCEPT ![call[t].key] = Absent]
    /\ Goto(t, AfterDestroy(t))
    /\ UNCHANGED <<writer, readers, call, found, out>>

\* it->second is copied, whatever is in the node by now.
Get(t) ==
    /\ pc[t] = "use" /\ call[t].op = "get"
    /\ out' = [out EXCEPT ![t] = IF found[t] THEN map_data[call[t].key] ELSE Absent]
    /\ Goto(t, "unlock")
    /\ UNCHANGED <<map_data, writer, readers, call, found>>

Find(t) ==
    /\ pc[t] = "use" /\ call[t].op = "find"
    /\ out' = [out EXCEPT ![t] = IF found[t] THEN map_data[call[t].key] ELSE Null]
    /\ Goto(t, "unlock")
    /\ UNCHANGED <<map_data, writer, readers, call, found>>

Contains(t) ==
    /\ pc[t] = "use" /\ call[t].op = "contains"
    /\ out' = [out EXCEPT ![t] = found[t]]
    /\ Goto(t, "unlock")
    /\ UNCHANGED <<map_data, writer, readers, call, found>>

\* The lock object is destroyed and the operation returns.
Unlock(t) ==
    /\ pc[t] = "unlock"
    /\ writer' = IF writer = t THEN NoThread ELSE writer
    /\ readers' = readers \ {t}
    /\ call' = [call EXCEPT ![t] = NoCall]
    /\ found' = [found EXCEPT ![t] = FALSE]
    /\ out' = [out EXCEPT ![t] = Absent]
    /\ Goto(t, "idle")
    /\ UNCHANGED map_data

-----------------------------------------------------------------------------
Init ==
    /\ map_data = [k \in Keys |-> Absent]
    /\ writer = NoThread /\ readers = {}
    /\ pc = [t \in Threads |-> "idle"]
    /\ call = [t \in Threads |-> NoCall]
    /\ found = [t \in Threads |-> FALSE]
    /\ out = [t \in Threads |-> Absent]

\* What a thread does once it has called.
Operation(t) ==
    \/ LockExclusive(t) \/ LockShared(t) \/ FindNode(t)
    \/ Insert(t) \/ Erase(t) \/ Get(t) \/ Find(t) \/ Contains(t)
    \/ Unlock(t)

Next == \E t \in Threads : Operation(t) \/ \E c \in Calls : Begin(t, c)

Spec == Init /\ [][Next]_vars

\* Threads are scheduled; the mutex promises no turn to a thread that waits.
FairSpec == Spec /\ \A t \in Threads : WF_vars(Operation(t))

-----------------------------------------------------------------------------
(* Properties.                                                             *)

Inside == {t \in Threads : pc[t] \in {"find", "use", "unlock"}}

\* Besides the types: the lock is held by exactly the threads that are inside their
\* operation, and a thread that changes the map is there alone.
TypeOK ==
    /\ map_data \in [Keys -> Values \cup {Null, Absent}]
    /\ writer \in Threads \cup {NoThread} /\ readers \subseteq Threads
    /\ pc \in [Threads -> {"idle", "lock", "find", "use", "unlock"}]
    /\ call \in [Threads -> Calls \cup {NoCall}]
    /\ found \in [Threads -> BOOLEAN]
    /\ out \in [Threads -> Values \cup BOOLEAN \cup {Null, Absent}]
    /\ readers = {t \in Inside : call[t].op \in Reads}
    /\ {writer} \ {NoThread} = {t \in Inside : call[t].op \in Writes}
    /\ writer = NoThread \/ readers = {}

\* The map implements the atomic one: whatever the threads do at the same time, every
\* result is the one of an order of the operations in which each takes effect between
\* its call and its return, and nobody sees a node that is not filled yet.
Filling(k) ==
    \E t \in Threads : pc[t] = "use" /\ call[t].op = "insert" /\ call[t].key = k /\ ~found[t]

Atomic == INSTANCE AtomicMap WITH
    data   <- [k \in Keys |-> IF Filling(k) THEN Absent ELSE map_data[k]],
    called <- [t \in Threads |-> IF pc[t] = "unlock" THEN NoCall ELSE call[t]],
    result <- [t \in Threads |-> IF pc[t] = "unlock" THEN [done |-> TRUE, value |-> out[t]]
                                                     ELSE [done |-> FALSE]]

ImplementsAtomicMap == Atomic!Spec

\* Who has got the lock gives it back: no operation waits for anything while it holds
\* it, not even in the destructor of a value.
LockReleased == \A t \in Threads : t \in readers \cup {writer} ~> t \notin readers \cup {writer}

=============================================================================
