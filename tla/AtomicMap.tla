----------------------------- MODULE AtomicMap -----------------------------
(***************************************************************************)
(* What net::common::ts_map promises the threads that share it: between    *)
(* its call and its return every operation takes effect at once.           *)
(***************************************************************************)
CONSTANTS
    Threads,  \* threads that use the map
    Keys,     \* keys: session ids
    Values,   \* what keys are mapped to: sessions
    Null,     \* value_t(): the null shared_ptr
    Absent    \* nothing

NoCall == [op |-> "none"]

Calls ==
    [op : {"insert"}, key : Keys, value : Values]
        \cup [op : {"erase", "get", "find", "contains"}, key : Keys]

VARIABLES
    data,    \* what each key is mapped to
    called,  \* the operation each thread has called and not been given yet
    result   \* what an operation that has taken effect returns

vars == <<data, called, result>>

Idle == [done |-> FALSE]

Init ==
    /\ data = [k \in Keys |-> Absent]
    /\ called = [t \in Threads |-> NoCall]
    /\ result = [t \in Threads |-> Idle]

Call(t, c) ==
    /\ called[t] = NoCall /\ result[t] = Idle
    /\ called' = [called EXCEPT ![t] = c]
    /\ UNCHANGED <<data, result>>

After(c) ==
    CASE c.op = "insert" -> [data EXCEPT ![c.key] = c.value]
      [] c.op = "erase"  -> [data EXCEPT ![c.key] = Absent]
      [] OTHER           -> data

Answer(c) ==
    CASE c.op = "contains" -> data[c.key] # Absent
      [] c.op = "get"      -> data[c.key]
      [] c.op = "find"     -> IF data[c.key] = Absent THEN Null ELSE data[c.key]
      [] OTHER             -> Absent

Effect(t) ==
    /\ called[t] # NoCall
    /\ data' = After(called[t])
    /\ result' = [result EXCEPT ![t] = [done |-> TRUE, value |-> Answer(called[t])]]
    /\ called' = [called EXCEPT ![t] = NoCall]

Return(t) ==
    /\ result[t] # Idle
    /\ result' = [result EXCEPT ![t] = Idle]
    /\ UNCHANGED <<data, called>>

Next == \E t \in Threads : Effect(t) \/ Return(t) \/ \E c \in Calls : Call(t, c)

Spec == Init /\ [][Next]_vars

=============================================================================
