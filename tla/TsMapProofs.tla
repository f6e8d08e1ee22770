---------------------------- MODULE TsMapProofs ----------------------------
(***************************************************************************)
(* Theorems about TsMap: the lock is kept, and the map is atomic, for any  *)
(* number of threads, keys and values.                                     *)
(***************************************************************************)
EXTENDS TsMap, TLAPS

USE DEF CanOwn, CanShare, AfterDestroy

\* What a thread has found out holds until it has used it, an insert's node is null
\* until it is filled, and results are there only once the operation is through.
ThreadOK(t) ==
    /\ pc[t] = "idle" <=> call[t] = NoCall
    /\ pc[t] = "use" /\ call[t].op \in Reads => found[t] = (map_data[call[t].key] # Absent)
    /\ pc[t] = "use" /\ call[t].op = "insert" /\ ~found[t] => map_data[call[t].key] = Null
    /\ pc[t] # "unlock" => out[t] = Absent

MapInv == TypeOK /\ \A t \in Threads : ThreadOK(t)

-----------------------------------------------------------------------------
\* A thread that has called has an operation of one of the two kinds.
LEMMA CallsSorted ==
    /\ NoCall \notin Calls
    /\ \A c \in Calls : /\ c.key \in Keys
                        /\ c.op \in Reads \/ c.op \in Writes
                        /\ c.op = "insert" => c.value \in Values
    /\ Reads \cap Writes = {}
BY DEF NoCall, Calls, Reads, Writes

\* Whoever holds the lock exclusively is alone inside.
LEMMA WriterAlone ==
    ASSUME MapInv, NEW t \in Threads, NEW u \in Threads,
           t \in Inside, u \in Inside, call[t].op \in Writes
    PROVE  u = t
<1>1. writer = t /\ readers = {}
  BY MapAssumption DEF MapInv, TypeOK
<1>2. call[u] \in Calls
  BY DEF MapInv, TypeOK, ThreadOK, Inside
<1>3. call[u].op \in Writes
  BY <1>1, <1>2, CallsSorted DEF MapInv, TypeOK
<1> QED BY <1>1, <1>3, MapAssumption DEF MapInv, TypeOK

LEMMA TypeInit == Init => TypeOK
BY MapAssumption DEF Init, TypeOK, Inside

LEMMA TypeStep == TypeOK /\ [Next]_vars => TypeOK'
<1> SUFFICES ASSUME TypeOK, [Next]_vars PROVE TypeOK'
  OBVIOUS
<1> USE DEF TypeOK, Inside, Goto
<1>1. CASE UNCHANGED vars
  BY <1>1 DEF vars
<1>2. ASSUME NEW t \in Threads, NEW c \in Calls, Begin(t, c) PROVE TypeOK'
  BY <1>2 DEF Begin
<1>3. ASSUME NEW t \in Threads, LockExclusive(t) PROVE TypeOK'
  BY <1>3, CallsSorted, MapAssumption DEF LockExclusive
<1>4. ASSUME NEW t \in Threads, LockShared(t) PROVE TypeOK'
  BY <1>4, CallsSorted, MapAssumption DEF LockShared
<1>5. ASSUME NEW t \in Threads, FindNode(t) PROVE TypeOK'
  BY <1>5 DEF FindNode
<1>6. ASSUME NEW t \in Threads, Insert(t) PROVE TypeOK'
  <2>1. call[t] \in Calls
    BY <1>6 DEF Insert, NoCall
  <2>2. call[t].value \in Values
    BY <1>6, <2>1, CallsSorted DEF Insert
  <2> QED BY <1>6, <2>2 DEF Insert
<1>7. ASSUME NEW t \in Threads, Erase(t) PROVE TypeOK'
  BY <1>7 DEF Erase
<1>8. ASSUME NEW t \in Threads, Get(t) \/ Find(t) \/ Contains(t) PROVE TypeOK'
  <2>1. call[t] \in Calls
    BY <1>8 DEF Get, Find, Contains, NoCall
  <2>2. map_data[call[t].key] \in Values \cup {Null, Absent}
    BY <2>1, CallsSorted
  <2> QED BY <1>8, <2>2 DEF Get, Find, Contains
<1>9. ASSUME NEW t \in Threads, Unlock(t) PROVE TypeOK'
  BY <1>9, MapAssumption DEF Unlock
<1> QED BY <1>1, <1>2, <1>3, <1>4, <1>5, <1>6, <1>7, <1>8, <1>9 DEF Next, Operation

\* The map's types, and the lock held by exactly the threads inside, a writer alone.
THEOREM MapTypeCorrect == Spec => []TypeOK
BY TypeInit, TypeStep, PTL DEF Spec

-----------------------------------------------------------------------------
LEMMA MapInit == Init => MapInv
BY TypeInit DEF Init, MapInv, ThreadOK

\* A thread outside the operation of another keeps what it has found out: it is only
\* a writer, alone inside, that changes the map.
LEMMA OthersKept ==
    ASSUME MapInv, NEW t \in Threads, NEW u \in Threads, u # t,
           pc'[u] = pc[u], call'[u] = call[u], found'[u] = found[u], out'[u] = out[u],
           map_data' = map_data \/ (t \in Inside /\ call[t].op \in Writes)
    PROVE  ThreadOK(u)'
<1>1. ThreadOK(u)
  BY DEF MapInv
<1>2. CASE map_data' = map_data
  BY <1>1, <1>2 DEF ThreadOK
<1>3. CASE t \in Inside /\ call[t].op \in Writes
  <2>1. pc[u] # "use"
    BY <1>3, WriterAlone DEF Inside
  <2> QED BY <1>1, <2>1 DEF ThreadOK
<1> QED BY <1>2, <1>3

LEMMA MapStep == MapInv /\ [Next]_vars => MapInv'
<1> SUFFICES ASSUME MapInv, [Next]_vars PROVE MapInv'
  OBVIOUS
<1>1. TypeOK'
  BY TypeStep DEF MapInv
<1>2. CASE UNCHANGED vars
  BY <1>1, <1>2 DEF vars, MapInv, ThreadOK
<1>3. CASE Next
  <2>1. PICK t \in Threads : Operation(t) \/ \E c \in Calls : Begin(t, c)
    BY <1>3 DEF Next
  <2>2. \A u \in Threads \ {t} : /\ pc'[u] = pc[u] /\ call'[u] = call[u]
                                 /\ found'[u] = found[u] /\ out'[u] = out[u]
    BY <2>1 DEF MapInv, TypeOK, Goto, Operation, Begin, LockExclusive, LockShared, FindNode,
                Insert, Erase, Get, Find, Contains, Unlock
  <2>3. map_data' = map_data \/ (t \in Inside /\ call[t].op \in Writes)
    BY <2>1 DEF Inside, Writes, Operation, Begin, LockExclusive, LockShared, FindNode,
                Insert, Erase, Get, Find, Contains, Unlock
  <2>4. ThreadOK(t)'
    <3> USE DEF Goto, MapInv, TypeOK, ThreadOK
    <3>1. CASE \E c \in Calls : Begin(t, c)
      BY <3>1, CallsSorted DEF Begin
    <3>2. CASE LockExclusive(t) \/ LockShared(t)
      BY <3>2, CallsSorted DEF LockExclusive, LockShared, NoCall, Reads, Writes
    <3>3. CASE FindNode(t)
      <4>1. call[t] \in Calls /\ call[t].key \in Keys
        BY <3>3, CallsSorted DEF FindNode
      <4> QED BY <3>3, <4>1 DEF FindNode, Reads
    <3>4. CASE Insert(t) \/ Erase(t) \/ Get(t) \/ Find(t) \/ Contains(t)
      BY <3>4, CallsSorted DEF Insert, Erase, Get, Find, Contains
    <3>5. CASE Unlock(t)
      BY <3>5 DEF Unlock
    <3> QED BY <2>1, <3>1, <3>2, <3>3, <3>4, <3>5 DEF Operation
  <2>5. \A u \in Threads : ThreadOK(u)'
    BY <2>2, <2>3, <2>4, OthersKept
  <2> QED BY <1>1, <2>5 DEF MapInv
<1> QED BY <1>2, <1>3

-----------------------------------------------------------------------------
(* The refinement.                                                         *)

Data   == [k \in Keys |-> IF Filling(k) THEN Absent ELSE map_data[k]]
Called == [t \in Threads |-> IF pc[t] = "unlock" THEN NoCall ELSE call[t]]
Result == [t \in Threads |-> IF pc[t] = "unlock" THEN [done |-> TRUE, value |-> out[t]]
                                                 ELSE [done |-> FALSE]]

LEMMA AtomicInit == Init => Atomic!Init
BY DEF Init, Atomic!Init, Atomic!NoCall, Atomic!Idle, NoCall, Filling

\* The step of a thread t shows in the map as that thread's only.
LEMMA OthersShow ==
    ASSUME MapInv, NEW t \in Threads,
           \A u \in Threads \ {t} : pc'[u] = pc[u] /\ call'[u] = call[u] /\ out'[u] = out[u],
           NEW c, c = Called'[t], NEW r, r = Result'[t]
    PROVE  Called' = [Called EXCEPT ![t] = c] /\ Result' = [Result EXCEPT ![t] = r]
BY DEF Called, Result

\* Nobody is filling a node while a thread that only reads is inside, or another writer.
LEMMA FillingOwn ==
    ASSUME MapInv, NEW t \in Threads, t \in Inside, NEW k \in Keys, Filling(k)
    PROVE  pc[t] = "use" /\ call[t].op = "insert" /\ call[t].key = k /\ ~found[t]
<1>1. PICK u \in Threads : /\ pc[u] = "use" /\ call[u].op = "insert"
                           /\ call[u].key = k /\ ~found[u]
  BY DEF Filling
<1>2. u = t
  BY <1>1, WriterAlone DEF Inside, Writes
<1> QED BY <1>1, <1>2

\* Steps outside the map proper leave the nodes that count as they are.
LEMMA DataKept ==
    ASSUME MapInv, MapInv', map_data' = map_data, NEW t \in Threads,
           pc[t] # "use", pc'[t] # "use",
           \A u \in Threads \ {t} : pc'[u] = pc[u] /\ call'[u] = call[u] /\ found'[u] = found[u]
    PROVE  Data' = Data
<1>1. \A k \in Keys : Filling(k)' = Filling(k)
  BY DEF Filling
<1> QED BY <1>1 DEF Data

\* What a thread's step has to do to be a call, an effect or a return of the atomic map.
LEMMA CallShows ==
    ASSUME NEW t \in Threads, NEW c \in Calls,
           Called[t] = NoCall, Result[t] = [done |-> FALSE],
           Data' = Data, Called' = [Called EXCEPT ![t] = c], Result' = Result
    PROVE  Atomic!Next
<1>1. Atomic!Call(t, c)
  BY DEF Atomic!Call, Atomic!NoCall, Atomic!Idle, NoCall, Data, Called, Result
<1>2. c \in Atomic!Calls
  BY DEF Calls, Atomic!Calls
<1> QED BY <1>1, <1>2 DEF Atomic!Next

LEMMA ReturnShows ==
    ASSUME NEW t \in Threads, Result[t] # [done |-> FALSE],
           Data' = Data, Called' = Called, Result' = [Result EXCEPT ![t] = [done |-> FALSE]]
    PROVE  Atomic!Next
<1>1. Atomic!Return(t)
  BY DEF Atomic!Return, Atomic!Idle, Data, Called, Result
<1> QED BY <1>1 DEF Atomic!Next

LEMMA EffectShows ==
    ASSUME NEW t \in Threads, Called[t] # NoCall,
           Data' = Atomic!After(Called[t]),
           Called' = [Called EXCEPT ![t] = NoCall],
           Result' = [Result EXCEPT ![t] = [done |-> TRUE, value |-> Atomic!Answer(Called[t])]]
    PROVE  Atomic!Next
<1>1. Atomic!Effect(t)
  BY DEF Atomic!Effect, Atomic!NoCall, NoCall, Data, Called, Result
<1> QED BY <1>1 DEF Atomic!Next

LEMMA AtomicStep ==
    MapInv /\ MapInv' /\ [Next]_vars => [Atomic!Next]_(Atomic!vars)
<1> SUFFICES ASSUME MapInv, MapInv', [Next]_vars
             PROVE  Atomic!Next \/ (Data' = Data /\ Called' = Called /\ Result' = Result)
  BY DEF Atomic!vars, Data, Called, Result
<1>1. CASE UNCHANGED vars
  BY <1>1 DEF vars, Data, Called, Result, Filling
<1>2. ASSUME NEW t \in Threads, NEW c \in Calls, Begin(t, c) PROVE Atomic!Next
  <2>1. /\ map_data' = map_data /\ pc[t] = "idle" /\ pc' = [pc EXCEPT ![t] = "lock"]
        /\ call' = [call EXCEPT ![t] = c] /\ found' = found /\ out' = out
    BY <1>2 DEF Begin, Goto
  <2>2. \A u \in Threads \ {t} : pc'[u] = pc[u] /\ call'[u] = call[u]
    BY <2>1 DEF MapInv, TypeOK
  <2>3. pc'[t] = "lock" /\ call'[t] = c
    BY <2>1 DEF MapInv, TypeOK
  <2>4. Data' = Data
    BY <2>1, <2>2, <2>3, DataKept
  <2>5. Called[t] = NoCall /\ Result[t] = [done |-> FALSE]
    BY <2>1 DEF Called, Result, MapInv, ThreadOK
  <2>6. Called'[t] = c /\ Result'[t] = [done |-> FALSE]
    BY <2>3 DEF Called, Result
  <2>7. Called' = [Called EXCEPT ![t] = c]
    BY <2>1, <2>2, <2>6, OthersShow
  <2>8. Result' = Result
    BY <2>1, <2>2, <2>3 DEF Result
  <2> QED BY <2>4, <2>5, <2>7, <2>8, CallShows
<1>3. ASSUME NEW t \in Threads, LockExclusive(t) \/ LockShared(t)
      PROVE  Data' = Data /\ Called' = Called /\ Result' = Result
  <2>1. /\ map_data' = map_data /\ pc[t] = "lock" /\ pc' = [pc EXCEPT ![t] = "find"]
        /\ call' = call /\ found' = found /\ out' = out
    BY <1>3 DEF LockExclusive, LockShared, Goto
  <2>2. \A u \in Threads \ {t} : pc'[u] = pc[u]
    BY <2>1 DEF MapInv, TypeOK
  <2>3. pc'[t] = "find"
    BY <2>1 DEF MapInv, TypeOK
  <2>4. Data' = Data
    BY <2>1, <2>2, <2>3, DataKept
  <2> QED BY <2>1, <2>2, <2>3, <2>4 DEF Called, Result
<1>4. ASSUME NEW t \in Threads, FindNode(t)
      PROVE  Data' = Data /\ Called' = Called /\ Result' = Result
  <2> DEFINE key == call[t].key
  <2>1. /\ pc[t] = "find" /\ pc' = [pc EXCEPT ![t] = "use"] /\ call' = call /\ out' = out
        /\ found' = [found EXCEPT ![t] = map_data[key] # Absent]
        /\ map_data' = IF call[t].op = "insert" /\ map_data[key] = Absent
                       THEN [map_data EXCEPT ![key] = Null] ELSE map_data
    BY <1>4 DEF FindNode, Goto
  <2>2. t \in Inside /\ pc'[t] = "use" /\ found'[t] = (map_data[key] # Absent)
    BY <2>1 DEF MapInv, TypeOK, Inside
  <2>3. \A u \in Threads \ {t} : pc'[u] = pc[u] /\ found'[u] = found[u]
    BY <2>1 DEF MapInv, TypeOK
  <2>4. \A k \in Keys : ~Filling(k)
    BY <2>1, <2>2, FillingOwn
  <2>5. ASSUME NEW k \in Keys
        PROVE  Filling(k)' <=> call[t].op = "insert" /\ key = k /\ map_data[key] = Absent
    <3>1. ASSUME NEW u \in Threads \ {t}
          PROVE ~(pc'[u] = "use" /\ call'[u].op = "insert" /\ call'[u].key = k /\ ~found'[u])
      BY <2>1, <2>3, <2>4 DEF Filling
    <3> QED BY <3>1, <2>1, <2>2 DEF Filling
  <2>6. ASSUME NEW k \in Keys PROVE Data'[k] = Data[k]
    <3>1. Data[k] = map_data[k]
      BY <2>4 DEF Data
    <3>2. Data'[k] = IF Filling(k)' THEN Absent ELSE map_data'[k]
      BY DEF Data
    <3>3. CASE Filling(k)'
      BY <3>1, <3>2, <3>3, <2>5
    <3>4. CASE ~Filling(k)'
      BY <3>1, <3>2, <3>4, <2>1, <2>5 DEF MapInv, TypeOK
    <3> QED BY <3>3, <3>4
  <2>7. Data' = Data
    BY <2>6 DEF Data
  <2>8. Called' = Called /\ Result' = Result
    BY <2>1, <2>2, <2>3 DEF Called, Result
  <2> QED BY <2>7, <2>8
<1>5. ASSUME NEW t \in Threads, Insert(t) \/ Erase(t) PROVE Atomic!Next
  <2> DEFINE key == call[t].key
             new == IF call[t].op = "insert" THEN call[t].value ELSE Absent
  <2>1. /\ pc[t] = "use" /\ pc' = [pc EXCEPT ![t] = "unlock"]
        /\ call' = call /\ found' = found /\ out' = out
        /\ call[t].op \in {"insert", "erase"}
        /\ map_data' = [map_data EXCEPT ![key] = new]
    BY <1>5 DEF Insert, Erase, Goto
  <2>2. t \in Inside /\ pc'[t] = "unlock" /\ out[t] = Absent
        /\ call[t] # NoCall /\ key \in Keys
    BY <2>1, CallsSorted DEF MapInv, TypeOK, ThreadOK, Inside
  <2>3. \A u \in Threads \ {t} : pc'[u] = pc[u]
    BY <2>1 DEF MapInv, TypeOK
  <2>4. \A k \in Keys : Filling(k) => k = key
    BY <2>2, FillingOwn
  <2>5. ASSUME NEW k \in Keys PROVE ~Filling(k)'
    <3>1. ASSUME NEW u \in Threads \ {t}, pc[u] = "use", call[u].op = "insert" PROVE FALSE
      BY <3>1, <2>1, <2>2, WriterAlone DEF Inside, Writes
    <3> QED BY <3>1, <2>1, <2>2, <2>3 DEF Filling
  <2>6. ASSUME NEW k \in Keys
        PROVE  Data'[k] = IF k = key THEN new ELSE Data[k]
    BY <2>1, <2>2, <2>4, <2>5 DEF Data, MapInv, TypeOK
  <2>7. Data' = [Data EXCEPT ![key] = new]
    BY <2>6 DEF Data
  <2>8. Called[t] = call[t]
    BY <2>1 DEF Called
  <2>9. Data' = Atomic!After(Called[t]) /\ Absent = Atomic!Answer(Called[t])
    BY <2>1, <2>7, <2>8 DEF Data, Atomic!After, Atomic!Answer
  <2>10. Called'[t] = NoCall /\ Result'[t] = [done |-> TRUE, value |-> Absent]
    BY <2>1, <2>2 DEF Called, Result
  <2>11. /\ Called' = [Called EXCEPT ![t] = NoCall]
         /\ Result' = [Result EXCEPT ![t] = [done |-> TRUE, value |-> Absent]]
    BY <2>1, <2>3, <2>10, OthersShow
  <2> QED BY <2>2, <2>8, <2>9, <2>11, EffectShows
<1>6. ASSUME NEW t \in Threads, Get(t) \/ Find(t) \/ Contains(t) PROVE Atomic!Next
  <2> DEFINE key == call[t].key
             node == map_data[key]
             answer == IF call[t].op = "contains" THEN node # Absent
                       ELSE IF call[t].op = "find" /\ node = Absent THEN Null ELSE node
  <2>1. /\ pc[t] = "use" /\ pc' = [pc EXCEPT ![t] = "unlock"]
        /\ call' = call /\ found' = found /\ map_data' = map_data
        /\ call[t].op \in Reads
    BY <1>6 DEF Get, Find, Contains, Goto, Reads
  <2>2. /\ t \in Inside /\ pc'[t] = "unlock" /\ call[t] # NoCall /\ key \in Keys
        /\ found[t] = (node # Absent)
    BY <2>1, CallsSorted DEF MapInv, TypeOK, ThreadOK, Inside
  <2>3. out' = [out EXCEPT ![t] = answer]
    BY <1>6, <2>2 DEF Get, Find, Contains
  <2>4. \A u \in Threads \ {t} : pc'[u] = pc[u] /\ out'[u] = out[u]
    BY <2>1, <2>3 DEF MapInv, TypeOK
  <2>5. \A k \in Keys : ~Filling(k)
    BY <2>1, <2>2, FillingOwn DEF Reads
  <2>6. ASSUME NEW k \in Keys PROVE ~Filling(k)'
    BY <2>1, <2>2, <2>4, <2>5 DEF Filling
  <2>7. Data' = Data /\ Data[key] = node
    BY <2>1, <2>2, <2>5, <2>6 DEF Data
  <2>8. Called[t] = call[t]
    BY <2>1 DEF Called
  <2>9. Data' = Atomic!After(Called[t])
    BY <2>1, <2>7, <2>8 DEF Data, Atomic!After, Reads
  <2>10. answer = Atomic!Answer(Called[t])
    BY <2>1, <2>7, <2>8 DEF Data, Atomic!Answer, Reads
  <2>11. out'[t] = answer
    BY <2>3 DEF MapInv, TypeOK
  <2>12. Called'[t] = NoCall /\ Result'[t] = [done |-> TRUE, value |-> answer]
    BY <2>2, <2>11 DEF Called, Result
  <2>13. /\ Called' = [Called EXCEPT ![t] = NoCall]
         /\ Result' = [Result EXCEPT ![t] = [done |-> TRUE, value |-> answer]]
    BY <2>1, <2>4, <2>12, OthersShow
  <2> HIDE DEF answer
  <2> QED BY <2>2, <2>8, <2>9, <2>10, <2>13, EffectShows
<1>7. ASSUME NEW t \in Threads, Unlock(t) PROVE Atomic!Next
  <2>1. /\ map_data' = map_data /\ pc[t] = "unlock" /\ pc' = [pc EXCEPT ![t] = "idle"]
        /\ call' = [call EXCEPT ![t] = NoCall]
        /\ found' = [found EXCEPT ![t] = FALSE] /\ out' = [out EXCEPT ![t] = Absent]
    BY <1>7 DEF Unlock, Goto
  <2>2. \A u \in Threads \ {t} : /\ pc'[u] = pc[u] /\ call'[u] = call[u]
                                 /\ found'[u] = found[u] /\ out'[u] = out[u]
    BY <2>1 DEF MapInv, TypeOK
  <2>3. pc'[t] = "idle" /\ call'[t] = NoCall
    BY <2>1 DEF MapInv, TypeOK
  <2>4. Data' = Data
    BY <2>1, <2>2, <2>3, DataKept
  <2>5. Result[t] # [done |-> FALSE]
    <3>1. Result[t].done = TRUE
      BY <2>1 DEF Result
    <3> QED BY <3>1
  <2>6. Called'[t] = NoCall /\ Result'[t] = [done |-> FALSE]
    BY <2>3 DEF Called, Result
  <2>7. Called' = Called
    BY <2>1, <2>2, <2>3 DEF Called
  <2>8. Result' = [Result EXCEPT ![t] = [done |-> FALSE]]
    BY <2>1, <2>2, <2>6, OthersShow
  <2> QED BY <2>4, <2>5, <2>7, <2>8, ReturnShows
<1> QED BY <1>1, <1>2, <1>3, <1>4, <1>5, <1>6, <1>7 DEF Next, Operation

\* The map implements the atomic map.
THEOREM MapIsAtomic == Spec => ImplementsAtomicMap
<1>1. Spec => []MapInv
  BY MapInit, MapStep, PTL DEF Spec
<1> QED BY AtomicInit, AtomicStep, <1>1, PTL DEF Spec, ImplementsAtomicMap, Atomic!Spec

=============================================================================
