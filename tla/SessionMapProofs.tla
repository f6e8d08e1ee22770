-------------------------- MODULE SessionMapProofs --------------------------
(***************************************************************************)
(* Proofs about the session map of TcpSessions: ids, registration, and the *)
(* sessions and sockets that are left over. They rest on the invariant of  *)
(* the read chain, ChainInv.                                               *)
(***************************************************************************)
EXTENDS TcpSessionsProofs, FiniteSetTheorems

USE DEF Arm, ArrivedWhole, Stopped, Closed, SessionKey, ArmAccept, AcceptsAgain, RunReturns

-----------------------------------------------------------------------------
(* Accepting goes on.                                                      *)

LEMMA KeepsAcceptingStep == ChainInv /\ KeepsAccepting /\ [Next]_vars => KeepsAccepting'
<1> SUFFICES ASSUME ChainInv, KeepsAccepting, [Next]_vars,
                    is_running', "other" \notin AcceptErrors
             PROVE  accept_ops' = 1 \/ \E w \in Workers : pc'[w] \in AcceptPcs
  BY DEF KeepsAccepting, Accepting
<1> USE DEF ChainInv, TypeInv, TypeOK, AcceptPcs, ReadPcs
<1>1. is_running
  BY DEF vars, tcpVars, Next, Client, ClientConnect, ClientSend, ClientDown, ClientLost, HandlerStep,
         CreateSession, InsertSession, AcceptNext, RentBlock, RentFails, Evict, StopEvicted, NextHeader,
         OnDisconnected, ReadCompletes, HeaderRead, PayloadRead, ReadFailed, WorkerExits,
         Accepted, AcceptFailed, Stop, StopContext, CloseAcceptor
<1>2. accept_ops = 1 \/ \E w \in Workers : pc[w] \in AcceptPcs
  BY <1>1 DEF KeepsAccepting, Accepting
<1>3. ASSUME NEW w \in Workers, NEW c \in Conns, Accepted(w, c)
      PROVE  \E v \in Workers : pc'[v] \in AcceptPcs
  BY <1>1, <1>3 DEF Accepted, Enter
<1>4. ASSUME NEW w \in Workers, CreateSession(w) \/ InsertSession(w)
      PROVE  \E v \in Workers : pc'[v] \in AcceptPcs
  BY <1>4 DEF CreateSession, InsertSession, Goto, Enter
<1>5. ASSUME NEW w \in Workers, AcceptNext(w) PROVE accept_ops' = 1
  BY <1>5 DEF AcceptNext, SingleAccept, Accepting
<1>6. ASSUME NEW w \in Workers, NEW err \in AcceptErrors, AcceptFailed(w, err)
      PROVE  accept_ops' = accept_ops /\ pc' = pc
  BY <1>6, ConstantsAssumption DEF AcceptFailed
<1>7. ASSUME NEW w \in Workers,
             \/ RentBlock(w) \/ RentFails(w) \/ Evict(w) \/ StopEvicted(w) \/ NextHeader(w)
             \/ OnDisconnected(w) \/ WorkerExits(w) \/ \E c \in Conns :
                    HeaderRead(w, c) \/ PayloadRead(w, c) \/ ReadFailed(w, c)
      PROVE  /\ accept_ops' = accept_ops
             /\ \A v \in Workers : pc[v] \in AcceptPcs => pc'[v] = pc[v]
  BY <1>7 DEF tcpVars, RentBlock, RentFails, Evict, StopEvicted, NextHeader, OnDisconnected, HeaderRead,
              PayloadRead, ReadFailed, WorkerExits, Enter, Goto, Return, CanRun
<1>8. ASSUME \/ \E c \in Conns : Client(c)
             \/ Stop \/ StopContext \/ CloseAcceptor \/ UNCHANGED vars
      PROVE  accept_ops' = accept_ops /\ pc' = pc
  BY <1>8 DEF vars, tcpVars, Client, ClientConnect, ClientSend, ClientDown, ClientLost, Stop, StopContext,
              CloseAcceptor
<1> QED BY <1>2, <1>3, <1>4, <1>5, <1>6, <1>7, <1>8 DEF Next, HandlerStep, ReadCompletes

\* The running server never stops accepting while no accept fails severely.
THEOREM AcceptingGoesOn == Spec => []KeepsAccepting
<1>1. Init => KeepsAccepting
  BY DEF Init, KeepsAccepting
<1>2. Spec => []ChainInv
  BY ChainInit, ChainStep, PTL DEF Spec
<1> QED BY <1>1, <1>2, KeepsAcceptingStep, PTL DEF Spec

-----------------------------------------------------------------------------
(* What the steps do to threads, sessions and the map.                     *)

\* Sessions that exist: connections that have been given an id.
Made == {c \in Conns : session_id[c] # NoId}

\* Where the handlers of threads come from. 
LEMMA ThreadMoves ==
    ASSUME ChainInv, [Next]_vars, NEW w \in Workers
    PROVE  \/ at'[w] = NoConn
           \/ at'[w] = at[w] /\ (pc[w] = "create" => CreateSession(w) \/ pc'[w] = "create")
           \/ pc'[w] = "create"
           \/ at'[w] \in running /\ pc'[w] \in ReadPcs
<1> USE DEF AcceptPcs, ReadPcs
<1>0. ThreadsOK
  BY DEF ChainInv, TypeInv, TypeOK, ThreadsOK
<1> USE <1>0 DEF ThreadsOK
<1>1. ASSUME NEW v \in Workers, NEW c \in Conns,
             HeaderRead(v, c) \/ PayloadRead(v, c) \/ ReadFailed(v, c)
      PROVE  \/ at'[w] \in running /\ pc'[w] \in ReadPcs
             \/ at'[w] = at[w] /\ pc'[w] = pc[w]
  <2>1. c \in running
    BY <1>1 DEF HeaderRead, PayloadRead, ReadFailed, ChainInv, TypeInv, TypeOK, ChainOK, Pending
  <2>2. \E label \in ReadPcs : Enter(v, label, c)
    BY <1>1, <2>1 DEF HeaderRead, PayloadRead, ReadFailed
  <2> QED BY <2>1, <2>2 DEF Enter
<1>2. ASSUME NEW v \in Workers, HandlerStep(v) \/ WorkerExits(v), v # w
      PROVE  at'[w] = at[w] /\ pc'[w] = pc[w]
  BY <1>2 DEF HandlerStep, CreateSession, InsertSession, AcceptNext, RentBlock, RentFails,
              Evict, StopEvicted, NextHeader, OnDisconnected, WorkerExits, Enter, Goto, Return
<1>3. ASSUME HandlerStep(w) \/ WorkerExits(w)
      PROVE  \/ at'[w] = NoConn
             \/ at'[w] = at[w] /\ (pc[w] = "create" => CreateSession(w))
  BY <1>3 DEF HandlerStep, CreateSession, InsertSession, AcceptNext, RentBlock, RentFails,
              Evict, StopEvicted, NextHeader, OnDisconnected, WorkerExits, Enter, Goto, Return
<1>4. ASSUME NEW v \in Workers, NEW c \in Conns, Accepted(v, c)
      PROVE  \/ pc'[w] = "create"
             \/ at'[w] = at[w] /\ pc'[w] = pc[w]
  <2>1. Enter(v, "create", c) \/ UNCHANGED <<pc, at>>
    BY <1>4 DEF Accepted
  <2> QED BY <2>1 DEF Enter
<1>5. CASE ~ \/ \E v \in Workers, c \in Conns :
                   HeaderRead(v, c) \/ PayloadRead(v, c) \/ ReadFailed(v, c) \/ Accepted(v, c)
             \/ \E v \in Workers : HandlerStep(v) \/ WorkerExits(v)
  <2>1. pc' = pc /\ at' = at
    BY <1>5 DEF vars, Next, Client, ClientConnect, ClientSend, ClientDown, ClientLost, ReadCompletes,
                AcceptFailed, Stop, StopContext, CloseAcceptor
  <2> QED BY <2>1
<1> QED BY <1>1, <1>2, <1>3, <1>4, <1>5

\* Nothing becomes unmade again, and a session that is being made no longer is.
LEMMA StaysMade ==
    ASSUME ChainInv, [Next]_vars, NEW c \in Conns, Unmade(c)'
    PROVE  Unmade(c) /\ ~\E w \in Workers : CreateSession(w) /\ at[w] = c
<1> USE DEF ChainInv, TypeInv, TypeOK
<1>1. ASSUME NEW w \in Workers, pc'[w] = "create", at'[w] = c PROVE Unmade(c)
  <2>1. CASE \E v \in Workers, d \in Conns : Accepted(v, d)
    BY <1>1, <2>1 DEF Accepted, Enter, Unmade
  <2>2. CASE ~\E v \in Workers, d \in Conns : Accepted(v, d)
    <3>1. pc[w] = "create" /\ at[w] = c
      BY <1>1, <2>2 DEF vars, Next, Client, ClientConnect, ClientSend, ClientDown, ClientLost, HandlerStep,
         CreateSession, InsertSession, AcceptNext, RentBlock, RentFails, Evict, StopEvicted, NextHeader,
         OnDisconnected, ReadCompletes, HeaderRead, PayloadRead, ReadFailed, WorkerExits,
         AcceptFailed, Stop, StopContext, CloseAcceptor, Enter, Goto, Return
    <3> QED BY <3>1 DEF Unmade
  <2> QED BY <2>1, <2>2
<1>2. (peer'[c] = "new" => peer[c] = "new") /\ (c \in backlog' => c \in backlog \/ peer[c] = "new")
  BY DEF vars, peerVars, Next, Client, ClientConnect, ClientSend, ClientDown, ClientLost, HandlerStep,
         CreateSession, InsertSession, AcceptNext, RentBlock, RentFails, Evict, StopEvicted, NextHeader,
         OnDisconnected, ReadCompletes, HeaderRead, PayloadRead, ReadFailed, WorkerExits,
         Accepted, AcceptFailed, Stop, StopContext, CloseAcceptor
<1>3. Unmade(c)
  BY <1>1, <1>2 DEF Unmade
<1>4. ASSUME NEW w \in Workers, CreateSession(w), at[w] = c PROVE FALSE
  <2>1. /\ pc[w] = "create" /\ pc' = [pc EXCEPT ![w] = "insert"] /\ at' = at
        /\ peer' = peer /\ backlog' = backlog
    BY <1>4 DEF CreateSession, Goto, Enter, peerVars
  <2>2. \A v \in Workers : pc[v] = "create" => v = w
    BY <2>1 DEF SingleAccept, Accepting, AcceptPcs
  <2> QED BY <1>4, <2>1, <2>2 DEF Unmade, UnmadeUntouched
<1> QED BY <1>3, <1>4

\* Ids and the map change in four kinds of steps.
LEMMA MapMoves ==
    ASSUME ChainInv, [Next]_vars
    PROVE  /\ \/ \E w \in Workers : CreateSession(w)
              \/ session_id' = session_id /\ counter' = counter /\ running' \subseteq running
           /\ \/ \E w \in Workers : InsertSession(w) \/ Evict(w) \/ OnDisconnected(w)
              \/ connections' = connections
BY DEF vars, tcpVars, connVars, Next, Client, ClientConnect, ClientSend, ClientDown, ClientLost,
       HandlerStep, CreateSession, InsertSession, AcceptNext, RentBlock, RentFails, Evict, StopEvicted,
       NextHeader, OnDisconnected, ReadCompletes, HeaderRead, PayloadRead, ReadFailed,
       WorkerExits, Accepted, AcceptFailed, Stop, StopContext, CloseAcceptor

-----------------------------------------------------------------------------
(* Ids. The counter comes back to its first value only after IdSpace       *)
(* sessions; what is said of ids holds as long as there were no more.      *)

IdsLast == Cardinality(Made) <= IdSpace

\* How many ids the counter gives out before i.
Place(i) == IF i >= FirstId THEN i - FirstId ELSE i + IdSpace - FirstId

SessionsNamed ==
    /\ IsFiniteSet(Made)
    /\ \A c \in Conns : Unmade(c) => c \notin Made
    /\ \A w \in Workers : at[w] # NoConn /\ pc[w] # "create" => at[w] \in Made
    /\ \A i \in Ids : connections[i] # NoConn => session_id[connections[i]] = i

IdsDistinct ==
    /\ \A c \in Made : Place(session_id[c]) < Cardinality(Made)
    /\ \A c, d \in Made : session_id[c] = session_id[d] => c = d
    /\ Cardinality(Made) < IdSpace => Place(counter) = Cardinality(Made)

\* Sessions that are still in memory have ids of their own.
HeldDistinct ==
    \A c, d \in Made :
        Referenced(c) /\ Referenced(d) /\ session_id[c] = session_id[d] => c = d

IdsInv ==
    /\ ChainInv /\ SessionsNamed
    /\ IdsLast => IdsDistinct /\ RunningSessionRegistered

LEMMA PlaceType == \A i \in Ids : Place(i) \in Nat
BY ConstantsAssumption DEF Ids, Place

LEMMA PlaceInjective == \A i, j \in Ids : Place(i) = Place(j) => i = j
BY ConstantsAssumption DEF Ids, Place

LEMMA NextIdCases == counter \in Ids => NextId = IF counter + 1 = IdSpace THEN 0 ELSE counter + 1
<1>1. ASSUME NEW n \in Nat, n < IdSpace PROVE n % IdSpace = n
  BY <1>1, ConstantsAssumption
<1>2. IdSpace % IdSpace = 0
  BY ConstantsAssumption
<1> QED BY <1>1, <1>2, ConstantsAssumption DEF Ids, NextId

LEMMA NextPlace ==
    counter \in Ids /\ Place(counter) + 1 < IdSpace => Place(NextId) = Place(counter) + 1
BY NextIdCases, ConstantsAssumption DEF Ids, Place

LEMMA IdsInit == Init => IdsInv
<1> SUFFICES ASSUME Init PROVE IdsInv
  OBVIOUS
<1>1. Made = {}
  BY DEF Init, Made
<1>2. IsFiniteSet(Made) /\ Cardinality(Made) = 0
  BY <1>1, FS_EmptySet
<1>3. SessionsNamed
  BY <1>1, <1>2 DEF Init, SessionsNamed
<1>4. Place(counter) = 0
  BY ConstantsAssumption DEF Init, Place
<1> QED BY ChainInit, <1>1, <1>2, <1>3, <1>4
      DEF Init, IdsInv, IdsDistinct, RunningSessionRegistered

\* The session the accept handler makes is new, and gets the counter's id.
LEMMA SessionCreated ==
    ASSUME ChainInv, SessionsNamed, NEW w \in Workers, CreateSession(w)
    PROVE  /\ at[w] \in Conns /\ at[w] \notin Made
           /\ session_id' = [session_id EXCEPT ![at[w]] = counter]
           /\ Made' = Made \cup {at[w]} /\ counter \in Ids /\ counter' = NextId
           /\ IsFiniteSet(Made') /\ Cardinality(Made') = Cardinality(Made) + 1
<1>1. pc[w] = "create" /\ at[w] \in Conns
  BY DEF CreateSession, ChainInv, TypeInv, TypeOK, AcceptPcs
<1>2. at[w] \notin Made
  BY <1>1 DEF SessionsNamed, Unmade
<1>3. /\ session_id' = [session_id EXCEPT ![at[w]] = counter]
      /\ counter \in Ids /\ counter' = NextId /\ session_id \in [Conns -> Ids \cup {NoId}]
  BY DEF CreateSession, ChainInv, TypeInv, TypeOK
<1>4. Made' = Made \cup {at[w]}
  BY <1>1, <1>3 DEF Made, Ids, NoId
<1> QED BY <1>1, <1>2, <1>3, <1>4, FS_AddElement DEF SessionsNamed

LEMMA SessionsNamedStep ==
    ASSUME ChainInv, SessionsNamed, [Next]_vars
    PROVE  SessionsNamed'
<1>0. ChainInv' /\ TypeOK /\ TypeOK'
  BY ChainStep DEF ChainInv, TypeInv
<1>1. \/ \E w \in Workers : CreateSession(w)
      \/ session_id' = session_id /\ Made' = Made
  BY MapMoves DEF Made
<1>2. IsFiniteSet(Made') /\ Made \subseteq Made'
  BY <1>1, SessionCreated DEF SessionsNamed
<1>3. ASSUME NEW c \in Conns, Unmade(c)' PROVE c \notin Made'
  <2>1. Unmade(c) /\ ~\E w \in Workers : CreateSession(w) /\ at[w] = c
    BY <1>3, StaysMade
  <2> QED BY <1>1, <2>1, SessionCreated DEF SessionsNamed
<1>4. ASSUME NEW w \in Workers, at'[w] # NoConn, pc'[w] # "create" PROVE at'[w] \in Made'
  <2>1. CASE at'[w] = at[w] /\ (pc[w] = "create" => CreateSession(w))
    BY <1>2, <1>4, <2>1, SessionCreated DEF SessionsNamed
  <2>2. CASE at'[w] \in running
    BY <1>0, <1>2, <2>2 DEF Made, ChainInv, TypeInv, TypeOK, Identified, Ids, NoId
  <2> QED BY <1>4, <2>1, <2>2, ThreadMoves
<1>5. ASSUME NEW i \in Ids, connections'[i] # NoConn PROVE session_id'[connections'[i]] = i
  <2>1. CASE connections' = connections
    <3>1. connections[i] \in Conns /\ session_id[connections[i]] = i
      BY <1>0, <1>5, <2>1 DEF SessionsNamed, TypeOK
    <3>2. connections[i] \in Made
      BY <3>1 DEF Made, Ids, NoId
    <3>3. ASSUME NEW w \in Workers, CreateSession(w) PROVE session_id'[connections[i]] = i
      <4>1. at[w] # connections[i] /\ session_id' = [session_id EXCEPT ![at[w]] = counter]
        BY <3>2, <3>3, SessionCreated
      <4> QED BY <1>0, <3>1, <4>1 DEF TypeOK
    <3> QED BY <1>1, <2>1, <3>1, <3>3
  <2>2. ASSUME NEW w \in Workers, InsertSession(w) PROVE session_id'[connections'[i]] = i
    <3>1. /\ session_id' = session_id
          /\ connections' = [connections EXCEPT ![session_id[at[w]]] = at[w]]
      BY <2>2 DEF InsertSession
    <3> QED BY <1>0, <1>5, <3>1 DEF SessionsNamed, TypeOK
  <2>3. ASSUME NEW w \in Workers, Evict(w) \/ OnDisconnected(w)
        PROVE  session_id'[connections'[i]] = i
    <3>1. /\ session_id' = session_id
          /\ connections' = [connections EXCEPT ![session_id[at[w]]] = NoConn]
      BY <2>3 DEF Evict, OnDisconnected, Disconnect
    <3> QED BY <1>0, <1>5, <3>1 DEF SessionsNamed, TypeOK
  <2> QED BY <2>1, <2>2, <2>3, MapMoves
<1> QED BY <1>2, <1>3, <1>4, <1>5 DEF SessionsNamed

LEMMA IdsLastBackwards ==
    ASSUME ChainInv, SessionsNamed, [Next]_vars, IdsLast' PROVE IdsLast
<1>1. CASE session_id' = session_id
  BY <1>1 DEF IdsLast, Made
<1>2. ASSUME NEW w \in Workers, CreateSession(w) PROVE IdsLast
  BY <1>2, SessionCreated, FS_CardinalityType, ConstantsAssumption DEF IdsLast, SessionsNamed
<1> QED BY <1>1, <1>2, MapMoves

LEMMA IdsDistinctStep ==
    ASSUME ChainInv, SessionsNamed, IdsDistinct, [Next]_vars, IdsLast'
    PROVE  IdsDistinct'
<1>1. CASE session_id' = session_id /\ counter' = counter
  BY <1>1 DEF IdsDistinct, Made, Place
<1>2. ASSUME NEW w \in Workers, CreateSession(w) PROVE IdsDistinct'
  <2> DEFINE n == Cardinality(Made)
             c == at[w]
  <2>1. /\ c \in Conns /\ c \notin Made /\ Made' = Made \cup {c} /\ counter \in Ids
        /\ session_id' = [session_id EXCEPT ![c] = counter] /\ counter' = NextId
        /\ Cardinality(Made') = n + 1
    BY <1>2, SessionCreated
  <2>2. n \in Nat /\ n + 1 <= IdSpace /\ IdSpace \in Nat
    BY <2>1, FS_CardinalityType, ConstantsAssumption DEF SessionsNamed, IdsLast
  <2>3. Place(counter) = n
    BY <2>2 DEF IdsDistinct
  <2>4. /\ session_id'[c] = counter
        /\ \A d \in Made : session_id'[d] = session_id[d] /\ session_id[d] \in Ids
    BY <2>1 DEF Made, ChainInv, TypeInv, TypeOK
  <2>5. \A d \in Made : Place(session_id[d]) < n /\ session_id[d] # counter
    BY <2>2, <2>3 DEF IdsDistinct
  <2>6. \A d \in Made' : Place(session_id'[d]) < n + 1
    BY <2>1, <2>2, <2>3, <2>4, <2>5, PlaceType
  <2>7. \A d, e \in Made' : session_id'[d] = session_id'[e] => d = e
    BY <2>1, <2>4, <2>5 DEF IdsDistinct
  <2>8. n + 1 < IdSpace => Place(counter') = n + 1
    BY <2>1, <2>2, <2>3, NextPlace
  <2> QED BY <2>1, <2>6, <2>7, <2>8 DEF IdsDistinct, Place
<1> QED BY <1>1, <1>2, MapMoves

\* A thread stays where it is in its handler until it takes that handler's next step.
LEMMA HandlerWaits ==
    ASSUME ChainInv, [Next]_vars, NEW w \in Workers,
           pc[w] \notin {"idle", "exited"}, ~HandlerStep(w)
    PROVE  pc'[w] = pc[w] /\ at'[w] = at[w]
<1>0. ThreadsOK
  BY DEF ChainInv, TypeInv, TypeOK, ThreadsOK
<1>1. ASSUME NEW v \in Workers, HandlerStep(v) \/ WorkerExits(v)
      PROVE  pc'[w] = pc[w] /\ at'[w] = at[w]
  <2>1. v # w
    BY <1>1 DEF WorkerExits
  <2> QED BY <1>0, <1>1, <2>1
    DEF ThreadsOK, HandlerStep, CreateSession, InsertSession, AcceptNext, RentBlock, RentFails,
        Evict, StopEvicted, NextHeader, OnDisconnected, WorkerExits, Enter, Goto, Return
<1>2. ASSUME NEW v \in Workers, NEW c \in Conns,
             HeaderRead(v, c) \/ PayloadRead(v, c) \/ ReadFailed(v, c) \/ Accepted(v, c)
      PROVE  pc'[w] = pc[w] /\ at'[w] = at[w]
  <2>1. CanRun(v) /\ ((\E label : Enter(v, label, c)) \/ UNCHANGED <<pc, at>>)
    BY <1>2 DEF HeaderRead, PayloadRead, ReadFailed, Accepted
  <2> QED BY <1>0, <2>1 DEF ThreadsOK, CanRun, Enter
<1>3. ASSUME \/ \E c \in Conns : Client(c)
             \/ \E v \in Workers, err \in AcceptErrors : AcceptFailed(v, err)
             \/ Stop \/ StopContext \/ CloseAcceptor \/ UNCHANGED vars
      PROVE  pc' = pc /\ at' = at
  BY <1>3 DEF vars, Client, ClientConnect, ClientSend, ClientDown, ClientLost, AcceptFailed, Stop,
              StopContext, CloseAcceptor
<1> QED BY <1>1, <1>2, <1>3 DEF Next, ReadCompletes

\* A session that waits to be inserted, or to be stopped, waits until it is.
LEMMA InsertPending ==
    ASSUME ChainInv, [Next]_vars, NEW w \in Workers, pc[w] = "insert", ~InsertSession(w)
    PROVE  pc'[w] = "insert" /\ at'[w] = at[w]
BY HandlerWaits DEF HandlerStep, CreateSession, AcceptNext, RentBlock, RentFails, Evict,
                    StopEvicted, NextHeader, OnDisconnected

LEMMA StopPending ==
    ASSUME ChainInv, [Next]_vars, NEW w \in Workers, pc[w] = "stop", ~StopEvicted(w)
    PROVE  pc'[w] = "stop" /\ at'[w] = at[w]
BY HandlerWaits DEF HandlerStep, CreateSession, InsertSession, AcceptNext, RentBlock, RentFails,
                    Evict, NextHeader, OnDisconnected

LEMMA RunningHeld == ASSUME ChainInv, NEW c \in running PROVE c \in Conns /\ Referenced(c)
<1>1. c \in Conns /\ ChainOK(c)
  BY DEF ChainInv, TypeInv, TypeOK
<1> QED BY <1>1 DEF ChainOK, Pending, Handles, Referenced

LEMMA RegisteredStep ==
    ASSUME ChainInv, SessionsNamed, HeldDistinct, RunningSessionRegistered, [Next]_vars
    PROVE  RunningSessionRegistered'
<1> SUFFICES ASSUME NEW c \in running'
             PROVE  \/ connections'[session_id'[c]] = c
                    \/ \E w \in Workers : at'[w] = c /\ pc'[w] \in {"insert", "stop"}
  BY DEF RunningSessionRegistered
<1>0. TypeOK /\ Identified
  BY DEF ChainInv, TypeInv
<1>1. CASE \E w \in Workers : CreateSession(w) /\ at[w] = c
  BY <1>0, <1>1 DEF CreateSession, Goto, Enter, TypeOK
<1>2. CASE ~\E w \in Workers : CreateSession(w) /\ at[w] = c
  <2>1. c \in running /\ c \in Conns /\ session_id'[c] = session_id[c]
    <3>1. ASSUME NEW w \in Workers, CreateSession(w)
          PROVE  c \in running /\ session_id'[c] = session_id[c]
      <4>1. /\ running' = running \cup {at[w]} /\ at[w] # c
            /\ session_id' = [session_id EXCEPT ![at[w]] = counter]
        BY <1>2, <3>1 DEF CreateSession
      <4> QED BY <1>0, <4>1 DEF TypeOK
    <3>2. c \in running /\ session_id'[c] = session_id[c]
      BY <3>1, MapMoves
    <3> QED BY <1>0, <3>2 DEF TypeOK
  <2>2. session_id[c] \in Ids /\ c \in Made /\ Referenced(c)
    BY <1>0, <2>1, RunningHeld DEF Identified, Made, Ids, NoId
  <2>3. ASSUME NEW w \in Workers, at[w] = c, pc[w] = "insert"
        PROVE  \/ connections'[session_id[c]] = c
               \/ at'[w] = c /\ pc'[w] = "insert"
    <3>1. CASE InsertSession(w)
      BY <1>0, <2>2, <2>3, <3>1 DEF InsertSession, TypeOK
    <3> QED BY <2>3, <3>1, InsertPending
  <2>4. ASSUME NEW w \in Workers, at[w] = c, pc[w] = "stop"
        PROVE  at'[w] = c /\ pc'[w] = "stop"
    <3>1. ~StopEvicted(w)
      BY <2>4 DEF StopEvicted
    <3> QED BY <2>4, <3>1, StopPending
  <2>5. ASSUME NEW w \in Workers, Evict(w), at[w] = c PROVE at'[w] = c /\ pc'[w] = "stop"
    BY <1>0, <2>5 DEF Evict, Goto, Enter, TypeOK
  <2>6. ASSUME connections[session_id[c]] = c, ~\E w \in Workers : Evict(w) /\ at[w] = c
        PROVE  connections'[session_id[c]] = c
    <3>1. ASSUME NEW w \in Workers, InsertSession(w) PROVE connections'[session_id[c]] = c
      <4>1. /\ connections' = [connections EXCEPT ![session_id[at[w]]] = at[w]]
            /\ at[w] \in Made /\ Referenced(at[w])
        BY <1>0, <3>1 DEF InsertSession, SessionsNamed, TypeOK, AcceptPcs, Referenced
      <4> QED BY <1>0, <2>2, <2>6, <4>1 DEF HeldDistinct, TypeOK
    <3>2. ASSUME NEW w \in Workers, Evict(w) \/ OnDisconnected(w)
          PROVE  connections'[session_id[c]] = c
      <4>1. /\ connections' = [connections EXCEPT ![session_id[at[w]]] = NoConn]
            /\ at[w] \in Made /\ at[w] \in Conns /\ Referenced(at[w])
        BY <1>0, <3>2
        DEF Evict, OnDisconnected, Disconnect, SessionsNamed, TypeOK, ReadPcs, Referenced
      <4>2. at[w] # c
        <5>1. CASE Evict(w)
          BY <2>6, <5>1
        <5>2. CASE OnDisconnected(w)
          <6>1. pc[w] = "disconnect"
            BY <5>2 DEF OnDisconnected
          <6> QED BY <2>1, <4>1, <6>1 DEF ChainInv, ChainOK, Handles, ReadPcs
        <5> QED BY <3>2, <5>1, <5>2
      <4> QED BY <1>0, <2>2, <2>6, <4>1, <4>2 DEF HeldDistinct, TypeOK
    <3> QED BY <2>6, <3>1, <3>2, MapMoves
  <2> QED BY <2>1, <2>3, <2>4, <2>5, <2>6 DEF RunningSessionRegistered
<1> QED BY <1>1, <1>2

LEMMA IdsStep == IdsInv /\ [Next]_vars => IdsInv'
<1> SUFFICES ASSUME IdsInv, [Next]_vars PROVE IdsInv'
  OBVIOUS
<1>1. ChainInv' /\ SessionsNamed'
  BY ChainStep, SessionsNamedStep DEF IdsInv
<1>2. ASSUME IdsLast' PROVE IdsDistinct' /\ RunningSessionRegistered'
  <2>1. IdsDistinct /\ HeldDistinct /\ RunningSessionRegistered
    BY <1>2, IdsLastBackwards DEF IdsInv, IdsDistinct, HeldDistinct
  <2> QED BY <1>2, <2>1, IdsDistinctStep, RegisteredStep DEF IdsInv
<1> QED BY <1>1, <1>2 DEF IdsInv

\* As long as the counter has not come round, no two sessions that live or are
\* registered share an id.
THEOREM IdsUnique == Spec => [](IdsLast => SessionIdsUnique)
<1>1. ASSUME IdsInv, IdsLast PROVE SessionIdsUnique
  <2>1. ASSUME NEW c \in Conns, Known(c) PROVE c \in Made
    BY <1>1, <2>1, ConstantsAssumption
    DEF Known, Made, Ids, NoId, IdsInv, ChainInv, TypeInv, Identified, SessionsNamed
  <2> QED BY <1>1, <2>1 DEF IdsInv, IdsDistinct, SessionIdsUnique
<1>2. IdsInv => (IdsLast => SessionIdsUnique)
  BY <1>1
<1> QED BY IdsInit, IdsStep, <1>2, PTL DEF Spec

\* As long as the counter has not come round, a running session is registered under
\* its id from its insertion until a handler of its own has evicted it and is about to
\* stop it: nobody else's insert or disconnect removes it, although other threads can
\* come between the eviction and the stop.
THEOREM SessionsRegistered == Spec => [](IdsLast => RunningSessionRegistered)
<1>1. IdsInv => (IdsLast => RunningSessionRegistered)
  BY DEF IdsInv
<1> QED BY IdsInit, IdsStep, <1>1, PTL DEF Spec

-----------------------------------------------------------------------------
(* Ids that come round. All that is needed is that the counter finds no    *)
(* session in memory with the id it gives out.                             *)

IdsNotReused ==
    \A w \in Workers : CreateSession(w) =>
        \A c \in Conns : Referenced(c) => session_id[c] # counter

HeldInv == ChainInv /\ SessionsNamed /\ HeldDistinct /\ RunningSessionRegistered

\* A session that nobody refers to any more is gone for good.
LEMMA HeldBefore ==
    ASSUME ChainInv, SessionsNamed, [Next]_vars, NEW c \in Made, Referenced(c)'
    PROVE  Referenced(c)
<1>0. /\ ChainInv' /\ SessionsNamed' /\ c \in Conns /\ TypeOK /\ TypeOK'
      /\ header_reads[c] + payload_reads[c] > 0 => Referenced(c)
  BY ChainStep, SessionsNamedStep DEF ChainInv, TypeInv, Made, Referenced
<1>1. ASSUME header_reads'[c] + payload_reads'[c] > 0 PROVE Referenced(c)
  <2>1. c \in running'
    BY <1>0, <1>1 DEF ChainInv, ChainOK, Pending
  <2>2. c \in running \/ \E w \in Workers : CreateSession(w) /\ at[w] = c
    BY <2>1, MapMoves DEF CreateSession
  <2> QED BY <2>2, RunningHeld DEF Referenced
<1>2. ASSUME NEW w \in Workers, at'[w] = c PROVE Referenced(c)
  <2>1. c # NoConn
    BY <1>0, ConstantsAssumption
  <2>2. pc'[w] # "create"
    <3>1. c \in Made'
      BY <1>0, MapMoves, SessionCreated DEF Made
    <3> QED BY <1>0, <1>2, <3>1 DEF SessionsNamed, Unmade
  <2> QED BY <1>2, <2>1, <2>2, ThreadMoves, RunningHeld DEF Referenced
<1>3. ASSUME NEW i \in Ids, connections'[i] = c PROVE Referenced(c)
  <2>1. ASSUME NEW w \in Workers, InsertSession(w) PROVE Referenced(c)
    BY <1>0, <1>3, <2>1 DEF InsertSession, Referenced, TypeOK
  <2>2. ASSUME NEW w \in Workers, Evict(w) \/ OnDisconnected(w) PROVE Referenced(c)
    BY <1>0, <1>3, <2>2, ConstantsAssumption
    DEF Evict, OnDisconnected, Disconnect, Referenced, TypeOK
  <2> QED BY <1>3, <2>1, <2>2, MapMoves DEF Referenced
<1> QED BY <1>1, <1>2, <1>3 DEF Referenced

LEMMA HeldDistinctStep ==
    ASSUME ChainInv, SessionsNamed, HeldDistinct, [Next]_vars, [IdsNotReused]_vars
    PROVE  HeldDistinct'
<1>1. CASE session_id' = session_id
  BY <1>1, HeldBefore DEF HeldDistinct, Made
<1>2. ASSUME NEW w \in Workers, CreateSession(w) PROVE HeldDistinct'
  <2>1. /\ at[w] \in Conns /\ at[w] \notin Made /\ Made' = Made \cup {at[w]}
        /\ session_id' = [session_id EXCEPT ![at[w]] = counter] /\ counter \in Ids
    BY <1>2, SessionCreated
  <2>2. /\ session_id'[at[w]] = counter
        /\ \A d \in Made : session_id'[d] = session_id[d]
    BY <2>1 DEF Made, ChainInv, TypeInv, TypeOK
  <2>3. ~ UNCHANGED vars
    BY <2>1, <2>2 DEF vars, connVars, Made, Ids, NoId
  <2>4. \A d \in Made : Referenced(d) => session_id[d] # counter
    BY <1>2, <2>3 DEF IdsNotReused, Made
  <2> QED BY <2>1, <2>2, <2>4, HeldBefore DEF HeldDistinct
<1> QED BY <1>1, <1>2, MapMoves

\* If no id is given out that a session in memory still has, then no two sessions that
\* live or are registered ever share one, and each stays registered while it runs until
\* its own handler has evicted it, however often the counter comes round.
THEOREM IdsReusedLate ==
    Spec /\ [][IdsNotReused]_vars => [](SessionIdsUnique /\ RunningSessionRegistered)
<1>1. Init => HeldInv
  BY IdsInit DEF Init, HeldInv, IdsInv, HeldDistinct, RunningSessionRegistered, Made
<1>2. HeldInv /\ [Next]_vars /\ [IdsNotReused]_vars => HeldInv'
  BY ChainStep, SessionsNamedStep, HeldDistinctStep, RegisteredStep DEF HeldInv
<1>3. HeldInv => SessionIdsUnique /\ RunningSessionRegistered
  <2> SUFFICES ASSUME HeldInv PROVE SessionIdsUnique
    BY DEF HeldInv
  <2>1. ASSUME NEW c \in Conns, Known(c) PROVE c \in Made /\ Referenced(c)
    BY <2>1, RunningHeld, ConstantsAssumption
    DEF Known, Made, Referenced, Ids, NoId, HeldInv, ChainInv, TypeInv, Identified, SessionsNamed
  <2> QED BY <2>1 DEF HeldInv, HeldDistinct, SessionIdsUnique
<1> QED BY <1>1, <1>2, <1>3, PTL DEF Spec

-----------------------------------------------------------------------------
(* What is left over. With one io thread nothing happens to a session      *)
(* between its start and its insertion; without refusals of the pool no    *)
(* session stops with its socket open.                                     *)

OneThread  == \A v, w \in Workers : v = w
NoRefusals == ~RentMayFail

\* With one thread, the accept handler's session runs until the handler is done.
StartedRuns == \A w \in Workers : pc[w] \in {"insert", "rearm"} => at[w] \in running

\* With one thread, an evicted session that is about to be stopped stays off the map.
EvictedOffMap ==
    \A w \in Workers, i \in Ids : pc[w] = "stop" => connections[i] # at[w]

Leftovers ==
    /\ OneThread => StartedRuns /\ EvictedOffMap /\ DeadSessionsLeave
    /\ NoRefusals => \A w \in Workers : pc[w] \notin {"evict", "stop"}
    /\ OneThread \/ NoRefusals => open \subseteq running

LeftoverInv == ChainInv /\ SessionsNamed /\ Leftovers

\* Sessions stop in two ways, and their sockets are opened in one.
LEMMA RunMoves ==
    ASSUME ChainInv, [Next]_vars
    PROVE  /\ \/ running \subseteq running'
              \/ \E w \in Workers : StopEvicted(w)
              \/ \E w \in Workers, c \in Conns : ReadFailed(w, c)
           /\ \/ open' \subseteq open
              \/ \E w \in Workers : CreateSession(w)
BY DEF vars, connVars, Next, Client, ClientConnect, ClientSend, ClientDown, ClientLost, HandlerStep,
       CreateSession, InsertSession, AcceptNext, RentBlock, RentFails, Evict, StopEvicted, NextHeader,
       OnDisconnected, ReadCompletes, HeaderRead, PayloadRead, ReadFailed, WorkerExits,
       Accepted, AcceptFailed, Stop, StopContext, CloseAcceptor, DestroyUnreferenced

LEMMA StartedRunsStep ==
    ASSUME ChainInv, OneThread, StartedRuns, [Next]_vars
    PROVE  StartedRuns'
<1> SUFFICES ASSUME NEW w \in Workers, pc'[w] \in {"insert", "rearm"}
             PROVE  at'[w] \in running'
  BY DEF StartedRuns
<1>0. ThreadsOK
  BY DEF ChainInv, TypeInv, TypeOK, ThreadsOK
<1> USE <1>0 DEF ThreadsOK, OneThread
<1>1. ASSUME NEW v \in Workers, HandlerStep(v) PROVE at'[w] \in running'
  <2>1. v = w
    OBVIOUS
  <2>2. CASE CreateSession(w)
    BY <2>2 DEF CreateSession, Goto, Enter
  <2>3. CASE InsertSession(w)
    BY <2>3 DEF InsertSession, Goto, Enter, StartedRuns
  <2>4. CASE ~(CreateSession(w) \/ InsertSession(w))
    <3>1. pc'[w] \in {"idle", "evict", "stop"}
      BY <1>1, <2>1, <2>4 DEF HandlerStep, AcceptNext, RentBlock, RentFails, Evict, StopEvicted,
                              NextHeader, OnDisconnected, Goto, Enter, Return
    <3> QED BY <3>1
  <2> QED BY <2>2, <2>3, <2>4
<1>2. ASSUME NEW v \in Workers, NEW c \in Conns,
             HeaderRead(v, c) \/ PayloadRead(v, c) \/ ReadFailed(v, c) \/ Accepted(v, c)
      PROVE  FALSE
  <2>1. /\ v = w /\ pc[v] = "idle"
        /\ \/ \E label \in {"rent", "next_header", "disconnect", "create"} : Enter(v, label, c)
           \/ UNCHANGED <<pc, at>>
    BY <1>2 DEF HeaderRead, PayloadRead, ReadFailed, Accepted, CanRun
  <2> QED BY <2>1 DEF Enter
<1>3. ASSUME NEW v \in Workers, WorkerExits(v) PROVE FALSE
  BY <1>3 DEF WorkerExits
<1>4. ASSUME \/ \E c \in Conns : Client(c)
             \/ \E v \in Workers, err \in AcceptErrors : AcceptFailed(v, err)
             \/ Stop \/ StopContext \/ CloseAcceptor \/ UNCHANGED vars
      PROVE  at'[w] \in running'
  <2>1. pc' = pc /\ at' = at /\ running' = running
    BY <1>4 DEF vars, connVars, Client, ClientConnect, ClientSend, ClientDown, ClientLost, AcceptFailed,
                Stop, StopContext, CloseAcceptor
  <2> QED BY <2>1 DEF StartedRuns
<1> QED BY <1>1, <1>2, <1>3, <1>4 DEF Next, ReadCompletes

\* The thread that handles a session's read goes on, arms the next read or, with the
\* session stopped, is done.
LEMMA ReadingMoves ==
    ASSUME ChainInv, [Next]_vars, NEW w \in Workers, NEW c \in Conns, w \in Reading(c)
    PROVE  \/ w \in Reading(c)'
           \/ (RentBlock(w) \/ NextHeader(w)) /\ c \in running /\ running' = running
           \/ StopEvicted(w) \/ OnDisconnected(w)
<1>0. ThreadsOK
  BY DEF ChainInv, TypeInv, TypeOK, ThreadsOK
<1>1. at[w] = c /\ pc[w] \in ReadPcs
  BY DEF Reading
<1> USE <1>0, <1>1 DEF ThreadsOK
<1>2. CASE ~HandlerStep(w)
  BY <1>2, HandlerWaits DEF Reading, ReadPcs
<1>3. CASE RentBlock(w) \/ NextHeader(w)
  <2>1. running' = running /\ pc[w] # "disconnect"
    BY <1>3 DEF RentBlock, NextHeader
  <2> QED BY <1>3, <2>1 DEF ChainInv, ChainOK, Handles
<1>4. CASE RentFails(w) \/ Evict(w)
  BY <1>4 DEF RentFails, Evict, Goto, Enter, Reading, ReadPcs
<1>5. CASE CreateSession(w) \/ InsertSession(w) \/ AcceptNext(w)
  BY <1>5 DEF CreateSession, InsertSession, AcceptNext, ReadPcs
<1> QED BY <1>2, <1>3, <1>4, <1>5 DEF HandlerStep

\* on_disconnected takes a session off the map, wherever it is.
LEMMA DisconnectErases ==
    ASSUME ChainInv, SessionsNamed, NEW w \in Workers, Evict(w) \/ OnDisconnected(w)
    PROVE  \A i \in Ids : connections'[i] # NoConn =>
               connections'[i] = connections[i] /\ connections'[i] # at[w]
<1>1. connections' = [connections EXCEPT ![session_id[at[w]]] = NoConn]
  BY DEF Evict, OnDisconnected, Disconnect
<1> QED BY <1>1 DEF SessionsNamed, ChainInv, TypeInv, TypeOK

LEMMA EvictedOffMapStep ==
    ASSUME ChainInv, SessionsNamed, OneThread, EvictedOffMap, [Next]_vars
    PROVE  EvictedOffMap'
<1> SUFFICES ASSUME NEW w \in Workers, NEW i \in Ids, pc'[w] = "stop"
             PROVE  connections'[i] # at'[w]
  BY DEF EvictedOffMap
<1>0. ThreadsOK /\ at[w] # NoConn
  <2>1. ThreadsOK /\ ThreadsOK'
    BY ChainStep DEF ChainInv, TypeInv, TypeOK, ThreadsOK
  <2>2. pc[w] \notin {"idle", "exited"}
    <3>1. ASSUME NEW v \in Workers, NEW c \in Conns,
                 HeaderRead(v, c) \/ PayloadRead(v, c) \/ ReadFailed(v, c) \/ Accepted(v, c)
          PROVE  pc'[w] # "stop" \/ pc'[w] = pc[w]
      <4>1. \/ \E label \in {"rent", "next_header", "disconnect", "create"} : Enter(v, label, c)
            \/ UNCHANGED <<pc, at>>
        BY <3>1 DEF HeaderRead, PayloadRead, ReadFailed, Accepted
      <4> QED BY <2>1, <4>1 DEF ThreadsOK, Enter
    <3>2. ASSUME NEW v \in Workers, HandlerStep(v) \/ WorkerExits(v)
          PROVE  pc[w] \notin {"idle", "exited"} \/ pc'[w] = "exited"
      BY <2>1, <3>2
      DEF ThreadsOK, OneThread, HandlerStep, CreateSession, InsertSession, AcceptNext, RentBlock,
          RentFails, Evict, StopEvicted, NextHeader, OnDisconnected, WorkerExits
    <3>3. ASSUME \/ \E c \in Conns : Client(c)
                 \/ \E v \in Workers, err \in AcceptErrors : AcceptFailed(v, err)
                 \/ Stop \/ StopContext \/ CloseAcceptor \/ UNCHANGED vars
          PROVE  pc' = pc
      BY <3>3 DEF vars, Client, ClientConnect, ClientSend, ClientDown, ClientLost, AcceptFailed,
                  Stop, StopContext, CloseAcceptor
    <3> QED BY <3>1, <3>2, <3>3 DEF Next, ReadCompletes
  <2> QED BY <2>1, <2>2 DEF ThreadsOK
<1>1. CASE Evict(w)
  <2>1. at'[w] = at[w]
    BY <1>0, <1>1 DEF Evict, Goto, Enter, ThreadsOK
  <2> QED BY <1>0, <1>1, <2>1, DisconnectErases
<1>2. CASE ~Evict(w)
  <2>1. ~(InsertSession(w) \/ OnDisconnected(w))
    BY <1>0 DEF InsertSession, OnDisconnected, Goto, Enter, Return, ThreadsOK
  <2>2. connections' = connections
    BY <1>2, <2>1, MapMoves DEF OneThread
  <2>3. ~HandlerStep(w)
    BY <1>0, <1>2, <2>1
    DEF ThreadsOK, HandlerStep, CreateSession, AcceptNext, RentBlock, RentFails,
        StopEvicted, NextHeader, Enter, Goto, Return
  <2>4. pc'[w] = pc[w] /\ at'[w] = at[w]
    BY <1>0, <2>3, HandlerWaits DEF ThreadsOK, AcceptPcs, ReadPcs
  <2> QED BY <2>2, <2>4 DEF EvictedOffMap
<1> QED BY <1>1, <1>2

LEMMA DeadLeaveStep ==
    ASSUME ChainInv, SessionsNamed, OneThread, StartedRuns, EvictedOffMap,
           DeadSessionsLeave, [Next]_vars
    PROVE  DeadSessionsLeave'
<1> SUFFICES ASSUME NEW i \in Ids, connections'[i] # NoConn
             PROVE  \/ connections'[i] \in running'
                    \/ \E w \in Workers : at'[w] = connections'[i] /\ pc'[w] \in ReadPcs
  BY DEF DeadSessionsLeave, Reading
<1>0. TypeOK
  BY DEF ChainInv, TypeInv
<1>1. PICK c \in Conns : connections'[i] = c
  BY ChainStep DEF ChainInv, TypeInv, TypeOK
<1>2. ASSUME NEW w \in Workers, InsertSession(w), connections[i] # c
      PROVE  c \in running'
  BY <1>0, <1>1, <1>2 DEF InsertSession, StartedRuns, TypeOK
<1>3. ASSUME connections[i] = c PROVE c \in running' \/ Reading(c)' # {}
  <2>1. c \in running \/ Reading(c) # {}
    BY <1>1, <1>3 DEF DeadSessionsLeave
  <2>2. ASSUME NEW w \in Workers, StopEvicted(w) \/ OnDisconnected(w) PROVE at[w] # c
    <3>1. CASE StopEvicted(w)
      BY <1>3, <3>1 DEF StopEvicted, EvictedOffMap
    <3> QED BY <1>1, <2>2, <3>1, DisconnectErases
  <2>3. ASSUME c \in running, c \notin running' PROVE Reading(c)' # {}
    <3>1. ASSUME NEW w \in Workers, StopEvicted(w) PROVE FALSE
      BY <2>2, <2>3, <3>1 DEF StopEvicted
    <3>2. ASSUME NEW w \in Workers, NEW d \in Conns, ReadFailed(w, d) PROVE w \in Reading(c)'
      BY <1>0, <2>3, <3>2 DEF ReadFailed, Enter, Reading, ReadPcs, TypeOK
    <3> QED BY <2>3, <3>1, <3>2, RunMoves
  <2>4. ASSUME NEW w \in Workers, w \in Reading(c) PROVE c \in running' \/ w \in Reading(c)'
    <3>1. at[w] = c
      BY <2>4 DEF Reading
    <3> QED BY <2>2, <2>4, <3>1, ReadingMoves
  <2>5. Reading(c) \subseteq Workers
    BY DEF Reading
  <2> QED BY <2>1, <2>3, <2>4, <2>5
<1>4. connections[i] = c \/ \E w \in Workers : InsertSession(w)
  <2>1. ASSUME NEW w \in Workers, Evict(w) \/ OnDisconnected(w) PROVE connections[i] = c
    BY <1>1, <2>1, DisconnectErases
  <2> QED BY <1>1, <2>1, MapMoves
<1>5. Reading(c)' # {} => \E w \in Workers : at'[w] = c /\ pc'[w] \in ReadPcs
  BY DEF Reading
<1> QED BY <1>1, <1>2, <1>3, <1>4, <1>5

\* The pool that never refuses evicts nobody.
LEMMA NobodyEvicted ==
    ASSUME ChainInv, [Next]_vars, NoRefusals,
           \A w \in Workers : pc[w] \notin {"evict", "stop"}
    PROVE  \A w \in Workers : pc'[w] \notin {"evict", "stop"}
<1> SUFFICES ASSUME NEW w \in Workers, pc'[w] \in {"evict", "stop"} PROVE FALSE
  OBVIOUS
<1>0. ThreadsOK
  BY DEF ChainInv, TypeInv, TypeOK, ThreadsOK
<1>1. ASSUME NEW v \in Workers, HandlerStep(v) \/ WorkerExits(v) PROVE FALSE
  BY <1>0, <1>1 DEF ThreadsOK, NoRefusals, HandlerStep, CreateSession, InsertSession, AcceptNext,
       RentBlock, RentFails, Evict, StopEvicted, NextHeader, OnDisconnected, WorkerExits, Enter, Goto, Return
<1>2. ASSUME NEW v \in Workers, NEW c \in Conns,
             HeaderRead(v, c) \/ PayloadRead(v, c) \/ ReadFailed(v, c) \/ Accepted(v, c)
      PROVE  FALSE
  <2>1. \/ \E label \in {"rent", "next_header", "disconnect", "create"} : Enter(v, label, c)
        \/ UNCHANGED <<pc, at>>
    BY <1>2 DEF HeaderRead, PayloadRead, ReadFailed, Accepted
  <2> QED BY <1>0, <2>1 DEF ThreadsOK, Enter
<1>3. ASSUME \/ \E c \in Conns : Client(c)
             \/ \E v \in Workers, err \in AcceptErrors : AcceptFailed(v, err)
             \/ Stop \/ StopContext \/ CloseAcceptor \/ UNCHANGED vars
      PROVE  pc' = pc
  BY <1>3 DEF vars, Client, ClientConnect, ClientSend, ClientDown, ClientLost, AcceptFailed, Stop,
              StopContext, CloseAcceptor
<1> QED BY <1>1, <1>2, <1>3 DEF Next, ReadCompletes

\* An evicted session has no reads left, is off the map, and with one thread has no
\* accept handler either: when it is stopped its last reference goes, and the socket
\* with it.
LEMMA EvictCloses ==
    ASSUME ChainInv, EvictedOffMap, [Next]_vars, OneThread, NEW w \in Workers, StopEvicted(w)
    PROVE  at[w] \notin open'
<1>0. ThreadsOK /\ TypeOK
  BY DEF ChainInv, TypeInv, TypeOK, ThreadsOK
<1>1. PICK c \in Conns : c = at[w] /\ pc[w] = "stop"
  BY <1>0 DEF StopEvicted, ThreadsOK, ReadPcs
<1>2. header_reads'[c] = 0 /\ payload_reads'[c] = 0
  <2>1. Pending(c) = 0
    BY <1>1 DEF ChainInv, ChainOK, Handles, ReadPcs
  <2> QED BY <1>0, <2>1 DEF StopEvicted, Pending, TypeOK
<1>3. \A v \in Workers : at'[v] # c
  BY <1>0, <1>1, ConstantsAssumption DEF StopEvicted, Return, Enter, OneThread, ThreadsOK
<1>4. \A i \in Ids : connections'[i] # c
  BY <1>1 DEF StopEvicted, EvictedOffMap
<1>5. ~Referenced(c)'
  BY <1>2, <1>3, <1>4 DEF Referenced
<1> QED BY <1>1, <1>5 DEF StopEvicted, DestroyUnreferenced

LEMMA OpenRunsStep ==
    ASSUME ChainInv, [Next]_vars, open \subseteq running,
           \/ OneThread /\ EvictedOffMap
           \/ NoRefusals /\ \A w \in Workers : pc[w] \notin {"evict", "stop"}
    PROVE  open' \subseteq running'
<1>1. ASSUME NEW w \in Workers, CreateSession(w) PROVE open' \subseteq running'
  BY <1>1 DEF CreateSession
<1>2. ASSUME NEW w \in Workers, StopEvicted(w) PROVE open' \subseteq running'
  <2>1. OneThread /\ EvictedOffMap
    BY <1>2 DEF StopEvicted
  <2>2. open' \subseteq open /\ running' = running \ {at[w]}
    BY <1>2 DEF StopEvicted, DestroyUnreferenced
  <2> QED BY <1>2, <2>1, <2>2, EvictCloses
<1>3. ASSUME NEW w \in Workers, NEW c \in Conns, ReadFailed(w, c) PROVE open' \subseteq running'
  BY <1>3 DEF ReadFailed
<1> QED BY <1>1, <1>2, <1>3, RunMoves

LEMMA LeftoverInit == Init => LeftoverInv
<1> SUFFICES ASSUME Init PROVE LeftoverInv
  OBVIOUS
<1>1. ChainInv /\ SessionsNamed
  BY ChainInit, IdsInit DEF IdsInv
<1> QED BY <1>1 DEF Init, LeftoverInv, Leftovers, StartedRuns, EvictedOffMap, DeadSessionsLeave

LEMMA LeftoverStep == LeftoverInv /\ [Next]_vars => LeftoverInv'
<1> SUFFICES ASSUME LeftoverInv, [Next]_vars PROVE LeftoverInv'
  OBVIOUS
<1>1. ChainInv' /\ SessionsNamed'
  BY ChainStep, SessionsNamedStep DEF LeftoverInv
<1>2. ASSUME OneThread PROVE StartedRuns' /\ EvictedOffMap' /\ DeadSessionsLeave'
  BY <1>2, StartedRunsStep, EvictedOffMapStep, DeadLeaveStep DEF LeftoverInv, Leftovers
<1>3. ASSUME NoRefusals PROVE \A w \in Workers : pc'[w] \notin {"evict", "stop"}
  BY <1>3, NobodyEvicted DEF LeftoverInv, Leftovers
<1>4. ASSUME OneThread \/ NoRefusals PROVE open' \subseteq running'
  BY <1>4, OpenRunsStep DEF LeftoverInv, Leftovers
<1> QED BY <1>1, <1>2, <1>3, <1>4 DEF LeftoverInv, Leftovers, OneThread, NoRefusals

\* With a single io thread the map holds no dead session but the one that is on its
\* way out. (With more, an accept handler may insert a session that has died.)
THEOREM DeadLeave == Spec => [](OneThread => DeadSessionsLeave)
<1>1. LeftoverInv => (OneThread => DeadSessionsLeave)
  BY DEF LeftoverInv, Leftovers
<1> QED BY LeftoverInit, LeftoverStep, <1>1, PTL DEF Spec

\* With a single io thread, or a pool that never refuses, no socket is left open
\* with nobody reading it.
THEOREM OpenServed == Spec => [](OneThread \/ NoRefusals => OpenSocketServed)
<1>1. LeftoverInv => (OneThread \/ NoRefusals => OpenSocketServed)
  BY DEF LeftoverInv, Leftovers, OpenSocketServed
<1> QED BY LeftoverInit, LeftoverStep, <1>1, PTL DEF Spec

=============================================================================
