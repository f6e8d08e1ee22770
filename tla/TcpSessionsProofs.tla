------------------------- MODULE TcpSessionsProofs -------------------------
(* Proofs about TcpSessions, for any number of clients, io threads, ids and *)
(* packets.                                                                 *)
EXTENDS TcpSessions, TLAPS

USE DEF Arm, ArrivedWhole, Stopped, Closed, SessionKey, ArmAccept, AcceptsAgain, RunReturns

\* A session that runs has been given an id; without this the type of the
\* requests it queues would not be preserved.
Identified == \A c \in running : session_id[c] \in Ids

TypeInv == TypeOK /\ Identified

\* The counter wraps around inside the space of ids.
LEMMA NextIdInIds == counter \in Ids => NextId \in Ids
<1>1. ASSUME NEW n \in 0 .. IdSpace - 1 PROVE (n + 1) % IdSpace \in 0 .. IdSpace - 1
  BY ConstantsAssumption
<1>2. QED BY <1>1 DEF Ids, NextId

LEMMA TypeInvInit == Init => TypeInv
<1>. SUFFICES ASSUME Init PROVE TypeInv
  OBVIOUS
<1>. USE DEF Init
<1>1. requests \in [Workers -> Seq(Request)]
  OBVIOUS
<1>2. counter \in Ids
  BY ConstantsAssumption DEF Ids
<1>3. \A w \in Workers : pc[w] \in AcceptPcs \cup ReadPcs <=> at[w] # NoConn
  BY DEF AcceptPcs, ReadPcs
<1>4. QED BY <1>1, <1>2, <1>3 DEF TypeInv, TypeOK, Identified

\* Who works where, as a handler's step leaves it.
ThreadsOK ==
    /\ pc \in [Workers -> {"idle", "exited"} \cup AcceptPcs \cup ReadPcs]
    /\ at \in [Workers -> Conns \cup {NoConn}]
    /\ \A w \in Workers : pc[w] \in AcceptPcs \cup ReadPcs <=> at[w] # NoConn

LEMMA EnterThreads ==
    ASSUME ThreadsOK, NEW w \in Workers, NEW label \in AcceptPcs \cup ReadPcs,
           NEW c \in Conns, Enter(w, label, c)
    PROVE  ThreadsOK'
BY ConstantsAssumption DEF ThreadsOK, Enter

LEMMA GotoThreads ==
    ASSUME ThreadsOK, NEW w \in Workers, NEW label \in AcceptPcs \cup ReadPcs,
           pc[w] \in AcceptPcs \cup ReadPcs, Goto(w, label)
    PROVE  ThreadsOK'
<1>1. at[w] \in Conns
  BY DEF ThreadsOK
<1>2. QED BY <1>1, EnterThreads DEF Goto

LEMMA ReturnThreads ==
    ASSUME ThreadsOK, NEW w \in Workers, Return(w)
    PROVE  ThreadsOK'
BY DEF ThreadsOK, Return, Enter, AcceptPcs, ReadPcs

\* Taking one away from a count that is positive.
LEMMA OneLess ==
    \A f \in [Conns -> Nat], c \in Conns :
        f[c] > 0 => [f EXCEPT ![c] = @ - 1] \in [Conns -> Nat]
OBVIOUS

LEMMA TypeInvStep == TypeInv /\ [Next]_vars => TypeInv'
<1>. SUFFICES ASSUME TypeInv, [Next]_vars PROVE TypeInv'
  OBVIOUS
<1>. USE DEF TypeInv, TypeOK, Identified
<1>. USE DEF tcpVars, connVars, peerVars, AcceptPcs, ReadPcs
<1>1. ASSUME NEW c \in Conns, Client(c) PROVE TypeInv'
  <2>1. CASE ClientConnect(c)
    BY <2>1 DEF ClientConnect
  <2>2. CASE ClientSend(c)
    BY <2>2 DEF ClientSend
  <2>3. CASE ClientDown(c) \/ ClientLost(c)
    BY <2>3 DEF ClientDown, ClientLost
  <2>4. QED BY <1>1, <2>1, <2>2, <2>3 DEF Client
<1>2. ASSUME NEW c \in Conns, NEW w \in Workers, HeaderRead(w, c) PROVE TypeInv'
  <2>1. ThreadsOK'
    BY <1>2, EnterThreads DEF HeaderRead, ThreadsOK
  <2>2. QED BY <1>2, <2>1 DEF HeaderRead, DestroyUnreferenced, ThreadsOK
<1>3. ASSUME NEW c \in Conns, NEW w \in Workers, PayloadRead(w, c) PROVE TypeInv'
  <2>1. ThreadsOK'
    BY <1>3, EnterThreads DEF PayloadRead, ThreadsOK
  <2>2. ASSUME c \in running PROVE RequestOf(c) \in Request
    <3>1. (consumed[c] + 1) \div 2 \in Nat
      <4>1. \A n \in Nat : (n + 1) \div 2 \in Nat
        OBVIOUS
      <4>2. QED BY <4>1
    <3>2. QED BY <2>2, <3>1 DEF RequestOf, Request
  <2>3. ASSUME c \in running PROVE requests' \in [Workers -> Seq(Request)]
    <3>1. Append(requests[w], RequestOf(c)) \in Seq(Request)
      BY <2>2, <2>3
    <3>2. QED BY <1>3, <2>3, <3>1 DEF PayloadRead, Enqueue
  <2>4. requests' \in [Workers -> Seq(Request)]
    BY <1>3, <2>3 DEF PayloadRead
  <2>5. /\ consumed' \in [Conns -> Nat]
        /\ payload_reads' \in [Conns -> Nat]
        /\ open' \subseteq Conns
    BY <1>3 DEF PayloadRead, DestroyUnreferenced
  <2>6. /\ UNCHANGED <<tcpVars, session_id, running, header_reads, peerVars, connections>>
    BY <1>3 DEF PayloadRead
  <2>7. QED BY <2>1, <2>4, <2>5, <2>6 DEF ThreadsOK
<1>4. ASSUME NEW c \in Conns, NEW w \in Workers, ReadFailed(w, c) PROVE TypeInv'
  <2>1. ThreadsOK'
    BY <1>4, EnterThreads DEF ReadFailed, ThreadsOK
  <2>2. header_reads' \in [Conns -> Nat] /\ payload_reads' \in [Conns -> Nat]
    <3>1. \/ /\ header_reads[c] > 0 /\ payload_reads' = payload_reads
             /\ header_reads' = [header_reads EXCEPT ![c] = @ - 1]
          \/ /\ payload_reads[c] > 0 /\ header_reads' = header_reads
             /\ payload_reads' = [payload_reads EXCEPT ![c] = @ - 1]
      BY <1>4 DEF ReadFailed
    <3>2. header_reads \in [Conns -> Nat] /\ payload_reads \in [Conns -> Nat]
      OBVIOUS
    <3>. HIDE DEF TypeInv, TypeOK, Identified
    <3>3. QED BY <3>1, <3>2, OneLess
  <2>3. QED BY <1>4, <2>1, <2>2 DEF ReadFailed, ThreadsOK
<1>5. ASSUME NEW w \in Workers, CreateSession(w) PROVE TypeInv'
  <2>1. counter' \in Ids
    BY <1>5, NextIdInIds DEF CreateSession
  <2>2. ThreadsOK'
    BY <1>5, GotoThreads DEF CreateSession, ThreadsOK
  <2>3. at[w] \in Conns
    BY <1>5 DEF CreateSession
  <2>4. QED BY <1>5, <2>1, <2>2, <2>3 DEF CreateSession, ThreadsOK
<1>6. ASSUME NEW w \in Workers, InsertSession(w) PROVE TypeInv'
  BY <1>6, ConstantsAssumption DEF InsertSession, Enter, Goto, DestroyUnreferenced
<1>7. ASSUME NEW w \in Workers, AcceptNext(w) PROVE TypeInv'
  BY <1>7, ConstantsAssumption DEF AcceptNext, Enter, Return, DestroyUnreferenced
<1>8. ASSUME NEW w \in Workers, RentBlock(w) \/ RentFails(w) \/ NextHeader(w) PROVE TypeInv'
  <2>1. at[w] \in Conns
    BY <1>8 DEF RentBlock, RentFails, NextHeader
  <2>2. CASE RentBlock(w)
    <3>1. ThreadsOK'
      BY <2>2, ReturnThreads DEF RentBlock, ThreadsOK
    <3>2. QED BY <2>1, <2>2, <3>1 DEF RentBlock, ThreadsOK
  <2>3. CASE RentFails(w)
    <3>1. ThreadsOK'
      BY <2>3, GotoThreads DEF RentFails, ThreadsOK
    <3>2. QED BY <2>3, <3>1 DEF RentFails, ThreadsOK
  <2>4. CASE NextHeader(w)
    <3>1. ThreadsOK'
      BY <2>4, ReturnThreads DEF NextHeader, ThreadsOK
    <3>2. QED BY <2>1, <2>4, <3>1 DEF NextHeader, ThreadsOK
  <2>5. QED BY <1>8, <2>2, <2>3, <2>4
<1>9. ASSUME NEW w \in Workers, Evict(w) \/ StopEvicted(w) \/ OnDisconnected(w)
      PROVE  TypeInv'
  <2>1. CASE Evict(w)
    BY <2>1, ConstantsAssumption DEF Evict, Disconnect, Enter, Goto, DestroyUnreferenced
  <2>2. CASE StopEvicted(w) \/ OnDisconnected(w)
    BY <2>2, ConstantsAssumption
    DEF StopEvicted, OnDisconnected, Disconnect, Enter, Return, DestroyUnreferenced
  <2>3. QED BY <1>9, <2>1, <2>2
<1>10. ASSUME NEW w \in Workers, WorkerExits(w) PROVE TypeInv'
  BY <1>10 DEF WorkerExits
<1>11. ASSUME NEW w \in Workers, NEW c \in Conns, Accepted(w, c) PROVE TypeInv'
  <2>1. ThreadsOK'
    BY <1>11, EnterThreads DEF Accepted, ThreadsOK
  <2>2. QED BY <1>11, <2>1 DEF Accepted, ThreadsOK
<1>12. ASSUME NEW w \in Workers, NEW err \in AcceptErrors, AcceptFailed(w, err) PROVE TypeInv'
  BY <1>12 DEF AcceptFailed
<1>13. CASE Stop \/ StopContext \/ CloseAcceptor
  BY <1>13 DEF Stop, StopContext, CloseAcceptor
<1>14. CASE UNCHANGED vars
  BY <1>14 DEF vars
<1>15. QED
  BY <1>1, <1>2, <1>3, <1>4, <1>5, <1>6, <1>7, <1>8, <1>9, <1>10, <1>11, <1>12, <1>13, <1>14
  DEF Next, HandlerStep, ReadCompletes

\* Type correctness of the whole server, the requests its threads have queued
\* included, for any number of sessions and io threads.
THEOREM TypeCorrect == Spec => []TypeOK
<1>1. Spec => []TypeInv
  BY TypeInvInit, TypeInvStep, PTL DEF Spec
<1>2. TypeInv => TypeOK
  BY DEF TypeInv
<1>3. QED BY <1>1, <1>2, PTL

-----------------------------------------------------------------------------
(* The read chain. That a session has only one read in flight depends on     *)
(* its being started once, and so on the accept loop: a client that was not  *)
(* accepted yet, or whose session is not yet made, has none at all.          *)

Unmade(c) == \/ peer[c] = "new"
             \/ c \in backlog
             \/ \E w \in Workers : pc[w] = "create" /\ at[w] = c

UnmadeUntouched ==
    \A c \in Conns :
        /\ peer[c] = "new" => c \notin backlog
        /\ \A w \in Workers : pc[w] = "create" /\ at[w] = c =>
                               peer[c] # "new" /\ c \notin backlog
        /\ Unmade(c) => /\ header_reads[c] = 0 /\ payload_reads[c] = 0
                        /\ \A w \in Workers : at[w] = c => pc[w] = "create"
                        /\ c \notin running /\ consumed[c] = 0

Handles(w, c) == at[w] = c /\ pc[w] \in ReadPcs

\* Everything the read chain of one session obeys, the position in the stream that
\* goes with each step of its handlers included.
ChainOK(c) ==
    /\ Pending(c) <= 1
    /\ \A w \in Workers : Handles(w, c) => Pending(c) = 0
    /\ \A v, w \in Workers : Handles(v, c) /\ Handles(w, c) => v = w
    /\ c \in running <=> \/ Pending(c) > 0
                         \/ \E w \in Workers : Handles(w, c) /\ pc[w] # "disconnect"
    /\ header_reads[c] > 0 => consumed[c] % 2 = 0
    /\ payload_reads[c] > 0 => consumed[c] % 2 = 1
    /\ \A w \in Workers : Handles(w, c) /\ pc[w] = "rent" => consumed[c] % 2 = 1
    /\ \A w \in Workers : Handles(w, c) /\ pc[w] = "next_header" => consumed[c] % 2 = 0

ChainInv ==
    /\ TypeInv /\ SingleAccept /\ UnmadeUntouched
    /\ \A c \in Conns : ChainOK(c)

LEMMA ChainInit == Init => ChainInv
<1>. SUFFICES ASSUME Init PROVE ChainInv
  OBVIOUS
<1>1. SingleAccept
  BY DEF Init, SingleAccept, Accepting, AcceptPcs
<1>2. UnmadeUntouched
  BY ConstantsAssumption DEF Init, UnmadeUntouched, Unmade
<1>3. ASSUME NEW c \in Conns PROVE ChainOK(c)
  BY DEF Init, ChainOK, Pending, Handles, ReadPcs
<1>4. QED BY TypeInvInit, <1>1, <1>2, <1>3 DEF ChainInv

\* What the handlers and clients of other sessions leave alone.
ChainUnchanged(c) ==
    /\ header_reads'[c] = header_reads[c] /\ payload_reads'[c] = payload_reads[c]
    /\ consumed'[c] = consumed[c]
    /\ c \in running' <=> c \in running
    /\ \A w \in Workers : /\ Handles(w, c)' <=> Handles(w, c)
                          /\ Handles(w, c) => pc'[w] = pc[w]

LEMMA ChainFrame ==
    ASSUME NEW c \in Conns, ChainOK(c), ChainUnchanged(c)
    PROVE  ChainOK(c)'
BY DEF ChainOK, ChainUnchanged, Pending

\* Two shapes in which a step may leave a session: a read is outstanding and nobody
\* handles it, or one thread handles it and nothing is outstanding.
LEMMA ChainWaiting ==
    ASSUME NEW c \in Conns, c \in running',
           \/ header_reads'[c] = 1 /\ payload_reads'[c] = 0 /\ consumed'[c] % 2 = 0
           \/ header_reads'[c] = 0 /\ payload_reads'[c] = 1 /\ consumed'[c] % 2 = 1,
           \A v \in Workers : ~Handles(v, c)'
    PROVE  ChainOK(c)'
BY DEF ChainOK, Pending

LEMMA ChainHandled ==
    ASSUME NEW c \in Conns, NEW w \in Workers, c \in running',
           header_reads'[c] = 0, payload_reads'[c] = 0,
           Handles(w, c)', pc'[w] # "disconnect",
           pc'[w] = "rent" => consumed'[c] % 2 = 1,
           pc'[w] = "next_header" => consumed'[c] % 2 = 0,
           \A v \in Workers : Handles(v, c)' => v = w
    PROVE  ChainOK(c)'
BY DEF ChainOK, Pending

\* Headers and payloads alternate.
LEMMA Alternate ==
    \A n \in Nat : /\ n % 2 = 0 => (n + 1) % 2 = 1
                   /\ n % 2 = 1 => (n + 1) % 2 = 0
OBVIOUS

LEMMA ChainStep == ChainInv /\ [Next]_vars => ChainInv'
<1>. SUFFICES ASSUME ChainInv, [Next]_vars PROVE ChainInv'
  OBVIOUS
<1>0. TypeInv'
  BY TypeInvStep DEF ChainInv
<1>. USE DEF ChainInv, TypeInv, TypeOK, ThreadsOK
<1>. USE DEF AcceptPcs, ReadPcs, tcpVars, connVars, peerVars
<1>1. ASSUME NEW c \in Conns, ClientConnect(c) PROVE ChainInv'
  <2>1. SingleAccept'
    BY <1>1, ConstantsAssumption DEF ClientConnect, SingleAccept, Accepting
  <2>2. UnmadeUntouched'
    BY <1>1, ConstantsAssumption DEF ClientConnect, UnmadeUntouched, Unmade,
        SingleAccept, Accepting
  <2>3. ASSUME NEW d \in Conns PROVE ChainOK(d)'
    <3>1. ChainUnchanged(d)
      BY <1>1, ConstantsAssumption DEF ClientConnect, ChainUnchanged, Handles
    <3>2. QED BY <3>1, ChainFrame
  <2>4. QED BY <1>0, <2>1, <2>2, <2>3
<1>2. ASSUME NEW c \in Conns, ClientSend(c) PROVE ChainInv'
  <2>1. SingleAccept'
    BY <1>2, ConstantsAssumption DEF ClientSend, SingleAccept, Accepting
  <2>2. UnmadeUntouched'
    BY <1>2, ConstantsAssumption DEF ClientSend, UnmadeUntouched, Unmade,
        SingleAccept, Accepting
  <2>3. ASSUME NEW d \in Conns PROVE ChainOK(d)'
    <3>1. ChainUnchanged(d)
      BY <1>2, ConstantsAssumption DEF ClientSend, ChainUnchanged, Handles
    <3>2. QED BY <3>1, ChainFrame
  <2>4. QED BY <1>0, <2>1, <2>2, <2>3
<1>3. ASSUME NEW c \in Conns, ClientDown(c) \/ ClientLost(c) PROVE ChainInv'
  <2>1. SingleAccept'
    BY <1>3, ConstantsAssumption DEF ClientDown, ClientLost, SingleAccept, Accepting
  <2>2. UnmadeUntouched'
    BY <1>3, ConstantsAssumption DEF ClientDown, ClientLost, UnmadeUntouched, Unmade,
        SingleAccept, Accepting
  <2>3. ASSUME NEW d \in Conns PROVE ChainOK(d)'
    <3>1. ChainUnchanged(d)
      BY <1>3, ConstantsAssumption DEF ClientDown, ClientLost, ChainUnchanged, Handles
    <3>2. QED BY <3>1, ChainFrame
  <2>4. QED BY <1>0, <2>1, <2>2, <2>3
<1>4. ASSUME NEW w \in Workers, NEW c \in Conns, Accepted(w, c) PROVE ChainInv'
  <2>1. SingleAccept'
    BY <1>4, ConstantsAssumption DEF Accepted, Enter, CanRun, SingleAccept, Accepting
  <2>2. UnmadeUntouched'
    BY <1>4, ConstantsAssumption DEF Accepted, Enter, CanRun, UnmadeUntouched, Unmade,
        SingleAccept, Accepting
  <2>3. ASSUME NEW d \in Conns PROVE ChainOK(d)'
    <3>1. ChainUnchanged(d)
      BY <1>4, ConstantsAssumption DEF Accepted, Enter, CanRun, ChainUnchanged, Handles
    <3>2. QED BY <3>1, ChainFrame
  <2>4. QED BY <1>0, <2>1, <2>2, <2>3
<1>5. ASSUME NEW w \in Workers, CreateSession(w) PROVE ChainInv'
  <2>. PICK c \in Conns : c = at[w]
    BY <1>5 DEF CreateSession
  <2>1. SingleAccept'
    BY <1>5 DEF CreateSession, Goto, Enter, SingleAccept, Accepting
  <2>2. UnmadeUntouched'
    <3>1. /\ pc[w] = "create" /\ at[w] = c
          /\ pc' = [pc EXCEPT ![w] = "insert"] /\ at' = at
          /\ header_reads' = [header_reads EXCEPT ![c] = @ + 1]
          /\ running' = running \cup {c}
          /\ UNCHANGED <<payload_reads, consumed, peer, backlog>>
      BY <1>5 DEF CreateSession, Goto, Enter
    <3>2. \A v \in Workers : pc[v] = "create" => v = w
      BY <3>1 DEF SingleAccept, Accepting
    <3>3. ~Unmade(c)'
      BY <3>1, <3>2 DEF UnmadeUntouched, Unmade
    <3>4. ASSUME NEW d \in Conns, d # c, Unmade(d)' PROVE Unmade(d)
      BY <3>1, <3>4 DEF Unmade
    <3>5. QED BY <3>1, <3>3, <3>4 DEF UnmadeUntouched
  <2>3. ASSUME NEW d \in Conns PROVE ChainOK(d)'
    <3>1. CASE d # c
      <4>1. ChainUnchanged(d)
        BY <1>5, <3>1, ConstantsAssumption DEF CreateSession, Goto, Enter, ChainUnchanged, Handles
      <4>2. QED BY <4>1, ChainFrame
    <3>2. CASE d = c
      <4>1. /\ header_reads[c] = 0 /\ payload_reads[c] = 0 /\ consumed[c] = 0
            /\ \A v \in Workers : ~Handles(v, c)
        BY <1>5 DEF CreateSession, UnmadeUntouched, Unmade, Handles
      <4>2. /\ header_reads'[c] = 1 /\ payload_reads'[c] = 0 /\ consumed'[c] = 0
            /\ c \in running'
            /\ \A v \in Workers : ~Handles(v, c)'
        BY <1>5, <4>1 DEF CreateSession, Goto, Enter, Handles
      <4>3. QED BY <3>2, <4>2 DEF ChainOK, Pending
    <3>3. QED BY <3>1, <3>2
  <2>4. QED BY <1>0, <2>1, <2>2, <2>3
<1>6. ASSUME NEW w \in Workers, InsertSession(w) PROVE ChainInv'
  <2>1. SingleAccept'
    BY <1>6, ConstantsAssumption DEF InsertSession, Goto, Enter, SingleAccept, Accepting
  <2>2. UnmadeUntouched'
    BY <1>6, ConstantsAssumption DEF InsertSession, Goto, Enter, UnmadeUntouched, Unmade,
        SingleAccept, Accepting
  <2>3. ASSUME NEW d \in Conns PROVE ChainOK(d)'
    <3>1. ChainUnchanged(d)
      BY <1>6, ConstantsAssumption DEF InsertSession, Goto, Enter, ChainUnchanged, Handles
    <3>2. QED BY <3>1, ChainFrame
  <2>4. QED BY <1>0, <2>1, <2>2, <2>3
<1>7. ASSUME NEW w \in Workers, AcceptNext(w) PROVE ChainInv'
  <2>1. SingleAccept'
    BY <1>7, ConstantsAssumption DEF AcceptNext, Return, Enter, SingleAccept, Accepting
  <2>2. UnmadeUntouched'
    BY <1>7, ConstantsAssumption DEF AcceptNext, Return, Enter, UnmadeUntouched, Unmade,
        SingleAccept, Accepting
  <2>3. ASSUME NEW d \in Conns PROVE ChainOK(d)'
    <3>1. ChainUnchanged(d)
      BY <1>7, ConstantsAssumption DEF AcceptNext, Return, Enter, ChainUnchanged, Handles
    <3>2. QED BY <3>1, ChainFrame
  <2>4. QED BY <1>0, <2>1, <2>2, <2>3
<1>8. ASSUME NEW w \in Workers, NEW err \in AcceptErrors, AcceptFailed(w, err) PROVE ChainInv'
  <2>1. SingleAccept'
    BY <1>8, ConstantsAssumption DEF AcceptFailed, CanRun, SingleAccept, Accepting
  <2>2. UnmadeUntouched'
    BY <1>8, ConstantsAssumption DEF AcceptFailed, CanRun, UnmadeUntouched, Unmade,
        SingleAccept, Accepting
  <2>3. ASSUME NEW d \in Conns PROVE ChainOK(d)'
    <3>1. ChainUnchanged(d)
      BY <1>8, ConstantsAssumption DEF AcceptFailed, CanRun, ChainUnchanged, Handles
    <3>2. QED BY <3>1, ChainFrame
  <2>4. QED BY <1>0, <2>1, <2>2, <2>3
<1>9. ASSUME NEW w \in Workers, NEW c \in Conns, HeaderRead(w, c) PROVE ChainInv'
  <2>1. /\ header_reads[c] = 1 /\ payload_reads[c] = 0
        /\ c \in running /\ ~Unmade(c) /\ consumed[c] % 2 = 0
        /\ \A v \in Workers : ~Handles(v, c)
    BY <1>9 DEF HeaderRead, ChainOK, UnmadeUntouched, Pending, Handles
  <2>2. /\ pc[w] = "idle"
        /\ pc' = [pc EXCEPT ![w] = "rent"] /\ at' = [at EXCEPT ![w] = c]
        /\ header_reads' = [header_reads EXCEPT ![c] = @ - 1] /\ UNCHANGED payload_reads
        /\ consumed' = [consumed EXCEPT ![c] = @ + 1]
        /\ UNCHANGED <<running, peer, backlog, accept_ops>>
    BY <1>9, <2>1 DEF HeaderRead, CanRun, Enter
  <2>3. SingleAccept'
    BY <2>2 DEF SingleAccept, Accepting
  <2>4. UnmadeUntouched'
    <3>1. ASSUME NEW d \in Conns, Unmade(d)' PROVE d # c /\ Unmade(d)
      BY <2>1, <2>2, <3>1 DEF Unmade
    <3>2. ASSUME NEW d \in Conns, Unmade(d)'
          PROVE  /\ header_reads'[d] = 0 /\ payload_reads'[d] = 0
                 /\ \A v \in Workers : at'[v] = d => pc'[v] = "create"
                 /\ d \notin running' /\ consumed'[d] = 0
      BY <2>2, <3>1, <3>2 DEF UnmadeUntouched
    <3>3. ASSUME NEW d \in Conns
          PROVE  /\ peer'[d] = "new" => d \notin backlog'
                 /\ \A v \in Workers : pc'[v] = "create" /\ at'[v] = d =>
                                        peer'[d] # "new" /\ d \notin backlog'
      BY <2>2 DEF UnmadeUntouched
    <3>4. QED BY <3>2, <3>3 DEF UnmadeUntouched
  <2>5. ASSUME NEW d \in Conns PROVE ChainOK(d)'
    <3>1. CASE d # c
      <4>1. ChainUnchanged(d)
        BY <2>2, <3>1, ConstantsAssumption DEF ChainUnchanged, Handles
      <4>2. QED BY <4>1, ChainFrame
    <3>2. CASE d = c
      <4>1. consumed'[c] % 2 = 1
        BY <2>1, <2>2, Alternate
      <4>2. /\ header_reads'[c] = 0 /\ payload_reads'[c] = 0
            /\ Handles(w, c)' /\ pc'[w] = "rent"
            /\ \A v \in Workers : Handles(v, c)' => v = w
        BY <2>1, <2>2 DEF Handles
      <4>3. QED BY <2>1, <2>2, <3>2, <4>1, <4>2, ChainHandled
    <3>3. QED BY <3>1, <3>2
  <2>6. QED BY <1>0, <2>3, <2>4, <2>5
<1>10. ASSUME NEW w \in Workers, RentBlock(w) PROVE ChainInv'
  <2>. PICK c \in Conns : c = at[w]
    BY <1>10 DEF RentBlock
  <2>1. SingleAccept'
    BY <1>10 DEF RentBlock, Return, Enter, SingleAccept, Accepting
  <2>2. UnmadeUntouched'
    BY <1>10, ConstantsAssumption DEF RentBlock, Return, Enter, UnmadeUntouched, Unmade
  <2>3. ASSUME NEW d \in Conns PROVE ChainOK(d)'
    <3>1. CASE d # c
      <4>1. ChainUnchanged(d)
        BY <1>10, <3>1, ConstantsAssumption DEF RentBlock, Return, Enter, ChainUnchanged, Handles
      <4>2. QED BY <4>1, ChainFrame
    <3>2. CASE d = c
      <4>1. /\ header_reads[c] = 0 /\ payload_reads[c] = 0
            /\ \A v \in Workers : Handles(v, c) => v = w
            /\ c \in running /\ consumed[c] % 2 = 1
        BY <1>10 DEF RentBlock, ChainOK, Handles, Pending
      <4>2. /\ header_reads'[c] = 0 /\ payload_reads'[c] = 1 /\ consumed'[c] % 2 = 1
            /\ c \in running'
            /\ \A v \in Workers : ~Handles(v, c)'
        BY <1>10, <4>1, ConstantsAssumption DEF RentBlock, Return, Enter, Handles
      <4>3. QED BY <3>2, <4>2, ChainWaiting
    <3>3. QED BY <3>1, <3>2
  <2>4. QED BY <1>0, <2>1, <2>2, <2>3
<1>11. ASSUME NEW w \in Workers, RentFails(w) PROVE ChainInv'
  <2>. PICK c \in Conns : c = at[w]
    BY <1>11 DEF RentFails
  <2>1. SingleAccept'
    BY <1>11 DEF RentFails, Goto, Enter, SingleAccept, Accepting
  <2>2. UnmadeUntouched'
    BY <1>11, ConstantsAssumption DEF RentFails, Goto, Enter, UnmadeUntouched, Unmade
  <2>3. ASSUME NEW d \in Conns PROVE ChainOK(d)'
    <3>1. CASE d # c
      <4>1. ChainUnchanged(d)
        BY <1>11, <3>1, ConstantsAssumption DEF RentFails, Goto, Enter, ChainUnchanged, Handles
      <4>2. QED BY <4>1, ChainFrame
    <3>2. CASE d = c
      <4>1. /\ header_reads[c] = 0 /\ payload_reads[c] = 0
            /\ \A v \in Workers : Handles(v, c) => v = w
            /\ c \in running
        BY <1>11 DEF RentFails, ChainOK, Handles, Pending
      <4>2. /\ header_reads'[c] = 0 /\ payload_reads'[c] = 0
            /\ c \in running' /\ Handles(w, c)' /\ pc'[w] = "evict"
            /\ \A v \in Workers : Handles(v, c)' => v = w
        BY <1>11, <4>1 DEF RentFails, Goto, Enter, Handles
      <4>3. QED BY <3>2, <4>2 DEF ChainOK, Pending
    <3>3. QED BY <3>1, <3>2
  <2>4. QED BY <1>0, <2>1, <2>2, <2>3
<1>12. ASSUME NEW w \in Workers, Evict(w) PROVE ChainInv'
  <2>. PICK c \in Conns : c = at[w]
    BY <1>12 DEF Evict
  <2>1. SingleAccept'
    BY <1>12 DEF Evict, Goto, Enter, SingleAccept, Accepting
  <2>2. UnmadeUntouched'
    BY <1>12, ConstantsAssumption DEF Evict, Goto, Enter, UnmadeUntouched, Unmade
  <2>3. ASSUME NEW d \in Conns PROVE ChainOK(d)'
    <3>1. CASE d # c
      <4>1. ChainUnchanged(d)
        BY <1>12, <3>1, ConstantsAssumption DEF Evict, Goto, Enter, ChainUnchanged, Handles
      <4>2. QED BY <4>1, ChainFrame
    <3>2. CASE d = c
      <4>1. /\ header_reads[c] = 0 /\ payload_reads[c] = 0
            /\ \A v \in Workers : Handles(v, c) => v = w
            /\ c \in running
        BY <1>12 DEF Evict, ChainOK, Handles, Pending
      <4>2. /\ header_reads'[c] = 0 /\ payload_reads'[c] = 0
            /\ c \in running' /\ Handles(w, c)' /\ pc'[w] = "stop"
            /\ \A v \in Workers : Handles(v, c)' => v = w
        BY <1>12, <4>1 DEF Evict, Goto, Enter, Handles
      <4>3. QED BY <3>2, <4>2 DEF ChainOK, Pending
    <3>3. QED BY <3>1, <3>2
  <2>4. QED BY <1>0, <2>1, <2>2, <2>3
<1>13. ASSUME NEW w \in Workers, StopEvicted(w) PROVE ChainInv'
  <2>1. SingleAccept'
    BY <1>13, ConstantsAssumption DEF StopEvicted, Return, Enter, SingleAccept, Accepting
  <2>2. UnmadeUntouched'
    BY <1>13, ConstantsAssumption DEF StopEvicted, Return, Enter, UnmadeUntouched, Unmade,
        SingleAccept, Accepting
  <2>. PICK c \in Conns : c = at[w]
    BY <1>13 DEF StopEvicted, Return, Enter
  <2>3. ASSUME NEW d \in Conns PROVE ChainOK(d)'
    <3>1. CASE d # c
      <4>1. ChainUnchanged(d)
        BY <1>13, <3>1, ConstantsAssumption DEF StopEvicted, Return, Enter, ChainUnchanged, Handles
      <4>2. QED BY <4>1, ChainFrame
    <3>2. CASE d = c
      BY <1>13, <3>2, ConstantsAssumption, Alternate
      DEF StopEvicted, Return, Enter, ChainOK, Pending, Handles
    <3>3. QED BY <3>1, <3>2
  <2>4. QED BY <1>0, <2>1, <2>2, <2>3
<1>14. ASSUME NEW w \in Workers, NEW c \in Conns, PayloadRead(w, c) PROVE ChainInv'
  <2>1. /\ payload_reads[c] = 1 /\ header_reads[c] = 0
        /\ c \in running /\ ~Unmade(c) /\ consumed[c] % 2 = 1
        /\ \A v \in Workers : ~Handles(v, c)
    BY <1>14 DEF PayloadRead, ChainOK, UnmadeUntouched, Pending, Handles
  <2>2. /\ pc[w] = "idle"
        /\ pc' = [pc EXCEPT ![w] = "next_header"] /\ at' = [at EXCEPT ![w] = c]
        /\ payload_reads' = [payload_reads EXCEPT ![c] = @ - 1] /\ UNCHANGED header_reads
        /\ consumed' = [consumed EXCEPT ![c] = @ + 1]
        /\ UNCHANGED <<running, peer, backlog, accept_ops>>
    BY <1>14, <2>1 DEF PayloadRead, CanRun, Enter
  <2>3. SingleAccept'
    BY <2>2 DEF SingleAccept, Accepting
  <2>4. UnmadeUntouched'
    <3>1. ASSUME NEW d \in Conns, Unmade(d)' PROVE d # c /\ Unmade(d)
      BY <2>1, <2>2, <3>1 DEF Unmade
    <3>2. ASSUME NEW d \in Conns, Unmade(d)'
          PROVE  /\ header_reads'[d] = 0 /\ payload_reads'[d] = 0
                 /\ \A v \in Workers : at'[v] = d => pc'[v] = "create"
                 /\ d \notin running' /\ consumed'[d] = 0
      BY <2>2, <3>1, <3>2 DEF UnmadeUntouched
    <3>3. ASSUME NEW d \in Conns
          PROVE  /\ peer'[d] = "new" => d \notin backlog'
                 /\ \A v \in Workers : pc'[v] = "create" /\ at'[v] = d =>
                                        peer'[d] # "new" /\ d \notin backlog'
      BY <2>2 DEF UnmadeUntouched
    <3>4. QED BY <3>2, <3>3 DEF UnmadeUntouched
  <2>5. ASSUME NEW d \in Conns PROVE ChainOK(d)'
    <3>1. CASE d # c
      <4>1. ChainUnchanged(d)
        BY <2>2, <3>1, ConstantsAssumption DEF ChainUnchanged, Handles
      <4>2. QED BY <4>1, ChainFrame
    <3>2. CASE d = c
      <4>1. consumed'[c] % 2 = 0
        BY <2>1, <2>2, Alternate
      <4>2. /\ header_reads'[c] = 0 /\ payload_reads'[c] = 0
            /\ Handles(w, c)' /\ pc'[w] = "next_header"
            /\ \A v \in Workers : Handles(v, c)' => v = w
        BY <2>1, <2>2 DEF Handles
      <4>3. QED BY <2>1, <2>2, <3>2, <4>1, <4>2, ChainHandled
    <3>3. QED BY <3>1, <3>2
  <2>6. QED BY <1>0, <2>3, <2>4, <2>5
<1>15. ASSUME NEW w \in Workers, NextHeader(w) PROVE ChainInv'
  <2>. PICK c \in Conns : c = at[w]
    BY <1>15 DEF NextHeader
  <2>1. SingleAccept'
    BY <1>15 DEF NextHeader, Return, Enter, SingleAccept, Accepting
  <2>2. UnmadeUntouched'
    BY <1>15, ConstantsAssumption DEF NextHeader, Return, Enter, UnmadeUntouched, Unmade
  <2>3. ASSUME NEW d \in Conns PROVE ChainOK(d)'
    <3>1. CASE d # c
      <4>1. ChainUnchanged(d)
        BY <1>15, <3>1, ConstantsAssumption DEF NextHeader, Return, Enter, ChainUnchanged, Handles
      <4>2. QED BY <4>1, ChainFrame
    <3>2. CASE d = c
      <4>1. /\ header_reads[c] = 0 /\ payload_reads[c] = 0
            /\ \A v \in Workers : Handles(v, c) => v = w
            /\ c \in running /\ consumed[c] % 2 = 0
        BY <1>15 DEF NextHeader, ChainOK, Handles, Pending
      <4>2. /\ header_reads'[c] = 1 /\ payload_reads'[c] = 0 /\ consumed'[c] % 2 = 0
            /\ c \in running'
            /\ \A v \in Workers : ~Handles(v, c)'
        BY <1>15, <4>1, ConstantsAssumption DEF NextHeader, Return, Enter, Handles
      <4>3. QED BY <3>2, <4>2, ChainWaiting
    <3>3. QED BY <3>1, <3>2
  <2>4. QED BY <1>0, <2>1, <2>2, <2>3
<1>16. ASSUME NEW w \in Workers, NEW c \in Conns, ReadFailed(w, c) PROVE ChainInv'
  <2>1. SingleAccept'
    BY <1>16, ConstantsAssumption DEF ReadFailed, Enter, StrandFree, Reading, CanRun, SingleAccept, Accepting
  <2>2. UnmadeUntouched'
    BY <1>16, ConstantsAssumption DEF ReadFailed, Enter, StrandFree, Reading, CanRun, UnmadeUntouched, Unmade,
        SingleAccept, Accepting
  <2>3. ASSUME NEW d \in Conns PROVE ChainOK(d)'
    <3>1. CASE d # c
      <4>1. ChainUnchanged(d)
        BY <1>16, <3>1, ConstantsAssumption DEF ReadFailed, Enter, StrandFree, Reading, CanRun, ChainUnchanged, Handles
      <4>2. QED BY <4>1, ChainFrame
    <3>2. CASE d = c
      BY <1>16, <3>2, ConstantsAssumption, Alternate
      DEF ReadFailed, Enter, StrandFree, Reading, CanRun, ChainOK, Pending, Handles
    <3>3. QED BY <3>1, <3>2
  <2>4. QED BY <1>0, <2>1, <2>2, <2>3
<1>17. ASSUME NEW w \in Workers, OnDisconnected(w) PROVE ChainInv'
  <2>1. SingleAccept'
    BY <1>17, ConstantsAssumption DEF OnDisconnected, Return, Enter, SingleAccept, Accepting
  <2>2. UnmadeUntouched'
    BY <1>17, ConstantsAssumption DEF OnDisconnected, Return, Enter, UnmadeUntouched, Unmade,
        SingleAccept, Accepting
  <2>. PICK c \in Conns : c = at[w]
    BY <1>17 DEF OnDisconnected, Return, Enter
  <2>3. ASSUME NEW d \in Conns PROVE ChainOK(d)'
    <3>1. CASE d # c
      <4>1. ChainUnchanged(d)
        BY <1>17, <3>1, ConstantsAssumption DEF OnDisconnected, Return, Enter, ChainUnchanged, Handles
      <4>2. QED BY <4>1, ChainFrame
    <3>2. CASE d = c
      BY <1>17, <3>2, ConstantsAssumption, Alternate
      DEF OnDisconnected, Return, Enter, ChainOK, Pending, Handles
    <3>3. QED BY <3>1, <3>2
  <2>4. QED BY <1>0, <2>1, <2>2, <2>3
<1>18. ASSUME NEW w \in Workers, WorkerExits(w) PROVE ChainInv'
  <2>1. SingleAccept'
    BY <1>18, ConstantsAssumption DEF WorkerExits, SingleAccept, Accepting
  <2>2. UnmadeUntouched'
    BY <1>18, ConstantsAssumption DEF WorkerExits, UnmadeUntouched, Unmade,
        SingleAccept, Accepting
  <2>3. ASSUME NEW d \in Conns PROVE ChainOK(d)'
    <3>1. ChainUnchanged(d)
      BY <1>18, ConstantsAssumption DEF WorkerExits, ChainUnchanged, Handles
    <3>2. QED BY <3>1, ChainFrame
  <2>4. QED BY <1>0, <2>1, <2>2, <2>3
<1>19. ASSUME Stop \/ StopContext \/ CloseAcceptor PROVE ChainInv'
  <2>1. SingleAccept'
    BY <1>19, ConstantsAssumption DEF Stop, StopContext, CloseAcceptor, SingleAccept, Accepting
  <2>2. UnmadeUntouched'
    BY <1>19, ConstantsAssumption DEF Stop, StopContext, CloseAcceptor, UnmadeUntouched, Unmade,
        SingleAccept, Accepting
  <2>3. ASSUME NEW d \in Conns PROVE ChainOK(d)'
    <3>1. ChainUnchanged(d)
      BY <1>19, ConstantsAssumption DEF Stop, StopContext, CloseAcceptor, ChainUnchanged, Handles
    <3>2. QED BY <3>1, ChainFrame
  <2>4. QED BY <1>0, <2>1, <2>2, <2>3
<1>20. ASSUME UNCHANGED vars PROVE ChainInv'
  <2>1. SingleAccept'
    BY <1>20, ConstantsAssumption DEF vars, SingleAccept, Accepting
  <2>2. UnmadeUntouched'
    BY <1>20, ConstantsAssumption DEF vars, UnmadeUntouched, Unmade,
        SingleAccept, Accepting
  <2>3. ASSUME NEW d \in Conns PROVE ChainOK(d)'
    <3>1. ChainUnchanged(d)
      BY <1>20, ConstantsAssumption DEF vars, ChainUnchanged, Handles
    <3>2. QED BY <3>1, ChainFrame
  <2>4. QED BY <1>0, <2>1, <2>2, <2>3
<1>21. QED
  BY <1>1, <1>2, <1>3, <1>4, <1>5, <1>6, <1>7, <1>8, <1>9, <1>10, <1>11, <1>12, <1>13, <1>14, <1>15, <1>16, <1>17, <1>18, <1>19, <1>20
  DEF Next, Client, HandlerStep, ReadCompletes

\* A session never has two reads in flight, whatever the threads do: its header
\* buffer and its position in the stream are used by one handler at a time.
THEOREM OneReadAtATime == Spec => []OneReadInFlight
<1>1. Spec => []ChainInv
  BY ChainInit, ChainStep, PTL DEF Spec
<1>2. ChainInv => OneReadInFlight
  BY DEF ChainInv, ChainOK, OneReadInFlight, Handles, Reading
<1>3. QED BY <1>1, <1>2, PTL

\* is_running is true of exactly the sessions that still read.
THEOREM RunningMeansReading == Spec => []RunningIffReading
<1>1. Spec => []ChainInv
  BY ChainInit, ChainStep, PTL DEF Spec
<1>2. ChainInv => RunningIffReading
  BY DEF ChainInv, ChainOK, RunningIffReading, Handles, Reading
<1>3. QED BY <1>1, <1>2, PTL

\* Headers are read where headers are, payloads where payloads are.
THEOREM StreamFramed == Spec => []Framing
<1>1. Spec => []ChainInv
  BY ChainInit, ChainStep, PTL DEF Spec
<1>2. ChainInv => Framing
  BY DEF ChainInv, ChainOK, Framing
<1>3. QED BY <1>1, <1>2, PTL

\* The accept loop has a single accept, outstanding or being handled.
THEOREM OneAcceptAtATime == Spec => []SingleAccept
<1>1. Spec => []ChainInv
  BY ChainInit, ChainStep, PTL DEF Spec
<1>2. ChainInv => SingleAccept
  BY DEF ChainInv
<1>3. QED BY <1>1, <1>2, PTL

=============================================================================
