----------------------- MODULE ServerLifecycleProofs -----------------------
(***************************************************************************)
(* Theorems about ServerLifecycle: no io thread outlives the singletons it *)
(* uses, however often tcp is stopped and started again.                   *)
(***************************************************************************)
EXTENDS ServerLifecycle, FiniteSetTheorems, TLAPS

USE DEF IsServer, ConstructPool, RunEnds, AllJoinable, CanRun, InRun, flags

ThreadStates == {"unused", "run", "create", "rearm", "rent", "ended", "joined"}

Quiet  == \A t \in Threads : thread[t] \notin InRun
Joined == \A t \in Threads : thread[t] \in {"unused", "joined"}

\* The inductive invariant: once stop() has returned nothing runs, until start() is
\* called; ~tcp() closes only what it has joined; and main() is past its loop for good
\* when tcp is gone.
LifeInv ==
    /\ TypeOK
    /\ main \in {"exit", "close"} \/ (main = "loop" /\ ~is_running) => Quiet
    /\ main = "close" => Joined
    /\ ~Alive("tcp") => main = "exit" /\ Joined

Singletons == {"log", "time", "tcp", "engine", "pool"}
Distinct(s) == \A i, j \in DOMAIN s : s[i] = s[j] => i = j

\* Constructing a singleton that is not there keeps the others in their places.
LEMMA AppendDistinct ==
    ASSUME NEW s \in Seq(Singletons), Distinct(s),
           NEW x \in Singletons, \A i \in DOMAIN s : s[i] # x
    PROVE  /\ Append(s, x) \in Seq(Singletons)
           /\ Distinct(Append(s, x))
           /\ \A y : (\E i \in DOMAIN s : s[i] = y)
                       => \E i \in DOMAIN Append(s, x) : Append(s, x)[i] = y
<1>1. /\ Append(s, x) \in Seq(Singletons)
      /\ Len(Append(s, x)) = Len(s) + 1
      /\ \A i \in 1 .. Len(s) : Append(s, x)[i] = s[i]
      /\ Append(s, x)[Len(s) + 1] = x
      /\ Len(s) \in Nat /\ DOMAIN s = 1 .. Len(s)
      /\ DOMAIN Append(s, x) = 1 .. Len(s) + 1
  OBVIOUS
<1> QED BY <1>1 DEF Distinct

\* Destroying the last singleton keeps the others in their places.
LEMMA FrontDistinct ==
    ASSUME NEW s \in Seq(Singletons), Distinct(s)
    PROVE  LET f == SubSeq(s, 1, Len(s) - 1) IN
           /\ f \in Seq(Singletons)
           /\ Distinct(f)
           /\ \A y : (\E i \in DOMAIN s : s[i] = y) /\ s[Len(s)] # y
                       => \E i \in DOMAIN f : f[i] = y
<1> DEFINE f == SubSeq(s, 1, Len(s) - 1)
<1>1. Len(s) \in Nat /\ DOMAIN s = 1 .. Len(s)
  OBVIOUS
<1>2. /\ f \in Seq(Singletons)
      /\ DOMAIN f = 1 .. Len(s) - 1
      /\ \A i \in 1 .. Len(s) - 1 : f[i] = s[i]
  <2>1. CASE Len(s) = 0
    BY <2>1, <1>1
  <2>2. CASE Len(s) > 0
    BY <2>2, <1>1
  <2> QED BY <2>1, <2>2, <1>1
<1> HIDE DEF f
<1>3. Distinct(f)
  BY <1>1, <1>2 DEF Distinct
<1>4. \A y : (\E i \in DOMAIN s : s[i] = y) /\ s[Len(s)] # y => \E i \in DOMAIN f : f[i] = y
  <2> SUFFICES ASSUME NEW y, NEW i \in DOMAIN s, s[i] = y, s[Len(s)] # y
               PROVE  \E j \in DOMAIN f : f[j] = y
    OBVIOUS
  <2>1. i \in 1 .. Len(s) - 1
    BY <1>1
  <2> QED BY <2>1, <1>2
<1> QED BY <1>2, <1>3, <1>4 DEF f

LEMMA TypeParts ==
    TypeOK <=>
        /\ main \in {"ready", "loop", "stop", "join", "exit", "close"}
        /\ built \in Seq(Singletons) /\ Distinct(built)
        /\ is_running \in BOOLEAN /\ ctx_stopped \in BOOLEAN /\ acceptor_open \in BOOLEAN
        /\ accept_ops \in Nat /\ header_reads \in Nat
        /\ thread \in [Threads -> ThreadStates]
        /\ block \in [Blocks -> {"pooled", "read", "queued", "freed", "lost"}]
BY DEF TypeOK, Singletons, Distinct, ThreadStates

LEMMA LifeInit == Init => LifeInv
<1> SUFFICES ASSUME Init PROVE LifeInv
  OBVIOUS
<1>1. built = <<"log", "time", "tcp", "engine">>
  BY DEF Init
<1>2. built \in Seq(Singletons) /\ Distinct(built) /\ Alive("tcp")
  BY <1>1 DEF Singletons, Distinct, Alive
<1>3. TypeOK
  BY <1>2, TypeParts DEF Init, ThreadStates
<1> QED BY <1>2, <1>3 DEF Init, LifeInv

\* start(), on the main thread, leaves a loop that runs.
LEMMA StartLife == LifeInv /\ (Start \/ Restart) => LifeInv'
<1> SUFFICES ASSUME LifeInv, Start \/ Restart PROVE LifeInv'
  OBVIOUS
<1>1. /\ main \in {"ready", "loop"} /\ main' = "loop"
      /\ is_running' = TRUE /\ accept_ops' \in {accept_ops, accept_ops + 1}
      /\ UNCHANGED <<built, ctx_stopped, acceptor_open, header_reads, block>>
  BY DEF Start, Restart, StartTcp
<1>2. thread' \in [Threads -> ThreadStates]
  BY TypeParts DEF LifeInv, Start, Restart, StartTcp, ThreadStates
<1>3. TypeOK'
  BY <1>1, <1>2 DEF LifeInv, TypeOK, ThreadStates
<1>4. Alive("tcp")'
  BY <1>1 DEF LifeInv, Alive
<1> QED BY <1>1, <1>3, <1>4 DEF LifeInv

\* What an io thread can change.
LEMMA IoChanges ==
    ASSUME TypeOK, NEW t \in Threads, IoStep(t)
    PROVE  /\ UNCHANGED <<main, flags>>
           /\ accept_ops' \in Nat /\ header_reads' \in Nat
           /\ thread[t] \in InRun
           /\ thread' \in [Threads -> ThreadStates]
           /\ \A u \in Threads : u # t => thread'[u] = thread[u]
           /\ built' = built \/ (~Alive("pool") /\ built' = Append(built, "pool"))
           /\ block' \in [Blocks -> {"pooled", "read", "queued", "freed", "lost"}]
<1> USE TypeParts DEF ThreadStates
<1>1. CASE Accepted(t) \/ AcceptFailed(t)
  BY <1>1 DEF Accepted, AcceptFailed
<1>2. CASE CreateSession(t) \/ AcceptNext(t)
  BY <1>2 DEF CreateSession, AcceptNext
<1>3. CASE HeaderRead(t) \/ HeaderFailed(t)
  BY <1>3 DEF HeaderRead, HeaderFailed
<1>4. CASE RentFails(t) \/ RunReturns(t) \/ \E b \in Blocks : RentBlock(t, b)
  BY <1>4 DEF RentFails, RunReturns, RentBlock
<1>5. CASE \E b \in Blocks : PayloadRead(t, b) \/ PayloadFailed(t, b)
  BY <1>5 DEF PayloadRead, PayloadFailed, GivenBack
<1> QED BY <1>1, <1>2, <1>3, <1>4, <1>5 DEF IoStep

\* An io thread takes a step only while main() has not left its loop for good.
LEMMA IoLife == ASSUME LifeInv, NEW t \in Threads, IoStep(t) PROVE LifeInv'
<1>1. /\ UNCHANGED <<main, flags>>
      /\ accept_ops' \in Nat /\ header_reads' \in Nat
      /\ thread[t] \in InRun
      /\ thread' \in [Threads -> ThreadStates]
      /\ built' = built \/ (~Alive("pool") /\ built' = Append(built, "pool"))
      /\ block' \in [Blocks -> {"pooled", "read", "queued", "freed", "lost"}]
  BY IoChanges DEF LifeInv
<1>2. /\ main \notin {"exit", "close"} /\ ~(main = "loop" /\ ~is_running)
      /\ Alive("tcp")
  BY <1>1 DEF LifeInv, Quiet, Joined
<1>3. built' \in Seq(Singletons) /\ Distinct(built)' /\ Alive("tcp")'
  <2>1. CASE built' = built
    BY <2>1, <1>2, TypeParts DEF LifeInv, Alive, Distinct
  <2>2. CASE ~Alive("pool") /\ built' = Append(built, "pool")
    <3>1. "pool" \in Singletons /\ \A i \in DOMAIN built : built[i] # "pool"
      BY <2>2 DEF Alive, Singletons
    <3>2. /\ Append(built, "pool") \in Seq(Singletons)
          /\ Distinct(Append(built, "pool"))
          /\ \E i \in DOMAIN Append(built, "pool") : Append(built, "pool")[i] = "tcp"
      BY <3>1, <1>2, TypeParts, AppendDistinct DEF LifeInv, Alive
    <3> QED BY <2>2, <3>2 DEF Alive, Distinct
  <2> QED BY <2>1, <2>2, <1>1
<1>4. TypeOK'
  BY <1>1, <1>3 DEF LifeInv, TypeOK, Singletons, Distinct, ThreadStates
<1> QED BY <1>1, <1>2, <1>3, <1>4 DEF LifeInv

\* A step of stop(), or the way out of the loop.
LEMMA StopLife == LifeInv /\ (CallStop \/ StopContext \/ LeaveLoop \/ DestroyTcp) => LifeInv'
<1> SUFFICES ASSUME LifeInv, CallStop \/ StopContext \/ LeaveLoop \/ DestroyTcp
             PROVE  LifeInv'
  OBVIOUS
<1>1. UNCHANGED <<built, acceptor_open, accept_ops, header_reads, thread, block>>
  BY DEF CallStop, StopContext, LeaveLoop, DestroyTcp
<1>2. TypeOK'
  BY <1>1 DEF LifeInv, TypeOK, CallStop, StopContext, LeaveLoop, DestroyTcp
<1>3. main' = "exit" => Quiet'
  BY <1>1 DEF LifeInv, CallStop, StopContext, LeaveLoop, DestroyTcp, Quiet
<1>4. main' \notin {"close", "loop"}
  BY DEF CallStop, StopContext, LeaveLoop, DestroyTcp
<1>5. Alive("tcp")'
  <2>1. CASE main # "exit"
    BY <2>1, <1>1 DEF LifeInv, Alive
  <2>2. CASE DestroyTcp
    <3>1. built # <<>> /\ built[Len(built)] = "tcp"
      BY <2>2 DEF DestroyTcp, Last
    <3>2. Len(built) \in DOMAIN built
      BY <3>1, TypeParts DEF LifeInv
    <3> QED BY <3>1, <3>2, <1>1 DEF Alive
  <2> QED BY <2>1, <2>2 DEF CallStop, StopContext, LeaveLoop
<1> QED BY <1>2, <1>3, <1>4, <1>5 DEF LifeInv

\* stop() returns when every thread has ended, and then every thread is joined.
LEMMA JoinLife == LifeInv /\ Join => LifeInv'
<1> SUFFICES ASSUME LifeInv, Join PROVE LifeInv'
  OBVIOUS
<1>1. /\ main = "join" /\ main' \in {"loop", "close"}
      /\ thread' = [t \in Threads |-> IF thread[t] = "ended" THEN "joined" ELSE thread[t]]
      /\ UNCHANGED <<built, flags, accept_ops, header_reads, block>>
  BY DEF Join, Caller
<1>2. \A t \in Threads : thread[t] \in {"unused", "ended", "joined"}
  BY TypeParts DEF LifeInv, Join, ThreadStates
<1>3. Joined'
  BY <1>1, <1>2 DEF Joined
<1>4. TypeOK'
  BY <1>1, <1>2 DEF LifeInv, TypeOK
<1>5. Alive("tcp")'
  BY <1>1 DEF LifeInv, Alive
<1> QED BY <1>1, <1>3, <1>4, <1>5 DEF LifeInv, Joined, Quiet

\* A destructor runs when nothing else does.
LEMMA DestroyLife == LifeInv /\ (DestroyPool \/ DestroyOther \/ CloseTcp) => LifeInv'
<1> SUFFICES ASSUME LifeInv, DestroyPool \/ DestroyOther \/ CloseTcp PROVE LifeInv'
  OBVIOUS
<1>1. /\ main \in {"exit", "close"} /\ main' = "exit"
      /\ built' = SubSeq(built, 1, Len(built) - 1)
      /\ UNCHANGED <<is_running, ctx_stopped, thread>>
  BY DEF DestroyPool, DestroyOther, CloseTcp, DestroyLast
<1>2. /\ built' \in Seq(Singletons) /\ Distinct(built)'
      /\ Alive("tcp") /\ built[Len(built)] # "tcp" => Alive("tcp")'
  <2> DEFINE f == SubSeq(built, 1, Len(built) - 1)
  <2>1. built \in Seq(Singletons) /\ Distinct(built)
    BY TypeParts DEF LifeInv
  <2>2. /\ f \in Seq(Singletons) /\ Distinct(f)
        /\ \A y : (\E i \in DOMAIN built : built[i] = y) /\ built[Len(built)] # y
                       => \E i \in DOMAIN f : f[i] = y
    BY <2>1, FrontDistinct
  <2>3. built' = f
    BY <1>1
  <2> HIDE DEF f
  <2> QED BY <2>2, <2>3 DEF Alive, Distinct
<1>3. block' \in [Blocks -> {"pooled", "read", "queued", "freed", "lost"}]
  BY TypeParts DEF LifeInv, DestroyPool, DestroyOther, CloseTcp, GivenBack
<1>4. acceptor_open' \in BOOLEAN /\ accept_ops' \in Nat /\ header_reads' \in Nat
  <2>1. CASE CloseTcp
    BY <2>1 DEF CloseTcp
  <2>2. CASE DestroyPool \/ DestroyOther
    BY <2>2 DEF LifeInv, TypeOK, DestroyPool, DestroyOther
  <2> QED BY <2>1, <2>2
<1>5. TypeOK'
  BY <1>1, <1>2, <1>3, <1>4 DEF LifeInv, TypeOK, Singletons, Distinct
<1>6. Quiet'
  BY <1>1 DEF LifeInv, Quiet
<1>7. ~Alive("tcp")' => Joined'
  <2>1. CASE CloseTcp
    BY <2>1, <1>1 DEF LifeInv, CloseTcp, Joined
  <2>2. CASE DestroyPool \/ DestroyOther
    <3>1. built[Len(built)] # "tcp"
      BY <2>2 DEF DestroyPool, DestroyOther, Last
    <3> QED BY <3>1, <1>1, <1>2 DEF LifeInv, Joined
  <2> QED BY <2>1, <2>2
<1> QED BY <1>1, <1>5, <1>6, <1>7 DEF LifeInv

LEMMA DispatchLife == ASSUME LifeInv, NEW b \in Blocks, Dispatch(b) PROVE LifeInv'
<1>1. UNCHANGED <<main, built, flags, accept_ops, header_reads, thread>>
  BY DEF Dispatch
<1>2. block' \in [Blocks -> {"pooled", "read", "queued", "freed", "lost"}]
  BY TypeParts DEF LifeInv, Dispatch, GivenBack
<1> QED BY <1>1, <1>2 DEF LifeInv, TypeOK, Quiet, Joined, Alive

LEMMA LifeStep == LifeInv /\ [Next]_vars => LifeInv'
<1> SUFFICES ASSUME LifeInv, [Next]_vars PROVE LifeInv'
  OBVIOUS
<1>1. CASE UNCHANGED vars
  BY <1>1 DEF LifeInv, TypeOK, Quiet, Joined, Alive, vars
<1>2. CASE Start \/ Restart
  BY <1>2, StartLife
<1>3. CASE CallStop \/ StopContext \/ LeaveLoop \/ DestroyTcp
  BY <1>3, StopLife
<1>4. CASE Join
  BY <1>4, JoinLife
<1>5. CASE DestroyPool \/ DestroyOther \/ CloseTcp
  BY <1>5, DestroyLife
<1>6. CASE \E b \in Blocks : Dispatch(b)
  BY <1>6, DispatchLife
<1>7. CASE \E t \in Threads : IoStep(t)
  BY <1>7, IoLife
<1> QED BY <1>1, <1>2, <1>3, <1>4, <1>5, <1>6, <1>7 DEF Next, Ending

LEMMA LifeAlways == Spec => []LifeInv
BY LifeInit, LifeStep, PTL DEF Spec

\* Whatever start() and stop() the process has seen, the io threads are through when
\* static destruction begins, and joined when tcp is destroyed.
THEOREM ThreadsGoneBeforeSingletons == Spec => []ThreadsGoneFirst
<1>1. LifeInv => ThreadsGoneFirst
  BY DEF LifeInv, ThreadsGoneFirst, Quiet, Joined
<1> QED BY <1>1, LifeAlways, PTL

\* The type invariant, with which every singleton is constructed once.
THEOREM LifecycleTypeCorrect == Spec => []TypeOK
<1>1. LifeInv => TypeOK
  BY DEF LifeInv
<1> QED BY <1>1, LifeAlways, PTL

-----------------------------------------------------------------------------
(* What start() promises holds until tcp is started a second time.         *)

InAccept == {t \in Threads : thread[t] \in {"create", "rearm"}}

StartedOnce ==
    /\ LifeInv
    /\ main = "ready" => ~ctx_stopped
    /\ main \in {"stop", "join"} => ~is_running
    /\ main = "loop" /\ is_running =>
           /\ ~ctx_stopped
           /\ IsServer => accept_ops > 0 \/ InAccept # {}
           /\ ~Quiet

\* Only a severe error, or a server that is stopping, ends the accept loop.
LEMMA AcceptLoopStep ==
    ASSUME TypeOK, ~SevereErrors, is_running, accept_ops > 0 \/ InAccept # {},
           NEW t \in Threads, IoStep(t)
    PROVE  accept_ops' > 0 \/ InAccept' # {}
<1>0. /\ accept_ops \in Nat /\ thread \in [Threads -> ThreadStates]
      /\ \A u \in Threads : u # t => thread'[u] = thread[u]
  BY TypeParts, IoChanges
<1>1. CASE Accepted(t)
  BY <1>0, <1>1 DEF Accepted, InAccept
<1>2. CASE CreateSession(t)
  BY <1>0, <1>2 DEF CreateSession, InAccept
<1>3. CASE AcceptNext(t)
  BY <1>0, <1>3 DEF AcceptNext
<1>4. CASE ~(Accepted(t) \/ CreateSession(t) \/ AcceptNext(t))
  <2>1. accept_ops' = accept_ops /\ t \notin InAccept
    BY <1>4 DEF IoStep, AcceptFailed, HeaderRead, HeaderFailed, RentFails, RunReturns,
         RentBlock, PayloadRead, PayloadFailed, InAccept
  <2> QED BY <1>0, <2>1 DEF InAccept
<1> QED BY <1>1, <1>2, <1>3, <1>4

LEMMA StartedOnceStep ==
    ASSUME ThreadCount > 0, ~Restarts, ~SevereErrors, StartedOnce, [Next]_vars
    PROVE  StartedOnce'
<1>0. LifeInv' /\ LifeInv /\ TypeOK
  BY LifeStep DEF StartedOnce, LifeInv
<1> SUFFICES /\ main' = "ready" => ~ctx_stopped'
             /\ main' \in {"stop", "join"} => ~is_running'
             /\ main' = "loop" /\ is_running' =>
                    /\ ~ctx_stopped'
                    /\ acceptor_open' => accept_ops' > 0 \/ InAccept' # {}
                    /\ ~Quiet'
  BY <1>0 DEF StartedOnce
<1> USE DEF StartedOnce, TypeOK
<1>1. CASE Start
  <2>1. /\ main = "ready" /\ main' = "loop" /\ ~ctx_stopped' /\ acceptor_open' = acceptor_open
        /\ accept_ops' = IF acceptor_open THEN accept_ops + 1 ELSE accept_ops
    BY <1>1 DEF Start, StartTcp
  <2>2. PICK S \in SUBSET Unused :
           /\ Cardinality(S) = ThreadCount
           /\ thread' = [t \in Threads |-> IF t \in S THEN "run" ELSE thread[t]]
    BY <1>1 DEF Start, StartTcp
  <2>3. PICK t \in Threads : t \in S
    BY <2>2, FS_EmptySet DEF Unused
  <2>4. ~Quiet'
    BY <2>2, <2>3 DEF Quiet
  <2> QED BY <1>0, <2>1, <2>4
<1>2. CASE \/ CallStop \/ StopContext \/ Join \/ LeaveLoop \/ DestroyTcp \/ CloseTcp
           \/ DestroyPool \/ DestroyOther \/ \E b \in Blocks : Dispatch(b)
  BY <1>2 DEF CallStop, StopContext, Join, LeaveLoop, DestroyTcp, CloseTcp, DestroyPool,
       DestroyOther, Dispatch, Caller, InAccept, Quiet
<1>3. ASSUME NEW t \in Threads, IoStep(t), main = "loop", is_running
      PROVE  ~Quiet'
  <2>1. thread'[t] \in InRun
    BY <1>0, <1>3 DEF IoStep, Accepted, AcceptFailed, CreateSession, AcceptNext, HeaderRead,
         HeaderFailed, RentFails, RunReturns, RentBlock, PayloadRead, PayloadFailed
  <2> QED BY <2>1 DEF Quiet
<1>4. CASE \E t \in Threads : IoStep(t)
  <2>1. PICK t \in Threads : IoStep(t)
    BY <1>4
  <2>2. UNCHANGED <<main, flags>>
    BY <1>0, <2>1, IoChanges
  <2> QED BY <1>0, <1>3, <2>1, <2>2, AcceptLoopStep
<1>5. CASE UNCHANGED vars
  BY <1>5 DEF vars, InAccept, Quiet
<1> QED BY <1>1, <1>2, <1>4, <1>5 DEF Next, Ending, Restart

\* A server that is started once, with at least one thread, and sees no severe accept
\* error, accepts from then on until it is stopped: an accept is outstanding or being
\* handled. dead_restart shows what becomes of a second start.
THEOREM FirstStartAccepts ==
    Spec => [](ThreadCount > 0 /\ ~Restarts /\ ~SevereErrors => StartedServerAccepts)
<1> DEFINE Cond == ThreadCount > 0 /\ ~Restarts /\ ~SevereErrors
<1>1. Init => (Cond => StartedOnce)
  BY LifeInit DEF Init, StartedOnce
<1>2. (Cond => StartedOnce) /\ [Next]_vars => (Cond => StartedOnce)'
  BY StartedOnceStep
<1>3. (Cond => StartedOnce) => (Cond => StartedServerAccepts)
  BY DEF StartedOnce, StartedServerAccepts, LifeInv, TypeOK, InAccept, Quiet
<1> HIDE DEF Cond
<1>4. Spec => [](Cond => StartedServerAccepts)
  BY <1>1, <1>2, <1>3, PTL DEF Spec
<1> QED BY <1>4 DEF Cond

-----------------------------------------------------------------------------
(* Which blocks come back late.                                            *)

Order == <<"log", "time", "tcp", "engine", "pool">>

InOrder == Len(built) <= 5 /\ \A i \in 1 .. Len(built) : built[i] = Order[i]

\* While the frame loop may run, the pool is there if a block was ever taken from it;
\* once it is gone, nobody touches a block until the members of tcp are destroyed.
Stage(n) ==
    /\ n \in 0 .. 5
    /\ main \in {"ready", "loop"} => n >= 4
    /\ main \in {"stop", "join"} => n >= 3
    /\ main = "close" => n = 3
    /\ main = "exit" \/ n < 4 => Quiet
    /\ main # "exit" /\ n = 4 => \A b \in Blocks : block[b] = "pooled"
    /\ n >= 3 => BlocksComeBackInTime

BlockInv == LifeInv /\ InOrder /\ Stage(Len(built))

LEMMA AliveInOrder ==
    ASSUME TypeOK, InOrder
    PROVE  /\ Len(built) \in 0 .. 5 /\ DOMAIN built = 1 .. Len(built)
           /\ Alive("tcp") <=> Len(built) >= 3
           /\ Alive("engine") <=> Len(built) >= 4
           /\ Alive("pool") <=> Len(built) = 5
<1>1. /\ Order[1] = "log" /\ Order[2] = "time" /\ Order[3] = "tcp"
      /\ Order[4] = "engine" /\ Order[5] = "pool"
  BY DEF Order
<1>2. Len(built) \in 0 .. 5 /\ DOMAIN built = 1 .. Len(built)
  <2>1. PICK s \in Seq(Singletons) : s = built
    BY TypeParts
  <2>2. Len(s) \in Nat /\ DOMAIN s = 1 .. Len(s)
    OBVIOUS
  <2> QED BY <2>1, <2>2 DEF InOrder
<1>3. \A i \in 1 .. Len(built) : built[i] = Order[i]
  BY DEF InOrder
<1> HIDE DEF Order
<1>4. \A i \in 1 .. Len(built) : i = 1 \/ i = 2 \/ i = 3 \/ i = 4 \/ i = 5
  BY <1>2
<1>5. Alive("tcp") <=> Len(built) >= 3
  BY <1>1, <1>2, <1>3, <1>4 DEF Alive
<1>6. Alive("engine") <=> Len(built) >= 4
  BY <1>1, <1>2, <1>3, <1>4 DEF Alive
<1>7. Alive("pool") <=> Len(built) = 5
  BY <1>1, <1>2, <1>3, <1>4 DEF Alive
<1> QED BY <1>2, <1>5, <1>6, <1>7

LEMMA AppendLast ==
    ASSUME NEW s \in Seq(Singletons), NEW x \in Singletons
    PROVE  /\ Len(Append(s, x)) = Len(s) + 1 /\ Append(s, x)[Len(s) + 1] = x
           /\ \A i \in 1 .. Len(s) : Append(s, x)[i] = s[i]
OBVIOUS

\* The pool comes last and goes first.
LEMMA OrderGrows ==
    ASSUME TypeOK, InOrder, Len(built) = 4, built' = Append(built, "pool")
    PROVE  InOrder' /\ Len(built') = 5
<1>1. built \in Seq(Singletons) /\ "pool" \in Singletons
  BY TypeParts DEF Singletons
<1>2. /\ Len(built') = Len(built) + 1 /\ built'[Len(built) + 1] = "pool"
      /\ \A i \in 1 .. Len(built) : built'[i] = built[i]
  BY <1>1, AppendLast
<1> QED BY <1>2 DEF InOrder, Order

LEMMA OrderLast ==
    ASSUME TypeOK, InOrder, built # <<>>
    PROVE  Len(built) \in 1 .. 5 /\ (Last = "tcp" => Len(built) = 3)
<1>1. Len(built) \in 1 .. 5
  BY TypeParts, AliveInOrder
<1>2. Last = Order[Len(built)]
  BY <1>1 DEF Last, InOrder
<1>3. /\ Order[1] = "log" /\ Order[2] = "time" /\ Order[4] = "engine" /\ Order[5] = "pool"
  BY DEF Order
<1> HIDE DEF Order
<1>4. Len(built) = 1 \/ Len(built) = 2 \/ Len(built) = 3 \/ Len(built) = 4 \/ Len(built) = 5
  BY <1>1
<1> QED BY <1>1, <1>2, <1>3, <1>4

LEMMA OrderShrinks ==
    ASSUME TypeOK, InOrder, built # <<>>, DestroyLast
    PROVE  InOrder' /\ Len(built') = Len(built) - 1
<1>1. Len(built) \in 1 .. 5
  BY OrderLast
<1>2. Len(built') = Len(built) - 1 /\ \A i \in 1 .. Len(built) - 1 : built'[i] = built[i]
  <2>1. PICK s \in Seq(Singletons) : s = built
    BY TypeParts
  <2> DEFINE f == SubSeq(s, 1, Len(s) - 1)
  <2>2. Len(f) = Len(s) - 1 /\ \A i \in 1 .. Len(s) - 1 : f[i] = s[i]
    BY <1>1, <2>1
  <2> HIDE DEF f
  <2>3. built' = f
    BY <2>1 DEF DestroyLast, f
  <2> QED BY <2>1, <2>2, <2>3
<1> QED BY <1>1, <1>2 DEF InOrder

LEMMA BlockInvStep == BlockInv /\ [Next]_vars => BlockInv'
<1> SUFFICES ASSUME BlockInv, [Next]_vars PROVE InOrder' /\ Stage(Len(built))'
  BY LifeStep DEF BlockInv
<1>0. /\ LifeInv /\ TypeOK /\ InOrder
      /\ block \in [Blocks -> {"pooled", "read", "queued", "freed", "lost"}]
      /\ thread \in [Threads -> ThreadStates]
  BY DEF BlockInv, LifeInv, TypeOK, ThreadStates
<1>1. PICK n \in 0 .. 5 : n = Len(built) /\ Stage(n)
  BY DEF BlockInv, Stage
<1>2. /\ Alive("engine") <=> n >= 4
      /\ Alive("pool") <=> n = 5
  BY <1>0, <1>1, AliveInOrder
<1> SUFFICES \E m \in 0 .. 5 : m = Len(built') /\ InOrder' /\ Stage(m)'
  BY DEF Stage
<1>3. ASSUME built' = built PROVE InOrder' /\ n = Len(built')
  BY <1>0, <1>1, <1>3 DEF InOrder
<1> USE DEF Stage, BlocksComeBackInTime, Quiet
<1>4. CASE Start \/ Restart
  <2>1. /\ main \in {"ready", "loop"} /\ main' = "loop" /\ UNCHANGED <<built, block>>
    BY <1>4 DEF Start, Restart, StartTcp
  <2>2. Stage(n)'
    BY <1>1, <2>1
  <2> QED BY <1>3, <2>1, <2>2
<1>5. CASE CallStop \/ StopContext \/ LeaveLoop
  <2>1. Stage(n)' /\ built' = built
    BY <1>0, <1>1, <1>5 DEF CallStop, StopContext, LeaveLoop, LifeInv
  <2> QED BY <1>3, <2>1
<1>6. CASE Join
  <2>1. /\ UNCHANGED <<built, block>> /\ main = "join"
        /\ main' = IF n >= 4 THEN "loop" ELSE "close"
        /\ \A t \in Threads : thread'[t] \notin InRun
    BY <1>2, <1>6 DEF Join, Caller
  <2>2. Stage(n)'
    BY <1>1, <2>1
  <2> QED BY <1>3, <2>1, <2>2
<1>7. CASE DestroyTcp
  <2>1. /\ main = "exit" /\ main' = "stop" /\ UNCHANGED <<built, thread, block>>
        /\ built # <<>> /\ Last = "tcp"
    BY <1>7 DEF DestroyTcp
  <2>2. n = 3
    BY <1>0, <1>1, <2>1, OrderLast
  <2>3. Stage(n)'
    BY <1>1, <2>1, <2>2
  <2> QED BY <1>3, <2>1, <2>3
<1>8. CASE CloseTcp \/ DestroyPool \/ DestroyOther
  <2>1. DestroyLast /\ thread' = thread /\ main' = "exit" /\ Quiet
    BY <1>1, <1>8 DEF CloseTcp, DestroyPool, DestroyOther
  <2>2. built # <<>>
    <3>1. CASE CloseTcp
      BY <1>1, <3>1 DEF CloseTcp
    <3>2. CASE DestroyPool \/ DestroyOther
      BY <3>2 DEF DestroyPool, DestroyOther
    <3> QED BY <1>8, <3>1, <3>2
  <2>3. InOrder' /\ Len(built') = n - 1 /\ n >= 1
    BY <1>0, <1>1, <2>1, <2>2, OrderShrinks, OrderLast
  <2>4. n - 1 >= 3 => \A b \in Blocks : block'[b] # "lost"
    BY <1>0, <1>1, <1>8 DEF CloseTcp, DestroyPool, DestroyOther
  <2>5. n - 1 \in 0 .. 5 /\ Stage(n - 1)'
    BY <1>1, <2>1, <2>3, <2>4
  <2> QED BY <2>3, <2>5
<1>9. ASSUME NEW b \in Blocks, Dispatch(b) PROVE n = Len(built') /\ InOrder' /\ Stage(n)'
  <2>1. /\ main = "loop" /\ block[b] = "queued" /\ UNCHANGED <<main, built, thread>>
        /\ block' = [block EXCEPT ![b] = GivenBack]
    BY <1>9 DEF Dispatch
  <2>2. n = 5
    BY <1>1, <2>1
  <2>3. GivenBack = "pooled"
    BY <1>2, <2>2 DEF GivenBack
  <2> QED BY <1>0, <1>1, <1>3, <2>1, <2>2, <2>3
<1>10. ASSUME NEW t \in Threads, IoStep(t)
       PROVE  \E m \in 0 .. 5 : m = Len(built') /\ InOrder' /\ Stage(m)'
  <2>1. /\ thread[t] \in InRun /\ main' = main
        /\ \A u \in Threads : thread'[u] \in InRun => thread[u] \in InRun
    BY <1>0, <1>10, IoChanges
  <2>2. main # "exit" /\ n \in {4, 5}
    BY <1>1, <2>1
  <2>3. CASE \/ Accepted(t) \/ AcceptFailed(t) \/ CreateSession(t) \/ AcceptNext(t)
             \/ HeaderRead(t) \/ HeaderFailed(t) \/ RunReturns(t)
    <3>1. UNCHANGED <<built, block>>
      BY <2>3 DEF Accepted, AcceptFailed, CreateSession, AcceptNext, HeaderRead, HeaderFailed,
           RunReturns
    <3>2. Stage(n)'
      BY <1>1, <2>1, <2>2, <3>1
    <3> QED BY <1>3, <3>1, <3>2
  <2>4. CASE RentFails(t) \/ \E b \in Blocks : RentBlock(t, b)
    <3>1. InOrder' /\ 5 = Len(built')
      <4>1. built' = IF n = 5 THEN built ELSE Append(built, "pool")
        BY <1>2, <2>4 DEF RentFails, RentBlock
      <4> QED BY <1>0, <1>1, <1>3, <2>2, <4>1, OrderGrows
    <3>2. \A b \in Blocks : block'[b] # "lost"
      BY <1>0, <1>1, <2>2, <2>4 DEF RentFails, RentBlock
    <3>3. Stage(5)'
      BY <1>1, <2>1, <2>2, <3>2
    <3> QED BY <3>1, <3>3
  <2>5. ASSUME NEW b \in Blocks, PayloadRead(t, b) \/ PayloadFailed(t, b)
        PROVE  n = Len(built') /\ InOrder' /\ Stage(n)'
    <3>1. /\ block[b] = "read" /\ UNCHANGED <<built, thread>>
          /\ block' \in {[block EXCEPT ![b] = "queued"], [block EXCEPT ![b] = GivenBack]}
      BY <2>5 DEF PayloadRead, PayloadFailed
    <3>2. n = 5
      BY <1>1, <2>2, <3>1
    <3>3. GivenBack = "pooled"
      BY <1>2, <3>2 DEF GivenBack
    <3> QED BY <1>0, <1>1, <1>3, <2>1, <2>2, <3>1, <3>2, <3>3
  <2> QED BY <1>10, <2>3, <2>4, <2>5 DEF IoStep
<1>11. CASE UNCHANGED vars
  <2>1. Stage(n)' /\ built' = built
    BY <1>1, <1>11 DEF vars
  <2> QED BY <1>3, <2>1
<1> QED BY <1>4, <1>5, <1>6, <1>7, <1>8, <1>9, <1>10, <1>11 DEF Next, Ending

\* As long as tcp is there every block comes back to a pool that is there: late are
\* only those that the members of tcp still hold when it is destroyed (late_blocks).
THEOREM BlocksBackWhileServing == Spec => [](Alive("tcp") => BlocksComeBackInTime)
<1>1. Init => BlockInv
  <2> SUFFICES ASSUME Init PROVE BlockInv
    OBVIOUS
  <2>1. built = <<"log", "time", "tcp", "engine">>
    BY DEF Init
  <2>2. InOrder /\ Len(built) = 4
    BY <2>1 DEF InOrder, Order
  <2>3. Stage(4)
    BY DEF Init, Stage, Quiet, BlocksComeBackInTime
  <2> QED BY <2>2, <2>3, LifeInit DEF BlockInv
<1>2. BlockInv => (Alive("tcp") => BlocksComeBackInTime)
  <2> SUFFICES ASSUME BlockInv, Alive("tcp") PROVE BlocksComeBackInTime
    OBVIOUS
  <2>1. Len(built) >= 3
    BY AliveInOrder DEF BlockInv, LifeInv
  <2> QED BY <2>1 DEF BlockInv, Stage
<1> QED BY <1>1, <1>2, BlockInvStep, PTL DEF Spec

=============================================================================
