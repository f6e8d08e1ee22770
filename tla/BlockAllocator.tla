--------------------------- MODULE BlockAllocator ---------------------------
(***************************************************************************)
(* What net::common::ts_memory_pool promises to its users, and no more: a  *)
(* block that is handed out is at least as large as was asked for, it has  *)
(* one user until that user gives it back, and it keeps its size for good. *)
(***************************************************************************)
EXTENDS Integers, FiniteSets

CONSTANTS
    Blocks,      \* blocks of memory that may ever be allocated
    BlockSizes,  \* the sizes blocks come in
    Sizes        \* the sizes users ask for

VARIABLES
    size,   \* the size of each block, 0 while it is not allocated
    users,  \* the number of users of each block
    asked   \* how many bytes its user was promised

vars == <<size, users, asked>>

Init ==
    /\ size \in [Blocks -> BlockSizes \cup {0}]
    /\ users = [b \in Blocks |-> 0]
    /\ asked = [b \in Blocks |-> 0]

\* A user who asked for n bytes is given block b.
Lend(b, n) ==
    /\ users[b] = 0
    /\ \/ UNCHANGED size
       \/ /\ size[b] = 0
          /\ \E s \in BlockSizes : size' = [size EXCEPT ![b] = s]
    /\ n <= size'[b]
    /\ users' = [users EXCEPT ![b] = 1]
    /\ asked' = [asked EXCEPT ![b] = n]

GiveBack(b) ==
    /\ users[b] = 1
    /\ users' = [users EXCEPT ![b] = 0]
    /\ asked' = [asked EXCEPT ![b] = 0]
    /\ UNCHANGED size

Next == \E b \in Blocks : GiveBack(b) \/ \E n \in Sizes : Lend(b, n)

Spec == Init /\ [][Next]_vars

=============================================================================
