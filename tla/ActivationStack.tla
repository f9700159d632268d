--------------------------- MODULE ActivationStack ---------------------------
(***************************************************************************)
(* The stack of activations the native profiler keeps per context          *)
(* (ActivationStack of src/native_ext/profiling.cpp): the first            *)
(* kMaxActivations entries are in the structure, then all of them move to  *)
(* memory of the arena, which is replaced by a larger one when it is full  *)
(* and never given up while the stack lives.                               *)
(*                                                                         *)
(* A stack is a record of the structure's fields; what it has in the arena *)
(* is extra, with its address, block (NoBlock while it has nothing there). *)
(* Sizes are counted in activations, and an entry that was taken off is    *)
(* NoActivation: nothing reads it again.                                   *)
(***************************************************************************)
EXTENDS PagedArena

CONSTANTS
  kMaxActivations,
  SpillFactor,      \* the first spilled capacity is so many times kMaxActivations
  NoActivation      \* memory that holds no activation yet

ASSUME StackAssumption ==
  /\ kMaxActivations \in Nat \ {0} /\ SpillFactor \in Nat \ {0, 1}

\* ActivationStackInit.
EmptyStack ==
  [count |-> 0, capacity |-> kMaxActivations, block |-> NoBlock,
   activations |-> [i \in 1 .. kMaxActivations |-> NoActivation],
   extra |-> <<>>]

\* The half that is in use.
Entries(stack) == IF stack.block = NoBlock THEN stack.activations ELSE stack.extra

\* What a plain stack would hold.
Contents(stack) == [i \in 1 .. stack.count |-> Entries(stack)[i]]

\* Mutant: the entries stay behind.
MovedEmpty(stack, capacity, block) ==
  [stack EXCEPT !.capacity = capacity, !.block = block,
                !.extra = [i \in 1 .. capacity |-> NoActivation]]

\* The entries are copied to new memory of the arena.
Moved(stack, capacity, block) ==
  [stack EXCEPT !.capacity = capacity, !.block = block,
                !.extra = [i \in 1 .. capacity |->
                             IF i <= stack.count THEN Entries(stack)[i] ELSE NoActivation]]

Full(stack) == stack.count = stack.capacity

LargerCapacity(stack) ==
  IF stack.block = NoBlock THEN SpillFactor * kMaxActivations ELSE (stack.capacity * 3) \div 2

Put(stack, x) ==
  LET top == stack.count + 1 IN
  IF stack.block = NoBlock
    THEN [stack EXCEPT !.count = top, !.activations[top] = x]
    ELSE [stack EXCEPT !.count = top, !.extra[top] = x]

\* ActivationStackPush and the writing of the entry: the stack and the arena.
Push(stack, x, arena) ==
  IF ~Full(stack)
    THEN [stack |-> Put(stack, x), arena |-> arena]
    ELSE LET r == PagedArenaAlloc(arena, LargerCapacity(stack)) IN
         IF r.block = NoBlock
           THEN [stack |-> stack, arena |-> r.arena]
           ELSE [stack |-> Put(Moved(stack, LargerCapacity(stack), r.block), x),
                 arena |-> r.arena]

\* ActivationStackPop of a stack that is not empty: what it returns, what is left.
Top(stack) == Entries(stack)[stack.count]

Popped(stack) ==
  IF stack.block = NoBlock
    THEN [stack EXCEPT !.count = @ - 1, !.activations[stack.count] = NoActivation]
    ELSE [stack EXCEPT !.count = @ - 1, !.extra[stack.count] = NoActivation]
============================================================================
