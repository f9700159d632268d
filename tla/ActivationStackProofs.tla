------------------------ MODULE ActivationStackProofs ------------------------
(* What the arena and the activation stacks return and preserve, for every   *)
(* page size, alignment and initial capacity: a stack is a plain stack of    *)
(* its contents wherever its entries are, and memory is handed out once.     *)
EXTENDS ActivationStack, SequenceTheorems, TLAPS

(***************************************************************************)
(* Stacks.                                                                 *)
(***************************************************************************)

BlocksOrNone == [page : Nat, at : Nat, size : Nat] \cup {NoBlock}

\* A stack of values.
IsStack(stack, Values) ==
  /\ stack \in [count : Nat, capacity : Nat, block : BlocksOrNone,
                activations : [1 .. kMaxActivations -> Values], extra : Seq(Values)]
  /\ stack.count <= stack.capacity
  /\ stack.block = NoBlock => stack.capacity = kMaxActivations
  /\ stack.block # NoBlock => stack.capacity >= 2 /\ Len(stack.extra) = stack.capacity

\* A stack, spilled to a block or not, has a value for every place of its capacity.
LEMMA StackEntries ==
  ASSUME NEW Values, NEW stack, IsStack(stack, Values)
  PROVE  /\ DOMAIN Entries(stack) = 1 .. stack.capacity
         /\ \A i \in 1 .. stack.capacity : Entries(stack)[i] \in Values
         /\ Contents(stack) \in Seq(Values) /\ Len(Contents(stack)) = stack.count
<1>1. /\ DOMAIN Entries(stack) = 1 .. stack.capacity
      /\ \A i \in 1 .. stack.capacity : Entries(stack)[i] \in Values
  <2>1. CASE stack.block = NoBlock
    BY <2>1, StackAssumption DEF IsStack, Entries
  <2>2. CASE stack.block # NoBlock
    BY <2>2 DEF IsStack, Entries
  <2> QED
    BY <2>1, <2>2
<1>2. /\ stack.count \in Nat /\ Contents(stack) = [i \in 1 .. stack.count |-> Entries(stack)[i]]
      /\ \A i \in 1 .. stack.count : Entries(stack)[i] \in Values
  BY <1>1 DEF IsStack, Contents
<1> QED
  BY <1>1, <1>2

\* The entry is written and the others stay.
LEMMA PutAppends ==
  ASSUME NEW Values, NEW stack, IsStack(stack, Values), stack.count < stack.capacity,
         NEW x \in Values
  PROVE  /\ IsStack(Put(stack, x), Values)
         /\ Contents(Put(stack, x)) = Append(Contents(stack), x)
<1> DEFINE top == stack.count + 1
           after == Put(stack, x)
<1>1. /\ stack.count \in Nat /\ top \in 1 .. stack.capacity /\ stack.capacity \in Nat
      /\ stack.block \in BlocksOrNone /\ top \in Nat
      /\ stack.activations \in [1 .. kMaxActivations -> Values] /\ stack.extra \in Seq(Values)
  BY DEF IsStack
<1> HIDE DEF after
<1>2. ASSUME stack.block = NoBlock
      PROVE  /\ IsStack(after, Values) /\ after.count = top
             /\ \A i \in 1 .. top : Entries(after)[i] = IF i = top THEN x ELSE Entries(stack)[i]
  <2> DEFINE acts == [stack.activations EXCEPT ![top] = x]
  <2>1. acts \in [1 .. kMaxActivations -> Values]
    BY <1>1
  <2>2. /\ after \in [count : Nat, capacity : Nat, block : BlocksOrNone,
                      activations : [1 .. kMaxActivations -> Values], extra : Seq(Values)]
        /\ after.count = top /\ after.capacity = stack.capacity /\ after.block = NoBlock
        /\ after.activations = acts
    BY <1>1, <1>2, <2>1 DEF IsStack, Put, after
  <2>3. IsStack(after, Values)
    BY <1>1, <1>2, <2>2 DEF IsStack
  <2>4. stack.capacity = kMaxActivations
    BY <1>2 DEF IsStack
  <2>5. \A i \in 1 .. top : acts[i] = IF i = top THEN x ELSE stack.activations[i]
    BY <1>1, <2>4
  <2> QED
    BY <1>2, <2>2, <2>3, <2>5 DEF Entries
<1>3. ASSUME stack.block # NoBlock
      PROVE  /\ IsStack(after, Values) /\ after.count = top
             /\ \A i \in 1 .. top : Entries(after)[i] = IF i = top THEN x ELSE Entries(stack)[i]
  <2> DEFINE more == [stack.extra EXCEPT ![top] = x]
  <2>1. Len(stack.extra) = stack.capacity /\ stack.capacity >= 2
    BY <1>3 DEF IsStack
  <2>2. more \in Seq(Values) /\ Len(more) = stack.capacity
    BY <1>1, <2>1
  <2>3. \A i \in 1 .. top : more[i] = IF i = top THEN x ELSE stack.extra[i]
    BY <1>1, <2>1
  <2> HIDE DEF more
  <2>4. after = [stack EXCEPT !.count = top, !.extra = more]
    BY <1>3 DEF IsStack, Put, after, more
  <2>5. /\ after \in [count : Nat, capacity : Nat, block : BlocksOrNone,
                      activations : [1 .. kMaxActivations -> Values], extra : Seq(Values)]
        /\ after.count = top /\ after.capacity = stack.capacity /\ after.block = stack.block
        /\ after.extra = more
    BY <1>1, <2>2, <2>4 DEF IsStack
  <2>6. IsStack(after, Values)
    BY <1>1, <1>3, <2>1, <2>2, <2>5 DEF IsStack
  <2> QED
    BY <1>3, <2>3, <2>5, <2>6 DEF Entries
<1>4. /\ IsStack(after, Values) /\ after.count = top
      /\ \A i \in 1 .. top : Entries(after)[i] = IF i = top THEN x ELSE Entries(stack)[i]
  BY <1>2, <1>3
<1>5. /\ Contents(after) \in Seq(Values) /\ Len(Contents(after)) = top
      /\ \A i \in 1 .. top : Contents(after)[i] = IF i = top THEN x ELSE Entries(stack)[i]
  BY <1>4, StackEntries DEF Contents
<1>6. /\ Contents(stack) \in Seq(Values) /\ Len(Contents(stack)) = stack.count
      /\ \A i \in 1 .. stack.count : Contents(stack)[i] = Entries(stack)[i]
  BY StackEntries DEF Contents
<1>7. /\ Append(Contents(stack), x) \in Seq(Values) /\ Len(Append(Contents(stack), x)) = top
      /\ \A i \in 1 .. top :
            Append(Contents(stack), x)[i] = IF i = top THEN x ELSE Entries(stack)[i]
  BY <1>1, <1>6
<1>8. Contents(after) = Append(Contents(stack), x)
  BY <1>5, <1>7, SeqEqual
<1> QED
  BY <1>4, <1>8 DEF after

\* Moving the entries to a larger block keeps the contents.
LEMMA MovedKeeps ==
  ASSUME NEW Values, NoActivation \in Values, NEW stack, IsStack(stack, Values),
         NEW capacity \in Nat, capacity >= 2, stack.count < capacity,
         NEW block \in BlocksOrNone, block # NoBlock
  PROVE  LET after == Moved(stack, capacity, block) IN
         /\ IsStack(after, Values) /\ Contents(after) = Contents(stack)
         /\ after.count = stack.count /\ after.capacity = capacity
<1> DEFINE after == Moved(stack, capacity, block)
           extra == [i \in 1 .. capacity |->
                       IF i <= stack.count THEN Entries(stack)[i] ELSE NoActivation]
<1>1. /\ stack.count \in Nat /\ stack.capacity \in Nat /\ stack.count <= stack.capacity
  BY DEF IsStack
<1>2. after = [stack EXCEPT !.capacity = capacity, !.block = block, !.extra = extra]
  BY DEF Moved, IsStack
<1>3. \A i \in 1 .. capacity :
        (IF i <= stack.count THEN Entries(stack)[i] ELSE NoActivation) \in Values
  BY <1>1, StackEntries
<1>4. extra \in Seq(Values) /\ Len(extra) = capacity
  BY <1>3
<1> HIDE DEF after
<1>5. /\ after.count = stack.count /\ after.capacity = capacity /\ after.block = block
      /\ after.extra = extra /\ after.activations = stack.activations
  BY <1>2 DEF IsStack
<1> HIDE DEF extra
<1>6. IsStack(after, Values)
  <2>1. after \in [count : Nat, capacity : Nat, block : BlocksOrNone,
                   activations : [1 .. kMaxActivations -> Values], extra : Seq(Values)]
    BY <1>2, <1>4 DEF IsStack
  <2> QED
    BY <2>1, <1>4, <1>5 DEF IsStack
<1>7. Contents(after) = Contents(stack)
  <2>1. \A i \in 1 .. stack.count : Entries(after)[i] = Entries(stack)[i]
    BY <1>1, <1>5 DEF Entries, extra
  <2> QED
    BY <1>5, <2>1 DEF Contents
<1> QED
  BY <1>5, <1>6, <1>7 DEF after

\* Wherever its entries are, pushing appends to what a stack holds; a push that
\* finds no memory leaves the stack alone.
THEOREM PushAppends ==
  ASSUME NEW Values, NoActivation \in Values, NEW stack, IsStack(stack, Values),
         NEW x \in Values, NEW arena,
         PagedArenaAlloc(arena, LargerCapacity(stack)).block \in BlocksOrNone
  PROVE  LET r == Push(stack, x, arena) IN
         \/ r.stack = stack
         \/ IsStack(r.stack, Values) /\ Contents(r.stack) = Append(Contents(stack), x)
<1> DEFINE r == Push(stack, x, arena)
           alloc == PagedArenaAlloc(arena, LargerCapacity(stack))
           larger == LargerCapacity(stack)
<1>1. /\ stack.count \in Nat /\ stack.capacity \in Nat /\ stack.count <= stack.capacity
      /\ stack.block = NoBlock => stack.capacity = kMaxActivations
      /\ stack.block # NoBlock => stack.capacity >= 2
  BY DEF IsStack
<1>2. CASE ~Full(stack)
  <2>1. stack.count < stack.capacity /\ r.stack = Put(stack, x)
    BY <1>1, <1>2 DEF Full, Push
  <2> QED
    BY <2>1, PutAppends
<1>3. CASE Full(stack) /\ alloc.block = NoBlock
  <2>1. r.stack = stack
    BY <1>3 DEF Push
  <2> QED
    BY <2>1
<1>4. CASE Full(stack) /\ alloc.block # NoBlock
  <2>1. larger \in Nat /\ larger >= 2 /\ stack.count < larger
    <3>1. CASE stack.block = NoBlock
      <4>1. /\ kMaxActivations \in Nat /\ kMaxActivations >= 1 /\ SpillFactor \in Nat /\ SpillFactor >= 2
            /\ larger = SpillFactor * kMaxActivations /\ stack.count <= kMaxActivations
        BY <1>1, <3>1, StackAssumption DEF LargerCapacity
      <4>2. SpillFactor * kMaxActivations \in Nat /\ SpillFactor * kMaxActivations >= 2 * kMaxActivations
        BY <4>1
      <4> QED
        BY <1>1, <4>1, <4>2
    <3>2. CASE stack.block # NoBlock
      BY <1>1, <3>2 DEF LargerCapacity
    <3> QED
      BY <3>1, <3>2
  <2> DEFINE moved == Moved(stack, larger, alloc.block)
  <2>2. /\ IsStack(moved, Values) /\ Contents(moved) = Contents(stack)
        /\ moved.count = stack.count /\ moved.capacity = larger
    BY <1>4, <2>1, MovedKeeps
  <2>3. r.stack = Put(moved, x)
    BY <1>4 DEF Push
  <2>4. /\ IsStack(Put(moved, x), Values) /\ Contents(Put(moved, x)) = Append(Contents(moved), x)
    <3> HIDE DEF moved
    <3> QED
      BY <2>1, <2>2, PutAppends
  <2> QED
    BY <2>2, <2>3, <2>4
<1> QED
  BY <1>2, <1>3, <1>4

\* Popping takes off the last of what a stack holds.
THEOREM PoppedDropsLast ==
  ASSUME NEW Values, NoActivation \in Values, NEW stack, IsStack(stack, Values),
         stack.count > 0
  PROVE  /\ IsStack(Popped(stack), Values)
         /\ Top(stack) = Contents(stack)[Len(Contents(stack))]
         /\ Contents(Popped(stack)) = SubSeq(Contents(stack), 1, Len(Contents(stack)) - 1)
<1> DEFINE rest == stack.count - 1
           after == Popped(stack)
<1>1. /\ stack.count \in Nat /\ stack.count \in 1 .. stack.capacity /\ stack.capacity \in Nat
      /\ rest \in Nat /\ rest < stack.count
      /\ stack.block \in BlocksOrNone
      /\ stack.activations \in [1 .. kMaxActivations -> Values] /\ stack.extra \in Seq(Values)
  BY DEF IsStack
<1> HIDE DEF after
<1>2. ASSUME stack.block = NoBlock
      PROVE  /\ IsStack(after, Values) /\ after.count = rest
             /\ \A i \in 1 .. rest : Entries(after)[i] = Entries(stack)[i]
  <2> DEFINE acts == [stack.activations EXCEPT ![stack.count] = NoActivation]
  <2>1. acts \in [1 .. kMaxActivations -> Values]
    BY <1>1
  <2>2. /\ after \in [count : Nat, capacity : Nat, block : BlocksOrNone,
                      activations : [1 .. kMaxActivations -> Values], extra : Seq(Values)]
        /\ after.count = rest /\ after.capacity = stack.capacity /\ after.block = NoBlock
        /\ after.activations = acts
    BY <1>1, <1>2, <2>1 DEF IsStack, Popped, after
  <2>3. IsStack(after, Values)
    BY <1>1, <1>2, <2>2 DEF IsStack
  <2>4. stack.capacity = kMaxActivations
    BY <1>2 DEF IsStack
  <2>5. \A i \in 1 .. rest : acts[i] = stack.activations[i]
    BY <1>1, <2>4
  <2> QED
    BY <1>2, <2>2, <2>3, <2>5 DEF Entries
<1>3. ASSUME stack.block # NoBlock
      PROVE  /\ IsStack(after, Values) /\ after.count = rest
             /\ \A i \in 1 .. rest : Entries(after)[i] = Entries(stack)[i]
  <2> DEFINE less == [stack.extra EXCEPT ![stack.count] = NoActivation]
  <2>1. Len(stack.extra) = stack.capacity /\ stack.capacity >= 2
    BY <1>3 DEF IsStack
  <2>2. less \in Seq(Values) /\ Len(less) = stack.capacity
    BY <1>1, <2>1
  <2>3. \A i \in 1 .. rest : less[i] = stack.extra[i]
    BY <1>1, <2>1
  <2> HIDE DEF less
  <2>4. after = [stack EXCEPT !.count = rest, !.extra = less]
    BY <1>3 DEF IsStack, Popped, after, less
  <2>5. /\ after \in [count : Nat, capacity : Nat, block : BlocksOrNone,
                      activations : [1 .. kMaxActivations -> Values], extra : Seq(Values)]
        /\ after.count = rest /\ after.capacity = stack.capacity /\ after.block = stack.block
        /\ after.extra = less
    BY <1>1, <2>2, <2>4 DEF IsStack
  <2>6. IsStack(after, Values)
    BY <1>1, <1>3, <2>1, <2>2, <2>5 DEF IsStack
  <2> QED
    BY <1>3, <2>3, <2>5, <2>6 DEF Entries
<1>4. /\ IsStack(after, Values) /\ after.count = rest
      /\ \A i \in 1 .. rest : Entries(after)[i] = Entries(stack)[i]
  BY <1>2, <1>3
<1>5. /\ Contents(after) \in Seq(Values) /\ Len(Contents(after)) = rest
      /\ \A i \in 1 .. rest : Contents(after)[i] = Entries(stack)[i]
  BY <1>4, StackEntries DEF Contents
<1>6. /\ Contents(stack) \in Seq(Values) /\ Len(Contents(stack)) = stack.count
      /\ \A i \in 1 .. stack.count : Contents(stack)[i] = Entries(stack)[i]
  BY StackEntries DEF Contents
<1>7. /\ SubSeq(Contents(stack), 1, rest) \in Seq(Values)
      /\ Len(SubSeq(Contents(stack), 1, rest)) = rest
      /\ \A i \in 1 .. rest : SubSeq(Contents(stack), 1, rest)[i] = Entries(stack)[i]
  BY <1>1, <1>6
<1>8. Contents(after) = SubSeq(Contents(stack), 1, rest)
  BY <1>5, <1>7, SeqEqual
<1>9. Top(stack) = Contents(stack)[stack.count]
  BY <1>1, <1>6 DEF Top
<1> QED
  BY <1>4, <1>6, <1>8, <1>9 DEF after

(***************************************************************************)
(* The arena.                                                              *)
(***************************************************************************)

\* A number rounded up is a multiple.
LEMMA RoundedUp ==
  ASSUME NEW n \in Nat, NEW k \in Nat \ {0}, (n % k) # 0
  PROVE  k - (n % k) \in Nat /\ (n + (k - (n % k))) % k = 0
<1>1. (n % k) \in 0 .. k - 1
  OBVIOUS
<1>2. n = k * (n \div k) + (n % k)
  OBVIOUS
<1>3. n \div k \in Nat
  OBVIOUS
<1>4. n + (k - (n % k)) = k * ((n \div k) + 1)
  <2> DEFINE q == n \div k
             r == n % k
  <2>1. k * (q + 1) = k * q + k
    BY <1>3
  <2>2. n = k * q + r /\ r \in Int /\ q \in Int
    BY <1>1, <1>2, <1>3
  <2> HIDE DEF q, r
  <2>3. k * q \in Int
    BY <2>2
  <2>4. n + (k - r) = k * q + k
    BY <2>2, <2>3
  <2> QED
    BY <2>1, <2>4 DEF q, r
<1>5. \A q \in Nat : (k * q) % k = 0
  OBVIOUS
<1>6. (k * ((n \div k) + 1)) % k = 0
  <2>1. (n \div k) + 1 \in Nat
    BY <1>3
  <2> QED
    BY <1>5, <2>1
<1> QED
  BY <1>1, <1>4, <1>6

\* A block's offset is aligned in memory and not before the last block's end
\* (PagedArenaAlloc).
LEMMA AlignedUp ==
  ASSUME NEW offset \in Nat
  PROVE  /\ Aligned(offset) \in Nat /\ Aligned(offset) >= offset
         /\ (MemoryOffset + Aligned(offset)) % Alignment = 0
<1> DEFINE n == MemoryOffset + offset
<1>1. n \in Nat /\ Alignment \in Nat \ {0} /\ MemoryOffset \in Nat
  BY ArenaAssumption
<1>2. CASE (n % Alignment) = 0
  BY <1>1, <1>2 DEF Aligned
<1>3. CASE (n % Alignment) # 0
  <2> DEFINE up == Alignment - (n % Alignment)
  <2>1. up \in Nat /\ (n + up) % Alignment = 0
    BY <1>1, <1>3, RoundedUp
  <2>2. Aligned(offset) = offset + up
    BY <1>3 DEF Aligned
  <2> HIDE DEF up
  <2>3. MemoryOffset + Aligned(offset) = n + up
    BY <1>1, <2>1, <2>2
  <2> QED
    BY <2>1, <2>2, <2>3
<1> QED
  BY <1>2, <1>3

ArenaBlocks == [page : Nat, at : Nat, size : Nat]

\* An arena's four fields, as records.
Arenas == [nodes : Seq(Nat), freeNodes : Seq(Nat), offset : Seq(Nat), live : SUBSET ArenaBlocks]

Distinct(list) == \A i, j \in DOMAIN list : list[i] = list[j] => i = j

Disjoint(list, other) == \A i \in DOMAIN list, j \in DOMAIN other : list[i] # other[j]

\* A live block lies, aligned, in what was used of a page that is in use.
InUse(arena, b) ==
  /\ b.page \in Pages(arena.nodes)
  /\ b.at + b.size <= arena.offset[b.page]
  /\ (MemoryOffset + b.at) % Alignment = 0

\* The inductive invariant of an arena: with its shape, that no page is in two
\* places, and that what is handed out lies below the offset from which the
\* next block of its page is taken.
ListsOK(arena) ==
  /\ Distinct(arena.nodes) /\ Distinct(arena.freeNodes)
  /\ Disjoint(arena.nodes, arena.freeNodes)

LiveOK(arena) ==
  /\ \A b \in arena.live : InUse(arena, b)
  /\ \A b, c \in arena.live : b = c \/ ~Overlap(b, c)

ArenaOK(arena) == arena \in Arenas /\ IsArena(arena) /\ ListsOK(arena) /\ LiveOK(arena)

\* A block of a page that has room for it is apart from all others.
LEMMA BlockTaken ==
  ASSUME NEW arena, ArenaOK(arena), NEW page \in Pages(arena.nodes),
         NEW size \in Nat, Fits(arena, page, size)
  PROVE  LET r == Taken(arena, page, size) IN
         ArenaOK(r.arena) /\ r.block \in r.arena.live /\ r.block \in ArenaBlocks
<1> DEFINE at == Aligned(arena.offset[page])
           block == [page |-> page, at |-> at, size |-> size]
           new == Taken(arena, page, size).arena
<1>1. page \in DOMAIN arena.offset /\ arena.offset[page] \in Nat /\ page \in Nat
  BY DEF ArenaOK, Arenas, IsArena, Pages
<1>2. at \in Nat /\ at >= arena.offset[page] /\ (MemoryOffset + at) % Alignment = 0
  BY <1>1, AlignedUp
<1>3. at + size <= PageSize
  BY DEF Fits
<1> HIDE DEF at
<1>4. block \in ArenaBlocks
  BY <1>1, <1>2 DEF ArenaBlocks
<1>5. /\ new = [arena EXCEPT !.offset[page] = at + size, !.live = @ \cup {block}]
      /\ Taken(arena, page, size).block = block
  BY DEF Taken, at
<1>6. /\ new.nodes = arena.nodes /\ new.freeNodes = arena.freeNodes
      /\ new.offset = [arena.offset EXCEPT ![page] = at + size]
      /\ new.live = arena.live \cup {block}
      /\ DOMAIN new = DOMAIN arena
  BY <1>5 DEF ArenaOK, Arenas
<1>7. /\ new.offset \in Seq(Nat) /\ new.offset \in Seq(0 .. PageSize)
      /\ DOMAIN new.offset = DOMAIN arena.offset
  <2>1. arena.offset \in Seq(0 .. PageSize) /\ arena.offset \in Seq(Nat)
    BY DEF ArenaOK, IsArena, Arenas
  <2>2. at + size \in 0 .. PageSize
    BY <1>2, <1>3, ArenaAssumption
  <2> QED
    BY <1>1, <1>6, <2>1, <2>2
<1>8. new \in Arenas
  BY <1>4, <1>5, <1>6, <1>7 DEF ArenaOK, Arenas
<1> HIDE DEF new, block
<1>9. IsArena(new) /\ ListsOK(new)
  BY <1>6, <1>7 DEF ArenaOK, IsArena, ListsOK
<1>10. LiveOK(new)
  <2>1. ASSUME NEW b \in arena.live
        PROVE  /\ b \in ArenaBlocks /\ InUse(arena, b) /\ InUse(new, b)
               /\ ~Overlap(b, block) /\ ~Overlap(block, b)
    <3>1. b \in ArenaBlocks /\ InUse(arena, b)
      BY DEF ArenaOK, LiveOK, Arenas
    <3>2. CASE b.page = page
      <4>1. b.at + b.size <= arena.offset[page] /\ b.at \in Nat /\ b.size \in Nat
        BY <3>1, <3>2 DEF InUse, ArenaBlocks
      <4>2. new.offset[page] = at + size
        BY <1>1, <1>6 DEF ArenaOK, Arenas
      <4> QED
        BY <1>1, <1>2, <1>6, <3>1, <3>2, <4>1, <4>2 DEF InUse, Overlap, block
    <3>3. CASE b.page # page
      BY <1>6, <3>1, <3>3 DEF InUse, Overlap, block, ArenaOK, Arenas
    <3> QED
      BY <3>1, <3>2, <3>3
  <2>2. InUse(new, block)
    BY <1>1, <1>2, <1>6 DEF InUse, block, ArenaOK, Arenas
  <2>3. \A b, c \in arena.live : b = c \/ ~Overlap(b, c)
    BY DEF ArenaOK, LiveOK
  <2> QED
    BY <1>6, <2>1, <2>2, <2>3 DEF LiveOK
<1> QED
  BY <1>4, <1>5, <1>6, <1>8, <1>9, <1>10 DEF ArenaOK, new

\* What a list with one more in front is made of.
LEMMA OnTop ==
  ASSUME NEW S, NEW list \in Seq(S), NEW page \in S
  PROVE  LET new == <<page>> \o list IN
         /\ new \in Seq(S) /\ new # <<>>
         /\ \A i \in DOMAIN new : new[i] = page \/ \E j \in DOMAIN list : new[i] = list[j]
         /\ \A j \in DOMAIN list : \E i \in DOMAIN new : new[i] = list[j]
         /\ Distinct(list) /\ (\A j \in DOMAIN list : list[j] # page) => Distinct(new)
<1> DEFINE new == <<page>> \o list
           n == Len(list)
<1>1. n \in Nat /\ DOMAIN list = 1 .. n
  OBVIOUS
<1>2. new \in Seq(S) /\ Len(new) = n + 1 /\ DOMAIN new = 1 .. n + 1
  <2>1. <<page>> \in Seq(S) /\ Len(<<page>>) = 1
    OBVIOUS
  <2>2. new \in Seq(S) /\ Len(new) = 1 + n
    BY <2>1, ConcatProperties
  <2> HIDE DEF new
  <2> QED
    BY <1>1, <2>2
<1>3. new[1] = page /\ \A i \in 2 .. n + 1 : new[i] = list[i - 1]
  BY <1>1
<1> HIDE DEF new, n
<1>4. new # <<>>
  BY <1>1, <1>2
<1>5. \A i \in DOMAIN new : i = 1 \/ (i - 1 \in DOMAIN list /\ new[i] = list[i - 1])
  BY <1>1, <1>2, <1>3
<1>6. \A j \in DOMAIN list : j + 1 \in DOMAIN new /\ new[j + 1] = list[j]
  <2> TAKE j \in DOMAIN list
  <2>1. j \in 1 .. n /\ j + 1 \in 2 .. n + 1 /\ (j + 1) - 1 = j
    BY <1>1
  <2>2. new[j + 1] = list[(j + 1) - 1]
    BY <1>3, <2>1
  <2> QED
    BY <1>1, <1>2, <2>1, <2>2
<1>7. ASSUME Distinct(list), \A j \in DOMAIN list : list[j] # page
      PROVE  Distinct(new)
  <2> SUFFICES ASSUME NEW i \in DOMAIN new, NEW j \in DOMAIN new, new[i] = new[j]
               PROVE  i = j
    BY DEF Distinct
  <2>1. CASE i = 1 \/ j = 1
    BY <1>3, <1>5, <1>7, <2>1
  <2>2. CASE i # 1 /\ j # 1
    <3>1. i - 1 = j - 1
      BY <1>5, <1>7, <2>2 DEF Distinct
    <3> QED
      BY <1>1, <1>2, <3>1
  <2> QED
    BY <2>1, <2>2
<1> QED
  BY <1>2, <1>3, <1>4, <1>5, <1>6, <1>7 DEF new

\* What a list without its first is made of.
LEMMA Below ==
  ASSUME NEW S, NEW list \in Seq(S), list # <<>>
  PROVE  LET rest == Tail(list) IN
         /\ Head(list) \in S /\ Head(list) = list[1] /\ 1 \in DOMAIN list
         /\ rest \in Seq(S)
         /\ \A i \in DOMAIN rest : rest[i] = list[i + 1] /\ i + 1 \in DOMAIN list /\ i + 1 # 1
         /\ Distinct(list) => Distinct(rest)
<1> DEFINE n == Len(list)
           rest == Tail(list)
<1>1. n \in Nat \ {0} /\ DOMAIN list = 1 .. n
  BY EmptySeq, LenProperties
<1>2. /\ Head(list) \in S /\ rest \in Seq(S) /\ Len(rest) = n - 1
      /\ \A i \in 1 .. Len(rest) : rest[i] = list[i + 1]
  BY HeadTailProperties
<1>3. DOMAIN rest = 1 .. n - 1
  <2> HIDE DEF rest, n
  <2> QED
    BY <1>2, LenProperties
<1>4. Head(list) = list[1]
  OBVIOUS
<1> HIDE DEF rest, n
<1>5. \A i \in DOMAIN rest : rest[i] = list[i + 1] /\ i + 1 \in DOMAIN list /\ i + 1 # 1
  BY <1>1, <1>2, <1>3
<1>6. ASSUME Distinct(list) PROVE Distinct(rest)
  <2> SUFFICES ASSUME NEW i \in DOMAIN rest, NEW j \in DOMAIN rest, rest[i] = rest[j]
               PROVE  i = j
    BY DEF Distinct
  <2>1. i + 1 = j + 1
    BY <1>5, <1>6 DEF Distinct
  <2> QED
    BY <1>1, <1>3, <2>1
<1> QED
  BY <1>1, <1>2, <1>4, <1>5, <1>6 DEF rest

\* A page more, new or free, is apart from all others and holds no block of use.
LEMMA PageTaken ==
  ASSUME NEW arena, ArenaOK(arena)
  PROVE  ArenaOK(WithPage(arena)) /\ WithPage(arena).live = arena.live
<1> DEFINE new == WithPage(arena)
           nodes == arena.nodes
           free == arena.freeNodes
<1>0. /\ arena \in Arenas /\ IsArena(arena) /\ ListsOK(arena) /\ LiveOK(arena)
      /\ nodes \in Seq(Nat) /\ free \in Seq(Nat)
      /\ nodes \in Seq(DOMAIN arena.offset) /\ free \in Seq(DOMAIN arena.offset)
      /\ arena.offset \in Seq(Nat) /\ arena.offset \in Seq(0 .. PageSize)
  BY DEF ArenaOK, Arenas, IsArena
<1>1. CASE free # <<>>
  <2> DEFINE page == Head(free)
             list == <<page>> \o nodes
             rest == Tail(free)
  <2>1. /\ page \in DOMAIN arena.offset /\ page \in Nat
        /\ page = free[1] /\ 1 \in DOMAIN free
        /\ rest \in Seq(Nat) /\ rest \in Seq(DOMAIN arena.offset)
        /\ \A i \in DOMAIN rest : rest[i] = free[i + 1] /\ i + 1 \in DOMAIN free /\ i + 1 # 1
        /\ Distinct(rest)
    <3>1. Distinct(free)
      BY <1>0 DEF ListsOK
    <3> HIDE DEF free
    <3>2. /\ page \in DOMAIN arena.offset /\ rest \in Seq(DOMAIN arena.offset)
      BY <1>0, <1>1, Below
    <3> QED
      BY <1>0, <1>1, <3>1, <3>2, Below
  <2>2. \A j \in DOMAIN nodes : nodes[j] # page
    BY <1>0, <2>1, Zenon DEF ListsOK, Disjoint
  <2>3. /\ list \in Seq(Nat) /\ list \in Seq(DOMAIN arena.offset) /\ list # <<>>
        /\ \A i \in DOMAIN list : list[i] = page \/ \E j \in DOMAIN nodes : list[i] = nodes[j]
        /\ \A j \in DOMAIN nodes : \E i \in DOMAIN list : list[i] = nodes[j]
        /\ Distinct(list)
    <3>1. Distinct(nodes)
      BY <1>0 DEF ListsOK
    <3> HIDE DEF page
    <3>3. list \in Seq(Nat)
      BY <1>0, <2>1, OnTop
    <3> DEFINE S == DOMAIN arena.offset
    <3>9. page \in S /\ nodes \in Seq(S)
      BY <1>0, <2>1
    <3> HIDE DEF S, nodes
    <3>4. /\ list \in Seq(S) /\ list # <<>>
          /\ \A i \in DOMAIN list : list[i] = page \/ \E j \in DOMAIN nodes : list[i] = nodes[j]
          /\ \A j \in DOMAIN nodes : \E i \in DOMAIN list : list[i] = nodes[j]
          /\ Distinct(list)
      BY <2>2, <3>1, <3>9, OnTop
    <3> QED
      BY <3>3, <3>4 DEF S
  <2>4. new = [arena EXCEPT !.nodes = list, !.freeNodes = rest]
    BY <1>1 DEF WithPage
  <2> HIDE DEF new, page, list, rest
  <2>5. /\ new.nodes = list /\ new.freeNodes = rest
        /\ new.offset = arena.offset /\ new.live = arena.live
        /\ new \in Arenas /\ DOMAIN new = DOMAIN arena
    BY <1>0, <2>1, <2>3, <2>4 DEF Arenas
  <2>6. IsArena(new)
    BY <1>0, <2>1, <2>3, <2>5 DEF IsArena
  <2>7. Disjoint(list, rest)
    <3> SUFFICES ASSUME NEW i \in DOMAIN list, NEW j \in DOMAIN rest
                 PROVE  list[i] # rest[j]
      BY DEF Disjoint
    <3>1. free[j + 1] # page
      <4>1. Distinct(free)
        BY <1>0 DEF ListsOK
      <4> QED
        BY <2>1, <4>1 DEF Distinct
    <3>2. \A k \in DOMAIN nodes : nodes[k] # free[j + 1]
      BY <1>0, <2>1 DEF ListsOK, Disjoint
    <3>3. rest[j] = free[j + 1]
      BY <2>1
    <3>4. list[i] = page \/ \E k \in DOMAIN nodes : list[i] = nodes[k]
      BY <2>3
    <3> QED
      BY <3>1, <3>2, <3>3, <3>4
  <2>8. LiveOK(new)
    <3>1. Pages(nodes) \subseteq Pages(list)
      BY <2>3 DEF Pages
    <3> QED
      BY <1>0, <2>5, <3>1 DEF LiveOK, InUse
  <2> QED
    BY <2>1, <2>3, <2>5, <2>6, <2>7, <2>8 DEF ArenaOK, ListsOK, new
<1>2. CASE free = <<>>
  <2> DEFINE page == Len(arena.offset) + 1
             offset == Append(arena.offset, 0)
             list == <<page>> \o nodes
  <2>1. /\ offset \in Seq(Nat) /\ offset \in Seq(0 .. PageSize)
        /\ page \in Nat /\ page \in DOMAIN offset
        /\ \A i \in DOMAIN arena.offset : i \in DOMAIN offset /\ offset[i] = arena.offset[i]
        /\ page \notin DOMAIN arena.offset
    BY <1>0, ArenaAssumption
  <2> HIDE DEF page, offset
  <2>2. \A j \in DOMAIN nodes : nodes[j] \in DOMAIN arena.offset /\ nodes[j] # page
    BY <1>0, <2>1
  <2>3. /\ list \in Seq(Nat) /\ list \in Seq(DOMAIN offset) /\ list # <<>>
        /\ \A i \in DOMAIN list : list[i] = page \/ \E j \in DOMAIN nodes : list[i] = nodes[j]
        /\ \A j \in DOMAIN nodes : \E i \in DOMAIN list : list[i] = nodes[j]
        /\ Distinct(list)
    <3>1. Distinct(nodes)
      BY <1>0 DEF ListsOK
    <3>2. nodes \in Seq(DOMAIN offset)
      BY <1>0, <2>1
    <3>3. list \in Seq(Nat)
      BY <1>0, <2>1, OnTop
    <3> DEFINE S == DOMAIN offset
    <3>9. page \in S /\ nodes \in Seq(S)
      BY <2>1, <3>2
    <3> HIDE DEF S, nodes
    <3>4. /\ list \in Seq(S) /\ list # <<>>
          /\ \A i \in DOMAIN list : list[i] = page \/ \E j \in DOMAIN nodes : list[i] = nodes[j]
          /\ \A j \in DOMAIN nodes : \E i \in DOMAIN list : list[i] = nodes[j]
          /\ Distinct(list)
      BY <2>2, <3>1, <3>9, OnTop
    <3> QED
      BY <3>3, <3>4 DEF S
  <2>4. new = [arena EXCEPT !.nodes = list, !.offset = offset]
    BY <1>2 DEF WithPage, page, offset
  <2> HIDE DEF new, list
  <2>5. /\ new.nodes = list /\ new.freeNodes = free
        /\ new.offset = offset /\ new.live = arena.live
        /\ new \in Arenas /\ DOMAIN new = DOMAIN arena
    BY <1>0, <2>1, <2>3, <2>4 DEF Arenas
  <2>6. IsArena(new)
    <3>1. free \in Seq(DOMAIN offset)
      BY <1>2
    <3> QED
      BY <1>0, <2>1, <2>3, <2>5, <3>1 DEF IsArena
  <2>7. Distinct(free) /\ Disjoint(list, free)
    BY <1>2 DEF Distinct, Disjoint
  <2>8. LiveOK(new)
    <3>1. Pages(nodes) \subseteq Pages(list)
      BY <2>3 DEF Pages
    <3>2. Pages(nodes) \subseteq DOMAIN arena.offset
      BY <2>2 DEF Pages
    <3> QED
      BY <1>0, <2>1, <2>5, <3>1, <3>2 DEF LiveOK, InUse
  <2> QED
    BY <2>3, <2>5, <2>6, <2>7, <2>8 DEF ArenaOK, ListsOK, new
<1> QED
  BY <1>1, <1>2

\* What the blocks and pages of an arena keep of each other is what its users rely
\* on.
LEMMA OkIsApart ==
  \A a : ArenaOK(a) => LiveBlocksApart(a) /\ PagesApart(a)
<1> TAKE a
<1> HAVE ArenaOK(a)
<1>1. LiveBlocksApart(a)
  <2>1. ASSUME NEW b \in a.live PROVE b.at + b.size <= PageSize
    <3>1. InUse(a, b) /\ b \in ArenaBlocks
      BY DEF ArenaOK, LiveOK, Arenas
    <3>2. a.nodes \in Seq(DOMAIN a.offset) /\ a.offset \in Seq(0 .. PageSize)
      BY DEF ArenaOK, IsArena
    <3>3. b.page \in DOMAIN a.offset
      BY <3>1, <3>2 DEF InUse, Pages
    <3>4. a.offset[b.page] \in 0 .. PageSize
      <4> DEFINE f == a.offset
                 S == 0 .. PageSize
      <4>1. f \in Seq(S) /\ b.page \in DOMAIN f
        BY <3>2, <3>3
      <4> HIDE DEF f, S
      <4>2. b.page \in 1 .. Len(f)
        BY <4>1, LenProperties
      <4>3. f[b.page] \in S
        BY <4>1, <4>2, ElementOfSeq
      <4> QED
        BY <4>3 DEF f, S
    <3> QED
      BY <3>1, <3>4, ArenaAssumption DEF InUse, ArenaBlocks
  <2> QED
    BY <2>1 DEF LiveBlocksApart, ArenaOK, LiveOK, InUse
<1>2. PagesApart(a)
  <2> DEFINE n == Len(a.nodes)
             f == Len(a.freeNodes)
             all == a.nodes \o a.freeNodes
  <2>1. /\ n \in Nat /\ f \in Nat
        /\ DOMAIN a.nodes = 1 .. n /\ DOMAIN a.freeNodes = 1 .. f /\ DOMAIN all = 1 .. n + f
        /\ \A i \in 1 .. n + f : i <= n => all[i] = a.nodes[i]
        /\ \A i \in 1 .. n + f : i > n => all[i] = a.freeNodes[i - n]
    BY DEF ArenaOK, Arenas
  <2>2. /\ Distinct(a.nodes) /\ Distinct(a.freeNodes)
        /\ Disjoint(a.nodes, a.freeNodes)
    BY DEF ArenaOK, ListsOK
  <2> SUFFICES ASSUME NEW i \in DOMAIN all, NEW j \in DOMAIN all, all[i] = all[j]
               PROVE  i = j
    BY DEF PagesApart
  <2> HIDE DEF all, n, f
  <2>3. CASE i <= n /\ j <= n
    BY <2>1, <2>2, <2>3 DEF Distinct
  <2>4. CASE i > n /\ j > n
    <3>1. i - n \in 1 .. f /\ j - n \in 1 .. f /\ a.freeNodes[i - n] = a.freeNodes[j - n]
      BY <2>1, <2>4
    <3>2. i - n = j - n
      BY <2>1, <2>2, <3>1 DEF Distinct
    <3> QED
      BY <2>1, <3>2
  <2>5. CASE i <= n /\ j > n
    <3>1. i \in 1 .. n /\ j - n \in 1 .. f /\ a.nodes[i] = a.freeNodes[j - n]
      BY <2>1, <2>5
    <3> QED
      BY <2>1, <2>2, <3>1 DEF Disjoint
  <2>6. CASE i > n /\ j <= n
    <3>1. j \in 1 .. n /\ i - n \in 1 .. f /\ a.nodes[j] = a.freeNodes[i - n]
      BY <2>1, <2>6
    <3> QED
      BY <2>1, <2>2, <3>1 DEF Disjoint
  <2> QED
    BY <2>1, <2>3, <2>4, <2>5, <2>6
<1> QED
  BY <1>1, <1>2

(* What an arena hands out is apart from everything it handed out since the *)
(* last reset and still is afterwards, whatever the sizes asked for: the    *)
(* memory of PagedArenaAlloc in arena.cpp is its caller's own.              *)
THEOREM AllocatedIsOwn ==
  ASSUME NEW arena, ArenaOK(arena), NEW size \in Nat
  PROVE  LET r == PagedArenaAlloc(arena, size) IN
         /\ ArenaOK(r.arena) /\ LiveBlocksApart(r.arena) /\ PagesApart(r.arena)
         /\ r.block = NoBlock \/ r.block \in r.arena.live
<1> DEFINE r == PagedArenaAlloc(arena, size)
<1>1. ASSUME NEW a, ArenaOK(a) PROVE Head(a.nodes) \in Pages(a.nodes)
  <2> DEFINE nodes == a.nodes
  <2>1. nodes \in Seq(Nat) /\ nodes # <<>>
    BY <1>1 DEF ArenaOK, Arenas, IsArena
  <2> HIDE DEF nodes
  <2>2. Head(nodes) = nodes[1] /\ 1 \in DOMAIN nodes
    BY <2>1, Below
  <2>3. Head(nodes) \in Pages(nodes)
    BY <2>2 DEF Pages
  <2> QED
    BY <2>3 DEF nodes
<1>2. ArenaOK(r.arena) /\ (r.block = NoBlock \/ r.block \in r.arena.live)
  <2>1. CASE Fits(arena, Head(arena.nodes), size)
    <3>1. r = Taken(arena, Head(arena.nodes), size)
      BY <2>1 DEF PagedArenaAlloc
    <3> QED
      BY <1>1, <2>1, <3>1, BlockTaken
  <2>2. CASE ~Fits(arena, Head(arena.nodes), size)
    <3> DEFINE next == WithPage(arena)
    <3>1. ArenaOK(next) /\ Head(next.nodes) \in Pages(next.nodes)
      BY <1>1, PageTaken
    <3> HIDE DEF next
    <3>2. CASE Fits(next, Head(next.nodes), size)
      <4>1. r = Taken(next, Head(next.nodes), size)
        BY <2>2, <3>2 DEF PagedArenaAlloc, next
      <4> QED
        BY <3>1, <3>2, <4>1, BlockTaken
    <3>3. CASE ~Fits(next, Head(next.nodes), size)
      <4>1. r = [arena |-> next, block |-> NoBlock]
        BY <2>2, <3>3 DEF PagedArenaAlloc, next
      <4> QED
        BY <3>1, <4>1
    <3> QED
      BY <3>2, <3>3
  <2> QED
    BY <2>1, <2>2
<1>3. \A a : ArenaOK(a) => LiveBlocksApart(a) /\ PagesApart(a)
  BY OkIsApart
<1> QED
  BY <1>2, <1>3

(* A reset of the arena, which takes back every block, leaves no page in    *)
(* two places: it keeps the top one and frees the others (PagedArenaReset   *)
(* in arena.cpp), and a new arena starts that way (PagedArenaInit).         *)
THEOREM ResetStaysApart ==
  /\ ArenaOK(NewArena)
  /\ \A arena : ArenaOK(arena) => ArenaOK(PagedArenaReset(arena))
<1>1. ArenaOK(NewArena)
  <2>1. /\ NewArena \in Arenas /\ IsArena(NewArena)
    BY ArenaAssumption DEF NewArena, Arenas, IsArena
  <2> QED
    BY <2>1 DEF NewArena, ArenaOK, ListsOK, LiveOK, Distinct, Disjoint
<1>2. ASSUME NEW arena, ArenaOK(arena) PROVE ArenaOK(PagedArenaReset(arena))
  <2> DEFINE nodes == arena.nodes
             new == PagedArenaReset(arena)
             offset == [p \in DOMAIN arena.offset |->
                          IF p \in Pages(arena.nodes) THEN 0 ELSE arena.offset[p]]
             top == <<Head(nodes)>>
             rest == Tail(nodes)
  <2>1. /\ nodes \in Seq(Nat) /\ nodes \in Seq(DOMAIN arena.offset) /\ nodes # <<>>
        /\ arena.offset \in Seq(Nat) /\ arena.offset \in Seq(0 .. PageSize)
        /\ Distinct(nodes)
    <3>1. arena \in Arenas /\ IsArena(arena) /\ ListsOK(arena)
      BY <1>2 DEF ArenaOK
    <3>2. nodes \in Seq(Nat) /\ arena.offset \in Seq(Nat)
      BY <3>1 DEF Arenas
    <3>3. /\ nodes \in Seq(DOMAIN arena.offset) /\ nodes # <<>>
          /\ arena.offset \in Seq(0 .. PageSize)
      BY <3>1 DEF IsArena
    <3> QED
      BY <3>1, <3>2, <3>3 DEF ListsOK
  <2>2. /\ offset \in Seq(Nat) /\ offset \in Seq(0 .. PageSize)
        /\ DOMAIN offset = DOMAIN arena.offset
    <3> DEFINE n == Len(arena.offset)
    <3>1. n \in Nat /\ DOMAIN arena.offset = 1 .. n
          /\ \A p \in 1 .. n : arena.offset[p] \in Nat /\ arena.offset[p] \in 0 .. PageSize
      BY <2>1, LenProperties, ElementOfSeq
    <3>2. offset \in [1 .. n -> Nat] /\ offset \in [1 .. n -> 0 .. PageSize]
      <4> HIDE DEF n
      <4> QED
        BY <3>1, ArenaAssumption
    <3>3. DOMAIN offset = DOMAIN arena.offset
      OBVIOUS
    <3> HIDE DEF n, offset
    <3>4. \A S : [1 .. n -> S] \subseteq Seq(S)
      BY <3>1, SeqDef
    <3> QED
      BY <3>2, <3>3, <3>4
  <2>3. /\ top \in Seq(Nat) /\ top \in Seq(DOMAIN arena.offset) /\ top # <<>>
        /\ DOMAIN top = {1} /\ top[1] = nodes[1] /\ 1 \in DOMAIN nodes
        /\ rest \in Seq(Nat) /\ rest \in Seq(DOMAIN arena.offset)
        /\ \A i \in DOMAIN rest : rest[i] = nodes[i + 1] /\ i + 1 \in DOMAIN nodes /\ i + 1 # 1
        /\ Distinct(rest)
    <3> HIDE DEF nodes
    <3>1. /\ Head(nodes) \in DOMAIN arena.offset /\ rest \in Seq(DOMAIN arena.offset)
          /\ Head(nodes) \in Nat /\ Head(nodes) = nodes[1]
      BY <2>1, Below
    <3>2. top \in Seq(Nat) /\ top \in Seq(DOMAIN arena.offset) /\ top # <<>>
          /\ DOMAIN top = {1} /\ top[1] = nodes[1]
      <4>1. \A h : <<h>> # <<>> /\ DOMAIN <<h>> = {1} /\ <<h>>[1] = h
        OBVIOUS
      <4>2. \A h, S : h \in S => <<h>> \in Seq(S)
        OBVIOUS
      <4> DEFINE h == Head(nodes)
      <4>3. h \in Nat /\ h \in DOMAIN arena.offset /\ h = nodes[1]
        BY <3>1
      <4> HIDE DEF h
      <4>4. <<h>> \in Seq(Nat) /\ <<h>> \in Seq(DOMAIN arena.offset)
        BY <4>2, <4>3
      <4> QED
        BY <4>1, <4>3, <4>4 DEF h
    <3> QED
      BY <2>1, <3>1, <3>2, Below
  <2>4. new = [nodes |-> top, freeNodes |-> rest, live |-> {}, offset |-> offset]
    BY DEF PagedArenaReset
  <2> HIDE DEF new, top, rest, offset
  <2>5. new \in Arenas /\ IsArena(new)
    BY <2>2, <2>3, <2>4 DEF Arenas, IsArena
  <2>6. Distinct(top) /\ Disjoint(top, rest)
    BY <2>1, <2>3 DEF Distinct, Disjoint
  <2> QED
    BY <2>3, <2>4, <2>5, <2>6 DEF ArenaOK, ListsOK, LiveOK, new
<1> QED
  BY <1>1, <1>2

(***************************************************************************)
(* What stays of an arena, and when it has memory.                         *)
(***************************************************************************)

\* Nothing is used of a page that is free.
FreeIsEmpty(arena) == \A i \in DOMAIN arena.freeNodes : arena.offset[arena.freeNodes[i]] = 0

AllPages(arena) == Pages(arena.nodes) \cup Pages(arena.freeNodes)

\* A page is taken from the free ones or made; either way it is empty.
LEMMA PageTakenKeeps ==
  ASSUME NEW arena, ArenaOK(arena), FreeIsEmpty(arena)
  PROVE  LET next == WithPage(arena) IN
         /\ FreeIsEmpty(next)
         /\ Pages(arena.nodes) \subseteq Pages(next.nodes)
         /\ AllPages(arena) \subseteq AllPages(next)
         /\ next.offset[Head(next.nodes)] = 0
<1> DEFINE next == WithPage(arena)
           nodes == arena.nodes
           free == arena.freeNodes
<1>0. /\ nodes \in Seq(Nat) /\ free \in Seq(Nat) /\ nodes # <<>>
      /\ free \in Seq(DOMAIN arena.offset) /\ arena.offset \in Seq(Nat) /\ arena \in Arenas
  BY DEF ArenaOK, Arenas, IsArena
<1>1. CASE free # <<>>
  <2> DEFINE page == Head(free)
             list == <<page>> \o nodes
             rest == Tail(free)
  <2>1. /\ page \in Nat /\ page = free[1] /\ 1 \in DOMAIN free /\ rest \in Seq(Nat)
        /\ \A i \in DOMAIN rest : rest[i] = free[i + 1] /\ i + 1 \in DOMAIN free
    <3> HIDE DEF free
    <3> QED
      BY <1>0, <1>1, Below
  <2>2. next.nodes = list /\ next.freeNodes = rest /\ next.offset = arena.offset
    BY <1>0, <1>1 DEF WithPage, Arenas
  <2> HIDE DEF next, rest
  <2>3. \A j \in DOMAIN nodes : \E i \in DOMAIN list : list[i] = nodes[j]
    <3> DEFINE S == Nat
    <3>1. page \in S /\ nodes \in Seq(S)
      BY <1>0, <2>1
    <3> HIDE DEF S, nodes, page
    <3> QED
      BY <3>1, OnTop
  <2>4. Head(list) = page /\ \E i \in DOMAIN list : list[i] = page
    <3> HIDE DEF nodes, page
    <3>1. /\ \A p : Head(<<p>> \o nodes) = p
      BY <1>0
    <3>2. 1 \in DOMAIN list /\ list[1] = page
      BY <1>0, <2>1
    <3> QED
      BY <3>1, <3>2
  <2> HIDE DEF list, page
  <2>5. \A i \in DOMAIN free : free[i] = page \/ \E j \in DOMAIN rest : rest[j] = free[i]
    <3> DEFINE n == Len(free)
    <3>1. n \in Nat \ {0} /\ DOMAIN free = 1 .. n
      BY <1>0, <1>1, EmptySeq, LenProperties
    <3>2. Len(rest) = n - 1
      <4> HIDE DEF free
      <4> QED
        BY <1>0, <1>1, HeadTailProperties DEF rest
    <3>3. DOMAIN rest = 1 .. n - 1
      BY <2>1, <3>2, LenProperties
    <3> HIDE DEF n, free
    <3> TAKE i \in DOMAIN free
    <3>4. CASE i = 1
      BY <2>1, <3>4
    <3>5. CASE i # 1
      <4>1. i - 1 \in DOMAIN rest /\ (i - 1) + 1 = i
        BY <3>1, <3>3, <3>5
      <4>2. rest[i - 1] = free[(i - 1) + 1]
        BY <2>1, <4>1
      <4> QED
        BY <4>1, <4>2
    <3> QED
      BY <3>4, <3>5
  <2>6. Pages(nodes) \subseteq Pages(list) /\ page \in Pages(list)
    BY <2>3, <2>4 DEF Pages
  <2>7. Pages(free) \subseteq {page} \cup Pages(rest)
    BY <2>5 DEF Pages
  <2> QED
    BY <2>1, <2>2, <2>4, <2>6, <2>7 DEF FreeIsEmpty, AllPages, next
<1>2. CASE free = <<>>
  <2> DEFINE page == Len(arena.offset) + 1
             offset == Append(arena.offset, 0)
             list == <<page>> \o nodes
  <2>1. page \in Nat /\ offset[page] = 0
    <3>1. \A seq \in Seq(Nat) : Append(seq, 0)[Len(seq) + 1] = 0 /\ Len(seq) + 1 \in Nat
      BY AppendProperties, LenProperties
    <3> QED
      BY <1>0, <3>1
  <2>2. next.nodes = list /\ next.freeNodes = free /\ next.offset = offset
    BY <1>0, <1>2 DEF WithPage, Arenas
  <2> HIDE DEF next, page, offset
  <2>3. \A j \in DOMAIN nodes : \E i \in DOMAIN list : list[i] = nodes[j]
    <3> DEFINE S == Nat
    <3>1. page \in S /\ nodes \in Seq(S)
      BY <1>0, <2>1
    <3> HIDE DEF S, nodes
    <3> QED
      BY <3>1, OnTop
  <2>4. Head(list) = page
    <3> HIDE DEF nodes
    <3> QED
      BY <1>0
  <2>5. Pages(nodes) \subseteq Pages(list)
    <3> HIDE DEF list
    <3> QED
      BY <2>3 DEF Pages
  <2>6. DOMAIN free = {}
    BY <1>2
  <2> HIDE DEF list, nodes, free
  <2>7. FreeIsEmpty(next)
    BY <2>2, <2>6 DEF FreeIsEmpty
  <2> QED
    BY <2>1, <2>2, <2>4, <2>5, <2>7 DEF AllPages, next, nodes, free
<1> QED
  BY <1>1, <1>2

\* A block taken from a page in use keeps the pages and the other blocks.
LEMMA BlockTakenKeeps ==
  ASSUME NEW arena, ArenaOK(arena), FreeIsEmpty(arena), NEW page \in Pages(arena.nodes),
         NEW size \in Nat
  PROVE  LET new == Taken(arena, page, size).arena IN
         /\ FreeIsEmpty(new) /\ arena.live \subseteq new.live
         /\ new.nodes = arena.nodes /\ new.freeNodes = arena.freeNodes
<1> DEFINE new == Taken(arena, page, size).arena
           block == Taken(arena, page, size).block
<1>1. arena \in Arenas
  BY DEF ArenaOK
<1>2. /\ new.nodes = arena.nodes /\ new.freeNodes = arena.freeNodes
      /\ new.live = arena.live \cup {block}
      /\ \A p \in DOMAIN arena.offset : p # page => new.offset[p] = arena.offset[p]
  BY <1>1 DEF Taken, Arenas
<1>3. ASSUME NEW i \in DOMAIN arena.freeNodes
      PROVE  arena.freeNodes[i] # page /\ arena.freeNodes[i] \in DOMAIN arena.offset
  <2>1. PICK j \in DOMAIN arena.nodes : arena.nodes[j] = page
    BY DEF Pages
  <2>2. arena.freeNodes \in Seq(DOMAIN arena.offset)
    BY DEF ArenaOK, IsArena
  <2> QED
    BY <2>1, <2>2 DEF ArenaOK, ListsOK, Disjoint
<1> HIDE DEF new
<1> QED
  BY <1>2, <1>3 DEF FreeIsEmpty, new

\* An allocation keeps every block and every page, and fails only when the
\* block does not fit an empty page.
LEMMA AllocKeeps ==
  ASSUME NEW arena, ArenaOK(arena), FreeIsEmpty(arena), NEW size \in Nat
  PROVE  LET r == PagedArenaAlloc(arena, size) IN
         /\ ArenaOK(r.arena) /\ FreeIsEmpty(r.arena)
         /\ arena.live \subseteq r.arena.live
         /\ Pages(arena.nodes) \subseteq Pages(r.arena.nodes)
         /\ AllPages(arena) \subseteq AllPages(r.arena)
         /\ r.block = NoBlock \/ (r.block \in r.arena.live /\ r.block \in ArenaBlocks)
         /\ Aligned(0) + size <= PageSize => r.block # NoBlock
<1> DEFINE r == PagedArenaAlloc(arena, size)
<1>0. \A a : ArenaOK(a) => Head(a.nodes) \in Pages(a.nodes)
  <2> SUFFICES ASSUME NEW a, ArenaOK(a) PROVE Head(a.nodes) \in Pages(a.nodes)
    OBVIOUS
  <2> DEFINE nodes == a.nodes
  <2>1. nodes \in Seq(Nat) /\ nodes # <<>>
    BY DEF ArenaOK, Arenas, IsArena
  <2> HIDE DEF nodes
  <2>2. Head(nodes) = nodes[1] /\ 1 \in DOMAIN nodes
    BY <2>1, Below
  <2>3. Head(nodes) \in Pages(nodes)
    BY <2>2 DEF Pages
  <2> QED
    BY <2>3 DEF nodes
<1>1. \A b \in ArenaBlocks : b # NoBlock
  BY ArenaAssumption DEF ArenaBlocks
<1>2. CASE Fits(arena, Head(arena.nodes), size)
  <2>1. r = Taken(arena, Head(arena.nodes), size)
    BY <1>2 DEF PagedArenaAlloc
  <2>2. ArenaOK(r.arena) /\ r.block \in r.arena.live /\ r.block \in ArenaBlocks
    BY <1>0, <1>2, <2>1, BlockTaken
  <2>3. /\ FreeIsEmpty(r.arena) /\ arena.live \subseteq r.arena.live
        /\ r.arena.nodes = arena.nodes /\ r.arena.freeNodes = arena.freeNodes
    BY <1>0, <2>1, BlockTakenKeeps
  <2> HIDE DEF r
  <2> QED
    BY <1>1, <2>2, <2>3 DEF AllPages, r
<1>3. CASE ~Fits(arena, Head(arena.nodes), size)
  <2> DEFINE next == WithPage(arena)
  <2>1. ArenaOK(next) /\ next.live = arena.live
    BY PageTaken
  <2>2. /\ FreeIsEmpty(next)
        /\ Pages(arena.nodes) \subseteq Pages(next.nodes)
        /\ AllPages(arena) \subseteq AllPages(next)
        /\ next.offset[Head(next.nodes)] = 0
    BY PageTakenKeeps
  <2>3. Head(next.nodes) \in Pages(next.nodes)
    BY <1>0, <2>1
  <2>4. Aligned(0) + size <= PageSize => Fits(next, Head(next.nodes), size)
    BY <2>2 DEF Fits
  <2>5. r = IF Fits(next, Head(next.nodes), size) THEN Taken(next, Head(next.nodes), size)
                                                  ELSE [arena |-> next, block |-> NoBlock]
    BY <1>3 DEF PagedArenaAlloc
  <2> HIDE DEF next, r
  <2>6. CASE Fits(next, Head(next.nodes), size)
    <3>1. r = Taken(next, Head(next.nodes), size)
      BY <2>5, <2>6
    <3>2. ArenaOK(r.arena) /\ r.block \in r.arena.live /\ r.block \in ArenaBlocks
      BY <2>1, <2>3, <2>6, <3>1, BlockTaken
    <3>3. /\ FreeIsEmpty(r.arena) /\ next.live \subseteq r.arena.live
          /\ r.arena.nodes = next.nodes /\ r.arena.freeNodes = next.freeNodes
      BY <2>1, <2>2, <2>3, <3>1, BlockTakenKeeps
    <3> QED
      BY <1>1, <2>1, <2>2, <3>2, <3>3 DEF AllPages, r
  <2>7. CASE ~Fits(next, Head(next.nodes), size)
    <3>1. r.arena = next /\ r.block = NoBlock
      BY <2>5, <2>7
    <3> QED
      BY <2>1, <2>2, <2>4, <2>7, <3>1 DEF r
  <2> QED
    BY <2>6, <2>7
<1> QED
  BY <1>2, <1>3

\* A reset takes back every block and keeps the pages that were in use.
LEMMA ResetKeeps ==
  ASSUME NEW arena, ArenaOK(arena)
  PROVE  LET new == PagedArenaReset(arena) IN
         /\ ArenaOK(new) /\ FreeIsEmpty(new) /\ new.live = {}
         /\ Pages(arena.nodes) \subseteq AllPages(new)
<1> DEFINE new == PagedArenaReset(arena)
           nodes == arena.nodes
           rest == Tail(nodes)
<1>1. /\ nodes \in Seq(DOMAIN arena.offset) /\ nodes # <<>>
  BY DEF ArenaOK, IsArena
<1>2. /\ new.nodes = <<Head(nodes)>> /\ new.freeNodes = rest /\ new.live = {}
      /\ new.offset = [p \in DOMAIN arena.offset |->
                         IF p \in Pages(nodes) THEN 0 ELSE arena.offset[p]]
  BY DEF PagedArenaReset
<1>3. ArenaOK(new)
  BY ResetStaysApart
<1> HIDE DEF new, nodes
<1>4. /\ Head(nodes) = nodes[1]
      /\ \A i \in DOMAIN rest : rest[i] = nodes[i + 1] /\ i + 1 \in DOMAIN nodes
  BY <1>1, Below
<1>5. DOMAIN nodes = 1 .. Len(nodes) /\ DOMAIN rest = 1 .. Len(nodes) - 1 /\ Len(nodes) \in Nat
  <2>1. rest \in Seq(DOMAIN arena.offset) /\ Len(rest) = Len(nodes) - 1
    BY <1>1, HeadTailProperties
  <2>2. DOMAIN nodes = 1 .. Len(nodes) /\ Len(nodes) \in Nat
    BY <1>1, LenProperties
  <2> HIDE DEF rest
  <2>3. DOMAIN rest = 1 .. Len(rest)
    BY <2>1, LenProperties
  <2> QED
    BY <2>1, <2>2, <2>3
<1> HIDE DEF rest
<1>6. FreeIsEmpty(new)
  <2> SUFFICES ASSUME NEW i \in DOMAIN rest PROVE new.offset[rest[i]] = 0
    BY <1>2 DEF FreeIsEmpty
  <2>1. rest[i] \in Pages(nodes)
    BY <1>4 DEF Pages
  <2>2. rest[i] \in DOMAIN arena.offset
    BY <1>1, <1>4
  <2> QED
    BY <1>2, <2>1, <2>2
<1>7. ASSUME NEW i \in DOMAIN nodes PROVE nodes[i] \in AllPages(new)
  <2>1. CASE i = 1
    <3>1. 1 \in DOMAIN new.nodes /\ new.nodes[1] = nodes[i]
      BY <1>2, <1>4, <2>1
    <3> QED
      BY <3>1 DEF AllPages, Pages
  <2>2. CASE i # 1
    <3>1. i - 1 \in DOMAIN rest /\ (i - 1) + 1 = i
      BY <1>5, <2>2
    <3>2. rest[i - 1] = nodes[(i - 1) + 1]
      BY <1>4, <3>1
    <3>3. new.freeNodes[i - 1] = nodes[i] /\ i - 1 \in DOMAIN new.freeNodes
      BY <1>2, <3>1, <3>2
    <3> QED
      BY <3>3 DEF AllPages, Pages
  <2> QED
    BY <2>1, <2>2
<1>8. Pages(nodes) \subseteq AllPages(new)
  BY <1>7 DEF Pages
<1> QED
  BY <1>2, <1>3, <1>6, <1>8 DEF new, nodes
=============================================================================
