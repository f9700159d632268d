----------------------------- MODULE PagedArena -----------------------------
(***************************************************************************)
(* The native arena, src/native_ext/util/arena.cpp: memory handed out from *)
(* the top page of a list, and taken back all at once.  A page that is     *)
(* full stays in the list; a reset keeps the top page and frees the others *)
(* for the allocations that follow.                                        *)
(*                                                                         *)
(* An arena is a record: nodes and freeNodes, the two lists of pages;      *)
(* offset, what is used of each page that was ever made; and live          *)
(* (history), the blocks handed out since the last reset.  Addresses are   *)
(* a page and an offset in it.                                             *)
(*                                                                         *)
(* Simplification: a new page is always to be had (calloc succeeds).       *)
(***************************************************************************)
EXTENDS Naturals, Sequences

CONSTANTS
  PageSize,      \* pageSize, the capacity of a page
  Alignment,     \* kAlignment
  MemoryOffset,  \* where in its page a node's memory begins (sizeof(ArenaNode))
  NoBlock        \* nullptr

ASSUME ArenaAssumption ==
  /\ PageSize \in Nat \ {0} /\ Alignment \in Nat \ {0} /\ MemoryOffset \in Nat
  /\ NoBlock \notin [page : Nat, at : Nat, size : Nat]

Pages(list) == {list[i] : i \in DOMAIN list}

\* PagedArenaInit.
NewArena == [nodes |-> <<1>>, freeNodes |-> <<>>, offset |-> <<0>>, live |-> {}]

\* The first offset from here on whose address is aligned.
Aligned(offset) ==
  LET m == (MemoryOffset + offset) % Alignment
  IN IF m = 0 THEN offset ELSE offset + (Alignment - m)

Fits(arena, page, size) == Aligned(arena.offset[page]) + size <= PageSize

\* MemArenaAlloc, when it fits.
Taken(arena, page, size) ==
  LET block == [page |-> page, at |-> Aligned(arena.offset[page]), size |-> size] IN
  [arena |-> [arena EXCEPT !.offset[page] = block.at + size, !.live = @ \cup {block}],
   block |-> block]

\* A free page, or else a new one, on top.
WithPage(arena) ==
  IF arena.freeNodes # <<>>
    THEN [arena EXCEPT !.nodes = <<Head(arena.freeNodes)>> \o @, !.freeNodes = Tail(@)]
    ELSE [arena EXCEPT !.nodes = <<Len(arena.offset) + 1>> \o @, !.offset = Append(@, 0)]

\* PagedArenaAlloc: the arena and the block, which is NoBlock when not even a
\* whole page is large enough.
PagedArenaAlloc(arena, size) ==
  IF Fits(arena, Head(arena.nodes), size)
    THEN Taken(arena, Head(arena.nodes), size)
    ELSE LET next == WithPage(arena) IN
         IF Fits(next, Head(next.nodes), size)
           THEN Taken(next, Head(next.nodes), size)
           ELSE [arena |-> next, block |-> NoBlock]

\* Mutant: the pages behind the top one are freed and stay in the list.
ResetStillLinked(arena) ==
  [arena EXCEPT !.freeNodes = Tail(arena.nodes), !.live = {},
                !.offset = [p \in DOMAIN @ |-> IF p \in Pages(arena.nodes) THEN 0 ELSE @[p]]]

\* Mutant: the pages behind the top one are forgotten.
ResetToTop(arena) ==
  [arena EXCEPT !.nodes = <<Head(@)>>, !.live = {},
                !.offset = [p \in DOMAIN @ |-> IF p \in Pages(arena.nodes) THEN 0 ELSE @[p]]]

\* PagedArenaReset: what was free before is not kept.
PagedArenaReset(arena) ==
  [nodes |-> <<Head(arena.nodes)>>, freeNodes |-> Tail(arena.nodes), live |-> {},
   offset |-> [p \in DOMAIN arena.offset |->
                 IF p \in Pages(arena.nodes) THEN 0 ELSE arena.offset[p]]]

----------------------------------------------------------------------------
(* What an arena's users rely on. *)

IsArena(arena) ==
  /\ DOMAIN arena = {"nodes", "freeNodes", "offset", "live"}
  /\ arena.offset \in Seq(0 .. PageSize)
  /\ arena.nodes \in Seq(DOMAIN arena.offset) /\ arena.nodes # <<>>
  /\ arena.freeNodes \in Seq(DOMAIN arena.offset)

Overlap(b, c) == b.page = c.page /\ b.at < c.at + c.size /\ c.at < b.at + b.size

\* No two blocks handed out since the last reset share memory, and each lies at
\* an aligned address in a page that is in use.
LiveBlocksApart(arena) ==
  /\ \A b, c \in arena.live : b = c \/ ~Overlap(b, c)
  /\ \A b \in arena.live : /\ (MemoryOffset + b.at) % Alignment = 0
                           /\ b.at + b.size <= PageSize
                           /\ b.page \in Pages(arena.nodes)

\* No page is in use twice, or in use and free.
PagesApart(arena) ==
  LET all == arena.nodes \o arena.freeNodes
  IN \A i, j \in DOMAIN all : all[i] = all[j] => i = j
============================================================================
