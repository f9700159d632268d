------------------------ MODULE NativeProfilerProofs ------------------------
(* The native profiler's invariants, and that it implements SpanTimeline,  *)
(* for every width and capacity of its bins, every size of page and every  *)
(* set of contexts, spans and traces.                                      *)
EXTENDS NativeProfiler, ActivationStackProofs, FoldLemmas, FiniteSetTheorems

(***************************************************************************)
(* Tables.                                                                 *)
(***************************************************************************)

Ended == [span : Spans, start : 0 .. MaxTime, end : 0 .. MaxTime]

Bins == [activations : Seq(Ended), chunks : Seq(ArenaBlocks)]

Tables == [arena : Arenas, periods : Seq(ArenaBlocks), bins : Seq(Bins)]

\* The periods and chained bins are blocks of this profile.
BlocksLive(t) ==
  /\ \A i \in DOMAIN t.periods : t.periods[i] \in t.arena.live
  /\ \A i \in DOMAIN t.bins : \A j \in DOMAIN t.bins[i].chunks : t.bins[i].chunks[j] \in t.arena.live

TableOK(t) ==
  /\ t \in Tables /\ ArenaOK(t.arena) /\ FreeIsEmpty(t.arena)
  /\ Len(t.bins) = kBinsPerActivationPeriod * Len(t.periods)
  /\ BlocksLive(t)

\* The activations in a bin, none where no bin is.
ActsAt(t, i) == IF i \in DOMAIN t.bins THEN Pages(t.bins[i].activations) ELSE {}

\* Nothing an operation on a table may lose.
Grown(t, u) ==
  /\ t.arena.live \subseteq u.arena.live
  /\ Pages(t.arena.nodes) \subseteq Pages(u.arena.nodes)
  /\ AllPages(t.arena) \subseteq AllPages(u.arena)
  /\ Len(t.bins) <= Len(u.bins) /\ Len(t.periods) <= Len(u.periods)

\* What one operation after another leaves has grown of what was there at first.
LEMMA GrownIsTransitive ==
  ASSUME NEW t \in Tables, NEW u \in Tables, NEW v \in Tables, Grown(t, u), Grown(u, v)
  PROVE  Grown(t, v)
<1>1. \A w \in Tables : Len(w.bins) \in Nat /\ Len(w.periods) \in Nat
  BY DEF Tables
<1> QED
  BY <1>1 DEF Grown

\* A period fits a page, and so does a bin of it.
LEMMA SizesFit ==
  /\ PeriodSize \in Nat /\ Aligned(0) + PeriodSize <= PageSize
  /\ BinSize \in Nat /\ Aligned(0) + BinSize <= PageSize
<1>1. /\ BinSize \in Nat \ {0} /\ kBinsPerActivationPeriod \in Nat \ {0}
  BY BinAssumption DEF BinSize
<1>2. PeriodSize \in Nat /\ PeriodSize >= BinSize
  <2>1. \A k, b \in Nat \ {0} : k * b \in Nat /\ k * b >= b
    OBVIOUS
  <2> QED
    BY <1>1, <2>1 DEF PeriodSize
<1>3. Aligned(0) \in Nat
  BY AlignedUp
<1> QED
  BY <1>1, <1>2, <1>3, PeriodAssumption, ArenaAssumption

\* What one sequence after another is made of.
LEMMA Joined ==
  ASSUME NEW S, NEW s \in Seq(S), NEW f \in Seq(S)
  PROVE  LET p == s \o f
             n == Len(s)
             k == Len(f)
         IN /\ p \in Seq(S) /\ Len(p) = n + k /\ DOMAIN p = 1 .. n + k
            /\ \A i \in 1 .. n : p[i] = s[i]
            /\ \A i \in n + 1 .. n + k : p[i] = f[i - n] /\ i - n \in 1 .. k
<1> DEFINE p == s \o f
           n == Len(s)
           k == Len(f)
<1>2. n \in Nat /\ k \in Nat
  BY LenProperties
<1>3. p \in Seq(S) /\ Len(p) = n + k
      /\ \A i \in 1 .. n + k : p[i] = IF i <= n THEN s[i] ELSE f[i - n]
  BY ConcatProperties
<1> HIDE DEF p, n, k
<1>4. DOMAIN p = 1 .. n + k
  BY <1>3, LenProperties
<1>5. \A i \in 1 .. n : p[i] = s[i]
  BY <1>2, <1>3
<1>6. \A i \in n + 1 .. n + k : p[i] = f[i - n] /\ i - n \in 1 .. k
  <2> TAKE i \in n + 1 .. n + k
  <2>1. i - n \in 1 .. k /\ i \in 1 .. n + k /\ ~(i <= n)
    BY <1>2
  <2> QED
    BY <1>3, <2>1
<1> QED
  BY <1>3, <1>4, <1>5, <1>6 DEF p, n, k

\* A period more (NewActivationPeriod): the bins that were there keep their places
\* and activations, the new ones are empty.
LEMMA PeriodMade ==
  ASSUME NEW t, TableOK(t)
  PROVE  LET u == NewActivationPeriod(t) IN
         /\ TableOK(u) /\ Grown(t, u)
         /\ Len(u.periods) = Len(t.periods) + 1
         /\ \A i \in Nat : ActsAt(u, i) = ActsAt(t, i)
<1> DEFINE u == NewActivationPeriod(t)
           r == PagedArenaAlloc(t.arena, PeriodSize)
           k == kBinsPerActivationPeriod
           fresh == [i \in 1 .. k |-> EmptyBin]
           n == Len(t.bins)
           m == Len(t.periods)
<1>0. /\ t \in Tables /\ t.periods \in Seq(ArenaBlocks) /\ t.bins \in Seq(Bins)
      /\ ArenaOK(t.arena) /\ FreeIsEmpty(t.arena) /\ n = k * m /\ BlocksLive(t)
      /\ n \in Nat /\ m \in Nat /\ k \in Nat \ {0}
      /\ DOMAIN t.bins = 1 .. n /\ DOMAIN t.periods = 1 .. m
  BY BinAssumption DEF TableOK, Tables
<1>1. /\ ArenaOK(r.arena) /\ FreeIsEmpty(r.arena)
      /\ t.arena.live \subseteq r.arena.live
      /\ Pages(t.arena.nodes) \subseteq Pages(r.arena.nodes)
      /\ AllPages(t.arena) \subseteq AllPages(r.arena)
      /\ r.block \in r.arena.live /\ r.block \in ArenaBlocks
  BY <1>0, SizesFit, AllocKeeps
<1>2. /\ u.arena = r.arena /\ u.periods = Append(t.periods, r.block)
      /\ u.bins = t.bins \o fresh /\ DOMAIN u = {"arena", "periods", "bins"}
      /\ u = [arena |-> r.arena, periods |-> Append(t.periods, r.block), bins |-> t.bins \o fresh]
  BY DEF NewActivationPeriod
<1> HIDE DEF u, r
<1>3. EmptyBin \in Bins /\ EmptyBin.activations = <<>> /\ EmptyBin.chunks = <<>>
  BY DEF EmptyBin, Bins
<1>4. /\ u.bins \in Seq(Bins) /\ Len(u.bins) = n + k /\ DOMAIN u.bins = 1 .. n + k
      /\ \A i \in 1 .. n : u.bins[i] = t.bins[i]
      /\ \A i \in n + 1 .. n + k : u.bins[i] = EmptyBin
  <2>1. fresh \in Seq(Bins) /\ Len(fresh) = k /\ \A i \in 1 .. Len(fresh) : fresh[i] = EmptyBin
    BY <1>0, <1>3
  <2> DEFINE old == t.bins
             new == u.bins
  <2>2. old \in Seq(Bins) /\ n = Len(old) /\ new = old \o fresh
    BY <1>0, <1>2
  <2> HIDE DEF fresh, old, new, n, k
  <2>3. /\ new \in Seq(Bins) /\ Len(new) = n + k /\ DOMAIN new = 1 .. n + k
        /\ \A i \in 1 .. n : new[i] = old[i]
        /\ \A i \in n + 1 .. n + k : new[i] = EmptyBin
    <3>1. /\ new \in Seq(Bins) /\ Len(new) = n + k /\ DOMAIN new = 1 .. n + k
          /\ \A i \in 1 .. n : new[i] = old[i]
      BY <2>1, <2>2, Joined
    <3>2. \A i \in n + 1 .. n + k : new[i] = fresh[i - n] /\ i - n \in 1 .. k
      BY <2>1, <2>2, Joined
    <3>3. \A i \in n + 1 .. n + k : new[i] = EmptyBin
      BY <2>1, <3>2
    <3> QED
      BY <3>1, <3>3
  <2> QED
    BY <2>3 DEF old, new
<1>5. /\ u.periods \in Seq(ArenaBlocks) /\ Len(u.periods) = m + 1 /\ DOMAIN u.periods = 1 .. m + 1
      /\ \A i \in 1 .. m : u.periods[i] = t.periods[i]
      /\ u.periods[m + 1] = r.block
  BY <1>0, <1>1, <1>2
<1>6. k * (m + 1) = k * m + k
  BY <1>0
<1>7. BlocksLive(u)
  <2>1. ASSUME NEW i \in DOMAIN u.periods PROVE u.periods[i] \in u.arena.live
    <3>1. CASE i \in 1 .. m
      <4>1. u.periods[i] = t.periods[i] /\ i \in DOMAIN t.periods
        BY <1>0, <1>5, <3>1
      <4>2. t.periods[i] \in t.arena.live
        BY <4>1 DEF BlocksLive, TableOK
      <4> QED
        BY <1>1, <1>2, <4>1, <4>2
    <3>2. CASE i = m + 1
      BY <1>1, <1>2, <1>5, <3>2
    <3> QED
      BY <1>0, <1>5, <3>1, <3>2
  <2>2. \A i \in DOMAIN u.bins : \A j \in DOMAIN u.bins[i].chunks : u.bins[i].chunks[j] \in u.arena.live
    <3> TAKE i \in DOMAIN u.bins
    <3>1. CASE i \in 1 .. n
      BY <1>0, <1>1, <1>2, <1>4, <3>1 DEF BlocksLive
    <3>2. CASE i \in n + 1 .. n + k
      <4>1. DOMAIN u.bins[i].chunks = {}
        BY <1>3, <1>4, <3>2
      <4> QED
        BY <4>1
    <3> QED
      BY <1>0, <1>4, <3>1, <3>2
  <2> QED
    BY <2>1, <2>2 DEF BlocksLive
<1>8. u \in Tables
  <2>1. r.arena \in Arenas
    BY <1>1 DEF ArenaOK
  <2> QED
    BY <1>2, <1>4, <1>5, <2>1 DEF Tables
<1>9. \A i \in Nat : ActsAt(u, i) = ActsAt(t, i)
  <2> TAKE i \in Nat
  <2>1. CASE i \in 1 .. n
    BY <1>0, <1>4, <2>1 DEF ActsAt
  <2>2. CASE i \in n + 1 .. n + k
    <3>1. u.bins[i] = EmptyBin /\ i \in DOMAIN u.bins /\ i \notin DOMAIN t.bins
      BY <1>0, <1>4, <2>2
    <3>2. Pages(u.bins[i].activations) = {}
      BY <1>3, <3>1 DEF Pages
    <3> QED
      BY <3>1, <3>2 DEF ActsAt
  <2>3. CASE i \notin 1 .. n + k
    BY <1>0, <1>4, <2>3 DEF ActsAt
  <2> QED
    BY <1>0, <2>1, <2>2, <2>3
<1>10. Grown(t, u)
  <2>1. Len(u.bins) = n + k /\ Len(u.periods) = m + 1
    BY <1>4, <1>5
  <2>2. Len(t.bins) <= Len(u.bins) /\ Len(t.periods) <= Len(u.periods)
    BY <1>0, <2>1
  <2> HIDE DEF n, m
  <2> QED
    BY <1>1, <1>2, <2>2 DEF Grown
<1>11. TableOK(u)
  BY <1>0, <1>1, <1>2, <1>4, <1>5, <1>6, <1>7, <1>8 DEF TableOK
<1> QED
  BY <1>5, <1>9, <1>10, <1>11 DEF u

\* The bin of a time is in the period after as many as its number divided by their
\* size (ProfilingGetActivationBin), and later bins are in later periods.
LEMMA DivUp ==
  ASSUME NEW b \in Nat, NEW k \in Nat \ {0}
  PROVE  /\ b \div k \in Nat /\ k * (b \div k + 1) > b
         /\ \A c \in Nat : b <= c => b \div k <= c \div k
<1>1. \A x \in Nat : x \div k \in Nat /\ x = k * (x \div k) + (x % k) /\ (x % k) \in 0 .. k - 1
  OBVIOUS
<1>2. k * (b \div k + 1) > b
  <2> DEFINE q == b \div k
             r == b % k
  <2>1. q \in Nat /\ b = k * q + r /\ r \in 0 .. k - 1
    BY <1>1
  <2> HIDE DEF q, r
  <2>2. k * (q + 1) = k * q + k /\ k * q \in Nat
    BY <2>1
  <2> QED
    BY <2>1, <2>2 DEF q
<1>3. ASSUME NEW c \in Nat, b <= c PROVE b \div k <= c \div k
  <2> DEFINE q == b \div k
             p == c \div k
             r == b % k
             s == c % k
  <2>1. /\ q \in Nat /\ b = k * q + r /\ r \in 0 .. k - 1
        /\ p \in Nat /\ c = k * p + s /\ s \in 0 .. k - 1
    BY <1>1
  <2> HIDE DEF p, q, r, s
  <2> SUFFICES ASSUME p + 1 <= q PROVE FALSE
    BY <2>1 DEF p, q
  <2>2. k * (p + 1) = k * p + k /\ k * p \in Nat /\ k * q \in Nat
    BY <2>1
  <2>3. k * (p + 1) <= k * q
    BY <2>1
  <2> QED
    BY <1>3, <2>1, <2>2, <2>3
<1> QED
  BY <1>1, <1>2, <1>3

\* The periods up to a bin are made, and no activation is gained or lost.
LEMMA Reached ==
  ASSUME NEW t, TableOK(t), NEW bin \in Nat
  PROVE  LET u == Reaching(t, bin) IN
         /\ TableOK(u) /\ Grown(t, u) /\ bin + 1 \in DOMAIN u.bins
         /\ \A i \in Nat : ActsAt(u, i) = ActsAt(t, i)
<1> DEFINE k == kBinsPerActivationPeriod
           m == Len(t.periods)
           wanted == bin \div k + 1
           n == IF wanted - m > 0 THEN wanted - m ELSE 0
           D == 1 .. n
           iter == CHOOSE g : g = [s \in SUBSET D |->
                     IF s = {} THEN t ELSE NewActivationPeriod(g[s \ {Max(s)}])]
           S == {u \in Tables : TableOK(u)}
           step == [x \in D \X S |-> NewActivationPeriod(x[2])]
<1>1. k \in Nat \ {0} /\ m \in Nat /\ wanted \in Nat /\ n \in Nat /\ k * wanted > bin
  <2>1. k \in Nat \ {0} /\ m \in Nat
    BY BinAssumption DEF TableOK, Tables
  <2>2. wanted \in Nat /\ k * wanted > bin
    BY <2>1, DivUp
  <2> HIDE DEF wanted
  <2> QED
    BY <2>1, <2>2
<1>2. Reaching(t, bin) = iter[D]
  <2> DEFINE E == 1 .. (bin \div k + 1 - m)
             jter == CHOOSE g : g = [s \in SUBSET E |->
                       IF s = {} THEN t ELSE NewActivationPeriod(g[s \ {Max(s)}])]
  <2>1. Reaching(t, bin) = jter[E]
    BY DEF Reaching, FoldLeft, MapThenFoldSet
  <2>2. E = D
    <3> HIDE DEF m, k
    <3> DEFINE q == bin \div k
    <3>1. q \in Nat /\ m \in Nat
      BY <1>1, DivUp
    <3> HIDE DEF q
    <3>2. 1 .. q + 1 - m = 1 .. IF (q + 1) - m > 0 THEN (q + 1) - m ELSE 0
      BY <3>1
    <3> QED
      BY <3>2 DEF q
  <2> QED
    BY <2>1, <2>2
<1> HIDE DEF n, wanted, m, k
<1>3. t \in S /\ \A u \in S : TableOK(u)
  BY DEF TableOK
<1>4. \A u \in S : NewActivationPeriod(u) \in S
  BY PeriodMade DEF TableOK
<1> HIDE DEF S
<1>5. iter = [s \in SUBSET D |-> IF s = {} THEN t ELSE NewActivationPeriod(iter[s \ {Max(s)}])]
  <2>1. step \in [D \X S -> S]
    BY <1>4
  <2>2. D \in SUBSET (0 .. n)
    BY <1>1
  <2> HIDE DEF D, step, iter
  <2>3. PICK g \in [SUBSET D -> S] : IsFold(g, D, t, step)
    BY <1>1, <1>3, <2>1, <2>2, FoldExists
  <2>4. ASSUME NEW s \in SUBSET D, s # {}
        PROVE  g[s] = NewActivationPeriod(g[s \ {Max(s)}])
    <3>1. Max(s) \in D
      BY <1>1, <2>2, <2>4, MaxIsLargest
    <3>2. g[s \ {Max(s)}] \in S
      BY <2>3
    <3>3. step[<<Max(s), g[s \ {Max(s)}]>>] = NewActivationPeriod(g[s \ {Max(s)}])
      BY <3>1, <3>2 DEF step
    <3> QED
      BY <2>3, <2>4, <3>3 DEF IsFold
  <2>5. g = [s \in SUBSET D |-> IF s = {} THEN t ELSE NewActivationPeriod(g[s \ {Max(s)}])]
    BY <2>3, <2>4 DEF IsFold
  <2> QED
    BY <2>5 DEF iter
<1>6. /\ iter[1 .. 0] = t
      /\ \A i \in 1 .. n : iter[1 .. i] = NewActivationPeriod(iter[1 .. i - 1])
  <2>1. 1 .. 0 = {} /\ {} \in SUBSET D
    OBVIOUS
  <2>2. \A i \in 1 .. n : /\ 1 .. i \in SUBSET D /\ 1 .. i # {}
                          /\ Max(1 .. i) = i /\ (1 .. i) \ {i} = 1 .. i - 1
    BY <1>1, UpTo
  <2> HIDE DEF iter, D
  <2>3. iter[{}] = t
    BY <1>5, <2>1
  <2>4. ASSUME NEW i \in 1 .. n
        PROVE  iter[1 .. i] = NewActivationPeriod(iter[1 .. i - 1])
    <3>1. /\ 1 .. i \in SUBSET D /\ 1 .. i # {} /\ (1 .. i) \ {Max(1 .. i)} = 1 .. i - 1
      BY <2>2
    <3> DEFINE s == 1 .. i
    <3>2. s \in SUBSET D /\ s # {} /\ s \ {Max(s)} = 1 .. i - 1
      BY <3>1
    <3> HIDE DEF s
    <3>3. iter[s] = NewActivationPeriod(iter[s \ {Max(s)}])
      BY <1>5, <3>2
    <3> QED
      BY <3>2, <3>3 DEF s
  <2> QED
    BY <2>1, <2>3, <2>4
<1> HIDE DEF iter
<1> DEFINE Good(u, i) == /\ TableOK(u) /\ Grown(t, u) /\ Len(u.periods) = m + i
                         /\ \A j \in Nat : ActsAt(u, j) = ActsAt(t, j)
           T == {i \in 0 .. n : Good(iter[1 .. i], i)}
<1>7. 0 \in T
  <2>1. Good(t, 0)
    BY <1>1 DEF Grown, TableOK, Tables, m
  <2> HIDE DEF Good
  <2> QED
    BY <1>1, <1>6, <2>1
<1>8. ASSUME NEW i \in 1 .. n, i - 1 \in T PROVE i \in T
  <2> DEFINE u == iter[1 .. i - 1]
             v == iter[1 .. i]
  <2>1. Good(u, i - 1)
    BY <1>8
  <2>2. v = NewActivationPeriod(u)
    BY <1>6
  <2> HIDE DEF u, v
  <2>3. /\ TableOK(v) /\ Grown(u, v) /\ Len(v.periods) = Len(u.periods) + 1
        /\ \A j \in Nat : ActsAt(v, j) = ActsAt(u, j)
    BY <2>1, <2>2, PeriodMade
  <2>4. Grown(t, v)
    <3>1. t \in Tables /\ u \in Tables /\ v \in Tables
      BY <2>1, <2>3 DEF TableOK
    <3>2. Grown(t, u) /\ Grown(u, v)
      BY <2>1, <2>3
    <3> QED
      BY <3>1, <3>2, GrownIsTransitive
  <2>5. Len(v.periods) = m + i
    BY <1>1, <2>1, <2>3
  <2>6. Good(v, i)
    BY <2>1, <2>3, <2>4, <2>5
  <2> HIDE DEF Good
  <2> QED
    BY <1>1, <2>6 DEF v
<1>9. Good(iter[D], n)
  <2>1. 0 .. n \subseteq T
    <3> HIDE DEF T
    <3> QED
      BY <1>1, <1>7, <1>8, FiniteInduction
  <2>2. n \in 0 .. n
    BY <1>1
  <2> HIDE DEF Good
  <2> QED
    BY <2>1, <2>2
<1> DEFINE w == iter[D]
<1>10. Good(w, n)
  BY <1>9
<1> HIDE DEF w
<1>11. bin + 1 \in DOMAIN w.bins
  <2>1. Len(w.periods) \in Nat /\ Len(w.periods) >= wanted
    BY <1>1, <1>10 DEF n
  <2>2. \A a, b \in Nat : a >= b => k * a >= k * b /\ k * a \in Nat /\ k * b \in Nat
    BY <1>1
  <2>3. Len(w.bins) = k * Len(w.periods) /\ DOMAIN w.bins = 1 .. Len(w.bins)
    BY <1>10 DEF TableOK, Tables, k
  <2>4. k * Len(w.periods) >= k * wanted /\ k * wanted \in Nat /\ k * Len(w.periods) \in Nat
    BY <1>1, <2>1, <2>2
  <2> QED
    BY <1>1, <2>3, <2>4
<1> QED
  BY <1>2, <1>10, <1>11 DEF w

\* A sequence of bins with one of them replaced.
LEMMA Replaced ==
  ASSUME NEW S, NEW list \in Seq(S), NEW b \in DOMAIN list, NEW new \in S
  PROVE  LET after == [list EXCEPT ![b] = new] IN
         /\ list[b] \in S
         /\ after \in Seq(S) /\ Len(after) = Len(list) /\ DOMAIN after = DOMAIN list
         /\ after[b] = new /\ \A i \in DOMAIN list : i # b => after[i] = list[i]
OBVIOUS

\* Everything in a sequence, and one more.
LEMMA Appended ==
  ASSUME NEW S, NEW list \in Seq(S), NEW x \in S
  PROVE  LET after == Append(list, x) IN
         /\ after \in Seq(S) /\ Pages(after) = Pages(list) \cup {x}
         /\ \A j \in DOMAIN after : after[j] = x \/ \E i \in DOMAIN list : after[j] = list[i]
<1> DEFINE n == Len(list)
           after == Append(list, x)
<1>1. n \in Nat /\ DOMAIN list = 1 .. n
  BY LenProperties
<1>2. /\ after \in Seq(S) /\ DOMAIN after = 1 .. n + 1
      /\ \A i \in 1 .. n : after[i] = list[i]
      /\ after[n + 1] = x
  BY <1>1
<1> HIDE DEF n, after
<1>3. \A j \in DOMAIN after : after[j] = x \/ \E i \in DOMAIN list : after[j] = list[i]
  BY <1>1, <1>2
<1>4. Pages(after) = Pages(list) \cup {x}
  <2>1. \A i \in DOMAIN list : i \in DOMAIN after /\ after[i] = list[i]
    BY <1>1, <1>2
  <2>2. n + 1 \in DOMAIN after
    BY <1>1, <1>2
  <2> QED
    BY <1>2, <1>3, <2>1, <2>2 DEF Pages
<1> QED
  BY <1>2, <1>3, <1>4 DEF after

\* One bin gets an activation, and perhaps a further block of this profile.
OneBinGrown(t, u, b, act) ==
  /\ u \in Tables /\ ArenaOK(u.arena) /\ FreeIsEmpty(u.arena)
  /\ t.arena.live \subseteq u.arena.live
  /\ Pages(t.arena.nodes) \subseteq Pages(u.arena.nodes)
  /\ AllPages(t.arena) \subseteq AllPages(u.arena)
  /\ u.periods = t.periods /\ Len(u.bins) = Len(t.bins) /\ DOMAIN u.bins = DOMAIN t.bins
  /\ \A i \in DOMAIN t.bins : i # b => u.bins[i] = t.bins[i]
  /\ u.bins[b].activations = Append(t.bins[b].activations, act)
  /\ \A j \in DOMAIN u.bins[b].chunks : u.bins[b].chunks[j] \in u.arena.live

\* An activation more in one bin changes no other bin.
LEMMA BinReplaced ==
  ASSUME NEW t, TableOK(t), NEW b \in DOMAIN t.bins, NEW act \in Ended,
         NEW u, OneBinGrown(t, u, b, act)
  PROVE  /\ TableOK(u) /\ Grown(t, u)
         /\ \A i \in Nat : ActsAt(u, i) = ActsAt(t, i) \cup (IF i = b THEN {act} ELSE {})
<1>1. /\ t.bins \in Seq(Bins) /\ t.periods \in Seq(ArenaBlocks)
      /\ Len(t.bins) = kBinsPerActivationPeriod * Len(t.periods)
      /\ \A i \in DOMAIN t.periods : t.periods[i] \in t.arena.live
      /\ \A i \in DOMAIN t.bins : \A j \in DOMAIN t.bins[i].chunks : t.bins[i].chunks[j] \in t.arena.live
  BY DEF TableOK, Tables, BlocksLive
<1>2. TableOK(u)
  <2>1. BlocksLive(u)
    BY <1>1 DEF BlocksLive, OneBinGrown
  <2> QED
    BY <1>1, <2>1 DEF TableOK, OneBinGrown
<1>3. Grown(t, u)
  <2>1. Len(t.bins) \in Nat /\ Len(t.periods) \in Nat
    BY <1>1
  <2> QED
    BY <2>1 DEF Grown, OneBinGrown
<1>4. Pages(u.bins[b].activations) = Pages(t.bins[b].activations) \cup {act}
  <2>1. t.bins[b] \in Bins
    BY <1>1
  <2>2. t.bins[b].activations \in Seq(Ended)
    BY <2>1 DEF Bins
  <2> QED
    BY <2>2, Appended DEF OneBinGrown
<1>5. \A i \in Nat : ActsAt(u, i) = ActsAt(t, i) \cup (IF i = b THEN {act} ELSE {})
  BY <1>4 DEF ActsAt, OneBinGrown
<1> QED
  BY <1>2, <1>3, <1>5

\* The activation is in its bin, whether or not that was full, and nothing else
\* changes in any bin.
LEMMA BinInserted ==
  ASSUME NEW t, TableOK(t), NEW bin \in Nat, bin + 1 \in DOMAIN t.bins, NEW act \in Ended
  PROVE  LET u == BinInsertActivation(t, bin, act) IN
         /\ TableOK(u) /\ Grown(t, u) /\ DOMAIN u.bins = DOMAIN t.bins
         /\ u.periods = t.periods
         /\ \A i \in Nat : ActsAt(u, i) = ActsAt(t, i) \cup (IF i = bin + 1 THEN {act} ELSE {})
<1> DEFINE b == bin + 1
           old == t.bins[b]
           u == BinInsertActivation(t, bin, act)
           r == PagedArenaAlloc(t.arena, BinSize)
           acts == Append(old.activations, act)
           full == [activations |-> acts, chunks |-> Append(old.chunks, r.block)]
           room == [activations |-> acts, chunks |-> old.chunks]
<1>1. /\ t \in Tables /\ t.arena \in Arenas /\ t.periods \in Seq(ArenaBlocks) /\ t.bins \in Seq(Bins)
      /\ ArenaOK(t.arena) /\ FreeIsEmpty(t.arena) /\ b \in DOMAIN t.bins /\ BlocksLive(t)
  BY DEF TableOK, Tables
<1>2. old \in Bins
  BY <1>1
<1>3. /\ old.activations \in Seq(Ended) /\ old.chunks \in Seq(ArenaBlocks)
      /\ old = [activations |-> old.activations, chunks |-> old.chunks]
      /\ \A j \in DOMAIN old.chunks : old.chunks[j] \in t.arena.live
  BY <1>1, <1>2 DEF Bins, BlocksLive
<1>4. acts \in Seq(Ended)
  BY <1>3, Appended
<1>5. /\ ArenaOK(r.arena) /\ FreeIsEmpty(r.arena) /\ t.arena.live \subseteq r.arena.live
      /\ Pages(t.arena.nodes) \subseteq Pages(r.arena.nodes)
      /\ AllPages(t.arena) \subseteq AllPages(r.arena)
      /\ r.block \in r.arena.live /\ r.block \in ArenaBlocks /\ r.arena \in Arenas
  BY <1>1, SizesFit, AllocKeeps DEF ArenaOK
<1>6. full \in Bins /\ room \in Bins
  <2>1. Append(old.chunks, r.block) \in Seq(ArenaBlocks)
    BY <1>3, <1>5, Appended
  <2> QED
    BY <1>3, <1>4, <2>1 DEF Bins
<1>7. CASE ChainFull(old)
  <2> DEFINE bins == [t.bins EXCEPT ![b] = full]
  <2>1. u = [arena |-> r.arena, periods |-> t.periods, bins |-> bins]
    <3>1. u = [t EXCEPT !.arena = r.arena, !.bins[b] = full]
      BY <1>7 DEF BinInsertActivation
    <3> HIDE DEF full
    <3> QED
      BY <1>1, <3>1 DEF Tables
  <2>2. full.activations = acts /\ full.chunks = Append(old.chunks, r.block)
    OBVIOUS
  <2>3. \A j \in DOMAIN full.chunks : full.chunks[j] \in r.arena.live
    <3>1. \A j \in DOMAIN full.chunks :
             full.chunks[j] = r.block \/ \E i \in DOMAIN old.chunks : full.chunks[j] = old.chunks[i]
      <4> DEFINE before == old.chunks
                 block == r.block
                 after == full.chunks
      <4>1. before \in Seq(ArenaBlocks) /\ block \in ArenaBlocks /\ after = Append(before, block)
        BY <1>3, <1>5, <2>2
      <4> HIDE DEF before, block, after
      <4>2. \A j \in DOMAIN after : after[j] = block \/ \E i \in DOMAIN before : after[j] = before[i]
        BY <4>1, Appended
      <4> QED
        BY <4>2 DEF before, block, after
    <3> HIDE DEF full
    <3> QED
      BY <1>3, <1>5, <3>1
  <2> HIDE DEF full, u, r, b, old
  <2>4. /\ bins \in Seq(Bins) /\ Len(bins) = Len(t.bins) /\ DOMAIN bins = DOMAIN t.bins
        /\ bins[b] = full /\ \A i \in DOMAIN t.bins : i # b => bins[i] = t.bins[i]
    BY <1>1, <1>6, Replaced
  <2> HIDE DEF bins
  <2>5. u \in Tables /\ u.arena = r.arena /\ u.periods = t.periods /\ u.bins = bins
    BY <1>1, <1>5, <2>1, <2>4 DEF Tables
  <2>6. OneBinGrown(t, u, b, act)
    BY <1>1, <1>5, <2>2, <2>3, <2>4, <2>5 DEF old, OneBinGrown
  <2>7. /\ TableOK(u) /\ Grown(t, u)
        /\ \A i \in Nat : ActsAt(u, i) = ActsAt(t, i) \cup (IF i = b THEN {act} ELSE {})
    BY <1>1, <2>6, BinReplaced
  <2> QED
    BY <2>4, <2>5, <2>7 DEF u, b
<1>8. CASE ~ChainFull(old)
  <2> DEFINE bins == [t.bins EXCEPT ![b] = room]
  <2>1. u = [arena |-> t.arena, periods |-> t.periods, bins |-> bins]
    <3>1. u = [t EXCEPT !.bins[b].activations = acts]
      BY <1>8 DEF BinInsertActivation
    <3>2. u = [t EXCEPT !.bins = [@ EXCEPT ![b] = [old EXCEPT !.activations = acts]]]
      BY <3>1
    <3>3. [old EXCEPT !.activations = acts] = room
      <4>1. \A o \in Bins : \A x : [o EXCEPT !.activations = x] = [activations |-> x, chunks |-> o.chunks]
        BY DEF Bins
      <4> QED
        BY <1>2, <4>1
    <3> HIDE DEF room
    <3>4. u = [t EXCEPT !.bins = bins]
      BY <3>2, <3>3
    <3> QED
      BY <1>1, <3>4 DEF Tables
  <2>2. room.activations = acts /\ room.chunks = old.chunks
    OBVIOUS
  <2> HIDE DEF room, u, b, old
  <2>4. /\ bins \in Seq(Bins) /\ Len(bins) = Len(t.bins) /\ DOMAIN bins = DOMAIN t.bins
        /\ bins[b] = room /\ \A i \in DOMAIN t.bins : i # b => bins[i] = t.bins[i]
    BY <1>1, <1>6, Replaced
  <2> HIDE DEF bins
  <2>5. u \in Tables /\ u.arena = t.arena /\ u.periods = t.periods /\ u.bins = bins
    BY <1>1, <2>1, <2>4 DEF Tables
  <2>6. OneBinGrown(t, u, b, act)
    BY <1>1, <1>3, <2>2, <2>4, <2>5 DEF old, OneBinGrown
  <2>7. /\ TableOK(u) /\ Grown(t, u)
        /\ \A i \in Nat : ActsAt(u, i) = ActsAt(t, i) \cup (IF i = b THEN {act} ELSE {})
    BY <1>1, <2>6, BinReplaced
  <2> QED
    BY <2>4, <2>5, <2>7 DEF u, b
<1> QED
  BY <1>7, <1>8

\* An ended activation is in every bin it overlaps, which are all made, and nothing
\* else changes in any bin.
LEMMA Inserted ==
  ASSUME NEW t, TableOK(t), NEW act \in Ended,
         NEW first \in Nat, first = ActivationBinIndex(act.start),
         NEW last \in Nat, last = ActivationBinIndex(act.end), first <= last
  PROVE  LET u == InsertActivation(t, act) IN
         /\ TableOK(u) /\ Grown(t, u) /\ last + 1 \in DOMAIN u.bins
         /\ \A i \in Nat : ActsAt(u, i) = ActsAt(t, i) \cup
                             (IF i \in first + 1 .. last + 1 THEN {act} ELSE {})
<1> DEFINE n == last - first + 1
           D == 1 .. n
           seq == [i \in D |-> first + i - 1]
           insert(u, bin) == BinInsertActivation(Reaching(u, bin), bin, act)
           iter == CHOOSE g : g = [s \in SUBSET D |->
                     IF s = {} THEN t ELSE insert(g[s \ {Max(s)}], seq[Max(s)])]
           S == {u \in Tables : TableOK(u)}
           step == [x \in D \X S |-> insert(x[2], seq[x[1]])]
<1>1. n \in Nat /\ n # 0 /\ D \in SUBSET (0 .. n) /\ \A i \in D : seq[i] \in Nat
  OBVIOUS
<1>2. InsertActivation(t, act) = iter[D]
  <2>1. BinsOf(act) = seq
    BY DEF BinsOf
  <2>2. DOMAIN seq = D
    OBVIOUS
  <2> HIDE DEF seq, D
  <2> QED
    BY <2>1, <2>2 DEF InsertActivation, FoldLeft, MapThenFoldSet
<1>3. t \in S /\ \A u \in S : TableOK(u)
  BY DEF TableOK
<1> HIDE DEF insert
<1>4. ASSUME NEW u \in S, NEW bin \in Nat
      PROVE  LET v == insert(u, bin) IN
             /\ v \in S /\ Grown(u, v) /\ bin + 1 \in DOMAIN v.bins
             /\ \A i \in Nat : ActsAt(v, i) = ActsAt(u, i) \cup (IF i = bin + 1 THEN {act} ELSE {})
  <2> DEFINE w == Reaching(u, bin)
             v == insert(u, bin)
  <2>1. /\ TableOK(w) /\ Grown(u, w) /\ bin + 1 \in DOMAIN w.bins
        /\ \A i \in Nat : ActsAt(w, i) = ActsAt(u, i)
    BY <1>3, Reached
  <2>2. v = BinInsertActivation(w, bin, act)
    BY DEF insert
  <2> HIDE DEF w, v, S
  <2>3. /\ TableOK(v) /\ Grown(w, v) /\ DOMAIN v.bins = DOMAIN w.bins
        /\ \A i \in Nat : ActsAt(v, i) = ActsAt(w, i) \cup (IF i = bin + 1 THEN {act} ELSE {})
    BY <2>1, <2>2, BinInserted
  <2>4. u \in Tables /\ w \in Tables /\ v \in Tables /\ v \in S
    BY <1>3, <2>1, <2>3 DEF TableOK, S
  <2>5. Grown(u, v)
    BY <2>1, <2>3, <2>4, GrownIsTransitive
  <2> QED
    BY <2>1, <2>3, <2>4, <2>5 DEF v
<1>5. step \in [D \X S -> S]
  <2> HIDE DEF S, seq, D
  <2> QED
    BY <1>1, <1>4
<1>6. PICK g \in [SUBSET D -> S] : IsFold(g, D, t, step)
  <2> HIDE DEF S, step, D, n
  <2> QED
    BY <1>1, <1>3, <1>5, FoldExists
<1>7. \A i \in D, u \in S : step[<<i, u>>] = insert(u, seq[i])
  OBVIOUS
<1>8. iter = [s \in SUBSET D |-> IF s = {} THEN t ELSE insert(iter[s \ {Max(s)}], seq[Max(s)])]
  <2> HIDE DEF S, step, D, n, iter, seq
  <2>1. ASSUME NEW s \in SUBSET D, s # {}
        PROVE  g[s] = insert(g[s \ {Max(s)}], seq[Max(s)])
    <3>1. Max(s) \in D
      BY <1>1, <2>1, MaxIsLargest
    <3>2. g[s \ {Max(s)}] \in S
      BY <1>6
    <3> QED
      BY <1>6, <1>7, <2>1, <3>1, <3>2 DEF IsFold
  <2>2. g = [s \in SUBSET D |-> IF s = {} THEN t ELSE insert(g[s \ {Max(s)}], seq[Max(s)])]
    BY <1>6, <2>1 DEF IsFold
  <2> QED
    BY <2>2 DEF iter
<1> HIDE DEF iter
<1>9. /\ iter[1 .. 0] = t
      /\ \A i \in 1 .. n : iter[1 .. i] = insert(iter[1 .. i - 1], first + i - 1)
  <2>1. 1 .. 0 = {} /\ {} \in SUBSET D
    OBVIOUS
  <2>2. \A i \in 1 .. n : /\ 1 .. i \in SUBSET D /\ 1 .. i # {}
                          /\ Max(1 .. i) = i /\ (1 .. i) \ {i} = 1 .. i - 1
    BY <1>1, UpTo
  <2>3. \A i \in 1 .. n : seq[i] = first + i - 1
    OBVIOUS
  <2> HIDE DEF D, n, seq
  <2>4. iter[{}] = t
    BY <1>8, <2>1
  <2>5. ASSUME NEW i \in 1 .. n
        PROVE  iter[1 .. i] = insert(iter[1 .. i - 1], first + i - 1)
    <3> DEFINE s == 1 .. i
    <3>1. s \in SUBSET D /\ s # {} /\ s \ {Max(s)} = 1 .. i - 1 /\ Max(s) = i
      BY <2>2
    <3> HIDE DEF s
    <3>2. iter[s] = insert(iter[s \ {Max(s)}], seq[Max(s)])
      BY <1>8, <3>1
    <3> QED
      BY <2>3, <3>1, <3>2 DEF s
  <2> QED
    BY <2>1, <2>4, <2>5
<1> DEFINE more(i, j) == IF j \in first + 1 .. first + i THEN {act} ELSE {}
           Good(u, i) == /\ TableOK(u) /\ Grown(t, u) /\ (i # 0 => first + i \in DOMAIN u.bins)
                         /\ \A j \in Nat : ActsAt(u, j) = ActsAt(t, j) \cup more(i, j)
           T == {i \in 0 .. n : Good(iter[1 .. i], i)}
<1> HIDE DEF D, S, seq
<1>10. 0 \in T
  <2>1. Good(t, 0)
    BY DEF Grown, TableOK, Tables
  <2> HIDE DEF Good
  <2> QED
    BY <1>1, <1>9, <2>1
<1>11. ASSUME NEW i \in 1 .. n, i - 1 \in T PROVE i \in T
  <2> DEFINE u == iter[1 .. i - 1]
             v == iter[1 .. i]
             bin == first + i - 1
  <2>1. Good(u, i - 1)
    BY <1>11
  <2>2. v = insert(u, bin) /\ bin \in Nat /\ bin + 1 = first + i
    BY <1>9
  <2> HIDE DEF u, v, bin
  <2>3. u \in S
    BY <2>1 DEF TableOK, S
  <2>4. /\ v \in S /\ Grown(u, v) /\ bin + 1 \in DOMAIN v.bins
        /\ \A j \in Nat : ActsAt(v, j) = ActsAt(u, j) \cup (IF j = bin + 1 THEN {act} ELSE {})
    <3> HIDE DEF insert
    <3>1. bin \in Nat /\ v = insert(u, bin)
      BY <2>2
    <3>2. insert(u, bin) \in S /\ Grown(u, insert(u, bin)) /\ bin + 1 \in DOMAIN insert(u, bin).bins
      BY <1>4, <2>3, <3>1
    <3>3. \A j \in Nat : ActsAt(insert(u, bin), j)
                           = ActsAt(u, j) \cup (IF j = bin + 1 THEN {act} ELSE {})
      BY <1>4, <2>3, <3>1, Zenon
    <3> QED
      BY <3>1, <3>2, <3>3
  <2>5. TableOK(v) /\ Grown(t, v)
    BY <1>3, <2>1, <2>3, <2>4, GrownIsTransitive DEF S
  <2>6. \A j \in Nat : ActsAt(v, j) = ActsAt(t, j) \cup more(i, j)
    <3> TAKE j \in Nat
    <3>1. more(i, j) = more(i - 1, j) \cup (IF j = bin + 1 THEN {act} ELSE {})
      BY <2>2
    <3> HIDE DEF more
    <3> QED
      BY <2>1, <2>4, <3>1
  <2>7. Good(v, i)
    BY <2>2, <2>4, <2>5, <2>6
  <2> HIDE DEF Good
  <2> QED
    BY <1>1, <2>7 DEF v
<1>12. Good(iter[D], n)
  <2>1. 0 .. n \subseteq T
    <3> HIDE DEF T, n
    <3> QED
      BY <1>1, <1>10, <1>11, FiniteInduction
  <2>2. n \in 0 .. n
    BY <1>1
  <2> HIDE DEF Good, n
  <2> QED
    BY <2>1, <2>2 DEF D
<1> DEFINE w == iter[D]
<1>13. Good(w, n)
  BY <1>12
<1> HIDE DEF w
<1>14. first + n = last + 1
  OBVIOUS
<1>15. TableOK(w) /\ Grown(t, w) /\ last + 1 \in DOMAIN w.bins
  BY <1>1, <1>13, <1>14
<1>16. \A i \in Nat : ActsAt(w, i) = ActsAt(t, i) \cup
                             (IF i \in first + 1 .. last + 1 THEN {act} ELSE {})
  <2> HIDE DEF n
  <2> QED
    BY <1>13, <1>14
<1> QED
  BY <1>2, <1>15, <1>16 DEF w

\* The arena of a table grows, and nothing else of the table changes.
LEMMA ArenaGrown ==
  ASSUME NEW t, TableOK(t), NEW a, ArenaOK(a), FreeIsEmpty(a), t.arena.live \subseteq a.live,
         Pages(t.arena.nodes) \subseteq Pages(a.nodes), AllPages(t.arena) \subseteq AllPages(a)
  PROVE  LET u == [t EXCEPT !.arena = a] IN
         /\ TableOK(u) /\ Grown(t, u)
         /\ u.arena = a /\ u.periods = t.periods /\ u.bins = t.bins
<1> DEFINE u == [t EXCEPT !.arena = a]
<1>1. t \in Tables /\ t.bins \in Seq(Bins) /\ t.periods \in Seq(ArenaBlocks) /\ a \in Arenas
  BY DEF TableOK, Tables, ArenaOK
<1>2. /\ u = [arena |-> a, periods |-> t.periods, bins |-> t.bins]
      /\ u.arena = a /\ u.periods = t.periods /\ u.bins = t.bins
  BY <1>1 DEF Tables
<1> HIDE DEF u
<1>3. u \in Tables
  BY <1>1, <1>2 DEF Tables
<1>4. BlocksLive(u)
  BY <1>2 DEF TableOK, BlocksLive
<1>5. TableOK(u)
  BY <1>2, <1>3, <1>4 DEF TableOK
<1>6. Len(t.bins) \in Nat /\ Len(t.periods) \in Nat
  BY <1>1
<1>7. Grown(t, u)
  BY <1>2, <1>6 DEF Grown
<1> QED
  BY <1>2, <1>5, <1>7 DEF u

Opened == [span : Spans, start : 0 .. MaxTime]

Values == Opened \cup {NoActivation}

\* Nothing is in a stack that was just made, and an activation fits it.
LEMMA EmptyIsStack ==
  /\ IsStack(EmptyStack, Values) /\ Contents(EmptyStack) = <<>>
  /\ EmptyStack.count = 0 /\ EmptyStack.block = NoBlock /\ ~Full(EmptyStack)
<1>1. /\ EmptyStack.count = 0 /\ EmptyStack.capacity = kMaxActivations
      /\ EmptyStack.block = NoBlock
      /\ EmptyStack \in [count : Nat, capacity : Nat, block : BlocksOrNone,
                         activations : [1 .. kMaxActivations -> Values], extra : Seq(Values)]
  BY StackAssumption DEF EmptyStack, Values, BlocksOrNone
<1>2. IsStack(EmptyStack, Values)
  BY <1>1, StackAssumption DEF IsStack
<1>3. Contents(EmptyStack) \in Seq(Values) /\ Len(Contents(EmptyStack)) = 0
  BY <1>1, <1>2, StackEntries
<1>4. Contents(EmptyStack) = <<>>
  BY <1>3, EmptySeq
<1>5. ~Full(EmptyStack)
  BY <1>1, StackAssumption DEF Full
<1> QED
  BY <1>1, <1>2, <1>4, <1>5

\* A push appends, or finds a full stack and no memory; the table keeps all it has,
\* and what the stack has in the arena is a block of this profile.
LEMMA Pushed ==
  ASSUME NEW t, TableOK(t), NEW stack, IsStack(stack, Values),
         stack.block # NoBlock => stack.block \in t.arena.live, NEW act \in Opened
  PROVE  LET r == Push(stack, act, t.arena)
             u == [t EXCEPT !.arena = r.arena]
         IN /\ TableOK(u) /\ Grown(t, u) /\ u.periods = t.periods /\ u.bins = t.bins
            /\ \/ r.stack = stack /\ Full(stack)
               \/ /\ IsStack(r.stack, Values) /\ r.stack.count = stack.count + 1
                  /\ Contents(r.stack) = Append(Contents(stack), act)
            /\ r.stack.block # NoBlock => r.stack.block \in u.arena.live
<1> DEFINE larger == LargerCapacity(stack)
           alloc == PagedArenaAlloc(t.arena, larger)
           r == Push(stack, act, t.arena)
           moved == Moved(stack, larger, alloc.block)
<1>1. larger \in Nat
  <2>1. stack.capacity \in Nat
    BY DEF IsStack
  <2>2. SpillFactor * kMaxActivations \in Nat /\ (stack.capacity * 3) \div 2 \in Nat
    BY <2>1, StackAssumption
  <2> QED
    BY <2>2 DEF LargerCapacity
<1>2. /\ ArenaOK(alloc.arena) /\ FreeIsEmpty(alloc.arena)
      /\ t.arena.live \subseteq alloc.arena.live
      /\ Pages(t.arena.nodes) \subseteq Pages(alloc.arena.nodes)
      /\ AllPages(t.arena) \subseteq AllPages(alloc.arena)
      /\ alloc.block = NoBlock \/ (alloc.block \in alloc.arena.live /\ alloc.block \in ArenaBlocks)
  <2>1. ArenaOK(t.arena) /\ FreeIsEmpty(t.arena)
    BY DEF TableOK
  <2> HIDE DEF larger
  <2> QED
    BY <1>1, <2>1, AllocKeeps
<1>3. /\ r.arena = t.arena \/ r.arena = alloc.arena
      /\ r.stack = stack => Full(stack) \/ r.stack.count = stack.count + 1
  BY DEF Push, Put, IsStack
<1>4. /\ ArenaOK(r.arena) /\ FreeIsEmpty(r.arena)
      /\ t.arena.live \subseteq r.arena.live
      /\ Pages(t.arena.nodes) \subseteq Pages(r.arena.nodes)
      /\ AllPages(t.arena) \subseteq AllPages(r.arena)
  BY <1>2, <1>3 DEF TableOK
<1>5. alloc.block \in BlocksOrNone
  BY <1>2 DEF BlocksOrNone, ArenaBlocks
<1>6. \/ r.stack = stack
      \/ IsStack(r.stack, Values) /\ Contents(r.stack) = Append(Contents(stack), act)
  <2>1. NoActivation \in Values /\ act \in Values
    BY DEF Values
  <2> QED
    BY <1>5, <2>1, PushAppends
<1>7. /\ \/ Full(stack) /\ alloc.block = NoBlock /\ r.stack = stack
         \/ r.stack.count = stack.count + 1
      /\ \/ r.stack.block = stack.block /\ r.arena = t.arena
         \/ r.stack.block = stack.block /\ r.arena = alloc.arena /\ alloc.block = NoBlock
         \/ r.stack.block = alloc.block /\ r.arena = alloc.arena
  <2>1. CASE ~Full(stack)
    <3>1. r = [stack |-> Put(stack, act), arena |-> t.arena]
      BY <2>1 DEF Push
    <3>2. Put(stack, act).count = stack.count + 1 /\ Put(stack, act).block = stack.block
      BY DEF Put, IsStack
    <3> QED
      BY <3>1, <3>2
  <2>2. CASE Full(stack) /\ alloc.block = NoBlock
    <3>1. r = [stack |-> stack, arena |-> alloc.arena]
      BY <2>2 DEF Push
    <3> QED
      BY <2>2, <3>1
  <2>3. CASE Full(stack) /\ alloc.block # NoBlock
    <3>1. r = [stack |-> Put(moved, act), arena |-> alloc.arena]
      BY <2>3 DEF Push
    <3>2. /\ moved.count = stack.count /\ moved.block = alloc.block
          /\ DOMAIN moved = {"count", "capacity", "block", "activations", "extra"}
      BY DEF Moved, IsStack
    <3> HIDE DEF moved
    <3>3. Put(moved, act).count = stack.count + 1 /\ Put(moved, act).block = alloc.block
      BY <2>3, <3>2 DEF Put
    <3> QED
      BY <3>1, <3>3
  <2> QED
    BY <2>1, <2>2, <2>3
<1> DEFINE u == [t EXCEPT !.arena = r.arena]
<1> HIDE DEF r
<1>8. TableOK(u) /\ Grown(t, u) /\ u.arena = r.arena /\ u.periods = t.periods /\ u.bins = t.bins
  BY <1>4, ArenaGrown
<1>9. r.stack.block # NoBlock => r.stack.block \in r.arena.live
  BY <1>2, <1>4, <1>7
<1>10. stack.count \in Nat
  BY DEF IsStack
<1>11. r.stack.count = stack.count + 1 => r.stack # stack
  BY <1>10
<1> QED
  BY <1>6, <1>7, <1>8, <1>9, <1>11 DEF r

\* A reset leaves a period and no activation, and keeps the pages in use.
LEMMA TableReset ==
  ASSUME NEW a, ArenaOK(a)
  PROVE  LET u == ResetTable(a) IN
         /\ TableOK(u) /\ u.periods # <<>>
         /\ \A i \in Nat : ActsAt(u, i) = {}
         /\ Pages(a.nodes) \subseteq AllPages(u.arena)
<1> DEFINE new == PagedArenaReset(a)
           t == [arena |-> new, periods |-> <<>>, bins |-> <<>>]
           u == NewActivationPeriod(t)
<1>1. ArenaOK(new) /\ FreeIsEmpty(new) /\ Pages(a.nodes) \subseteq AllPages(new)
  BY ResetKeeps
<1> HIDE DEF new
<1>2. /\ t.arena = new /\ t.periods = <<>> /\ t.bins = <<>>
      /\ Len(t.periods) = 0 /\ Len(t.bins) = 0 /\ DOMAIN t.bins = {} /\ DOMAIN t.periods = {}
  OBVIOUS
<1>3. t \in Tables
  BY <1>1 DEF Tables, ArenaOK
<1>4. TableOK(t)
  <2>1. kBinsPerActivationPeriod * 0 = 0
    BY BinAssumption
  <2>2. BlocksLive(t)
    BY <1>2 DEF BlocksLive
  <2> QED
    BY <1>1, <1>2, <1>3, <2>1, <2>2 DEF TableOK
<1> HIDE DEF t
<1>5. /\ TableOK(u) /\ Grown(t, u) /\ Len(u.periods) = Len(t.periods) + 1
  BY <1>4, PeriodMade
<1>6. \A i \in Nat : ActsAt(u, i) = ActsAt(t, i)
  BY <1>4, PeriodMade
<1>7. \A i \in Nat : ActsAt(t, i) = {}
  BY <1>2 DEF ActsAt
<1>8. u.periods # <<>>
  <2>1. Len(u.periods) = 1
    BY <1>2, <1>5
  <2>2. Len(<<>>) = 0
    OBVIOUS
  <2> QED
    BY <2>1, <2>2
<1>9. Pages(a.nodes) \subseteq AllPages(u.arena)
  BY <1>1, <1>2, <1>5 DEF Grown
<1> QED
  BY <1>5, <1>6, <1>7, <1>8, <1>9 DEF ResetTable, t, new

(***************************************************************************)
(* The inductive invariant.                                                *)
(***************************************************************************)

Entered == [context : Contexts, start : 0 .. MaxTime]

Plain ==
  /\ running \in BOOLEAN /\ onlyFiltered \in BOOLEAN /\ filter \subseteq Traces
  /\ startTime \in 0 .. MaxTime /\ clock \in startTime .. MaxTime
  /\ running => cutoff \in startTime .. clock
  /\ contexts \in Seq(Entered)

TableSound == TableOK(table) /\ table.periods # <<>>

\* A stack of activations opened in a time, that is not empty.
StackOK(stack, live, from, to) ==
  /\ IsStack(stack, Values) /\ stack.count > 0
  /\ Contents(stack) \in Seq(Opened)
  /\ stack.block # NoBlock => stack.block \in live
  /\ \A i \in DOMAIN Contents(stack) : Contents(stack)[i].start \in from .. to

StacksSound ==
  /\ DOMAIN stacks \subseteq Hashes
  /\ \A h \in DOMAIN stacks : StackOK(stacks[h], table.arena.live, startTime, clock)

\* A profiler that does not run has nothing: it may be started without a reset.
IdleIsEmpty == ~running => DOMAIN stacks = {} /\ \A i \in Nat : ActsAt(table, i) = {}

\* An activation that ended is in every bin it overlaps.
Covered ==
  \A i \in Nat : \A a \in ActsAt(table, i) :
    /\ startTime <= a.start /\ a.start <= a.end /\ a.end <= clock
    /\ \A j \in Nat : j \in ActivationBinIndex(a.start) .. ActivationBinIndex(a.end)
                        => a \in ActsAt(table, j + 1)

\* The contexts that opened the activations of a hash, in order: p.
Opens(h, list, entered, p) ==
  /\ \A i, j \in DOMAIN list : i < j => p[i] < p[j]
  /\ \A i \in DOMAIN list :
       /\ HashOf[entered[p[i]].context] = h
       /\ SpanOf[entered[p[i]].context] = list[i].span
       /\ entered[p[i]].start <= list[i].start

HasOpeners(h, list, entered) ==
  \E p \in [DOMAIN list -> DOMAIN entered] : Opens(h, list, entered, p)

Witnessed ==
  \A h \in DOMAIN stacks : HasOpeners(h, Contents(stacks[h]), contexts)

IInv ==
  /\ Plain /\ TableSound /\ StacksSound /\ IdleIsEmpty /\ Covered /\ Witnessed

\* The times of a profile have bins, and later times no earlier ones.
LEMMA BinsOfTimes ==
  ASSUME Plain
  PROVE  \A ts \in startTime .. MaxTime :
           /\ ActivationBinIndex(ts) \in Nat
           /\ \A us \in startTime .. MaxTime :
                ts <= us => ActivationBinIndex(ts) <= ActivationBinIndex(us)
<1> DEFINE k == kActivationBinWidth
<1>1. k \in Nat \ {0} /\ startTime \in Nat /\ MaxTime \in Nat
  BY BinAssumption, BoundAssumption DEF Plain
<1>2. \A ts \in startTime .. MaxTime : ts - startTime \in Nat
  BY <1>1
<1>3. \A b \in Nat : b \div k \in Nat /\ \A c \in Nat : b <= c => b \div k <= c \div k
  BY <1>1, DivUp
<1> HIDE DEF k
<1>4. \A ts \in startTime .. MaxTime : ActivationBinIndex(ts) = (ts - startTime) \div k
  BY DEF ActivationBinIndex, k
<1> SUFFICES ASSUME NEW ts \in startTime .. MaxTime
             PROVE  /\ ActivationBinIndex(ts) \in Nat
                    /\ \A us \in startTime .. MaxTime :
                         ts <= us => ActivationBinIndex(ts) <= ActivationBinIndex(us)
  OBVIOUS
<1> DEFINE b == ts - startTime
<1>5. b \in Nat /\ b \div k \in Nat
  BY <1>2, <1>3
<1>6. ASSUME NEW us \in startTime .. MaxTime, ts <= us
      PROVE  ActivationBinIndex(ts) <= ActivationBinIndex(us)
  <2> DEFINE c == us - startTime
  <2>1. c \in Nat /\ b <= c
    BY <1>1, <1>2, <1>6
  <2> HIDE DEF b, c
  <2>2. b \div k <= c \div k
    BY <1>3, <1>5, <2>1
  <2> QED
    BY <1>4, <2>2 DEF b, c
<1> QED
  BY <1>4, <1>5, <1>6

\* Whatever table is reset, nothing of a profile is left.
LEMMA ResetLeavesNothing ==
  ASSUME NEW t, TableOK(t), ProfilingReset(t)
  PROVE  TableSound' /\ StacksSound' /\ IdleIsEmpty' /\ Covered' /\ Witnessed'
<1>1. /\ TableOK(table') /\ table'.periods # <<>>
      /\ \A i \in Nat : ActsAt(table', i) = {}
  BY TableReset DEF ProfilingReset, TableOK
<1>2. DOMAIN stacks' = {}
  BY DEF ProfilingReset, NoStacks
<1>3. TableSound'
  BY <1>1 DEF TableSound
<1>4. StacksSound'
  BY <1>2 DEF StacksSound
<1>5. IdleIsEmpty'
  BY <1>1, <1>2 DEF IdleIsEmpty
<1>6. Covered'
  BY <1>1 DEF Covered
<1>7. Witnessed'
  BY <1>2 DEF Witnessed
<1> QED
  BY <1>3, <1>4, <1>5, <1>6, <1>7

\* A new profiler (NewProfiling) satisfies the invariant.
LEMMA InitHolds ==
  ASSUME Init PROVE IInv
<1>1. ArenaOK(NewArena)
  BY ResetStaysApart
<1>2. /\ TableOK(table) /\ table.periods # <<>>
      /\ \A i \in Nat : ActsAt(table, i) = {}
  BY <1>1, TableReset DEF Init
<1>3. DOMAIN stacks = {}
  BY DEF Init
<1>4. Plain
  <2>1. contexts \in Seq(Entered)
    BY DEF Init
  <2>2. running \in BOOLEAN /\ onlyFiltered \in BOOLEAN /\ filter \subseteq Traces
    BY DEF Init
  <2>3. startTime \in 0 .. MaxTime /\ clock \in startTime .. MaxTime /\ ~running
    BY BoundAssumption DEF Init
  <2> QED
    BY <2>1, <2>2, <2>3 DEF Plain
<1>5. TableSound /\ Covered
  BY <1>2 DEF TableSound, Covered
<1>6. StacksSound /\ Witnessed
  BY <1>3 DEF StacksSound, Witnessed
<1>7. IdleIsEmpty
  BY <1>2, <1>3 DEF IdleIsEmpty
<1> QED
  BY <1>4, <1>5, <1>6, <1>7 DEF IInv

\* The samples of the last profile are looked up in what periods there are then.
LEMMA LookedUpIsOK ==
  ASSUME Plain, TableSound, NEW last \in startTime .. clock
  PROVE  TableOK(LookedUp(last)) /\ Grown(table, LookedUp(last))
<1>1. last \in startTime .. MaxTime
  BY BoundAssumption DEF Plain
<1>2. ActivationBinIndex(last) \in Nat
  BY <1>1, BinsOfTimes
<1> QED
  BY <1>2, Reached DEF LookedUp, TableSound

\* Starting (StartProfiling, StartCpuProfiler) keeps the invariant, with a reset or
\* without: nothing was recorded while it was stopped.
LEMMA StartKeeps ==
  ASSUME IInv, NEW resets \in BOOLEAN, Start(resets)
  PROVE  IInv'
<1>1. Plain'
  BY BoundAssumption DEF IInv, Plain, Start, ProfileBegins
<1>2. CASE resets
  <2>1. ProfilingReset(table)
    BY <1>2 DEF Start
  <2>2. TableOK(table)
    BY DEF IInv, TableSound
  <2> QED
    BY <1>1, <2>1, <2>2, ResetLeavesNothing DEF IInv
<1>3. CASE ~resets
  <2>1. table' = table /\ stacks' = stacks /\ ~running
    BY <1>3 DEF Start
  <2>2. DOMAIN stacks' = {} /\ \A i \in Nat : ActsAt(table', i) = {}
    BY <2>1 DEF IInv, IdleIsEmpty
  <2>3. TableSound'
    BY <2>1 DEF IInv, TableSound
  <2>4. StacksSound' /\ Witnessed'
    BY <2>2 DEF StacksSound, Witnessed
  <2>5. IdleIsEmpty' /\ Covered'
    BY <2>2 DEF IdleIsEmpty, Covered
  <2> QED
    BY <1>1, <2>3, <2>4, <2>5 DEF IInv
<1> QED
  BY <1>2, <1>3

\* Collecting (CollectProfilingData) keeps the invariant: all that the start time
\* moves away from is forgotten.
LEMMA CollectKeeps ==
  ASSUME IInv, CollectProfilingData
  PROVE  IInv'
<1>1. Plain'
  BY BoundAssumption DEF IInv, Plain, CollectProfilingData, ProfileBegins
<1>2. PICK last \in startTime .. clock : ProfilingReset(LookedUp(last))
  BY DEF CollectProfilingData
<1>3. TableOK(LookedUp(last))
  BY LookedUpIsOK DEF IInv
<1> QED
  BY <1>1, <1>2, <1>3, ResetLeavesNothing DEF IInv

\* Stopping (StopProfiling) keeps the invariant.
LEMMA StopKeeps ==
  ASSUME IInv, StopProfiling
  PROVE  IInv'
<1>1. Plain'
  BY DEF IInv, Plain, StopProfiling
<1>2. PICK last \in startTime .. clock : ProfilingReset(LookedUp(last))
  BY DEF StopProfiling
<1>3. TableOK(LookedUp(last))
  BY LookedUpIsOK DEF IInv
<1> QED
  BY <1>1, <1>2, <1>3, ResetLeavesNothing DEF IInv

\* Asking again for a stopped profiler (GetOrCreateCpuProfiler) keeps the invariant.
LEMMA GetOrCreateKeeps ==
  ASSUME IInv, GetOrCreateCpuProfiler
  PROVE  IInv'
<1>1. Plain'
  BY DEF IInv, Plain, GetOrCreateCpuProfiler
<1>2. ProfilingReset(table) /\ TableOK(table)
  BY DEF GetOrCreateCpuProfiler, IInv, TableSound
<1> QED
  BY <1>1, <1>2, ResetLeavesNothing DEF IInv

\* A change of the filter changes nothing that was admitted.
LEMMA UnchangedKeeps ==
  ASSUME IInv, UNCHANGED <<running, onlyFiltered, stacks, table, startTime, cutoff, clock, contexts>>,
         filter' \subseteq Traces
  PROVE  IInv'
<1>1. Plain'
  BY DEF IInv, Plain
<1>2. TableSound' /\ IdleIsEmpty'
  BY DEF IInv, TableSound, IdleIsEmpty
<1>3. StacksSound'
  BY DEF IInv, StacksSound
<1>4. Covered'
  BY DEF IInv, Covered, ActivationBinIndex
<1>5. Witnessed'
  BY DEF IInv, Witnessed
<1> QED
  BY <1>1, <1>2, <1>3, <1>4, <1>5 DEF IInv

\* A stack of this profile stays one while the arena and the clock only grow.
LEMMA StackStaysOK ==
  ASSUME NEW stack, NEW live, NEW more, live \subseteq more,
         NEW from \in Nat, NEW to \in Nat, NEW later \in Nat, to <= later,
         StackOK(stack, live, from, to)
  PROVE  StackOK(stack, more, from, later)
<1>1. \A x \in from .. to : x \in from .. later
  OBVIOUS
<1> QED
  BY <1>1 DEF StackOK

\* The clock has moved, and nothing that the clock is not told of.
LEMMA TimesGrow ==
  ASSUME Plain, clock' \in Later(clock)
  PROVE  /\ clock \in Nat /\ clock' \in Nat /\ clock <= clock' /\ startTime \in Nat
         /\ clock' \in startTime .. MaxTime /\ clock' \in 0 .. MaxTime /\ startTime <= clock
BY BoundAssumption DEF Plain, Later

\* A bin has ended activations.
LEMMA ActsTyped ==
  ASSUME NEW t, TableOK(t), NEW i \in Nat
  PROVE  ActsAt(t, i) \subseteq Ended
<1>1. t.bins \in Seq(Bins)
  BY DEF TableOK, Tables
<1>2. ASSUME i \in DOMAIN t.bins PROVE Pages(t.bins[i].activations) \subseteq Ended
  <2>1. t.bins[i] \in Bins
    BY <1>1, <1>2
  <2>2. t.bins[i].activations \in Seq(Ended)
    BY <2>1 DEF Bins
  <2> QED
    BY <2>2 DEF Pages
<1> QED
  BY <1>2 DEF ActsAt

\* While the clock moves and nothing ends, every activation stays in the bins of its time.
LEMMA CoveredStays ==
  ASSUME Plain, TableOK(table), Covered, clock' \in Later(clock), startTime' = startTime,
         \A i \in Nat : ActsAt(table', i) = ActsAt(table, i)
  PROVE  Covered'
<1>1. clock \in Nat /\ clock' \in Nat /\ clock <= clock'
  BY TimesGrow
<1> SUFFICES ASSUME NEW i \in Nat, NEW a \in ActsAt(table', i)
             PROVE  /\ startTime <= a.start /\ a.start <= a.end /\ a.end <= clock'
                    /\ \A j \in Nat : j \in ActivationBinIndex(a.start) .. ActivationBinIndex(a.end)
                                        => a \in ActsAt(table', j + 1)
  BY DEF Covered, ActivationBinIndex
<1>2. a \in ActsAt(table, i)
  OBVIOUS
<1>3. a.end \in Nat
  BY <1>2, ActsTyped, BoundAssumption DEF Ended
<1>4. /\ startTime <= a.start /\ a.start <= a.end /\ a.end <= clock
      /\ \A j \in Nat : j \in ActivationBinIndex(a.start) .. ActivationBinIndex(a.end)
                          => a \in ActsAt(table, j + 1)
  BY <1>2 DEF Covered
<1> QED
  BY <1>1, <1>3, <1>4

\* A context that is entered is on top of the others, which stay.
LEMMA EnteredContexts ==
  ASSUME NEW list \in Seq(Entered), NEW x \in Entered
  PROVE  LET after == Append(list, x) IN
         /\ after \in Seq(Entered) /\ DOMAIN list \subseteq DOMAIN after
         /\ \A i \in DOMAIN list : after[i] = list[i] /\ i < Len(list) + 1 /\ i \in Nat
         /\ Len(list) + 1 \in DOMAIN after /\ after[Len(list) + 1] = x
         /\ Len(list) \in Nat
OBVIOUS

\* What was opened by contexts that stay.
LEMMA OpenersStay ==
  ASSUME NEW h, NEW list, NEW entered, NEW after, HasOpeners(h, list, entered),
         DOMAIN entered \subseteq DOMAIN after, \A i \in DOMAIN entered : after[i] = entered[i]
  PROVE  HasOpeners(h, list, after)
<1>1. PICK p \in [DOMAIN list -> DOMAIN entered] : Opens(h, list, entered, p)
  BY DEF HasOpeners
<1>2. p \in [DOMAIN list -> DOMAIN after]
  OBVIOUS
<1>3. Opens(h, list, after, p)
  BY <1>1 DEF Opens
<1> QED
  BY <1>2, <1>3 DEF HasOpeners

\* The context that is entered opens the activation that is pushed.
LEMMA OpenersPushed ==
  ASSUME NEW h, NEW list \in Seq(Opened), NEW entered \in Seq(Entered),
         HasOpeners(h, list, entered), NEW c \in Contexts, HashOf[c] = h,
         NEW act \in Opened, act.span = SpanOf[c]
  PROVE  HasOpeners(h, Append(list, act), Append(entered, [context |-> c, start |-> act.start]))
<1> DEFINE x == [context |-> c, start |-> act.start]
           after == Append(entered, x)
           more == Append(list, act)
           n == Len(list)
           m == Len(entered)
<1>1. PICK p \in [DOMAIN list -> DOMAIN entered] : Opens(h, list, entered, p)
  BY DEF HasOpeners
<1>2. act.start \in 0 .. MaxTime /\ x \in Entered /\ x.context = c /\ x.start = act.start
  BY DEF Opened, Entered
<1>3. /\ DOMAIN entered \subseteq DOMAIN after /\ m \in Nat
      /\ \A i \in DOMAIN entered : after[i] = entered[i] /\ i < m + 1 /\ i \in Nat
      /\ m + 1 \in DOMAIN after /\ after[m + 1] = x
  BY <1>2, EnteredContexts
<1>4. /\ n \in Nat /\ DOMAIN list = 1 .. n /\ DOMAIN more = 1 .. n + 1
      /\ \A i \in 1 .. n : more[i] = list[i]
      /\ more[n + 1] = act
  OBVIOUS
<1> DEFINE q == [i \in DOMAIN more |-> IF i = n + 1 THEN m + 1 ELSE p[i]]
<1> HIDE DEF x, after, more, n, m
<1>5. \A i \in DOMAIN more : i = n + 1 \/ (i \in DOMAIN list /\ i # n + 1)
  BY <1>4
<1>6. q \in [DOMAIN more -> DOMAIN after]
  BY <1>3, <1>5
<1>7. ASSUME NEW i \in DOMAIN more, NEW j \in DOMAIN more, i < j PROVE q[i] < q[j]
  <2>1. i \in DOMAIN list /\ i # n + 1
    BY <1>4, <1>7
  <2>2. q[i] = p[i] /\ p[i] \in DOMAIN entered
    BY <2>1
  <2>3. CASE j = n + 1
    BY <1>3, <2>2, <2>3
  <2>4. CASE j # n + 1
    <3>1. j \in DOMAIN list /\ q[j] = p[j]
      BY <1>5, <2>4
    <3> QED
      BY <1>1, <1>7, <2>1, <2>2, <3>1 DEF Opens
  <2> QED
    BY <2>3, <2>4
<1>8. ASSUME NEW i \in DOMAIN more
      PROVE  /\ HashOf[after[q[i]].context] = h
             /\ SpanOf[after[q[i]].context] = more[i].span
             /\ after[q[i]].start <= more[i].start
  <2>1. CASE i = n + 1
    BY <1>2, <1>3, <1>4, <2>1, BoundAssumption
  <2>2. CASE i # n + 1
    <3>1. i \in DOMAIN list /\ q[i] = p[i] /\ more[i] = list[i] /\ p[i] \in DOMAIN entered
      BY <1>4, <1>5, <2>2
    <3> QED
      BY <1>1, <1>3, <3>1 DEF Opens
  <2> QED
    BY <2>1, <2>2
<1> HIDE DEF q
<1>9. Opens(h, more, after, q)
  BY <1>7, <1>8 DEF Opens
<1> QED
  BY <1>6, <1>9 DEF HasOpeners, after, more, x

\* What the stack of any hash is, also of one that has none.
LEMMA StackFound ==
  ASSUME StacksSound, Plain, NEW h \in Hashes
  PROVE  LET stack == StackOf(h) IN
         /\ IsStack(stack, Values) /\ Contents(stack) \in Seq(Opened)
         /\ stack.block # NoBlock => stack.block \in table.arena.live
         /\ \A i \in DOMAIN Contents(stack) : Contents(stack)[i].start \in startTime .. clock
         /\ Full(stack) => h \in DOMAIN stacks
         /\ stack.count \in Nat
<1> DEFINE stack == StackOf(h)
<1>1. CASE h \in DOMAIN stacks
  <2>1. stack = stacks[h] /\ StackOK(stacks[h], table.arena.live, startTime, clock)
    BY <1>1 DEF StackOf, StacksSound
  <2> QED
    BY <1>1, <2>1 DEF StackOK, IsStack
<1>2. CASE h \notin DOMAIN stacks
  <2>1. stack = EmptyStack
    BY <1>2 DEF StackOf
  <2>2. Contents(stack) = <<>> /\ DOMAIN Contents(stack) = {}
    BY <2>1, EmptyIsStack
  <2> QED
    BY <2>1, <2>2, EmptyIsStack
<1> QED
  BY <1>1, <1>2

\* What entering a context that the profiler is told of does: a push on the stack of
\* its hash, which may find no memory.
LEMMA EnterPushes ==
  ASSUME IInv, NEW c \in Contexts, EnterContext(c), HasSpan(c), running, Admits(TraceOf[SpanOf[c]])
  PROVE  LET h == HashOf[c]
             act == [span |-> SpanOf[c], start |-> clock']
             stack == StackOf(h)
             new == stacks'[h]
         IN /\ act \in Opened /\ h \in Hashes
            /\ TableOK(table') /\ Grown(table, table')
            /\ table'.periods = table.periods /\ table'.bins = table.bins
            /\ DOMAIN stacks' = DOMAIN stacks \cup {h}
            /\ \A g \in DOMAIN stacks : g # h => stacks'[g] = stacks[g]
            /\ \/ new = stack /\ Full(stack)
               \/ /\ IsStack(new, Values) /\ new.count = stack.count + 1
                  /\ Contents(new) = Append(Contents(stack), act)
            /\ new.block # NoBlock => new.block \in table'.arena.live
<1> DEFINE h == HashOf[c]
           act == [span |-> SpanOf[c], start |-> clock']
           stack == StackOf(h)
           r == Push(stack, act, table.arena)
<1>1. Plain /\ TableOK(table) /\ StacksSound
  BY DEF IInv, TableSound
<1>2. clock' \in 0 .. MaxTime
  BY <1>1, TimesGrow DEF EnterContext
<1>3. act \in Opened
  BY <1>2, ContextAssumption DEF Opened, Spans, HasSpan
<1>4. h \in Hashes
  BY DEF Hashes
<1>5. IsStack(stack, Values) /\ (stack.block # NoBlock => stack.block \in table.arena.live)
  BY <1>1, <1>4, StackFound
<1>6. stacks' = WithStack(h, r.stack) /\ table' = [table EXCEPT !.arena = r.arena]
  BY DEF EnterContext
<1> HIDE DEF act, stack, h
<1> DEFINE u == [table EXCEPT !.arena = r.arena]
<1>7. /\ TableOK(u) /\ Grown(table, u) /\ u.periods = table.periods /\ u.bins = table.bins
      /\ \/ r.stack = stack /\ Full(stack)
         \/ /\ IsStack(r.stack, Values) /\ r.stack.count = stack.count + 1
            /\ Contents(r.stack) = Append(Contents(stack), act)
      /\ r.stack.block # NoBlock => r.stack.block \in u.arena.live
  BY <1>1, <1>3, <1>5, Pushed
<1> HIDE DEF u
<1>8. table' = u
  BY <1>6 DEF u
<1> HIDE DEF r
<1>9. /\ DOMAIN stacks' = DOMAIN stacks \cup {h} /\ stacks'[h] = r.stack
      /\ \A g \in DOMAIN stacks : g # h => stacks'[g] = stacks[g]
  BY <1>6 DEF WithStack
<1> QED
  BY <1>3, <1>4, <1>7, <1>8, <1>9 DEF act, h, stack

\* Entering a context (EnterContext) keeps the invariant, whether the profiler is told or not.
LEMMA EnterKeeps ==
  ASSUME IInv, NEW c \in Contexts, EnterContext(c)
  PROVE  IInv'
<1> DEFINE h == HashOf[c]
           x == [context |-> c, start |-> clock']
           tells == HasSpan(c) /\ running /\ Admits(TraceOf[SpanOf[c]])
<1>1. /\ Plain /\ TableOK(table) /\ table.periods # <<>> /\ StacksSound /\ IdleIsEmpty
      /\ Covered /\ Witnessed
  BY DEF IInv, TableSound
<1>2. /\ clock' \in Later(clock) /\ contexts' = Append(contexts, x)
      /\ running' = running /\ onlyFiltered' = onlyFiltered /\ filter' = filter
      /\ startTime' = startTime /\ cutoff' = cutoff
  BY DEF EnterContext, Stacked
<1>3. /\ clock \in Nat /\ clock' \in Nat /\ clock <= clock' /\ startTime \in Nat
      /\ clock' \in startTime .. MaxTime /\ clock' \in 0 .. MaxTime /\ startTime <= clock
  BY <1>1, <1>2, TimesGrow
<1>4. contexts \in Seq(Entered) /\ x \in Entered
  BY <1>1, <1>3 DEF Plain, Entered
<1>5. /\ contexts' \in Seq(Entered) /\ DOMAIN contexts \subseteq DOMAIN contexts'
      /\ \A i \in DOMAIN contexts : contexts'[i] = contexts[i]
  BY <1>2, <1>4, EnteredContexts
<1>6. Plain'
  BY <1>1, <1>2, <1>3, <1>5 DEF Plain
<1>7. CASE ~tells
  <2>1. stacks' = stacks /\ table' = table
    BY <1>7 DEF EnterContext
  <2>2. TableSound' /\ IdleIsEmpty'
    BY <1>1, <1>2, <2>1 DEF TableSound, IdleIsEmpty
  <2>3. StacksSound'
    BY <1>1, <1>2, <1>3, <2>1, StackStaysOK DEF StacksSound
  <2>4. Covered'
    BY <1>1, <1>2, <2>1, CoveredStays
  <2>5. Witnessed'
    BY <1>1, <1>5, <2>1, OpenersStay DEF Witnessed
  <2> QED
    BY <1>6, <2>2, <2>3, <2>4, <2>5 DEF IInv
<1>8. CASE tells
  <2> DEFINE act == [span |-> SpanOf[c], start |-> clock']
             stack == StackOf(h)
             new == stacks'[h]
  <2>1. act \in Opened /\ act.span = SpanOf[c] /\ act.start = clock' /\ h \in Hashes
    BY <1>8, EnterPushes
  <2>2. HasSpan(c) /\ running /\ Admits(TraceOf[SpanOf[c]])
    BY <1>8
  <2>3. /\ Contents(stack) \in Seq(Opened)
        /\ \A i \in DOMAIN Contents(stack) : Contents(stack)[i].start \in startTime .. clock
        /\ Full(stack) => h \in DOMAIN stacks
        /\ stack.count \in Nat
    BY <1>1, <2>1, StackFound
  <2>4. /\ TableOK(table') /\ Grown(table, table')
        /\ table'.periods = table.periods /\ table'.bins = table.bins
    BY <2>2, EnterPushes
  <2>5. /\ DOMAIN stacks' = DOMAIN stacks \cup {h}
        /\ \A g \in DOMAIN stacks : g # h => stacks'[g] = stacks[g]
    BY <2>2, EnterPushes
  <2>6. \/ new = stack /\ Full(stack)
        \/ /\ IsStack(new, Values) /\ new.count = stack.count + 1
           /\ Contents(new) = Append(Contents(stack), act)
    BY <2>2, EnterPushes
  <2>7. new.block # NoBlock => new.block \in table'.arena.live
    BY <2>2, EnterPushes
  <2>8. stacks'[h] = new
    OBVIOUS
  <2> HIDE DEF act, stack, h, new, tells
  <2>9. \A i \in Nat : ActsAt(table', i) = ActsAt(table, i)
    BY <2>4 DEF ActsAt
  <2>10. table.arena.live \subseteq table'.arena.live
    BY <2>4 DEF Grown
  <2>11. TableSound' /\ IdleIsEmpty'
    BY <1>1, <1>2, <2>2, <2>4 DEF TableSound, IdleIsEmpty
  <2>12. Covered'
    BY <1>1, <1>2, <2>9, CoveredStays
  <2>13. ASSUME NEW g \in DOMAIN stacks
         PROVE  StackOK(stacks[g], table'.arena.live, startTime', clock')
    <3>1. StackOK(stacks[g], table.arena.live, startTime, clock)
      BY <1>1 DEF StacksSound
    <3> QED
      BY <1>2, <1>3, <2>10, <3>1, StackStaysOK
  <2>14. StackOK(new, table'.arena.live, startTime', clock')
    <3>1. CASE new = stack /\ Full(stack)
      <4>1. h \in DOMAIN stacks /\ stack = stacks[h]
        BY <2>3, <3>1 DEF StackOf, stack
      <4> QED
        BY <2>13, <3>1, <4>1
    <3>2. CASE /\ IsStack(new, Values) /\ new.count = stack.count + 1
               /\ Contents(new) = Append(Contents(stack), act)
      <4>1. Contents(new) \in Seq(Opened)
        BY <2>1, <2>3, <3>2
      <4>2. ASSUME NEW i \in DOMAIN Contents(new)
            PROVE  Contents(new)[i].start \in startTime .. clock'
        <5>1. \/ Contents(new)[i] = act
              \/ i \in DOMAIN Contents(stack) /\ Contents(new)[i] = Contents(stack)[i]
          BY <2>1, <2>3, <3>2
        <5>2. act.start \in startTime .. clock'
          BY <1>3, <2>1
        <5>3. \A k \in startTime .. clock : k \in startTime .. clock'
          BY <1>3
        <5> QED
          BY <2>3, <5>1, <5>2, <5>3
      <4> QED
        BY <1>2, <2>3, <2>7, <3>2, <4>1, <4>2 DEF StackOK
    <3> QED
      BY <2>6, <3>1, <3>2
  <2>15. StacksSound'
    BY <1>1, <2>1, <2>5, <2>8, <2>13, <2>14 DEF StacksSound
  <2>16. \A g \in DOMAIN stacks : HasOpeners(g, Contents(stacks[g]), contexts')
    BY <1>1, <1>5, OpenersStay DEF Witnessed
  <2>17. HasOpeners(h, Contents(new), contexts')
    <3>1. CASE new = stack /\ Full(stack)
      <4>1. h \in DOMAIN stacks /\ stack = stacks[h]
        BY <2>3, <3>1 DEF StackOf, stack
      <4> QED
        BY <2>16, <3>1, <4>1
    <3>2. CASE Contents(new) = Append(Contents(stack), act)
      <4>1. HasOpeners(h, Contents(stack), contexts)
        <5>1. CASE h \in DOMAIN stacks
          BY <1>1, <5>1 DEF Witnessed, StackOf, stack
        <5>2. CASE h \notin DOMAIN stacks
          <6>1. Contents(stack) = <<>>
            BY <5>2, EmptyIsStack DEF StackOf, stack
          <6> DEFINE p == [i \in {} |-> 1]
          <6>2. p \in [DOMAIN Contents(stack) -> DOMAIN contexts] /\ Opens(h, Contents(stack), contexts, p)
            BY <6>1 DEF Opens
          <6> HIDE DEF p
          <6> QED
            BY <6>2 DEF HasOpeners
        <5> QED
          BY <5>1, <5>2
      <4>2. contexts' = Append(contexts, [context |-> c, start |-> act.start])
        BY <1>2, <2>1
      <4>3. HashOf[c] = h
        BY DEF h
      <4> QED
        BY <1>4, <2>1, <2>3, <3>2, <4>1, <4>2, <4>3, OpenersPushed
    <3> QED
      BY <2>6, <3>1, <3>2
  <2>18. Witnessed'
    BY <2>5, <2>8, <2>16, <2>17 DEF Witnessed
  <2> QED
    BY <1>6, <2>11, <2>12, <2>15, <2>18 DEF IInv
<1> QED
  BY <1>7, <1>8

\* A sequence without its last.
LEMMA ButLast ==
  ASSUME NEW S, NEW list \in Seq(S), Len(list) > 0
  PROVE  LET less == SubSeq(list, 1, Len(list) - 1) IN
         /\ less \in Seq(S) /\ Len(less) = Len(list) - 1 /\ DOMAIN less = 1 .. Len(list) - 1
         /\ DOMAIN list = 1 .. Len(list) /\ Len(list) \in Nat /\ list[Len(list)] \in S
         /\ \A i \in DOMAIN less : less[i] = list[i]
<1> DEFINE n == Len(list)
           less == SubSeq(list, 1, n - 1)
<1>1. n \in Nat /\ n - 1 \in Nat /\ DOMAIN list = 1 .. n /\ \A i \in 1 .. n : list[i] \in S
  OBVIOUS
<1>2. less = [i \in 1 .. n - 1 |-> list[i]]
  BY <1>1
<1>3. less \in Seq(S) /\ Len(less) = n - 1 /\ DOMAIN less = 1 .. n - 1
  BY <1>1, <1>2
<1> QED
  BY <1>1, <1>2, <1>3

\* The innermost context is exited: what it opened, or something it did not open, is
\* taken off its hash, and no other hash has anything it opened.
LEMMA OpenersPopped ==
  ASSUME NEW h, NEW list \in Seq(Opened), Len(list) > 0, NEW entered \in Seq(Entered),
         Len(entered) > 0, HasOpeners(h, list, entered)
  PROVE  /\ HasOpeners(h, SubSeq(list, 1, Len(list) - 1), Front(entered))
         /\ \E i \in DOMAIN entered : /\ SpanOf[entered[i].context] = list[Len(list)].span
                                      /\ entered[i].start <= list[Len(list)].start
<1> DEFINE n == Len(list)
           m == Len(entered)
           less == SubSeq(list, 1, n - 1)
           after == Front(entered)
<1>1. PICK p \in [DOMAIN list -> DOMAIN entered] : Opens(h, list, entered, p)
  BY DEF HasOpeners
<1>2. /\ DOMAIN less = 1 .. n - 1 /\ DOMAIN list = 1 .. n /\ n \in Nat /\ n > 0
      /\ \A i \in DOMAIN less : less[i] = list[i]
  BY ButLast
<1>3. /\ DOMAIN after = 1 .. m - 1 /\ DOMAIN entered = 1 .. m /\ m \in Nat
      /\ \A i \in DOMAIN after : after[i] = entered[i]
  BY ButLast DEF Front
<1> DEFINE q == [i \in DOMAIN less |-> p[i]]
<1> HIDE DEF n, m, less, after
<1>4. \A i \in DOMAIN less : i \in DOMAIN list /\ n \in DOMAIN list /\ i < n
  BY <1>2
<1>5. \A i \in DOMAIN less : p[i] \in DOMAIN after
  <2> TAKE i \in DOMAIN less
  <2>1. p[i] < p[n] /\ p[i] \in DOMAIN entered /\ p[n] \in DOMAIN entered
    BY <1>1, <1>4 DEF Opens
  <2> QED
    BY <1>3, <2>1
<1>6. q \in [DOMAIN less -> DOMAIN after]
  BY <1>5
<1>7. Opens(h, less, after, q)
  <2>1. ASSUME NEW i \in DOMAIN less, NEW j \in DOMAIN less, i < j PROVE q[i] < q[j]
    BY <1>1, <1>4, <2>1 DEF Opens
  <2>2. ASSUME NEW i \in DOMAIN less
        PROVE  /\ HashOf[after[q[i]].context] = h
               /\ SpanOf[after[q[i]].context] = less[i].span
               /\ after[q[i]].start <= less[i].start
    <3>1. less[i] = list[i] /\ i \in DOMAIN list /\ q[i] = p[i] /\ after[p[i]] = entered[p[i]]
      BY <1>2, <1>3, <1>4, <1>5
    <3> QED
      BY <1>1, <3>1 DEF Opens
  <2> HIDE DEF q
  <2> QED
    BY <2>1, <2>2 DEF Opens
<1>8. n \in DOMAIN list
  BY <1>2
<1>9. /\ p[n] \in DOMAIN entered /\ SpanOf[entered[p[n]].context] = list[n].span
      /\ entered[p[n]].start <= list[n].start
  BY <1>1, <1>8 DEF Opens
<1> QED
  BY <1>6, <1>7, <1>9 DEF HasOpeners, less, n, after

\* What other hashes opened was not opened by the context that exits.
LEMMA OpenersOfOthers ==
  ASSUME NEW h, NEW list \in Seq(Opened), NEW entered \in Seq(Entered),
         Len(entered) > 0, HasOpeners(h, list, entered), HashOf[Last(entered).context] # h
  PROVE  HasOpeners(h, list, Front(entered))
<1> DEFINE m == Len(entered)
           after == Front(entered)
<1>1. PICK p \in [DOMAIN list -> DOMAIN entered] : Opens(h, list, entered, p)
  BY DEF HasOpeners
<1>2. /\ DOMAIN after = 1 .. m - 1 /\ DOMAIN entered = 1 .. m /\ m \in Nat
      /\ \A i \in DOMAIN after : after[i] = entered[i]
  BY ButLast DEF Front
<1>3. Last(entered) = entered[m]
  BY DEF Last
<1> HIDE DEF m, after
<1>4. \A i \in DOMAIN list : p[i] \in DOMAIN after
  <2> TAKE i \in DOMAIN list
  <2>1. p[i] \in DOMAIN entered /\ HashOf[entered[p[i]].context] = h
    BY <1>1 DEF Opens
  <2>2. p[i] # m
    BY <1>3, <2>1
  <2> QED
    BY <1>2, <2>1, <2>2
<1>5. p \in [DOMAIN list -> DOMAIN after]
  BY <1>4
<1>6. Opens(h, list, after, p)
  BY <1>1, <1>2, <1>4 DEF Opens
<1> QED
  BY <1>5, <1>6 DEF HasOpeners, after

\* What the exit of a context takes off, and what it leaves.
LEMMA StackPopped ==
  ASSUME NEW stack, NEW live, NEW from, NEW to, StackOK(stack, live, from, to)
  PROVE  LET list == Contents(stack) IN
         /\ Top(stack) = list[Len(list)] /\ Top(stack) \in Opened
         /\ Top(stack).start \in from .. to
         /\ list \in Seq(Opened) /\ Len(list) = stack.count /\ Len(list) > 0
         /\ Contents(Popped(stack)) = SubSeq(list, 1, Len(list) - 1)
         /\ stack.count # 1 => StackOK(Popped(stack), live, from, to)
<1> DEFINE list == Contents(stack)
           rest == Popped(stack)
<1>1. /\ IsStack(stack, Values) /\ stack.count > 0 /\ list \in Seq(Opened)
      /\ stack.block # NoBlock => stack.block \in live
      /\ \A i \in DOMAIN list : list[i].start \in from .. to
      /\ NoActivation \in Values
  BY DEF StackOK, Values
<1>2. Len(list) = stack.count /\ stack.count \in Nat
  BY <1>1, StackEntries DEF IsStack
<1>3. /\ IsStack(rest, Values) /\ Top(stack) = list[Len(list)]
      /\ Contents(rest) = SubSeq(list, 1, Len(list) - 1)
  BY <1>1, PoppedDropsLast
<1>4. rest.count = stack.count - 1 /\ rest.block = stack.block
  BY <1>1 DEF Popped, IsStack
<1> HIDE DEF list, rest
<1>5. /\ Contents(rest) \in Seq(Opened) /\ DOMAIN list = 1 .. Len(list)
      /\ DOMAIN Contents(rest) = 1 .. Len(list) - 1
      /\ \A i \in DOMAIN Contents(rest) : Contents(rest)[i] = list[i]
      /\ list[Len(list)] \in Opened
  BY <1>1, <1>2, <1>3, ButLast
<1>6. stack.count # 1 => StackOK(rest, live, from, to)
  <2>1. \A i \in DOMAIN Contents(rest) : i \in DOMAIN list
    BY <1>2, <1>5
  <2> QED
    BY <1>1, <1>2, <1>3, <1>4, <1>5, <2>1 DEF StackOK
<1>7. Len(list) \in DOMAIN list
  BY <1>1, <1>2, <1>5
<1> QED
  BY <1>1, <1>2, <1>3, <1>5, <1>6, <1>7 DEF list, rest

\* The activation that the exit of a context ends.
EndedOn(stack, now) == [span |-> Top(stack).span, start |-> Top(stack).start, end |-> now]

\* It is inserted into every bin from that of its start to that of its end.
LEMMA ExitInserts ==
  ASSUME IInv, clock' \in Later(clock), NEW h \in DOMAIN stacks,
         table' = InsertActivation(table, EndedOn(stacks[h], clock'))
  PROVE  LET act == EndedOn(stacks[h], clock')
             first == ActivationBinIndex(act.start)
             last == ActivationBinIndex(act.end)
         IN /\ act \in Ended /\ first \in Nat /\ last \in Nat /\ first <= last
            /\ startTime <= act.start /\ act.start <= act.end
            /\ TableOK(table') /\ Grown(table, table')
            /\ \A i \in Nat : ActsAt(table', i) = ActsAt(table, i) \cup
                                (IF i \in first + 1 .. last + 1 THEN {act} ELSE {})
<1> DEFINE act == EndedOn(stacks[h], clock')
           first == ActivationBinIndex(act.start)
           last == ActivationBinIndex(act.end)
           top == Top(stacks[h])
<1>1. /\ Plain /\ TableOK(table) /\ StackOK(stacks[h], table.arena.live, startTime, clock)
  BY DEF IInv, TableSound, StacksSound
<1>2. /\ clock \in Nat /\ clock' \in Nat /\ clock <= clock' /\ startTime \in Nat
      /\ clock' \in startTime .. MaxTime /\ clock' \in 0 .. MaxTime /\ startTime <= clock
  BY <1>1, TimesGrow
<1>3. top \in Opened /\ top.start \in startTime .. clock
  BY <1>1, StackPopped
<1>4. act \in Ended /\ act.start = top.start /\ act.end = clock'
  BY <1>2, <1>3 DEF EndedOn, Opened, Ended
<1> HIDE DEF act, top
<1>5. /\ act.start \in startTime .. MaxTime /\ act.end \in startTime .. MaxTime
      /\ act.start <= act.end /\ startTime <= act.start
  BY <1>2, <1>3, <1>4, BoundAssumption
<1>6. first \in Nat /\ last \in Nat /\ first <= last
  BY <1>1, <1>5, BinsOfTimes
<1>7. table' = InsertActivation(table, act)
  BY DEF act
<1> HIDE DEF first, last
<1>8. TableOK(table') /\ Grown(table, table')
  BY <1>1, <1>4, <1>6, <1>7, Inserted DEF first, last
<1>9. \A i \in Nat : ActsAt(table', i) = ActsAt(table, i) \cup
                       (IF i \in first + 1 .. last + 1 THEN {act} ELSE {})
  BY <1>1, <1>4, <1>6, <1>7, Inserted DEF first, last
<1> QED
  BY <1>4, <1>5, <1>6, <1>8, <1>9 DEF act, first, last

\* The activation that ends is in every bin of its time, as the others are
\* (InsertActivation).
LEMMA CoveredGrows ==
  ASSUME IInv, clock' \in Later(clock), startTime' = startTime, NEW h \in DOMAIN stacks,
         table' = InsertActivation(table, EndedOn(stacks[h], clock'))
  PROVE  Covered'
<1> DEFINE act == EndedOn(stacks[h], clock')
           first == ActivationBinIndex(act.start)
           last == ActivationBinIndex(act.end)
<1>1. /\ Plain /\ TableOK(table) /\ Covered
  BY DEF IInv, TableSound
<1>2. /\ clock \in Nat /\ clock' \in Nat /\ clock <= clock'
  BY <1>1, TimesGrow
<1>3. /\ act \in Ended /\ first \in Nat /\ last \in Nat /\ first <= last
      /\ startTime <= act.start /\ act.start <= act.end
      /\ act.end = clock'
  BY ExitInserts DEF EndedOn
<1>4. \A i \in Nat : ActsAt(table', i) = ActsAt(table, i) \cup
                       (IF i \in first + 1 .. last + 1 THEN {act} ELSE {})
  BY ExitInserts
<1> SUFFICES ASSUME NEW i \in Nat, NEW a \in ActsAt(table', i)
             PROVE  /\ startTime <= a.start /\ a.start <= a.end /\ a.end <= clock'
                    /\ \A j \in Nat : j \in ActivationBinIndex(a.start) .. ActivationBinIndex(a.end)
                                        => a \in ActsAt(table', j + 1)
  BY DEF Covered, ActivationBinIndex
<1> HIDE DEF act
<1>5. CASE a = act
  <2>1. \A j \in Nat : j \in first .. last => j + 1 \in first + 1 .. last + 1 /\ j + 1 \in Nat
    BY <1>3
  <2>2. \A j \in Nat : j \in first .. last => act \in ActsAt(table', j + 1)
    <3> HIDE DEF first, last
    <3> QED
      BY <1>4, <2>1
  <2> QED
    BY <1>2, <1>3, <1>5, <2>2
<1>6. CASE a # act
  <2> HIDE DEF first, last
  <2>1. a \in ActsAt(table, i)
    BY <1>4, <1>6
  <2>2. a.end \in Nat
    BY <1>1, <2>1, ActsTyped, BoundAssumption DEF Ended
  <2>3. /\ startTime <= a.start /\ a.start <= a.end /\ a.end <= clock
        /\ \A j \in Nat : j \in ActivationBinIndex(a.start) .. ActivationBinIndex(a.end)
                            => a \in ActsAt(table, j + 1)
    BY <1>1, <2>1 DEF Covered
  <2>4. \A j \in Nat : ActsAt(table, j + 1) \subseteq ActsAt(table', j + 1)
    BY <1>4
  <2> QED
    BY <1>2, <2>2, <2>3, <2>4
<1> QED
  BY <1>5, <1>6

\* Exiting a context (ExitContext) keeps the invariant, whether the profiler was told
\* of its entry or not.
LEMMA ExitKeeps ==
  ASSUME IInv, ExitContext
  PROVE  IInv'
<1> DEFINE h == HashOf[Last(contexts).context]
           ends == running /\ h \in DOMAIN stacks /\ stacks[h].count > 0
<1>1. /\ Plain /\ TableOK(table) /\ table.periods # <<>> /\ StacksSound /\ IdleIsEmpty
      /\ Covered /\ Witnessed /\ contexts \in Seq(Entered)
  BY DEF IInv, TableSound, Plain
<1>2. /\ clock' \in Later(clock) /\ contexts # <<>> /\ contexts' = Front(contexts)
      /\ running' = running /\ onlyFiltered' = onlyFiltered /\ filter' = filter
      /\ startTime' = startTime /\ cutoff' = cutoff
  BY DEF ExitContext, Unstacked
<1>3. /\ clock \in Nat /\ clock' \in Nat /\ clock <= clock' /\ startTime \in Nat
      /\ clock' \in startTime .. MaxTime /\ clock' \in 0 .. MaxTime /\ startTime <= clock
  BY <1>1, <1>2, TimesGrow
<1>4. Len(contexts) > 0
  BY <1>1, <1>2
<1>5. contexts' \in Seq(Entered)
  BY <1>1, <1>2, <1>4, ButLast DEF Front
<1>6. Plain'
  BY <1>1, <1>2, <1>3, <1>5 DEF Plain
<1>7. \A g \in DOMAIN stacks : StackOK(stacks[g], table.arena.live, startTime, clock)
                                /\ Contents(stacks[g]) \in Seq(Opened)
                                /\ HasOpeners(g, Contents(stacks[g]), contexts)
  BY <1>1 DEF StacksSound, StackOK, Witnessed
<1>8. \A g \in DOMAIN stacks : g # h => HasOpeners(g, Contents(stacks[g]), contexts')
  BY <1>1, <1>2, <1>4, <1>7, OpenersOfOthers
<1>9. CASE ~ends
  <2>1. stacks' = stacks /\ table' = table
    BY <1>9 DEF ExitContext
  <2>2. TableSound' /\ IdleIsEmpty'
    BY <1>1, <1>2, <2>1 DEF TableSound, IdleIsEmpty
  <2>3. StacksSound'
    BY <1>1, <1>2, <1>3, <2>1, StackStaysOK DEF StacksSound
  <2>4. Covered'
    BY <1>1, <1>2, <2>1, CoveredStays
  <2>5. h \notin DOMAIN stacks
    <3>1. CASE ~running
      BY <1>1, <3>1 DEF IdleIsEmpty
    <3>2. CASE running
      BY <1>7, <1>9, <3>2 DEF StackOK
    <3> QED
      BY <3>1, <3>2
  <2>6. Witnessed'
    BY <1>8, <2>1, <2>5 DEF Witnessed
  <2> QED
    BY <1>6, <2>2, <2>3, <2>4, <2>6 DEF IInv
<1>10. CASE ends
  <2>1. /\ table' = InsertActivation(table, EndedOn(stacks[h], clock'))
        /\ stacks' = StacksAfterExit(h)
        /\ running /\ h \in DOMAIN stacks
    BY <1>10 DEF ExitContext, EndedOn
  <2> HIDE DEF h, ends
  <2>2. TableOK(table') /\ Grown(table, table')
    BY <1>2, <2>1, ExitInserts
  <2>3. Covered'
    BY <1>2, <2>1, CoveredGrows
  <2>4. table.arena.live \subseteq table'.arena.live /\ Len(table.periods) <= Len(table'.periods)
    BY <2>2 DEF Grown
  <2>5. TableSound'
    <3>1. table.periods \in Seq(ArenaBlocks) /\ table'.periods \in Seq(ArenaBlocks)
      BY <1>1, <2>2 DEF TableOK, Tables
    <3>2. Len(table.periods) > 0
      BY <1>1, <3>1
    <3>3. table'.periods # <<>>
      BY <2>4, <3>1, <3>2
    <3> QED
      BY <2>2, <3>3 DEF TableSound
  <2>6. IdleIsEmpty'
    BY <1>2, <2>1 DEF IdleIsEmpty
  <2>7. /\ DOMAIN stacks' \subseteq DOMAIN stacks
        /\ \A g \in DOMAIN stacks' : g # h => stacks'[g] = stacks[g]
        /\ h \in DOMAIN stacks' => stacks'[h] = Popped(stacks[h]) /\ stacks[h].count # 1
    BY <2>1 DEF StacksAfterExit, WithStack
  <2>8. /\ stacks[h].count # 1 => StackOK(Popped(stacks[h]), table.arena.live, startTime, clock)
        /\ Contents(stacks[h]) \in Seq(Opened) /\ Len(Contents(stacks[h])) > 0
        /\ Contents(Popped(stacks[h]))
             = SubSeq(Contents(stacks[h]), 1, Len(Contents(stacks[h])) - 1)
    BY <1>7, <2>1, StackPopped
  <2>9. \A g \in DOMAIN stacks' : StackOK(stacks'[g], table.arena.live, startTime, clock)
    BY <1>7, <2>7, <2>8
  <2>10. StacksSound'
    <3>1. \A g \in DOMAIN stacks' : StackOK(stacks'[g], table'.arena.live, startTime', clock')
      BY <1>2, <1>3, <2>4, <2>9, StackStaysOK
    <3> QED
      BY <1>1, <2>7, <3>1 DEF StacksSound
  <2>11. HasOpeners(h, Contents(Popped(stacks[h])), contexts')
    BY <1>1, <1>2, <1>4, <1>7, <2>1, <2>8, OpenersPopped
  <2>12. Witnessed'
    BY <1>8, <2>7, <2>11 DEF Witnessed
  <2> QED
    BY <1>6, <2>3, <2>5, <2>6, <2>10, <2>12 DEF IInv
<1> QED
  BY <1>9, <1>10

\* The inductive invariant holds.
LEMMA Invariance ==
  Spec => []IInv
<1>1. Init => IInv
  BY InitHolds
<1>2. IInv /\ [Next]_vars => IInv'
  <2> SUFFICES ASSUME IInv, [Next]_vars PROVE IInv'
    OBVIOUS
  <2>1. ASSUME NEW c \in Contexts, EnterContext(c) PROVE IInv'
    BY <2>1, EnterKeeps
  <2>2. CASE ExitContext
    BY <2>2, ExitKeeps
  <2>3. ASSUME NEW resets \in BOOLEAN, Start(resets) PROVE IInv'
    BY <2>3, StartKeeps
  <2>4. CASE CollectProfilingData
    BY <2>4, CollectKeeps
  <2>5. CASE StopProfiling
    BY <2>5, StopKeeps
  <2>6. CASE GetOrCreateCpuProfiler
    BY <2>6, GetOrCreateKeeps
  <2>7. ASSUME NEW trace \in Traces, AddTraceIdFilter(trace) \/ RemoveTraceIdFilter(trace)
        PROVE  IInv'
    <3>1. UNCHANGED <<running, onlyFiltered, stacks, table, startTime, cutoff, clock, contexts>>
      BY <2>7 DEF AddTraceIdFilter, RemoveTraceIdFilter
    <3>2. filter' \subseteq Traces
      BY <2>7 DEF AddTraceIdFilter, RemoveTraceIdFilter, IInv, Plain
    <3> QED
      BY <3>1, <3>2, UnchangedKeeps
  <2>8. CASE UNCHANGED vars
    <3>1. filter' \subseteq Traces
      BY <2>8 DEF vars, IInv, Plain
    <3> QED
      BY <2>8, <3>1, UnchangedKeeps DEF vars
  <2> QED
    BY <2>1, <2>2, <2>3, <2>4, <2>5, <2>6, <2>7, <2>8 DEF Next
<1> QED
  BY <1>1, <1>2, PTL DEF Spec

(***************************************************************************)
(* What the invariant shows.                                               *)
(***************************************************************************)

\* The profiler's state is of its type: there is always a period, the bins are those
\* of the periods (ProfilingReset, NewActivationPeriod), and no empty stack stays in
\* the map (ProfilingExitContext).
THEOREM TypeCorrect ==
  Spec => []TypeOK
<1>1. IInv => TypeOK
  <2> SUFFICES ASSUME IInv PROVE TypeOK
    OBVIOUS
  <2>1. IsArena(table.arena) /\ table.periods # <<>>
        /\ Len(table.bins) = kBinsPerActivationPeriod * Len(table.periods)
    BY DEF IInv, TableSound, TableOK, ArenaOK
  <2>2. DOMAIN stacks \subseteq Hashes /\ \A h \in DOMAIN stacks : stacks[h].count > 0
    BY DEF IInv, StacksSound, StackOK
  <2> QED
    BY <2>1, <2>2 DEF IInv, Plain, TypeOK, Entered
<1> QED
  BY <1>1, Invariance, PTL

\* Periods, chained bins and spilled stacks all lie in blocks of this profile, which
\* no other block overlaps (arena.cpp and its users in profiling.cpp).
THEOREM MemoryIsOwnCorrect ==
  Spec => []MemoryIsOwn
<1>1. IInv => MemoryIsOwn
  <2> SUFFICES ASSUME IInv PROVE MemoryIsOwn
    OBVIOUS
  <2>1. TableOK(table)
    BY DEF IInv, TableSound
  <2>2. LiveBlocksApart(table.arena) /\ PagesApart(table.arena)
    BY <2>1, OkIsApart DEF TableOK
  <2>3. \A b \in Pages(table.periods) : b \in table.arena.live
    BY <2>1 DEF TableOK, BlocksLive, Pages
  <2>4. \A i \in DOMAIN table.bins : \A b \in Pages(table.bins[i].chunks) : b \in table.arena.live
    BY <2>1 DEF TableOK, BlocksLive, Pages
  <2>5. \A h \in DOMAIN stacks : stacks[h].block # NoBlock => stacks[h].block \in table.arena.live
    BY DEF IInv, StacksSound, StackOK
  <2>6. Blocks \subseteq table.arena.live
    BY <2>3, <2>4, <2>5 DEF Blocks
  <2> QED
    BY <2>2, <2>6 DEF MemoryIsOwn
<1> QED
  BY <1>1, Invariance, PTL

\* Of the activations that are active in a bin there is one of the latest, and a
\* first of these.
LEMMA LatestExists ==
  ASSUME NEW list \in Seq(Ended), NEW active \in SUBSET DOMAIN list, active # {}
  PROVE  \E i \in active : \A j \in active :
           \/ list[j].start < list[i].start
           \/ list[j].start = list[i].start /\ i <= j
<1> DEFINE n == Len(list)
           starts == {list[j].start : j \in active}
           M == Max(starts)
           back == {n - j : j \in {k \in active : list[k].start = M}}
           B == Max(back)
<1>1. n \in Nat /\ DOMAIN list = 1 .. n /\ \A j \in DOMAIN list : list[j].start \in 0 .. MaxTime
  <2>1. n \in Nat /\ DOMAIN list = 1 .. n /\ \A j \in DOMAIN list : list[j] \in Ended
    OBVIOUS
  <2> QED
    BY <2>1 DEF Ended
<1>2. starts \in SUBSET (0 .. MaxTime) /\ starts # {}
  BY <1>1
<1>3. M \in starts /\ \A x \in starts : x <= M
  <2> HIDE DEF starts
  <2> QED
    BY <1>2, BoundAssumption, MaxIsLargest
<1> HIDE DEF M
<1>4. back \in SUBSET (0 .. n) /\ back # {}
  BY <1>1, <1>3
<1>5. B \in back /\ \A x \in back : x <= B
  <2> HIDE DEF back, n
  <2> QED
    BY <1>1, <1>4, MaxIsLargest
<1> HIDE DEF B
<1>6. PICK i \in active : list[i].start = M /\ B = n - i
  BY <1>5
<1>7. ASSUME NEW j \in active
      PROVE  \/ list[j].start < list[i].start
             \/ list[j].start = list[i].start /\ i <= j
  <2>1. list[j].start <= M /\ list[j].start \in Nat /\ M \in Nat
    BY <1>1, <1>3, BoundAssumption
  <2>2. CASE list[j].start = M
    <3>1. n - j \in back
      BY <2>2
    <3>2. n - j <= n - i
      BY <1>5, <1>6, <3>1
    <3>3. i \in Nat /\ j \in Nat
      BY <1>1
    <3>4. i <= j
      BY <1>1, <3>2, <3>3
    <3> QED
      BY <1>6, <2>2, <3>4
  <2>3. CASE list[j].start # M
    BY <1>6, <2>1, <2>3
  <2> QED
    BY <2>2, <2>3
<1> QED
  BY <1>7

\* The activations of all bins are those of any.
LEMMA RecordedActs ==
  ASSUME NEW t, TableOK(t)
  PROVE  RecordedOf(t) = UNION {ActsAt(t, i) : i \in Nat}
<1>1. DOMAIN t.bins \subseteq Nat
  BY DEF TableOK, Tables
<1> QED
  BY <1>1 DEF RecordedOf, ActsAt

\* The bin of a sample has every activation that was active then.
LEMMA BinHasActive ==
  ASSUME IInv, NEW ts \in startTime .. clock
  PROVE  LET found == BinAt(ts).activations IN
         /\ found \in Seq(Ended)
         /\ \A a : a \in Timeline!Active(ts) <=>
                     \E i \in DOMAIN found : a = found[i] /\ found[i].start <= ts /\ ts <= found[i].end
<1> DEFINE bin == ActivationBinIndex(ts)
           found == BinAt(ts).activations
<1>1. /\ Plain /\ TableOK(table) /\ Covered /\ table.bins \in Seq(Bins)
  BY DEF IInv, TableSound, TableOK, Tables
<1>2. /\ startTime \in Nat /\ clock \in Nat /\ ts \in Nat /\ ts \in startTime .. MaxTime
      /\ clock \in startTime .. MaxTime /\ MaxTime \in Nat
  BY <1>1, BoundAssumption DEF Plain
<1>3. bin \in Nat
  BY <1>1, <1>2, BinsOfTimes
<1>4. Pages(found) = ActsAt(table, bin + 1) /\ found \in Seq(Ended)
  <2> HIDE DEF bin
  <2>1. DOMAIN table.bins = 1 .. Len(table.bins) /\ Len(table.bins) \in Nat
    BY <1>1
  <2>2. CASE bin < Len(table.bins)
    <3>1. bin + 1 \in DOMAIN table.bins
      BY <1>3, <2>1, <2>2
    <3>2. found = table.bins[bin + 1].activations
      BY <2>2 DEF BinAt, bin
    <3>3. table.bins[bin + 1] \in Bins
      BY <1>1, <3>1
    <3> QED
      BY <3>1, <3>2, <3>3 DEF ActsAt, Bins
  <2>3. CASE ~(bin < Len(table.bins))
    <3>1. bin + 1 \notin DOMAIN table.bins
      BY <1>3, <2>1, <2>3
    <3>2. found = <<>>
      BY <2>3 DEF BinAt, EmptyBin, bin
    <3> HIDE DEF found
    <3>3. Pages(found) = {} /\ found \in Seq(Ended)
      BY <3>2 DEF Pages
    <3> QED
      BY <3>1, <3>3 DEF ActsAt
  <2> QED
    BY <2>2, <2>3
<1>5. RecordedOf(table) = UNION {ActsAt(table, i) : i \in Nat}
  BY <1>1, RecordedActs
<1> HIDE DEF found
<1>6. ASSUME NEW a \in RecordedOf(table), a.start <= ts, ts <= a.end
      PROVE  a \in ActsAt(table, bin + 1)
  <2>1. PICK i \in Nat : a \in ActsAt(table, i)
    BY <1>5
  <2>2. a \in Ended
    BY <1>1, <2>1, ActsTyped
  <2>3. /\ startTime <= a.start /\ a.start <= a.end /\ a.end <= clock
        /\ \A j \in Nat : j \in ActivationBinIndex(a.start) .. ActivationBinIndex(a.end)
                            => a \in ActsAt(table, j + 1)
    BY <1>1, <2>1 DEF Covered
  <2>4. a.start \in startTime .. MaxTime /\ a.end \in startTime .. MaxTime
    BY <1>2, <2>2, <2>3 DEF Ended
  <2>5. /\ ActivationBinIndex(a.start) \in Nat /\ ActivationBinIndex(a.end) \in Nat
        /\ ActivationBinIndex(a.start) <= bin /\ bin <= ActivationBinIndex(a.end)
    BY <1>1, <1>2, <1>6, <2>4, BinsOfTimes
  <2> HIDE DEF bin
  <2>6. bin \in ActivationBinIndex(a.start) .. ActivationBinIndex(a.end)
    BY <1>3, <2>5
  <2> QED
    BY <1>3, <2>3, <2>6
<1>7. \A a \in ActsAt(table, bin + 1) : a \in RecordedOf(table)
  BY <1>3, <1>5
<1>8. \A a : a \in Timeline!Active(ts) <=> a \in RecordedOf(table) /\ a.start <= ts /\ ts <= a.end
  BY DEF Timeline!Active
<1>9. \A a : a \in ActsAt(table, bin + 1) <=> \E i \in DOMAIN found : a = found[i]
  BY <1>4 DEF Pages
<1> QED
  BY <1>4, <1>6, <1>7, <1>8, <1>9 DEF found

\* A sample is given one of the latest of the activations that were active when it
\* was taken, though only one bin is searched (FindClosestActivation).
THEOREM SamplesFindLatestCorrect ==
  Spec => []SamplesFindLatest
<1>1. IInv => SamplesFindLatest
  <2> SUFFICES ASSUME IInv, NEW ts \in startTime .. clock
               PROVE  FindClosestActivation(ts) \in Timeline!Latest(ts)
    BY DEF SamplesFindLatest
  <2> DEFINE found == BinAt(ts).activations
             active == {i \in DOMAIN found : found[i].start <= ts /\ ts <= found[i].end}
             Best(i) == \A j \in active :
                          \/ found[j].start < found[i].start
                          \/ found[j].start = found[i].start /\ i <= j
             i == CHOOSE i \in active : Best(i)
  <2>1. /\ found \in Seq(Ended)
        /\ \A a : a \in Timeline!Active(ts) <=>
                    \E k \in DOMAIN found : a = found[k] /\ found[k].start <= ts /\ ts <= found[k].end
    BY BinHasActive
  <2>2. CASE active = {}
    <3>1. FindClosestActivation(ts) = NoMatch
      BY <2>2 DEF FindClosestActivation
    <3>2. Timeline!Active(ts) = {}
      BY <2>1, <2>2
    <3> QED
      BY <3>1, <3>2 DEF Timeline!Latest
  <2>3. CASE active # {}
    <3>1. FindClosestActivation(ts) = found[i]
      BY <2>3 DEF FindClosestActivation
    <3>2. \E k \in active : Best(k)
      BY <2>1, <2>3, LatestExists
    <3>3. i \in active /\ Best(i)
      BY <3>2
    <3> HIDE DEF i, found
    <3>4. \A b \in Timeline!Active(ts) : b.start <= found[i].start
      <4> SUFFICES ASSUME NEW k \in active PROVE found[k].start <= found[i].start
        BY <2>1
      <4>1. found[k] \in Ended /\ found[i] \in Ended
        BY <2>1, <3>3
      <4>2. found[k].start \in Nat /\ found[i].start \in Nat
        BY <4>1, BoundAssumption DEF Ended
      <4> QED
        BY <3>3, <4>2
    <3>5. found[i] \in Timeline!Active(ts)
      BY <2>1, <3>3
    <3>6. Timeline!Active(ts) # {}
      BY <3>5
    <3> QED
      BY <3>1, <3>4, <3>5, <3>6 DEF Timeline!Latest
  <2> QED
    BY <2>2, <2>3
<1> QED
  BY <1>1, Invariance, PTL

(***************************************************************************)
(* The rate of samples.                                                    *)
(***************************************************************************)

\* What has been reported of the samples before now: the turn of the next has moved
\* on by as many intervals as there are reported samples, none of them came before
\* its turn, and one is left out only for a cause of its own (ProfilingBuildStacktraces).
Reported(began, samples, acc, now) ==
  LET gone == {ts \in samples : ts < now} IN
  /\ acc.next \in Nat /\ acc.kept \in SUBSET gone
  /\ acc.next = began + Cardinality(acc.kept) * SamplingInterval
  /\ \A ts \in acc.kept :
       (Cardinality({s \in acc.kept : s <= ts}) - 1) * SamplingInterval <= ts - began
  /\ \A ts \in gone \ acc.kept :
       \/ ~ShouldIncludeSample(ts)
       \/ onlyFiltered /\ FindClosestActivation(ts) = NoMatch
       \/ Cardinality({s \in acc.kept : s < ts}) * SamplingInterval > ts - began

\* One more interval.
LEMMA Intervals ==
  ASSUME NEW c \in Nat
  PROVE  /\ c * SamplingInterval \in Nat
         /\ (c + 1) * SamplingInterval = c * SamplingInterval + SamplingInterval
<1>1. SamplingInterval \in Nat
  BY SampleAssumption
<1>2. \A i \in Nat : c * i \in Nat /\ (c + 1) * i = c * i + i
  OBVIOUS
<1> QED
  BY <1>1, <1>2

\* The samples there may be are numbers, and finitely many.
LEMMA SamplesAreFinite ==
  ASSUME startTime \in Nat, clock \in Nat, NEW samples \in SUBSET (startTime .. clock)
  PROVE  /\ samples \in SUBSET (0 .. clock)
         /\ \A s \in SUBSET samples : IsFiniteSet(s) /\ Cardinality(s) \in Nat
<1>1. samples \in SUBSET (0 .. clock)
  OBVIOUS
<1>2. IsFiniteSet(0 .. clock)
  BY FS_Interval
<1> QED
  BY <1>1, <1>2, FS_Subset, FS_CardinalityType

\* The turn of one more sample: it is reported, or left out, on its own account
\* (the body of the loop of ProfilingBuildStacktraces).
LEMMA OneMoreReported ==
  ASSUME startTime \in Nat, clock \in Nat, NEW began \in Nat,
         NEW samples \in SUBSET (startTime .. clock), NEW now \in samples, NEW acc, Reported(began, samples, acc, now)
  PROVE  Reported(began, samples, Stacktrace(now, acc), now + 1)
<1> DEFINE gone == {ts \in samples : ts < now}
           then == {ts \in samples : ts < now + 1}
           K == acc.kept
           new == Stacktrace(now, acc)
<1>1. samples \in SUBSET (0 .. clock) /\ now \in Nat /\ SamplingInterval \in Nat
  BY SampleAssumption
<1>2. then = gone \cup {now} /\ now \notin gone /\ \A ts \in gone : ts \in Nat /\ ts < now
  <2>1. \A ts \in samples : ts \in Nat /\ (ts < now + 1 <=> ts < now \/ ts = now)
    BY <1>1
  <2>2. then = gone \cup {now}
    BY <2>1
  <2>3. now \notin gone /\ \A ts \in gone : ts \in Nat /\ ts < now
    BY <1>1, <2>1
  <2> QED
    BY <2>2, <2>3
<1>3. /\ acc.next \in Nat /\ K \in SUBSET gone
      /\ acc.next = began + Cardinality(K) * SamplingInterval
      /\ \A ts \in K : (Cardinality({s \in K : s <= ts}) - 1) * SamplingInterval <= ts - began
      /\ \A ts \in gone \ K :
           \/ ~ShouldIncludeSample(ts)
           \/ onlyFiltered /\ FindClosestActivation(ts) = NoMatch
           \/ Cardinality({s \in K : s < ts}) * SamplingInterval > ts - began
  BY DEF Reported
<1>4. IsFiniteSet(K) /\ Cardinality(K) \in Nat /\ Cardinality(K) * SamplingInterval \in Nat
  BY <1>2, <1>3, SamplesAreFinite, Intervals
<1> SUFFICES /\ new.next \in Nat /\ new.kept \in SUBSET then
             /\ new.next = began + Cardinality(new.kept) * SamplingInterval
             /\ \A ts \in new.kept :
                  (Cardinality({s \in new.kept : s <= ts}) - 1) * SamplingInterval <= ts - began
             /\ \A ts \in then \ new.kept :
                  \/ ~ShouldIncludeSample(ts)
                  \/ onlyFiltered /\ FindClosestActivation(ts) = NoMatch
                  \/ Cardinality({s \in new.kept : s < ts}) * SamplingInterval > ts - began
  BY DEF Reported
<1> HIDE DEF gone, then
<1>5. CASE /\ ShouldIncludeSample(now) /\ now >= acc.next
           /\ onlyFiltered => FindClosestActivation(now) # NoMatch
  <2>1. new.next = acc.next + SamplingInterval /\ new.kept = K \cup {now}
    BY <1>5 DEF Stacktrace
  <2> HIDE DEF new, K
  <2>2. Cardinality(new.kept) = Cardinality(K) + 1
    BY <1>2, <1>3, <1>4, <2>1, FS_AddElement
  <2>3. Cardinality(new.kept) * SamplingInterval = Cardinality(K) * SamplingInterval + SamplingInterval
    BY <1>4, <2>2, Intervals
  <2>4. /\ new.next \in Nat /\ new.kept \in SUBSET then
        /\ new.next = began + Cardinality(new.kept) * SamplingInterval
    BY <1>1, <1>2, <1>3, <1>4, <2>1, <2>3
  <2>5. ASSUME NEW ts \in new.kept
        PROVE  (Cardinality({s \in new.kept : s <= ts}) - 1) * SamplingInterval <= ts - began
    <3>1. CASE ts \in K
      <4>1. {s \in new.kept : s <= ts} = {s \in K : s <= ts}
        <5>1. ~(now <= ts)
          BY <1>1, <1>2, <1>3, <3>1
        <5> QED
          BY <2>1, <5>1
      <4> QED
        BY <1>3, <3>1, <4>1
    <3>2. CASE ts = now
      <4>1. {s \in new.kept : s <= now} = new.kept
        <5>1. \A s \in new.kept : s <= now
          BY <1>1, <1>2, <1>3, <2>1
        <5> QED
          BY <5>1
      <4>2. Cardinality({s \in new.kept : s <= ts}) - 1 = Cardinality(K)
        <5> DEFINE E == {s \in new.kept : s <= ts}
        <5>1. E = new.kept
          BY <3>2, <4>1
        <5> HIDE DEF E
        <5>2. Cardinality(E) - 1 = Cardinality(K)
          BY <1>4, <2>2, <5>1
        <5> QED
          BY <5>2 DEF E
      <4>3. Cardinality(K) * SamplingInterval <= now - began
        BY <1>1, <1>3, <1>4, <1>5
      <4> QED
        BY <3>2, <4>2, <4>3
    <3> QED
      BY <2>1, <3>1, <3>2
  <2>6. ASSUME NEW ts \in then \ new.kept
        PROVE  \/ ~ShouldIncludeSample(ts)
               \/ onlyFiltered /\ FindClosestActivation(ts) = NoMatch
               \/ Cardinality({s \in new.kept : s < ts}) * SamplingInterval > ts - began
    <3>1. ts \in gone \ K
      BY <1>2, <2>1
    <3>2. {s \in new.kept : s < ts} = {s \in K : s < ts}
      <4>1. ~(now < ts)
        BY <1>1, <1>2, <3>1
      <4> QED
        BY <2>1, <4>1
    <3> QED
      BY <1>3, <3>1, <3>2
  <2> QED
    BY <2>4, <2>5, <2>6
<1>6. CASE ~ /\ ShouldIncludeSample(now) /\ now >= acc.next
             /\ onlyFiltered => FindClosestActivation(now) # NoMatch
  <2>1. new.next = acc.next /\ new.kept = K
    BY <1>6 DEF Stacktrace
  <2> HIDE DEF new
  <2>2. ASSUME ~(now >= acc.next)
        PROVE  Cardinality({s \in K : s < now}) * SamplingInterval > now - began
    <3>1. {s \in K : s < now} = K
      <4>1. \A s \in K : s < now
        BY <1>2, <1>3
      <4> HIDE DEF K
      <4> QED
        BY <4>1
    <3> HIDE DEF K
    <3>2. Cardinality(K) * SamplingInterval > now - began
      BY <1>1, <1>3, <1>4, <2>2
    <3> QED
      BY <3>1, <3>2
  <2> HIDE DEF K
  <2>3. \A ts \in then \ K : ts \in gone \ K \/ ts = now
    BY <1>2
  <2> QED
    BY <1>2, <1>3, <1>6, <2>1, <2>2, <2>3
<1> QED
  BY <1>5, <1>6

\* All samples of a profile have had their turn (ProfilingBuildStacktraces).
LEMMA AllReported ==
  ASSUME startTime \in Nat, clock \in Nat, NEW began \in Nat,
         NEW samples \in SUBSET (startTime .. clock)
  PROVE  \E acc : /\ ProfilingBuildStacktraces(began, samples) = acc.kept
                  /\ Reported(began, samples, acc, clock + 1)
<1> DEFINE base == [next |-> began, kept |-> {}]
           iter == CHOOSE g : g = [s \in SUBSET samples |->
                     IF s = {} THEN base ELSE Stacktrace(Max(s), g[s \ {Max(s)}])]
           S == [next : Nat, kept : SUBSET samples]
           step == [x \in samples \X S |-> Stacktrace(x[1], x[2])]
<1>1. ProfilingBuildStacktraces(began, samples) = iter[samples].kept
  BY DEF ProfilingBuildStacktraces, MapThenFoldSet
<1>2. samples \in SUBSET (0 .. clock)
  BY SamplesAreFinite
<1>3. iter = [s \in SUBSET samples |->
                IF s = {} THEN base ELSE Stacktrace(Max(s), iter[s \ {Max(s)}])]
  <2>1. base \in S
    OBVIOUS
  <2>2. step \in [samples \X S -> S]
    <3> SUFFICES ASSUME NEW ts \in samples, NEW acc \in S PROVE Stacktrace(ts, acc) \in S
      OBVIOUS
    <3> QED
      BY SampleAssumption DEF Stacktrace
  <2> HIDE DEF base, step, iter, S
  <2>3. PICK g \in [SUBSET samples -> S] : IsFold(g, samples, base, step)
    BY <1>2, <2>1, <2>2, FoldExists
  <2>4. ASSUME NEW s \in SUBSET samples, s # {}
        PROVE  g[s] = Stacktrace(Max(s), g[s \ {Max(s)}])
    <3>1. Max(s) \in samples
      BY <1>2, <2>4, MaxIsLargest
    <3>2. g[s \ {Max(s)}] \in S
      BY <2>3
    <3>3. step[<<Max(s), g[s \ {Max(s)}]>>] = Stacktrace(Max(s), g[s \ {Max(s)}])
      BY <3>1, <3>2 DEF step
    <3> QED
      BY <2>3, <2>4, <3>3 DEF IsFold
  <2>5. g = [s \in SUBSET samples |->
               IF s = {} THEN base ELSE Stacktrace(Max(s), g[s \ {Max(s)}])]
    BY <2>3, <2>4 DEF IsFold
  <2> QED
    BY <2>5 DEF iter
<1> HIDE DEF iter
<1> DEFINE Before(now) == {ts \in samples : ts < now}
           T == {now \in 0 .. clock + 1 : Reported(began, samples, iter[Before(now)], now)}
<1>4. 0 \in T
  <2>1. Before(0) = {}
    <3>1. \A ts \in samples : ~(ts < 0)
      BY <1>2
    <3> QED
      BY <3>1
  <2>2. iter[{}] = base
    BY <1>3
  <2>3. Cardinality({}) = 0 /\ 0 * SamplingInterval = 0
    BY FS_EmptySet, SampleAssumption
  <2>4. Reported(began, samples, base, 0)
    BY <2>1, <2>3 DEF Reported
  <2>5. 0 \in 0 .. clock + 1
    OBVIOUS
  <2> HIDE DEF Before, base
  <2> QED
    BY <2>1, <2>2, <2>4, <2>5
<1>5. ASSUME NEW later \in 1 .. clock + 1, later - 1 \in T PROVE later \in T
  <2> DEFINE now == later - 1
  <2>1. Reported(began, samples, iter[Before(now)], now)
    BY <1>5
  <2>2. now \in Nat /\ later = now + 1 /\ later \in 0 .. clock + 1
    OBVIOUS
  <2> HIDE DEF now
  <2>3. CASE now \in samples
    <3>1. /\ Before(now + 1) \in SUBSET samples /\ Before(now + 1) # {}
          /\ now \in Before(now + 1) /\ \A ts \in Before(now + 1) : ts \in Nat /\ ts <= now
      BY <1>2, <2>2, <2>3
    <3>2. Before(now + 1) \ {now} = Before(now)
      <4>1. \A ts \in samples : ts < now + 1 /\ ts # now <=> ts < now
        BY <1>2, <2>2
      <4> QED
        BY <4>1
    <3> HIDE DEF Before
    <3>3. Max(Before(now + 1)) = now
      <4>1. Before(now + 1) \in SUBSET (0 .. clock)
        BY <1>2, <3>1
      <4>2. /\ Max(Before(now + 1)) \in Before(now + 1)
            /\ \A y \in Before(now + 1) : y <= Max(Before(now + 1))
        BY <3>1, <4>1, MaxIsLargest
      <4>3. now <= Max(Before(now + 1)) /\ Max(Before(now + 1)) <= now
        BY <3>1, <4>2
      <4> QED
        BY <2>2, <3>1, <4>2, <4>3
    <3>4. iter[Before(now + 1)] = Stacktrace(now, iter[Before(now)])
      BY <1>3, <3>1, <3>2, <3>3
    <3>5. Reported(began, samples, Stacktrace(now, iter[Before(now)]), now + 1)
      BY <2>1, <2>3, OneMoreReported
    <3> QED
      BY <2>2, <3>4, <3>5
  <2>4. CASE now \notin samples
    <3>1. \A ts \in samples : ts < now + 1 <=> ts < now
      BY <1>2, <2>2, <2>4
    <3>2. Before(now + 1) = Before(now)
      BY <3>1
    <3>3. Reported(began, samples, iter[Before(now)], now + 1)
      BY <2>1, <3>1, <3>2 DEF Reported
    <3> HIDE DEF Before
    <3> QED
      BY <2>2, <3>2, <3>3
  <2> QED
    BY <2>3, <2>4
<1>6. Reported(began, samples, iter[Before(clock + 1)], clock + 1)
  <2>1. clock + 1 \in Nat /\ clock + 1 \in 0 .. clock + 1
    OBVIOUS
  <2>2. 0 .. clock + 1 \subseteq T
    <3> HIDE DEF T
    <3> QED
      BY <1>4, <1>5, <2>1, FiniteInduction
  <2> QED
    BY <2>1, <2>2
<1>7. Before(clock + 1) = samples
  <2>1. \A ts \in samples : ts < clock + 1
    BY <1>2
  <2> QED
    BY <2>1
<1> QED
  BY <1>1, <1>6, <1>7

\* Samples are reported at the sampling interval at most, in the long run, and one that
\* is left out for want of an activation does not delay the next.
THEOREM RateIsBoundedCorrect ==
  Spec => []RateIsBounded
<1>1. IInv => RateIsBounded
  <2> SUFFICES ASSUME IInv, running, NEW began \in startTime .. cutoff,
                      NEW samples \in SUBSET (startTime .. clock)
               PROVE  LET kept == ProfilingBuildStacktraces(began, samples) IN
                      /\ \A ts \in kept :
                           (Cardinality({s \in kept : s <= ts}) - 1) * SamplingInterval <= ts - began
                      /\ \A ts \in samples \ kept :
                           \/ ~ShouldIncludeSample(ts)
                           \/ onlyFiltered /\ FindClosestActivation(ts) = NoMatch
                           \/ Cardinality({s \in kept : s < ts}) * SamplingInterval > ts - began
    BY DEF RateIsBounded
  <2>1. startTime \in Nat /\ clock \in Nat /\ began \in Nat
    BY BoundAssumption DEF IInv, Plain
  <2>2. PICK acc : /\ ProfilingBuildStacktraces(began, samples) = acc.kept
                   /\ Reported(began, samples, acc, clock + 1)
    BY <2>1, AllReported
  <2>3. {ts \in samples : ts < clock + 1} = samples
    <3>1. \A ts \in samples : ts < clock + 1
      BY <2>1
    <3> QED
      BY <3>1
  <2> QED
    BY <2>2, <2>3 DEF Reported
<1> QED
  BY <1>1, Invariance, PTL

(***************************************************************************)
(* What any step does to the open and the ended activations.               *)
(***************************************************************************)

NoChange == OpenActivations' = OpenActivations /\ RecordedOf(table') = RecordedOf(table)

Opening(h, act) ==
  /\ OpenActivations' = [OpenActivations EXCEPT ![h] = Append(@, act)]
  /\ RecordedOf(table') = RecordedOf(table)

Closing(h, now) ==
  /\ contexts # <<>> /\ h = HashOf[Last(contexts).context] /\ h \in DOMAIN stacks
  /\ OpenActivations' = [OpenActivations EXCEPT ![h] = SubSeq(@, 1, Len(@) - 1)]
  /\ RecordedOf(table') = RecordedOf(table) \cup {EndedOn(stacks[h], now)}

Forgetting == OpenActivations' = [h \in Hashes |-> <<>>] /\ RecordedOf(table') = {}

StepKind ==
  \/ NoChange
  \/ \E h \in Hashes, act \in Opened : Opening(h, act)
  \/ \E h \in Hashes, now \in 0 .. MaxTime : Closing(h, now)
  \/ Forgetting

PagesKept == Pages(table.arena.nodes) \subseteq AllPages(table'.arena)

\* What only grows loses no page.
LEMMA GrownKeepsPages ==
  ASSUME Grown(table, table') PROVE PagesKept
BY DEF Grown, PagesKept, AllPages

\* A reset (ProfilingReset) forgets every activation, and no page in use.
LEMMA ResetForgets ==
  ASSUME NEW t, TableOK(t), Pages(table.arena.nodes) \subseteq Pages(t.arena.nodes),
         ProfilingReset(t)
  PROVE  Forgetting /\ PagesKept
<1>1. /\ TableOK(table') /\ \A i \in Nat : ActsAt(table', i) = {}
      /\ Pages(t.arena.nodes) \subseteq AllPages(table'.arena)
  BY TableReset DEF ProfilingReset, TableOK
<1>2. RecordedOf(table') = {}
  BY <1>1, RecordedActs
<1>3. DOMAIN stacks' = {}
  BY DEF ProfilingReset, NoStacks
<1>4. OpenActivations' = [h \in Hashes |-> <<>>]
  BY <1>3 DEF OpenActivations
<1> QED
  BY <1>1, <1>2, <1>4 DEF Forgetting, PagesKept

\* Entering a context opens an activation on the stack of its hash, or nothing.
LEMMA EnterOpens ==
  ASSUME IInv, NEW c \in Contexts, EnterContext(c)
  PROVE  StepKind /\ PagesKept
<1> DEFINE h == HashOf[c]
           tells == HasSpan(c) /\ running /\ Admits(TraceOf[SpanOf[c]])
<1>1. CASE ~tells
  <2>1. stacks' = stacks /\ table' = table
    BY <1>1 DEF EnterContext
  <2> QED
    BY <2>1 DEF StepKind, NoChange, OpenActivations, PagesKept, AllPages
<1>2. CASE tells
  <2> DEFINE act == [span |-> SpanOf[c], start |-> clock']
             stack == StackOf(h)
             new == stacks'[h]
             open == OpenActivations
  <2>1. /\ act \in Opened /\ h \in Hashes /\ Grown(table, table')
        /\ table'.bins = table.bins
        /\ DOMAIN stacks' = DOMAIN stacks \cup {h}
    BY <1>2, EnterPushes
  <2>2. \A g \in DOMAIN stacks : g # h => stacks'[g] = stacks[g]
    BY <1>2, EnterPushes
  <2>3. \/ new = stack /\ Full(stack)
        \/ Contents(new) = Append(Contents(stack), act)
    BY <1>2, EnterPushes
  <2>4. RecordedOf(table') = RecordedOf(table)
    BY <2>1 DEF RecordedOf
  <2>5. PagesKept
    BY <2>1, GrownKeepsPages
  <2> HIDE DEF act
  <2>6. /\ open = [g \in Hashes |-> IF g \in DOMAIN stacks THEN Contents(stacks[g]) ELSE <<>>]
        /\ open' = [g \in Hashes |-> IF g \in DOMAIN stacks' THEN Contents(stacks'[g]) ELSE <<>>]
    BY DEF OpenActivations
  <2>7. \A g \in Hashes : g # h => open'[g] = open[g]
    BY <2>1, <2>2, <2>6
  <2>8. open'[h] = Contents(new)
    BY <2>1, <2>6
  <2>9. open[h] = Contents(stack)
    BY <2>1, <2>6, EmptyIsStack DEF StackOf
  <2> HIDE DEF h, stack, new, open
  <2>10. CASE Contents(new) = Append(Contents(stack), act)
    <3>1. open' = [open EXCEPT ![h] = Append(@, act)]
      BY <2>1, <2>6, <2>7, <2>8, <2>9, <2>10
    <3> QED
      BY <2>1, <2>4, <2>5, <3>1 DEF StepKind, Opening, open
  <2>11. CASE new = stack
    <3>1. open' = open
      BY <2>1, <2>6, <2>7, <2>8, <2>9, <2>11
    <3> QED
      BY <2>4, <2>5, <3>1 DEF StepKind, NoChange, open
  <2> QED
    BY <2>3, <2>10, <2>11
<1> QED
  BY <1>1, <1>2

\* Exiting a context ends what is on top of the stack of its hash, and records it, or
\* nothing.
LEMMA ExitCloses ==
  ASSUME IInv, ExitContext
  PROVE  StepKind /\ PagesKept
<1> DEFINE h == HashOf[Last(contexts).context]
           ends == running /\ h \in DOMAIN stacks /\ stacks[h].count > 0
<1>1. CASE ~ends
  <2>1. stacks' = stacks /\ table' = table
    BY <1>1 DEF ExitContext
  <2> QED
    BY <2>1 DEF StepKind, NoChange, OpenActivations, PagesKept, AllPages
<1>2. CASE ends
  <2> DEFINE act == EndedOn(stacks[h], clock')
             first == ActivationBinIndex(act.start)
             last == ActivationBinIndex(act.end)
             open == OpenActivations
             list == Contents(stacks[h])
             less == SubSeq(list, 1, Len(list) - 1)
  <2>1. /\ table' = InsertActivation(table, EndedOn(stacks[h], clock'))
        /\ stacks' = StacksAfterExit(h)
        /\ running /\ h \in DOMAIN stacks /\ clock' \in Later(clock)
        /\ contexts # <<>>
    BY <1>2 DEF ExitContext, EndedOn
  <2>2. /\ Plain /\ StacksSound /\ TableOK(table) /\ h \in Hashes
        /\ StackOK(stacks[h], table.arena.live, startTime, clock)
    BY <2>1 DEF IInv, StacksSound, TableSound
  <2>3. clock' \in 0 .. MaxTime
    BY <2>1, <2>2, TimesGrow
  <2> HIDE DEF h, ends
  <2>4. /\ act \in Ended /\ first \in Nat /\ last \in Nat /\ first <= last
        /\ TableOK(table') /\ Grown(table, table')
    BY <2>1, ExitInserts
  <2>5. \A i \in Nat : ActsAt(table', i) = ActsAt(table, i) \cup
                         (IF i \in first + 1 .. last + 1 THEN {act} ELSE {})
    BY <2>1, ExitInserts
  <2>6. PagesKept
    BY <2>4, GrownKeepsPages
  <2>7. RecordedOf(table') = RecordedOf(table) \cup {act}
    <3> HIDE DEF act, first, last
    <3>1. first + 1 \in Nat /\ first + 1 \in first + 1 .. last + 1
      BY <2>4
    <3>2. act \in ActsAt(table', first + 1)
      BY <2>5, <3>1
    <3>3. /\ RecordedOf(table') = UNION {ActsAt(table', i) : i \in Nat}
          /\ RecordedOf(table) = UNION {ActsAt(table, i) : i \in Nat}
      BY <2>2, <2>4, RecordedActs
    <3> QED
      BY <2>5, <3>1, <3>2, <3>3
  <2>8. /\ list \in Seq(Opened) /\ Len(list) = stacks[h].count /\ Len(list) > 0
        /\ Contents(Popped(stacks[h])) = less
    BY <2>2, StackPopped
  <2>9. /\ DOMAIN stacks' \subseteq DOMAIN stacks
        /\ \A g \in DOMAIN stacks : g # h => g \in DOMAIN stacks' /\ stacks'[g] = stacks[g]
        /\ \/ h \notin DOMAIN stacks' /\ stacks[h].count = 1
           \/ h \in DOMAIN stacks' /\ stacks'[h] = Popped(stacks[h])
    BY <2>1 DEF StacksAfterExit, WithStack
  <2>10. /\ open = [g \in Hashes |-> IF g \in DOMAIN stacks THEN Contents(stacks[g]) ELSE <<>>]
         /\ open' = [g \in Hashes |-> IF g \in DOMAIN stacks' THEN Contents(stacks'[g]) ELSE <<>>]
    BY DEF OpenActivations
  <2>11. \A g \in Hashes : g # h => open'[g] = open[g]
    BY <2>9, <2>10
  <2>12. open[h] = list
    BY <2>1, <2>2, <2>10
  <2>13. open'[h] = less
    <3>1. CASE h \notin DOMAIN stacks' /\ stacks[h].count = 1
      <4>1. less \in Seq(Opened) /\ Len(less) = 0
        BY <2>8, <3>1, ButLast
      <4> HIDE DEF less, list, open
      <4>2. less = <<>>
        BY <4>1, EmptySeq
      <4> QED
        BY <2>2, <2>10, <3>1, <4>2
    <3>2. CASE h \in DOMAIN stacks' /\ stacks'[h] = Popped(stacks[h])
      BY <2>2, <2>8, <2>10, <3>2
    <3> QED
      BY <2>9, <3>1, <3>2
  <2>14. open' = [open EXCEPT ![h] = SubSeq(@, 1, Len(@) - 1)]
    <3> HIDE DEF open, list
    <3> QED
      BY <2>2, <2>10, <2>11, <2>12, <2>13
  <2>15. Closing(h, clock')
    BY <2>1, <2>7, <2>14 DEF Closing, h
  <2> QED
    BY <2>2, <2>3, <2>6, <2>15 DEF StepKind
<1> QED
  BY <1>1, <1>2

\* Every step opens an activation, ends one, forgets all or changes none; and none
\* loses a page in use.
LEMMA StepIsOfAKind ==
  ASSUME IInv, [Next]_vars
  PROVE  StepKind /\ PagesKept
<1>0. Plain /\ TableSound /\ TableOK(table)
  BY DEF IInv, TableSound
<1>1. ASSUME table' = table, stacks' = stacks PROVE StepKind /\ PagesKept
  BY <1>1 DEF StepKind, NoChange, OpenActivations, PagesKept, AllPages
<1>2. ASSUME ProfilingReset(table) PROVE StepKind /\ PagesKept
  BY <1>0, <1>2, ResetForgets DEF StepKind
<1>3. ASSUME NEW last \in startTime .. clock, ProfilingReset(LookedUp(last))
      PROVE  StepKind /\ PagesKept
  <2>1. /\ TableOK(LookedUp(last))
        /\ Pages(table.arena.nodes) \subseteq Pages(LookedUp(last).arena.nodes)
    BY <1>0, LookedUpIsOK DEF Grown
  <2> QED
    BY <1>3, <2>1, ResetForgets DEF StepKind
<1>4. ASSUME NEW c \in Contexts, EnterContext(c) PROVE StepKind /\ PagesKept
  BY <1>4, EnterOpens
<1>5. CASE ExitContext
  BY <1>5, ExitCloses
<1>6. ASSUME NEW resets \in BOOLEAN, Start(resets) PROVE StepKind /\ PagesKept
  BY <1>1, <1>2, <1>6 DEF Start
<1>7. CASE CollectProfilingData
  BY <1>3, <1>7 DEF CollectProfilingData
<1>8. CASE StopProfiling
  BY <1>3, <1>8 DEF StopProfiling
<1>9. CASE GetOrCreateCpuProfiler
  BY <1>2, <1>9 DEF GetOrCreateCpuProfiler
<1>10. ASSUME NEW trace \in Traces, AddTraceIdFilter(trace) \/ RemoveTraceIdFilter(trace)
       PROVE  StepKind /\ PagesKept
  BY <1>1, <1>10 DEF AddTraceIdFilter, RemoveTraceIdFilter
<1>11. CASE UNCHANGED vars
  BY <1>1, <1>11 DEF vars
<1> QED
  BY <1>4, <1>5, <1>6, <1>7, <1>8, <1>9, <1>10, <1>11 DEF Next

\* An activation that is recorded was opened by a context that is still entered, has
\* its span and was entered no later (ProfilingExitContext ends what is on the stack
\* of the hash, whatever opened it).
THEOREM ActivationsAreTrueCorrect ==
  Spec => ActivationsAreTrue
<1>1. IInv /\ [Next]_vars =>
        [\A a \in RecordedOf(table') \ RecordedOf(table) :
           \E i \in DOMAIN contexts :
             SpanOf[contexts[i].context] = a.span /\ contexts[i].start <= a.start]_vars
  <2> SUFFICES ASSUME IInv, [Next]_vars, NEW a \in RecordedOf(table') \ RecordedOf(table)
               PROVE  \E i \in DOMAIN contexts :
                        SpanOf[contexts[i].context] = a.span /\ contexts[i].start <= a.start
    OBVIOUS
  <2>1. StepKind
    BY StepIsOfAKind
  <2>2. PICK h \in Hashes, now \in 0 .. MaxTime : Closing(h, now)
    BY <2>1 DEF StepKind, NoChange, Opening, Forgetting
  <2>3. /\ h \in DOMAIN stacks /\ contexts # <<>> /\ a = EndedOn(stacks[h], now)
    BY <2>2 DEF Closing
  <2> DEFINE list == Contents(stacks[h])
  <2>4. /\ contexts \in Seq(Entered) /\ HasOpeners(h, list, contexts)
        /\ StackOK(stacks[h], table.arena.live, startTime, clock)
    BY <2>3 DEF IInv, Plain, Witnessed, StacksSound
  <2>5. list \in Seq(Opened) /\ Len(list) > 0 /\ Top(stacks[h]) = list[Len(list)]
    BY <2>4, StackPopped
  <2>6. Len(contexts) > 0
    BY <2>3, <2>4
  <2>7. a.span = list[Len(list)].span /\ a.start = list[Len(list)].start
    BY <2>3, <2>5 DEF EndedOn
  <2> HIDE DEF list
  <2>8. \E i \in DOMAIN contexts : /\ SpanOf[contexts[i].context] = list[Len(list)].span
                                   /\ contexts[i].start <= list[Len(list)].start
    BY <2>4, <2>5, <2>6, OpenersPopped
  <2> QED
    BY <2>7, <2>8
<1> QED
  BY <1>1, Invariance, PTL DEF Spec, ActivationsAreTrue

\* A page that is in use stays in the arena, in use or free, whatever is allocated or
\* reset (PagedArenaAlloc and PagedArenaReset of arena.cpp).
THEOREM OnlyFreePagesAreLostCorrect ==
  Spec => OnlyFreePagesAreLost
<1>1. IInv /\ IInv' /\ [Next]_vars =>
        [\A p \in Pages(table.arena.nodes) :
           p \in Pages(table'.arena.nodes \o table'.arena.freeNodes)]_vars
  <2> SUFFICES ASSUME IInv, IInv', [Next]_vars, NEW p \in Pages(table.arena.nodes)
               PROVE  p \in Pages(table'.arena.nodes \o table'.arena.freeNodes)
    OBVIOUS
  <2> DEFINE used == table'.arena.nodes
             free == table'.arena.freeNodes
             all == used \o free
  <2>1. p \in Pages(used) \cup Pages(free)
    BY StepIsOfAKind DEF PagesKept, AllPages
  <2>2. used \in Seq(Nat) /\ free \in Seq(Nat)
    BY DEF IInv, TableSound, TableOK, ArenaOK, Arenas
  <2> DEFINE n == Len(used)
             k == Len(free)
  <2> HIDE DEF used, free
  <2>3. n \in Nat /\ k \in Nat /\ DOMAIN used = 1 .. n /\ DOMAIN free = 1 .. k
    BY <2>2, LenProperties
  <2>4. /\ DOMAIN all = 1 .. n + k
        /\ \A i \in 1 .. n : all[i] = used[i]
        /\ \A i \in n + 1 .. n + k : all[i] = free[i - n]
    BY <2>2, Joined
  <2> HIDE DEF all, n, k
  <2>5. CASE p \in Pages(used)
    <3>1. PICK i \in DOMAIN used : p = used[i]
      BY <2>5 DEF Pages
    <3>2. i \in DOMAIN all /\ all[i] = p
      BY <2>3, <2>4, <3>1
    <3>3. p \in Pages(all)
      BY <3>2 DEF Pages
    <3> QED
      BY <3>3 DEF all, used, free
  <2>6. CASE p \in Pages(free)
    <3>1. PICK i \in DOMAIN free : p = free[i]
      BY <2>6 DEF Pages
    <3>2. n + i \in n + 1 .. n + k /\ (n + i) - n = i /\ n + i \in DOMAIN all
      BY <2>3, <2>4, <3>1
    <3>3. all[n + i] = p
      BY <2>4, <3>1, <3>2
    <3>4. p \in Pages(all)
      BY <3>2, <3>3 DEF Pages
    <3> QED
      BY <3>4 DEF all, used, free
  <2> QED
    BY <2>1, <2>5, <2>6
<1> QED
  BY <1>1, Invariance, PTL DEF Spec, OnlyFreePagesAreLost

\* The stacks that spill and move, the bins that chain, the periods that are made on
\* the way and the arena under them are, to who looks at the activations, plain stacks
\* and a set: every step of the profiler is one of the timeline or none.
THEOREM TimelineImplemented ==
  Spec => ImplementsTimeline
<1>1. Init => Timeline!Init
  <2> SUFFICES ASSUME Init PROVE Timeline!Init
    OBVIOUS
  <2>1. DOMAIN stacks = {}
    BY DEF Init
  <2>2. OpenActivations = [h \in Hashes |-> <<>>]
    BY <2>1 DEF OpenActivations
  <2>3. TableOK(table) /\ \A i \in Nat : ActsAt(table, i) = {}
    <3>1. ArenaOK(NewArena)
      BY ResetStaysApart
    <3> QED
      BY <3>1, TableReset DEF Init
  <2>4. RecordedOf(table) = {}
    BY <2>3, RecordedActs
  <2> QED
    BY <2>2, <2>4 DEF Timeline!Init
<1>2. IInv /\ [Next]_vars => [Timeline!Next]_<<OpenActivations, RecordedOf(table)>>
  <2> SUFFICES ASSUME IInv, [Next]_vars
               PROVE  Timeline!Next \/ NoChange
    BY DEF NoChange
  <2>1. StepKind
    BY StepIsOfAKind
  <2>2. CASE \E h \in Hashes, act \in Opened : Opening(h, act)
    <3>1. PICK h \in Hashes, act \in Opened : Opening(h, act)
      BY <2>2
    <3>2. act \in Timeline!Activations
      BY DEF Opened, Timeline!Activations
    <3>3. Timeline!Activate(h, act)
      BY <3>1 DEF Opening, Timeline!Activate
    <3> QED
      BY <3>2, <3>3 DEF Timeline!Next
  <2>3. CASE \E h \in Hashes, now \in 0 .. MaxTime : Closing(h, now)
    <3>1. PICK h \in Hashes, now \in 0 .. MaxTime : Closing(h, now)
      BY <2>3
    <3> DEFINE list == Contents(stacks[h])
    <3>2. h \in DOMAIN stacks /\ StackOK(stacks[h], table.arena.live, startTime, clock)
      BY <3>1 DEF Closing, IInv, StacksSound
    <3>3. list \in Seq(Opened) /\ Len(list) > 0 /\ Top(stacks[h]) = list[Len(list)]
      BY <3>2, StackPopped
    <3>4. OpenActivations[h] = list
      BY <3>2 DEF OpenActivations
    <3>5. list # <<>>
      BY <3>3
    <3>6. Timeline!Deactivate(h, now)
      BY <3>1, <3>3, <3>4, <3>5 DEF Closing, EndedOn, Timeline!Deactivate
    <3> QED
      BY <3>6 DEF Timeline!Next
  <2>4. CASE Forgetting
    BY <2>4 DEF Forgetting, Timeline!Forget, Timeline!Next
  <2> QED
    BY <2>1, <2>2, <2>3, <2>4 DEF StepKind
<1> QED
  BY <1>1, <1>2, Invariance, PTL DEF Spec, ImplementsTimeline, Timeline!Spec
=============================================================================
