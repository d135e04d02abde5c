--------------------------- MODULE DataGridProofs ---------------------------
(***************************************************************************)
(* What the operators of DataGrid return, for grids of any size.           *)
(***************************************************************************)
EXTENDS DataGrid, FiniteSetTheorems, TLAPS

-----------------------------------------------------------------------------
(* Recursion and induction over the natural numbers. *)

\* A set that has 0 and the successor of each of its members has every number.
\* If x were missing, the map that takes the members of the set to themselves
\* and the others to their predecessors would put x + 1 numbers into x holes,
\* and no two of them into one.
LEMMA NatSetInduction ==
  ASSUME NEW S, 0 \in S, \A n \in Nat : n \in S => n + 1 \in S
  PROVE  Nat \subseteq S
<1>1. SUFFICES ASSUME NEW x \in Nat, x \notin S PROVE FALSE
  OBVIOUS
<1> DEFINE hole == [i \in 0..x |-> IF i \in S THEN i ELSE i - 1]
           All == 0..x
           Holes == 0..(x - 1)
<1>2. IsFiniteSet(All) /\ Cardinality(All) = x + 1
  BY FS_Interval
<1>3. IsFiniteSet(Holes) /\ Cardinality(Holes) = x
  BY FS_Interval
<1>4. hole \in [All -> Holes]
  BY <1>1
<1>5. \E i, j \in All : i # j /\ hole[i] = hole[j]
  <2> HIDE DEF hole, All, Holes
  <2>1. Cardinality(Holes) < Cardinality(All)
    BY <1>2, <1>3
  <2> QED
    BY <1>2, <1>3, <1>4, <2>1, FS_PigeonHole
<1>6. PICK i \in All, j \in All : i # j /\ hole[i] = hole[j]
  BY <1>5
<1> QED
  BY <1>6

\* The same up to a bound.
LEMMA UpToInduction ==
  ASSUME NEW N \in Nat, NEW S, 0 \in S,
         \A i \in 1..N : i - 1 \in S => i \in S
  PROVE  0..N \subseteq S
<1> DEFINE M == {n \in Nat : n <= N => n \in S}
<1>1. 0 \in M
  OBVIOUS
<1>2. ASSUME NEW n \in Nat, n \in M PROVE n + 1 \in M
  <2>1. SUFFICES ASSUME n + 1 <= N PROVE n + 1 \in S
    BY <1>2
  <2>2. n \in S /\ n + 1 \in 1..N /\ (n + 1) - 1 = n
    BY <1>2, <2>1
  <2> QED
    BY <2>2
<1>3. Nat \subseteq M
  <2> HIDE DEF M
  <2> QED
    BY <1>1, <1>2, NatSetInduction
<1> QED
  BY <1>3

\* A loop of N rounds over values of a set D, the value after each of which
\* follows from the one before it.
Rounds(N, D) == [1..N -> [D -> D]]

IsRun(f, N, D, first, round) ==
    /\ f \in [0..N -> D]
    /\ f[0] = first
    /\ \A i \in 1..N : f[i] = round[i][f[i - 1]]

\* Such a loop runs, whatever its rounds do.
LEMMA LoopRuns ==
  ASSUME NEW N \in Nat, NEW D, NEW first \in D, NEW round \in Rounds(N, D)
  PROVE  \E f : IsRun(f, N, D, first, round)
<1> DEFINE Run(f, n) == IsRun(f, n, D, first, round)
           S == {n \in 0..N : \E f : Run(f, n)}
<1>1. 0 \in S
  <2>1. Run([i \in 0..0 |-> first], 0)
    BY DEF IsRun
  <2> HIDE DEF Run
  <2> QED
    BY <2>1
<1>2. ASSUME NEW n \in 1..N, n - 1 \in S PROVE n \in S
  <2>1. PICK f : Run(f, n - 1)
    BY <1>2
  <2> DEFINE h == [i \in 0..n |-> IF i = n THEN round[n][f[n - 1]] ELSE f[i]]
  <2>2. f[n - 1] \in D
    BY <2>1 DEF IsRun
  <2>3. h \in [0..n -> D]
    BY <2>1, <2>2 DEF IsRun, Rounds
  <2>4. h[0] = first
    BY <2>1 DEF IsRun
  <2>5. ASSUME NEW i \in 1..n PROVE h[i] = round[i][h[i - 1]]
    BY <2>1 DEF IsRun
  <2>6. Run(h, n)
    BY <2>3, <2>4, <2>5 DEF IsRun
  <2> HIDE DEF Run, h
  <2> QED
    BY <2>6
<1>3. N \in S
  <2> HIDE DEF S
  <2>1. 0..N \subseteq S
    BY <1>1, <1>2, UpToInduction
  <2> QED
    BY <2>1
<1> QED
  BY <1>3

-----------------------------------------------------------------------------
(* Selecting from a sequence. *)

\* What Only has collected after each element.
OnlyUpTo(s, S) ==
    CHOOSE f : f = [i \in 0..Len(s) |->
                      IF i = 0 THEN <<>>
                      ELSE IF s[i] \in S THEN Append(f[i - 1], s[i])
                      ELSE f[i - 1]]

\* Only is such a loop: it is empty at first and takes one element a round.
LEMMA OnlyRounds ==
  ASSUME NEW T, NEW s \in Seq(T), NEW S
  PROVE  LET f == OnlyUpTo(s, S)
         IN  /\ Only(s, S) = f[Len(s)]
             /\ f \in [0..Len(s) -> Seq(T)]
             /\ f[0] = <<>>
             /\ \A i \in 1..Len(s) :
                  f[i] = IF s[i] \in S THEN Append(f[i - 1], s[i]) ELSE f[i - 1]
<1> DEFINE N == Len(s)
           round == [i \in 1..N |-> [t \in Seq(T) |->
                       IF s[i] \in S THEN Append(t, s[i]) ELSE t]]
           Body(f) == [i \in 0..N |-> IF i = 0 THEN <<>>
                         ELSE IF s[i] \in S THEN Append(f[i - 1], s[i])
                         ELSE f[i - 1]]
<1>1. N \in Nat /\ \A i \in 1..N : s[i] \in T
  OBVIOUS
<1>2. round \in Rounds(N, Seq(T))
  <2>1. ASSUME NEW i \in 1..N, NEW t \in Seq(T)
        PROVE  (IF s[i] \in S THEN Append(t, s[i]) ELSE t) \in Seq(T)
    BY <1>1
  <2> QED
    BY <2>1 DEF Rounds
<1>3. PICK f : IsRun(f, N, Seq(T), <<>>, round)
  <2>1. <<>> \in Seq(T)
    OBVIOUS
  <2> HIDE DEF round, N
  <2> QED
    BY <1>1, <1>2, <2>1, LoopRuns
<1>4. ASSUME NEW i \in 1..N
      PROVE  f[i] = IF s[i] \in S THEN Append(f[i - 1], s[i]) ELSE f[i - 1]
  <2>1. i - 1 \in 0..N /\ f[i - 1] \in Seq(T)
    BY <1>1, <1>3 DEF IsRun
  <2>2. round[i][f[i - 1]] = IF s[i] \in S THEN Append(f[i - 1], s[i]) ELSE f[i - 1]
    BY <2>1
  <2> QED
    BY <1>3, <2>2 DEF IsRun
<1>5. f = Body(f)
  <2>1. \A i \in 0..N : f[i] = Body(f)[i]
    <3> TAKE i \in 0..N
    <3>1. CASE i = 0
      BY <1>3, <3>1 DEF IsRun
    <3>2. CASE i # 0
      <4>1. i \in 1..N
        BY <1>1, <3>2
      <4> QED
        BY <1>4, <3>2, <4>1
    <3> QED
      BY <3>1, <3>2
  <2> QED
    BY <1>3, <2>1 DEF IsRun
<1>6. OnlyUpTo(s, S) = Body(OnlyUpTo(s, S))
  BY <1>5 DEF OnlyUpTo
<1>7. Only(s, S) = OnlyUpTo(s, S)[Len(s)]
  BY DEF Only, OnlyUpTo
<1> DEFINE g == OnlyUpTo(s, S)
<1>8. g[0] = <<>> /\ \A i \in 1..N :
         g[i] = IF s[i] \in S THEN Append(g[i - 1], s[i]) ELSE g[i - 1]
  <2>1. g = Body(g)
    BY <1>6
  <2>2. 0 \in 0..N /\ \A i \in 1..N : i \in 0..N /\ i # 0
    BY <1>1
  <2> HIDE DEF g, N
  <2>3. Body(g)[0] = <<>>
    BY <2>2
  <2>4. ASSUME NEW i \in 1..N
        PROVE  Body(g)[i] = IF s[i] \in S THEN Append(g[i - 1], s[i]) ELSE g[i - 1]
    BY <2>2
  <2> QED
    BY <2>1, <2>3, <2>4
<1>9. \A i \in 0..N : g[i] \in Seq(T)
  <2> DEFINE M == {i \in 0..N : g[i] \in Seq(T)}
  <2>1. 0 \in M
    <3>1. 0 \in 0..N /\ <<>> \in Seq(T)
      BY <1>1
    <3> HIDE DEF g, N
    <3> QED
      BY <1>8, <3>1
  <2>2. ASSUME NEW i \in 1..N, i - 1 \in M PROVE i \in M
    <3>1. i \in 0..N /\ s[i] \in T
      BY <1>1
    <3>2. g[i - 1] \in Seq(T)
      BY <2>2
    <3>3. g[i] = IF s[i] \in S THEN Append(g[i - 1], s[i]) ELSE g[i - 1]
      BY <1>8
    <3> HIDE DEF g, N
    <3>4. Append(g[i - 1], s[i]) \in Seq(T)
      BY <3>1, <3>2
    <3>5. g[i] \in Seq(T)
      BY <3>2, <3>3, <3>4
    <3> QED
      BY <3>1, <3>5
  <2> HIDE DEF M
  <2>3. 0..N \subseteq M
    BY <1>1, <2>1, <2>2, UpToInduction
  <2> QED
    BY <2>3 DEF M
<1>10. g \in [0..N -> Seq(T)]
  BY <1>6, <1>9
<1> QED
  BY <1>7, <1>8, <1>10

\* What Append makes of a sequence, and of the set of its elements.
LEMMA AppendFacts ==
  ASSUME NEW T, NEW t \in Seq(T), NEW e \in T
  PROVE  /\ Append(t, e) \in Seq(T)
         /\ Len(Append(t, e)) = Len(t) + 1
         /\ Append(t, e)[Len(t) + 1] = e
         /\ \A i \in 1..Len(t) : Append(t, e)[i] = t[i]
         /\ ToSet(Append(t, e)) = ToSet(t) \union {e}
<1>1. /\ Append(t, e) \in Seq(T)
      /\ Len(Append(t, e)) = Len(t) + 1
      /\ Append(t, e)[Len(t) + 1] = e
      /\ \A i \in 1..Len(t) : Append(t, e)[i] = t[i]
  OBVIOUS
<1>2. DOMAIN t = 1..Len(t) /\ Len(t) \in Nat
  OBVIOUS
<1>3. DOMAIN Append(t, e) = 1..(Len(t) + 1)
  BY <1>1
<1>4. 1..(Len(t) + 1) = (1..Len(t)) \union {Len(t) + 1}
  BY <1>2
<1> DEFINE u == Append(t, e)
<1>5. \A i \in DOMAIN t : u[i] = t[i]
  BY <1>1, <1>2
<1>6. u[Len(t) + 1] = e
  BY <1>1
<1>7. DOMAIN u = DOMAIN t \union {Len(t) + 1}
  BY <1>2, <1>3, <1>4
<1> HIDE DEF u
<1>8. ToSet(u) = ToSet(t) \union {e}
  BY <1>5, <1>6, <1>7 DEF ToSet
<1> QED
  BY <1>1, <1>8 DEF u

\* After n rounds Only has those of the first n elements that are in the set.
LEMMA OnlyUpToSet ==
  ASSUME NEW T, NEW s \in Seq(T), NEW S, NEW n \in 0..Len(s)
  PROVE  ToSet(OnlyUpTo(s, S)[n]) = {s[j] : j \in 1..n} \intersect S
<1> DEFINE f == OnlyUpTo(s, S)
           N == Len(s)
           Seen(i) == {s[j] : j \in 1..i}
           M == {i \in 0..N : ToSet(f[i]) = Seen(i) \intersect S}
<1>1. /\ N \in Nat
      /\ \A i \in 1..N : s[i] \in T
      /\ \A i \in 0..N : f[i] \in Seq(T)
      /\ f[0] = <<>>
      /\ \A i \in 1..N :
           f[i] = IF s[i] \in S THEN Append(f[i - 1], s[i]) ELSE f[i - 1]
  BY OnlyRounds
<1> HIDE DEF f, N
<1>2. 0 \in M
  BY <1>1 DEF ToSet
<1>3. ASSUME NEW i \in 1..N, i - 1 \in M PROVE i \in M
  <2>1. i \in 0..N /\ i - 1 \in 0..N /\ 1..i = (1..(i - 1)) \union {i}
    BY <1>1
  <2>2. Seen(i) = Seen(i - 1) \union {s[i]}
    BY <2>1
  <2>3. ToSet(f[i - 1]) = Seen(i - 1) \intersect S
    BY <1>3
  <2>4. ToSet(f[i]) = Seen(i) \intersect S
    <3> HIDE DEF Seen
    <3>1. CASE s[i] \in S
      <4>1. f[i] = Append(f[i - 1], s[i])
        BY <1>1, <3>1
      <4>2. ToSet(f[i]) = ToSet(f[i - 1]) \union {s[i]}
        BY <1>1, <2>1, <4>1, AppendFacts
      <4> QED
        BY <2>2, <2>3, <3>1, <4>2
    <3>2. CASE s[i] \notin S
      <4>1. f[i] = f[i - 1]
        BY <1>1, <3>2
      <4> QED
        BY <2>2, <2>3, <3>2, <4>1
    <3> QED
      BY <3>1, <3>2
  <2> QED
    BY <2>1, <2>4
<1>4. 0..N \subseteq M
  <2> HIDE DEF M
  <2> QED
    BY <1>1, <1>2, <1>3, UpToInduction
<1>5. n \in M
  BY <1>4 DEF N
<1> QED
  BY <1>5 DEF f

\* Only returns a sequence of the elements that are in the set.
LEMMA OnlyFacts ==
  ASSUME NEW T, NEW s \in Seq(T), NEW S
  PROVE  /\ Only(s, S) \in Seq(T)
         /\ ToSet(Only(s, S)) = ToSet(s) \intersect S
<1>1. Len(s) \in Nat /\ Len(s) \in 0..Len(s) /\ DOMAIN s = 1..Len(s)
  OBVIOUS
<1>2. /\ Only(s, S) = OnlyUpTo(s, S)[Len(s)]
      /\ OnlyUpTo(s, S) \in [0..Len(s) -> Seq(T)]
  BY OnlyRounds
<1>3. ToSet(OnlyUpTo(s, S)[Len(s)]) = {s[j] : j \in 1..Len(s)} \intersect S
  BY <1>1, OnlyUpToSet
<1> QED
  BY <1>1, <1>2, <1>3 DEF ToSet

\* A relation between each element and those behind it survives Only.
LEMMA OnlyKeeps ==
  ASSUME NEW T, NEW s \in Seq(T), NEW S, NEW R,
         \A i, j \in 1..Len(s) : i < j => <<s[i], s[j]>> \in R
  PROVE  LET t == Only(s, S)
         IN  \A a, b \in 1..Len(t) : a < b => <<t[a], t[b]>> \in R
<1> DEFINE f == OnlyUpTo(s, S)
           N == Len(s)
           Kept(t) == \A a, b \in 1..Len(t) : a < b => <<t[a], t[b]>> \in R
           M == {i \in 0..N : Kept(f[i])}
<1>1. /\ N \in Nat
      /\ \A i \in 1..N : s[i] \in T
      /\ \A i \in 0..N : f[i] \in Seq(T)
      /\ f[0] = <<>>
      /\ \A i \in 1..N :
           f[i] = IF s[i] \in S THEN Append(f[i - 1], s[i]) ELSE f[i - 1]
      /\ Only(s, S) = f[N]
  BY OnlyRounds
<1>2. \A i \in 0..N : ToSet(f[i]) = {s[j] : j \in 1..i} \intersect S
  BY OnlyUpToSet
<1>3. \A i, j \in 1..N : i < j => <<s[i], s[j]>> \in R
  OBVIOUS
<1> HIDE DEF f, N
<1>4. 0 \in M
  BY <1>1
<1>5. ASSUME NEW i \in 1..N, i - 1 \in M PROVE i \in M
  <2>1. i \in 0..N /\ i - 1 \in 0..N
    BY <1>1
  <2>2. Kept(f[i - 1])
    BY <1>5
  <2>3. CASE s[i] \in S
    <3> DEFINE t == f[i - 1]
               u == Append(t, s[i])
    <3>1. f[i] = u
      BY <1>1, <2>3
    <3>2. t \in Seq(T) /\ s[i] \in T
      BY <1>1, <2>1
    <3>3. /\ Len(t) \in Nat
          /\ DOMAIN t = 1..Len(t)
          /\ Len(u) = Len(t) + 1
          /\ u[Len(t) + 1] = s[i]
          /\ \A a \in 1..Len(t) : u[a] = t[a]
      BY <3>2, AppendFacts
    <3>4. ASSUME NEW a \in 1..Len(t) PROVE <<t[a], s[i]>> \in R
      <4>1. t[a] \in ToSet(t)
        BY <3>3 DEF ToSet
      <4>2. PICK j \in 1..(i - 1) : t[a] = s[j]
        BY <1>2, <2>1, <4>1
      <4> QED
        BY <1>1, <1>3, <4>2
    <3> HIDE DEF u, t
    <3>5. Kept(t)
      BY <2>2 DEF t
    <3>6. Kept(u)
      <4>1. SUFFICES ASSUME NEW a \in 1..Len(u), NEW b \in 1..Len(u), a < b
                     PROVE  <<u[a], u[b]>> \in R
        OBVIOUS
      <4>2. a \in 1..Len(t) /\ u[a] = t[a]
        BY <3>3, <4>1
      <4>3. CASE b = Len(t) + 1
        BY <3>3, <3>4, <4>2, <4>3
      <4>4. CASE b # Len(t) + 1
        <5>1. b \in 1..Len(t) /\ u[b] = t[b]
          BY <3>3, <4>4
        <5> QED
          BY <3>5, <4>1, <4>2, <5>1
      <4> QED
        BY <4>3, <4>4
    <3> QED
      BY <2>1, <3>1, <3>6
  <2>4. CASE s[i] \notin S
    BY <1>1, <2>1, <2>2, <2>4
  <2> QED
    BY <2>3, <2>4
<1>6. 0..N \subseteq M
  <2> HIDE DEF M
  <2> QED
    BY <1>1, <1>4, <1>5, UpToInduction
<1>7. N \in 0..N
  BY <1>1
<1> QED
  BY <1>1, <1>6, <1>7

-----------------------------------------------------------------------------
(* Grids. *)

\* Grids with ids of I, questions of N and kinds of K.
RowsOf(I, N, K) == [id : I, name : N, kind : K]

GridsOf(I, N, K) ==
    [rows : Seq(RowsOf(I, N, K)), sel : Seq(I), lit : SUBSET I, loading : BOOLEAN]

\* Pairs of rows that share neither an id nor a question, and pairs of ids.
Apart(I, N, K) ==
    {p \in RowsOf(I, N, K) \X RowsOf(I, N, K) :
        p[1].id # p[2].id /\ p[1].name # p[2].name}

Differ(I) == {p \in I \X I : p[1] # p[2]}

\* Rows are told apart by their ids and by their questions, no id is selected
\* twice, and only rows that are there are highlighted.
SoundGrids(I, N, K) ==
    {g \in GridsOf(I, N, K) :
        /\ \A i, j \in 1..Len(g.rows) :
              i < j => <<g.rows[i], g.rows[j]>> \in Apart(I, N, K)
        /\ \A i, j \in 1..Len(g.sel) :
              i < j => <<g.sel[i], g.sel[j]>> \in Differ(I)
        /\ g.lit \subseteq Ids(g)}

\* What is selected is highlighted, and the other way round.
SelIsLit(g) == ToSet(g.sel) \subseteq g.lit
LitIsSel(g) == g.lit \subseteq ToSet(g.sel)

\* What a click makes of a grid.
Clicked(I, N, K, g, h) ==
    /\ h \in SoundGrids(I, N, K)
    /\ h.loading = g.loading
    /\ SelIsLit(g) => SelIsLit(h)
    /\ LitIsSel(g) => LitIsSel(h)

\* Rows of a grid have ids, questions and kinds of the given sets.
LEMMA RowFacts ==
  ASSUME NEW I, NEW N, NEW K, NEW g \in GridsOf(I, N, K)
  PROVE  /\ Len(g.rows) \in Nat /\ DOMAIN g.rows = 1..Len(g.rows)
         /\ \A i \in 1..Len(g.rows) : /\ g.rows[i] \in RowsOf(I, N, K)
                                     /\ g.rows[i].id \in I
                                     /\ g.rows[i].name \in N
                                     /\ g.rows[i].kind \in K
         /\ Ids(g) \subseteq I
<1> DEFINE R == RowsOf(I, N, K)
<1>1. g.rows \in Seq(R)
  BY DEF GridsOf
<1>2. \A r \in R : r.id \in I /\ r.name \in N /\ r.kind \in K
  BY DEF RowsOf
<1> DEFINE rows == g.rows
<1>3. Len(rows) \in Nat /\ DOMAIN rows = 1..Len(rows)
      /\ \A i \in 1..Len(rows) : rows[i] \in R
  <2> HIDE DEF R, rows
  <2> QED
    BY <1>1 DEF rows
<1>4. \A i \in 1..Len(rows) : rows[i].id \in I /\ rows[i].name \in N /\ rows[i].kind \in K
  <2> HIDE DEF R, rows
  <2> QED
    BY <1>2, <1>3
<1>5. Ids(g) \subseteq I
  BY <1>3, <1>4 DEF Ids
<1> QED
  BY <1>3, <1>4, <1>5

\* A click on a check box leaves a grid sound, selected and lit alike.
LEMMA ClickBoxFacts ==
  ASSUME NEW I, NEW N, NEW K, NEW g \in SoundGrids(I, N, K), NEW id \in Ids(g)
  PROVE  Clicked(I, N, K, g, ClickBox(g, id))
<1> DEFINE h == ClickBox(g, id)
<1>1. /\ g \in GridsOf(I, N, K)
      /\ g.rows \in Seq(RowsOf(I, N, K)) /\ g.sel \in Seq(I) /\ g.lit \subseteq I
      /\ g.lit \subseteq Ids(g)
      /\ \A i, j \in 1..Len(g.sel) :
            i < j => <<g.sel[i], g.sel[j]>> \in Differ(I)
  BY DEF SoundGrids, GridsOf
<1>2. id \in I
  BY <1>1, RowFacts
<1>3. DOMAIN g.sel = 1..Len(g.sel) /\ Len(g.sel) \in Nat
  BY <1>1
<1>4. CASE Contains(g.sel, id)
  <2> DEFINE t == Only(g.sel, ToSet(g.sel) \ {id})
  <2>1. h = [g EXCEPT !.sel = t, !.lit = @ \ {id}]
    BY <1>4 DEF ClickBox
  <2>2. t \in Seq(I) /\ ToSet(t) = ToSet(g.sel) \ {id}
    BY <1>1, OnlyFacts
  <2>3. \A i, j \in 1..Len(t) : i < j => <<t[i], t[j]>> \in Differ(I)
    BY <1>1, OnlyKeeps
  <2> HIDE DEF t, h
  <2>4. /\ h \in GridsOf(I, N, K)
        /\ h.rows = g.rows /\ h.sel = t /\ h.lit = g.lit \ {id}
        /\ h.loading = g.loading
    BY <1>1, <2>1, <2>2 DEF GridsOf
  <2>5. h \in SoundGrids(I, N, K)
    BY <1>1, <2>3, <2>4 DEF SoundGrids, Ids
  <2> QED
    BY <2>2, <2>4, <2>5 DEF Clicked, SelIsLit, LitIsSel, h
<1>5. CASE ~Contains(g.sel, id)
  <2> DEFINE t == Append(g.sel, id)
  <2>1. h = [g EXCEPT !.sel = t, !.lit = @ \union {id}]
    BY <1>5 DEF ClickBox
  <2>2. /\ t \in Seq(I) /\ ToSet(t) = ToSet(g.sel) \union {id}
        /\ Len(t) = Len(g.sel) + 1
        /\ t[Len(g.sel) + 1] = id
        /\ \A i \in 1..Len(g.sel) : t[i] = g.sel[i]
    BY <1>1, <1>2, AppendFacts
  <2> HIDE DEF t, h
  <2>3. \A i, j \in 1..Len(t) : i < j => <<t[i], t[j]>> \in Differ(I)
    <3>1. SUFFICES ASSUME NEW i \in 1..Len(t), NEW j \in 1..Len(t), i < j
                   PROVE  <<t[i], t[j]>> \in Differ(I)
      OBVIOUS
    <3>2. i \in 1..Len(g.sel) /\ t[i] = g.sel[i] /\ t[i] \in I
      BY <1>1, <1>3, <2>2, <3>1
    <3>3. CASE j = Len(g.sel) + 1
      <4>1. t[j] = id /\ t[i] # id
        BY <1>5, <2>2, <3>2, <3>3 DEF Contains
      <4> QED
        BY <1>2, <3>2, <4>1 DEF Differ
    <3>4. CASE j # Len(g.sel) + 1
      <4>1. j \in 1..Len(g.sel) /\ t[j] = g.sel[j]
        BY <1>3, <2>2, <3>4
      <4> QED
        BY <1>1, <3>1, <3>2, <4>1
    <3> QED
      BY <3>3, <3>4
  <2>4. /\ h \in GridsOf(I, N, K)
        /\ h.rows = g.rows /\ h.sel = t /\ h.lit = g.lit \union {id}
        /\ h.loading = g.loading
    BY <1>1, <1>2, <2>1, <2>2 DEF GridsOf
  <2>5. h.lit \subseteq Ids(h)
    BY <1>1, <2>4 DEF Ids
  <2>6. h \in SoundGrids(I, N, K)
    BY <2>3, <2>4, <2>5 DEF SoundGrids
  <2> QED
    BY <2>2, <2>4, <2>6 DEF Clicked, SelIsLit, LitIsSel, h
<1> QED
  BY <1>4, <1>5

\* So does a click elsewhere in the row,
LEMMA ClickRowFacts ==
  ASSUME NEW I, NEW N, NEW K, NEW g \in SoundGrids(I, N, K), NEW id \in Ids(g)
  PROVE  Clicked(I, N, K, g, ClickRow(g, id))
<1> DEFINE h == ClickRow(g, id)
           t == <<id>>
<1>1. /\ g \in GridsOf(I, N, K)
      /\ g.rows \in Seq(RowsOf(I, N, K)) /\ g.lit \subseteq I
      /\ g.lit \subseteq Ids(g)
  BY DEF SoundGrids, GridsOf
<1>2. id \in I
  BY <1>1, RowFacts
<1>3. t \in Seq(I) /\ Len(t) = 1 /\ ToSet(t) = {id}
  BY <1>2 DEF ToSet
<1>4. h = [g EXCEPT !.sel = t, !.lit = (@ \ ToSet(g.sel)) \union {id}]
  BY DEF ClickRow
<1>5. \A i, j \in 1..Len(t) : i < j => <<t[i], t[j]>> \in Differ(I)
  BY <1>3
<1> HIDE DEF t, h
<1>6. /\ h \in GridsOf(I, N, K)
      /\ h.rows = g.rows /\ h.sel = t
      /\ h.lit = (g.lit \ ToSet(g.sel)) \union {id}
      /\ h.loading = g.loading
  BY <1>1, <1>2, <1>3, <1>4 DEF GridsOf
<1>7. h.lit \subseteq Ids(h)
  BY <1>1, <1>6 DEF Ids
<1>8. h \in SoundGrids(I, N, K)
  BY <1>5, <1>6, <1>7 DEF SoundGrids
<1> QED
  BY <1>3, <1>6, <1>8 DEF Clicked, SelIsLit, LitIsSel, h

\* and one on the check box of the header.
LEMMA ClickHeadFacts ==
  ASSUME NEW I, NEW N, NEW K, NEW g \in SoundGrids(I, N, K), NEW checked \in BOOLEAN
  PROVE  Clicked(I, N, K, g, ClickHead(g, checked))
<1> DEFINE h == ClickHead(g, checked)
<1>1. /\ g \in GridsOf(I, N, K)
      /\ g.rows \in Seq(RowsOf(I, N, K)) /\ g.lit \subseteq I
      /\ g.lit \subseteq Ids(g)
      /\ \A i, j \in 1..Len(g.rows) :
            i < j => <<g.rows[i], g.rows[j]>> \in Apart(I, N, K)
  BY DEF SoundGrids, GridsOf
<1>2. CASE checked
  <2> DEFINE t == [i \in DOMAIN g.rows |-> g.rows[i].id]
  <2>1. /\ Len(g.rows) \in Nat /\ DOMAIN g.rows = 1..Len(g.rows)
        /\ \A i \in 1..Len(g.rows) :
             g.rows[i].id \in I /\ g.rows[i] \in RowsOf(I, N, K)
    BY <1>1, RowFacts
  <2>2. t \in Seq(I) /\ Len(t) = Len(g.rows)
    BY <2>1
  <2>3. ToSet(t) = Ids(g)
    BY DEF ToSet, Ids
  <2>4. \A i, j \in 1..Len(t) : i < j => <<t[i], t[j]>> \in Differ(I)
    BY <1>1, <2>1, <2>2 DEF Apart, Differ
  <2>5. h = [g EXCEPT !.sel = t, !.lit = Ids(g)]
    BY <1>2 DEF ClickHead
  <2>6. Ids(g) \subseteq I
    BY <2>1 DEF Ids
  <2> HIDE DEF t, h
  <2>7. /\ h \in GridsOf(I, N, K)
        /\ h.rows = g.rows /\ h.sel = t /\ h.lit = Ids(g)
        /\ h.loading = g.loading
    BY <1>1, <2>2, <2>5, <2>6 DEF GridsOf
  <2>8. h \in SoundGrids(I, N, K)
    BY <1>1, <2>4, <2>7 DEF SoundGrids, Ids
  <2> QED
    BY <2>3, <2>7, <2>8 DEF Clicked, SelIsLit, LitIsSel, h
<1>3. CASE ~checked
  <2>1. h = [g EXCEPT !.sel = <<>>, !.lit = {}] /\ <<>> \in Seq(I)
    BY <1>3 DEF ClickHead
  <2> HIDE DEF h
  <2>2. /\ h \in GridsOf(I, N, K)
        /\ h.rows = g.rows /\ h.sel = <<>> /\ h.lit = {}
        /\ h.loading = g.loading
    BY <1>1, <2>1 DEF GridsOf
  <2>3. h \in SoundGrids(I, N, K)
    BY <1>1, <2>2 DEF SoundGrids
  <2> QED
    BY <2>2, <2>3 DEF Clicked, SelIsLit, LitIsSel, ToSet, h
<1> QED
  BY <1>2, <1>3

\* Rows that go take their highlighting along, and their selection if their ids
\* are given as strings.
Deleted(I, N, K, g, h, asString) ==
    /\ h \in SoundGrids(I, N, K)
    /\ h.loading = g.loading
    /\ LitIsSel(g) => LitIsSel(h)
    /\ asString /\ SelIsLit(g) => SelIsLit(h)
    /\ h.sel = <<>> \/ g.sel # <<>>

\* Removing rows leaves a grid sound and lit rows selected; ids given as strings
\* leave the selection with the rows, others stay in it.
LEMMA DelRowsFacts ==
  ASSUME NEW I, NEW N, NEW K, NEW g \in SoundGrids(I, N, K),
         NEW ids, NEW asString \in BOOLEAN
  PROVE  Deleted(I, N, K, g, DelRows(g, ids, asString), asString)
<1> DEFINE h == DelRows(g, ids, asString)
           gone == ToSet(ids) \intersect Ids(g)
           keep == {r \in ToSet(g.rows) : r.id \notin gone}
           rows == Only(g.rows, keep)
           sel == IF asString THEN Only(g.sel, ToSet(g.sel) \ gone) ELSE g.sel
<1>1. /\ g \in GridsOf(I, N, K)
      /\ g.rows \in Seq(RowsOf(I, N, K)) /\ g.sel \in Seq(I) /\ g.lit \subseteq I
      /\ g.lit \subseteq Ids(g)
      /\ \A i, j \in 1..Len(g.rows) :
            i < j => <<g.rows[i], g.rows[j]>> \in Apart(I, N, K)
      /\ \A i, j \in 1..Len(g.sel) :
            i < j => <<g.sel[i], g.sel[j]>> \in Differ(I)
  BY DEF SoundGrids, GridsOf
<1>2. h = [g EXCEPT !.rows = rows, !.lit = @ \ gone, !.sel = sel]
  BY DEF DelRows
<1>3. rows \in Seq(RowsOf(I, N, K)) /\ ToSet(rows) = keep
  BY <1>1, OnlyFacts
<1>4. \A i, j \in 1..Len(rows) : i < j => <<rows[i], rows[j]>> \in Apart(I, N, K)
  BY <1>1, OnlyKeeps
<1>5. /\ sel \in Seq(I)
      /\ ToSet(sel) = IF asString THEN ToSet(g.sel) \ gone ELSE ToSet(g.sel)
  <2> DEFINE t == Only(g.sel, ToSet(g.sel) \ gone)
  <2>1. t \in Seq(I) /\ ToSet(t) = ToSet(g.sel) \ gone
    <3> HIDE DEF gone
    <3>1. t \in Seq(I) /\ ToSet(t) = ToSet(g.sel) \intersect (ToSet(g.sel) \ gone)
      BY <1>1, OnlyFacts
    <3> QED
      BY <3>1
  <2> HIDE DEF t, gone
  <2> QED
    BY <1>1, <2>1 DEF t
<1>6. \A i, j \in 1..Len(sel) : i < j => <<sel[i], sel[j]>> \in Differ(I)
  <2> DEFINE t == Only(g.sel, ToSet(g.sel) \ gone)
  <2>1. \A i, j \in 1..Len(t) : i < j => <<t[i], t[j]>> \in Differ(I)
    <3> HIDE DEF gone
    <3> QED
      BY <1>1, OnlyKeeps
  <2>2. CASE asString
    <3>1. sel = t
      BY <2>2
    <3> HIDE DEF t, sel
    <3> QED
      BY <2>1, <3>1
  <2>3. CASE ~asString
    <3>1. sel = g.sel
      BY <2>3
    <3> HIDE DEF sel
    <3> QED
      BY <1>1, <3>1
  <2> QED
    BY <2>2, <2>3
<1>7. g.lit \ gone \subseteq {r.id : r \in keep}
  BY <1>1 DEF Ids, ToSet
<1>8. sel = <<>> \/ g.sel # <<>>
  <2>1. SUFFICES ASSUME g.sel = <<>> PROVE sel = <<>>
    OBVIOUS
  <2>2. ToSet(g.sel) = {}
    BY <2>1 DEF ToSet
  <2>3. ToSet(sel) = {}
    BY <1>5, <2>2
  <2> HIDE DEF sel
  <2> QED
    BY <1>5, <2>3 DEF ToSet
<1> HIDE DEF h, sel, rows, keep, gone
<1>9. /\ h \in GridsOf(I, N, K)
      /\ h.rows = rows /\ h.sel = sel /\ h.lit = g.lit \ gone
      /\ h.loading = g.loading
  BY <1>1, <1>2, <1>3, <1>5 DEF GridsOf
<1>10. Ids(h) = {r.id : r \in ToSet(rows)}
  BY <1>9 DEF Ids, ToSet
<1>11. h \in SoundGrids(I, N, K)
  BY <1>3, <1>4, <1>6, <1>7, <1>9, <1>10 DEF SoundGrids
<1> QED
  BY <1>5, <1>8, <1>9, <1>11 DEF Deleted, LitIsSel, SelIsLit, h

\* A page that fits replaces the rows; nothing of it is highlighted.
PagesOf(I, N, K) ==
    {p \in Seq([name : N, kind : K]) :
        /\ 1..Len(p) \subseteq I
        /\ \A i, j \in 1..Len(p) : p[i].name = p[j].name => i = j}

\* A page without a question twice makes a sound grid with nothing lit.
LEMMA LoadedFacts ==
  ASSUME NEW I, NEW N, NEW K, NEW g \in SoundGrids(I, N, K),
         NEW p \in PagesOf(I, N, K)
  PROVE  LET h == Loaded(g, p)
         IN  /\ h \in SoundGrids(I, N, K)
             /\ ~h.loading
             /\ h.lit = {}
             /\ h.sel = g.sel
<1> DEFINE h == Loaded(g, p)
           rows == [i \in DOMAIN p |->
                      [id |-> i, name |-> p[i].name, kind |-> p[i].kind]]
<1>1. /\ g \in GridsOf(I, N, K)
      /\ g.sel \in Seq(I)
      /\ \A i, j \in 1..Len(g.sel) :
            i < j => <<g.sel[i], g.sel[j]>> \in Differ(I)
  BY DEF SoundGrids, GridsOf
<1>2. h = [g EXCEPT !.rows = rows, !.lit = {}, !.loading = FALSE]
  BY DEF Loaded
<1>3. /\ Len(p) \in Nat /\ DOMAIN p = 1..Len(p)
      /\ \A i \in 1..Len(p) : p[i].name \in N /\ p[i].kind \in K
      /\ 1..Len(p) \subseteq I
      /\ \A i, j \in 1..Len(p) : p[i].name = p[j].name => i = j
  <2> DEFINE Q == [name : N, kind : K]
  <2>1. \A q \in Q : q.name \in N /\ q.kind \in K
    OBVIOUS
  <2>2. /\ p \in Seq(Q)
        /\ 1..Len(p) \subseteq I
        /\ \A i, j \in 1..Len(p) : p[i].name = p[j].name => i = j
    BY DEF PagesOf
  <2> HIDE DEF Q
  <2> QED
    BY <2>1, <2>2
<1>4. \A i \in 1..Len(p) : /\ rows[i] \in RowsOf(I, N, K)
                           /\ rows[i].id = i /\ rows[i].name = p[i].name
  BY <1>3 DEF RowsOf
<1>5. DOMAIN rows = 1..Len(p)
  BY <1>3
<1>6. rows \in Seq(RowsOf(I, N, K)) /\ Len(rows) = Len(p)
  <2> DEFINE R == RowsOf(I, N, K)
  <2>1. rows \in [1..Len(p) -> R]
    BY <1>3, <1>4
  <2> HIDE DEF R, rows
  <2> QED
    BY <1>3, <2>1 DEF R
<1>7. ASSUME NEW i \in 1..Len(rows), NEW j \in 1..Len(rows), i < j
      PROVE  <<rows[i], rows[j]>> \in Apart(I, N, K)
  <2>1. i \in 1..Len(p) /\ j \in 1..Len(p) /\ i # j
    BY <1>3, <1>6, <1>7
  <2>2. rows[i].id # rows[j].id /\ rows[i].name # rows[j].name
    BY <1>3, <1>4, <2>1
  <2> HIDE DEF rows
  <2> QED
    BY <1>4, <2>1, <2>2 DEF Apart
<1> HIDE DEF h, rows
<1>8. /\ h \in GridsOf(I, N, K)
      /\ h.rows = rows /\ h.sel = g.sel /\ h.lit = {}
      /\ ~h.loading
  BY <1>1, <1>2, <1>6 DEF GridsOf
<1>9. h \in SoundGrids(I, N, K)
  BY <1>1, <1>7, <1>8 DEF SoundGrids
<1> QED
  BY <1>8, <1>9 DEF h

\* Asking for a reload selects nothing and changes no row.
LEMMA ReloadFacts ==
  ASSUME NEW I, NEW N, NEW K, NEW g \in SoundGrids(I, N, K)
  PROVE  LET h == Reload(g)
         IN  /\ h \in SoundGrids(I, N, K)
             /\ h.sel = <<>> /\ h.loading
             /\ h.rows = g.rows /\ h.lit = g.lit
<1> DEFINE h == Reload(g)
<1>1. h = [g EXCEPT !.sel = <<>>, !.loading = TRUE] /\ <<>> \in Seq(I)
  BY DEF Reload
<1> HIDE DEF h
<1>2. /\ h \in GridsOf(I, N, K)
      /\ h.sel = <<>> /\ h.loading
      /\ h.rows = g.rows /\ h.lit = g.lit
  BY <1>1 DEF SoundGrids, GridsOf
<1>3. h \in SoundGrids(I, N, K)
  BY <1>2 DEF SoundGrids, Ids
<1> QED
  BY <1>2, <1>3 DEF h

\* A load that fails changes nothing but that it is under way no more.
LEMMA LoadFailedFacts ==
  ASSUME NEW I, NEW N, NEW K, NEW g \in SoundGrids(I, N, K)
  PROVE  LET h == LoadFailed(g)
         IN  /\ h \in SoundGrids(I, N, K)
             /\ h.sel = g.sel /\ ~h.loading
             /\ h.rows = g.rows /\ h.lit = g.lit
<1> DEFINE h == LoadFailed(g)
<1>1. h = [g EXCEPT !.loading = FALSE]
  BY DEF LoadFailed
<1> HIDE DEF h
<1>2. /\ h \in GridsOf(I, N, K)
      /\ h.sel = g.sel /\ ~h.loading
      /\ h.rows = g.rows /\ h.lit = g.lit
  BY <1>1 DEF SoundGrids, GridsOf
<1>3. h \in SoundGrids(I, N, K)
  BY <1>2 DEF SoundGrids, Ids
<1> QED
  BY <1>2, <1>3 DEF h

\* A row is added below the others.
RowOf(id, q) == [id |-> id, name |-> q.name, kind |-> q.kind]

\* A row more leaves a grid a grid.
LEMMA AddRowTyped ==
  ASSUME NEW I, NEW N, NEW K, NEW g \in GridsOf(I, N, K),
         NEW id \in I, NEW q \in [name : N, kind : K]
  PROVE  LET h == AddRow(g, id, q)
         IN  /\ h \in GridsOf(I, N, K)
             /\ RowOf(id, q) \in RowsOf(I, N, K)
             /\ h.rows = Append(g.rows, RowOf(id, q))
             /\ h.sel = g.sel /\ h.lit = g.lit /\ h.loading = g.loading
<1> DEFINE h == AddRow(g, id, q)
           r == RowOf(id, q)
<1>1. r \in RowsOf(I, N, K)
  BY DEF RowsOf, RowOf
<1>2. h = [g EXCEPT !.rows = Append(@, r)]
  BY DEF AddRow, RowOf
<1>3. g.rows \in Seq(RowsOf(I, N, K))
  BY DEF GridsOf
<1>4. Append(g.rows, r) \in Seq(RowsOf(I, N, K))
  BY <1>1, <1>3, AppendFacts
<1> HIDE DEF r, h
<1> QED
  BY <1>1, <1>2, <1>4 DEF GridsOf, h, r

\* If neither its id nor its question is there yet, rows stay apart.
LEMMA AddRowFacts ==
  ASSUME NEW I, NEW N, NEW K, NEW g \in SoundGrids(I, N, K),
         NEW id \in I, id \notin Ids(g),
         NEW q \in [name : N, kind : K], q.name \notin Names(g)
  PROVE  LET h == AddRow(g, id, q)
         IN  /\ h \in SoundGrids(I, N, K)
             /\ Names(h) = Names(g) \union {q.name}
             /\ h.sel = g.sel /\ h.lit = g.lit /\ h.loading = g.loading
<1> DEFINE h == AddRow(g, id, q)
           R == RowsOf(I, N, K)
           r == RowOf(id, q)
           n == Len(g.rows)
<1>1. /\ g \in GridsOf(I, N, K)
      /\ g.rows \in Seq(R)
      /\ g.lit \subseteq Ids(g)
      /\ \A i, j \in 1..n :
            i < j => <<g.rows[i], g.rows[j]>> \in Apart(I, N, K)
      /\ \A i, j \in 1..Len(g.sel) :
            i < j => <<g.sel[i], g.sel[j]>> \in Differ(I)
  BY DEF SoundGrids, GridsOf
<1>2. /\ n \in Nat /\ DOMAIN g.rows = 1..n
      /\ \A i \in 1..n : g.rows[i] \in R
  BY <1>1, RowFacts
<1>3. /\ h \in GridsOf(I, N, K) /\ r \in R
      /\ h.rows = Append(g.rows, r)
      /\ h.sel = g.sel /\ h.lit = g.lit /\ h.loading = g.loading
  BY <1>1, AddRowTyped
<1>4. /\ h.rows \in Seq(R) /\ Len(h.rows) = n + 1
      /\ h.rows[n + 1] = r
      /\ \A i \in 1..n : h.rows[i] = g.rows[i]
  <2> DEFINE u == Append(g.rows, r)
  <2>1. /\ u \in Seq(R) /\ Len(u) = n + 1 /\ u[n + 1] = r
        /\ \A i \in 1..n : u[i] = g.rows[i]
    <3> HIDE DEF R, r
    <3> QED
      BY <1>1, <1>3, AppendFacts
  <2> HIDE DEF u
  <2> QED
    BY <1>3, <2>1 DEF u
<1>5. r.id = id /\ r.name = q.name
  BY DEF RowOf
<1>6. DOMAIN h.rows = 1..(n + 1) /\ 1..(n + 1) = 1..n \union {n + 1}
  BY <1>2, <1>4
<1>7. ASSUME NEW i \in 1..n
      PROVE  g.rows[i].id # id /\ g.rows[i].name # q.name
  BY <1>2 DEF Ids, Names
<1> HIDE DEF h, r, R, n
<1>8. Names(h) = Names(g) \union {q.name}
  BY <1>2, <1>4, <1>5, <1>6 DEF Names
<1>9. Ids(g) \subseteq Ids(h)
  BY <1>2, <1>4, <1>6 DEF Ids
<1>10. ASSUME NEW i \in 1..Len(h.rows), NEW j \in 1..Len(h.rows), i < j
       PROVE  <<h.rows[i], h.rows[j]>> \in Apart(I, N, K)
  <2>1. i \in 1..n /\ h.rows[i] = g.rows[i]
    BY <1>2, <1>4, <1>10
  <2>2. CASE j = n + 1
    <3>1. h.rows[j] = r /\ g.rows[i] \in R
      BY <1>2, <1>4, <2>1, <2>2
    <3>2. <<g.rows[i], r>> \in R \X R
      BY <1>3, <3>1
    <3>3. g.rows[i].id # r.id /\ g.rows[i].name # r.name
      BY <1>5, <1>7, <2>1
    <3> QED
      BY <2>1, <3>1, <3>2, <3>3 DEF Apart, R
  <2>3. CASE j # n + 1
    <3>1. j \in 1..n /\ h.rows[j] = g.rows[j]
      BY <1>2, <1>4, <2>3
    <3> QED
      BY <1>1, <1>10, <2>1, <3>1
  <2> QED
    BY <2>2, <2>3
<1>11. h \in SoundGrids(I, N, K)
  BY <1>1, <1>3, <1>9, <1>10 DEF SoundGrids
<1> QED
  BY <1>3, <1>8, <1>11 DEF h
=============================================================================
