------------------------ MODULE QuestionBoardsProofs ------------------------
(***************************************************************************)
(* Proofs about QuestionBoards.                                            *)
(***************************************************************************)
EXTENDS QuestionBoards, DataGridProofs

SideNames == {"left", "right"}
Doubts == {"none", "early", "removed", "failed"}
IdSet == 1..MaxId
RightKinds == Kinds \union {"staged"}

Call == [verb : {"publish", "delete", "nullity", "close", "approve", "reject"},
         from : SideNames,
         names : Seq(Questions \union {Undefined})]

\* How the selection and the highlighting of a grid agree: with nothing in
\* between they do, and hasty clicks and removals still leave the highlighted
\* rows selected once the grid has been loaded.
Agrees(g, d) ==
    /\ d = "none" => SelIsLit(g) /\ (g.loading => g.sel = <<>>)
    /\ d # "failed" /\ ~g.loading => LitIsSel(g)

BoardInv ==
    /\ page \in Pages
    /\ left \in SoundGrids(IdSet, Questions, Kinds)
    /\ right \in SoundGrids(IdSet, Questions, RightKinds)
    /\ dialog \in Seq(Questions)
    /\ calls \in Seq(Call)
    /\ doubt \in [SideNames -> Doubts]
    /\ Agrees(left, doubt["left"])
    /\ Agrees(right, doubt["right"])

-----------------------------------------------------------------------------
(* Questions of a grid. *)

\* getRowData finds the one row with the id, if there is one.
LEMMA QuestionAtFacts ==
  ASSUME NEW I, NEW N, NEW K, NEW g \in SoundGrids(I, N, K), NEW id
  PROVE  /\ id \notin Ids(g) =>
              QuestionAt(g, id) = [id |-> id, name |-> Undefined, kind |-> "minor"]
         /\ \A r \in ToSet(g.rows) : r.id = id => QuestionAt(g, id) = r
<1>1. /\ Len(g.rows) \in Nat /\ DOMAIN g.rows = 1..Len(g.rows)
      /\ \A i, j \in 1..Len(g.rows) :
            i < j => <<g.rows[i], g.rows[j]>> \in Apart(I, N, K)
  BY RowFacts DEF SoundGrids
<1>2. \A i, j \in 1..Len(g.rows) : i < j => g.rows[i].id # g.rows[j].id
  BY <1>1 DEF Apart
<1>3. \A i, j \in 1..Len(g.rows) : g.rows[i].id = g.rows[j].id => i = j
  BY <1>1, <1>2
<1>4. ASSUME id \notin Ids(g) PROVE RowsAt(g, id) = {}
  BY <1>4 DEF RowsAt, Ids, ToSet
<1>5. ASSUME NEW r \in ToSet(g.rows), r.id = id PROVE RowsAt(g, id) = {r}
  BY <1>1, <1>3, <1>5 DEF RowsAt, ToSet
<1>6. ASSUME NEW r \in ToSet(g.rows), r.id = id PROVE QuestionAt(g, id) = r
  <2>1. RowsAt(g, id) = {r}
    BY <1>5, <1>6
  <2> QED
    BY <2>1 DEF QuestionAt
<1> QED
  BY <1>4, <1>6 DEF QuestionAt

\* So what is selected is a row, or a question that does not exist.
LEMMA QuestionAtTyped ==
  ASSUME NEW I, NEW K, NEW g \in SoundGrids(I, Questions, K), NEW id \in I
  PROVE  LET q == QuestionAt(g, id)
         IN  \/ q \in ToSet(g.rows) /\ q \in RowsOf(I, Questions, K) /\ q.id = id
             \/ q = [id |-> id, name |-> Undefined, kind |-> "minor"]
<1>1. /\ DOMAIN g.rows = 1..Len(g.rows)
      /\ \A i \in 1..Len(g.rows) : g.rows[i] \in RowsOf(I, Questions, K)
  BY RowFacts DEF SoundGrids
<1>2. CASE id \in Ids(g)
  <2>1. PICK i \in 1..Len(g.rows) : g.rows[i].id = id
    BY <1>1, <1>2 DEF Ids
  <2>2. g.rows[i] \in ToSet(g.rows) /\ g.rows[i] \in RowsOf(I, Questions, K)
    BY <1>1 DEF ToSet
  <2>3. QuestionAt(g, id) = g.rows[i]
    BY <2>1, <2>2, QuestionAtFacts
  <2> QED
    BY <2>1, <2>2, <2>3
<1>3. CASE id \notin Ids(g)
  BY <1>3, QuestionAtFacts
<1> QED
  BY <1>2, <1>3

-----------------------------------------------------------------------------
(* Staging. *)

Positive == Nat \ {0}

\* A sequence of numbers has a largest one.
LEMMA LargestExists ==
  ASSUME NEW n \in Nat, n # 0, NEW f, \A i \in 1..n : f[i] \in Nat
  PROVE  \E m \in 1..n : \A i \in 1..n : f[m] >= f[i]
<1> DEFINE M == {k \in 0..n : k = 0 \/ \E m \in 1..k : \A i \in 1..k : f[m] >= f[i]}
<1>1. 0 \in M
  OBVIOUS
<1>2. ASSUME NEW k \in 1..n, k - 1 \in M PROVE k \in M
  <2>1. CASE k = 1
    <3>1. 1 \in 1..k /\ \A i \in 1..k : f[1] >= f[i]
      BY <2>1
    <3> QED
      BY <3>1
  <2>2. CASE k # 1
    <3>1. PICK m \in 1..(k - 1) : \A i \in 1..(k - 1) : f[m] >= f[i]
      BY <1>2, <2>2
    <3>2. CASE f[k] >= f[m]
      <4>1. k \in 1..k /\ \A i \in 1..k : f[k] >= f[i]
        BY <3>1, <3>2
      <4> QED
        BY <4>1
    <3>3. CASE ~(f[k] >= f[m])
      <4>1. m \in 1..k /\ \A i \in 1..k : f[m] >= f[i]
        BY <3>1, <3>3
      <4> QED
        BY <4>1
    <3> QED
      BY <3>2, <3>3
  <2> QED
    BY <2>1, <2>2
<1>3. 0..n \subseteq M
  <2> HIDE DEF M
  <2> QED
    BY <1>1, <1>2, UpToInduction
<1>4. n \in 0..n
  OBVIOUS
<1> QED
  BY <1>3, <1>4

\* The id of a new row is a number that no row has.
LEMMA NextIdFacts ==
  ASSUME NEW N, NEW K, NEW g \in GridsOf(Positive, N, K)
  PROVE  NextId(g) \in Positive /\ NextId(g) \notin Ids(g)
<1>1. /\ Len(g.rows) \in Nat /\ DOMAIN g.rows = 1..Len(g.rows)
      /\ \A i \in 1..Len(g.rows) : g.rows[i].id \in Positive
      /\ Ids(g) \subseteq Positive
      /\ g.rows \in Seq(RowsOf(Positive, N, K))
  BY RowFacts DEF GridsOf
<1>2. CASE g.rows = <<>>
  BY <1>1, <1>2 DEF NextId, Ids, Positive
<1>3. CASE g.rows # <<>>
  <2> DEFINE n == Len(g.rows)
             f == [i \in 1..n |-> g.rows[i].id]
  <2>1. n # 0 /\ n \in Nat
    BY <1>1, <1>3
  <2>2. \A i \in 1..n : f[i] \in Nat
    BY <1>1 DEF Positive
  <2>3. \E m \in 1..n : \A i \in 1..n : f[m] >= f[i]
    <3> HIDE DEF f, n
    <3> QED
      BY <2>1, <2>2, LargestExists
  <2>4. PICK m \in Ids(g) : \A x \in Ids(g) : m >= x
    BY <1>1, <2>3 DEF Ids
  <2>5. Max(Ids(g)) \in Ids(g) /\ \A x \in Ids(g) : Max(Ids(g)) >= x
    BY <2>4 DEF Max
  <2>6. NextId(g) = 1 + Max(Ids(g))
    BY <1>3 DEF NextId
  <2> HIDE DEF n, f
  <2> QED
    BY <1>1, <2>5, <2>6 DEF Positive
<1> QED
  BY <1>2, <1>3

\* The grids that staging works on: without the bound on ids.
Rights == SoundGrids(Positive, Questions, RightKinds)
AnyRights == GridsOf(Positive, Questions, RightKinds)

\* What is staged of a question has its name.
LEMMA StagedTyped ==
  ASSUME NEW q, q.name \in Questions
  PROVE  Staged(q) \in [name : Questions, kind : RightKinds] /\ Staged(q).name = q.name
BY DEF Staged, RightKinds

\* A question that is looked at leaves the rows apart and the rest as it is.
LEMMA StageNewFacts ==
  ASSUME NEW g \in AnyRights, NEW q, q.name \in Questions
  PROVE  LET h == StageNew(g, q)
         IN  /\ h \in AnyRights
             /\ g \in Rights => h \in Rights
             /\ h.sel = g.sel /\ h.lit = g.lit /\ h.loading = g.loading
<1>1. CASE q.name \in Names(g)
  BY <1>1 DEF StageNew
<1>2. CASE q.name \notin Names(g)
  <2> DEFINE s == Staged(q)
             n == NextId(g)
             h == AddRow(g, n, s)
  <2>1. s \in [name : Questions, kind : RightKinds] /\ s.name = q.name
    BY StagedTyped
  <2>2. n \in Positive /\ n \notin Ids(g)
    BY NextIdFacts DEF AnyRights
  <2>3. StageNew(g, q) = h
    BY <1>2 DEF StageNew
  <2> HIDE DEF s, n
  <2>4. /\ h \in AnyRights
        /\ h.sel = g.sel /\ h.lit = g.lit /\ h.loading = g.loading
    <3>1. g \in GridsOf(Positive, Questions, RightKinds)
      BY DEF AnyRights
    <3>2. /\ h \in GridsOf(Positive, Questions, RightKinds)
          /\ h.sel = g.sel /\ h.lit = g.lit /\ h.loading = g.loading
      BY <2>1, <2>2, <3>1, AddRowTyped
    <3> QED
      BY <3>2 DEF AnyRights
  <2>5. ASSUME g \in Rights PROVE h \in Rights
    BY <1>2, <2>1, <2>2, <2>5, AddRowFacts DEF Rights
  <2> QED
    BY <2>3, <2>4, <2>5
<1> QED
  BY <1>1, <1>2

\* What StageThose has made of the grid after each question.
ThoseUpTo(g, qs, I) ==
    CHOOSE f : f = [i \in 0..Len(qs) |->
                      IF i = 0 THEN g
                      ELSE IF i \in I THEN StageNew(f[i - 1], qs[i])
                      ELSE f[i - 1]]

\* StageThose is a loop over the questions.
LEMMA ThoseRounds ==
  ASSUME NEW g \in AnyRights, NEW QS, NEW qs \in Seq(QS), NEW I,
         \A i \in 1..Len(qs) : i \in I => qs[i].name \in Questions
  PROVE  LET f == ThoseUpTo(g, qs, I)
         IN  /\ StageThose(g, qs, I) = f[Len(qs)]
             /\ f[0] = g
             /\ \A i \in 1..Len(qs) :
                  f[i] = IF i \in I THEN StageNew(f[i - 1], qs[i]) ELSE f[i - 1]
<1> DEFINE N == Len(qs)
           round == [i \in 1..N |-> [h \in AnyRights |->
                       IF i \in I THEN StageNew(h, qs[i]) ELSE h]]
           Body(f) == [i \in 0..N |-> IF i = 0 THEN g
                         ELSE IF i \in I THEN StageNew(f[i - 1], qs[i])
                         ELSE f[i - 1]]
<1>1. N \in Nat
  OBVIOUS
<1>2. round \in Rounds(N, AnyRights)
  <2>1. ASSUME NEW i \in 1..N, NEW h \in AnyRights
        PROVE  (IF i \in I THEN StageNew(h, qs[i]) ELSE h) \in AnyRights
    BY StageNewFacts
  <2> QED
    BY <2>1 DEF Rounds
<1>3. PICK f : IsRun(f, N, AnyRights, g, round)
  <2> HIDE DEF round, N
  <2> QED
    BY <1>1, <1>2, LoopRuns
<1>4. ASSUME NEW i \in 1..N
      PROVE  f[i] = IF i \in I THEN StageNew(f[i - 1], qs[i]) ELSE f[i - 1]
  <2>1. i - 1 \in 0..N /\ f[i - 1] \in AnyRights
    BY <1>1, <1>3 DEF IsRun
  <2>2. round[i][f[i - 1]] = IF i \in I THEN StageNew(f[i - 1], qs[i]) ELSE f[i - 1]
    BY <2>1
  <2> QED
    BY <1>3, <2>2 DEF IsRun
<1>5. f = Body(f)
  <2>1. \A i \in 0..N : f[i] = Body(f)[i]
    <3> TAKE i \in 0..N
    <3>1. CASE i = 0
      BY <1>3, <3>1 DEF IsRun
    <3>2. CASE i # 0
      <4>1. i \in 1..N
        BY <1>1, <3>2
      <4> QED
        BY <1>4, <3>2, <4>1
    <3> QED
      BY <3>1, <3>2
  <2> QED
    BY <1>3, <2>1 DEF IsRun
<1> DEFINE t == ThoseUpTo(g, qs, I)
<1>6. t = Body(t)
  BY <1>5 DEF ThoseUpTo
<1>7. StageThose(g, qs, I) = t[N]
  BY DEF StageThose, ThoseUpTo
<1>8. 0 \in 0..N /\ \A i \in 1..N : i \in 0..N /\ i # 0
  BY <1>1
<1>9. t[0] = g /\ \A i \in 1..N :
        t[i] = IF i \in I THEN StageNew(t[i - 1], qs[i]) ELSE t[i - 1]
  <2> HIDE DEF t, N
  <2>1. Body(t)[0] = g
    BY <1>8
  <2>2. ASSUME NEW i \in 1..N
        PROVE  Body(t)[i] = IF i \in I THEN StageNew(t[i - 1], qs[i]) ELSE t[i - 1]
    BY <1>8
  <2> QED
    BY <1>6, <2>1, <2>2
<1> QED
  BY <1>7, <1>9

\* Staging on the announce page leaves rows apart, whatever is looked at.
LEMMA StageThoseFacts ==
  ASSUME NEW g \in Rights, NEW QS, NEW qs \in Seq(QS), NEW I,
         \A i \in 1..Len(qs) : i \in I => qs[i].name \in Questions
  PROVE  LET h == StageThose(g, qs, I)
         IN  /\ h \in Rights
             /\ h.sel = g.sel /\ h.lit = g.lit /\ h.loading = g.loading
<1> DEFINE N == Len(qs)
           f == ThoseUpTo(g, qs, I)
           Same(h) == /\ h \in Rights
                      /\ h.sel = g.sel /\ h.lit = g.lit /\ h.loading = g.loading
           M == {i \in 0..N : Same(f[i])}
<1>1. /\ N \in Nat
      /\ StageThose(g, qs, I) = f[N]
      /\ f[0] = g
      /\ \A i \in 1..N :
           f[i] = IF i \in I THEN StageNew(f[i - 1], qs[i]) ELSE f[i - 1]
  BY ThoseRounds DEF Rights, AnyRights, SoundGrids
<1>2. Rights \subseteq AnyRights
  BY DEF Rights, AnyRights, SoundGrids
<1>3. 0 \in M
  BY <1>1
<1>4. ASSUME NEW i \in 1..N, i - 1 \in M PROVE i \in M
  <2>1. i \in 0..N /\ Same(f[i - 1])
    BY <1>1, <1>4
  <2>2. Same(f[i])
    <3>1. CASE i \in I
      <4>1. f[i] = StageNew(f[i - 1], qs[i]) /\ qs[i].name \in Questions
        BY <1>1, <3>1
      <4> HIDE DEF f
      <4> QED
        BY <1>2, <2>1, <4>1, StageNewFacts
    <3>2. CASE i \notin I
      <4>1. f[i] = f[i - 1]
        BY <1>1, <3>2
      <4> QED
        BY <2>1, <4>1
    <3> QED
      BY <3>1, <3>2
  <2> QED
    BY <2>1, <2>2
<1>5. 0..N \subseteq M
  <2> HIDE DEF M
  <2> QED
    BY <1>1, <1>3, <1>4, UpToInduction
<1>6. N \in 0..N
  BY <1>1
<1> QED
  BY <1>1, <1>5, <1>6

\* A row for a question, whether or not it has one.
Added(g, q) == AddRow(g, NextId(g), Staged(q))

\* A new question under a new id leaves the rows apart.
LEMMA AddedFacts ==
  ASSUME NEW g \in AnyRights, NEW q, q.name \in Questions
  PROVE  LET h == Added(g, q)
         IN  /\ h \in AnyRights
             /\ h.sel = g.sel /\ h.lit = g.lit /\ h.loading = g.loading
             /\ g \in Rights /\ q.name \notin Names(g) =>
                  h \in Rights /\ Names(h) = Names(g) \union {q.name}
<1> DEFINE s == Staged(q)
           n == NextId(g)
           h == AddRow(g, n, s)
<1>1. s \in [name : Questions, kind : RightKinds] /\ s.name = q.name
  BY StagedTyped
<1>2. n \in Positive /\ n \notin Ids(g)
  BY NextIdFacts DEF AnyRights
<1>3. Added(g, q) = h
  BY DEF Added
<1> HIDE DEF s, n
<1>4. g \in GridsOf(Positive, Questions, RightKinds)
  BY DEF AnyRights
<1>5. /\ h \in GridsOf(Positive, Questions, RightKinds)
      /\ h.sel = g.sel /\ h.lit = g.lit /\ h.loading = g.loading
  BY <1>1, <1>2, <1>4, AddRowTyped
<1>6. ASSUME g \in Rights, q.name \notin Names(g)
      PROVE  h \in Rights /\ Names(h) = Names(g) \union {q.name}
  BY <1>1, <1>2, <1>6, AddRowFacts DEF Rights
<1> QED
  BY <1>3, <1>5, <1>6 DEF AnyRights

\* The same for StageUpToIncomplete.
GoesUpTo(g, qs) ==
    CHOOSE f : f = [i \in 0..Len(qs) |->
                      IF i = 0 THEN g
                      ELSE IF Goes(g, qs, i) THEN Added(f[i - 1], qs[i])
                      ELSE f[i - 1]]

\* StageUpToIncomplete is a loop over the questions.
LEMMA GoesRounds ==
  ASSUME NEW g \in AnyRights, NEW QS, NEW qs \in Seq(QS),
         \A i \in 1..Len(qs) : Goes(g, qs, i) => qs[i].name \in Questions
  PROVE  LET f == GoesUpTo(g, qs)
         IN  /\ StageUpToIncomplete(g, qs) = f[Len(qs)]
             /\ f[0] = g
             /\ \A i \in 1..Len(qs) :
                  f[i] = IF Goes(g, qs, i) THEN Added(f[i - 1], qs[i]) ELSE f[i - 1]
<1> DEFINE N == Len(qs)
           round == [i \in 1..N |-> [h \in AnyRights |->
                       IF Goes(g, qs, i) THEN Added(h, qs[i]) ELSE h]]
           Body(f) == [i \in 0..N |-> IF i = 0 THEN g
                         ELSE IF Goes(g, qs, i) THEN Added(f[i - 1], qs[i])
                         ELSE f[i - 1]]
<1>1. N \in Nat
  OBVIOUS
<1>2. round \in Rounds(N, AnyRights)
  <2>1. ASSUME NEW i \in 1..N, NEW h \in AnyRights
        PROVE  (IF Goes(g, qs, i) THEN Added(h, qs[i]) ELSE h) \in AnyRights
    BY AddedFacts
  <2> QED
    BY <2>1 DEF Rounds
<1>3. PICK f : IsRun(f, N, AnyRights, g, round)
  <2> HIDE DEF round, N
  <2> QED
    BY <1>1, <1>2, LoopRuns
<1>4. ASSUME NEW i \in 1..N
      PROVE  f[i] = IF Goes(g, qs, i) THEN Added(f[i - 1], qs[i]) ELSE f[i - 1]
  <2>1. i - 1 \in 0..N /\ f[i - 1] \in AnyRights
    BY <1>1, <1>3 DEF IsRun
  <2>2. round[i][f[i - 1]] = IF Goes(g, qs, i) THEN Added(f[i - 1], qs[i]) ELSE f[i - 1]
    BY <2>1
  <2> QED
    BY <1>3, <2>2 DEF IsRun
<1>5. f = Body(f)
  <2>1. \A i \in 0..N : f[i] = Body(f)[i]
    <3> TAKE i \in 0..N
    <3>1. CASE i = 0
      BY <1>3, <3>1 DEF IsRun
    <3>2. CASE i # 0
      <4>1. i \in 1..N
        BY <1>1, <3>2
      <4> QED
        BY <1>4, <3>2, <4>1
    <3> QED
      BY <3>1, <3>2
  <2> QED
    BY <1>3, <2>1 DEF IsRun
<1> DEFINE t == GoesUpTo(g, qs)
<1>6. t = Body(t)
  BY <1>5 DEF GoesUpTo
<1>7. StageUpToIncomplete(g, qs) = t[N]
  BY DEF StageUpToIncomplete, GoesUpTo, Added
<1>8. 0 \in 0..N /\ \A i \in 1..N : i \in 0..N /\ i # 0
  BY <1>1
<1>9. t[0] = g /\ \A i \in 1..N :
        t[i] = IF Goes(g, qs, i) THEN Added(t[i - 1], qs[i]) ELSE t[i - 1]
  <2> HIDE DEF t, N
  <2>1. Body(t)[0] = g
    BY <1>8
  <2>2. ASSUME NEW i \in 1..N
        PROVE  Body(t)[i] = IF Goes(g, qs, i) THEN Added(t[i - 1], qs[i]) ELSE t[i - 1]
    BY <1>8
  <2> QED
    BY <1>6, <2>1, <2>2
<1> QED
  BY <1>7, <1>9


\* So does staging on the deal page, which compares with the names that were
\* there at first, as long as no question occurs twice in what is staged.
LEMMA StageUpFacts ==
  ASSUME NEW g \in Rights, NEW QS, NEW qs \in Seq(QS),
         \A i \in 1..Len(qs) : Goes(g, qs, i) => qs[i].name \in Questions,
         \A i, j \in 1..Len(qs) :
            i < j /\ Goes(g, qs, i) /\ Goes(g, qs, j) => qs[i].name # qs[j].name
  PROVE  LET h == StageUpToIncomplete(g, qs)
         IN  /\ h \in Rights
             /\ h.sel = g.sel /\ h.lit = g.lit /\ h.loading = g.loading
<1> DEFINE N == Len(qs)
           f == GoesUpTo(g, qs)
           Gone(i) == {qs[j].name : j \in {k \in 1..i : Goes(g, qs, k)}}
           Same(h) == /\ h \in Rights
                      /\ h.sel = g.sel /\ h.lit = g.lit /\ h.loading = g.loading
           M == {i \in 0..N : Same(f[i]) /\ Names(f[i]) = Names(g) \union Gone(i)}
<1>1. /\ N \in Nat
      /\ StageUpToIncomplete(g, qs) = f[N]
      /\ f[0] = g
      /\ \A i \in 1..N :
           f[i] = IF Goes(g, qs, i) THEN Added(f[i - 1], qs[i]) ELSE f[i - 1]
  BY GoesRounds DEF Rights, AnyRights, SoundGrids
<1>2. Rights \subseteq AnyRights
  BY DEF Rights, AnyRights, SoundGrids
<1>3. 0 \in M
  BY <1>1
<1>4. ASSUME NEW i \in 1..N, i - 1 \in M PROVE i \in M
  <2>1. i \in 0..N /\ Same(f[i - 1]) /\ Names(f[i - 1]) = Names(g) \union Gone(i - 1)
    BY <1>1, <1>4
  <2>2. 1..i = 1..(i - 1) \union {i}
    BY <1>1
  <2>3. Same(f[i]) /\ Names(f[i]) = Names(g) \union Gone(i)
    <3>1. CASE Goes(g, qs, i)
      <4>1. /\ f[i] = Added(f[i - 1], qs[i])
            /\ qs[i].name \in Questions
            /\ qs[i].name \notin Names(g)
        BY <1>1, <3>1 DEF Goes
      <4>2. qs[i].name \notin Gone(i - 1)
        BY <1>1, <3>1
      <4>3. Gone(i) = Gone(i - 1) \union {qs[i].name}
        BY <2>2, <3>1
      <4>4. qs[i].name \notin Names(f[i - 1])
        BY <2>1, <4>1, <4>2
      <4> HIDE DEF f, Gone
      <4>5. Same(f[i]) /\ Names(f[i]) = Names(f[i - 1]) \union {qs[i].name}
        BY <1>2, <2>1, <4>1, <4>4, AddedFacts
      <4> QED
        BY <2>1, <4>3, <4>5
    <3>2. CASE ~Goes(g, qs, i)
      <4>1. f[i] = f[i - 1]
        BY <1>1, <3>2
      <4>2. Gone(i) = Gone(i - 1)
        BY <2>2, <3>2
      <4> HIDE DEF f, Gone
      <4> QED
        BY <2>1, <4>1, <4>2
    <3> QED
      BY <3>1, <3>2
  <2> QED
    BY <2>1, <2>3
<1>5. 0..N \subseteq M
  <2> HIDE DEF M
  <2> QED
    BY <1>1, <1>3, <1>4, UpToInduction
<1>6. N \in 0..N
  BY <1>1
<1> QED
  BY <1>1, <1>5, <1>6

-----------------------------------------------------------------------------
(* What is selected. *)

\* What getRowData may return: a row, or an object without a question.
NoQuestion(id) == [id |-> id, name |-> Undefined, kind |-> "minor"]

Asked(K) == RowsOf(IdSet, Questions, K) \union {NoQuestion(id) : id \in IdSet}

\* What is selected is typed, with the name of a question or Undefined.
LEMMA AskedFacts ==
  ASSUME NEW K, NEW q \in Asked(K)
  PROVE  /\ q.name \in Questions \union {Undefined}
         /\ q.kind # "minor" => q.name \in Questions
<1>1. CASE q \in RowsOf(IdSet, Questions, K)
  BY <1>1 DEF RowsOf
<1>2. CASE q \in {NoQuestion(id) : id \in IdSet}
  BY <1>2 DEF NoQuestion
<1> QED
  BY <1>1, <1>2 DEF Asked

\* The names of a sequence of questions.
LEMMA NamesOfFacts ==
  ASSUME NEW Q, NEW N, \A q \in Q : q.name \in N, NEW qs \in Seq(Q)
  PROVE  /\ NamesOf(qs) \in Seq(N)
         /\ ToSet(NamesOf(qs)) = {q.name : q \in ToSet(qs)}
<1>1. /\ Len(qs) \in Nat /\ DOMAIN qs = 1..Len(qs)
      /\ \A i \in 1..Len(qs) : qs[i] \in Q
  OBVIOUS
<1>2. NamesOf(qs) = [i \in 1..Len(qs) |-> qs[i].name]
  BY <1>1 DEF NamesOf
<1>3. \A i \in 1..Len(qs) : qs[i].name \in N
  BY <1>1
<1>4. NamesOf(qs) \in Seq(N)
  BY <1>1, <1>2, <1>3
<1>5. ToSet(NamesOf(qs)) = {q.name : q \in ToSet(qs)}
  BY <1>1, <1>2 DEF ToSet
<1> QED
  BY <1>4, <1>5

\* The selection as a sequence of questions: the question of each selected id;
\* two of them that exist are different ones.
LEMMA SelectedFacts ==
  ASSUME NEW K, NEW g \in SoundGrids(IdSet, Questions, K)
  PROVE  LET qs == Selected(g)
         IN  /\ qs \in Seq(Asked(K))
             /\ ToSet(qs) = {QuestionAt(g, id) : id \in ToSet(g.sel)}
             /\ \A i, j \in 1..Len(qs) :
                   /\ i < j
                   /\ qs[i].kind = "ready" /\ qs[j].kind = "ready"
                   => qs[i].name # qs[j].name
<1> DEFINE qs == Selected(g)
           n == Len(g.sel)
<1>1. /\ g \in GridsOf(IdSet, Questions, K)
      /\ g.sel \in Seq(IdSet)
      /\ \A i, j \in 1..n : i < j => <<g.sel[i], g.sel[j]>> \in Differ(IdSet)
      /\ \A i, j \in 1..Len(g.rows) :
            i < j => <<g.rows[i], g.rows[j]>> \in Apart(IdSet, Questions, K)
  BY DEF SoundGrids, GridsOf
<1>2. n \in Nat /\ DOMAIN g.sel = 1..n /\ \A i \in 1..n : g.sel[i] \in IdSet
  BY <1>1
<1>3. qs = [i \in 1..n |-> QuestionAt(g, g.sel[i])]
  BY <1>2 DEF Selected
<1>4. ASSUME NEW id \in IdSet PROVE QuestionAt(g, id) \in Asked(K)
  BY QuestionAtTyped DEF Asked, NoQuestion
<1>5. qs \in Seq(Asked(K)) /\ Len(qs) = n
  BY <1>2, <1>3, <1>4
<1>6. ToSet(qs) = {QuestionAt(g, id) : id \in ToSet(g.sel)}
  BY <1>2, <1>3 DEF ToSet
<1>7. ASSUME NEW i \in 1..n, NEW j \in 1..n, i < j,
             qs[i].kind = "ready", qs[j].kind = "ready"
      PROVE  qs[i].name # qs[j].name
  <2>1. g.sel[i] # g.sel[j]
    BY <1>1, <1>7 DEF Differ
  <2>2. ASSUME NEW k \in 1..n, qs[k].kind = "ready"
        PROVE  qs[k] \in ToSet(g.rows) /\ qs[k].id = g.sel[k]
    <3>1. qs[k] = QuestionAt(g, g.sel[k]) /\ g.sel[k] \in IdSet
      BY <1>2, <1>3
    <3>2. qs[k] # [id |-> g.sel[k], name |-> Undefined, kind |-> "minor"]
      BY <2>2
    <3> QED
      BY <3>1, <3>2, QuestionAtTyped
  <2>3. /\ qs[i] \in ToSet(g.rows) /\ qs[i].id = g.sel[i]
        /\ qs[j] \in ToSet(g.rows) /\ qs[j].id = g.sel[j]
    BY <1>7, <2>2
  <2>4. Len(g.rows) \in Nat /\ DOMAIN g.rows = 1..Len(g.rows)
    BY <1>1, RowFacts
  <2>5. PICK a \in 1..Len(g.rows) : qs[i] = g.rows[a]
    BY <2>3, <2>4 DEF ToSet
  <2>6. PICK b \in 1..Len(g.rows) : qs[j] = g.rows[b]
    BY <2>3, <2>4 DEF ToSet
  <2>7. a # b
    BY <2>1, <2>3, <2>5, <2>6
  <2>8. a < b \/ b < a
    BY <2>4, <2>7
  <2>9. g.rows[a].name # g.rows[b].name
    BY <1>1, <2>8 DEF Apart
  <2> QED
    BY <2>5, <2>6, <2>9
<1> QED
  BY <1>5, <1>6, <1>7

-----------------------------------------------------------------------------
(* How an action leaves one grid. *)

\* The bound on ids, put on and taken off again.
LEMMA Unbounded ==
  ASSUME NEW g \in SoundGrids(IdSet, Questions, RightKinds)
  PROVE  g \in Rights
<1> DEFINE R == RowsOf(IdSet, Questions, RightKinds)
           P == RowsOf(Positive, Questions, RightKinds)
<1>1. IdSet \subseteq Positive
  BY MaxIdAssumption DEF IdSet, Positive
<1>2. R \subseteq P
  BY <1>1 DEF RowsOf
<1>3. /\ g \in GridsOf(IdSet, Questions, RightKinds)
      /\ g.rows \in Seq(R) /\ g.sel \in Seq(IdSet) /\ g.lit \subseteq IdSet
      /\ g.lit \subseteq Ids(g)
      /\ \A i, j \in 1..Len(g.rows) :
            i < j => <<g.rows[i], g.rows[j]>> \in Apart(IdSet, Questions, RightKinds)
      /\ \A i, j \in 1..Len(g.sel) :
            i < j => <<g.sel[i], g.sel[j]>> \in Differ(IdSet)
  BY DEF SoundGrids, GridsOf
<1>4. g.rows \in Seq(P)
  <2> HIDE DEF R, P
  <2> QED
    BY <1>2, <1>3
<1>5. g.sel \in Seq(Positive)
  <2> HIDE DEF IdSet
  <2> QED
    BY <1>1, <1>3
<1>6. g \in GridsOf(Positive, Questions, RightKinds)
  BY <1>1, <1>3, <1>4, <1>5 DEF GridsOf
<1>7. Apart(IdSet, Questions, RightKinds) \subseteq Apart(Positive, Questions, RightKinds)
  BY <1>2 DEF Apart
<1>8. Differ(IdSet) \subseteq Differ(Positive)
  BY <1>1 DEF Differ
<1> QED
  BY <1>3, <1>6, <1>7, <1>8 DEF Rights, SoundGrids

\* A grid whose rows are within the bound is one of the bounded grids.
LEMMA Bounded ==
  ASSUME NEW g \in SoundGrids(IdSet, Questions, RightKinds),
         NEW h \in Rights, h.sel = g.sel, h.lit = g.lit, h.loading = g.loading,
         \A id \in Ids(h) : id <= MaxId
  PROVE  h \in SoundGrids(IdSet, Questions, RightKinds)
<1> DEFINE R == RowsOf(IdSet, Questions, RightKinds)
<1>1. /\ g.sel \in Seq(IdSet) /\ g.lit \subseteq IdSet
      /\ \A i, j \in 1..Len(g.sel) :
            i < j => <<g.sel[i], g.sel[j]>> \in Differ(IdSet)
  BY DEF SoundGrids, GridsOf
<1>2. /\ h \in GridsOf(Positive, Questions, RightKinds)
      /\ h.lit \subseteq Ids(h)
      /\ h.rows \in Seq(RowsOf(Positive, Questions, RightKinds))
      /\ h.loading \in BOOLEAN
      /\ \A i, j \in 1..Len(h.rows) :
            i < j => <<h.rows[i], h.rows[j]>> \in Apart(Positive, Questions, RightKinds)
  BY DEF Rights, SoundGrids, GridsOf
<1>3. /\ Len(h.rows) \in Nat /\ DOMAIN h.rows = 1..Len(h.rows)
      /\ \A i \in 1..Len(h.rows) :
            /\ h.rows[i] \in RowsOf(Positive, Questions, RightKinds)
            /\ h.rows[i].id \in Positive
  BY <1>2, RowFacts
<1>4. ASSUME NEW i \in 1..Len(h.rows) PROVE h.rows[i] \in R
  <2>1. h.rows[i].id \in Ids(h)
    BY <1>3 DEF Ids
  <2>2. h.rows[i].id \in IdSet
    BY <1>3, <2>1, MaxIdAssumption DEF IdSet, Positive
  <2> QED
    BY <1>3, <2>2 DEF RowsOf
<1>5. h.rows \in Seq(R)
  <2> DEFINE rows == h.rows
  <2>1. rows \in Seq(RowsOf(Positive, Questions, RightKinds))
    BY <1>2
  <2>2. \A i \in 1..Len(rows) : rows[i] \in R
    BY <1>4
  <2>3. Len(rows) \in Nat /\ rows = [i \in 1..Len(rows) |-> rows[i]]
    <3> HIDE DEF rows
    <3> QED
      BY <2>1
  <2> HIDE DEF rows, R
  <2>4. rows \in Seq(R)
    BY <2>2, <2>3
  <2> QED
    BY <2>4 DEF rows
<1>6. h \in [rows : Seq(R), sel : Seq(IdSet), lit : SUBSET IdSet, loading : BOOLEAN]
  <2> HIDE DEF R
  <2>1. h.sel \in Seq(IdSet) /\ h.lit \in SUBSET IdSet
    BY <1>1
  <2>2. h = [rows |-> h.rows, sel |-> h.sel, lit |-> h.lit, loading |-> h.loading]
    BY <1>2 DEF GridsOf
  <2> QED
    BY <1>2, <1>5, <2>1, <2>2
<1>7. \A i, j \in 1..Len(h.rows) :
         i < j => <<h.rows[i], h.rows[j]>> \in Apart(IdSet, Questions, RightKinds)
  BY <1>2, <1>4 DEF Apart
<1> QED
  BY <1>1, <1>2, <1>6, <1>7 DEF SoundGrids, GridsOf

\* A page of the server fits in a grid, also in the one on the right.
LEMMA PageFits ==
  ASSUME NEW p \in LeftPages \union MajorPages
  PROVE  /\ p \in PagesOf(IdSet, Questions, Kinds)
         /\ p \in PagesOf(IdSet, Questions, RightKinds)
         /\ p \in Seq([name : Questions, kind : Kinds])
         /\ Len(p) \in Nat /\ DOMAIN p = 1..Len(p)
         /\ \A i \in 1..Len(p) : p[i].name \in Questions
<1> DEFINE Q == [name : Questions, kind : Kinds]
           P == [name : Questions, kind : RightKinds]
<1>1. /\ p \in Seq(Q)
      /\ \A i, j \in 1..Len(p) : p[i].name = p[j].name => i = j
      /\ Len(p) <= MaxId
  BY PagesAssumption
<1>2. Q \subseteq P /\ \A q \in Q : q.name \in Questions
  BY DEF RightKinds
<1>3. /\ p \in Seq(P) /\ Len(p) \in Nat /\ DOMAIN p = 1..Len(p)
      /\ \A i \in 1..Len(p) : p[i] \in Q
  <2> HIDE DEF Q, P
  <2> QED
    BY <1>1, <1>2
<1>4. 1..Len(p) \subseteq IdSet
  BY <1>1, <1>3, MaxIdAssumption DEF IdSet
<1>5. \A i \in 1..Len(p) : p[i].name \in Questions
  <2> HIDE DEF Q
  <2> QED
    BY <1>2, <1>3
<1> QED
  BY <1>1, <1>3, <1>4, <1>5 DEF PagesOf

\* Selection and highlighting agree after each kind of change as far as its
\* doubt says.
LEMMA AgreesClicked ==
  ASSUME NEW I, NEW N, NEW K, NEW g, NEW h, Clicked(I, N, K, g, h),
         NEW d \in Doubts, Agrees(g, d)
  PROVE  Agrees(h, IF g.loading THEN "early" ELSE d)
BY DEF Clicked, Agrees

LEMMA AgreesLoaded ==
  ASSUME NEW g, NEW h, g.loading, ~h.loading, h.lit = {}, h.sel = g.sel,
         NEW d, Agrees(g, d)
  PROVE  Agrees(h, d)
BY DEF Agrees, SelIsLit, LitIsSel, ToSet

LEMMA AgreesReload ==
  ASSUME NEW h, h.sel = <<>>, h.loading
  PROVE  Agrees(h, "none")
BY DEF Agrees, SelIsLit, ToSet

LEMMA AgreesFailed ==
  ASSUME NEW h
  PROVE  Agrees(h, "failed")
BY DEF Agrees

LEMMA AgreesSame ==
  ASSUME NEW g, NEW h, h.sel = g.sel, h.lit = g.lit, h.loading = g.loading,
         NEW d, Agrees(g, d)
  PROVE  Agrees(h, d)
BY DEF Agrees, SelIsLit, LitIsSel

-----------------------------------------------------------------------------
(* The invariant. *)

\* The invariant holds at first.
LEMMA BoardInit == Init => BoardInv
<1> SUFFICES ASSUME Init PROVE BoardInv
  OBVIOUS
<1>1. NewGrid \in SoundGrids(IdSet, Questions, Kinds)
  <2>1. NewGrid \in GridsOf(IdSet, Questions, Kinds)
    BY DEF NewGrid, GridsOf
  <2> QED
    BY <2>1 DEF NewGrid, SoundGrids
<1>2. NewGrid \in SoundGrids(IdSet, Questions, RightKinds)
  <2>1. NewGrid \in GridsOf(IdSet, Questions, RightKinds)
    BY DEF NewGrid, GridsOf
  <2> QED
    BY <2>1 DEF NewGrid, SoundGrids
<1>3. PICK p \in LeftPages : left = Loaded(NewGrid, p)
  BY DEF Init
<1>4. /\ left \in SoundGrids(IdSet, Questions, Kinds)
      /\ left.lit = {} /\ left.sel = <<>> /\ ~left.loading
  <2>1. /\ left \in SoundGrids(IdSet, Questions, Kinds)
        /\ left.lit = {} /\ left.sel = NewGrid.sel /\ ~left.loading
    <3>1. p \in PagesOf(IdSet, Questions, Kinds)
      BY PageFits
    <3> QED
      BY <1>1, <1>3, <3>1, LoadedFacts
  <2> QED
    BY <2>1 DEF NewGrid
<1>5. right.lit = {} /\ right.sel = <<>> /\ ~right.loading
  BY DEF Init, NewGrid
<1>6. Agrees(left, "none") /\ Agrees(right, "none")
  BY <1>4, <1>5 DEF Agrees, SelIsLit, LitIsSel, ToSet
<1>7. doubt["left"] = "none" /\ doubt["right"] = "none" /\ doubt \in [SideNames -> Doubts]
  BY DEF Init, SideNames, Doubts
<1> QED
  BY <1>2, <1>4, <1>6, <1>7 DEF Init, BoardInv

\* A step that changes nothing but one grid and its doubt.
LEMMA LeftStep ==
  ASSUME BoardInv, NEW d \in Doubts,
         left' \in SoundGrids(IdSet, Questions, Kinds), Agrees(left', d),
         UNCHANGED <<page, right, dialog, calls>>,
         doubt' = [doubt EXCEPT !["left"] = d]
  PROVE  BoardInv'
<1>1. doubt' \in [SideNames -> Doubts] /\ doubt'["left"] = d /\ doubt'["right"] = doubt["right"]
  BY DEF BoardInv, SideNames
<1> QED
  BY <1>1 DEF BoardInv

LEMMA RightStep ==
  ASSUME BoardInv, NEW d \in Doubts,
         right' \in SoundGrids(IdSet, Questions, RightKinds), Agrees(right', d),
         UNCHANGED <<page, left, dialog, calls>>,
         doubt' = [doubt EXCEPT !["right"] = d]
  PROVE  BoardInv'
<1>1. doubt' \in [SideNames -> Doubts] /\ doubt'["right"] = d /\ doubt'["left"] = doubt["left"]
  BY DEF BoardInv, SideNames
<1> QED
  BY <1>1 DEF BoardInv

\* A step may leave a doubt as it is.
LEMMA KeptDoubt ==
  ASSUME doubt \in [SideNames -> Doubts], NEW side \in SideNames
  PROVE  doubt = [doubt EXCEPT ![side] = doubt[side]] /\ doubt[side] \in Doubts
OBVIOUS

\* The steps, one lemma for each action: a click in either grid.
LEMMA ClickStep ==
  ASSUME BoardInv, NEW side \in SideNames, Click(side)
  PROVE  BoardInv'
<1>1. PICK g \in {ClickBox(Grid(side), id) : id \in Ids(Grid(side))}
                \union {ClickRow(Grid(side), id) : id \in Ids(Grid(side))}
                \union {ClickHead(Grid(side), checked) : checked \in BOOLEAN} :
             SetGrid(side, g)
  BY DEF Click
<1>2. ASSUME NEW K, Grid(side) \in SoundGrids(IdSet, Questions, K)
      PROVE  Clicked(IdSet, Questions, K, Grid(side), g)
  BY <1>1, <1>2, ClickBoxFacts, ClickRowFacts, ClickHeadFacts
<1> DEFINE d == IF Grid(side).loading THEN "early" ELSE doubt[side]
<1>3. doubt \in [SideNames -> Doubts] /\ d \in Doubts
  BY DEF BoardInv, Doubts
<1>4. doubt' = [doubt EXCEPT ![side] = d]
  BY <1>3, KeptDoubt DEF Click
<1>5. CASE side = "left"
  <2>1. left' = g /\ UNCHANGED <<page, right, dialog, calls>> /\ Grid(side) = left
    BY <1>1, <1>5 DEF SetGrid, Click, Grid
  <2>2. Clicked(IdSet, Questions, Kinds, left, left')
    BY <1>2, <2>1 DEF BoardInv
  <2>3. Agrees(left', d)
    BY <1>3, <1>5, <2>1, <2>2, AgreesClicked DEF BoardInv
  <2> HIDE DEF d
  <2> QED
    BY <1>3, <1>4, <1>5, <2>1, <2>2, <2>3, LeftStep DEF Clicked
<1>6. CASE side = "right"
  <2>1. right' = g /\ UNCHANGED <<page, left, dialog, calls>> /\ Grid(side) = right
    BY <1>1, <1>6 DEF SetGrid, Click, Grid
  <2>2. Clicked(IdSet, Questions, RightKinds, right, right')
    BY <1>2, <2>1 DEF BoardInv
  <2>3. Agrees(right', d)
    BY <1>3, <1>6, <2>1, <2>2, AgreesClicked DEF BoardInv
  <2> HIDE DEF d
  <2> QED
    BY <1>3, <1>4, <1>6, <2>1, <2>2, <2>3, RightStep DEF Clicked
<1> QED
  BY <1>5, <1>6 DEF SideNames

LEMMA AnswerLostStep ==
  ASSUME BoardInv, NEW side \in SideNames, AnswerLost(side)
  PROVE  BoardInv'
<1>1. "failed" \in Doubts
  BY DEF Doubts
<1>2. CASE side = "left"
  <2>1. /\ left' = LoadFailed(left) /\ UNCHANGED <<page, right, dialog, calls>>
        /\ doubt' = [doubt EXCEPT !["left"] = "failed"]
    BY <1>2 DEF AnswerLost, SetGrid, Grid
  <2>2. left' \in SoundGrids(IdSet, Questions, Kinds)
    BY <2>1, LoadFailedFacts DEF BoardInv
  <2> QED
    BY <1>1, <2>1, <2>2, AgreesFailed, LeftStep
<1>3. CASE side = "right"
  <2>1. /\ right' = LoadFailed(right) /\ UNCHANGED <<page, left, dialog, calls>>
        /\ doubt' = [doubt EXCEPT !["right"] = "failed"]
    BY <1>3 DEF AnswerLost, SetGrid, Grid
  <2>2. right' \in SoundGrids(IdSet, Questions, RightKinds)
    BY <2>1, LoadFailedFacts DEF BoardInv
  <2> QED
    BY <1>1, <2>1, <2>2, AgreesFailed, RightStep
<1> QED
  BY <1>2, <1>3 DEF SideNames

LEMMA SearchStep ==
  ASSUME BoardInv, Search
  PROVE  BoardInv'
<1>1. /\ left' = Reload(left) /\ UNCHANGED <<page, right, dialog, calls>>
      /\ doubt' = [doubt EXCEPT !["left"] = "none"]
  BY DEF Search
<1>2. /\ left' \in SoundGrids(IdSet, Questions, Kinds)
      /\ left'.sel = <<>> /\ left'.loading
  BY <1>1, ReloadFacts DEF BoardInv
<1>3. "none" \in Doubts
  BY DEF Doubts
<1> QED
  BY <1>1, <1>2, <1>3, AgreesReload, LeftStep

LEMMA SendAllStep ==
  ASSUME BoardInv, SendAll
  PROVE  BoardInv'
<1>1. /\ right' = Reload(right) /\ UNCHANGED <<page, left, dialog, calls>>
      /\ doubt' = [doubt EXCEPT !["right"] = "none"]
  BY DEF SendAll
<1>2. /\ right' \in SoundGrids(IdSet, Questions, RightKinds)
      /\ right'.sel = <<>> /\ right'.loading
  BY <1>1, ReloadFacts DEF BoardInv
<1>3. "none" \in Doubts
  BY DEF Doubts
<1> QED
  BY <1>1, <1>2, <1>3, AgreesReload, RightStep

LEMMA LeftAnsweredStep ==
  ASSUME BoardInv, LeftAnswered
  PROVE  BoardInv'
<1>1. PICK p \in LeftPages : left' = Loaded(left, p)
  BY DEF LeftAnswered
<1>2. /\ left' \in SoundGrids(IdSet, Questions, Kinds)
      /\ ~left'.loading /\ left'.lit = {} /\ left'.sel = left.sel
  <2>1. p \in PagesOf(IdSet, Questions, Kinds)
    BY PageFits
  <2> QED
    BY <1>1, <2>1, LoadedFacts DEF BoardInv
<1>3. Agrees(left', doubt["left"])
  BY <1>2, AgreesLoaded DEF LeftAnswered, BoardInv
<1> QED
  BY <1>2, <1>3 DEF LeftAnswered, BoardInv

LEMMA RightAnsweredStep ==
  ASSUME BoardInv, RightAnswered
  PROVE  BoardInv'
<1>1. PICK p \in MajorPages : right' = Loaded(right, p)
  BY DEF RightAnswered
<1>2. /\ right' \in SoundGrids(IdSet, Questions, RightKinds)
      /\ ~right'.loading /\ right'.lit = {} /\ right'.sel = right.sel
  <2>1. p \in PagesOf(IdSet, Questions, RightKinds)
    BY PageFits
  <2> QED
    BY <1>1, <2>1, LoadedFacts DEF BoardInv
<1>3. Agrees(right', doubt["right"])
  BY <1>2, AgreesLoaded DEF RightAnswered, BoardInv
<1> QED
  BY <1>2, <1>3 DEF RightAnswered, BoardInv

\* The grid on the right after staging, of which only the rows have changed.
LEMMA StagedStep ==
  ASSUME BoardInv, NEW h \in Rights,
         h.sel = right.sel, h.lit = right.lit, h.loading = right.loading,
         SetRight(h), UNCHANGED doubt
  PROVE  BoardInv'
<1>1. right' = h /\ UNCHANGED <<page, left, dialog, calls, doubt>>
  BY DEF SetRight
<1>2. right' \in SoundGrids(IdSet, Questions, RightKinds)
  BY <1>1, Bounded DEF BoardInv, SetRight
<1>3. Agrees(right', doubt["right"])
  BY <1>1, AgreesSame DEF BoardInv
<1> QED
  BY <1>1, <1>2, <1>3 DEF BoardInv

\* What the user can stage: questions of the page, or what has been selected.
LEMMA StageableFacts ==
  ASSUME BoardInv, NEW qs \in {Selected(left), left.rows}
  PROVE  /\ qs \in Seq(Asked(Kinds))
         /\ \A i \in 1..Len(qs) : qs[i].kind = "ready" => qs[i].name \in Questions
         /\ \A i, j \in 1..Len(qs) :
               /\ i < j
               /\ qs[i].kind = "ready" /\ qs[j].kind = "ready"
               => qs[i].name # qs[j].name
<1>1. left \in SoundGrids(IdSet, Questions, Kinds)
  BY DEF BoardInv
<1>2. /\ qs \in Seq(Asked(Kinds))
      /\ \A i, j \in 1..Len(qs) :
               /\ i < j
               /\ qs[i].kind = "ready" /\ qs[j].kind = "ready"
               => qs[i].name # qs[j].name
  <2>1. CASE qs = Selected(left)
    BY <1>1, <2>1, SelectedFacts
  <2>2. CASE qs = left.rows
    <3> DEFINE R == RowsOf(IdSet, Questions, Kinds)
               A == Asked(Kinds)
    <3>1. left.rows \in Seq(R)
      BY <1>1 DEF SoundGrids, GridsOf
    <3>2. R \subseteq A
      BY DEF Asked
    <3>3. left.rows \in Seq(A)
      <4> HIDE DEF R, A
      <4> QED
        BY <3>1, <3>2
    <3>4. \A i, j \in 1..Len(left.rows) :
             i < j => left.rows[i].name # left.rows[j].name
      BY <1>1 DEF SoundGrids, Apart
    <3> HIDE DEF R, A
    <3> QED
      BY <2>2, <3>3, <3>4 DEF A
  <2> QED
    BY <2>1, <2>2
<1>3. \A i \in 1..Len(qs) : qs[i] \in Asked(Kinds)
  <2> DEFINE A == Asked(Kinds)
  <2>1. qs \in Seq(A)
    BY <1>2
  <2> HIDE DEF A
  <2>2. \A i \in 1..Len(qs) : qs[i] \in A
    BY <2>1
  <2> QED
    BY <2>2 DEF A
<1>4. \A i \in 1..Len(qs) : qs[i].kind = "ready" => qs[i].name \in Questions
  BY <1>3, AskedFacts
<1> QED
  BY <1>2, <1>4

LEMMA StageStep ==
  ASSUME BoardInv, Stage
  PROVE  BoardInv'
<1>1. PICK qs \in {Selected(left), left.rows} :
         SetRight(IF page = "announce" THEN StageReady(right, qs)
                                       ELSE StageUpToIncomplete(right, qs))
  BY DEF Stage
<1>2. right \in Rights
  BY Unbounded DEF BoardInv
<1>3. /\ qs \in Seq(Asked(Kinds))
      /\ \A i \in 1..Len(qs) : qs[i].kind = "ready" => qs[i].name \in Questions
      /\ \A i, j \in 1..Len(qs) :
            /\ i < j
            /\ qs[i].kind = "ready" /\ qs[j].kind = "ready"
            => qs[i].name # qs[j].name
  BY StageableFacts
<1>4. Len(qs) \in Nat /\ DOMAIN qs = 1..Len(qs)
  BY <1>3
<1>5. CASE page = "announce"
  <2> DEFINE h == StageReady(right, qs)
             J == {i \in DOMAIN qs : qs[i].kind = "ready"}
  <2>1. \A i \in 1..Len(qs) : i \in J => qs[i].name \in Questions
    BY <1>3
  <2>2. h = StageThose(right, qs, J)
    BY DEF StageReady
  <2> HIDE DEF J
  <2>3. h \in Rights /\ h.sel = right.sel /\ h.lit = right.lit /\ h.loading = right.loading
    BY <1>2, <1>3, <2>1, <2>2, StageThoseFacts
  <2>4. SetRight(h) /\ UNCHANGED doubt
    BY <1>1, <1>5 DEF Stage
  <2> HIDE DEF h
  <2> QED
    BY <2>3, <2>4, StagedStep
<1>6. CASE page # "announce"
  <2> DEFINE h == StageUpToIncomplete(right, qs)
  <2>1. \A i \in 1..Len(qs) : Goes(right, qs, i) => qs[i].name \in Questions
    BY <1>3 DEF Goes
  <2>2. \A i, j \in 1..Len(qs) :
          i < j /\ Goes(right, qs, i) /\ Goes(right, qs, j) => qs[i].name # qs[j].name
    BY <1>3 DEF Goes
  <2>3. h \in Rights /\ h.sel = right.sel /\ h.lit = right.lit /\ h.loading = right.loading
    BY <1>2, <1>3, <2>1, <2>2, StageUpFacts
  <2>4. SetRight(h) /\ UNCHANGED doubt
    BY <1>1, <1>6 DEF Stage
  <2> HIDE DEF h
  <2> QED
    BY <2>3, <2>4, StagedStep
<1> QED
  BY <1>5, <1>6

LEMMA AddAllStep ==
  ASSUME BoardInv, AddAll
  PROVE  BoardInv'
<1>1. PICK qs \in MajorPages : SetRight(StageAll(right, qs))
  BY DEF AddAll
<1>2. right \in Rights
  BY Unbounded DEF BoardInv
<1>3. /\ qs \in Seq([name : Questions, kind : Kinds])
      /\ \A i \in 1..Len(qs) : qs[i].name \in Questions
  BY PageFits
<1> DEFINE h == StageAll(right, qs)
           J == DOMAIN qs
           Q == [name : Questions, kind : Kinds]
<1>4. h = StageThose(right, qs, J)
  BY DEF StageAll
<1>5. qs \in Seq(Q) /\ \A i \in 1..Len(qs) : i \in J => qs[i].name \in Questions
  BY <1>3
<1>6. h \in Rights /\ h.sel = right.sel /\ h.lit = right.lit /\ h.loading = right.loading
  <2> HIDE DEF J, Q, h
  <2> QED
    BY <1>2, <1>4, <1>5, StageThoseFacts
<1>7. SetRight(h) /\ UNCHANGED doubt
  BY <1>1 DEF AddAll
<1> HIDE DEF h
<1> QED
  BY <1>6, <1>7, StagedStep

LEMMA RemoveStagedStep ==
  ASSUME BoardInv, RemoveStaged
  PROVE  BoardInv'
<1>1. PICK ids : SetRight(DelRows(right, ids, TRUE))
  BY DEF RemoveStaged
<1> DEFINE h == DelRows(right, ids, TRUE)
<1>2. /\ h \in SoundGrids(IdSet, Questions, RightKinds)
      /\ h.loading = right.loading
      /\ LitIsSel(right) => LitIsSel(h)
      /\ SelIsLit(right) => SelIsLit(h)
      /\ h.sel = <<>> \/ right.sel # <<>>
  <2>1. right \in SoundGrids(IdSet, Questions, RightKinds)
    BY DEF BoardInv
  <2>2. Deleted(IdSet, Questions, RightKinds, right, h, TRUE)
    BY <2>1, DelRowsFacts, Zenon
  <2> HIDE DEF h
  <2> QED
    BY <2>2 DEF Deleted
<1>3. right' = h /\ UNCHANGED <<page, left, dialog, calls, doubt>>
  BY <1>1 DEF SetRight, RemoveStaged
<1> HIDE DEF h
<1>4. Agrees(right', doubt["right"])
  BY <1>2, <1>3 DEF BoardInv, Agrees
<1> QED
  BY <1>2, <1>3, <1>4 DEF BoardInv

LEMMA DelStep ==
  ASSUME BoardInv, Del
  PROVE  BoardInv'
<1>1. PICK ids : SetRight(DelRows(right, ids, FALSE))
  BY DEF Del
<1> DEFINE h == DelRows(right, ids, FALSE)
           d == IF doubt["right"] = "failed" THEN doubt["right"] ELSE "removed"
<1>2. /\ h \in SoundGrids(IdSet, Questions, RightKinds)
      /\ h.loading = right.loading
      /\ LitIsSel(right) => LitIsSel(h)
  <2>1. right \in SoundGrids(IdSet, Questions, RightKinds)
    BY DEF BoardInv
  <2>2. Deleted(IdSet, Questions, RightKinds, right, h, FALSE)
    BY <2>1, DelRowsFacts, Zenon
  <2> HIDE DEF h
  <2> QED
    BY <2>2 DEF Deleted
<1>3. right' = h /\ UNCHANGED <<page, left, dialog, calls>>
  BY <1>1 DEF SetRight
<1>4. doubt' = [doubt EXCEPT !["right"] = d]
  BY DEF Del
<1>5. d \in Doubts /\ d # "none" /\ (d # "failed" => doubt["right"] # "failed")
  BY DEF Doubts
<1> HIDE DEF h, d
<1>6. Agrees(right', d)
  BY <1>2, <1>3, <1>5 DEF BoardInv, Agrees
<1> QED
  BY <1>2, <1>3, <1>4, <1>5, <1>6, RightStep

\* A request that is well typed only joins the requests under way.
LEMMA SendStep ==
  ASSUME BoardInv, NEW verb, NEW side, NEW names, Send(verb, side, names),
         [verb |-> verb, from |-> side, names |-> names] \in Call,
         dialog' \in Seq(Questions),
         UNCHANGED <<page, left, right, doubt>>
  PROVE  BoardInv'
<1> DEFINE c == [verb |-> verb, from |-> side, names |-> names]
<1>1. calls' = Append(calls, c) /\ calls \in Seq(Call) /\ c \in Call
  BY DEF Send, BoardInv
<1> HIDE DEF c
<1>2. calls' \in Seq(Call)
  BY <1>1, AppendFacts
<1> QED
  BY <1>2 DEF BoardInv

\* The names of what is selected in a grid.
LEMMA SelectedNames ==
  ASSUME NEW K, NEW g \in SoundGrids(IdSet, Questions, K)
  PROVE  LET names == NamesOf(Selected(g))
         IN  /\ names \in Seq(Questions \union {Undefined})
             /\ ToSet(names) = {QuestionAt(g, id).name : id \in ToSet(g.sel)}
<1> DEFINE A == Asked(K)
           N == Questions \union {Undefined}
           qs == Selected(g)
<1>1. qs \in Seq(A) /\ ToSet(qs) = {QuestionAt(g, id) : id \in ToSet(g.sel)}
  BY SelectedFacts
<1>2. \A q \in A : q.name \in N
  BY AskedFacts
<1>3. NamesOf(qs) \in Seq(N) /\ ToSet(NamesOf(qs)) = {q.name : q \in ToSet(qs)}
  <2> HIDE DEF A, N, qs
  <2> QED
    BY <1>1, <1>2, NamesOfFacts
<1> QED
  BY <1>1, <1>3

\* A verdict names at most the first selected question, which exists.
LEMMA JudgedFacts ==
  ASSUME BoardInv, left.sel # <<>>
  PROVE  /\ NamesOf(Judged) \in Seq(Questions \union {Undefined})
         /\ ToSet(NamesOf(Judged)) \subseteq
              {QuestionAt(left, id).name : id \in ToSet(left.sel)}
<1> DEFINE first == QuestionAt(left, left.sel[1])
           n == Len(left.sel)
           N == Questions \union {Undefined}
           A == Asked(Kinds)
<1>1. left \in SoundGrids(IdSet, Questions, Kinds) /\ left.sel \in Seq(IdSet)
  BY DEF BoardInv, SoundGrids, GridsOf
<1>2. n \in Nat /\ DOMAIN left.sel = 1..n /\ n # 0
  BY <1>1
<1>3. left.sel[1] \in ToSet(left.sel) /\ left.sel[1] \in IdSet
  BY <1>1, <1>2 DEF ToSet
<1>4. first \in A
  BY <1>1, <1>3, QuestionAtTyped DEF Asked, NoQuestion
<1>5. Judged \in Seq(A) /\ ToSet(Judged) \subseteq {first}
  <2>1. CASE first.kind = "ready"
    <3>1. Judged = [i \in 1..n |-> first]
      BY <1>2, <2>1 DEF Judged
    <3> HIDE DEF first, n, A
    <3> QED
      BY <1>2, <1>4, <3>1 DEF ToSet
  <2>2. CASE first.kind # "ready"
    BY <2>2 DEF Judged, ToSet
  <2> QED
    BY <2>1, <2>2
<1>6. \A q \in A : q.name \in N
  BY AskedFacts
<1>7. /\ NamesOf(Judged) \in Seq(N)
      /\ ToSet(NamesOf(Judged)) = {q.name : q \in ToSet(Judged)}
  <2> HIDE DEF A, N
  <2> QED
    BY <1>5, <1>6, NamesOfFacts
<1> QED
  BY <1>3, <1>5, <1>7

\* What is sent, by the button: it comes from one grid, whose selection it
\* names, all of it except for a verdict.
LEMMA RequestFacts ==
  ASSUME BoardInv, Publish \/ Delete \/ Nullity \/ Approve \/ Reject
  PROVE  \E c \in Call :
           /\ Send(c.verb, c.from, c.names)
           /\ c = [verb |-> c.verb, from |-> c.from, names |-> c.names]
           /\ UNCHANGED <<page, left, right, dialog, doubt>>
           /\ ToSet(c.names) \subseteq
                {QuestionAt(Grid(c.from), id).name : id \in ToSet(Grid(c.from).sel)}
           /\ c.verb \in {"publish", "delete", "nullity"} =>
                {QuestionAt(Grid(c.from), id).name : id \in ToSet(Grid(c.from).sel)}
                  \subseteq ToSet(c.names)
<1> DEFINE All(side) == {QuestionAt(Grid(side), id).name : id \in ToSet(Grid(side).sel)}
           Req(v, side, names) == [verb |-> v, from |-> side, names |-> names]
           P(c) == /\ Send(c.verb, c.from, c.names)
                   /\ c = Req(c.verb, c.from, c.names)
                   /\ UNCHANGED <<page, left, right, dialog, doubt>>
                   /\ ToSet(c.names) \subseteq All(c.from)
                   /\ c.verb \in {"publish", "delete", "nullity"} =>
                        All(c.from) \subseteq ToSet(c.names)
<1>1. SUFFICES \E c \in Call : P(c)
  OBVIOUS
<1>2. Grid("left") = left /\ Grid("right") = right
  BY DEF Grid
<1>3. /\ left \in SoundGrids(IdSet, Questions, Kinds)
      /\ right \in SoundGrids(IdSet, Questions, RightKinds)
  BY DEF BoardInv
<1>4. ASSUME NEW v \in {"publish", "delete", "nullity", "close", "approve", "reject"},
             NEW side \in SideNames,
             NEW names \in Seq(Questions \union {Undefined}),
             SendOnly(v, side, names),
             ToSet(names) \subseteq All(side),
             v \in {"publish", "delete", "nullity"} => All(side) \subseteq ToSet(names)
      PROVE  \E c \in Call : P(c)
  <2> DEFINE c == Req(v, side, names)
  <2>1. c.verb = v /\ c.from = side /\ c.names = names
    OBVIOUS
  <2>2. c \in Call
    BY DEF Call
  <2>3. c = Req(c.verb, c.from, c.names)
    BY <2>1
  <2> HIDE DEF c, All, Req
  <2>4. P(c)
    BY <1>4, <2>1, <2>3 DEF SendOnly
  <2> HIDE DEF P
  <2> QED
    BY <2>2, <2>4
<1>5. /\ NamesOf(Selected(left)) \in Seq(Questions \union {Undefined})
      /\ ToSet(NamesOf(Selected(left))) = All("left")
  BY <1>2, <1>3, SelectedNames
<1>6. /\ NamesOf(Selected(right)) \in Seq(Questions \union {Undefined})
      /\ ToSet(NamesOf(Selected(right))) = All("right")
  BY <1>2, <1>3, SelectedNames
<1>7. left.sel # <<>> =>
        /\ NamesOf(Judged) \in Seq(Questions \union {Undefined})
        /\ ToSet(NamesOf(Judged)) \subseteq All("left")
  BY <1>2, JudgedFacts
<1>8. "left" \in SideNames /\ "right" \in SideNames
  BY DEF SideNames
<1> HIDE DEF All, P
<1>9. CASE Publish
  BY <1>4, <1>6, <1>8, <1>9 DEF Publish
<1>10. CASE Delete
  BY <1>4, <1>5, <1>8, <1>10 DEF Delete
<1>11. CASE Nullity
  BY <1>4, <1>5, <1>8, <1>11 DEF Nullity
<1>12. CASE Approve
  BY <1>4, <1>7, <1>8, <1>12 DEF Approve
<1>13. CASE Reject
  BY <1>4, <1>7, <1>8, <1>13 DEF Reject
<1> QED
  BY <1>9, <1>10, <1>11, <1>12, <1>13

LEMMA RequestStep ==
  ASSUME BoardInv, Publish \/ Delete \/ Nullity \/ Approve \/ Reject
  PROVE  BoardInv'
<1>1. PICK c \in Call :
        /\ Send(c.verb, c.from, c.names)
        /\ c = [verb |-> c.verb, from |-> c.from, names |-> c.names]
        /\ UNCHANGED <<page, left, right, dialog, doubt>>
  BY RequestFacts
<1>2. dialog' \in Seq(Questions)
  BY <1>1 DEF BoardInv
<1> QED
  BY <1>1, <1>2, SendStep

LEMMA AskToCloseStep ==
  ASSUME BoardInv, AskToClose
  PROVE  BoardInv'
<1> DEFINE A == Asked(Kinds)
           B == {q \in A : q.kind = "solving"}
           qs == Selected(left)
           solving == {q \in ToSet(qs) : q.kind = "solving"}
           ts == Only(qs, solving)
<1>1. qs \in Seq(A)
  BY SelectedFacts DEF BoardInv
<1>2. ts \in Seq(A) /\ ToSet(ts) \subseteq solving
  <2> HIDE DEF qs, solving, A
  <2> QED
    BY <1>1, OnlyFacts
<1>3. ts \in Seq(B)
  <2> HIDE DEF ts, A
  <2>1. /\ Len(ts) \in Nat /\ ts = [i \in 1..Len(ts) |-> ts[i]]
        /\ \A i \in 1..Len(ts) : ts[i] \in A
    BY <1>2
  <2>2. \A i \in 1..Len(ts) : ts[i].kind = "solving"
    BY <1>2, <2>1 DEF ToSet
  <2>3. \A i \in 1..Len(ts) : ts[i] \in B
    BY <2>1, <2>2
  <2> HIDE DEF B
  <2> QED
    BY <2>1, <2>3
<1>4. \A q \in B : q.name \in Questions
  BY AskedFacts
<1>5. NamesOf(ts) \in Seq(Questions)
  <2> HIDE DEF ts, B
  <2> QED
    BY <1>3, <1>4, NamesOfFacts
<1>6. dialog' = NamesOf(ts) /\ UNCHANGED <<page, left, right, calls, doubt>>
  BY DEF AskToClose
<1> HIDE DEF ts
<1> QED
  BY <1>5, <1>6 DEF BoardInv

LEMMA ConfirmStep ==
  ASSUME BoardInv, Confirm
  PROVE  BoardInv'
<1> DEFINE N == Questions \union {Undefined}
<1>1. /\ Send("close", "left", dialog) /\ dialog' = <<>>
      /\ UNCHANGED <<page, left, right, doubt>>
  BY DEF Confirm
<1>2. dialog \in Seq(N)
  <2>1. dialog \in Seq(Questions) /\ Questions \subseteq N
    BY DEF BoardInv
  <2> HIDE DEF N
  <2> QED
    BY <2>1
<1>3. [verb |-> "close", from |-> "left", names |-> dialog] \in Call
  BY <1>2 DEF Call, SideNames
<1>4. dialog' \in Seq(Questions)
  BY <1>1
<1> QED
  BY <1>1, <1>3, <1>4, SendStep

LEMMA CancelStep ==
  ASSUME BoardInv, Cancel
  PROVE  BoardInv'
<1>1. dialog' = <<>> /\ UNCHANGED <<page, left, right, calls, doubt>>
  BY DEF Cancel
<1>2. dialog' \in Seq(Questions)
  BY <1>1
<1> QED
  BY <1>1, <1>2 DEF BoardInv

LEMMA AnsweredStep ==
  ASSUME BoardInv, Answered
  PROVE  BoardInv'
<1>1. calls' \in Seq(Call)
  <2>1. calls \in Seq(Call) /\ calls # <<>> /\ calls' = Tail(calls)
    BY DEF BoardInv, Answered
  <2> QED
    BY <2>1
<1>2. CASE UNCHANGED <<left, doubt>>
  BY <1>1, <1>2 DEF BoardInv, Answered
<1>3. CASE left' = Reload(left) /\ doubt' = [doubt EXCEPT !.left = "none"]
  <2>1. /\ left' \in SoundGrids(IdSet, Questions, Kinds)
        /\ left'.sel = <<>> /\ left'.loading
    BY <1>3, ReloadFacts DEF BoardInv
  <2>2. Agrees(left', "none")
    BY <2>1, AgreesReload
  <2>3. /\ doubt' \in [SideNames -> Doubts]
        /\ doubt'["left"] = "none" /\ doubt'["right"] = doubt["right"]
    BY <1>3 DEF BoardInv, SideNames, Doubts
  <2> QED
    BY <1>1, <2>1, <2>2, <2>3 DEF BoardInv, Answered
<1> QED
  BY <1>2, <1>3 DEF Answered

\* Every step keeps the invariant.
LEMMA BoardNext == BoardInv /\ [Next]_vars => BoardInv'
<1> SUFFICES ASSUME BoardInv, [Next]_vars PROVE BoardInv'
  OBVIOUS
<1>1. ASSUME NEW side \in SideNames, Click(side) PROVE BoardInv'
  BY <1>1, ClickStep
<1>2. ASSUME NEW side \in SideNames, AnswerLost(side) PROVE BoardInv'
  BY <1>2, AnswerLostStep
<1>3. CASE Search
  BY <1>3, SearchStep
<1>4. CASE LeftAnswered
  BY <1>4, LeftAnsweredStep
<1>5. CASE SendAll
  BY <1>5, SendAllStep
<1>6. CASE RightAnswered
  BY <1>6, RightAnsweredStep
<1>7. CASE Stage
  BY <1>7, StageStep
<1>8. CASE AddAll
  BY <1>8, AddAllStep
<1>9. CASE RemoveStaged
  BY <1>9, RemoveStagedStep
<1>10. CASE Del
  BY <1>10, DelStep
<1>11. CASE Publish \/ Delete \/ Nullity \/ Approve \/ Reject
  BY <1>11, RequestStep
<1>12. CASE AskToClose
  BY <1>12, AskToCloseStep
<1>13. CASE Confirm
  BY <1>13, ConfirmStep
<1>14. CASE Cancel
  BY <1>14, CancelStep
<1>15. CASE Answered
  BY <1>15, AnsweredStep
<1>16. CASE UNCHANGED vars
  BY <1>16 DEF vars, BoardInv
<1> QED
  BY <1>1, <1>2, <1>3, <1>4, <1>5, <1>6, <1>7, <1>8, <1>9, <1>10, <1>11, <1>12,
     <1>13, <1>14, <1>15, <1>16 DEF Next, SideNames

-----------------------------------------------------------------------------
(* Requests. *)

\* Every other step leaves the requests under way as they are, or answers one.
LEMMA OthersSendNothing ==
  ASSUME BoardInv, [Next]_vars,
         ~(Publish \/ Delete \/ Nullity \/ Approve \/ Reject), ~Confirm
  PROVE  Sent = {}
<1>1. Len(calls) \in Nat
  BY DEF BoardInv
<1>2. calls' = calls \/ Answered
  <2>1. ASSUME NEW side \in SideNames, Click(side) \/ AnswerLost(side)
        PROVE  calls' = calls
    BY <2>1 DEF Click, AnswerLost
  <2>2. CASE Search \/ LeftAnswered \/ SendAll \/ RightAnswered
    BY <2>2 DEF Search, LeftAnswered, SendAll, RightAnswered
  <2>3. CASE Stage \/ AddAll \/ RemoveStaged \/ Del
    BY <2>3 DEF Stage, AddAll, RemoveStaged, Del, SetRight
  <2>4. CASE AskToClose \/ Cancel
    BY <2>4 DEF AskToClose, Cancel
  <2>5. CASE UNCHANGED vars
    BY <2>5 DEF vars
  <2> QED
    BY <2>1, <2>2, <2>3, <2>4, <2>5 DEF Next, SideNames
<1>3. CASE calls' = calls
  BY <1>1, <1>3 DEF Sent
<1>4. CASE Answered
  <2>1. Len(calls') = Len(calls) - 1
    <3>1. calls \in Seq(Call) /\ calls # <<>> /\ calls' = Tail(calls)
      BY <1>4 DEF BoardInv, Answered
    <3> QED
      BY <3>1
  <2> QED
    BY <1>1, <2>1 DEF Sent
<1> QED
  BY <1>2, <1>3, <1>4

\* What Sent is when a request joins the others.
LEMMA SentIs ==
  ASSUME BoardInv, NEW verb, NEW side, NEW names, Send(verb, side, names)
  PROVE  Sent = {[verb |-> verb, from |-> side, names |-> names]}
<1> DEFINE c == [verb |-> verb, from |-> side, names |-> names]
<1>1. calls' = Append(calls, c) /\ calls \in Seq(Call) /\ Len(calls) \in Nat
  BY DEF Send, BoardInv
<1> HIDE DEF c
<1>2. Len(calls') = Len(calls) + 1 /\ calls'[Len(calls) + 1] = c
  BY <1>1
<1> QED
  BY <1>1, <1>2 DEF Sent, Last, c

\* A request other than closing names questions that are selected, and unless
\* it is a verdict, all of them.
LEMMA SentFacts ==
  ASSUME BoardInv, [Next]_vars, NEW c \in Sent, c.verb # "close"
  PROVE  LET chosen == {QuestionAt(Grid(c.from), id).name : id \in ToSet(Grid(c.from).sel)}
         IN  /\ c.from \in SideNames
             /\ ToSet(c.names) \subseteq chosen
             /\ c.verb \in {"publish", "delete", "nullity"} =>
                  chosen \subseteq ToSet(c.names)
<1>1. CASE Publish \/ Delete \/ Nullity \/ Approve \/ Reject
  <2>1. PICK b \in Call :
           /\ Send(b.verb, b.from, b.names)
           /\ b = [verb |-> b.verb, from |-> b.from, names |-> b.names]
           /\ ToSet(b.names) \subseteq
                {QuestionAt(Grid(b.from), id).name : id \in ToSet(Grid(b.from).sel)}
           /\ b.verb \in {"publish", "delete", "nullity"} =>
                {QuestionAt(Grid(b.from), id).name : id \in ToSet(Grid(b.from).sel)}
                  \subseteq ToSet(b.names)
    BY <1>1, RequestFacts
  <2>2. Sent = {b}
    BY <2>1, SentIs
  <2>3. c = b /\ b.from \in SideNames
    BY <2>2 DEF Call
  <2> QED
    BY <2>1, <2>3
<1>2. CASE Confirm
  <2>1. Send("close", "left", dialog)
    BY <1>2 DEF Confirm
  <2>2. c = [verb |-> "close", from |-> "left", names |-> dialog]
    BY <2>1, SentIs
  <2> QED
    BY <2>2
<1>3. CASE ~(Publish \/ Delete \/ Nullity \/ Approve \/ Reject) /\ ~Confirm
  BY <1>3, OthersSendNothing
<1> QED
  BY <1>1, <1>2, <1>3

\* What is highlighted are the questions of the rows that are lit.
LEMMA HighlightedFacts ==
  ASSUME NEW I, NEW N, NEW K, NEW g \in SoundGrids(I, N, K)
  PROVE  Highlighted(g) = {QuestionAt(g, id).name : id \in g.lit}
<1>1. ASSUME NEW id \in g.lit
      PROVE  \E r \in ToSet(g.rows) : r.id = id /\ QuestionAt(g, id) = r
  <2>1. id \in Ids(g)
    BY DEF SoundGrids
  <2>2. PICK r \in ToSet(g.rows) : r.id = id
    BY <2>1 DEF Ids, ToSet
  <2> QED
    BY <2>2, QuestionAtFacts
<1>2. ASSUME NEW r \in ToSet(g.rows), r.id \in g.lit
      PROVE  QuestionAt(g, r.id) = r
  BY QuestionAtFacts
<1> QED
  BY <1>1, <1>2 DEF Highlighted

-----------------------------------------------------------------------------
(* Theorems. *)

\* The grids, the selection and what the user sees agree in every state as far
\* as the history of the page says, for pages of any size.
THEOREM BoardsInductive == Spec => []BoardInv
<1>1. Init => BoardInv
  BY BoardInit
<1>2. BoardInv /\ [Next]_vars => BoardInv'
  BY BoardNext
<1> QED
  BY <1>1, <1>2, PTL DEF Spec

\* Every reachable state is well typed, whatever the pages of the server: no row
\* without a question is staged, even if the selection holds ids of rows that
\* are gone.
THEOREM TypeCorrect == Spec => []TypeOK
<1>1. ASSUME BoardInv PROVE TypeOK
  <2>1. ASSUME NEW K, NEW g \in SoundGrids(IdSet, Questions, K)
        PROVE  /\ ToSet(g.rows) \subseteq Row(Questions, K)
               /\ ToSet(g.sel) \subseteq 1..MaxId
               /\ g.lit \subseteq Ids(g)
               /\ g.loading \in BOOLEAN
    <3>1. /\ DOMAIN g.rows = 1..Len(g.rows)
          /\ \A i \in 1..Len(g.rows) : g.rows[i] \in RowsOf(IdSet, Questions, K)
      BY <2>1, RowFacts DEF SoundGrids
    <3>2. RowsOf(IdSet, Questions, K) = Row(Questions, K)
      BY DEF RowsOf, Row, IdSet
    <3>3. ToSet(g.rows) \subseteq Row(Questions, K)
      BY <3>1, <3>2 DEF ToSet
    <3>4. g.sel \in Seq(IdSet) /\ g.lit \subseteq Ids(g) /\ g.loading \in BOOLEAN
      BY <2>1 DEF SoundGrids, GridsOf
    <3>5. ToSet(g.sel) \subseteq 1..MaxId
      <4>1. g.sel \in Seq(IdSet)
        BY <3>4
      <4>2. DOMAIN g.sel = 1..Len(g.sel)
        BY <4>1
      <4>3. \A i \in DOMAIN g.sel : g.sel[i] \in IdSet
        BY <4>1, <4>2
      <4> QED
        BY <4>3 DEF ToSet, IdSet
    <3> QED
      BY <3>3, <3>4, <3>5
  <2>2. ToSet(dialog) \subseteq Questions
    BY <1>1 DEF BoardInv, ToSet
  <2>3. ASSUME NEW i \in DOMAIN calls
        PROVE  /\ calls[i].from \in {"left", "right"}
               /\ ToSet(calls[i].names) \subseteq Questions \union {Undefined}
    <3>1. calls[i] \in Call
      <4>1. calls \in Seq(Call)
        BY <1>1 DEF BoardInv
      <4> QED
        BY <4>1, <2>3
    <3>2. /\ calls[i].from \in SideNames
          /\ calls[i].names \in Seq(Questions \union {Undefined})
      BY <3>1 DEF Call
    <3> QED
      BY <3>2 DEF SideNames, ToSet
  <2>4. \A side \in {"left", "right"} :
          doubt[side] \in {"none", "early", "removed", "failed"}
    BY <1>1 DEF BoardInv, SideNames, Doubts
  <2>5. /\ left \in SoundGrids(IdSet, Questions, Kinds)
        /\ right \in SoundGrids(IdSet, Questions, RightKinds)
        /\ page \in Pages
    BY <1>1 DEF BoardInv
  <2> QED
    BY <2>1, <2>2, <2>3, <2>4, <2>5 DEF TypeOK, RightKinds
<1> QED
  BY <1>1, BoardsInductive, PTL

\* Rows of the grid on the right never share an id or a question, for any
\* sequence of adding, removing and reloading.
THEOREM StagedRowsDistinct == Spec => []RowsDistinct
<1>1. ASSUME BoardInv PROVE RowsDistinct
  <2>1. right \in SoundGrids(IdSet, Questions, RightKinds)
    BY <1>1 DEF BoardInv
  <2>2. /\ Len(right.rows) \in Nat /\ DOMAIN right.rows = 1..Len(right.rows)
        /\ \A i, j \in 1..Len(right.rows) :
             i < j => <<right.rows[i], right.rows[j]>> \in Apart(IdSet, Questions, RightKinds)
    BY <2>1, RowFacts DEF SoundGrids
  <2>3. \A i, j \in 1..Len(right.rows) :
          i < j => /\ right.rows[i].id # right.rows[j].id
                   /\ right.rows[i].name # right.rows[j].name
    BY <2>2 DEF Apart
  <2>4. \A i, j \in 1..Len(right.rows) :
          (\/ right.rows[i].id = right.rows[j].id
           \/ right.rows[i].name = right.rows[j].name) => i = j
    BY <2>2, <2>3
  <2> QED
    BY <2>2, <2>4 DEF RowsDistinct
<1> QED
  BY <1>1, BoardsInductive, PTL

\* Outside the situations it names, a request names only questions that the
\* user sees highlighted in the grid it is about.
THEOREM RequestsNameTheShown == Spec => NamesOnlyTheShown
<1>1. ASSUME BoardInv, [Next]_vars, NEW c \in Sent,
             c.verb # "close", doubt[c.from] = "none", ~Grid(c.from).loading
      PROVE  ToSet(c.names) \subseteq Highlighted(Grid(c.from))
  <2>1. /\ c.from \in SideNames
        /\ ToSet(c.names) \subseteq
             {QuestionAt(Grid(c.from), id).name : id \in ToSet(Grid(c.from).sel)}
    BY <1>1, SentFacts
  <2>2. /\ Agrees(Grid(c.from), doubt[c.from])
        /\ \E K : Grid(c.from) \in SoundGrids(IdSet, Questions, K)
    BY <1>1, <2>1 DEF BoardInv, Grid, SideNames
  <2>3. ToSet(Grid(c.from).sel) \subseteq Grid(c.from).lit
    BY <1>1, <2>2 DEF Agrees, SelIsLit
  <2>4. Highlighted(Grid(c.from)) =
          {QuestionAt(Grid(c.from), id).name : id \in Grid(c.from).lit}
    BY <2>2, HighlightedFacts
  <2> QED
    BY <2>1, <2>3, <2>4
<1>2. BoardInv /\ [Next]_vars =>
        [\A c \in Sent :
            /\ c.verb # "close"
            /\ doubt[c.from] = "none"
            /\ ~Grid(c.from).loading
            => ToSet(c.names) \subseteq Highlighted(Grid(c.from))]_vars
  BY <1>1
<1> QED
  BY <1>2, BoardsInductive, PTL DEF Spec, NamesOnlyTheShown

\* Unless a load has failed, what the user sees highlighted is part of what is
\* published, deleted or declared void, also after removals and hasty clicks.
THEOREM RequestsMissNothing == Spec => MissesNothingShown
<1>1. ASSUME BoardInv, [Next]_vars, NEW c \in Sent,
             c.verb \in {"publish", "delete", "nullity"},
             doubt[c.from] # "failed", ~Grid(c.from).loading
      PROVE  Highlighted(Grid(c.from)) \subseteq ToSet(c.names)
  <2>1. /\ c.from \in SideNames
        /\ {QuestionAt(Grid(c.from), id).name : id \in ToSet(Grid(c.from).sel)}
             \subseteq ToSet(c.names)
    BY <1>1, SentFacts
  <2>2. /\ Agrees(Grid(c.from), doubt[c.from])
        /\ \E K : Grid(c.from) \in SoundGrids(IdSet, Questions, K)
    BY <1>1, <2>1 DEF BoardInv, Grid, SideNames
  <2>3. Grid(c.from).lit \subseteq ToSet(Grid(c.from).sel)
    BY <1>1, <2>2 DEF Agrees, LitIsSel
  <2>4. Highlighted(Grid(c.from)) =
          {QuestionAt(Grid(c.from), id).name : id \in Grid(c.from).lit}
    BY <2>2, HighlightedFacts
  <2> QED
    BY <2>1, <2>3, <2>4
<1>2. BoardInv /\ [Next]_vars =>
        [\A c \in Sent :
            /\ c.verb \in {"publish", "delete", "nullity"}
            /\ doubt[c.from] # "failed"
            /\ ~Grid(c.from).loading
            => Highlighted(Grid(c.from)) \subseteq ToSet(c.names)]_vars
  BY <1>1
<1> QED
  BY <1>2, BoardsInductive, PTL DEF Spec, MissesNothingShown
=============================================================================
