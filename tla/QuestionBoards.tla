--------------------------- MODULE QuestionBoards ---------------------------
(***************************************************************************)
(* The pages on which questions about data quality are announced, dealt     *)
(* with and reviewed (page/sm/quesmgr).  A page shows questions in the grid *)
(* on the left; the announce and the deal page have a second grid on the   *)
(* right, where questions are staged before they are published.  Requests  *)
(* to the server and reloads of the grids are asynchronous: the user goes   *)
(* on clicking.  The server is not part of the repository: it answers a     *)
(* reload with any of a set of pages, and a request with success or not.    *)
(***************************************************************************)
EXTENDS DataGrid

CONSTANTS
    Questions,   \* names of questions (quesId)
    Undefined,   \* what a page sends for the quesId of a row that is not there
    LeftPages,   \* what the left grid may be answered: sequences of questions
    MajorPages,  \* what a request for all major questions may be answered
    MaxId,       \* bound: ids of rows in the grid on the right
    MaxSel,      \* bound: rows selected in a grid
    MaxCalls     \* bound: requests under way

ASSUME UndefinedAssumption == Undefined \notin Questions

(***************************************************************************)
(* How a question stands, as far as the pages tell apart:                   *)
(*   ready       major, and may be announced, staged or judged             *)
(*   incomplete  major, without the solution or result that must be there   *)
(*   closed      major, in any other state                                 *)
(*   solving     not major, being solved                                   *)
(*   minor       not major, in any other state                             *)
(*   staged      in the right grid, which shows no state                   *)
(***************************************************************************)
Kinds == {"ready", "incomplete", "closed", "solving", "minor"}

(***************************************************************************)
(* The server answers a reload with rows of the table of questions, whose   *)
(* key is the name: none of them twice on a page.  Pages fit in the bound.  *)
(***************************************************************************)
ASSUME PagesAssumption ==
    \A p \in LeftPages \union MajorPages :
        /\ p \in Seq([name : Questions, kind : Kinds])
        /\ \A i, j \in 1..Len(p) : p[i].name = p[j].name => i = j
        /\ Len(p) <= MaxId

ASSUME MaxIdAssumption == MaxId \in Nat

Pages == {"announce", "deal", "review"}

VARIABLES
    page,    \* the page the browser shows
    left,    \* #grid-table
    right,   \* #grid-table1 of the announce page, #grid2-table of the deal page
    dialog,  \* names a confirmation is asked for, <<>> when no dialog is open
    calls,   \* requests under way, oldest first
    doubt    \* history: what has come between the selection and the screen

vars == <<page, left, right, dialog, calls, doubt>>

Init ==
    /\ page \in Pages
    /\ \E p \in LeftPages : left = Loaded(NewGrid, p)
    /\ right = NewGrid
    /\ dialog = <<>>
    /\ calls = <<>>
    /\ doubt = [left |-> "none", right |-> "none"]

-----------------------------------------------------------------------------
(* Helpers of the pages. *)

\* getRowData: an object without quesId when there is no such row.
QuestionAt(g, id) ==
    IF RowsAt(g, id) = {} THEN [id |-> id, name |-> Undefined, kind |-> "minor"]
    ELSE CHOOSE r \in RowsAt(g, id) : TRUE

Selected(g) == [i \in DOMAIN g.sel |-> QuestionAt(g, g.sel[i])]
NamesOf(qs) == [i \in DOMAIN qs |-> qs[i].name]

\* Mutant: the number of rows, and one.
NextIdByCount(g) == 1 + Len(g.rows)

\* The id of a new row: on the announce page the last id with a "1" behind it,
\* on the deal page one more than the largest; both grow with every row.
NextId(g) == IF g.rows = <<>> THEN 1 ELSE 1 + Max(Ids(g))

Staged(q) == [name |-> q.name, kind |-> "staged"]

\* A question goes to the right if no row there has its name.
StageNew(g, q) ==
    IF q.name \in Names(g) THEN g ELSE AddRow(g, NextId(g), Staged(q))

\* Of a sequence of questions those at the places in I are looked at in turn.
StageThose(g, qs, I) ==
    LET after[i \in 0..Len(qs)] ==
          IF i = 0 THEN g
          ELSE IF i \in I THEN StageNew(after[i - 1], qs[i])
          ELSE after[i - 1]
    IN  after[Len(qs)]

\* Mutant: whatever is selected is staged.
StageAnything(g, qs) == StageThose(g, qs, DOMAIN qs)

\* The announce page looks at each question by itself.
StageReady(g, qs) == StageThose(g, qs, {i \in DOMAIN qs : qs[i].kind = "ready"})

StageAll(g, qs) == StageThose(g, qs, DOMAIN qs)

\* The deal page passes by questions that were staged before or are not major,
\* and stops at one that is incomplete; what it has added before stays.
Goes(g, qs, i) ==
    LET fresh(j) == qs[j].name \notin Names(g)
    IN  /\ fresh(i) /\ qs[i].kind = "ready"
        /\ ~\E j \in 1..(i - 1) : fresh(j) /\ qs[j].kind = "incomplete"

StageUpToIncomplete(g, qs) ==
    LET after[i \in 0..Len(qs)] ==
          IF i = 0 THEN g
          ELSE IF Goes(g, qs, i)
                 THEN AddRow(after[i - 1], NextId(after[i - 1]), Staged(qs[i]))
          ELSE after[i - 1]
    IN  after[Len(qs)]

IdSeq(g) == [i \in DOMAIN g.rows |-> g.rows[i].id]

Send(verb, side, names) ==
    /\ Len(calls) < MaxCalls
    /\ calls' = Append(calls, [verb |-> verb, from |-> side, names |-> names])

Grid(side) == IF side = "left" THEN left ELSE right
Sides == IF page = "review" THEN {"left"} ELSE {"left", "right"}

\* The user's hands are on the page: no dialog is in front of it.
Idle == dialog = <<>>

SetGrid(side, g) ==
    IF side = "left" THEN left' = g /\ UNCHANGED right
                     ELSE right' = g /\ UNCHANGED left

-----------------------------------------------------------------------------
(* The grids. *)

\* A click that selects or deselects; what is selected before the answer to a
\* reload is a row that will not be there.
Click(side) ==
    /\ Idle /\ side \in Sides
    /\ \E g \in {ClickBox(Grid(side), id) : id \in Ids(Grid(side))}
                \union {ClickRow(Grid(side), id) : id \in Ids(Grid(side))}
                \union {ClickHead(Grid(side), checked) : checked \in BOOLEAN} :
           /\ Len(g.sel) <= MaxSel
           /\ SetGrid(side, g)
    /\ doubt' = IF Grid(side).loading THEN [doubt EXCEPT ![side] = "early"] ELSE doubt
    /\ UNCHANGED <<page, dialog, calls>>

\* doSearch, and the pager: the left grid is loaded again.
Search ==
    /\ Idle
    /\ left' = Reload(left)
    /\ doubt' = [doubt EXCEPT !.left = "none"]
    /\ UNCHANGED <<page, right, dialog, calls>>

LeftAnswered ==
    /\ left.loading
    /\ \E p \in LeftPages : left' = Loaded(left, p)
    /\ UNCHANGED <<page, right, dialog, calls, doubt>>

\* sendAll: the deal page has its right grid filled by the server.
SendAll ==
    /\ Idle /\ page = "deal"
    /\ right' = Reload(right)
    /\ doubt' = [doubt EXCEPT !.right = "none"]
    /\ UNCHANGED <<page, left, dialog, calls>>

RightAnswered ==
    /\ right.loading
    /\ \E p \in MajorPages : right' = Loaded(right, p)
    /\ UNCHANGED <<page, left, dialog, calls, doubt>>

\* A reload that fails leaves rows that look selected and are not.
AnswerLost(side) ==
    /\ Grid(side).loading
    /\ SetGrid(side, LoadFailed(Grid(side)))
    /\ doubt' = [doubt EXCEPT ![side] = "failed"]
    /\ UNCHANGED <<page, dialog, calls>>

-----------------------------------------------------------------------------
(* Staging: opera() of the announce page; sendRight() and its like. *)

SetRight(g) ==
    /\ \A id \in Ids(g) : id <= MaxId
    /\ right' = g
    /\ UNCHANGED <<page, left, dialog, calls>>

\* opera('add') and opera('addPage'), sendRight and sendCurPage.
Stage ==
    /\ Idle /\ page # "review"
    /\ \E qs \in {Selected(left), left.rows} :
         SetRight(IF page = "announce" THEN StageReady(right, qs)
                                       ELSE StageUpToIncomplete(right, qs))
    /\ UNCHANGED doubt

\* opera('addAll'): the answer is waited for (async: false).
AddAll ==
    /\ Idle /\ page = "announce"
    /\ \E qs \in MajorPages : SetRight(StageAll(right, qs))
    /\ UNCHANGED doubt

\* Mutant: the ids are turned into numbers, as on the deal page.
RemoveStagedByNumber ==
    /\ Idle /\ page = "announce"
    /\ \E ids \in {right.sel, IdSeq(right)} : SetRight(DelRows(right, ids, FALSE))
    /\ UNCHANGED doubt

\* opera('remove'), which deletes the first of the selected rows as often as
\* there were any, and opera('removeAll').
RemoveStaged ==
    /\ Idle /\ page = "announce"
    /\ \E ids \in {right.sel, IdSeq(right)} : SetRight(DelRows(right, ids, TRUE))
    /\ UNCHANGED doubt

\* del and delAll of the deal page, with ids turned into numbers: the rows go
\* and their ids stay selected.
Del ==
    /\ Idle /\ page = "deal"
    /\ \E ids \in {right.sel, IdSeq(right)} :
         /\ ids # <<>>
         /\ SetRight(DelRows(right, ids, FALSE))
    /\ doubt' = [doubt EXCEPT !.right = IF @ = "failed" THEN @ ELSE "removed"]

-----------------------------------------------------------------------------
(* Requests. *)

SendOnly(verb, side, names) ==
    /\ Send(verb, side, names)
    /\ UNCHANGED <<page, left, right, dialog, doubt>>

\* Announcing, publishing a solution or changing a state: all selected rows.
Publish ==
    /\ Idle /\ page # "review"
    /\ right.sel # <<>>
    /\ SendOnly("publish", "right", NamesOf(Selected(right)))

\* Deleting a question takes exactly one selected row.
Delete ==
    /\ Idle /\ page = "announce"
    /\ Len(left.sel) = 1
    /\ SendOnly("delete", "left", NamesOf(Selected(left)))

\* Declaring questions void: the state that should stop it is no column of the
\* grid, so all selected rows are sent.
Nullity ==
    /\ Idle /\ page = "deal"
    /\ left.sel # <<>>
    /\ SendOnly("nullity", "left", NamesOf(Selected(left)))

\* Closing minor questions is confirmed first.
AskToClose ==
    /\ Idle /\ page = "deal"
    /\ dialog' = NamesOf(Only(Selected(left),
                          {q \in ToSet(Selected(left)) : q.kind = "solving"}))
    /\ dialog' # <<>>
    /\ UNCHANGED <<page, left, right, calls, doubt>>

Confirm ==
    /\ ~Idle
    /\ Send("close", "left", dialog)
    /\ dialog' = <<>>
    /\ UNCHANGED <<page, left, right, doubt>>

Cancel ==
    /\ ~Idle
    /\ dialog' = <<>>
    /\ UNCHANGED <<page, left, right, calls, doubt>>

\* The three review pages: the loop over the selected rows reads ids[0] each
\* time.
Judged ==
    LET first == QuestionAt(left, left.sel[1])
    IN  IF first.kind = "ready" THEN [i \in DOMAIN left.sel |-> first] ELSE <<>>

Approve ==
    /\ Idle /\ page = "review"
    /\ left.sel # <<>>
    /\ Judged # <<>>
    /\ SendOnly("approve", "left", NamesOf(Judged))

\* A rejection is sent even when it names nothing.
Reject ==
    /\ Idle /\ page = "review"
    /\ left.sel # <<>>
    /\ SendOnly("reject", "left", NamesOf(Judged))

\* An answer: after a success the left grid is loaded again, except after an
\* announcement or a verdict.
Answered ==
    /\ calls # <<>>
    /\ calls' = Tail(calls)
    /\ \/ UNCHANGED <<left, doubt>>
       \/ /\ Head(calls).verb = "delete" \/ page = "deal"
          /\ left' = Reload(left)
          /\ doubt' = [doubt EXCEPT !.left = "none"]
    /\ UNCHANGED <<page, right, dialog>>

Next ==
    \/ \E side \in {"left", "right"} : Click(side) \/ AnswerLost(side)
    \/ Search \/ LeftAnswered \/ SendAll \/ RightAnswered
    \/ Stage \/ AddAll \/ RemoveStaged \/ Del
    \/ Publish \/ Delete \/ Nullity \/ AskToClose \/ Confirm \/ Cancel
    \/ Approve \/ Reject \/ Answered

Spec == Init /\ [][Next]_vars

-----------------------------------------------------------------------------
(* Properties. *)

Row(names, kinds) == [id : 1..MaxId, name : names, kind : kinds]

\* The variables have their types; a row without a question is never staged,
\* whatever the selection holds.
TypeOK ==
    /\ page \in Pages
    /\ ToSet(left.rows) \subseteq Row(Questions, Kinds)
    /\ ToSet(right.rows) \subseteq Row(Questions, Kinds \union {"staged"})
    /\ \A g \in {left, right} :
         /\ ToSet(g.sel) \subseteq 1..MaxId
         /\ g.lit \subseteq Ids(g)
         /\ g.loading \in BOOLEAN
    /\ ToSet(dialog) \subseteq Questions
    /\ \A i \in DOMAIN calls :
         /\ calls[i].from \in {"left", "right"}
         /\ ToSet(calls[i].names) \subseteq Questions \union {Undefined}
    /\ \A side \in {"left", "right"} :
         doubt[side] \in {"none", "early", "removed", "failed"}

\* Two rows of the grid on the right never share an id, by which rows are
\* selected and removed, nor a question, which would be published twice:
\* however adding by selection, by page and altogether, removing and reloading
\* follow one another.
RowsDistinct ==
    \A i, j \in DOMAIN right.rows :
        \/ right.rows[i].id = right.rows[j].id
        \/ right.rows[i].name = right.rows[j].name
        => i = j

\* The request this step has sent, if any.
Sent == IF Len(calls') > Len(calls) THEN {Last(calls')} ELSE {}

\* A request names only questions the user sees highlighted, unless rows have
\* been removed on the deal page, or rows have been clicked while the grid was
\* being loaded, or the load has failed: the selection is an array of row ids
\* that outlives the rows.  (Closing is confirmed later and left out.)
NamesOnlyTheShown ==
    [][\A c \in Sent :
         /\ c.verb # "close"
         /\ doubt[c.from] = "none"
         /\ ~Grid(c.from).loading
         => ToSet(c.names) \subseteq Highlighted(Grid(c.from))]_vars

\* What the user sees highlighted is part of what is published, deleted or
\* declared void, even after removals and hasty clicks; only a failed load can
\* leave rows that look selected and are not.
MissesNothingShown ==
    [][\A c \in Sent :
         /\ c.verb \in {"publish", "delete", "nullity"}
         /\ doubt[c.from] # "failed"
         /\ ~Grid(c.from).loading
         => Highlighted(Grid(c.from)) \subseteq ToSet(c.names)]_vars

\* What the comment over the loops of the review pages says they collect, the
\* selected ids: a verdict names every selected question it can be passed on.
\* It does not hold: the loop reads the first selected row each time.
ReviewCoversSelection ==
    [][\A c \in Sent :
         /\ c.verb \in {"approve", "reject"}
         => \A q \in ToSet(Selected(left)) :
              q.kind = "ready" => q.name \in ToSet(c.names)]_vars
=============================================================================
