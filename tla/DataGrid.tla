------------------------------ MODULE DataGrid ------------------------------
(***************************************************************************)
(* The part of jqGrid 4.8 the pages of the console rely on: the rows of a   *)
(* table with check boxes (multiselect, multiboxonly), the array selarrrow *)
(* of selected ids, the highlighting the user sees, and reloading.  A grid  *)
(* is a record:                                                            *)
(*    rows     the rows on the screen: an id, and the question's name and  *)
(*             kind                                                        *)
(*    sel      selarrrow, in the order the rows were selected               *)
(*    lit      ids of the rows that are highlighted                         *)
(*    loading  a reload has been asked for and has not been answered        *)
(***************************************************************************)
EXTENDS Naturals, Sequences, SequencesExt, FiniteSetsExt

\* The elements of a sequence that are in a set, in their order.
Only(s, S) ==
    LET upTo[i \in 0..Len(s)] ==
          IF i = 0 THEN <<>>
          ELSE IF s[i] \in S THEN Append(upTo[i - 1], s[i])
          ELSE upTo[i - 1]
    IN  upTo[Len(s)]

NewGrid == [rows |-> <<>>, sel |-> <<>>, lit |-> {}, loading |-> FALSE]

\* getDataIDs.
Ids(g) == {g.rows[i].id : i \in DOMAIN g.rows}
Names(g) == {g.rows[i].name : i \in DOMAIN g.rows}

\* getRowData of an id.
RowsAt(g, id) == {r \in ToSet(g.rows) : r.id = id}

\* What the user sees selected.
Highlighted(g) == {r.name : r \in {s \in ToSet(g.rows) : s.id \in g.lit}}

-----------------------------------------------------------------------------

\* A click on the check box of a row (setSelection): it is selected, or, when
\* selarrrow has it, no longer so.
ClickBox(g, id) ==
    IF Contains(g.sel, id)
      THEN [g EXCEPT !.sel = Only(@, ToSet(@) \ {id}), !.lit = @ \ {id}]
      ELSE [g EXCEPT !.sel = Append(@, id), !.lit = @ \union {id}]

\* A click elsewhere in the row: it is selected alone (multiboxonly).
ClickRow(g, id) ==
    [g EXCEPT !.sel = <<id>>, !.lit = (@ \ ToSet(g.sel)) \union {id}]

\* The check box of the header: all rows, or none.
ClickHead(g, checked) ==
    IF checked
      THEN [g EXCEPT !.sel = [i \in DOMAIN g.rows |-> g.rows[i].id], !.lit = Ids(g)]
      ELSE [g EXCEPT !.sel = <<>>, !.lit = {}]

\* addRowData(id, data, "last").
AddRow(g, id, q) ==
    [g EXCEPT !.rows = Append(@, [id |-> id, name |-> q.name, kind |-> q.kind])]

\* delRowData for each of a sequence of ids: the ids of the rows that go leave
\* selarrrow, in which they are looked for with ===, if they are given as the
\* strings they are.
DelRows(g, ids, asString) ==
    LET gone == ToSet(ids) \intersect Ids(g)
    IN  [g EXCEPT !.rows = Only(@, {r \in ToSet(@) : r.id \notin gone}),
                  !.lit = @ \ gone,
                  !.sel = IF asString THEN Only(@, ToSet(@) \ gone) ELSE @]

\* The reloadGrid event: selarrrow is emptied and rows are asked for; the old
\* rows stay, highlighted as they were, until the answer is there.
Reload(g) == [g EXCEPT !.sel = <<>>, !.loading = TRUE]

\* Mutant: the highlighting is restored.
LoadedLit(g, qs) ==
    [g EXCEPT !.rows = [i \in DOMAIN qs |->
                          [id |-> i, name |-> qs[i].name, kind |-> qs[i].kind]],
              !.lit = @ \intersect DOMAIN qs, !.loading = FALSE]

\* The answer: new rows, numbered from 1, none of them highlighted.  What has
\* been selected since the reload was asked for stays in selarrrow.
Loaded(g, qs) ==
    [g EXCEPT !.rows = [i \in DOMAIN qs |->
                          [id |-> i, name |-> qs[i].name, kind |-> qs[i].kind]],
              !.lit = {}, !.loading = FALSE]

\* No answer: the old rows are there again, highlighted, but not selected.
LoadFailed(g) == [g EXCEPT !.loading = FALSE]
=============================================================================
