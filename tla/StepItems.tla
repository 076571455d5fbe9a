------------------------------ MODULE StepItems ------------------------------
(***************************************************************************)
(* The editor of the steps of a template and what becomes of its rows on   *)
(* the server. A row names the row it depends on by its position, so every *)
(* insertion, removal and exchange must renumber the others; the server    *)
(* renumbers once more when the steps join those a project has already.    *)
(*                                                                         *)
(* A row has an identity in the model that the code does not know.         *)
(***************************************************************************)
EXTENDS Naturals, Sequences

CONSTANTS
    MaxItems,    \* MAX_ITEMS of the editor and the server
    MaxEdit,     \* bound on the rows ever added
    MaxStart     \* bound on the steps the project has already

VARIABLES
    ui,          \* rows of the editor; wants: the identity each row is meant to depend on
    net,         \* the rows added so far, and whether the rows have been applied
    db           \* the project: how many steps it had, and the steps that were applied

vars == <<ui, net, db>>

Null == 0        \* no dependency
Id == 1 .. MaxEdit
Row == [id : Id, dep : 0 .. MaxItems]
Rows(s) == 1 .. Len(s)

TypeOK ==
    /\ ui.rows \in Seq(Row) /\ Len(ui.rows) <= MaxItems
    /\ ui.wants \in [Id -> Id \cup {Null}]
    /\ net.added \in Id /\ net.applied \in {"no", "inline", "template"}
    /\ db.start \in 0 .. MaxStart /\ Len(db.steps) <= MaxItems

\* The editor is mounted anew, with one row, each time its dialog opens.
Init ==
    /\ ui = [rows |-> <<[id |-> 1, dep |-> Null]>>, wants |-> [k \in Id |-> Null]]
    /\ net = [added |-> 1, applied |-> "no"]
    /\ db \in [start : 0 .. MaxStart, steps : {<<>>}]
-----------------------------------------------------------------------------
(* The editor.                                                             *)

AddRow ==
    /\ Len(ui.rows) < MaxItems /\ net.added < MaxEdit
    /\ ui' = [ui EXCEPT !.rows = Append(@, [id |-> net.added + 1, dep |-> Null])]
    /\ net' = [net EXCEPT !.added = @ + 1]
    /\ UNCHANGED db

\* The list offers the rows above and can be cleared.
SelectDependency(i, j) ==
    /\ j < i
    /\ ui' = [rows |-> [ui.rows EXCEPT ![i].dep = j],
              wants |-> [ui.wants EXCEPT ![ui.rows[i].id] =
                            IF j = Null THEN Null ELSE ui.rows[j].id]]
    /\ UNCHANGED <<net, db>>

\* splice(index, 1): a dependency on the removed row is dropped, those on later rows
\* move up.
ShiftedTooFar(i, d) == IF d = i THEN Null ELSE IF d # Null /\ d >= i - 1 THEN d - 1 ELSE d
Shifted(i, d) == IF d = i THEN Null ELSE IF d # Null /\ d > i THEN d - 1 ELSE d
AfterRemoval(rows, i) ==
    [k \in 1 .. Len(rows) - 1 |->
        LET row == rows[IF k < i THEN k ELSE k + 1] IN [row EXCEPT !.dep = Shifted(i, @)]]

RemoveRow(i) ==
    /\ ui' = [rows |-> AfterRemoval(ui.rows, i),
              wants |-> [k \in Id |-> IF ui.wants[k] = ui.rows[i].id THEN Null ELSE ui.wants[k]]]
    /\ UNCHANGED <<net, db>>

\* Two neighbours change places, and so do the references to them.
SwappedOneWay(a, b, d) == IF d = a THEN b ELSE d
Swapped(a, b, d) == IF d = a THEN b ELSE IF d = b THEN a ELSE d
AfterMove(rows, a, b) ==
    [k \in 1 .. Len(rows) |->
        LET row == rows[Swapped(a, b, k)] IN [row EXCEPT !.dep = Swapped(a, b, @)]]

Move(i, j) ==
    /\ j = i + 1 \/ i = j + 1
    /\ ui' = [ui EXCEPT !.rows = AfterMove(@, i, j)]
    /\ UNCHANGED <<net, db>>
-----------------------------------------------------------------------------
(* The server.                                                             *)

\* CreateMany: the batch comes after the steps there are; a reference to a step that has
\* not been inserted yet is left out. A step here names the step it depends on by its
\* place among all.
KnownBefore(k, d) == d # Null /\ d < k
Created(rows, start) ==
    [k \in Rows(rows) |->
        [id |-> rows[k].id,
         dep |-> IF KnownBefore(k, rows[k].dep) THEN start + rows[k].dep ELSE Null]]

\* validateSteps: every dependency is on an earlier step.
Valid(rows) == Len(rows) \in 1 .. MaxItems /\ \A k \in Rows(rows) : rows[k].dep < k

\* The dialog closes after the steps have been applied.
Apply(how) ==
    /\ ui.rows # <<>> /\ net.applied = "no"
    /\ db' = [db EXCEPT !.steps = Created(ui.rows, db.start)]
    /\ net' = [net EXCEPT !.applied = how]
    /\ UNCHANGED ui

\* applyInline sends the rows as they are; saveAndApply makes them a template first.
ApplyInline == Apply("inline")
SaveAndApply == Valid(ui.rows) /\ Apply("template")

Edit ==
    \/ AddRow
    \/ \E i \in Rows(ui.rows) : \/ RemoveRow(i)
                                \/ \E j \in Rows(ui.rows) : Move(i, j)
                                \/ \E j \in {Null} \cup Rows(ui.rows) : SelectDependency(i, j)

Next == (net.applied = "no" /\ Edit) \/ ApplyInline \/ SaveAndApply

Spec == Init /\ [][Next]_vars
-----------------------------------------------------------------------------
\* However the rows are moved and removed, the position a row names is that of the row
\* the user chose for it.
DependencyFollowsItsRow ==
    \A i \in Rows(ui.rows) :
        LET d == ui.rows[i].dep  want == ui.wants[ui.rows[i].id] IN
        IF d = Null THEN want = Null ELSE d \in Rows(ui.rows) /\ ui.rows[d].id = want

\* Steps that are applied depend on the steps that the editor, or the saved template,
\* shows them to depend on, and never on those the project had already: always for a
\* template, whose order the server has checked, and for the rows of an editor that name
\* an earlier row. (A row that names a later one, which moving makes possible, loses its
\* dependency without a word when it is applied directly.)
AppliedAsEdited ==
    net.applied # "no" =>
        /\ Len(db.steps) = Len(ui.rows)
        /\ \A k \in Rows(ui.rows) :
              LET step == db.steps[k]  d == ui.rows[k].dep IN
              /\ step.id = ui.rows[k].id
              /\ d = Null => step.dep = Null
              /\ d # Null /\ (net.applied = "template" \/ d < k) =>
                     /\ step.dep - db.start \in Rows(db.steps)
                     /\ db.steps[step.dep - db.start].id = ui.wants[step.id]
=============================================================================
