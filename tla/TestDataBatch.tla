---------------------------- MODULE TestDataBatch ----------------------------
(***************************************************************************)
(* The table in which test data is entered as a batch: rows typed, pasted  *)
(* and removed, checked by the page and again by the server, which stores  *)
(* all of them or answers with the rows it refuses, by their index.        *)
(*                                                                         *)
(* A row is abstracted to who would refuse it: the page ("blank": a field  *)
(* is missing or malformed), only the server ("unfit": its run is gone, or *)
(* a text is within the limit in characters and not in bytes), or nobody.  *)
(***************************************************************************)
EXTENDS Naturals, Sequences

CONSTANTS
    MaxRows,        \* MAX_BATCH_ROWS
    MaxSubmit       \* bound on the batches submitted

VARIABLES
    ui,             \* the table, the rows marked as wrong, what is running
    net,            \* the batch on its way (has the table changed meanwhile?), and
                    \* whether the marks come from an answer about a changed table
    db              \* the batches stored

vars == <<ui, net, db>>

Kind == {"blank", "unfit", "good"}
NoBatch == [at |-> "idle", rows |-> <<>>, wrong |-> {}, changed |-> FALSE]

TypeOK ==
    /\ ui.rows \in Seq(Kind) /\ Len(ui.rows) <= MaxRows
    /\ ui.marks \subseteq 1 .. MaxRows /\ ui.submitting \in BOOLEAN /\ ui.pasting \in BOOLEAN
    /\ net.batch.at \in {"idle", "sent", "stored", "invalid", "failed"}
    /\ net.batch.rows \in Seq(Kind) /\ net.batch.changed \in BOOLEAN /\ net.late \in BOOLEAN /\ net.submits \in 0 .. MaxSubmit
    /\ db \in Seq(Seq({"good"}))

Init ==
    /\ ui = [rows |-> <<"blank">>, marks |-> {}, submitting |-> FALSE, pasting |-> FALSE]
    /\ net = [batch |-> NoBatch, late |-> FALSE, submits |-> 0]
    /\ db = <<>>

\* The watch on the rows: whatever changes them takes the marks away.
KeepsMarks(marks) == marks
ClearsMarks(marks) == {}
Changed(u, rows) == [u EXCEPT !.rows = rows, !.marks = ClearsMarks(@)]
Change(rows) == /\ ui' = Changed(ui, rows)
                /\ net' = [net EXCEPT !.batch.changed = @ \/ ui.submitting]
                /\ UNCHANGED db
-----------------------------------------------------------------------------
(* The table. Its cells and the button that removes a row stay enabled     *)
(* while a batch is on its way.                                            *)

EditRow(i, k) == ui.rows[i] # k /\ Change([ui.rows EXCEPT ![i] = k])

RemoveRow(i) == Change(SubSeq(ui.rows, 1, i - 1) \o SubSeq(ui.rows, i + 1, Len(ui.rows)))

AddRow == ~ui.submitting /\ Len(ui.rows) < MaxRows /\ Change(Append(ui.rows, "blank"))

ClearRows == ~ui.submitting /\ ui.rows # <<>> /\ Change(<<"blank">>)

\* pasteFromClipboard waits for the clipboard, or for the dialog that takes its place.
StartPaste ==
    /\ ~ui.submitting /\ ~ui.pasting
    /\ ui' = [ui EXCEPT !.pasting = TRUE] /\ UNCHANGED <<net, db>>

\* applyPaste appends as many of the parsed rows as there is room for.
AllOf(parsed, room) == parsed
Fitting(parsed, room) == SubSeq(parsed, 1, IF Len(parsed) < room THEN Len(parsed) ELSE room)

ApplyPaste ==
    /\ ui.pasting
    /\ \/ \E k, l \in Kind, n \in 1 .. 2 :
             LET room == MaxRows - Len(ui.rows)
                 pasted == Fitting(SubSeq(<<k, l>>, 1, n), room)
             IN /\ room > 0
                /\ ui' = Changed([ui EXCEPT !.pasting = FALSE], ui.rows \o pasted)
                /\ net' = [net EXCEPT !.batch.changed = @ \/ ui.submitting]
       \/ ui' = [ui EXCEPT !.pasting = FALSE] /\ net' = net
    /\ UNCHANGED db
-----------------------------------------------------------------------------
(* The batch.                                                              *)

\* validateRows, and validateBatchRow with validateBatchRuns on the server.
RefusedByPage(rows) == {i \in 1 .. Len(rows) : rows[i] = "blank"}
RefusedByServer(rows) == {i \in 1 .. Len(rows) : rows[i] \in {"blank", "unfit"}}

Submit ==
    /\ ~ui.submitting /\ ui.rows # <<>> /\ net.submits < MaxSubmit
    /\ IF RefusedByPage(ui.rows) # {}
       THEN /\ ui' = [ui EXCEPT !.marks = RefusedByPage(ui.rows)]
            /\ net' = [net EXCEPT !.late = FALSE]
       ELSE /\ ui' = [ui EXCEPT !.submitting = TRUE]
            /\ net' = [net EXCEPT !.batch = [NoBatch EXCEPT !.at = "sent", !.rows = ui.rows],
                                  !.submits = @ + 1]
    /\ UNCHANGED db

\* CreateBatch stores every row in one transaction, or none; the answer may be lost.
ServeBatch ==
    LET b == net.batch IN
    /\ b.at = "sent"
    /\ \/ /\ RefusedByServer(b.rows) # {}
          /\ net' = [net EXCEPT !.batch.at = "invalid", !.batch.wrong = RefusedByServer(b.rows)]
          /\ db' = db
       \/ /\ RefusedByServer(b.rows) = {}
          /\ db' = Append(db, b.rows)
          /\ \E at \in {"stored", "failed"} : net' = [net EXCEPT !.batch.at = at]
       \/ net' = [net EXCEPT !.batch.at = "failed"] /\ db' = db
    /\ UNCHANGED ui

\* Stored: the table starts anew. Refused: the rows with the indexes of the answer are
\* marked. Failed: the user is told.
AfterBatch ==
    /\ net.batch.at \in {"stored", "invalid", "failed"}
    /\ ui' = CASE net.batch.at = "stored" ->
                    Changed([ui EXCEPT !.submitting = FALSE], <<"blank">>)
               [] net.batch.at = "invalid" ->
                    [ui EXCEPT !.submitting = FALSE, !.marks = net.batch.wrong]
               [] OTHER -> [ui EXCEPT !.submitting = FALSE]
    /\ net' = [net EXCEPT !.batch = NoBatch,
                          !.late = IF net.batch.at = "invalid" THEN net.batch.changed ELSE @]
    /\ UNCHANGED db

Next ==
    \/ AddRow \/ ClearRows \/ StartPaste \/ ApplyPaste \/ Submit \/ ServeBatch \/ AfterBatch
    \/ \E i \in 1 .. Len(ui.rows) : RemoveRow(i) \/ \E k \in Kind : EditRow(i, k)

Spec == Init /\ [][Next]_vars
-----------------------------------------------------------------------------
\* A marked row is one that was refused, and still as it was: however rows are pasted,
\* typed and removed after the answer. Rows changed before the answer are excepted.
MarksFitTheRows ==
    \A i \in ui.marks : net.late \/ (i <= Len(ui.rows) /\ ui.rows[i] # "good")
=============================================================================
