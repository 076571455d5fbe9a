--------------------------- MODULE WebPagesProofs ---------------------------
(***************************************************************************)
(* What holds of the pages of the web interface for any records, runs,     *)
(* instruments, calls and bounds. Every page has an invariant of its own;  *)
(* those of the session, the dashboard, the editor of steps and the update *)
(* are proved beside their modules and only carried over here.             *)
(***************************************************************************)
EXTENDS WebPages, FiniteSetTheorems, SequenceTheorems, TLAPS

-----------------------------------------------------------------------------
(* A behaviour stays on its page and takes the steps of that page.         *)

LEMMA ListsAlone == page \in Lists => page \notin Other
BY DEF Lists, Other, List!PageOf

LEMMA ListStays ==
    ASSUME List!Next
    PROVE  page' = page
<1>1. ASSUME NEW h, List!Handle(h) PROVE page' = page
    BY <1>1, Zenon DEF List!Handle, List!OpenForm, List!Press, List!Confirm, List!ServeCall, List!Succeed, List!Fail
<1>2. ASSUME NEW n, List!ServeLoad(n) \/ List!AnswerLoad(n) PROVE page' = page
    BY <1>2 DEF List!ServeLoad, List!AnswerLoad
<1>3. ASSUME NEW r, List!Open(r) \/ List!Foreign(r) \/ List!AnswerFetch(r) PROVE page' = page
    BY <1>3 DEF List!Open, List!Foreign, List!AnswerFetch
<1> QED
    BY <1>1, <1>2, <1>3, Zenon DEF List!Next, List!ChangeQuery, List!EditFilter, List!Reload, List!CloseDrawer, List!CloseForm

still == <<ui, net, db>>

\* What a step is, by the page it is taken on.
LEMMA PageSteps ==
    ASSUME [Next]_vars
    PROVE  /\ page' = page
           /\ page = "session" => Session!Next \/ UNCHANGED session
           /\ OnList => List!Next \/ UNCHANGED <<page, ui, net, db, seen>>
           /\ page = "project" => Dashboard!Next \/ UNCHANGED still
           /\ page = "items" => Items!Next \/ UNCHANGED still
           /\ page = "report" => Report!Next \/ UNCHANGED still
           /\ page = "authoring" => Authoring!Next \/ UNCHANGED still
           /\ page = "update" => Update!Next \/ UNCHANGED still
           /\ page = "instrument" => Cards!Next \/ UNCHANGED still
           /\ page = "batch" => Batch!Next \/ UNCHANGED still
<1>1. CASE UNCHANGED vars
    BY <1>1 DEF vars, still
<1>2. CASE Next
    BY <1>2, ListsAlone, ListStays DEF Next, OnList, Other
<1> QED
    BY <1>1, <1>2

LEMMA PageInits ==
    ASSUME Init
    PROVE  /\ page = "session" => Session!Init
           /\ OnList => List!Init
           /\ page = "project" => Dashboard!Init
           /\ page = "items" => Items!Init
           /\ page = "report" => Report!Init
           /\ page = "authoring" => Authoring!Init
           /\ page = "update" => Update!Init
           /\ page = "instrument" => Cards!Init
           /\ page = "batch" => Batch!Init
           /\ page \in Lists \cup Other
BY ListsAlone DEF Init, OnList, Other, Lists, List!Init
-----------------------------------------------------------------------------
(* The table of test data.                                                 *)

Rows == Seq(Batch!Kind)
BatchRecord == [at : {"idle", "sent", "stored", "invalid", "failed"}, rows : Rows,
                wrong : SUBSET (1 .. MaxRows), changed : BOOLEAN]

BatchTypes ==
    /\ ui \in [rows : Rows, marks : SUBSET (1 .. MaxRows), submitting : BOOLEAN, pasting : BOOLEAN]
    /\ net \in [batch : BatchRecord, late : BOOLEAN, submits : 0 .. MaxSubmit]
    /\ Len(ui.rows) <= MaxRows /\ Len(net.batch.rows) <= MaxRows
    /\ db \in Seq(Seq({"good"}))

\* The batch on its way is the table, unless that was changed meanwhile, and what an
\* answer calls wrong is what the server refuses of it.
BatchInv ==
    /\ BatchTypes
    /\ ui.submitting = (net.batch.at # "idle")
    /\ net.batch.at # "idle" /\ ~net.batch.changed => net.batch.rows = ui.rows
    /\ net.batch.at = "invalid" => net.batch.wrong = Batch!RefusedByServer(net.batch.rows)
    /\ Batch!MarksFitTheRows

\* A change of the rows takes the marks away.
LEMMA ChangeKeeps ==
    ASSUME BatchInv, NEW rows \in Rows, Len(rows) <= MaxRows, NEW pasting \in BOOLEAN,
           ui' = [rows |-> rows, marks |-> {}, submitting |-> ui.submitting, pasting |-> pasting],
           net' = [net EXCEPT !.batch = [net.batch EXCEPT !.changed = @ \/ ui.submitting]],
           UNCHANGED db
    PROVE  BatchInv'
<1> DEFINE new == [net.batch EXCEPT !.changed = @ \/ ui.submitting]
<1>1. net.batch \in BatchRecord /\ ui.submitting \in BOOLEAN
    BY DEF BatchInv, BatchTypes
<1>2. /\ new \in BatchRecord
      /\ new.at = net.batch.at /\ new.rows = net.batch.rows /\ new.wrong = net.batch.wrong
      /\ new.changed <=> net.batch.changed \/ ui.submitting
    BY <1>1 DEF BatchRecord
<1> HIDE DEF new
<1>3. net' = [net EXCEPT !.batch = new]
    BY DEF new
<1>4. /\ net' \in [batch : BatchRecord, late : BOOLEAN, submits : 0 .. MaxSubmit]
      /\ net'.batch = new
    BY <1>2, <1>3 DEF BatchInv, BatchTypes
<1>5. /\ ui' \in [rows : Rows, marks : SUBSET (1 .. MaxRows), submitting : BOOLEAN, pasting : BOOLEAN]
      /\ ui'.rows = rows /\ ui'.marks = {} /\ ui'.submitting = ui.submitting
    BY <1>1
<1>6. BatchTypes'
    BY <1>2, <1>4, <1>5 DEF BatchInv, BatchTypes
<1> QED
    BY <1>2, <1>4, <1>5, <1>6, ZenonT(40) DEF BatchInv, Batch!MarksFitTheRows, Batch!RefusedByServer

LEMMA BatchChanges ==
    ASSUME BatchInv, NEW rows \in Rows, Len(rows) <= MaxRows, Batch!Change(rows)
    PROVE  BatchInv'
<1>1. /\ ui' = [rows |-> rows, marks |-> {}, submitting |-> ui.submitting, pasting |-> ui.pasting]
      /\ ui.pasting \in BOOLEAN
    BY DEF BatchInv, BatchTypes, Batch!Change, Batch!Changed, Batch!ClearsMarks
<1>2. net' = [net EXCEPT !.batch = [net.batch EXCEPT !.changed = @ \/ ui.submitting]]
    BY Zenon DEF Batch!Change
<1>3. UNCHANGED db
    BY DEF Batch!Change
<1> QED
    BY <1>1, <1>2, <1>3, ChangeKeeps

LEMMA Joining ==
    ASSUME NEW s \in Rows, NEW t \in Rows
    PROVE  s \o t \in Rows /\ Len(s \o t) = Len(s) + Len(t)
BY ConcatProperties DEF Rows

LEMMA Removing ==
    ASSUME NEW s \in Rows, NEW i \in 1 .. Len(s)
    PROVE  LET rows == SubSeq(s, 1, i - 1) \o SubSeq(s, i + 1, Len(s)) IN
           rows \in Rows /\ Len(rows) = Len(s) - 1
<1> DEFINE before == SubSeq(s, 1, i - 1)
           after == SubSeq(s, i + 1, Len(s))
<1>1. Len(s) \in Nat /\ \A j \in 1 .. Len(s) : s[j] \in Batch!Kind
    BY LenProperties DEF Rows
<1>2. before \in Rows /\ Len(before) = IF 1 <= i - 1 THEN (i - 1) - 1 + 1 ELSE 0
    BY <1>1, SubSeqProperties DEF Rows
<1>3. after \in Rows /\ Len(after) = IF i + 1 <= Len(s) THEN Len(s) - (i + 1) + 1 ELSE 0
    BY <1>1, SubSeqProperties DEF Rows
<1> HIDE DEF before, after
<1>4. before \o after \in Rows /\ Len(before \o after) = Len(before) + Len(after)
    BY <1>2, <1>3, Joining
<1>5. Len(before) = i - 1
    BY <1>1, <1>2
<1>6. Len(after) = Len(s) - i
    BY <1>1, <1>3
<1>7. Len(before \o after) = Len(s) - 1
    BY <1>1, <1>4, <1>5, <1>6
<1> QED
    BY <1>4, <1>7 DEF before, after

LEMMA RowsEdited ==
    ASSUME BatchInv, NEW i \in 1 .. Len(ui.rows), Batch!RemoveRow(i) \/ \E k \in Batch!Kind : Batch!EditRow(i, k)
    PROVE  BatchInv'
<1>0. /\ ui.rows \in Rows /\ Len(ui.rows) \in Nat /\ MaxRows \in Nat /\ Len(ui.rows) <= MaxRows
    BY Bounds, LenProperties DEF BatchInv, BatchTypes, Rows
<1>1. CASE Batch!RemoveRow(i)
    <2> DEFINE rows == SubSeq(ui.rows, 1, i - 1) \o SubSeq(ui.rows, i + 1, Len(ui.rows))
    <2>2. rows \in Rows /\ Len(rows) = Len(ui.rows) - 1
        BY <1>0, Removing
    <2>3. Batch!Change(rows)
        BY <1>1 DEF Batch!RemoveRow
    <2> HIDE DEF rows
    <2> QED
        BY <1>0, <2>2, <2>3, BatchChanges
<1>2. ASSUME NEW k \in Batch!Kind, Batch!EditRow(i, k) PROVE BatchInv'
    <2> DEFINE rows == [ui.rows EXCEPT ![i] = k]
    <2>1. rows \in Rows /\ Len(rows) = Len(ui.rows)
        BY <1>0, ExceptSeq DEF Rows
    <2>3. Batch!Change(rows)
        BY <1>2 DEF Batch!EditRow
    <2> HIDE DEF rows
    <2> QED
        BY <1>0, <2>1, <2>3, BatchChanges
<1> QED
    BY <1>1, <1>2

LEMMA RowsAdded ==
    ASSUME BatchInv, Batch!AddRow \/ Batch!ClearRows \/ Batch!ApplyPaste
    PROVE  BatchInv'
<1>0. /\ ui.rows \in Rows /\ Len(ui.rows) \in Nat /\ MaxRows \in Nat /\ Len(ui.rows) <= MaxRows
      /\ <<"blank">> \in Rows /\ Len(<<"blank">>) = 1 /\ 1 <= MaxRows
    BY Bounds, LenProperties DEF BatchInv, BatchTypes, Rows, Batch!Kind
<1>1. CASE Batch!AddRow
    <2>1. "blank" \in Batch!Kind
        BY DEF Batch!Kind
    <2>2. /\ Append(ui.rows, "blank") \in Rows
          /\ Len(Append(ui.rows, "blank")) = Len(ui.rows) + 1
        BY <1>0, <2>1, AppendProperties DEF Rows
    <2>3. Len(Append(ui.rows, "blank")) <= MaxRows /\ Batch!Change(Append(ui.rows, "blank"))
        BY <1>0, <1>1, <2>2 DEF Batch!AddRow
    <2> QED
        BY <1>0, <2>2, <2>3, BatchChanges
<1>2. CASE Batch!ClearRows
    BY <1>0, <1>2, BatchChanges DEF Batch!ClearRows
<1>4. ASSUME NEW k \in Batch!Kind, NEW l \in Batch!Kind, NEW n \in 1 .. 2,
             MaxRows - Len(ui.rows) > 0
      PROVE  LET room == MaxRows - Len(ui.rows)
                 pasted == Batch!Fitting(SubSeq(<<k, l>>, 1, n), room)
             IN  /\ ui.rows \o pasted \in Rows
                 /\ Len(ui.rows \o pasted) <= MaxRows
    <2> DEFINE room == MaxRows - Len(ui.rows)
               parsed == SubSeq(<<k, l>>, 1, n)
               pasted == Batch!Fitting(parsed, room)
    <2>1. <<k, l>> \in Rows /\ Len(<<k, l>>) = 2
        BY DEF Rows
    <2>2. parsed \in Rows /\ Len(parsed) = n
        BY <2>1, SubSeqProperties DEF Rows
    <2>3. room \in Nat /\ room > 0
        BY <1>0, <1>4
    <2> HIDE DEF parsed, room
    <2>4. pasted \in Rows /\ Len(pasted) <= room /\ Len(pasted) \in Nat
        BY <2>2, <2>3, SubSeqProperties DEF Rows, Batch!Fitting
    <2> HIDE DEF pasted
    <2>5. ui.rows \o pasted \in Rows /\ Len(ui.rows \o pasted) = Len(ui.rows) + Len(pasted)
        BY <1>0, <2>4, ConcatProperties DEF Rows
    <2>6. Len(ui.rows \o pasted) <= MaxRows
        BY <1>0, <2>4, <2>5 DEF room
    <2> QED
        BY <2>5, <2>6 DEF pasted, parsed, room
<1>5. CASE Batch!ApplyPaste
    <2>1. CASE ui' = [ui EXCEPT !.pasting = FALSE] /\ net' = net /\ UNCHANGED db
        BY <2>1 DEF BatchInv, BatchTypes, Batch!MarksFitTheRows, Batch!RefusedByServer
    <2>2. ASSUME NEW rows \in Rows, Len(rows) <= MaxRows,
                 ui' = Batch!Changed([ui EXCEPT !.pasting = FALSE], rows),
                 net' = [net EXCEPT !.batch.changed = @ \/ ui.submitting],
                 UNCHANGED db
          PROVE  BatchInv'
        <3>1. ui' = [rows |-> rows, marks |-> {}, submitting |-> ui.submitting, pasting |-> FALSE]
            BY <2>2 DEF BatchInv, BatchTypes, Batch!Changed, Batch!ClearsMarks
        <3>2. net' = [net EXCEPT !.batch = [net.batch EXCEPT !.changed = @ \/ ui.submitting]]
            BY <2>2, Zenon
        <3> QED
            BY <2>2, <3>1, <3>2, ChangeKeeps
    <2> QED
        BY <1>4, <1>5, <2>1, <2>2 DEF Batch!ApplyPaste
<1> QED
    BY <1>1, <1>2, <1>5

LEMMA BatchSent ==
    ASSUME BatchInv, Batch!Submit \/ Batch!StartPaste
    PROVE  BatchInv'
<1>0. /\ ui.rows \in Rows /\ Len(ui.rows) \in Nat /\ MaxRows \in Nat /\ Len(ui.rows) <= MaxRows
      /\ MaxSubmit \in Nat /\ net.submits \in Nat
    BY Bounds, LenProperties DEF BatchInv, BatchTypes, Rows
<1>1. CASE Batch!StartPaste
    BY <1>1 DEF Batch!StartPaste, BatchInv, BatchTypes, Batch!MarksFitTheRows
<1>2. CASE Batch!Submit /\ Batch!RefusedByPage(ui.rows) # {}
    <2>1. Batch!RefusedByPage(ui.rows) \in SUBSET (1 .. MaxRows)
        BY <1>0 DEF Batch!RefusedByPage
    <2>2. /\ ui' = [ui EXCEPT !.marks = Batch!RefusedByPage(ui.rows)]
          /\ net' = [net EXCEPT !.late = FALSE] /\ UNCHANGED db
        BY <1>2 DEF Batch!Submit
    <2>3. BatchTypes' /\ net'.batch = net.batch /\ ui'.rows = ui.rows
          /\ ui'.submitting = ui.submitting /\ ui'.marks = Batch!RefusedByPage(ui.rows)
        BY <2>1, <2>2 DEF BatchInv, BatchTypes
    <2>4. Batch!MarksFitTheRows'
        BY <1>0, <2>3 DEF Batch!MarksFitTheRows, Batch!RefusedByPage
    <2> QED
        BY <2>3, <2>4 DEF BatchInv, Batch!RefusedByServer
<1>3. CASE Batch!Submit /\ Batch!RefusedByPage(ui.rows) = {}
    <2> DEFINE new == [at |-> "sent", rows |-> ui.rows, wrong |-> {}, changed |-> FALSE]
    <2>1. new \in BatchRecord
        BY <1>0 DEF BatchRecord
    <2>2. /\ ui' = [ui EXCEPT !.submitting = TRUE] /\ UNCHANGED db
          /\ net' = [net EXCEPT !.batch = new, !.submits = @ + 1]
          /\ net.submits < MaxSubmit
        BY <1>3 DEF Batch!Submit, Batch!NoBatch
    <2>3. /\ net' \in [batch : BatchRecord, late : BOOLEAN, submits : 0 .. MaxSubmit]
          /\ net'.batch = new /\ net'.late = net.late
        <3> HIDE DEF new
        <3>1. net.submits + 1 \in 0 .. MaxSubmit
            BY <1>0, <2>2
        <3> QED
            BY <2>1, <2>2, <3>1 DEF BatchInv, BatchTypes
    <2> QED
        BY <1>0, <2>2, <2>3 DEF BatchInv, BatchTypes, Batch!MarksFitTheRows
<1> QED
    BY <1>1, <1>2, <1>3

LEMMA BatchServed ==
    ASSUME BatchInv, Batch!ServeBatch
    PROVE  BatchInv'
<1> DEFINE b == net.batch
<1>0. /\ b \in BatchRecord /\ b.at = "sent" /\ b.rows \in Rows /\ Len(b.rows) \in Nat
      /\ Len(b.rows) <= MaxRows /\ MaxRows \in Nat /\ UNCHANGED ui /\ ui.submitting
    BY Bounds, LenProperties DEF BatchInv, BatchTypes, BatchRecord, Rows, Batch!ServeBatch
<1>1. Batch!RefusedByServer(b.rows) \in SUBSET (1 .. MaxRows)
    BY <1>0 DEF Batch!RefusedByServer
<1>2. ASSUME NEW at \in {"stored", "failed", "invalid"}, NEW wrong \in SUBSET (1 .. MaxRows),
             net' = [net EXCEPT !.batch = [b EXCEPT !.at = at, !.wrong = wrong]],
             at = "invalid" => wrong = Batch!RefusedByServer(b.rows),
             db' \in Seq(Seq({"good"}))
      PROVE  BatchInv'
    <2>1. /\ net'.batch \in BatchRecord /\ net'.late = net.late
          /\ net'.batch.at = at /\ net'.batch.wrong = wrong /\ net'.batch.rows = b.rows
          /\ net'.batch.changed = b.changed
          /\ net' \in [batch : BatchRecord, late : BOOLEAN, submits : 0 .. MaxSubmit]
        BY <1>0, <1>2 DEF BatchInv, BatchTypes, BatchRecord
    <2> QED
        BY <1>0, <1>2, <2>1 DEF BatchInv, BatchTypes, Batch!MarksFitTheRows, Batch!RefusedByServer
<1>3. CASE /\ Batch!RefusedByServer(b.rows) # {}
           /\ net' = [net EXCEPT !.batch.at = "invalid", !.batch.wrong = Batch!RefusedByServer(b.rows)]
           /\ db' = db
    <2>1. net' = [net EXCEPT !.batch = [b EXCEPT !.at = "invalid", !.wrong = Batch!RefusedByServer(b.rows)]]
        BY <1>3 DEF BatchInv, BatchTypes, BatchRecord
    <2> QED
        BY <1>1, <1>2, <1>3, <2>1 DEF BatchInv, BatchTypes
<1>4. ASSUME NEW at \in {"stored", "failed"}, net' = [net EXCEPT !.batch.at = at],
             db' \in Seq(Seq({"good"}))
      PROVE  BatchInv'
    <2>1. net' = [net EXCEPT !.batch = [b EXCEPT !.at = at, !.wrong = b.wrong]] /\ b.wrong \in SUBSET (1 .. MaxRows)
        BY <1>0, <1>4 DEF BatchInv, BatchTypes, BatchRecord
    <2> QED
        BY <1>2, <1>4, <2>1, ZenonT(40)
<1>5. Batch!RefusedByServer(b.rows) = {} => Append(db, b.rows) \in Seq(Seq({"good"}))
    <2> SUFFICES ASSUME Batch!RefusedByServer(b.rows) = {}
                 PROVE  Append(db, b.rows) \in Seq(Seq({"good"}))
        OBVIOUS
    <2>1. \A i \in 1 .. Len(b.rows) : b.rows[i] \in {"good"}
        BY <1>0, LenProperties DEF Batch!RefusedByServer, Rows, Batch!Kind
    <2>2. b.rows \in Seq({"good"})
        BY <1>0, <2>1, SeqDef, LenProperties DEF Rows
    <2> QED
        BY <2>2, AppendProperties DEF BatchInv, BatchTypes
<1> QED
    BY <1>3, <1>4, <1>5 DEF Batch!ServeBatch, BatchInv, BatchTypes

LEMMA BatchAnswered ==
    ASSUME BatchInv, Batch!AfterBatch
    PROVE  BatchInv'
<1> DEFINE b == net.batch
<1>0. /\ b \in BatchRecord /\ ui.rows \in Rows /\ Len(ui.rows) \in Nat /\ MaxRows \in Nat
      /\ Batch!NoBatch \in BatchRecord /\ Batch!NoBatch.at = "idle" /\ Len(Batch!NoBatch.rows) <= MaxRows
      /\ <<"blank">> \in Rows /\ Len(<<"blank">>) = 1 /\ 1 <= MaxRows /\ UNCHANGED db
    BY Bounds, LenProperties DEF BatchInv, BatchTypes, BatchRecord, Rows, Batch!NoBatch, Batch!Kind,
                                 Batch!AfterBatch
<1>1. /\ net' \in [batch : BatchRecord, late : BOOLEAN, submits : 0 .. MaxSubmit]
      /\ net'.batch = Batch!NoBatch
      /\ net'.late = IF b.at = "invalid" THEN b.changed ELSE net.late
    BY <1>0 DEF BatchInv, BatchTypes, BatchRecord, Batch!AfterBatch
<1>2. CASE b.at = "stored"
    <2>1. ui' = [rows |-> <<"blank">>, marks |-> {}, submitting |-> FALSE, pasting |-> ui.pasting]
        BY <1>2 DEF BatchInv, BatchTypes, Batch!AfterBatch, Batch!Changed, Batch!ClearsMarks
    <2> QED
        BY <1>0, <1>1, <2>1 DEF BatchInv, BatchTypes, Batch!MarksFitTheRows
<1>3. CASE b.at = "invalid"
    <2>1. ui' = [ui EXCEPT !.submitting = FALSE, !.marks = b.wrong] /\ b.wrong \in SUBSET (1 .. MaxRows)
        BY <1>3 DEF Batch!AfterBatch, BatchInv, BatchTypes, BatchRecord
    <2>2. ~b.changed => b.wrong = Batch!RefusedByServer(ui.rows)
        BY <1>3 DEF BatchInv
    <2>3. ui' \in [rows : Rows, marks : SUBSET (1 .. MaxRows), submitting : BOOLEAN, pasting : BOOLEAN]
          /\ ui'.rows = ui.rows /\ ui'.marks = b.wrong /\ ui'.submitting = FALSE
        BY <2>1 DEF BatchInv, BatchTypes
    <2>4. BatchTypes'
        BY <1>0, <1>1, <2>3 DEF BatchInv, BatchTypes
    <2>5. Batch!MarksFitTheRows'
        BY <1>0, <1>1, <1>3, <2>2, <2>3 DEF Batch!MarksFitTheRows, Batch!RefusedByServer
    <2> QED
        BY <1>0, <1>1, <2>3, <2>4, <2>5 DEF BatchInv
<1>4. CASE b.at = "failed"
    BY <1>0, <1>1, <1>4 DEF BatchInv, BatchTypes, Batch!AfterBatch, Batch!MarksFitTheRows
<1> QED
    BY <1>2, <1>3, <1>4 DEF Batch!AfterBatch

LEMMA BatchInit == Batch!Init => BatchInv
<1>1. <<"blank">> \in Rows /\ Len(<<"blank">>) = 1 /\ <<>> \in Rows /\ Len(<<>>) = 0 /\ 1 <= MaxRows
      /\ <<>> \in Seq(Seq({"good"})) /\ MaxSubmit \in Nat /\ MaxRows \in Nat
    BY Bounds DEF Rows, Batch!Kind
<1>2. Batch!NoBatch \in BatchRecord /\ Batch!NoBatch.at = "idle" /\ Len(Batch!NoBatch.rows) = 0
    BY <1>1 DEF Batch!NoBatch, BatchRecord
<1> SUFFICES ASSUME Batch!Init PROVE BatchInv
    OBVIOUS
<1>3. /\ ui.rows = <<"blank">> /\ ui.marks = {} /\ ui.submitting = FALSE
      /\ ui \in [rows : Rows, marks : SUBSET (1 .. MaxRows), submitting : BOOLEAN, pasting : BOOLEAN]
    BY <1>1 DEF Batch!Init
<1>4. net.batch = Batch!NoBatch /\ net \in [batch : BatchRecord, late : BOOLEAN, submits : 0 .. MaxSubmit]
    BY <1>1, <1>2 DEF Batch!Init
<1>5. db \in Seq(Seq({"good"}))
    BY <1>1 DEF Batch!Init
<1> QED
    BY <1>1, <1>2, <1>3, <1>4, <1>5 DEF BatchInv, BatchTypes, Batch!MarksFitTheRows

LEMMA BatchStep == BatchInv /\ (Batch!Next \/ UNCHANGED <<ui, net, db>>) => BatchInv'
<1>1. BatchInv /\ Batch!Next => BatchInv'
    BY RowsEdited, RowsAdded, BatchSent, BatchServed, BatchAnswered DEF Batch!Next
<1>2. BatchInv /\ UNCHANGED <<ui, net, db>> => BatchInv'
    BY DEF BatchInv, BatchTypes, Batch!MarksFitTheRows
<1> QED
    BY <1>1, <1>2

LEMMA BatchTyped == BatchInv => Batch!TypeOK
BY DEF BatchInv, BatchTypes, BatchRecord, Rows, Batch!TypeOK
-----------------------------------------------------------------------------
(* The list pages: what their descriptions have in common.                 *)

\* A handler whose write changes the list reloads it, and only the drawer shows answers.
GoodHandler(h) ==
    /\ h.name # "none"
    /\ h.listed => h.reloads
    /\ h.shows \/ h.reopens => h.from = "drawer"

\* The handlers of a page go by different names.
GoodControls(controls) ==
    /\ \A h \in controls : GoodHandler(h)
    /\ \A h, g \in controls : h.name = g.name => h = g

USE DEF List!OnRow, List!InDrawer, List!InForm, List!Creating, List!Asking
USE DEF GoodControls, GoodHandler

LEMMA IssueHandlers == GoodControls(List!IssueControls)
BY DEF List!IssueControls, List!IssueTransition, List!IssueComment, List!IssueCreate
LEMMA ExperienceHandlers == GoodControls(List!ExperienceControls)
BY DEF List!ExperienceControls, List!ExperiencePublish, List!ExperienceArchive,
       List!ExperienceCreate
LEMMA TodoHandlers == GoodControls(List!TodoControls)
BY DEF List!TodoControls, List!TodoDone, List!TodoDefer, List!TodoDelete, List!TodoCreate,
       List!TodoEdit
LEMMA AlertHandlers == GoodControls(List!AlertControls)
BY DEF List!AlertControls, List!AlertResolve
LEMMA AuditHandlers == GoodControls(List!AuditControls)
BY DEF List!AuditControls
LEMMA UserHandlers == GoodControls(List!UserControls)
BY DEF List!UserControls, List!UserJoin, List!UserChangeRole, List!UserReset, List!UserToggle,
       List!UserCreate
LEMMA InvitationHandlers == GoodControls(List!InvitationControls)
BY DEF List!InvitationControls, List!InvitationCreate, List!InvitationRevoke
LEMMA CandidateHandlers == GoodControls(List!CandidateControls)
BY DEF List!CandidateControls, List!CandidateApprove, List!CandidateReject
LEMMA AttachmentHandlers == GoodControls(List!AttachmentControls)
BY DEF List!AttachmentControls, List!AttachmentUpload, List!AttachmentBind, List!AttachmentRemove
LEMMA MatchingHandlers == GoodControls(List!MatchingControls)
BY DEF List!MatchingControls, List!MatchingCreate, List!MatchingVoid
LEMMA TemplateHandlers == GoodControls(List!TemplateControls)
BY DEF List!TemplateControls, List!TemplateEdit, List!TemplateCreate, List!TemplateRemove
LEMMA RunHandlers == GoodControls(List!RunControls)
BY DEF List!RunControls, List!RunCreate
LEMMA AssemblyHandlers == GoodControls(List!AssemblyControls)
BY DEF List!AssemblyControls, List!AssemblyTransition, List!AssemblyEnd, List!AssemblyOverride,
       List!AssemblyReorder, List!AssemblyCreate, List!AssemblyRemove
LEMMA RunDetailHandlers == GoodControls(List!RunDetailControls)
BY DEF List!RunDetailControls, List!RunTransition, List!RunEnd, List!RunEdit, List!RunRemove
LEMMA StepHandlers == GoodControls(List!StepControls)
BY DEF List!StepControls, List!StepTransition, List!StepEnd, List!StepCreate, List!StepImport,
       List!StepRemove
LEMMA ProjectHandlers == GoodControls(List!ProjectControls)
BY DEF List!ProjectControls, List!ProjectCreate
LEMMA PanelHandlers == GoodControls(List!PanelControls)
BY DEF List!PanelControls, List!PanelDone, List!PanelDefer, List!PanelAdd, List!PanelParse
LEMMA TestDataHandlers == GoodControls(List!TestDataControls)
BY DEF List!TestDataControls, List!TestDataAdded, List!TestDataInvalidate
LEMMA CardHandlers == GoodControls(List!CardControls)
BY DEF List!CardControls, List!CardStop, List!CardSave
LEMMA AskHandlers == GoodControls(List!AskControls)
BY DEF List!AskControls, List!AskSend
LEMMA GasHandlers == GoodControls(List!GasControls)
BY DEF List!GasControls, List!GasWrite, List!GasProtect

HIDE DEF GoodControls, GoodHandler
HIDE DEF List!OnRow, List!InDrawer, List!InForm, List!Creating, List!Asking

LEMMA NoHandlers == GoodControls({})
BY DEF GoodControls

LEMMA PagesAreGood == page \in Lists => GoodControls(List!P.handlers)
<1>1. ASSUME NEW list, NEW controls PROVE List!PageWith(list, controls).handlers = controls
    BY DEF List!PageWith
<1>2. page \in Lists => List!P.handlers \in
          {{}, List!IssueControls, List!ExperienceControls, List!TodoControls, List!AlertControls,
           List!AuditControls, List!UserControls, List!InvitationControls, List!CandidateControls,
           List!AttachmentControls, List!MatchingControls, List!TemplateControls, List!RunControls,
           List!AssemblyControls, List!RunDetailControls, List!StepControls, List!ProjectControls,
           List!PanelControls, List!TestDataControls, List!CardControls, List!AskControls,
           List!GasControls}
    BY <1>1 DEF Lists, List!P, List!PageOf
<1> QED
    BY <1>2, NoHandlers, IssueHandlers, ExperienceHandlers, TodoHandlers, AlertHandlers, AuditHandlers,
       UserHandlers, InvitationHandlers, CandidateHandlers, AttachmentHandlers, MatchingHandlers,
       TemplateHandlers, RunHandlers, AssemblyHandlers, RunDetailHandlers, StepHandlers,
       ProjectHandlers, PanelHandlers, TestDataHandlers, CardHandlers, AskHandlers, GasHandlers

-----------------------------------------------------------------------------
(* The list pages: types.                                                  *)

Names == {h.name : h \in List!P.handlers}
Flags == {h.flag : h \in List!P.handlers} \X (List!Rec \cup {"all"})
RowOrNone == Record \cup {"none"}
RecOrNone == List!Rec \cup {"none"}

FormRecord == [name : Names \cup {"none"}, rec : RecOrNone, base : Nat]
CallRecord == [name : Names \cup {"none"}, rec : RecOrNone, base : Nat, read : Nat, step : Nat,
               at : {"idle", "asking", "sent", "ok", "refused", "done"}, ver : Nat]
LoadRecord == [at : {"idle", "sent", "served", "lost", "done"}, query : {0, 1}, snap : [List!Rec -> Nat]]
FetchRecord == [at : {"idle", "sent", "done"}, rec : RowOrNone]

ListUi == [list : [List!Rec -> Nat], listQuery : {0, 1}, of : Nat, newest : Nat \ {0},
           loading : BOOLEAN, failed : BOOLEAN, query : {0, 1}, asked : {0, 1},
           open : RowOrNone, shown : Nat, beside : RowOrNone, form : FormRecord, flags : SUBSET Flags]
ListNet == [load : [List!Loads -> LoadRecord], call : [List!Slots -> CallRecord],
            fetch : [List!Slots -> FetchRecord]]
ListSeen == [own : [List!Rec -> Nat], events : 0 .. MaxListEvent, crossed : BOOLEAN]

\* What a form or a call is about is a record, a row when it comes from a drawer.
FormOk(form) == form.name # "none" => form.rec \in List!Rec
CallOk(a) ==
    List!Pending(a) => /\ a.rec \in List!Rec /\ a.name # "none" /\ a.base = a.read
                       /\ \A h \in List!P.handlers : h.name = a.name /\ h.from = "drawer" => a.rec \in Record

ListTypes ==
    /\ page \in Lists
    /\ ui \in ListUi /\ net \in ListNet /\ seen \in ListSeen /\ db \in [List!Rec -> Nat]
    /\ FormOk(ui.form)
    /\ \A c \in List!Slots : CallOk(net.call[c])
    /\ \A f \in List!Slots : net.fetch[f].at = "sent" => net.fetch[f].rec \in Record

\* Every load but the first is paid for by an event, before or after its handler ran.
Running == {c \in List!Slots : List!Pending(net.call[c])}
LoadsAreCounted == ui.newest + Cardinality(Running) <= 1 + seen.events

\* A confirmed write is in the database.
OwnAreWritten ==
    /\ \A r \in List!Rec : seen.own[r] <= db[r]
    /\ \A c \in List!Slots : net.call[c].rec \in List!Rec => net.call[c].ver <= db[net.call[c].rec]

\* The newest load is on its way, for the last query asked, and has not been answered
\* before the last confirmed write; or it has come to an end and the list shows its answer.
Settles(a) ==
    IF a.at = "done"
    THEN ~ui.failed /\ (List!P.guarded \/ ~seen.crossed) =>
             ui.listQuery = ui.asked /\ \A r \in List!Rec : seen.own[r] <= ui.list[r]
    ELSE /\ a.at \in {"sent", "served", "lost"} /\ a.query = ui.asked
         /\ a.at = "served" => \A r \in List!Rec : seen.own[r] <= a.snap[r]
NewestSettles ==
    /\ ui.of <= ui.newest
    /\ \A n \in List!Loads : n > ui.newest => net.load[n].at = "idle"
    /\ Settles(net.load[ui.newest])

\* A query is asked as soon as it is on the screen, but on the pages with a search.
AskedAtOnce == List!P.searches \/ ui.asked = ui.query

ListInv == ListTypes /\ LoadsAreCounted /\ OwnAreWritten /\ NewestSettles /\ AskedAtOnce
-----------------------------------------------------------------------------
(* The list pages: lemmas about what the steps have in common.             *)

\* The page and what is derived from it stay.
LEMMA SamePage ==
    ASSUME page' = page
    PROVE  /\ (List!P)' = List!P /\ Names' = Names /\ Flags' = Flags
           /\ ListUi' = ListUi /\ ListNet' = ListNet /\ FormRecord' = FormRecord
           /\ CallRecord' = CallRecord
<1>1. (List!P)' = List!P
    BY DEF List!P
<1>2. Names' = Names /\ Flags' = Flags
    BY <1>1, Zenon DEF Names, Flags
<1>3. FormRecord' = FormRecord /\ CallRecord' = CallRecord
    BY <1>2, Zenon DEF FormRecord, CallRecord
<1>4. ListUi' = ListUi
    BY <1>2, <1>3, Zenon DEF ListUi
<1>5. ListNet' = ListNet
    BY <1>3, Zenon DEF ListNet
<1> QED
    BY <1>1, <1>2, <1>3, <1>4, <1>5

LEMMA ListParts ==
    ASSUME ListTypes
    PROVE  /\ MaxListEvent \in Nat
           /\ ui.newest \in Nat \ {0} /\ ui.of \in Nat /\ seen.events \in 0 .. MaxListEvent
           /\ ui.list \in [List!Rec -> Nat] /\ seen.own \in [List!Rec -> Nat] /\ db \in [List!Rec -> Nat]
           /\ net.load \in [List!Loads -> LoadRecord] /\ net.call \in [List!Slots -> CallRecord]
           /\ net.fetch \in [List!Slots -> FetchRecord]
           /\ ui.form \in FormRecord /\ ui.flags \subseteq Flags
BY Bounds DEF ListTypes, ListUi, ListNet, ListSeen

\* The running handlers are finitely many, and one more or one less when one changes.
LEMMA HandlersAreFinite ==
    ASSUME ListTypes, NEW some, some \subseteq List!Slots
    PROVE  IsFiniteSet(some) /\ Cardinality(some) \in Nat
<1>1. 1 \in Int /\ MaxListEvent \in Int
    BY ListParts
<1>2. IsFiniteSet(1 .. MaxListEvent)
    BY <1>1, FS_Interval
<1>3. IsFiniteSet(some)
    BY <1>2, FS_Subset DEF List!Slots
<1> QED
    BY <1>3, FS_CardinalityType

LEMMA RunningIsFinite ==
    ASSUME ListTypes
    PROVE  IsFiniteSet(Running) /\ Cardinality(Running) \in Nat
           /\ Running' \subseteq List!Slots /\ Cardinality(Running') \in Nat
<1>1. Running \subseteq List!Slots /\ Running' \subseteq List!Slots
    BY DEF Running
<1> QED
    BY <1>1, HandlersAreFinite

LEMMA RunningCounts ==
    ASSUME ListTypes, NEW c \in List!Slots
    PROVE  /\ c \notin Running => Cardinality(Running \cup {c}) = Cardinality(Running) + 1
           /\ c \in Running => Cardinality(Running \ {c}) = Cardinality(Running) - 1
BY RunningIsFinite, FS_AddElement, FS_RemoveElement

\* One call changes; the others stay as they are.
LEMMA OneCall ==
    ASSUME ListTypes, OwnAreWritten, page' = page, NEW c \in List!Slots, NEW new \in CallRecord,
           CallOk(new), net'.call = [net.call EXCEPT ![c] = new], db' \in [List!Rec -> Nat],
           \A r \in List!Rec : db[r] <= db'[r],
           new.rec \in List!Rec => new.ver <= db'[new.rec]
    PROVE  /\ net'.call \in [List!Slots -> CallRecord]
           /\ (\A d \in List!Slots : CallOk(net.call[d]))'
           /\ \A d \in List!Slots : net'.call[d].rec \in List!Rec => net'.call[d].ver <= db'[net'.call[d].rec]
           /\ Running' = IF List!Pending(new) THEN Running \cup {c} ELSE Running \ {c}
<1>1. net.call \in [List!Slots -> CallRecord] /\ db \in [List!Rec -> Nat]
    BY ListParts
<1>2. /\ net'.call \in [List!Slots -> CallRecord]
      /\ \A d \in List!Slots : net'.call[d] = IF d = c THEN new ELSE net.call[d]
    BY <1>1
<1>3. \A a : CallOk(a)' <=> CallOk(a)
    BY SamePage DEF CallOk, List!Pending
<1>4. \A d \in List!Slots : CallOk(net'.call[d])
    BY <1>2 DEF ListTypes
<1>5. (\A d \in List!Slots : CallOk(net.call[d]))'
    BY <1>4, SamePage DEF CallOk, List!Pending
<1>6. ASSUME NEW d \in List!Slots, net'.call[d].rec \in List!Rec
      PROVE  net'.call[d].ver <= db'[net'.call[d].rec]
    <2>1. CASE d = c
        BY <1>2, <1>6, <2>1
    <2>2. CASE d # c
        <3>1. net'.call[d] = net.call[d] /\ net.call[d].ver \in Nat
            BY <1>1, <1>2, <2>2 DEF CallRecord
        <3>2. net.call[d].ver <= db[net.call[d].rec]
            BY <1>6, <3>1 DEF OwnAreWritten
        <3> QED
            BY <1>1, <1>6, <3>1, <3>2
    <2> QED
        BY <2>1, <2>2
<1>7. Running' = IF List!Pending(new) THEN Running \cup {c} ELSE Running \ {c}
    BY <1>2 DEF Running, List!Pending
<1> QED
    BY <1>2, <1>5, <1>6, <1>7

\* The list and its loads stay as they are.
SameList(u) ==
    /\ u.list = ui.list /\ u.listQuery = ui.listQuery /\ u.of = ui.of /\ u.newest = ui.newest
    /\ u.failed = ui.failed /\ u.asked = ui.asked

LEMMA ListWaits ==
    ASSUME ListInv, page' = page, SameList(ui'), List!P.searches \/ ui'.query = ui.query,
           net'.load = net.load, seen'.own = seen.own, seen'.crossed = seen.crossed
    PROVE  NewestSettles' /\ AskedAtOnce'
BY SamePage DEF ListInv, SameList, NewestSettles, Settles, AskedAtOnce

\* A load starts that an event has paid for.
LEMMA ListLoads ==
    ASSUME ListInv, page' = page, NEW u \in ListUi, NEW q \in ListNet, SameList(u), q.load = net.load,
           List!StartsLoad(u, q),
           ui.newest + Cardinality(Running') <= seen'.events, seen'.events \in 0 .. MaxListEvent,
           Cardinality(Running') \in Nat
    PROVE  /\ ui' \in ListUi /\ net' \in ListNet
           /\ net'.call = q.call /\ net'.fetch = q.fetch /\ ui'.form = u.form
           /\ LoadsAreCounted' /\ NewestSettles' /\ AskedAtOnce'
<1> DEFINE n == ui.newest + 1
           new == [List!NoLoad EXCEPT !.at = "sent", !.query = u.query]
<1>1. n \in List!Loads /\ ui.newest \in Nat \ {0} /\ ui.of \in Nat /\ ui.of <= ui.newest
    BY ListParts DEF ListInv, List!Loads, NewestSettles
<1>2. new \in LoadRecord /\ new.at = "sent" /\ new.query = u.query
    BY DEF List!NoLoad, LoadRecord, ListUi
<1> HIDE DEF new
<1>3. net' = [q EXCEPT !.load = [q.load EXCEPT ![n] = new]]
    BY DEF List!StartsLoad, SameList, new, ListNet
<1>4. /\ net' \in ListNet /\ net'.call = q.call /\ net'.fetch = q.fetch
      /\ net'.load = [net.load EXCEPT ![n] = new]
    <2> DEFINE loads == [q.load EXCEPT ![n] = new]
    <2>1. loads = [net.load EXCEPT ![n] = new] /\ loads \in [List!Loads -> LoadRecord]
        BY <1>1, <1>2, ListParts DEF ListInv
    <2> HIDE DEF loads
    <2>2. net' = [q EXCEPT !.load = loads]
        BY <1>3 DEF loads
    <2> QED
        BY <2>1, <2>2 DEF ListNet
<1>5. /\ ui' \in ListUi /\ ui'.newest = n /\ ui'.of = ui.of /\ ui'.query = u.query /\ ui'.form = u.form
      /\ ui'.asked = u.query
    <2> DEFINE open == IF List!P.detail = "screen" THEN List!None ELSE u.open
               shown == IF List!P.detail = "screen" THEN 0 ELSE u.shown
    <2>1. open \in RowOrNone /\ shown \in Nat
        BY DEF ListUi, RowOrNone, List!None
    <2>2. ui' = [u EXCEPT !.newest = @ + 1, !.loading = TRUE, !.failed = FALSE, !.asked = u.query,
                         !.open = open, !.shown = shown]
        BY DEF List!StartsLoad
    <2> HIDE DEF open, shown
    <2>3. u.newest + 1 = n /\ u.of = ui.of /\ n \in Nat \ {0}
        BY <1>1 DEF SameList
    <2> HIDE DEF n
    <2>4. ui' = [u EXCEPT !.newest = n, !.loading = TRUE, !.failed = FALSE, !.asked = u.query,
                         !.open = open, !.shown = shown]
        BY <2>2, <2>3
    <2>5. ui'.newest = n /\ ui'.of = u.of /\ ui'.query = u.query /\ ui'.form = u.form
          /\ ui'.asked = u.query
        BY <2>4 DEF ListUi
    <2>6. ui' \in ListUi
        BY <2>1, <2>3, <2>4 DEF ListUi
    <2> QED
        BY <2>3, <2>5, <2>6
<1>6. LoadsAreCounted'
    BY <1>1, <1>5, ListParts DEF LoadsAreCounted, ListInv
<1>7. net'.load[n] = new /\ \A m \in List!Loads : m > n => net'.load[m].at = "idle"
    BY <1>1, <1>4, ListParts DEF ListInv, NewestSettles, List!Loads
<1>8. NewestSettles'
    BY <1>1, <1>2, <1>5, <1>7 DEF NewestSettles, Settles
<1>9. AskedAtOnce'
    BY <1>5 DEF AskedAtOnce
<1> QED
    BY <1>4, <1>5, <1>6, <1>8, <1>9
-----------------------------------------------------------------------------
(* The list pages: the steps.                                              *)

FetchesOk(q) == \A f \in List!Slots : q.fetch[f].at = "sent" => q.fetch[f].rec \in Record

\* The types after a step, from those of the new values.
LEMMA ListTyped ==
    ASSUME ListTypes, page' = page, ui' \in ListUi, FormOk(ui'.form), net' \in ListNet, FetchesOk(net'),
           (\A c \in List!Slots : CallOk(net.call[c]))', seen' \in ListSeen, db' \in [List!Rec -> Nat]
    PROVE  ListTypes'
BY SamePage DEF ListTypes, FormOk, FetchesOk

\* A step that leaves the list, its loads and the handlers alone.
LEMMA ListSideStep ==
    ASSUME ListInv, page' = page, ui' \in ListUi, SameList(ui'),
           List!P.searches \/ ui'.query = ui.query, FormOk(ui'.form),
           net' \in ListNet, net'.load = net.load, net'.call = net.call, FetchesOk(net'),
           seen' \in ListSeen, seen'.own = seen.own, seen'.crossed = seen.crossed,
           seen.events <= seen'.events,
           db' \in [List!Rec -> Nat], \A r \in List!Rec : db[r] <= db'[r]
    PROVE  ListInv'
<1>1. (\A c \in List!Slots : CallOk(net.call[c]))'
    BY SamePage DEF ListInv, ListTypes, CallOk
<1>2. ListTypes'
    BY <1>1, ListTyped DEF ListInv
<1>3. Running' = Running
    BY DEF Running
<1>4. LoadsAreCounted'
    BY <1>3, ListParts, RunningIsFinite DEF ListInv, LoadsAreCounted, SameList, ListSeen
<1>5. OwnAreWritten'
    <2>1. ASSUME NEW r \in List!Rec PROVE seen'.own[r] <= db'[r]
        <3>1. seen.own[r] <= db[r] /\ db[r] <= db'[r] /\ seen.own[r] \in Nat /\ db[r] \in Nat /\ db'[r] \in Nat
            BY ListParts DEF ListInv, OwnAreWritten
        <3> QED
            BY <3>1
    <2>2. ASSUME NEW c \in List!Slots, net.call[c].rec \in List!Rec
          PROVE  net.call[c].ver <= db'[net.call[c].rec]
        <3> DEFINE r == net.call[c].rec
        <3>1. /\ net.call[c].ver <= db[r] /\ db[r] <= db'[r] /\ net.call[c].ver \in Nat
              /\ db[r] \in Nat /\ db'[r] \in Nat
            BY <2>2, ListParts DEF ListInv, OwnAreWritten, CallRecord
        <3> QED
            BY <3>1
    <2> QED
        BY <2>1, <2>2 DEF OwnAreWritten
<1>6. NewestSettles' /\ AskedAtOnce'
    BY ListWaits
<1> QED
    BY <1>2, <1>4, <1>5, <1>6 DEF ListInv

\* One handler moves on: pressed for an event, answered, or given up.
LEMMA ListHandlerStep ==
    ASSUME ListInv, page' = page, ui' \in ListUi, SameList(ui'), ui'.query = ui.query, FormOk(ui'.form),
           NEW c \in List!Slots, NEW new \in CallRecord, CallOk(new),
           net' \in ListNet, net'.load = net.load, net'.call = [net.call EXCEPT ![c] = new], FetchesOk(net'),
           seen' \in ListSeen, seen'.own = seen.own, seen'.crossed = seen.crossed,
           \/ seen'.events = seen.events + 1
           \/ seen'.events = seen.events /\ (List!Pending(new) => c \in Running),
           db' \in [List!Rec -> Nat], \A r \in List!Rec : db[r] <= db'[r],
           new.rec \in List!Rec => new.ver <= db'[new.rec]
    PROVE  ListInv'
<1>2. /\ net'.call \in [List!Slots -> CallRecord]
      /\ (\A d \in List!Slots : CallOk(net.call[d]))'
      /\ \A d \in List!Slots : net'.call[d].rec \in List!Rec => net'.call[d].ver <= db'[net'.call[d].rec]
      /\ Running' = IF List!Pending(new) THEN Running \cup {c} ELSE Running \ {c}
    BY OneCall DEF ListInv
<1>4. ListTypes'
    BY <1>2, ListTyped DEF ListInv
<1>5. Cardinality(Running') <= Cardinality(Running) + (seen'.events - seen.events)
    <2>0. /\ Cardinality(Running) \in Nat /\ seen.events \in Nat /\ seen'.events \in Nat
          /\ seen'.events >= seen.events
        BY ListParts, RunningIsFinite DEF ListInv, ListSeen
    <2>1. CASE List!Pending(new) /\ c \in Running
        <3>1. Running' = Running
            BY <1>2, <2>1
        <3> QED
            BY <2>0, <3>1
    <2>2. CASE List!Pending(new) /\ c \notin Running
        BY <1>2, <2>0, <2>2, RunningCounts DEF ListInv
    <2>3. CASE ~List!Pending(new) /\ c \in Running
        BY <1>2, <2>0, <2>3, RunningCounts DEF ListInv
    <2>4. CASE ~List!Pending(new) /\ c \notin Running
        <3>1. Running' = Running
            BY <1>2, <2>4
        <3> QED
            BY <2>0, <3>1
    <2> QED
        BY <2>1, <2>2, <2>3, <2>4
<1>6. LoadsAreCounted'
    <2>1. ui.newest + Cardinality(Running) <= 1 + seen.events /\ ui'.newest = ui.newest
        BY DEF ListInv, LoadsAreCounted, SameList
    <2>2. ui.newest \in Nat /\ Cardinality(Running) \in Nat /\ Cardinality(Running') \in Nat
          /\ seen.events \in Nat /\ seen'.events \in Nat
        BY ListParts, RunningIsFinite DEF ListInv, ListSeen
    <2> QED
        BY <1>5, <2>1, <2>2 DEF LoadsAreCounted
<1>7. OwnAreWritten'
    <2>1. ASSUME NEW r \in List!Rec PROVE seen'.own[r] <= db'[r]
        <3>1. seen.own[r] <= db[r] /\ db[r] <= db'[r] /\ seen.own[r] \in Nat /\ db[r] \in Nat /\ db'[r] \in Nat
            BY ListParts DEF ListInv, OwnAreWritten
        <3> QED
            BY <3>1
    <2> QED
        BY <1>2, <2>1 DEF OwnAreWritten
<1>8. NewestSettles' /\ AskedAtOnce'
    BY ListWaits
<1> QED
    BY <1>4, <1>6, <1>7, <1>8 DEF ListInv

LEMMA ListCallStep ==
    ASSUME ListInv, page' = page, ui' \in ListUi, SameList(ui'), ui'.query = ui.query, FormOk(ui'.form),
           NEW c \in List!Slots, NEW new \in CallRecord, CallOk(new),
           net' = [net EXCEPT !.call = [net.call EXCEPT ![c] = new]],
           seen' \in ListSeen, seen'.own = seen.own, seen'.crossed = seen.crossed,
           \/ seen'.events = seen.events + 1
           \/ seen'.events = seen.events /\ (List!Pending(new) => c \in Running),
           db' \in [List!Rec -> Nat], \A r \in List!Rec : db[r] <= db'[r],
           new.rec \in List!Rec => new.ver <= db'[new.rec]
    PROVE  ListInv'
<1>1. [net.call EXCEPT ![c] = new] \in [List!Slots -> CallRecord]
    BY ListParts DEF ListInv
<1>2. /\ net' \in ListNet /\ net'.load = net.load /\ net'.call = [net.call EXCEPT ![c] = new]
      /\ FetchesOk(net')
    BY <1>1 DEF ListInv, ListTypes, ListNet, FetchesOk
<1> QED
    BY <1>2, ListHandlerStep
LEMMA ListFrame ==
    ASSUME ListInv
    PROVE  /\ ListTypes /\ ui \in ListUi /\ net \in ListNet /\ seen \in ListSeen /\ FormOk(ui.form)
           /\ FetchesOk(net) /\ SameList(ui)
           /\ db \in [List!Rec -> Nat] /\ \A r \in List!Rec : db[r] <= db[r]
           /\ GoodControls(List!P.handlers)
BY PagesAreGood DEF ListInv, ListTypes, FetchesOk, SameList

LEMMA RowsAreRecords ==
    /\ Record \subseteq List!Rec /\ Record \subseteq RowOrNone /\ List!Rec \subseteq RecOrNone
    /\ List!None \in RowOrNone /\ List!None \in RecOrNone /\ List!New \in List!Rec /\ List!None = "none"
BY DEF List!Rec, RowOrNone, RecOrNone, List!None

\* Forms and drawers are opened and closed.
LEMMA FormsKeep ==
    ASSUME ListInv,
           \/ List!CloseDrawer \/ List!CloseForm
           \/ \E h \in List!P.handlers : List!OpenForm(h)
    PROVE  ListInv'
<1> USE ListFrame, RowsAreRecords
<1>0. /\ List!NoForm \in FormRecord /\ FormOk(List!NoForm)
    BY DEF List!NoForm, FormRecord, FormOk
<1>1. CASE List!CloseDrawer
    <2>1. ui' \in ListUi /\ SameList(ui') /\ ui'.query = ui.query /\ ui'.form = ui.form
        BY <1>1 DEF List!CloseDrawer, ListUi, SameList
    <2> QED
        BY <1>1, <2>1, ListSideStep DEF List!CloseDrawer, ListSeen
<1>2. CASE List!CloseForm
    <2>1. ui' \in ListUi /\ SameList(ui') /\ ui'.query = ui.query /\ ui'.form = List!NoForm
        BY <1>0, <1>2 DEF List!CloseForm, ListUi, SameList
    <2> QED
        BY <1>0, <1>2, <2>1, ListSideStep DEF List!CloseForm, ListSeen
<1>3. ASSUME NEW h \in List!P.handlers, List!OpenForm(h) PROVE ListInv'
    <2>1. PICK r \in List!Rec : ui' = [ui EXCEPT !.form = [name |-> h.name, rec |-> r, base |-> ui.list[r]]]
        BY <1>3 DEF List!OpenForm, List!Listed
    <2> DEFINE form == [name |-> h.name, rec |-> r, base |-> ui.list[r]]
    <2>2. form \in FormRecord /\ FormOk(form)
        BY <2>1, ListParts DEF FormRecord, FormOk, Names
    <2> HIDE DEF form
    <2>3. ui' = [ui EXCEPT !.form = form]
        BY <2>1 DEF form
    <2>4. ui' \in ListUi /\ SameList(ui') /\ ui'.query = ui.query /\ ui'.form = form
        BY <2>2, <2>3 DEF ListUi, SameList
    <2> QED
        BY <1>3, <2>2, <2>4, ListSideStep DEF List!OpenForm, ListSeen
<1> QED
    BY <1>1, <1>2, <1>3

\* Details are fetched.
LEMMA Fetching ==
    ASSUME NEW q \in ListNet, FetchesOk(q), NEW r \in Record
    PROVE  /\ List!Fetch(q, r) \in ListNet /\ FetchesOk(List!Fetch(q, r))
           /\ List!Fetch(q, r).load = q.load /\ List!Fetch(q, r).call = q.call
<1> DEFINE f == CHOOSE f \in List!Slots : q.fetch[f].at = "idle" /\ \A g \in 1 .. f - 1 : q.fetch[g].at # "idle"
           sent == [at |-> "sent", rec |-> r]
<1>1. List!Fetch(q, r) = [q EXCEPT !.fetch = [q.fetch EXCEPT ![f] = sent]]
    BY DEF List!Fetch, ListNet
<1>2. sent \in FetchRecord /\ sent.at = "sent" /\ sent.rec = r
    BY RowsAreRecords DEF FetchRecord
<1> HIDE DEF f, sent
<1> DEFINE fetch == [q.fetch EXCEPT ![f] = sent]
<1>3. /\ fetch \in [List!Slots -> FetchRecord]
      /\ \A g \in List!Slots : fetch[g].at = "sent" => fetch[g].rec \in Record
    BY <1>2 DEF ListNet, FetchesOk
<1> HIDE DEF fetch
<1>4. List!Fetch(q, r) = [q EXCEPT !.fetch = fetch]
    BY <1>1 DEF fetch
<1> QED
    BY <1>3, <1>4 DEF ListNet, FetchesOk

LEMMA EventSeen ==
    ASSUME ListInv, List!Event
    PROVE  /\ seen' \in ListSeen /\ seen'.own = seen.own /\ seen'.crossed = seen.crossed
           /\ seen'.events = seen.events + 1 /\ seen.events <= seen'.events
BY ListParts DEF ListInv, ListTypes, List!Event, ListSeen

LEMMA DetailsKeep ==
    ASSUME ListInv, NEW r \in Record, List!Open(r) \/ List!Foreign(r)
    PROVE  ListInv'
<1> USE ListFrame, RowsAreRecords
<1>1. CASE List!Open(r)
    <2>1. ui' \in ListUi /\ SameList(ui') /\ ui'.query = ui.query /\ ui'.form = ui.form
        <3>1. ui.list[r] \in Nat
            BY ListParts
        <3>2. CASE ui' = ui
            BY <3>2 DEF SameList
        <3>3. CASE ui' = [ui EXCEPT !.open = r, !.shown = ui.list[r], !.beside = List!None]
            BY <3>1, <3>3 DEF SameList, ListUi
        <3> QED
            BY <1>1, <3>2, <3>3 DEF List!Open
    <2>2. net' = net \/ net' = List!Fetch(net, r)
        BY <1>1 DEF List!Open
    <2>3. net' \in ListNet /\ FetchesOk(net') /\ net'.load = net.load /\ net'.call = net.call
        BY <2>2, Fetching
    <2>4. UNCHANGED <<page, db>> /\ List!Event
        BY <1>1 DEF List!Open
    <2> QED
        BY <2>1, <2>3, <2>4, EventSeen, ListSideStep
<1>2. CASE List!Foreign(r)
    <2>1. db' \in [List!Rec -> Nat] /\ \A s \in List!Rec : db[s] <= db'[s]
        BY <1>2, ListParts DEF List!Foreign
    <2>2. List!Event /\ UNCHANGED <<page, ui, net>>
        BY <1>2 DEF List!Foreign
    <2> QED
        BY <2>1, <2>2, EventSeen, ListSideStep
<1> QED
    BY <1>1, <1>2

LEMMA FetchesKeep ==
    ASSUME ListInv, NEW f \in List!Slots, List!AnswerFetch(f)
    PROVE  ListInv'
<1> USE ListFrame, RowsAreRecords
<1> DEFINE a == net.fetch[f]
<1>1. a.at = "sent" /\ a.rec \in Record /\ db[a.rec] \in Nat
    BY ListParts DEF List!AnswerFetch, FetchesOk
<1>2. ui' \in ListUi /\ SameList(ui') /\ ui'.query = ui.query /\ ui'.form = ui.form
    <2>1. CASE ui' = ui
        BY <2>1 DEF SameList
    <2>2. CASE ui' = [ui EXCEPT !.open = a.rec, !.shown = db[a.rec]]
        BY <1>1, <2>2 DEF SameList, ListUi
    <2>3. CASE ui' = [ui EXCEPT !.beside = a.rec]
        BY <1>1, <2>3 DEF SameList, ListUi
    <2> QED
        BY <2>1, <2>2, <2>3 DEF List!AnswerFetch
<1>3. net' \in ListNet /\ FetchesOk(net') /\ net'.load = net.load /\ net'.call = net.call
    <2> DEFINE done == [List!NoFetch EXCEPT !.at = "done"]
               fetch == [net.fetch EXCEPT ![f] = done]
    <2>1. done \in FetchRecord /\ done.at = "done"
        BY DEF List!NoFetch, FetchRecord
    <2>2. net' = [net EXCEPT !.fetch = fetch]
        BY DEF List!AnswerFetch, ListNet
    <2> HIDE DEF done
    <2>3. fetch \in [List!Slots -> FetchRecord] /\ \A g \in List!Slots : fetch[g].at = "sent" => fetch[g].rec \in Record
        BY <2>1, ListParts DEF FetchesOk
    <2> HIDE DEF fetch
    <2> QED
        BY <2>2, <2>3 DEF ListNet, FetchesOk
<1> QED
    BY <1>2, <1>3, ListSideStep DEF List!AnswerFetch, ListSeen
\* The flags stay what the handlers of the page may raise.
LEMMA FlagsStay ==
    ASSUME NEW h \in List!P.handlers, NEW r \in List!Rec, NEW flags \in SUBSET Flags
    PROVE  List!Raised(h, r, flags) \in SUBSET Flags /\ List!Lowered(h, flags) \in SUBSET Flags
<1>1. List!FlagKey(h, r) \in Flags
    BY DEF List!FlagKey, Flags
<1> QED
    BY <1>1 DEF List!Raised, List!Lowered

LEMMA PressKeeps ==
    ASSUME ListInv, NEW h \in List!P.handlers, NEW c \in List!Slots, List!Press(h, c)
    PROVE  ListInv'
<1> USE ListFrame, RowsAreRecords
<1>1. PICK r \in List!Targets(h) :
          /\ net' = [net EXCEPT !.call[c] = [name |-> h.name, rec |-> r, base |-> List!Base(h, r),
                                             read |-> List!Read(h, r), step |-> 1, ver |-> 0,
                                             at |-> IF h.asks THEN "asking" ELSE "sent"]]
          /\ ui' = IF h.asks THEN ui
                   ELSE [ui EXCEPT !.flags = List!Raised(h, r, @), !.form = IF h.early THEN List!NoForm ELSE @]
    BY DEF List!Press
<1>2. r \in List!Rec /\ (h.from = "drawer" => r \in Record)
    BY ListParts DEF List!Targets, List!Listed, FormOk, GoodControls, GoodHandler, ListUi, RowOrNone
<1>3. List!Read(h, r) \in Nat
    BY <1>2, ListParts DEF List!Read, FormRecord
<1> DEFINE new == [name |-> h.name, rec |-> r, base |-> List!Base(h, r), read |-> List!Read(h, r),
                   step |-> 1, at |-> IF h.asks THEN "asking" ELSE "sent", ver |-> 0]
<1>4. new \in CallRecord
    BY <1>2, <1>3 DEF CallRecord, Names, List!Base
<1>5. CallOk(new) /\ new.rec \in List!Rec /\ new.ver = 0
    BY <1>2 DEF CallOk, GoodControls, GoodHandler, List!Base
<1>6. net' = [net EXCEPT !.call = [net.call EXCEPT ![c] = new]]
    BY <1>1 DEF ListNet
<1> HIDE DEF new
<1>7. ui' \in ListUi /\ SameList(ui') /\ ui'.query = ui.query /\ FormOk(ui'.form)
    <2>1. CASE h.asks
        BY <1>1, <2>1 DEF SameList
    <2>2. CASE ~h.asks
        <3> DEFINE form == IF h.early THEN List!NoForm ELSE ui.form
                   flags == List!Raised(h, r, ui.flags)
        <3>1. form \in FormRecord /\ FormOk(form)
            BY ListParts DEF List!NoForm, FormRecord, FormOk
        <3>2. flags \in SUBSET Flags
            BY <1>2, FlagsStay, ListParts
        <3>3. ui' = [ui EXCEPT !.flags = flags, !.form = form]
            BY <1>1, <2>2
        <3> HIDE DEF form, flags
        <3> QED
            BY <3>1, <3>2, <3>3 DEF ListUi, SameList
    <2> QED
        BY <2>1, <2>2
<1>8. List!Event /\ UNCHANGED <<page, db>>
    BY DEF List!Press
<1>9. db[new.rec] \in Nat
    BY <1>5, ListParts
<1> QED
    BY <1>4, <1>5, <1>6, <1>7, <1>8, <1>9, EventSeen, ListCallStep

LEMMA RunningHandler ==
    ASSUME ListInv, NEW c \in List!Slots, net.call[c].at \notin {"idle", "done"}
    PROVE  /\ c \in Running /\ net.call[c] \in CallRecord /\ CallOk(net.call[c])
           /\ net.call[c].rec \in List!Rec /\ net.call[c].ver \in Nat
           /\ net.call[c].ver <= db[net.call[c].rec] /\ db[net.call[c].rec] \in Nat
<1>1. c \in Running /\ net.call[c] \in CallRecord /\ CallOk(net.call[c])
    BY ListParts DEF ListInv, ListTypes, Running, List!Pending
<1>2. net.call[c].rec \in List!Rec /\ net.call[c].ver \in Nat
    BY <1>1 DEF CallOk, List!Pending, CallRecord
<1> QED
    BY <1>1, <1>2, ListParts DEF ListInv, OwnAreWritten

LEMMA NoCallIsOver ==
    LET over == [List!NoCall EXCEPT !.at = "done"] IN
    /\ over \in CallRecord /\ CallOk(over) /\ ~List!Pending(over) /\ over.ver = 0
BY RowsAreRecords DEF List!NoCall, CallRecord, CallOk, List!Pending

LEMMA ConfirmKeeps ==
    ASSUME ListInv, NEW h \in List!P.handlers, NEW c \in List!Slots, List!Confirm(h, c)
    PROVE  ListInv'
<1> USE ListFrame, RowsAreRecords
<1> DEFINE a == net.call[c]
<1>1. /\ a.at = "asking" /\ UNCHANGED <<page, db, seen>> /\ c \in Running /\ a \in CallRecord /\ CallOk(a)
      /\ a.rec \in List!Rec /\ a.ver \in Nat /\ a.ver <= db[a.rec]
    BY RunningHandler DEF List!Confirm
<1>2. CASE /\ net' = [net EXCEPT !.call[c].at = "sent"]
           /\ ui' = [ui EXCEPT !.flags = List!Raised(h, a.rec, @)]
    <2> DEFINE new == [a EXCEPT !.at = "sent"]
    <2>1. new \in CallRecord /\ CallOk(new) /\ new.rec = a.rec /\ new.ver = a.ver
        BY <1>1 DEF CallRecord, CallOk, List!Pending
    <2>2. net' = [net EXCEPT !.call = [net.call EXCEPT ![c] = new]]
        BY <1>2 DEF ListNet
    <2> HIDE DEF new
    <2>3. ui' \in ListUi /\ SameList(ui') /\ ui'.query = ui.query /\ FormOk(ui'.form)
        <3>1. List!Raised(h, a.rec, ui.flags) \in SUBSET Flags
            BY <1>1, FlagsStay, ListParts
        <3> QED
            BY <1>2, <3>1 DEF ListUi, SameList
    <2> QED
        BY <1>1, <2>1, <2>2, <2>3, ListCallStep
<1>3. CASE /\ net' = [net EXCEPT !.call[c] = [List!NoCall EXCEPT !.at = "done"]]
           /\ ui' = IF h.drafts THEN [ui EXCEPT !.flags = List!Lowered(h, @)] ELSE ui
    <2> DEFINE new == [List!NoCall EXCEPT !.at = "done"]
    <2>1. net' = [net EXCEPT !.call = [net.call EXCEPT ![c] = new]]
        BY <1>3 DEF ListNet
    <2>2. new \in CallRecord /\ CallOk(new) /\ ~List!Pending(new) /\ new.ver = 0
        BY NoCallIsOver
    <2> HIDE DEF new
    <2>3. ui' \in ListUi /\ SameList(ui') /\ ui'.query = ui.query /\ FormOk(ui'.form)
        <3>1. List!Lowered(h, ui.flags) \in SUBSET Flags
            BY <1>1, FlagsStay, ListParts
        <3> QED
            BY <1>3, <3>1 DEF ListUi, SameList
    <2>4. new.rec \in List!Rec => new.ver <= db'[new.rec]
        BY <1>1, <2>2, ListParts
    <2> QED
        BY <1>1, <2>1, <2>2, <2>3, <2>4, ListCallStep
<1> QED
    BY <1>2, <1>3 DEF List!Confirm

LEMMA CallsAreServed ==
    ASSUME ListInv, NEW h \in List!P.handlers, NEW c \in List!Slots, List!ServeCall(h, c)
    PROVE  ListInv'
<1> USE ListFrame, RowsAreRecords
<1> DEFINE a == net.call[c]
<1>1. /\ a.at = "sent" /\ UNCHANGED <<page, ui, seen>> /\ c \in Running /\ a \in CallRecord /\ CallOk(a)
      /\ a.rec \in List!Rec /\ a.ver \in Nat /\ a.ver <= db[a.rec] /\ db[a.rec] \in Nat
    BY RunningHandler DEF List!ServeCall
<1>2. ASSUME NEW at \in {"ok", "refused"}, NEW ver \in Nat,
             net' = [net EXCEPT !.call = [net.call EXCEPT ![c] = [a EXCEPT !.at = at, !.ver = ver]]],
             db' \in [List!Rec -> Nat], \A r \in List!Rec : db[r] <= db'[r], ver <= db'[a.rec]
      PROVE  ListInv'
    <2> DEFINE new == [a EXCEPT !.at = at, !.ver = ver]
    <2>1. new \in CallRecord /\ CallOk(new) /\ new.rec = a.rec /\ new.ver = ver
        BY <1>1 DEF CallRecord, CallOk, List!Pending
    <2> HIDE DEF new
    <2>2. net' = [net EXCEPT !.call = [net.call EXCEPT ![c] = new]]
        BY <1>2 DEF new
    <2> QED
        BY <1>1, <1>2, <2>1, <2>2, ListCallStep
<1>3. ASSUME NEW at \in {"ok", "refused"}, db' = [db EXCEPT ![a.rec] = @ + List!Written(h, a)],
             net' = [net EXCEPT !.call[c].at = at, !.call[c].ver = db'[a.rec]]
      PROVE  ListInv'
    <2>1. PICK w \in {0, 1} : db' = [db EXCEPT ![a.rec] = @ + w]
        BY <1>3 DEF List!Written
    <2>2. /\ db' \in [List!Rec -> Nat] /\ db'[a.rec] \in Nat
          /\ \A r \in List!Rec : db[r] <= db'[r]
        <3> HIDE DEF a
        <3>1. \A r \in List!Rec : db'[r] = IF r = a.rec THEN db[r] + w ELSE db[r]
            BY <2>1
        <3> QED
            BY <1>1, <2>1, <3>1
    <2> DEFINE ver == db'[a.rec]
    <2>3. net' = [net EXCEPT !.call[c].at = at, !.call[c].ver = ver]
        BY <1>3
    <2> HIDE DEF ver
    <2>4. net' = [net EXCEPT !.call = [net.call EXCEPT ![c] = [a EXCEPT !.at = at, !.ver = ver]]]
        BY <2>3 DEF ListNet
    <2>5. ver \in Nat /\ ver <= db'[a.rec]
        BY <2>2 DEF ver
    <2> QED
        BY <1>2, <2>2, <2>4, <2>5
<1>4. CASE net' = [net EXCEPT !.call[c].at = "refused"] /\ db' = db
    <2>1. net' = [net EXCEPT !.call = [net.call EXCEPT ![c] = [a EXCEPT !.at = "refused", !.ver = a.ver]]]
        BY <1>1, <1>4 DEF ListNet, CallRecord
    <2> QED
        BY <1>1, <1>2, <1>4, <2>1
<1> QED
    BY <1>3, <1>4 DEF List!ServeCall
LEMMA OverIsOld ==
    ASSUME ListTypes, UNCHANGED db
    PROVE  LET over == [List!NoCall EXCEPT !.at = "done"] IN
           over.rec \in List!Rec => over.ver <= db'[over.rec]
<1> DEFINE over == [List!NoCall EXCEPT !.at = "done"]
<1>1. over.ver = 0
    BY DEF List!NoCall
<1> HIDE DEF over
<1>2. over.rec \in List!Rec => db'[over.rec] \in Nat
    BY ListParts
<1>3. over.rec \in List!Rec => over.ver <= db'[over.rec]
    BY <1>1, <1>2
<1> QED
    BY <1>3 DEF over

\* What a handler leaves behind.
LEMMA Settling ==
    ASSUME ListInv, NEW h \in List!P.handlers, NEW c \in List!Slots, List!Pending(net.call[c]),
           net.call[c].name = h.name
    PROVE  LET over == [List!NoCall EXCEPT !.at = "done"]
               q == List!Reopens(h, net.call[c], List!Settled(net, c)) IN
           /\ \A p \in {q, List!Settled(net, c)} :
                /\ p \in ListNet /\ p.load = net.load /\ FetchesOk(p)
                /\ p.call = [net.call EXCEPT ![c] = over]
<1> USE ListFrame, RowsAreRecords
<1> DEFINE over == [List!NoCall EXCEPT !.at = "done"]
           a == net.call[c]
           s == List!Settled(net, c)
<1>1. s = [net EXCEPT !.call = [net.call EXCEPT ![c] = over]]
    BY DEF List!Settled, ListNet
<1>2. over \in CallRecord
    BY NoCallIsOver
<1>3. h.reopens => a.rec \in Record
    BY DEF ListInv, ListTypes, CallOk, GoodControls, GoodHandler
<1> HIDE DEF over, a
<1>4. /\ s \in ListNet /\ s.load = net.load /\ FetchesOk(s) /\ s.call = [net.call EXCEPT ![c] = over]
    <2> HIDE DEF s
    <2> DEFINE call == [net.call EXCEPT ![c] = over]
    <2>1. call \in [List!Slots -> CallRecord] /\ s = [net EXCEPT !.call = call]
        BY <1>1, <1>2, ListParts
    <2> HIDE DEF call
    <2>2. s \in ListNet /\ s.load = net.load /\ FetchesOk(s) /\ s.call = call
        BY <2>1 DEF ListNet, FetchesOk
    <2> QED
        BY <2>2 DEF call
<1> HIDE DEF s
<1>5. \A q : q = List!Reopens(h, a, s) =>
          /\ q \in ListNet /\ q.load = net.load /\ FetchesOk(q) /\ q.call = [net.call EXCEPT ![c] = over]
    BY <1>3, <1>4, Fetching, ZenonT(40) DEF List!Reopens
<1> QED
    BY <1>4, <1>5 DEF s, a, over

LEMMA Finishing ==
    ASSUME ListInv, NEW h \in List!P.handlers, NEW c \in List!Slots, List!Pending(net.call[c]),
           net.call[c].name = h.name
    PROVE  /\ \A u \in {List!Done(h, net.call[c], ui), [ui EXCEPT !.flags = List!Lowered(h, @)]} :
                 u \in ListUi /\ SameList(u) /\ u.query = ui.query /\ FormOk(u.form)
<1> USE ListFrame, RowsAreRecords
<1> DEFINE a == net.call[c]
           flags == List!Lowered(h, ui.flags)
           form == IF h.closes /\ ui.form.name = h.name THEN List!NoForm ELSE ui.form
           open == IF h.leaves THEN List!None ELSE IF h.shows THEN a.rec ELSE ui.open
           shown == IF h.leaves THEN 0 ELSE IF h.shows THEN a.ver ELSE ui.shown
<1>0. a \in CallRecord /\ CallOk(a) /\ a.rec \in List!Rec
    BY ListParts DEF ListInv, ListTypes, CallOk
<1>1. flags \in SUBSET Flags
    BY <1>0, FlagsStay, ListParts
<1>2. form \in FormRecord /\ FormOk(form)
    BY ListParts DEF List!NoForm, FormRecord, FormOk
<1>3. open \in RowOrNone /\ shown \in Nat
    BY <1>0 DEF CallOk, GoodControls, GoodHandler, CallRecord, ListUi
<1>4. List!Done(h, a, ui) = [ui EXCEPT !.flags = flags, !.form = form, !.open = open, !.shown = shown]
    BY DEF List!Done
<1> HIDE DEF flags, form, open, shown, a
<1>5. ASSUME NEW u, u = [ui EXCEPT !.flags = flags, !.form = form, !.open = open, !.shown = shown]
      PROVE  u \in ListUi /\ SameList(u) /\ u.query = ui.query /\ FormOk(u.form)
    BY <1>1, <1>2, <1>3, <1>5 DEF ListUi, SameList
<1>6. ASSUME NEW u, u = [ui EXCEPT !.flags = flags]
      PROVE  u \in ListUi /\ SameList(u) /\ u.query = ui.query /\ FormOk(u.form)
    BY <1>1, <1>6 DEF ListUi, SameList
<1>7. [ui EXCEPT !.flags = List!Lowered(h, @)] = [ui EXCEPT !.flags = flags]
    BY DEF flags
<1> QED
    BY <1>4, <1>5, <1>6, <1>7 DEF a

\* A handler that ends with a load of the list.
LEMMA EndsWithLoad ==
    ASSUME ListInv, page' = page, NEW c \in Running, NEW u \in ListUi, NEW q \in ListNet,
           SameList(u), FormOk(u.form), q.load = net.load, FetchesOk(q),
           q.call = [net.call EXCEPT ![c] = [List!NoCall EXCEPT !.at = "done"]],
           List!StartsLoad(u, q), seen' \in ListSeen, seen'.events = seen.events, UNCHANGED db,
           \A r \in List!Rec : seen'.own[r] <= db[r]
    PROVE  ListInv'
<1> USE ListFrame
<1> DEFINE over == [List!NoCall EXCEPT !.at = "done"]
<1>0. c \in List!Slots
    BY DEF Running
<1>1. over \in CallRecord /\ CallOk(over) /\ ~List!Pending(over) /\ over.ver = 0
    BY NoCallIsOver
<1>3. over.rec \in List!Rec => over.ver <= db'[over.rec]
    BY OverIsOld
<1> HIDE DEF over
<1>2. net'.call = [net.call EXCEPT ![c] = over]
    BY DEF List!StartsLoad, ListNet, over
<1>4. /\ (\A d \in List!Slots : CallOk(net.call[d]))'
      /\ \A d \in List!Slots : net'.call[d].rec \in List!Rec => net'.call[d].ver <= db'[net'.call[d].rec]
      /\ Running' = IF List!Pending(over) THEN Running \cup {c} ELSE Running \ {c}
    BY <1>0, <1>1, <1>2, <1>3, OneCall DEF ListInv
<1>5. Cardinality(Running') = Cardinality(Running) - 1 /\ Cardinality(Running') \in Nat
    BY <1>0, <1>1, <1>4, RunningCounts, RunningIsFinite
<1>6. ui.newest + Cardinality(Running') <= seen'.events /\ seen'.events \in 0 .. MaxListEvent
    <2>1. ui.newest + Cardinality(Running) <= 1 + seen.events
        BY DEF ListInv, LoadsAreCounted
    <2> QED
        BY <1>5, <2>1, ListParts, RunningIsFinite DEF ListSeen
<1>7. /\ ui' \in ListUi /\ net' \in ListNet
      /\ net'.call = q.call /\ net'.fetch = q.fetch /\ ui'.form = u.form
      /\ LoadsAreCounted' /\ NewestSettles' /\ AskedAtOnce'
    BY <1>5, <1>6, ListLoads
<1>8. ListTypes'
    BY <1>4, <1>7, ListTyped DEF FetchesOk
<1>9. OwnAreWritten'
    BY <1>4 DEF OwnAreWritten
<1> QED
    BY <1>7, <1>8, <1>9 DEF ListInv

LEMMA SuccessesKeep ==
    ASSUME ListInv, NEW h \in List!P.handlers, NEW c \in List!Slots, List!Succeed(h, c)
    PROVE  ListInv'
<1> USE ListFrame, RowsAreRecords
<1> DEFINE a == net.call[c]
           over == [List!NoCall EXCEPT !.at = "done"]
           u == List!Done(h, a, ui)
           q == List!Reopens(h, a, List!Settled(net, c))
<1>1. /\ a.name = h.name /\ a.at \in {"ok", "refused"} /\ UNCHANGED <<page, db>> /\ c \in Running
      /\ a \in CallRecord /\ CallOk(a) /\ a.rec \in List!Rec /\ a.ver \in Nat /\ a.ver <= db[a.rec]
      /\ List!Pending(a)
    BY RunningHandler DEF List!Succeed, List!Pending
<1>2. CASE a.step < h.calls
    <2>1. ASSUME NEW at \in {"asking", "sent"}, UNCHANGED <<ui, seen>>,
                 net' = [net EXCEPT !.call[c].at = at, !.call[c].step = @ + 1]
          PROVE  ListInv'
        <3> DEFINE new == [a EXCEPT !.at = at, !.step = a.step + 1]
        <3>1. net' = [net EXCEPT !.call = [net.call EXCEPT ![c] = new]]
            BY <2>1 DEF ListNet, CallRecord
        <3>2. a.step + 1 \in Nat
            BY <1>1 DEF CallRecord
        <3>3. /\ new \in CallRecord /\ new.rec = a.rec /\ new.ver = a.ver /\ new.name = a.name
              /\ new.base = a.base /\ new.read = a.read
            BY <1>1, <3>2 DEF CallRecord
        <3>4. CallOk(new)
            BY <1>1, <3>3 DEF CallOk
        <3> HIDE DEF new
        <3> QED
            BY <1>1, <2>1, <3>1, <3>3, <3>4, ListCallStep
    <2>2. CASE h.drafts
        BY <1>2, <2>1, <2>2 DEF List!Succeed
    <2>3. CASE ~h.drafts
        BY <1>2, <2>1, <2>3 DEF List!Succeed
    <2> QED
        BY <2>2, <2>3
<1>3. CASE ~(a.step < h.calls)
    <2>1. u \in ListUi /\ SameList(u) /\ u.query = ui.query /\ FormOk(u.form)
        BY <1>1, Finishing
    <2>2. q \in ListNet /\ q.load = net.load /\ FetchesOk(q) /\ q.call = [net.call EXCEPT ![c] = over]
        BY <1>1, Settling
    <2> DEFINE own == IF h.listed /\ a.ver > seen.own[a.rec] THEN a.ver ELSE seen.own[a.rec]
    <2>3. seen' = [seen EXCEPT !.own = [seen.own EXCEPT ![a.rec] = own]]
        BY <1>3 DEF List!Succeed, ListSeen
    <2>4. own \in Nat /\ own <= db[a.rec] /\ (~h.reloads => own = seen.own[a.rec])
        BY <1>1, ListParts DEF ListInv, OwnAreWritten, GoodControls, GoodHandler
    <2> HIDE DEF own, u, q
    <2>5. IF h.reloads THEN List!StartsLoad(u, q) ELSE ui' = u /\ net' = q
        BY <1>3 DEF List!Succeed, List!ReloadsAfter, u, q
    <2>6. /\ seen' \in ListSeen /\ seen'.events = seen.events /\ seen'.crossed = seen.crossed
          /\ seen'.own = [seen.own EXCEPT ![a.rec] = own]
        <3>1. [seen.own EXCEPT ![a.rec] = own] \in [List!Rec -> Nat]
            BY <2>4, ListParts
        <3> QED
            BY <2>3, <3>1 DEF ListSeen
    <2>7. \A r \in List!Rec : seen'.own[r] <= db[r]
        BY <1>1, <2>4, <2>6, ListParts DEF ListInv, OwnAreWritten
    <2>8. CASE h.reloads
        BY <1>1, <2>1, <2>2, <2>5, <2>6, <2>7, <2>8, EndsWithLoad
    <2>9. CASE ~h.reloads
        <3>1. seen'.own = seen.own
            BY <2>4, <2>6, <2>9, ListParts
        <3>2. over \in CallRecord /\ CallOk(over) /\ ~List!Pending(over) /\ over.ver = 0
            BY NoCallIsOver
        <3>3. over.rec \in List!Rec => over.ver <= db'[over.rec]
            BY <1>1, OverIsOld
        <3> HIDE DEF over
        <3> QED
            BY <1>1, <2>1, <2>2, <2>5, <2>6, <2>9, <3>1, <3>2, <3>3, ListHandlerStep
    <2> QED
        BY <2>8, <2>9
<1> QED
    BY <1>2, <1>3

LEMMA FailuresKeep ==
    ASSUME ListInv, NEW h \in List!P.handlers, NEW c \in List!Slots, List!Fail(h, c)
    PROVE  ListInv'
<1> USE ListFrame, RowsAreRecords
<1> DEFINE a == net.call[c]
           over == [List!NoCall EXCEPT !.at = "done"]
           u == [ui EXCEPT !.flags = List!Lowered(h, @)]
           q == List!Settled(net, c)
<1>1. /\ a.name = h.name /\ a.at = "refused" /\ UNCHANGED <<page, db, seen>> /\ c \in Running
      /\ List!Pending(a)
    BY RunningHandler DEF List!Fail, List!Pending
<1>2. u \in ListUi /\ SameList(u) /\ u.query = ui.query /\ FormOk(u.form)
    BY <1>1, Finishing
<1>3. q \in ListNet /\ q.load = net.load /\ FetchesOk(q) /\ q.call = [net.call EXCEPT ![c] = over]
    BY <1>1, Settling
<1>4. IF h.anyway THEN List!StartsLoad(u, q) ELSE ui' = u /\ net' = q
    BY DEF List!Fail
<1>5. over \in CallRecord /\ CallOk(over) /\ ~List!Pending(over) /\ over.ver = 0
    BY NoCallIsOver
<1>6. \A r \in List!Rec : seen'.own[r] <= db[r]
    BY <1>1 DEF ListInv, OwnAreWritten
<1> HIDE DEF u, q
<1>7. CASE h.anyway
    BY <1>1, <1>2, <1>3, <1>4, <1>6, <1>7, EndsWithLoad
<1>8. over.rec \in List!Rec => over.ver <= db'[over.rec]
    BY <1>1, OverIsOld
<1> HIDE DEF over
<1>9. CASE ~h.anyway
    BY <1>1, <1>2, <1>3, <1>4, <1>5, <1>8, <1>9, ListHandlerStep
<1> QED
    BY <1>7, <1>9
\* A load started by the user, or prepared with a filter that waits for a search.
LEMMA LoadsBegin ==
    ASSUME ListInv, List!EditFilter \/ List!ChangeQuery \/ List!Reload
    PROVE  ListInv'
<1> USE ListFrame
<1>1. ASSUME NEW u \in ListUi, SameList(u), u.form = ui.form, List!StartsLoad(u, net), List!Event,
             UNCHANGED <<page, db>>
      PROVE  ListInv'
    <2>1. net'.call = net.call
        BY <1>1 DEF List!StartsLoad, ListNet
    <2>2. Running' = Running
        BY <2>1 DEF Running
    <2>3. /\ seen' \in ListSeen /\ seen'.own = seen.own /\ seen'.events = seen.events + 1
        BY <1>1, EventSeen
    <2>4. /\ ui.newest + Cardinality(Running') <= seen'.events /\ seen'.events \in 0 .. MaxListEvent
          /\ Cardinality(Running') \in Nat
        BY <2>2, <2>3, ListParts, RunningIsFinite DEF ListInv, LoadsAreCounted, ListSeen
    <2>5. /\ ui' \in ListUi /\ net' \in ListNet
          /\ net'.fetch = net.fetch /\ ui'.form = ui.form
          /\ LoadsAreCounted' /\ NewestSettles' /\ AskedAtOnce'
        BY <1>1, <2>4, ListLoads
    <2>6. (\A c \in List!Slots : CallOk(net.call[c]))'
        BY <1>1, <2>1, SamePage DEF ListInv, ListTypes, CallOk
    <2>7. ListTypes'
        BY <1>1, <2>3, <2>5, <2>6, ListTyped DEF FetchesOk
    <2>8. OwnAreWritten'
        BY <1>1, <2>1, <2>3 DEF ListInv, OwnAreWritten
    <2> QED
        BY <2>5, <2>7, <2>8 DEF ListInv
<1>2. CASE List!Reload
    BY <1>1, <1>2 DEF List!Reload
<1>3. CASE List!ChangeQuery
    <2> DEFINE u == [ui EXCEPT !.query = 1 - @]
    <2>1. u \in ListUi /\ SameList(u) /\ u.form = ui.form
        BY DEF ListUi, SameList
    <2> QED
        BY <1>1, <1>3, <2>1 DEF List!ChangeQuery
<1>4. CASE List!EditFilter
    <2>1. ui' = [ui EXCEPT !.query = 1 - @] /\ List!P.searches /\ UNCHANGED <<page, net, db, seen>>
        BY <1>4 DEF List!EditFilter
    <2>2. ui' \in ListUi /\ SameList(ui') /\ ui'.form = ui.form
        BY <2>1 DEF ListUi, SameList
    <2> QED
        BY <2>1, <2>2, ListParts, ListSideStep
<1> QED
    BY <1>2, <1>3, <1>4

\* One load changes, not the handlers.
LEMMA ListLoadStep ==
    ASSUME ListInv, page' = page, NEW n \in List!Loads, NEW new \in LoadRecord,
           net' = [net EXCEPT !.load = [net.load EXCEPT ![n] = new]],
           ui' \in ListUi, ui'.newest = ui.newest, ui'.form = ui.form,
           seen' \in ListSeen, seen'.own = seen.own, seen'.events = seen.events, UNCHANGED db
    PROVE  /\ ListTypes' /\ LoadsAreCounted' /\ OwnAreWritten'
           /\ \A m \in List!Loads : net'.load[m] = IF m = n THEN new ELSE net.load[m]
<1> USE ListFrame
<1> DEFINE load == [net.load EXCEPT ![n] = new]
<1>1. load \in [List!Loads -> LoadRecord] /\ \A m \in List!Loads : load[m] = IF m = n THEN new ELSE net.load[m]
    BY ListParts
<1> HIDE DEF load
<1>2. net' = [net EXCEPT !.load = load]
    BY DEF load
<1>3. net' \in ListNet /\ net'.load = load /\ net'.call = net.call /\ FetchesOk(net')
    BY <1>1, <1>2 DEF ListNet, FetchesOk
<1>4. (\A c \in List!Slots : CallOk(net.call[c]))'
    BY <1>3, SamePage DEF ListInv, ListTypes, CallOk
<1>5. ListTypes'
    BY <1>3, <1>4, ListTyped
<1>6. Running' = Running
    BY <1>3 DEF Running
<1>7. LoadsAreCounted'
    BY <1>6 DEF ListInv, LoadsAreCounted
<1>8. OwnAreWritten'
    BY <1>3 DEF ListInv, OwnAreWritten
<1> QED
    BY <1>1, <1>3, <1>5, <1>7, <1>8

LEMMA NewestIsALoad ==
    ASSUME ListInv
    PROVE  /\ ui.newest \in List!Loads /\ net.load[ui.newest] \in LoadRecord
           /\ \A n \in List!Loads : net.load[n].at # "idle" => n <= ui.newest
<1>1. ui.newest \in Nat \ {0} /\ ui.newest <= 1 + MaxListEvent
    BY ListParts, RunningIsFinite DEF ListInv, LoadsAreCounted
<1> QED
    BY <1>1, ListParts DEF ListInv, NewestSettles, List!Loads

LEMMA LoadsAreServed ==
    ASSUME ListInv, NEW n \in List!Loads, List!ServeLoad(n)
    PROVE  ListInv'
<1> USE ListFrame
<1> DEFINE a == net.load[n]
<1>1. a \in LoadRecord /\ a.at = "sent" /\ UNCHANGED <<page, ui, db, seen>>
    BY ListParts DEF List!ServeLoad
<1>2. ASSUME NEW new \in LoadRecord, net' = [net EXCEPT !.load = [net.load EXCEPT ![n] = new]],
             new.at \in {"served", "lost"}, new.query = a.query, new.at = "served" => new.snap = db
      PROVE  ListInv'
    <2>1. /\ ListTypes' /\ LoadsAreCounted' /\ OwnAreWritten'
          /\ \A m \in List!Loads : net'.load[m] = IF m = n THEN new ELSE net.load[m]
        BY <1>1, <1>2, ListLoadStep
    <2>2. NewestSettles'
        <3>1. n <= ui.newest
            BY <1>1, NewestIsALoad
        <3>2. Settles(net.load[ui.newest])
            BY DEF ListInv, NewestSettles
        <3>3. ASSUME n = ui.newest PROVE Settles(net.load[ui.newest])'
            <4>1. net'.load[ui'.newest] = new /\ a = net.load[ui.newest]
                BY <1>1, <2>1, <3>3
            <4>2. new.at = "served" => \A r \in List!Rec : seen'.own[r] <= new.snap[r]
                BY <1>1, <1>2 DEF ListInv, OwnAreWritten
            <4> QED
                BY <1>1, <1>2, <3>2, <4>1, <4>2 DEF Settles
        <3>4. ASSUME n # ui.newest PROVE Settles(net.load[ui.newest])'
            <4>1. net'.load[ui'.newest] = net.load[ui.newest]
                BY <1>1, <2>1, <3>4, NewestIsALoad
            <4> QED
                BY <1>1, <3>2, <4>1, SamePage DEF Settles
        <3>5. Settles(net.load[ui.newest])'
            BY <3>3, <3>4
        <3> QED
            BY <1>1, <2>1, <3>1, <3>5, ListParts DEF ListInv, NewestSettles, List!Loads
    <2>3. AskedAtOnce'
        BY <1>1, SamePage DEF ListInv, AskedAtOnce
    <2> QED
        BY <2>1, <2>2, <2>3 DEF ListInv
<1>3. CASE net' = [net EXCEPT !.load[n].at = "served", !.load[n].snap = db]
    <2>1. net' = [net EXCEPT !.load = [net.load EXCEPT ![n] = [a EXCEPT !.at = "served", !.snap = db]]]
        BY <1>3 DEF ListNet
    <2>2. [a EXCEPT !.at = "served", !.snap = db] \in LoadRecord
        BY <1>1 DEF LoadRecord
    <2> QED
        BY <1>1, <1>2, <2>1, <2>2 DEF LoadRecord
<1>4. CASE net' = [net EXCEPT !.load[n].at = "lost"]
    <2>1. net' = [net EXCEPT !.load = [net.load EXCEPT ![n] = [a EXCEPT !.at = "lost"]]]
        BY <1>4 DEF ListNet
    <2>2. [a EXCEPT !.at = "lost"] \in LoadRecord
        BY <1>1 DEF LoadRecord
    <2> QED
        BY <1>1, <1>2, <2>1, <2>2 DEF LoadRecord
<1> QED
    BY <1>3, <1>4 DEF List!ServeLoad

LEMMA AnswersKeep ==
    ASSUME ListInv, NEW n \in List!Loads, List!AnswerLoad(n)
    PROVE  ListInv'
<1> USE ListFrame
<1> DEFINE a == net.load[n]
           new == [List!NoLoad EXCEPT !.at = "done"]
<1>1. a \in LoadRecord /\ a.at \in {"served", "lost"} /\ UNCHANGED <<page, db>> /\ n <= ui.newest
    BY ListParts, NewestIsALoad DEF List!AnswerLoad
<1>2. new \in LoadRecord /\ new.at = "done"
    BY DEF List!NoLoad, LoadRecord
<1>3. net' = [net EXCEPT !.load = [net.load EXCEPT ![n] = new]]
    BY DEF List!AnswerLoad, ListNet
<1> HIDE DEF new
<1>4. /\ seen' \in ListSeen /\ seen'.own = seen.own /\ seen'.events = seen.events
      /\ seen'.crossed <=> seen.crossed \/ n # ui.newest
    BY DEF List!AnswerLoad, ListSeen
<1>5. /\ ui' \in ListUi /\ ui'.newest = ui.newest /\ ui'.form = ui.form /\ ui'.query = ui.query
      /\ ui'.asked = ui.asked /\ ui'.of <= ui.newest
    <2>0. ui.of <= ui.newest /\ n \in Nat /\ a.snap \in [List!Rec -> Nat] /\ a.query \in {0, 1}
        BY <1>1, ListParts DEF ListInv, NewestSettles, List!Loads, LoadRecord
    <2>1. CASE ~List!TakesAnswer(n)
        BY <2>0, <2>1 DEF List!AnswerLoad
    <2>2. CASE List!TakesAnswer(n) /\ a.at = "served"
        <3> DEFINE failed == n # ui.newest /\ ui.failed
        <3>1. ui' = [ui EXCEPT !.list = a.snap, !.listQuery = a.query, !.of = n, !.loading = FALSE,
                               !.failed = failed]
            BY <2>2 DEF List!AnswerLoad
        <3>2. failed \in BOOLEAN
            BY DEF ListUi
        <3> HIDE DEF failed, a
        <3> QED
            BY <1>1, <2>0, <3>1, <3>2 DEF ListUi
    <2>3. CASE List!TakesAnswer(n) /\ a.at = "lost"
        <3> DEFINE failed == n = ui.newest \/ ui.failed
        <3>1. ui' = [ui EXCEPT !.loading = FALSE, !.failed = failed]
            BY <2>3 DEF List!AnswerLoad
        <3>2. failed \in BOOLEAN
            BY DEF ListUi
        <3> HIDE DEF failed
        <3> QED
            BY <2>0, <3>1, <3>2 DEF ListUi
    <2> QED
        BY <1>1, <2>1, <2>2, <2>3
<1>6. /\ ListTypes' /\ LoadsAreCounted' /\ OwnAreWritten'
      /\ \A m \in List!Loads : net'.load[m] = IF m = n THEN new ELSE net.load[m]
    BY <1>1, <1>2, <1>3, <1>4, <1>5, ListLoadStep
<1>7. Settles(net.load[ui.newest])'
    <2>0. Settles(net.load[ui.newest])
        BY DEF ListInv, NewestSettles
    <2>1. CASE n = ui.newest /\ a.at = "served"
        <3>1. ui'.list = a.snap /\ ui'.listQuery = a.query
            BY <2>1 DEF List!AnswerLoad, List!TakesAnswer, ListUi
        <3>2. net'.load[ui'.newest].at = "done"
            BY <1>2, <1>5, <1>6, <2>1
        <3> QED
            BY <1>4, <1>5, <2>0, <2>1, <3>1, <3>2 DEF Settles
    <2>2. CASE n = ui.newest /\ a.at = "lost"
        <3>1. ui'.failed
            BY <2>2 DEF List!AnswerLoad, List!TakesAnswer, ListUi
        <3>2. net'.load[ui'.newest].at = "done"
            BY <1>2, <1>5, <1>6, <2>2
        <3> QED
            BY <3>1, <3>2 DEF Settles
    <2>3. CASE n # ui.newest
        <3>1. net'.load[ui'.newest] = net.load[ui.newest]
            BY <1>5, <1>6, <2>3, NewestIsALoad
        <3>2. seen'.crossed
            BY <1>4, <2>3
        <3>3. CASE List!P.guarded
            <4>1. ui' = ui
                BY <2>3, <3>3 DEF List!AnswerLoad, List!TakesAnswer
            <4> QED
                BY <1>1, <1>4, <2>0, <3>1, <3>2, <4>1, SamePage DEF Settles
        <3>4. CASE ~List!P.guarded
            BY <1>1, <1>4, <1>5, <2>0, <3>1, <3>2, <3>4, SamePage DEF Settles
        <3> QED
            BY <3>3, <3>4
    <2> QED
        BY <1>1, <2>1, <2>2, <2>3
<1>8. \A m \in List!Loads : m > ui'.newest => net'.load[m].at = "idle"
    BY <1>1, <1>5, <1>6, ListParts DEF ListInv, NewestSettles, List!Loads
<1>9. NewestSettles'
    BY <1>5, <1>7, <1>8 DEF NewestSettles
<1>10. AskedAtOnce'
    BY <1>1, <1>5, SamePage DEF ListInv, AskedAtOnce
<1> QED
    BY <1>6, <1>9, <1>10 DEF ListInv
LEMMA ListInit == List!Init => ListInv
<1> SUFFICES ASSUME List!Init PROVE ListInv
    OBVIOUS
<1>0. MaxListEvent \in Nat /\ page \in Lists
    BY Bounds DEF List!Init, Lists
<1>1. /\ List!NoForm \in FormRecord /\ FormOk(List!NoForm) /\ List!NoCall \in CallRecord
      /\ CallOk(List!NoCall) /\ ~List!Pending(List!NoCall) /\ List!NoLoad \in LoadRecord
      /\ List!NoLoad.at = "idle" /\ List!NoFetch \in FetchRecord /\ List!NoFetch.at = "idle"
      /\ List!NoCall.ver = 0
    BY RowsAreRecords DEF List!NoForm, FormRecord, FormOk, List!NoCall, CallRecord, CallOk, List!Pending,
       List!NoLoad, LoadRecord, List!NoFetch, FetchRecord
<1> DEFINE first == [List!NoLoad EXCEPT !.at = "sent"]
<1>2. first \in LoadRecord /\ first.at = "sent" /\ first.query = 0
    BY DEF List!NoLoad, LoadRecord
<1>3. /\ ui = [list |-> [r \in List!Rec |-> 0], listQuery |-> 0, of |-> 0, newest |-> 1,
               loading |-> TRUE, failed |-> FALSE, query |-> 0, asked |-> 0,
               open |-> List!None, shown |-> 0, beside |-> List!None, form |-> List!NoForm, flags |-> {}]
      /\ net = [load |-> [n \in List!Loads |-> IF n = 1 THEN first ELSE List!NoLoad],
                call |-> [c \in List!Slots |-> List!NoCall], fetch |-> [f \in List!Slots |-> List!NoFetch]]
      /\ db = [r \in List!Rec |-> 0]
      /\ seen = [own |-> [r \in List!Rec |-> 0], events |-> 0, crossed |-> FALSE]
    BY DEF List!Init
<1> HIDE DEF first
<1>4. ui \in ListUi /\ ui.form = List!NoForm /\ ui.newest = 1 /\ ui.of = 0 /\ ui.query = 0 /\ ui.asked = 0
    BY <1>1, <1>3, RowsAreRecords DEF ListUi
<1>5. net \in ListNet
    BY <1>1, <1>2, <1>3 DEF ListNet
<1>6. /\ \A c \in List!Slots : net.call[c] = List!NoCall
      /\ \A f \in List!Slots : net.fetch[f] = List!NoFetch
      /\ \A n \in List!Loads : net.load[n] = IF n = 1 THEN first ELSE List!NoLoad
    BY <1>3
<1>7. seen \in ListSeen /\ db \in [List!Rec -> Nat] /\ seen.events = 0
      /\ \A r \in List!Rec : seen.own[r] = 0 /\ db[r] = 0
    BY <1>0, <1>3 DEF ListSeen
<1>8. ListTypes
    BY <1>0, <1>1, <1>4, <1>5, <1>6, <1>7 DEF ListTypes
<1>9. LoadsAreCounted
    <2>1. Running = {}
        BY <1>1, <1>6 DEF Running
    <2>2. Cardinality(Running) = 0
        BY <2>1, FS_EmptySet
    <2> QED
        BY <1>4, <1>7, <2>2 DEF LoadsAreCounted
<1>10. OwnAreWritten
    BY <1>1, <1>6, <1>7 DEF OwnAreWritten
<1>11. NewestSettles
    BY <1>0, <1>1, <1>2, <1>4, <1>6 DEF NewestSettles, Settles, List!Loads
<1>12. AskedAtOnce
    BY <1>4 DEF AskedAtOnce
<1> QED
    BY <1>8, <1>9, <1>10, <1>11, <1>12 DEF ListInv

LEMMA ListStep ==
    ASSUME ListInv, List!Next \/ UNCHANGED <<page, ui, net, db, seen>>
    PROVE  ListInv'
<1>1. CASE UNCHANGED <<page, ui, net, db, seen>>
    <2>1. ListTypes'
        BY <1>1, ListFrame, ListTyped, SamePage DEF ListInv, ListTypes, CallOk, FetchesOk
    <2> QED
        BY <1>1, <2>1, ListFrame, ListWaits DEF ListInv, LoadsAreCounted, OwnAreWritten, Running
<1>2. ASSUME NEW h \in List!P.handlers, List!Handle(h) PROVE ListInv'
    BY <1>2, FormsKeep, PressKeeps, ConfirmKeeps, CallsAreServed, SuccessesKeep, FailuresKeep
       DEF List!Handle
<1> QED
    BY <1>1, <1>2, FormsKeep, DetailsKeep, FetchesKeep, LoadsBegin, LoadsAreServed, AnswersKeep
       DEF List!Next

\* When nothing is on its way, the newest load has come to an end.
LEMMA SettledListKeepsUp == ListInv => List!ListKeepsUp
<1> SUFFICES ASSUME ListInv, List!Quiet, ~ui.failed, List!P.guarded \/ ~seen.crossed
             PROVE  /\ ui.listQuery = ui.asked /\ AskedAtOnce
                    /\ \A r \in List!Rec : ui.list[r] >= seen.own[r]
    BY DEF List!ListKeepsUp, AskedAtOnce
<1>1. net.load[ui.newest].at \in {"idle", "done"}
    BY NewestIsALoad DEF List!Quiet, List!Pending
<1>2. Settles(net.load[ui.newest])
    BY DEF ListInv, NewestSettles
<1>3. ui.listQuery = ui.asked /\ \A r \in List!Rec : seen.own[r] <= ui.list[r]
    BY <1>1, <1>2 DEF Settles
<1> QED
    BY <1>3, ListParts DEF ListInv

\* A call that names the version it is based on names the one its author was shown.
LEMMA EditsAreOfTheLatest ==
    ASSUME ListInv, List!Next
    PROVE  List!EditsTheLatest
<1> USE ListFrame
<1> SUFFICES ASSUME NEW c \in List!Slots, NEW h \in List!P.handlers,
                    h.checks, net.call[c].name = h.name, net.call[c].at = "sent",
                    net'.call[c] # net.call[c],
                    db'[net.call[c].rec] > db[net.call[c].rec]
             PROVE  db[net.call[c].rec] = net.call[c].read
    BY DEF List!EditsTheLatest
<1>0. db' # db
    BY RunningHandler, ListParts
<1>1. CASE \/ List!EditFilter \/ List!ChangeQuery \/ List!Reload
           \/ List!CloseDrawer \/ List!CloseForm
    BY <1>0, <1>1 DEF List!EditFilter, List!ChangeQuery, List!Reload, List!CloseDrawer, List!CloseForm
<1>2. ASSUME NEW n \in List!Loads, List!ServeLoad(n) \/ List!AnswerLoad(n) PROVE FALSE
    BY <1>0, <1>2 DEF List!ServeLoad, List!AnswerLoad
<1>3. ASSUME NEW r \in Record, List!Open(r) \/ List!Foreign(r) PROVE FALSE
    BY <1>0, <1>3 DEF List!Open, List!Foreign
<1>4. ASSUME NEW f \in List!Slots, List!AnswerFetch(f) PROVE FALSE
    BY <1>0, <1>4 DEF List!AnswerFetch
<1>5. ASSUME NEW g \in List!P.handlers, List!Handle(g)
      PROVE  db[net.call[c].rec] = net.call[c].read
    <2>1. PICK d \in List!Slots : List!ServeCall(g, d)
        <3>1. List!OpenForm(g) => db' = db
            BY SMTT(30) DEF List!OpenForm
        <3>2. ASSUME NEW d \in List!Slots, \/ List!Press(g, d) \/ List!Confirm(g, d)
                                          \/ List!Succeed(g, d) \/ List!Fail(g, d)
              PROVE  db' = db
            BY <3>2 DEF List!Press, List!Confirm, List!Succeed, List!Fail
        <3>3. \E d \in List!Slots : \/ List!Press(g, d) \/ List!Confirm(g, d) \/ List!ServeCall(g, d)
                                   \/ List!Succeed(g, d) \/ List!Fail(g, d)
            BY <1>0, <1>5, <3>1, Zenon DEF List!Handle
        <3> QED
            BY <1>0, <3>2, <3>3, Zenon
    <2>2. \A e \in List!Slots : e # d => net'.call[e] = net.call[e]
        <3> SUFFICES ASSUME NEW e \in List!Slots, e # d PROVE net'.call[e] = net.call[e]
            OBVIOUS
        <3>1. ASSUME net' = [net EXCEPT !.call[d].at = "refused"] PROVE net'.call[e] = net.call[e]
            BY <3>1, ListParts DEF ListNet
        <3>2. ASSUME NEW at \in {"ok", "refused"},
                     net' = [net EXCEPT !.call[d].at = at, !.call[d].ver = db'[net.call[d].rec]]
              PROVE  net'.call[e] = net.call[e]
            <4> DEFINE ver == db'[net.call[d].rec]
            <4>1. net' = [net EXCEPT !.call[d].at = at, !.call[d].ver = ver]
                BY <3>2
            <4> HIDE DEF ver
            <4> QED
                BY <4>1, ListParts DEF ListNet
        <3> QED
            BY <2>1, <3>1, <3>2 DEF List!ServeCall
    <2>3. c = d
        BY <2>2
    <2>4. g = h
        BY <2>1, <2>3 DEF List!ServeCall, GoodControls
    <2>5. List!Accepts(h, net.call[c])
        BY <1>0, <2>1, <2>3, <2>4 DEF List!ServeCall
    <2>6. net.call[c].base = net.call[c].read
        BY RunningHandler DEF CallOk, List!Pending
    <2> QED
        BY <2>5, <2>6 DEF List!Accepts
<1> QED
    BY <1>1, <1>2, <1>3, <1>4, <1>5 DEF List!Next

LEMMA ListTyping == ListInv => List!TypeOK
<1> SUFFICES ASSUME ListInv PROVE List!TypeOK
    OBVIOUS
<1> USE ListFrame, ListParts
<1>1. ui.newest \in List!Loads /\ ui.of \in 0 .. ui.newest
    BY NewestIsALoad DEF ListInv, NewestSettles
<1>2. ui.form.name \in {List!None} \cup {h.name : h \in List!P.handlers}
    BY DEF FormRecord, Names, List!None
<1>3. ui.flags \subseteq {h.flag : h \in List!P.handlers} \X (List!Rec \cup {"all"})
    BY DEF Flags
<1>4. /\ \A n \in List!Loads : net.load[n].at \in {"idle", "sent", "served", "lost", "done"}
      /\ \A c \in List!Slots : net.call[c].rec \in List!Rec \cup {List!None}
      /\ \A f \in List!Slots : net.fetch[f].rec \in Record \cup {List!None}
    BY DEF LoadRecord, CallRecord, FetchRecord, RecOrNone, RowOrNone, List!None
<1>5. page \in DOMAIN List!PageOf
    BY DEF ListTypes, Lists
<1>6. /\ ui.query \in {0, 1} /\ ui.asked \in {0, 1} /\ ui.listQuery \in {0, 1} /\ ui.loading \in BOOLEAN
      /\ ui.failed \in BOOLEAN /\ ui.open \in Record \cup {List!None} /\ ui.beside \in Record \cup {List!None}
    BY DEF ListUi, RowOrNone, List!None
<1> QED
    BY <1>1, <1>2, <1>3, <1>4, <1>5, <1>6 DEF List!TypeOK
-----------------------------------------------------------------------------
(* The dialog of the assistant.                                            *)

SubmissionRecord ==
    [does : {"none", "inline", "template", "both"}, step : {"none", "template", "run", "apply"},
     at : {"idle", "sent", "ok", "failed"}, items : BOOLEAN, target : Authoring!Target,
     disturbed : BOOLEAN]

AuthoringTypes ==
    /\ ui \in [screen : Authoring!Screen, open : BOOLEAN, stage : {"input", "result"}, prompt : BOOLEAN,
               items : BOOLEAN, target : Authoring!Target, generating : BOOLEAN, submitting : BOOLEAN]
    /\ net \in [generating : BOOLEAN, options : BOOLEAN, call : SubmissionRecord,
                events : 0 .. MaxAuthoringEvent]
    /\ db \in [runs : Nat, templates : Nat, failed : Nat, quiet : Nat]

\* The run, and the template, that the submission has created and has not used yet.
RunInHand(a) ==
    \/ a.step = "run" /\ a.at = "ok"
    \/ a.step = "apply" /\ a.target = Authoring!NewRun /\ a.at \in {"sent", "failed"}
TemplateInHand(a) ==
    a.does = "both" /\ \/ a.step = "template" /\ a.at = "ok"
                       \/ a.step = "run"
                       \/ a.step = "apply" /\ a.at \in {"sent", "failed"}
Counted(inHand, left, told) == IF inHand THEN left >= 1 /\ left <= told + 1 ELSE left <= told

\* The steps of a submission are those of its button. One that both saves and applies
\* knows where the steps go, unless the dialog was disturbed.
Proceeds(a) ==
    /\ a.does = "none" <=> a = Authoring!NoCall
    /\ a.does = "none" <=> ~ui.submitting
    /\ a.does = "template" => a.step = "template"
    /\ a.does = "inline" => a.step \in {"run", "apply"}
    /\ a.does = "both" => a.step # "none"
    /\ a.does = "both" /\ ~a.disturbed => Authoring!TargetReady
    /\ a.step = "run" => a.target = Authoring!NewRun

AuthoringInv ==
    /\ AuthoringTypes
    /\ ui.screen # "runs" => ui.target = Authoring!NoTarget /\ ~net.options
    /\ Proceeds(net.call)
    /\ Counted(RunInHand(net.call), db.runs, db.failed)
    /\ Counted(TemplateInHand(net.call), db.templates, db.failed + db.quiet)

LEMMA AuthoringInit == Authoring!Init => AuthoringInv
<1> SUFFICES ASSUME Authoring!Init PROVE AuthoringInv
    OBVIOUS
<1>1. /\ Authoring!NoCall \in SubmissionRecord /\ Authoring!NoCall.does = "none"
      /\ ~RunInHand(Authoring!NoCall) /\ ~TemplateInHand(Authoring!NoCall)
      /\ Authoring!NoCall.step = "none"
    BY DEF Authoring!NoCall, SubmissionRecord, RunInHand, TemplateInHand, Authoring!Target
<1>2. /\ ui.screen \in Authoring!Screen /\ ui.target = Authoring!NoTarget /\ ui.submitting = FALSE
      /\ ui \in [screen : Authoring!Screen, open : BOOLEAN, stage : {"input", "result"}, prompt : BOOLEAN,
                 items : BOOLEAN, target : Authoring!Target, generating : BOOLEAN, submitting : BOOLEAN]
    BY DEF Authoring!Init, Authoring!Target
<1>3. /\ net = [generating |-> FALSE, options |-> FALSE, call |-> Authoring!NoCall, events |-> 0]
      /\ db = [runs |-> 0, templates |-> 0, failed |-> 0, quiet |-> 0] /\ MaxAuthoringEvent \in Nat
    BY Bounds DEF Authoring!Init
<1>4. AuthoringTypes
    BY <1>1, <1>2, <1>3 DEF AuthoringTypes
<1> QED
    BY <1>1, <1>2, <1>3, <1>4 DEF AuthoringInv, Proceeds, Counted

\* The dialog changes while the submission stays as it is, but for the mark that it was
\* disturbed, which a change of the target makes.
LEMMA DialogKeeps ==
    ASSUME AuthoringInv, AuthoringTypes', UNCHANGED db,
           ui'.screen = ui.screen, ui'.submitting = ui.submitting,
           ui.screen # "runs" => ui'.target = Authoring!NoTarget /\ ~net'.options,
           \/ net'.call = net.call /\ (ui'.target = ui.target \/ net.call.does = "none")
           \/ net.call.does # "none" /\ net'.call = [net.call EXCEPT !.disturbed = TRUE]
    PROVE  AuthoringInv'
<1> DEFINE a == net.call
           new == net'.call
<1>1. a \in SubmissionRecord /\ new \in SubmissionRecord
    BY DEF AuthoringInv, AuthoringTypes
<1>2. /\ new.does = a.does /\ new.step = a.step /\ new.at = a.at /\ new.target = a.target
      /\ new.disturbed \/ new = a
      /\ a.does = "none" => new = a
    BY <1>1 DEF SubmissionRecord
<1>3. a.does = "both" /\ ~new.disturbed => ui'.target = ui.target
    BY <1>1, <1>2 DEF SubmissionRecord
<1>4. a.does = "none" <=> a = Authoring!NoCall
    BY DEF AuthoringInv, Proceeds
<1>5. new.does = "none" <=> new = Authoring!NoCall
    BY <1>2, <1>4 DEF Authoring!NoCall
<1> HIDE DEF a, new
<1>6. Proceeds(net.call)'
    <2>1. (net.call)' = new
        BY DEF new
    <2>2. Proceeds(a)
        BY DEF AuthoringInv, a
    <2> QED
        BY <1>2, <1>3, <1>5, <2>1, <2>2 DEF Proceeds, Authoring!TargetReady
<1>7. (RunInHand(new) <=> RunInHand(a)) /\ (TemplateInHand(new) <=> TemplateInHand(a))
    BY <1>2 DEF RunInHand, TemplateInHand
<1> QED
    BY <1>6, <1>7 DEF AuthoringInv, Counted, a, new

\* The answer of the assistant and every action of the user on the dialog.
LEMMA DialogMoves ==
    ASSUME AuthoringInv,
           \/ Authoring!Open \/ Authoring!AnswerOptions \/ Authoring!Close \/ Authoring!Reset
           \/ Authoring!Type \/ Authoring!BackToEdit \/ Authoring!Generate \/ Authoring!AnswerGeneration
           \/ \E target \in Authoring!Target \ {Authoring!NoTarget} : Authoring!Select(target)
    PROVE  AuthoringInv'
<1> USE Bounds DEF AuthoringTypes, Authoring!Event, Authoring!Target
<1>0. /\ AuthoringTypes /\ MaxAuthoringEvent \in Nat
      /\ ui.screen # "runs" => ui.target = Authoring!NoTarget /\ ~net.options
      /\ net.call.does \in {"none", "inline", "template", "both"}
    BY DEF AuthoringInv, SubmissionRecord
<1> DEFINE more == Authoring!Spent(net)
           told == IF net.call.does = "none" THEN net ELSE [net EXCEPT !.call = [net.call EXCEPT !.disturbed = TRUE]]
<1>1. /\ Authoring!Disturbed(net) = told
      /\ told.generating = net.generating /\ told.options = net.options /\ told.events = net.events
      /\ told \in [generating : BOOLEAN, options : BOOLEAN, call : SubmissionRecord,
                   events : 0 .. MaxAuthoringEvent]
      /\ \/ told.call = net.call /\ net.call.does = "none"
         \/ net.call.does # "none" /\ told.call = [net.call EXCEPT !.disturbed = TRUE]
    <2>1. CASE net.call.does = "none"
        <3>1. (net.call.disturbed \/ net.call.does # "none") = net.call.disturbed
            BY <1>0, <2>1 DEF SubmissionRecord
        <3> QED
            BY <1>0, <2>1, <3>1 DEF Authoring!Disturbed, SubmissionRecord
    <2>2. CASE net.call.does # "none"
        <3>1. (net.call.disturbed \/ net.call.does # "none") = TRUE
            BY <1>0, <2>2 DEF SubmissionRecord
        <3>2. [net.call EXCEPT !.disturbed = TRUE] \in SubmissionRecord
            BY <1>0 DEF SubmissionRecord
        <3> QED
            BY <1>0, <2>2, <3>1, <3>2 DEF Authoring!Disturbed
    <2> QED
        BY <2>1, <2>2
<1>e. Authoring!Event =>
        /\ more \in [generating : BOOLEAN, options : BOOLEAN, call : SubmissionRecord,
                    events : 0 .. MaxAuthoringEvent]
        /\ more.generating = net.generating /\ more.options = net.options /\ more.call = net.call
    BY <1>0 DEF Authoring!Spent
<1> HIDE DEF told, more
<1>2. CASE Authoring!Open
    <2>1. PICK b \in BOOLEAN : net' = [more EXCEPT !.options = b] /\ (ui.screen # "runs" => b = FALSE)
        <3>1. net' = [more EXCEPT !.options = more.options \/ ui.screen = "runs"]
            BY <1>2, Zenon DEF Authoring!Open, more
        <3>2. more.options = net.options /\ net.options \in BOOLEAN
            BY <1>0, <1>2, <1>e DEF Authoring!Open
        <3> QED
            BY <1>0, <3>1, <3>2
    <2> QED
        BY <1>0, <1>2, <1>e, <2>1, DialogKeeps DEF Authoring!Open
<1>3. CASE Authoring!AnswerOptions
    <2>1. UNCHANGED db /\ net.options /\ net' = [told EXCEPT !.options = FALSE]
        BY <1>1, <1>3 DEF Authoring!AnswerOptions
    <2>2. PICK target \in Authoring!Target : ui' = [ui EXCEPT !.target = target]
        BY <1>3 DEF Authoring!AnswerOptions
    <2>3. ui.screen = "runs"
        BY <1>0, <2>1
    <2>4. AuthoringTypes' /\ ui'.screen = ui.screen /\ ui'.submitting = ui.submitting
        BY <1>0, <1>1, <2>1, <2>2
    <2>5. net'.call = told.call
        BY <1>1, <2>1
    <2> HIDE DEF AuthoringTypes, Authoring!Target
    <2> QED
        BY <1>1, <2>1, <2>2, <2>3, <2>4, <2>5, DialogKeeps
<1>4. CASE Authoring!Close \/ Authoring!BackToEdit
    BY <1>0, <1>4, DialogKeeps, ZenonT(40) DEF Authoring!Close, Authoring!BackToEdit
<1>5. CASE Authoring!Reset
    BY <1>0, <1>1, <1>5, DialogKeeps DEF Authoring!Reset
<1>6. CASE Authoring!Type
    <2>1. PICK b \in BOOLEAN : ui' = [ui EXCEPT !.prompt = b]
        BY <1>0, <1>6 DEF Authoring!Type
    <2>2. net' = more /\ UNCHANGED db /\ Authoring!Event
        BY <1>6 DEF Authoring!Type, more
    <2> QED
        BY <1>0, <1>e, <2>1, <2>2, DialogKeeps
<1>7. CASE Authoring!Generate
    <2>1. net' = [more EXCEPT !.generating = TRUE]
        BY <1>7 DEF Authoring!Generate, more
    <2> QED
        BY <1>0, <1>7, <1>e, <2>1, DialogKeeps DEF Authoring!Generate
<1>8. CASE Authoring!AnswerGeneration
    <2>1. CASE net' = [told EXCEPT !.generating = FALSE]
        <3>1. /\ UNCHANGED db
              /\ \/ ui' = [ui EXCEPT !.generating = FALSE, !.items = TRUE, !.stage = "result"]
                 \/ ui' = [ui EXCEPT !.generating = FALSE]
            BY <1>8 DEF Authoring!AnswerGeneration
        <3>4. /\ ui' \in [screen : Authoring!Screen, open : BOOLEAN, stage : {"input", "result"},
                           prompt : BOOLEAN, items : BOOLEAN, target : Authoring!Target,
                           generating : BOOLEAN, submitting : BOOLEAN]
              /\ ui'.screen = ui.screen /\ ui'.submitting = ui.submitting /\ ui'.target = ui.target
            <4>1. ui \in [screen : Authoring!Screen, open : BOOLEAN, stage : {"input", "result"},
                          prompt : BOOLEAN, items : BOOLEAN, target : Authoring!Target,
                          generating : BOOLEAN, submitting : BOOLEAN]
                BY <1>0
            <4> HIDE DEF AuthoringTypes, Authoring!Target
            <4>2. CASE ui' = [ui EXCEPT !.generating = FALSE]
                BY <4>1, <4>2
            <4>3. CASE ui' = [ui EXCEPT !.generating = FALSE, !.items = TRUE, !.stage = "result"]
                BY <4>1, <4>3
            <4> QED
                BY <3>1, <4>2, <4>3
        <3>5. net' \in [generating : BOOLEAN, options : BOOLEAN, call : SubmissionRecord,
                        events : 0 .. MaxAuthoringEvent]
            BY <1>1, <2>1
        <3>2. AuthoringTypes' /\ ui'.screen = ui.screen /\ ui'.submitting = ui.submitting
              /\ ui'.target = ui.target
            BY <1>0, <3>1, <3>4, <3>5
        <3>3. net'.call = told.call /\ net'.options = net.options
            BY <1>1, <2>1
        <3> HIDE DEF AuthoringTypes, Authoring!Target
        <3> QED
            BY <1>0, <1>1, <3>1, <3>2, <3>3, DialogKeeps
    <2>2. CASE ui' = [ui EXCEPT !.generating = FALSE] /\ net' = [net EXCEPT !.generating = FALSE]
        <3>1. UNCHANGED db
            BY <1>8 DEF Authoring!AnswerGeneration
        <3> QED
            BY <1>0, <2>2, <3>1, DialogKeeps
    <2> QED
        BY <1>1, <1>8, <2>1, <2>2 DEF Authoring!AnswerGeneration
<1>9. ASSUME NEW target \in Authoring!Target \ {Authoring!NoTarget}, Authoring!Select(target)
      PROVE  AuthoringInv'
    BY <1>0, <1>1, <1>9, DialogKeeps DEF Authoring!Select
<1> QED
    BY <1>2, <1>3, <1>4, <1>5, <1>6, <1>7, <1>8, <1>9

\* The submission goes from one step to another.
LEMMA SubmissionKeeps ==
    ASSUME AuthoringInv, AuthoringTypes', ui'.screen = ui.screen, ui'.target = ui.target,
           net'.options = net.options, NEW new \in SubmissionRecord, net'.call = new,
           new.does = "none" <=> new = Authoring!NoCall,
           new.does = "none" <=> ~ui'.submitting,
           new.does = "template" => new.step = "template",
           new.does = "inline" => new.step \in {"run", "apply"},
           new.does = "both" => new.step # "none",
           new.does = "both" /\ ~new.disturbed => Authoring!TargetReady,
           new.step = "run" => new.target = Authoring!NewRun,
           Counted(RunInHand(new), db'.runs, db'.failed),
           Counted(TemplateInHand(new), db'.templates, db'.failed + db'.quiet)
    PROVE  AuthoringInv'
<1>1. Proceeds(net.call)'
    BY DEF Proceeds, Authoring!TargetReady
<1> QED
    BY <1>1 DEF AuthoringInv, RunInHand, TemplateInHand, Counted

LEMMA PressesKeep ==
    ASSUME AuthoringInv, NEW does \in {"inline", "template", "both"}, Authoring!Press(does)
    PROVE  AuthoringInv'
<1> DEFINE more == Authoring!Spent(net)
           new == [Authoring!NoCall EXCEPT !.does = does, !.step = Authoring!StepsOf(does), !.at = "sent",
                                           !.items = ui.items, !.target = ui.target]
<1>0. AuthoringTypes /\ MaxAuthoringEvent \in Nat /\ ui.submitting = FALSE /\ UNCHANGED db
      /\ ui' = [ui EXCEPT !.submitting = TRUE] /\ net' = [more EXCEPT !.call = new]
      /\ (does \in {"inline", "both"} => Authoring!TargetReady)
    BY Bounds DEF AuthoringInv, AuthoringTypes, Authoring!Press
<1>1. more \in [generating : BOOLEAN, options : BOOLEAN, call : SubmissionRecord,
                events : 0 .. MaxAuthoringEvent] /\ more.options = net.options
    BY <1>0 DEF Authoring!Spent, Authoring!Press, Authoring!Event, AuthoringTypes
<1>2. /\ new \in SubmissionRecord /\ new.does = does /\ new.step = Authoring!StepsOf(does)
      /\ new.at = "sent" /\ new.target = ui.target /\ new.disturbed = FALSE
    BY <1>0, ZenonT(40) DEF Authoring!NoCall, SubmissionRecord, AuthoringTypes, Authoring!StepsOf
<1>3. new # Authoring!NoCall
    BY <1>2 DEF Authoring!NoCall
<1> HIDE DEF more, new
<1>4. Authoring!StepsOf(does) = "apply" => ui.target # Authoring!NewRun
    BY DEF AuthoringInv, Authoring!StepsOf, Authoring!NewRun, Authoring!NoTarget
<1>5. db.runs <= db.failed /\ db.templates <= db.failed + db.quiet
    <2>1. net.call = Authoring!NoCall
        BY <1>0 DEF AuthoringInv, Proceeds
    <2>2. ~RunInHand(net.call) /\ ~TemplateInHand(net.call)
        BY <2>1 DEF RunInHand, TemplateInHand, Authoring!NoCall
    <2> QED
        BY <2>2 DEF AuthoringInv, Counted
<1>6. ~RunInHand(new) /\ ~TemplateInHand(new)
    BY <1>2, <1>4 DEF RunInHand, TemplateInHand, Authoring!StepsOf
<1>8. /\ Counted(RunInHand(new), db'.runs, db'.failed)
      /\ Counted(TemplateInHand(new), db'.templates, db'.failed + db'.quiet)
    BY <1>0, <1>5, <1>6 DEF Counted
<1>7. AuthoringTypes' /\ ui'.screen = ui.screen /\ ui'.target = ui.target /\ net'.options = net.options
      /\ net'.call = new /\ ui'.submitting = TRUE
    BY <1>0, <1>1, <1>2 DEF AuthoringTypes
<1> QED
    BY <1>0, <1>2, <1>3, <1>7, <1>8, SubmissionKeeps DEF Authoring!StepsOf

LEMMA SubmissionsAreServed ==
    ASSUME AuthoringInv, Authoring!Serve
    PROVE  AuthoringInv'
<1> DEFINE a == net.call
<1>0. /\ AuthoringTypes /\ a \in SubmissionRecord /\ a.at = "sent" /\ UNCHANGED ui
      /\ Proceeds(a) /\ Counted(RunInHand(a), db.runs, db.failed)
      /\ Counted(TemplateInHand(a), db.templates, db.failed + db.quiet)
      /\ a.does # "none"
    BY DEF AuthoringInv, AuthoringTypes, Authoring!Serve, Proceeds, Authoring!NoCall
<1>1. ASSUME NEW at \in {"ok", "failed"}, net' = [net EXCEPT !.call.at = at],
             db' \in [runs : Nat, templates : Nat, failed : Nat, quiet : Nat],
             Counted(RunInHand([a EXCEPT !.at = at]), db'.runs, db'.failed),
             Counted(TemplateInHand([a EXCEPT !.at = at]), db'.templates, db'.failed + db'.quiet)
      PROVE  AuthoringInv'
    <2> DEFINE new == [a EXCEPT !.at = at]
    <2>1. /\ new \in SubmissionRecord /\ new.does = a.does /\ new.step = a.step /\ new.target = a.target
          /\ new.disturbed = a.disturbed
        BY <1>0 DEF SubmissionRecord
    <2>2. net' = [net EXCEPT !.call = new]
        BY <1>1
    <2> HIDE DEF new, a
    <2>3. new # Authoring!NoCall
        BY <1>0, <2>1 DEF Authoring!NoCall
    <2>4. AuthoringTypes' /\ net'.call = new /\ net'.options = net.options
        BY <1>0, <1>1, <2>1, <2>2 DEF AuthoringTypes
    <2> QED
        BY <1>0, <1>1, <2>1, <2>3, <2>4, SubmissionKeeps DEF Proceeds, new
<1>2. CASE net' = [net EXCEPT !.call.at = "failed"] /\ db' = db
    <2>1. /\ RunInHand([a EXCEPT !.at = "failed"]) <=> RunInHand(a)
          /\ TemplateInHand([a EXCEPT !.at = "failed"]) <=> TemplateInHand(a)
        BY <1>0 DEF RunInHand, TemplateInHand, SubmissionRecord
    <2> QED
        BY <1>0, <1>1, <1>2, <2>1 DEF AuthoringTypes, Counted
<1>3. CASE /\ net' = [net EXCEPT !.call.at = "ok"]
           /\ db' = CASE a.step = "template" ->
                            [db EXCEPT !.templates = @ + (IF a.does = "both" THEN 1 ELSE 0)]
                     [] a.step = "run" -> [db EXCEPT !.runs = @ + 1]
                     [] OTHER -> [db EXCEPT !.runs = @ - (IF a.target = Authoring!NewRun THEN 1 ELSE 0),
                                            !.templates = @ - (IF a.does = "both" THEN 1 ELSE 0)]
    <2> DEFINE new == [a EXCEPT !.at = "ok"]
    <2>1. /\ new.does = a.does /\ new.step = a.step /\ new.target = a.target /\ new.at = "ok"
          /\ a.step \in {"template", "run", "apply"}
        BY <1>0 DEF SubmissionRecord, Proceeds
    <2>2. db \in [runs : Nat, templates : Nat, failed : Nat, quiet : Nat]
        BY <1>0 DEF AuthoringTypes
    <2> HIDE DEF a, new
    <2>3. CASE a.step = "template"
        <3>1. db' = [db EXCEPT !.templates = @ + (IF a.does = "both" THEN 1 ELSE 0)]
            BY <1>3, <2>3
        <3>2. ~RunInHand(a) /\ ~TemplateInHand(a) /\ ~RunInHand(new) /\ (TemplateInHand(new) <=> a.does = "both")
            BY <1>0, <2>1, <2>3 DEF RunInHand, TemplateInHand
        <3>3. /\ db' \in [runs : Nat, templates : Nat, failed : Nat, quiet : Nat]
              /\ Counted(RunInHand(new), db'.runs, db'.failed)
              /\ Counted(TemplateInHand(new), db'.templates, db'.failed + db'.quiet)
            BY <1>0, <2>2, <3>1, <3>2 DEF Counted
        <3> QED
            BY <1>1, <1>3, <3>3 DEF new, a
    <2>4. CASE a.step = "run"
        <3>1. db' = [db EXCEPT !.runs = @ + 1]
            BY <1>3, <2>4
        <3>2. ~RunInHand(a) /\ RunInHand(new) /\ (TemplateInHand(new) <=> TemplateInHand(a))
            BY <1>0, <2>1, <2>4 DEF RunInHand, TemplateInHand
        <3>3. /\ db' \in [runs : Nat, templates : Nat, failed : Nat, quiet : Nat]
              /\ Counted(RunInHand(new), db'.runs, db'.failed)
              /\ Counted(TemplateInHand(new), db'.templates, db'.failed + db'.quiet)
            BY <1>0, <2>2, <3>1, <3>2 DEF Counted
        <3> QED
            BY <1>1, <1>3, <3>3 DEF new, a
    <2>5. CASE a.step = "apply"
        <3> DEFINE r == IF a.target = Authoring!NewRun THEN 1 ELSE 0
                   t == IF a.does = "both" THEN 1 ELSE 0
        <3>1. db' = [db EXCEPT !.runs = @ - r, !.templates = @ - t]
            BY <1>3, <2>5
        <3>2. /\ r \in {0, 1} /\ t \in {0, 1} /\ (RunInHand(a) <=> r = 1) /\ (TemplateInHand(a) <=> t = 1)
              /\ ~RunInHand(new) /\ ~TemplateInHand(new)
            BY <1>0, <2>1, <2>5 DEF RunInHand, TemplateInHand
        <3> HIDE DEF r, t
        <3>3. /\ db.runs - r \in Nat /\ db.runs - r <= db.failed
              /\ db.templates - t \in Nat /\ db.templates - t <= db.failed + db.quiet
            BY <1>0, <2>2, <3>2 DEF Counted
        <3>4. /\ db' \in [runs : Nat, templates : Nat, failed : Nat, quiet : Nat]
              /\ Counted(RunInHand(new), db'.runs, db'.failed)
              /\ Counted(TemplateInHand(new), db'.templates, db'.failed + db'.quiet)
            BY <2>2, <3>1, <3>2, <3>3 DEF Counted
        <3> QED
            BY <1>1, <1>3, <3>4 DEF new, a
    <2> QED
        BY <2>1, <2>3, <2>4, <2>5
<1> QED
    BY <1>2, <1>3 DEF Authoring!Serve

\* The submission ends: nothing it has created is left over but for a failure that is
\* told, or after it was disturbed.
LEMMA SubmissionEnds ==
    ASSUME AuthoringInv, Authoring!Ended, NEW u, AuthoringTypes', u.screen = ui.screen, u.target = ui.target,
           u.submitting = FALSE, ui' = u,
           db'.runs <= db'.failed, db'.templates <= db'.failed + db'.quiet
    PROVE  AuthoringInv'
<1>1. /\ Authoring!NoCall \in SubmissionRecord /\ Authoring!NoCall.does = "none"
      /\ ~RunInHand(Authoring!NoCall) /\ ~TemplateInHand(Authoring!NoCall)
      /\ Authoring!NoCall.step = "none"
    BY DEF Authoring!NoCall, SubmissionRecord, RunInHand, TemplateInHand, Authoring!Target
<1>2. net'.call = Authoring!NoCall /\ net'.options = net.options
    BY DEF Authoring!Ended, AuthoringInv, AuthoringTypes
<1>3. /\ Counted(RunInHand(Authoring!NoCall), db'.runs, db'.failed)
      /\ Counted(TemplateInHand(Authoring!NoCall), db'.templates, db'.failed + db'.quiet)
    BY <1>1 DEF Counted
<1> QED
    BY <1>1, <1>2, <1>3, SubmissionKeeps

LEMMA AnswersProceed ==
    ASSUME AuthoringInv,
           Authoring!AfterTemplate \/ Authoring!AfterRun \/ Authoring!AfterApply \/ Authoring!AfterFailure
    PROVE  AuthoringInv'
<1> DEFINE a == net.call
<1>0. /\ AuthoringTypes /\ a \in SubmissionRecord
      /\ Proceeds(a) /\ Counted(RunInHand(a), db.runs, db.failed)
      /\ Counted(TemplateInHand(a), db.templates, db.failed + db.quiet)
      /\ ui.screen # "runs" => ui.target = Authoring!NoTarget
      /\ ui.target \in Authoring!Target
    BY DEF AuthoringInv, AuthoringTypes
<1>1. ASSUME Authoring!Ended
      PROVE  net' \in [generating : BOOLEAN, options : BOOLEAN, call : SubmissionRecord,
                       events : 0 .. MaxAuthoringEvent]
    BY <1>0, <1>1 DEF Authoring!Ended, AuthoringTypes, Authoring!NoCall, SubmissionRecord, Authoring!Target
<1>2. ASSUME NEW c \in SubmissionRecord, NEW step \in {"run", "apply"}, Authoring!Continue(c, step),
             c.does = a.does, c.disturbed = a.disturbed, a.does \in {"inline", "both"},
             step = "run" => c.target = Authoring!NewRun,
             RunInHand(a) <=> step = "apply" /\ c.target = Authoring!NewRun,
             TemplateInHand(a) <=> a.does = "both"
      PROVE  AuthoringInv'
    <2> DEFINE new == [c EXCEPT !.step = step, !.at = "sent"]
    <2>1. /\ new \in SubmissionRecord /\ new.does = c.does /\ new.step = step /\ new.at = "sent"
          /\ new.target = c.target /\ new.disturbed = c.disturbed
        BY DEF SubmissionRecord
    <2>2. net' = [net EXCEPT !.call = new] /\ UNCHANGED <<ui, db>>
        BY <1>2 DEF Authoring!Continue
    <2> HIDE DEF new
    <2>3. new # Authoring!NoCall
        BY <2>1 DEF Authoring!NoCall
    <2>4. AuthoringTypes' /\ net'.call = new /\ net'.options = net.options
        BY <1>0, <2>1, <2>2 DEF AuthoringTypes
    <2>5. (RunInHand(new) <=> RunInHand(a)) /\ (TemplateInHand(new) <=> TemplateInHand(a))
        BY <1>2, <2>1 DEF RunInHand, TemplateInHand
    <2>6. /\ Counted(RunInHand(new), db'.runs, db'.failed)
          /\ Counted(TemplateInHand(new), db'.templates, db'.failed + db'.quiet)
        BY <1>0, <2>2, <2>5 DEF Counted
    <2>7. new.does # "none" /\ ui'.submitting = TRUE /\ ui'.screen = ui.screen /\ ui'.target = ui.target
        BY <1>0, <1>2, <2>1, <2>2 DEF Proceeds, AuthoringTypes
    <2> HIDE DEF a
    <2>8. /\ new.does = "inline" => new.step \in {"run", "apply"}
          /\ new.does # "template" /\ new.step # "none"
          /\ new.step = "run" => new.target = Authoring!NewRun
          /\ new.does = "both" /\ ~new.disturbed => Authoring!TargetReady
        BY <1>0, <1>2, <2>1 DEF Proceeds
    <2> QED
        BY <2>1, <2>3, <2>4, <2>6, <2>7, <2>8, SubmissionKeeps
<1>3. CASE Authoring!AfterTemplate
    <2>0. a.step = "template" /\ a.at = "ok" /\ ~RunInHand(a) /\ (TemplateInHand(a) <=> a.does = "both")
        BY <1>3 DEF Authoring!AfterTemplate, RunInHand, TemplateInHand
    <2>1. CASE /\ a.does = "template" /\ ui' = Authoring!End([ui EXCEPT !.open = FALSE])
               /\ Authoring!Ended /\ UNCHANGED db
        <3>1. db.runs <= db.failed /\ db.templates <= db.failed + db.quiet
            BY <1>0, <2>0, <2>1 DEF Counted
        <3>2. AuthoringTypes' /\ ui'.screen = ui.screen /\ ui'.target = ui.target /\ ui'.submitting = FALSE
            BY <1>0, <1>1, <2>1 DEF Authoring!End, AuthoringTypes
        <3> QED
            BY <2>1, <3>1, <3>2, SubmissionEnds
    <2>2. CASE /\ a.does = "both" /\ Authoring!TargetReady
               /\ Authoring!Continue([a EXCEPT !.target = ui.target],
                                     IF ui.target = Authoring!NewRun THEN "run" ELSE "apply")
        <3> DEFINE c == [a EXCEPT !.target = ui.target]
        <3>1. c \in SubmissionRecord /\ c.does = a.does /\ c.disturbed = a.disturbed /\ c.target = ui.target
            BY <1>0 DEF SubmissionRecord
        <3> HIDE DEF a, c
        <3>2. CASE ui.target = Authoring!NewRun
            BY <1>2, <2>0, <2>2, <3>1, <3>2 DEF c
        <3>3. CASE ui.target # Authoring!NewRun
            BY <1>2, <2>0, <2>2, <3>1, <3>3 DEF c
        <3> QED
            BY <3>2, <3>3
    <2>3. CASE /\ a.does = "both" /\ ~Authoring!TargetReady /\ ui' = Authoring!End(ui)
               /\ Authoring!Ended /\ db' = [db EXCEPT !.quiet = @ + (IF a.disturbed THEN 1 ELSE 0)]
        <3>1. a.disturbed
            BY <1>0, <2>3 DEF Proceeds
        <3>2. db' = [db EXCEPT !.quiet = @ + 1]
            BY <2>3, <3>1
        <3>3. /\ db' \in [runs : Nat, templates : Nat, failed : Nat, quiet : Nat]
              /\ db'.runs <= db'.failed /\ db'.templates <= db'.failed + db'.quiet
            BY <1>0, <2>0, <2>3, <3>2 DEF Counted, AuthoringTypes
        <3>4. AuthoringTypes' /\ ui'.screen = ui.screen /\ ui'.target = ui.target /\ ui'.submitting = FALSE
            BY <1>0, <1>1, <2>3, <3>3 DEF Authoring!End, AuthoringTypes
        <3> QED
            BY <2>3, <3>3, <3>4, SubmissionEnds
    <2> QED
        BY <1>3, <2>1, <2>2, <2>3 DEF Authoring!AfterTemplate
<1>4. CASE Authoring!AfterRun
    <2>0. a.step = "run" /\ a.at = "ok" /\ RunInHand(a) /\ (TemplateInHand(a) <=> a.does = "both")
          /\ a.target = Authoring!NewRun /\ Authoring!Continue(Authoring!Latest(a), "apply")
        BY <1>0, <1>4 DEF Authoring!AfterRun, RunInHand, TemplateInHand, Proceeds
    <2>1. a.does \in {"inline", "both"}
        BY <1>0, <2>0 DEF Proceeds, SubmissionRecord, Authoring!NoCall
    <2> DEFINE c == Authoring!Latest(a)
    <2>2. c \in SubmissionRecord /\ c.does = a.does /\ c.disturbed = a.disturbed /\ c.target = a.target
        BY <1>0 DEF SubmissionRecord, Authoring!Latest, AuthoringTypes
    <2> HIDE DEF a, c
    <2> QED
        BY <1>2, <2>0, <2>1, <2>2 DEF c
<1>5. CASE Authoring!AfterApply
    <2>0. a.step = "apply" /\ a.at = "ok" /\ ~RunInHand(a) /\ ~TemplateInHand(a)
        BY <1>5 DEF Authoring!AfterApply, RunInHand, TemplateInHand
    <2>1. ui' = Authoring!End([ui EXCEPT !.open = FALSE]) /\ Authoring!Ended /\ UNCHANGED db
        BY <1>5 DEF Authoring!AfterApply
    <2>2. db.runs <= db.failed /\ db.templates <= db.failed + db.quiet
        BY <1>0, <2>0 DEF Counted
    <2>3. AuthoringTypes' /\ ui'.screen = ui.screen /\ ui'.target = ui.target /\ ui'.submitting = FALSE
        BY <1>0, <1>1, <2>1 DEF Authoring!End, AuthoringTypes
    <2> QED
        BY <2>1, <2>2, <2>3, SubmissionEnds
<1>6. CASE Authoring!AfterFailure
    <2>1. ui' = Authoring!End(ui) /\ Authoring!Ended /\ db' = [db EXCEPT !.failed = @ + 1]
        BY <1>6 DEF Authoring!AfterFailure, Authoring!Told
    <2>2. /\ db' \in [runs : Nat, templates : Nat, failed : Nat, quiet : Nat]
          /\ db'.runs <= db'.failed /\ db'.templates <= db'.failed + db'.quiet
        BY <1>0, <2>1 DEF Counted, AuthoringTypes
    <2>3. AuthoringTypes' /\ ui'.screen = ui.screen /\ ui'.target = ui.target /\ ui'.submitting = FALSE
        BY <1>0, <1>1, <2>1, <2>2 DEF Authoring!End, AuthoringTypes
    <2> QED
        BY <2>1, <2>2, <2>3, SubmissionEnds
<1> QED
    BY <1>3, <1>4, <1>5, <1>6

LEMMA AuthoringStep ==
    ASSUME AuthoringInv, Authoring!Next \/ UNCHANGED still
    PROVE  AuthoringInv'
<1>1. CASE UNCHANGED still
    BY <1>1 DEF still, AuthoringInv, AuthoringTypes, Proceeds, Authoring!TargetReady
<1>2. CASE Authoring!Next
    BY <1>2, DialogMoves, PressesKeep, SubmissionsAreServed, AnswersProceed DEF Authoring!Next
<1> QED
    BY <1>1, <1>2

LEMMA AuthoringSettles == AuthoringInv => Authoring!TypeOK /\ Authoring!LeftoversAreReported
<1> SUFFICES ASSUME AuthoringInv PROVE Authoring!TypeOK /\ Authoring!LeftoversAreReported
    OBVIOUS
<1>1. Authoring!TypeOK
    BY DEF AuthoringInv, AuthoringTypes, Authoring!TypeOK, SubmissionRecord, Authoring!Number
<1>2. ASSUME net.call.does = "none"
      PROVE  db.runs <= db.failed /\ db.templates <= db.failed + db.quiet
    <2>1. net.call = Authoring!NoCall
        BY <1>2 DEF AuthoringInv, Proceeds
    <2>2. ~RunInHand(net.call) /\ ~TemplateInHand(net.call)
        BY <2>1 DEF RunInHand, TemplateInHand, Authoring!NoCall
    <2> QED
        BY <2>2 DEF AuthoringInv, Counted
<1> QED
    BY <1>1, <1>2 DEF Authoring!LeftoversAreReported
-----------------------------------------------------------------------------
(* The instrument page.                                                    *)

InstrumentOrNone == Instrument \cup {Cards!None}
CommandOrNone == Command \cup {Cards!None}
RunRecord == [at : {"idle", "asking", "sent", "ok", "refused", "parsing"}, ins : InstrumentOrNone,
              cmd : CommandOrNone, params : CommandOrNone, of : Nat]
ExecRecord == [ins : InstrumentOrNone, cmd : CommandOrNone, params : CommandOrNone,
               candidate : Cards!Candidate \cup {0}]
CardsUi == [expanded : InstrumentOrNone, cmd : CommandOrNone, params : CommandOrNone,
            running : BOOLEAN, result : Nat, parsed : Nat, resultIns : InstrumentOrNone,
            form : [ins : InstrumentOrNone, value : Nat], chosen : InstrumentOrNone,
            chat : SUBSET Cards!Candidate, done : SUBSET Cards!Candidate,
            busy : SUBSET Cards!Candidate, execs : SUBSET Nat, asking : BOOLEAN]
CardsNet == [status : SUBSET Command, run : RunRecord, wish : InstrumentOrNone,
             try : [Cards!Candidate -> RunRecord],
             candidate : [Cards!Candidate -> [ins : InstrumentOrNone, cmd : CommandOrNone]],
             made : 0 .. MaxCardEvent, events : 0 .. MaxCardEvent]
CardsTypes == ui \in CardsUi /\ net \in CardsNet /\ db \in Seq(ExecRecord)

\* A command that was answered is the execution its request names, on the instrument the
\* request was for.
Carried(a) == a.at \in {"ok", "parsing"} => a.of \in 1 .. Len(db) /\ db[a.of].ins = a.ins

\* While a command runs no value is shown; the result shown is that of the command whose
\* response is being parsed, and the value shown was measured by the instrument of the panel.
Panel ==
    /\ net.run.at \in {"sent", "ok", "parsing"} => ui.parsed = 0
    /\ net.run.at = "parsing" => ui.resultIns = net.run.ins
    /\ ui.parsed # 0 => ui.parsed <= Len(db) /\ db[ui.parsed].ins = ui.resultIns

CardsInv ==
    /\ CardsTypes
    /\ Carried(net.run) /\ \A k \in Cards!Candidate : Carried(net.try[k])
    /\ ui.result <= Len(db) /\ \A n \in ui.execs : n \in 1 .. Len(db)
    /\ Panel
    /\ ui.form.value <= Len(db) /\ Cards!SavedAsMeasured

LEMMA CardsInit == Cards!Init => CardsInv
<1> SUFFICES ASSUME Cards!Init PROVE CardsInv
    OBVIOUS
<1>1. MaxCardEvent \in Nat /\ Cards!Idle \in RunRecord /\ Cards!Idle.at = "idle"
    BY Bounds DEF Cards!Idle, RunRecord, InstrumentOrNone, CommandOrNone
<1>2. ui \in CardsUi /\ ui.result = 0 /\ ui.parsed = 0 /\ ui.form.value = 0 /\ ui.execs = {}
    BY DEF Cards!Init, CardsUi, InstrumentOrNone, CommandOrNone, Cards!NoForm
<1>3. net \in CardsNet /\ net.run = Cards!Idle /\ \A k \in Cards!Candidate : net.try[k] = Cards!Idle
    BY <1>1 DEF Cards!Init, CardsNet, InstrumentOrNone, CommandOrNone, Cards!NoCandidate
<1>4. db \in Seq(ExecRecord) /\ Len(db) = 0
    BY DEF Cards!Init
<1> QED
    BY <1>1, <1>2, <1>3, <1>4 DEF CardsInv, CardsTypes, Carried, Panel, Cards!SavedAsMeasured

\* An event of the user that is counted.
LEMMA CardEvents ==
    ASSUME CardsInv, Cards!Event
    PROVE  /\ Cards!Spent(net) \in CardsNet
           /\ Cards!Spent(net) = [net EXCEPT !.events = net.events + 1]
<1>1. MaxCardEvent \in Nat
    BY Bounds
<1>2. net \in CardsNet /\ net.events \in 0 .. MaxCardEvent /\ net.events < MaxCardEvent
    BY DEF CardsInv, CardsTypes, CardsNet, Cards!Event
<1>3. net.events + 1 \in 0 .. MaxCardEvent
    BY <1>1, <1>2
<1>4. Cards!Spent(net) = [net EXCEPT !.events = net.events + 1]
    BY DEF Cards!Spent
<1> QED
    BY <1>2, <1>3, <1>4 DEF CardsNet

\* Nothing is carried out, and the result, the saved form and the answers fit what was.
LEMMA CardsKeep ==
    ASSUME CardsInv, CardsTypes', UNCHANGED db, ui'.result <= Len(db),
           Carried(net'.run), \A k \in Cards!Candidate : Carried(net'.try[k]),
           \A n \in ui'.execs : n \in 1 .. Len(db),
           net'.run.at \in {"sent", "ok", "parsing"} => ui'.parsed = 0,
           net'.run.at = "parsing" => ui'.resultIns = net'.run.ins,
           ui'.parsed # 0 => ui'.parsed <= Len(db) /\ db[ui'.parsed].ins = ui'.resultIns,
           ui'.form.value <= Len(db),
           ui'.form.value # 0 => db[ui'.form.value].ins = ui'.form.ins
    PROVE  CardsInv'
BY DEF CardsInv, Carried, Panel, Cards!SavedAsMeasured

\* A step that leaves the command, the result and the executions in the chat alone.
LEMMA CardsElsewhere ==
    ASSUME CardsInv, ui' \in CardsUi, net' \in CardsNet, UNCHANGED db,
           ui'.result = ui.result, ui'.parsed = ui.parsed, ui'.resultIns = ui.resultIns,
           ui'.execs \subseteq ui.execs, ui'.form = ui.form, net'.run = net.run, net'.try = net.try
    PROVE  CardsInv'
<1>1. CardsTypes'
    BY DEF CardsInv, CardsTypes
<1> QED
    BY <1>1, CardsKeep DEF CardsInv, Panel, Cards!SavedAsMeasured

LEMMA CardsTurn ==
    ASSUME CardsInv,
           \/ Cards!AnswerStatus \/ Cards!SendWish \/ Cards!AnswerWish
           \/ \E i \in Instrument : Cards!ToggleExpand(i) \/ Cards!SelectInstrument(i)
           \/ \E c \in Command : Cards!PickCommand(c) \/ Cards!FromWhitelist(c)
           \/ \E k \in Cards!Candidate : Cards!Discard(k)
    PROVE  CardsInv'
<1>0. ui \in CardsUi /\ net \in CardsNet
    BY DEF CardsInv, CardsTypes
<1> USE DEF InstrumentOrNone, CommandOrNone
<1>1. ASSUME NEW c \in Command, NEW u \in CardsUi
      PROVE  LET v == Cards!Picked(u, c) IN
             /\ v \in CardsUi /\ v.result = u.result /\ v.parsed = u.parsed /\ v.resultIns = u.resultIns
             /\ v.execs = u.execs /\ v.form = u.form
    BY DEF Cards!Picked, CardsUi
<1>2. ASSUME NEW i \in Instrument
      PROVE  LET v == Cards!Expanded(ui, i) IN
             /\ v \in CardsUi /\ v.result = ui.result /\ v.parsed = ui.parsed /\ v.resultIns = ui.resultIns
             /\ v.execs = ui.execs /\ v.form = ui.form
    BY <1>0 DEF Cards!Expanded, CardsUi
<1>3. CASE Cards!AnswerStatus
    <2>1. PICK c \in net.status : /\ ui' = Cards!Picked(ui, c) /\ UNCHANGED db
                                  /\ net' = [net EXCEPT !.status = @ \ {c}]
        BY <1>3 DEF Cards!AnswerStatus
    <2>2. c \in Command /\ net' \in CardsNet /\ net'.run = net.run /\ net'.try = net.try
        BY <1>0, <2>1 DEF CardsNet
    <2> QED
        BY <1>0, <1>1, <2>1, <2>2, CardsElsewhere
<1>4. CASE Cards!SendWish
    <2>1. net' = [Cards!Spent(net) EXCEPT !.wish = ui.chosen] /\ ui' = [ui EXCEPT !.asking = TRUE]
          /\ UNCHANGED db
        BY <1>4 DEF Cards!SendWish
    <2>2. net' \in CardsNet /\ net'.run = net.run /\ net'.try = net.try
        BY <1>0, <1>4, <2>1, CardEvents DEF CardsNet, CardsUi, Cards!SendWish
    <2>3. ui' \in CardsUi /\ ui'.result = ui.result /\ ui'.parsed = ui.parsed /\ ui'.resultIns = ui.resultIns
          /\ ui'.execs = ui.execs /\ ui'.form = ui.form
        BY <1>0, <2>1 DEF CardsUi
    <2> QED
        BY <2>1, <2>2, <2>3, CardsElsewhere
<1>5. CASE Cards!AnswerWish
    <2>1. UNCHANGED db
        BY <1>5 DEF Cards!AnswerWish
    <2>2. CASE net' = [net EXCEPT !.wish = Cards!None] /\ ui' = [ui EXCEPT !.asking = FALSE]
        <3>1. net' \in CardsNet /\ net'.run = net.run /\ net'.try = net.try
            BY <1>0, <2>2 DEF CardsNet
        <3>2. ui' \in CardsUi /\ ui'.result = ui.result /\ ui'.parsed = ui.parsed /\ ui'.resultIns = ui.resultIns
              /\ ui'.execs = ui.execs /\ ui'.form = ui.form
            BY <1>0, <2>2 DEF CardsUi
        <3> QED
            BY <2>1, <3>1, <3>2, CardsElsewhere
    <2>3. ASSUME net.made < MaxCardEvent, NEW c \in Command,
                 net' = [net EXCEPT !.wish = Cards!None, !.made = @ + 1,
                                    !.candidate[net.made + 1] = [ins |-> net.wish, cmd |-> c]],
                 ui' = [ui EXCEPT !.asking = FALSE, !.chat = @ \cup {net.made + 1}]
          PROVE  CardsInv'
        <3>1. net.made \in Nat /\ MaxCardEvent \in Nat /\ net.made + 1 \in Cards!Candidate
              /\ net.made + 1 \in 0 .. MaxCardEvent
            <4>1. MaxCardEvent \in Nat
                BY Bounds
            <4>2. net.made \in 0 .. MaxCardEvent
                BY <1>0 DEF CardsNet
            <4> QED
                BY <2>3, <4>1, <4>2 DEF Cards!Candidate
        <3> DEFINE made == [net.candidate EXCEPT ![net.made + 1] = [ins |-> net.wish, cmd |-> c]]
        <3>2. made \in [Cards!Candidate -> [ins : InstrumentOrNone, cmd : CommandOrNone]]
            BY <1>0, <3>1 DEF CardsNet
        <3>3. net' = [net EXCEPT !.wish = Cards!None, !.made = net.made + 1, !.candidate = made]
            BY <2>3
        <3> HIDE DEF made
        <3>4. net' \in CardsNet /\ net'.run = net.run /\ net'.try = net.try
            BY <1>0, <3>1, <3>2, <3>3 DEF CardsNet
        <3>5. ui' \in CardsUi /\ ui'.result = ui.result /\ ui'.parsed = ui.parsed /\ ui'.resultIns = ui.resultIns
              /\ ui'.execs = ui.execs /\ ui'.form = ui.form
            BY <1>0, <2>3, <3>1 DEF CardsUi
        <3> QED
            BY <2>1, <3>4, <3>5, CardsElsewhere
    <2> QED
        BY <1>5, <2>2, <2>3 DEF Cards!AnswerWish
<1>6. ASSUME NEW i \in Instrument, Cards!ToggleExpand(i) PROVE CardsInv'
    <2>1. UNCHANGED <<net, db>>
        BY <1>6 DEF Cards!ToggleExpand
    <2>2. CASE ui' = [ui EXCEPT !.expanded = Cards!None]
        <3>1. ui' \in CardsUi /\ ui'.result = ui.result /\ ui'.parsed = ui.parsed /\ ui'.resultIns = ui.resultIns
              /\ ui'.execs = ui.execs /\ ui'.form = ui.form
            BY <1>0, <2>2 DEF CardsUi
        <3> QED
            BY <1>0, <2>1, <3>1, CardsElsewhere
    <2>3. CASE ui' = Cards!Expanded(ui, i)
        BY <1>0, <1>2, <2>1, <2>3, CardsElsewhere
    <2> QED
        BY <1>6, <2>2, <2>3 DEF Cards!ToggleExpand
<1>7. ASSUME NEW i \in Instrument, Cards!SelectInstrument(i) PROVE CardsInv'
    <2>1. UNCHANGED <<net, db>> /\ ui' = [ui EXCEPT !.chosen = i, !.chat = {}, !.execs = {}]
        BY <1>7 DEF Cards!SelectInstrument
    <2>2. ui' \in CardsUi /\ ui'.result = ui.result /\ ui'.parsed = ui.parsed /\ ui'.resultIns = ui.resultIns
          /\ ui'.execs \subseteq ui.execs /\ ui'.form = ui.form
        BY <1>0, <2>1 DEF CardsUi
    <2> QED
        BY <1>0, <2>1, <2>2, CardsElsewhere
<1>8. ASSUME NEW c \in Command, Cards!PickCommand(c) PROVE CardsInv'
    BY <1>0, <1>1, <1>8, CardsElsewhere DEF Cards!PickCommand
<1>9. ASSUME NEW c \in Command, Cards!FromWhitelist(c) PROVE CardsInv'
    <2>1. CASE ui' = Cards!Picked(ui, c) /\ UNCHANGED <<net, db>>
        BY <1>0, <1>1, <2>1, CardsElsewhere
    <2>2. ASSUME Cards!Event, NEW i \in Instrument, ui' = Cards!Expanded(ui, i), UNCHANGED db,
                 net' = [Cards!Spent(net) EXCEPT !.status = @ \cup {c}]
          PROVE  CardsInv'
        <3>1. net' \in CardsNet /\ net'.run = net.run /\ net'.try = net.try
            BY <1>0, <2>2, CardEvents DEF CardsNet
        <3> QED
            BY <1>2, <2>2, <3>1, CardsElsewhere
    <2>3. Instrument # {} => (CHOOSE i \in Instrument : TRUE) \in Instrument
        OBVIOUS
    <2> QED
        BY <1>9, <2>1, <2>2, <2>3 DEF Cards!FromWhitelist
<1>10. ASSUME NEW k \in Cards!Candidate, Cards!Discard(k) PROVE CardsInv'
    <2>1. UNCHANGED <<net, db>> /\ ui' = [ui EXCEPT !.done = @ \cup {k}]
        BY <1>10 DEF Cards!Discard
    <2>2. ui' \in CardsUi /\ ui'.result = ui.result /\ ui'.parsed = ui.parsed /\ ui'.resultIns = ui.resultIns
          /\ ui'.execs = ui.execs /\ ui'.form = ui.form
        BY <1>0, <2>1 DEF CardsUi
    <2> QED
        BY <1>0, <2>1, <2>2, CardsElsewhere
<1> QED
    BY <1>3, <1>4, <1>5, <1>6, <1>7, <1>8, <1>9, <1>10

\* Commands that are sent show no result meanwhile.
LEMMA CommandsAreSent ==
    ASSUME CardsInv, NEW q \in CardsNet, q.try = net.try, NEW i \in InstrumentOrNone, NEW c \in CommandOrNone,
           Cards!SendCommand(q, i, c), UNCHANGED db
    PROVE  CardsInv'
<1> DEFINE new == [Cards!Idle EXCEPT !.at = "sent", !.ins = i, !.cmd = c, !.params = ui.params]
<1>0. ui \in CardsUi
    BY DEF CardsInv, CardsTypes
<1>1. new \in RunRecord /\ new.at = "sent"
    BY <1>0 DEF Cards!Idle, RunRecord, CardsUi
<1>2. net' = [q EXCEPT !.run = new] /\ ui' = [ui EXCEPT !.running = TRUE, !.result = 0, !.parsed = 0]
    BY <1>0 DEF Cards!SendCommand, Cards!ClearsResult, CardsUi
<1> HIDE DEF new
<1>3. net' \in CardsNet /\ net'.run = new /\ net'.try = net.try
    BY <1>1, <1>2 DEF CardsNet
<1>4. ui' \in CardsUi /\ ui'.result = 0 /\ ui'.parsed = 0 /\ ui'.execs = ui.execs /\ ui'.form = ui.form
    BY <1>0, <1>2 DEF CardsUi
<1>5. CardsTypes' /\ Len(db) \in Nat
    BY <1>3, <1>4, LenProperties DEF CardsInv, CardsTypes
<1> QED
    BY <1>1, <1>3, <1>4, <1>5, CardsKeep DEF CardsInv, Carried, Cards!SavedAsMeasured

\* A question about a command is asked or declined.
LEMMA CommandsAreAsked ==
    ASSUME CardsInv, NEW q \in CardsNet, q.try = net.try, NEW a \in RunRecord, a.at \in {"asking", "idle"},
           net' = [q EXCEPT !.run = a], UNCHANGED <<ui, db>>
    PROVE  CardsInv'
<1>1. net' \in CardsNet /\ net'.run = a /\ net'.try = net.try
    BY DEF CardsNet
<1>2. CardsTypes'
    BY <1>1 DEF CardsInv, CardsTypes
<1> QED
    BY <1>1, <1>2, CardsKeep DEF CardsInv, Panel, Carried, Cards!SavedAsMeasured

LEMMA CommandsBegin ==
    ASSUME CardsInv, Cards!RunCommand \/ Cards!AnswerQuestion
    PROVE  CardsInv'
<1>0. /\ ui \in CardsUi /\ net \in CardsNet /\ net.run \in RunRecord
      /\ ui.expanded \in InstrumentOrNone /\ ui.cmd \in CommandOrNone
      /\ Cards!Idle \in RunRecord /\ Cards!Idle.at = "idle"
    BY DEF CardsInv, CardsTypes, CardsUi, CardsNet, Cards!Idle, RunRecord, InstrumentOrNone, CommandOrNone
<1>1. CASE Cards!RunCommand
    <2> DEFINE q == Cards!Spent(net)
               a == [Cards!Idle EXCEPT !.at = "asking", !.ins = ui.expanded, !.cmd = ui.cmd]
    <2>1. q \in CardsNet /\ q.try = net.try
        BY <1>0, <1>1, CardEvents DEF Cards!RunCommand, CardsNet
    <2>2. a \in RunRecord /\ a.at = "asking"
        BY <1>0 DEF Cards!Idle, RunRecord
    <2>3. /\ UNCHANGED db
          /\ \/ net' = [q EXCEPT !.run = a] /\ ui' = ui
             \/ Cards!SendCommand(q, ui.expanded, ui.cmd)
        BY <1>1 DEF Cards!RunCommand
    <2> HIDE DEF q, a
    <2> QED
        BY <1>0, <2>1, <2>2, <2>3, CommandsAreSent, CommandsAreAsked
<1>2. CASE Cards!AnswerQuestion
    <2>1. net.run.ins \in InstrumentOrNone /\ net.run.cmd \in CommandOrNone
        BY <1>0 DEF RunRecord
    <2> QED
        BY <1>0, <1>2, <2>1, CommandsAreSent, CommandsAreAsked DEF Cards!AnswerQuestion
<1> QED
    BY <1>1, <1>2

\* An instrument carries out a command: what there was before stays where it was.
LEMMA CarriedOut ==
    ASSUME CardsInv, NEW e \in ExecRecord, db' = Append(db, e)
    PROVE  /\ Len(db) \in Nat /\ Len(db') = Len(db) + 1 /\ db' \in Seq(ExecRecord)
           /\ \A n \in 1 .. Len(db) : db'[n] = db[n]
           /\ db'[Len(db) + 1] = e
<1>1. db \in Seq(ExecRecord)
    BY DEF CardsInv, CardsTypes
<1> QED
    BY <1>1, AppendProperties, LenProperties

\* The instrument carries out the command of a request, or the request fails.
LEMMA RequestsAreServed ==
    ASSUME CardsInv, UNCHANGED ui, net' \in CardsNet, db' \in Seq(ExecRecord),
           Len(db') \in Nat, Len(db') >= Len(db), \A n \in 1 .. Len(db) : db'[n] = db[n],
           Carried(net.run)' \/ UNCHANGED net.run,
           net'.run.at \in {"sent", "ok"} => net.run.at = "sent" \/ net'.run = net.run,
           net'.run.at = "parsing" => net'.run = net.run,
           \A k \in Cards!Candidate : Carried(net.try[k])' \/ net'.try[k] = net.try[k]
    PROVE  CardsInv'
<1>0. db \in Seq(ExecRecord) /\ Len(db) \in Nat /\ ui \in CardsUi
    BY LenProperties DEF CardsInv, CardsTypes
<1>1. \A a : Carried(a) /\ a.at \in {"ok", "parsing"} => a.of \in 1 .. Len(db') /\ db'[a.of].ins = a.ins
    BY <1>0 DEF Carried
<1>2. Carried(net.run)' /\ \A k \in Cards!Candidate : Carried(net.try[k])'
    BY <1>1, ZenonT(40) DEF CardsInv, Carried
<1>3. CardsTypes'
    BY DEF CardsInv, CardsTypes
<1>4. Panel'
    <2>1. ui.parsed \in Nat
        BY <1>0 DEF CardsUi
    <2> QED
        BY <1>0, <2>1 DEF CardsInv, Panel
<1>5. (ui.form.value <= Len(db))' /\ Cards!SavedAsMeasured'
    <2>1. ui.form.value \in Nat
        BY <1>0 DEF CardsUi
    <2> QED
        BY <1>0, <2>1 DEF CardsInv, Cards!SavedAsMeasured
<1>6. (ui.result <= Len(db))' /\ (\A n \in ui.execs : n \in 1 .. Len(db))'
    <2>1. ui.result \in Nat
        BY <1>0 DEF CardsUi
    <2> QED
        BY <1>0, <2>1 DEF CardsInv
<1> QED
    BY <1>2, <1>3, <1>4, <1>5, <1>6 DEF CardsInv

LEMMA CommandsAreServed ==
    ASSUME CardsInv, Cards!ServeCommand
    PROVE  CardsInv'
<1> DEFINE a == net.run
           e == Cards!Execution(a, 0)
<1>0. /\ net \in CardsNet /\ a \in RunRecord /\ a.at = "sent" /\ UNCHANGED ui
      /\ db \in Seq(ExecRecord) /\ Len(db) \in Nat
    BY LenProperties DEF CardsInv, CardsTypes, CardsNet, Cards!ServeCommand
<1>1. ASSUME NEW at \in {"ok", "refused"}, db' = Append(db, e),
             net' = [net EXCEPT !.run.at = at, !.run.of = Len(db) + 1]
      PROVE  CardsInv'
    <2> DEFINE new == [a EXCEPT !.at = at, !.of = Len(db) + 1]
    <2>1. new \in RunRecord /\ new.at = at /\ new.of = Len(db) + 1 /\ new.ins = a.ins
        <3>1. \A n \in Nat : LET b == [a EXCEPT !.at = at, !.of = n] IN
                  b \in RunRecord /\ b.at = at /\ b.of = n /\ b.ins = a.ins
            BY <1>0 DEF RunRecord
        <3>2. Len(db) + 1 \in Nat
            BY <1>0
        <3> DEFINE n == Len(db) + 1
        <3> HIDE DEF n
        <3>3. LET b == [a EXCEPT !.at = at, !.of = n] IN
              b \in RunRecord /\ b.at = at /\ b.of = n /\ b.ins = a.ins
            BY <3>1, <3>2 DEF n
        <3> QED
            BY <3>3 DEF n
    <2>2. net' = [net EXCEPT !.run = new]
        BY <1>0, <1>1 DEF CardsNet, RunRecord
    <2>3. e \in ExecRecord /\ e.ins = a.ins
        BY <1>0 DEF Cards!Execution, ExecRecord, RunRecord
    <2> HIDE DEF a, e, new
    <2>4. /\ Len(db') = Len(db) + 1 /\ db' \in Seq(ExecRecord) /\ db'[Len(db) + 1] = e
          /\ \A n \in 1 .. Len(db) : db'[n] = db[n]
        BY <1>1, <2>3, CarriedOut
    <2>5. net' \in CardsNet /\ net'.run = new /\ net'.try = net.try
        BY <1>0, <2>1, <2>2 DEF CardsNet
    <2>6. Carried(net.run)'
        <3>1. new.of \in 1 .. Len(db') /\ db'[new.of].ins = new.ins
            BY <1>0, <2>1, <2>3, <2>4
        <3> QED
            BY <2>5, <3>1 DEF Carried
    <2> QED
        BY <1>0, <2>1, <2>4, <2>5, <2>6, RequestsAreServed DEF a
<1>2. CASE net' = [net EXCEPT !.run.at = "refused"] /\ db' = db
    <2> DEFINE new == [a EXCEPT !.at = "refused"]
    <2>1. new \in RunRecord /\ new.at = "refused"
        BY <1>0 DEF RunRecord
    <2>2. net' = [net EXCEPT !.run = new]
        BY <1>2
    <2> HIDE DEF a, new
    <2>3. net' \in CardsNet /\ net'.run = new /\ net'.try = net.try
        BY <1>0, <2>1, <2>2 DEF CardsNet
    <2>4. Carried(net.run)'
        BY <2>1, <2>3 DEF Carried
    <2> QED
        BY <1>0, <1>2, <2>1, <2>3, <2>4, RequestsAreServed DEF a
<1> QED
    BY <1>1, <1>2 DEF Cards!ServeCommand

LEMMA CandidatesAreServed ==
    ASSUME CardsInv, NEW k \in Cards!Candidate, Cards!ServeCandidate(k)
    PROVE  CardsInv'
<1> DEFINE a == net.try[k]
           e == Cards!Execution(a, k)
<1>0. /\ net \in CardsNet /\ a \in RunRecord /\ a.at = "sent" /\ UNCHANGED ui
      /\ db \in Seq(ExecRecord) /\ Len(db) \in Nat
    BY LenProperties DEF CardsInv, CardsTypes, CardsNet, Cards!ServeCandidate
<1>1. ASSUME NEW at \in {"ok", "refused"}, db' = Append(db, e),
             net' = [net EXCEPT !.try[k].at = at, !.try[k].of = Len(db) + 1]
      PROVE  CardsInv'
    <2> DEFINE new == [a EXCEPT !.at = at, !.of = Len(db) + 1]
    <2>1. new \in RunRecord /\ new.at = at /\ new.of = Len(db) + 1 /\ new.ins = a.ins
        <3>1. \A n \in Nat : LET b == [a EXCEPT !.at = at, !.of = n] IN
                  b \in RunRecord /\ b.at = at /\ b.of = n /\ b.ins = a.ins
            BY <1>0 DEF RunRecord
        <3>2. Len(db) + 1 \in Nat
            BY <1>0
        <3> DEFINE n == Len(db) + 1
        <3> HIDE DEF n
        <3>3. LET b == [a EXCEPT !.at = at, !.of = n] IN
              b \in RunRecord /\ b.at = at /\ b.of = n /\ b.ins = a.ins
            BY <3>1, <3>2 DEF n
        <3> QED
            BY <3>3 DEF n
    <2>2. net' = [net EXCEPT !.try = [net.try EXCEPT ![k] = new]]
        BY <1>0, <1>1 DEF CardsNet, RunRecord
    <2>3. e \in ExecRecord /\ e.ins = a.ins
        BY <1>0 DEF Cards!Execution, ExecRecord, RunRecord
    <2> HIDE DEF a, e, new
    <2>4. /\ Len(db') = Len(db) + 1 /\ db' \in Seq(ExecRecord) /\ db'[Len(db) + 1] = e
          /\ \A n \in 1 .. Len(db) : db'[n] = db[n]
        BY <1>1, <2>3, CarriedOut
    <2>5. /\ net' \in CardsNet /\ net'.run = net.run
          /\ \A j \in Cards!Candidate : net'.try[j] = IF j = k THEN new ELSE net.try[j]
        BY <1>0, <2>1, <2>2 DEF CardsNet
    <2>6. Carried(net.try[k])'
        <3>1. new.of \in 1 .. Len(db') /\ db'[new.of].ins = new.ins
            BY <1>0, <2>1, <2>3, <2>4
        <3> QED
            BY <2>5, <3>1 DEF Carried
    <2> QED
        BY <1>0, <2>4, <2>5, <2>6, RequestsAreServed
<1>2. CASE net' = [net EXCEPT !.try[k].at = "refused"] /\ db' = db
    <2> DEFINE new == [a EXCEPT !.at = "refused"]
    <2>1. new \in RunRecord /\ new.at = "refused"
        BY <1>0 DEF RunRecord
    <2>2. net' = [net EXCEPT !.try = [net.try EXCEPT ![k] = new]]
        BY <1>2
    <2> HIDE DEF a, new
    <2>3. /\ net' \in CardsNet /\ net'.run = net.run
          /\ \A j \in Cards!Candidate : net'.try[j] = IF j = k THEN new ELSE net.try[j]
        BY <1>0, <2>1, <2>2 DEF CardsNet
    <2>4. Carried(net.try[k])'
        BY <2>1, <2>3 DEF Carried
    <2> QED
        BY <1>0, <1>2, <2>3, <2>4, RequestsAreServed, SMTT(30)
<1> QED
    BY <1>1, <1>2 DEF Cards!ServeCandidate

\* The response is shown; it is parsed, and the value shown; or the failure is reported.
LEMMA CommandsAreAnswered ==
    ASSUME CardsInv, Cards!AfterCommand
    PROVE  CardsInv'
<1> DEFINE a == net.run
<1>0. /\ ui \in CardsUi /\ net \in CardsNet /\ a \in RunRecord /\ UNCHANGED db
      /\ db \in Seq(ExecRecord) /\ Len(db) \in Nat /\ Carried(a)
      /\ Cards!Idle \in RunRecord /\ Cards!Idle.at = "idle"
      /\ \A k \in Cards!Candidate : Carried(net.try[k])
      /\ \A n \in ui.execs : n \in 1 .. Len(db)
    BY LenProperties DEF CardsInv, CardsTypes, CardsNet, Cards!AfterCommand, Cards!Idle, RunRecord,
       InstrumentOrNone, CommandOrNone
<1>1. CASE /\ a.at = "ok" /\ ui' = [ui EXCEPT !.result = a.of, !.resultIns = a.ins]
           /\ net' = [net EXCEPT !.run.at = "parsing"]
    <2> DEFINE new == [a EXCEPT !.at = "parsing"]
    <2>1. new \in RunRecord /\ new.at = "parsing" /\ new.ins = a.ins /\ new.of = a.of
        BY <1>0 DEF RunRecord
    <2>2. net' = [net EXCEPT !.run = new]
        BY <1>1
    <2>3. a.of \in 1 .. Len(db) /\ db[a.of].ins = a.ins /\ ui.parsed = 0
        BY <1>0, <1>1 DEF Carried, CardsInv, Panel
    <2> HIDE DEF new
    <2>4. net' \in CardsNet /\ net'.run = new /\ net'.try = net.try
        BY <1>0, <2>1, <2>2 DEF CardsNet
    <2>5. ui' \in CardsUi /\ ui'.result = a.of /\ ui'.parsed = 0 /\ ui'.resultIns = a.ins
          /\ ui'.execs = ui.execs /\ ui'.form = ui.form
        BY <1>0, <1>1, <2>3 DEF CardsUi, RunRecord
    <2>6. CardsTypes' /\ Carried(new)
        BY <1>0, <2>1, <2>3, <2>4, <2>5 DEF CardsTypes, Carried
    <2> QED
        BY <1>0, <2>1, <2>3, <2>4, <2>5, <2>6, CardsKeep DEF CardsInv, Cards!SavedAsMeasured
<1>2. ASSUME a.at = "parsing", NEW parsed \in {0, a.of},
             ui' = [ui EXCEPT !.parsed = parsed, !.running = FALSE], net' = [net EXCEPT !.run = Cards!Idle]
      PROVE  CardsInv'
    <2>1. a.of \in 1 .. Len(db) /\ db[a.of].ins = a.ins /\ ui.resultIns = a.ins
        BY <1>0, <1>2 DEF Carried, CardsInv, Panel
    <2>2. net' \in CardsNet /\ net'.run = Cards!Idle /\ net'.try = net.try
        BY <1>0, <1>2 DEF CardsNet
    <2>3. ui' \in CardsUi /\ ui'.result = ui.result /\ ui'.parsed = parsed /\ ui'.resultIns = ui.resultIns
          /\ ui'.execs = ui.execs /\ ui'.form = ui.form
        <3>1. parsed \in Nat
            BY <1>0, <2>1
        <3> QED
            BY <1>0, <1>2, <3>1 DEF CardsUi
    <2>4. CardsTypes' /\ Carried(Cards!Idle)
        BY <1>0, <2>2, <2>3 DEF CardsTypes, Carried
    <2> QED
        BY <1>0, <2>1, <2>2, <2>3, <2>4, CardsKeep DEF CardsInv, Cards!SavedAsMeasured
<1>3. CASE a.at = "refused" /\ ui' = [ui EXCEPT !.running = FALSE] /\ net' = [net EXCEPT !.run = Cards!Idle]
    <2>1. net' \in CardsNet /\ net'.run = Cards!Idle /\ net'.try = net.try
        BY <1>0, <1>3 DEF CardsNet
    <2>2. ui' \in CardsUi /\ ui'.result = ui.result /\ ui'.parsed = ui.parsed /\ ui'.resultIns = ui.resultIns
          /\ ui'.execs = ui.execs /\ ui'.form = ui.form
        BY <1>0, <1>3 DEF CardsUi
    <2>3. CardsTypes' /\ Carried(Cards!Idle)
        BY <1>0, <2>1, <2>2 DEF CardsTypes, Carried
    <2> QED
        BY <1>0, <2>1, <2>2, <2>3, CardsKeep DEF CardsInv, Panel, Cards!SavedAsMeasured
<1> QED
    BY <1>1, <1>2, <1>3 DEF Cards!AfterCommand

LEMMA CandidatesProceed ==
    ASSUME CardsInv, NEW k \in Cards!Candidate,
           Cards!RunCandidate(k) \/ Cards!AnswerConfirm(k) \/ Cards!AfterCandidate(k)
    PROVE  CardsInv'
<1> DEFINE a == net.try[k]
<1>0. /\ ui \in CardsUi /\ net \in CardsNet /\ a \in RunRecord
      /\ db \in Seq(ExecRecord) /\ Len(db) \in Nat /\ Carried(net.run)
      /\ Cards!Idle \in RunRecord /\ Cards!Idle.at = "idle"
      /\ \A j \in Cards!Candidate : Carried(net.try[j])
      /\ \A n \in ui.execs : n \in 1 .. Len(db)
    BY LenProperties DEF CardsInv, CardsTypes, CardsNet, Cards!Idle, RunRecord,
       InstrumentOrNone, CommandOrNone
\* What the request becomes, with what of the page may change.
<1>1. ASSUME NEW q \in CardsNet, q.try = net.try, q.run = net.run, NEW new \in RunRecord, Carried(new),
             net' = [q EXCEPT !.try[k] = new], ui' \in CardsUi, UNCHANGED db,
             ui'.result = ui.result, ui'.parsed = ui.parsed, ui'.resultIns = ui.resultIns, ui'.form = ui.form,
             \A n \in ui'.execs : n \in 1 .. Len(db)
      PROVE  CardsInv'
    <2>1. /\ net' \in CardsNet /\ net'.run = net.run
          /\ \A j \in Cards!Candidate : net'.try[j] = IF j = k THEN new ELSE net.try[j]
        BY <1>1 DEF CardsNet
    <2>2. CardsTypes'
        BY <1>0, <1>1, <2>1 DEF CardsTypes
    <2>3. \A j \in Cards!Candidate : Carried(net'.try[j])
        BY <1>0, <1>1, <2>1
    <2> QED
        BY <1>0, <1>1, <2>1, <2>2, <2>3, CardsKeep DEF CardsInv, Panel, Cards!SavedAsMeasured
<1>2. ASSUME NEW u \in CardsUi, NEW s \in SUBSET Cards!Candidate
      PROVE  LET v == [u EXCEPT !.busy = s] IN
             /\ v \in CardsUi /\ v.result = u.result /\ v.parsed = u.parsed /\ v.resultIns = u.resultIns
             /\ v.form = u.form /\ v.execs = u.execs
    BY DEF CardsUi
<1>3. ui.busy \cup {k} \in SUBSET Cards!Candidate /\ ui.busy \ {k} \in SUBSET Cards!Candidate
      /\ ui.done \cup {k} \in SUBSET Cards!Candidate
    BY <1>0 DEF CardsUi
<1>4. ASSUME NEW q \in CardsNet, q.try = net.try, q.run = net.run, q.candidate = net.candidate,
             NEW i \in InstrumentOrNone, Cards!SendCandidate(q, k, i), UNCHANGED db
      PROVE  CardsInv'
    <2> DEFINE c == net.candidate[k].cmd
               new == [at |-> "sent", ins |-> i, cmd |-> c, params |-> c, of |-> 0]
    <2>1. new \in RunRecord /\ Carried(new)
        BY <1>0 DEF RunRecord, CardsNet, Carried
    <2>2. net' = [q EXCEPT !.try[k] = new] /\ ui' = [ui EXCEPT !.busy = ui.busy \cup {k}]
        BY <1>0, <1>4 DEF Cards!SendCandidate, CardsUi
    <2> HIDE DEF new
    <2> QED
        BY <1>0, <1>1, <1>2, <1>3, <1>4, <2>1, <2>2
<1>5. CASE Cards!RunCandidate(k)
    <2> DEFINE q == Cards!Spent(net)
               new == [Cards!Idle EXCEPT !.at = "asking", !.ins = ui.chosen]
    <2>1. q \in CardsNet /\ q.try = net.try /\ q.run = net.run /\ q.candidate = net.candidate
        BY <1>0, <1>5, CardEvents DEF Cards!RunCandidate, CardsNet
    <2>2. new \in RunRecord /\ Carried(new) /\ ui.chosen \in InstrumentOrNone
        BY <1>0 DEF RunRecord, CardsUi, Carried
    <2>3. /\ UNCHANGED db
          /\ \/ net' = [q EXCEPT !.try[k] = new] /\ ui' = ui
             \/ Cards!SendCandidate(q, k, ui.chosen)
        BY <1>5 DEF Cards!RunCandidate
    <2> HIDE DEF q, new
    <2> QED
        BY <1>0, <1>1, <1>4, <2>1, <2>2, <2>3
<1>6. CASE Cards!AnswerConfirm(k)
    <2>1. a.ins \in InstrumentOrNone /\ Carried(Cards!Idle)
        BY <1>0 DEF RunRecord, Carried
    <2>2. /\ UNCHANGED db
          /\ \/ net' = [net EXCEPT !.try[k] = Cards!Idle] /\ ui' = ui
             \/ Cards!SendCandidate(net, k, a.ins)
        BY <1>6 DEF Cards!AnswerConfirm
    <2> QED
        BY <1>0, <1>1, <1>4, <2>1, <2>2
<1>7. CASE Cards!AfterCandidate(k)
    <2>0. UNCHANGED db /\ Carried(Cards!Idle)
        BY <1>0, <1>7 DEF Cards!AfterCandidate, Carried
    <2>1. CASE a.at = "ok" /\ ui' = [ui EXCEPT !.done = @ \cup {k}] /\ net' = [net EXCEPT !.try[k].at = "parsing"]
        <3> DEFINE new == [a EXCEPT !.at = "parsing"]
        <3>1. new \in RunRecord /\ new.ins = a.ins /\ new.of = a.of
            BY <1>0 DEF RunRecord
        <3>2. Carried(new)
            BY <1>0, <2>1, <3>1 DEF Carried
        <3>3. net' = [net EXCEPT !.try[k] = new]
            BY <2>1
        <3>4. /\ ui' \in CardsUi /\ ui'.result = ui.result /\ ui'.parsed = ui.parsed
              /\ ui'.resultIns = ui.resultIns /\ ui'.form = ui.form /\ ui'.execs = ui.execs
            BY <1>0, <1>3, <2>1 DEF CardsUi
        <3> HIDE DEF new
        <3> QED
            BY <1>0, <1>1, <2>0, <3>1, <3>2, <3>3, <3>4
    <2>2. CASE /\ a.at = "parsing" /\ ui' = [ui EXCEPT !.busy = @ \ {k}, !.execs = @ \cup {a.of}]
               /\ net' = [net EXCEPT !.try[k] = Cards!Idle]
        <3>1. a.of \in 1 .. Len(db) /\ a.of \in Nat
            BY <1>0, <2>2 DEF Carried
        <3>2. /\ ui' \in CardsUi /\ ui'.result = ui.result /\ ui'.parsed = ui.parsed
              /\ ui'.resultIns = ui.resultIns /\ ui'.form = ui.form /\ ui'.execs = ui.execs \cup {a.of}
            BY <1>0, <1>3, <2>2, <3>1 DEF CardsUi
        <3>3. \A n \in ui'.execs : n \in 1 .. Len(db)
            BY <1>0, <3>1, <3>2
        <3> QED
            BY <1>0, <1>1, <2>0, <2>2, <3>2, <3>3
    <2>3. CASE ui' = [ui EXCEPT !.busy = @ \ {k}] /\ net' = [net EXCEPT !.try[k] = Cards!Idle]
        <3>1. /\ ui' \in CardsUi /\ ui'.result = ui.result /\ ui'.parsed = ui.parsed
              /\ ui'.resultIns = ui.resultIns /\ ui'.form = ui.form /\ ui'.execs = ui.execs
            BY <1>0, <1>3, <2>3 DEF CardsUi
        <3> QED
            BY <1>0, <1>1, <2>0, <2>3, <3>1
    <2> QED
        BY <1>7, <2>1, <2>2, <2>3 DEF Cards!AfterCandidate
<1> QED
    BY <1>5, <1>6, <1>7

\* The form takes the instrument of the result, or of the execution in the chat.
LEMMA SavesBegin ==
    ASSUME CardsInv, Cards!OpenSave \/ Cards!CloseSave
    PROVE  CardsInv'
<1>0. /\ ui \in CardsUi /\ UNCHANGED <<net, db>> /\ db \in Seq(ExecRecord) /\ Len(db) \in Nat
      /\ \A n \in ui.execs : n \in 1 .. Len(db)
    BY LenProperties DEF CardsInv, CardsTypes, Cards!OpenSave, Cards!CloseSave
<1>1. ASSUME NEW form \in [ins : InstrumentOrNone, value : Nat], ui' = [ui EXCEPT !.form = form],
             form.value <= Len(db), form.value # 0 => db[form.value].ins = form.ins
      PROVE  CardsInv'
    <2>1. /\ ui' \in CardsUi /\ ui'.result = ui.result /\ ui'.parsed = ui.parsed
          /\ ui'.resultIns = ui.resultIns /\ ui'.form = form /\ ui'.execs = ui.execs
        BY <1>0, <1>1 DEF CardsUi
    <2>2. CardsTypes'
        BY <1>0, <2>1 DEF CardsInv, CardsTypes
    <2> QED
        BY <1>0, <1>1, <2>1, <2>2, CardsKeep DEF CardsInv, Panel
<1>2. CASE Cards!CloseSave
    <2>1. Cards!NoForm \in [ins : InstrumentOrNone, value : Nat] /\ Cards!NoForm.value = 0
        BY DEF Cards!NoForm, InstrumentOrNone
    <2> QED
        BY <1>0, <1>1, <1>2, <2>1 DEF Cards!CloseSave
<1>3. CASE ui' = [ui EXCEPT !.form = [ins |-> ui.resultIns, value |-> ui.parsed]]
    <2> DEFINE form == [ins |-> ui.resultIns, value |-> ui.parsed]
    <2>1. form \in [ins : InstrumentOrNone, value : Nat] /\ form.ins = ui.resultIns /\ form.value = ui.parsed
          /\ ui.parsed \in Nat
        BY <1>0 DEF CardsUi
    <2>2. form.value <= Len(db) /\ (form.value # 0 => db[form.value].ins = form.ins)
        BY <1>0, <2>1 DEF CardsInv, Panel
    <2> HIDE DEF form
    <2> QED
        BY <1>1, <1>3, <2>1, <2>2 DEF form
<1>4. ASSUME NEW n \in ui.execs, ui' = [ui EXCEPT !.form = [ins |-> db[n].ins, value |-> n]] PROVE CardsInv'
    <2> DEFINE form == [ins |-> db[n].ins, value |-> n]
    <2>1. n \in 1 .. Len(db) /\ db[n] \in ExecRecord
        BY <1>0, ElementOfSeq
    <2>2. form \in [ins : InstrumentOrNone, value : Nat] /\ form.ins = db[n].ins /\ form.value = n
        BY <1>0, <2>1 DEF ExecRecord
    <2>3. form.value <= Len(db) /\ (form.value # 0 => db[form.value].ins = form.ins)
        BY <1>0, <2>1, <2>2
    <2> HIDE DEF form
    <2> QED
        BY <1>1, <1>4, <2>2, <2>3 DEF form
<1> QED
    BY <1>2, <1>3, <1>4 DEF Cards!OpenSave

LEMMA CardsStep ==
    ASSUME CardsInv, Cards!Next \/ UNCHANGED still
    PROVE  CardsInv'
<1>1. CASE UNCHANGED still
    BY <1>1 DEF still, CardsInv, CardsTypes, Carried, Panel, Cards!SavedAsMeasured
<1>2. CASE Cards!Next
    BY <1>2, CardsTurn, CommandsBegin, CommandsAreServed, CommandsAreAnswered, SavesBegin,
       CandidatesProceed, CandidatesAreServed DEF Cards!Next
<1> QED
    BY <1>1, <1>2

LEMMA CardsTyping == CardsInv => Cards!TypeOK
<1> SUFFICES ASSUME CardsInv PROVE Cards!TypeOK
    OBVIOUS
<1>0. ui \in CardsUi /\ net \in CardsNet /\ Len(db) \in Nat
    BY LenProperties DEF CardsInv, CardsTypes
<1>1. ui.result \in Cards!Exec /\ ui.parsed \in Cards!Exec /\ ui.form.value \in Cards!Exec
      /\ ui.execs \subseteq Cards!Exec
    <2>1. ui.result \in Nat /\ ui.parsed \in Nat /\ ui.form.value \in Nat
        BY <1>0 DEF CardsUi
    <2> QED
        BY <1>0, <2>1 DEF CardsInv, Panel, Cards!Exec
<1>2. /\ ui.form.ins \in InstrumentOrNone /\ net.run.at \in {"idle", "asking", "sent", "ok", "refused", "parsing"}
      /\ \A k \in Cards!Candidate :
            /\ net.try[k] \in RunRecord
            /\ net.try[k].at \in {"idle", "asking", "sent", "ok", "refused", "parsing"}
                                    /\ net.candidate[k].ins \in InstrumentOrNone
      /\ net.events \in 0 .. MaxCardEvent
    BY <1>0 DEF CardsUi, CardsNet, RunRecord
<1> QED
    BY <1>0, <1>1, <1>2 DEF Cards!TypeOK, CardsUi, InstrumentOrNone, CommandOrNone
-----------------------------------------------------------------------------
(* The daily report.                                                       *)

ReportRecord == [raw : Report!Version, sum : Report!Version, status : {"draft", "submitted"}]
HandlerRecord ==
    [does : {"none", "poll", "other", "draft"} \cup Report!Saves \cup Report!Submits,
     step : {"none", "today", "write", "create", "save", "parse", "summary", "submit"},
     at : {"idle", "sent", "ok", "blocked", "refused"}, draft : Report!Draft \cup {0},
     text : Report!Text, report : ReportRecord]
Handlers == Call \cup Poll

ReportUi == [text : Report!Text, report : ReportRecord, drafts : SUBSET Report!Draft,
             confirming : SUBSET Report!Draft, ai : BOOLEAN, submitting : BOOLEAN, warned : BOOLEAN]
ReportTypes ==
    /\ ui \in ReportUi
    /\ net \in [call : [Handlers -> HandlerRecord], events : 0 .. MaxReportEvent,
                failed : [Report!Draft -> Nat], crossed : BOOLEAN, pressed : Report!Text]
    /\ db \in [report : ReportRecord, logs : [Report!Draft -> Nat]]

\* The steps of a handler are those it may come to.
Sensible(a) ==
    /\ a.at = "idle" => a = Report!Idle
    /\ a.step = "save" => a.does \in Report!Saves \cup Report!Submits
    /\ a.step \in {"parse", "summary"} => a.does \in Report!Saves
    /\ a.step = "submit" => a.does \in Report!Submits
    /\ a.step = "create" => a.does = "draft"
    /\ a.does = "draft" <=> a.draft # 0
    /\ a.does = "draft" => a.step \in {"create", "today"}

\* A handler of the page runs in a slot for handlers; the one of a draft shows on its row
\* and creates its log when the attempts before have failed.
Confirms(c) ==
    LET a == net.call[c] IN
    /\ a.does \notin {"none", "poll"} => c \in Call
    /\ a.draft # 0 =>
          /\ a.draft \in ui.confirming
          /\ a.step = "create" /\ a.at = "sent" => db.logs[a.draft] <= net.failed[a.draft]

\* The submission in progress saves the text there was when the button was pressed, and
\* the report is that text from then on unless another save crosses it.
Submits(c) ==
    LET a == net.call[c] IN
    a.does \in Report!Submits =>
        /\ ui.submitting
        /\ a.step = "save" => a.text = net.pressed
        /\ ~net.crossed => \A e \in Call : net.call[e].does \notin Report!Saves
        /\ ~net.crossed /\ (a.step = "submit" \/ (a.step = "save" /\ a.at = "ok")) =>
              Report!TextOf(db.report) = net.pressed

OneOfAKind ==
    \A c, e \in Handlers :
        \/ net.call[c].does \in Report!Submits /\ net.call[e].does \in Report!Submits
        \/ net.call[c].draft # 0 /\ net.call[c].draft = net.call[e].draft
        => c = e

\* A draft in the list without a handler has a log for a failure at most; the drafts of
\* answers to come are not there yet.
DraftsFit ==
    \A d \in Report!Draft :
        /\ db.logs[d] <= 1 + net.failed[d]
        /\ d \in ui.drafts /\ (\A c \in Handlers : net.call[c].draft # d) => db.logs[d] <= net.failed[d]
        /\ net.events < d /\ d <= MaxReportEvent =>
              d \notin ui.drafts /\ db.logs[d] = 0 /\ \A c \in Handlers : net.call[c].draft # d

ReportInv ==
    /\ ReportTypes
    /\ \A c \in Handlers : Sensible(net.call[c]) /\ Confirms(c) /\ Submits(c)
    /\ OneOfAKind /\ DraftsFit

LEMMA ReportInit == Report!Init => ReportInv
<1> SUFFICES ASSUME Report!Init PROVE ReportInv
    OBVIOUS
<1>0. /\ MaxReportEvent \in Nat /\ {0, 1} \subseteq Report!Version
      /\ MaxReportEvent + 1 \in Report!Draft
    BY Bounds DEF Report!Version, Report!Draft
<1>1. /\ Report!Idle \in HandlerRecord /\ Sensible(Report!Idle) /\ Report!Idle.does = "none"
      /\ Report!Idle.draft = 0
    BY <1>0 DEF Report!Idle, HandlerRecord, ReportRecord, Report!Text, Sensible, Report!Saves, Report!Submits
<1>2. PICK sum \in {0, 1}, drafts \in {{}, {MaxReportEvent + 1}} :
         LET report == [raw |-> 1, sum |-> sum, status |-> "draft"] IN
         /\ ui = [text |-> Report!TextOf(report), report |-> report, drafts |-> drafts, confirming |-> {},
                  ai |-> FALSE, submitting |-> FALSE, warned |-> FALSE]
         /\ db = [report |-> report, logs |-> [d \in Report!Draft |-> 0]]
    BY DEF Report!Init
<1> DEFINE report == [raw |-> 1, sum |-> sum, status |-> "draft"]
<1>3. report \in ReportRecord /\ Report!TextOf(report) \in Report!Text
    BY <1>0 DEF ReportRecord, Report!TextOf, Report!Text
<1> HIDE DEF report
<1>4. /\ ui = [text |-> Report!TextOf(report), report |-> report, drafts |-> drafts, confirming |-> {},
               ai |-> FALSE, submitting |-> FALSE, warned |-> FALSE]
      /\ db = [report |-> report, logs |-> [d \in Report!Draft |-> 0]]
    BY <1>2 DEF report
<1>5. net = [call |-> [c \in Handlers |-> Report!Idle], events |-> 0,
             failed |-> [d \in Report!Draft |-> 0], crossed |-> FALSE, pressed |-> Report!TextOf(report)]
    BY <1>4 DEF Report!Init, Handlers
<1>6. ReportTypes
    BY <1>0, <1>1, <1>3, <1>4, <1>5 DEF ReportTypes, ReportUi
<1>7. /\ \A c \in Handlers : net.call[c] = Report!Idle
      /\ \A d \in Report!Draft : db.logs[d] = 0 /\ net.failed[d] = 0
    BY <1>4, <1>5
<1>8. \A d \in Report!Draft : net.events < d /\ d <= MaxReportEvent => d \notin ui.drafts
    BY <1>0, <1>4
<1>9. OneOfAKind
    BY <1>1, <1>7 DEF OneOfAKind, Report!Submits
<1>10. DraftsFit
    <2> SUFFICES ASSUME NEW d \in Report!Draft
                 PROVE  /\ db.logs[d] <= 1 + net.failed[d] /\ db.logs[d] <= net.failed[d]
                        /\ net.events < d /\ d <= MaxReportEvent =>
                              d \notin ui.drafts /\ db.logs[d] = 0 /\ \A c \in Handlers : net.call[c].draft # d
        BY DEF DraftsFit
    <2>1. d # 0
        BY DEF Report!Draft
    <2> QED
        BY <1>1, <1>7, <1>8, <2>1
<1> QED
    BY <1>1, <1>6, <1>7, <1>9, <1>10 DEF ReportInv, Confirms, Submits, Report!Submits

\* What is known of a handler.
LEMMA ReportParts ==
    ASSUME ReportInv
    PROVE  /\ ui.text \in Report!Text /\ ui.report \in ReportRecord /\ ui.drafts \in SUBSET Report!Draft
           /\ ui.confirming \in SUBSET Report!Draft /\ ui.ai \in BOOLEAN /\ ui.submitting \in BOOLEAN
           /\ ui.warned \in BOOLEAN
           /\ net.call \in [Handlers -> HandlerRecord] /\ net.events \in Nat /\ net.events \in 0 .. MaxReportEvent
           /\ net.failed \in [Report!Draft -> Nat] /\ net.crossed \in BOOLEAN /\ net.pressed \in Report!Text
           /\ db.report \in ReportRecord /\ db.logs \in [Report!Draft -> Nat]
           /\ MaxReportEvent \in Nat
           /\ \A c \in Handlers : net.call[c] \in HandlerRecord /\ Sensible(net.call[c]) /\ Confirms(c) /\ Submits(c)
           /\ OneOfAKind /\ DraftsFit
<1>1. MaxReportEvent \in Nat
    BY Bounds
<1> QED
    BY <1>1 DEF ReportInv, ReportTypes, ReportUi

\* The server answers a handler: it adds the log of a draft, or takes the text of a save or
\* the summary of the assistant.
LEMMA ServerKeeps ==
    ASSUME ReportInv, UNCHANGED ui, NEW c \in Handlers, NEW new \in HandlerRecord, ReportTypes',
           net'.call = [net.call EXCEPT ![c] = new], net'.events >= net.events,
           net'.failed = net.failed, net'.crossed = net.crossed, net'.pressed = net.pressed,
           new.does = net.call[c].does, new.step = net.call[c].step, new.draft = net.call[c].draft,
           new.text = net.call[c].text, new.at \notin {"idle", "sent"}, net.call[c].at = "sent",
           \A d \in Report!Draft :
              \/ db'.logs[d] = db.logs[d]
              \/ net.call[c].step = "create" /\ d = net.call[c].draft /\ db'.logs[d] = db.logs[d] + 1,
           \/ Report!TextOf(db'.report) = Report!TextOf(db.report)
           \/ net.call[c].step = "save" /\ Report!TextOf(db'.report) = net.call[c].text
           \/ net.call[c].step = "summary",
           new.at = "ok" /\ net.call[c].step = "save" => Report!TextOf(db'.report) = net.call[c].text
    PROVE  ReportInv'
<1> DEFINE a == net.call[c]
<1>0. /\ a \in HandlerRecord /\ Sensible(a) /\ Confirms(c) /\ Submits(c) /\ OneOfAKind /\ DraftsFit
      /\ \A e \in Handlers : net'.call[e] = IF e = c THEN new ELSE net.call[e]
      /\ net.events \in Nat /\ net'.events \in Nat /\ c \in Handlers
    BY ReportParts DEF ReportTypes, ReportUi
<1>1. \A e \in Handlers : net'.call[e].does = net.call[e].does /\ net'.call[e].draft = net.call[e].draft
    BY <1>0
<1>2. OneOfAKind'
    BY <1>0, <1>1 DEF OneOfAKind
<1>3. Sensible(new)
    BY <1>0 DEF Sensible
<1>4. ASSUME NEW e \in Handlers PROVE Confirms(e)'
    <2>1. Confirms(e) /\ net.call[e] \in HandlerRecord
        BY ReportParts
    <2>2. CASE e = c
        BY <1>0, <2>1, <2>2 DEF Confirms
    <2>3. CASE e # c
        <3>1. net'.call[e] = net.call[e]
            BY <1>0, <2>3
        <3>2. net.call[e].draft # 0 => db'.logs[net.call[e].draft] = db.logs[net.call[e].draft]
            BY <1>0, <2>1, <2>3 DEF OneOfAKind, HandlerRecord
        <3> QED
            BY <2>1, <3>1, <3>2 DEF Confirms
    <2> QED
        BY <2>2, <2>3
<1>5. ASSUME NEW e \in Handlers PROVE Submits(e)'
    <2> SUFFICES ASSUME net.call[e].does \in Report!Submits PROVE Submits(e)'
        BY <1>1 DEF Submits
    <2>1. Submits(e) /\ Confirms(e) /\ net.call[e] \in HandlerRecord
        BY ReportParts
    <2>2. (\A f \in Call : net'.call[f].does \notin Report!Saves)
          <=> (\A f \in Call : net.call[f].does \notin Report!Saves)
        BY <1>1 DEF Handlers
    <2>3. CASE e = c
        <3>1. a.step # "summary"
            BY <1>0, <2>3 DEF Sensible, Report!Saves, Report!Submits
        <3>2. new.step = "submit" => Report!TextOf(db'.report) = Report!TextOf(db.report)
            BY <3>1, <2>3
        <3> QED
            BY <1>0, <2>1, <2>2, <2>3, <3>1, <3>2 DEF Submits
    <2>4. CASE e # c
        <3>1. a.does \notin Report!Submits
            BY <1>0, <2>4 DEF OneOfAKind
        <3>2. ~net.crossed => Report!TextOf(db'.report) = Report!TextOf(db.report)
            <4> SUFFICES ASSUME ~net.crossed, a.step \in {"save", "summary"} PROVE FALSE
                OBVIOUS
            <4>1. a.does \in Report!Saves
                BY <1>0, <3>1 DEF Sensible
            <4>2. c \in Call
                BY <1>0, <4>1 DEF Confirms, Report!Saves
            <4> QED
                BY <2>1, <4>1, <4>2 DEF Submits
        <3> QED
            BY <1>0, <2>1, <2>2, <2>4, <3>2 DEF Submits
    <2> QED
        BY <2>3, <2>4
<1>6. DraftsFit'
    <2> SUFFICES ASSUME NEW d \in Report!Draft
                 PROVE  /\ db'.logs[d] <= 1 + net.failed[d]
                        /\ d \in ui.drafts /\ (\A e \in Handlers : net.call[e].draft # d)
                           => db'.logs[d] <= net.failed[d]
                        /\ net'.events < d /\ d <= MaxReportEvent =>
                              d \notin ui.drafts /\ db'.logs[d] = 0 /\ \A e \in Handlers : net.call[e].draft # d
        BY <1>1 DEF DraftsFit
    <2>1. /\ db.logs[d] \in Nat /\ net.failed[d] \in Nat /\ d \in Nat /\ d # 0
          /\ db.logs[d] <= 1 + net.failed[d]
          /\ d \in ui.drafts /\ (\A e \in Handlers : net.call[e].draft # d) => db.logs[d] <= net.failed[d]
          /\ net.events < d /\ d <= MaxReportEvent =>
                d \notin ui.drafts /\ db.logs[d] = 0 /\ \A e \in Handlers : net.call[e].draft # d
        BY <1>0, ReportParts DEF DraftsFit, Report!Draft
    <2>2. CASE db'.logs[d] = db.logs[d]
        BY <1>0, <2>1, <2>2
    <2>3. CASE a.step = "create" /\ d = a.draft /\ db'.logs[d] = db.logs[d] + 1
        <3>1. db.logs[d] <= net.failed[d]
            BY <1>0, <2>1, <2>3 DEF Confirms
        <3> QED
            BY <1>0, <2>1, <2>3, <3>1
    <2> QED
        BY <2>2, <2>3
<1>7. \A e \in Handlers : Sensible(net.call[e])'
    BY <1>0, <1>3, ReportParts DEF Sensible
<1> QED
    BY <1>2, <1>4, <1>5, <1>6, <1>7 DEF ReportInv

\* What the server does for call c, and what becomes of its answer.
Database == [report : ReportRecord, logs : [Report!Draft -> Nat]]

OneDraftPosted(c) ==
    \A d \in Report!Draft :
       \/ db'.logs[d] = db.logs[d]
       \/ net.call[c].step = "create" /\ d = net.call[c].draft /\ db'.logs[d] = db.logs[d] + 1

TextIsOfCall(c) ==
    \/ Report!TextOf(db'.report) = Report!TextOf(db.report)
    \/ net.call[c].step = "save" /\ Report!TextOf(db'.report) = net.call[c].text
    \/ net.call[c].step = "summary"

SaveIsDone(c) == net.call[c].step = "save" => Report!TextOf(db'.report) = net.call[c].text

IsLost(c) == Report!Event /\ net' = [Report!Spent(net) EXCEPT !.call[c].at = "refused"]

\* An answer of the server reaches the page, or is lost, which the page takes for a refusal.
LEMMA ReportAnswersKeep ==
    ASSUME ReportInv, UNCHANGED ui, NEW c \in Handlers, net.call[c].at = "sent", db' \in Database,
           NEW at \in {"ok", "blocked", "refused"},
           Report!Answer(c, at) \/ (at = "refused" /\ IsLost(c)),
           OneDraftPosted(c), TextIsOfCall(c), at = "ok" => SaveIsDone(c)
    PROVE  ReportInv'
<1> DEFINE a == net.call[c]
<1>0. /\ a \in HandlerRecord /\ c \in Handlers /\ ReportTypes
      /\ MaxReportEvent \in Nat /\ net.events \in 0 .. MaxReportEvent
      /\ db'.report \in ReportRecord
    BY ReportParts DEF ReportInv, Database
<1>1. ASSUME NEW r \in ReportRecord, NEW n \in 0 .. MaxReportEvent, n >= net.events,
             net' = [net EXCEPT !.call = [net.call EXCEPT ![c] = [a EXCEPT !.at = at, !.report = r]], !.events = n]
      PROVE  ReportInv'
    <2> DEFINE new == [a EXCEPT !.at = at, !.report = r]
    <2>1. /\ new \in HandlerRecord /\ new.does = a.does /\ new.step = a.step /\ new.draft = a.draft
          /\ new.text = a.text /\ new.at = at
        BY <1>0 DEF HandlerRecord
    <2> HIDE DEF new
    <2>2. net' = [net EXCEPT !.call = [net.call EXCEPT ![c] = new], !.events = n]
        BY <1>1 DEF new
    <2>3. ReportTypes' /\ net'.call = [net.call EXCEPT ![c] = new] /\ net'.events = n
          /\ net'.failed = net.failed /\ net'.crossed = net.crossed /\ net'.pressed = net.pressed
        BY <1>0, <2>1, <2>2 DEF ReportTypes, ReportUi, Database
    <2> QED
        BY <1>1, <2>1, <2>3, ServerKeeps DEF OneDraftPosted, TextIsOfCall, SaveIsDone
<1>2. CASE Report!Answer(c, at)
    <2> DEFINE r == db'.report
    <2>1. net' = [net EXCEPT !.call[c].at = at, !.call[c].report = r]
        BY <1>2 DEF Report!Answer
    <2>2. r \in ReportRecord /\ net.events >= net.events
        BY <1>0
    <2> HIDE DEF r
    <2>3. net' = [net EXCEPT !.call = [net.call EXCEPT ![c] = [a EXCEPT !.at = at, !.report = r]],
                             !.events = net.events]
        BY <1>0, <2>1, ZenonT(40) DEF ReportTypes, ReportUi, HandlerRecord
    <2> QED
        BY <1>0, <1>1, <2>2, <2>3
<1>3. CASE at = "refused" /\ IsLost(c)
    <2>1. net.events + 1 \in 0 .. MaxReportEvent /\ net.events + 1 >= net.events
        BY <1>0, <1>3 DEF IsLost, Report!Event
    <2>2. a.report \in ReportRecord
        BY <1>0 DEF HandlerRecord
    <2>3. net' = [net EXCEPT !.call = [net.call EXCEPT ![c] = [a EXCEPT !.at = at, !.report = a.report]],
                             !.events = net.events + 1]
        BY <1>0, <1>3, ZenonT(40) DEF IsLost, Report!Spent, ReportTypes, ReportUi, HandlerRecord
    <2> QED
        BY <1>1, <2>1, <2>2, <2>3
<1> QED
    BY <1>2, <1>3

LEMMA ReportIsServed ==
    ASSUME ReportInv, NEW c \in Handlers, Report!ServePage(c)
    PROVE  ReportInv'
<1> DEFINE a == net.call[c]
<1>0. /\ a \in HandlerRecord /\ Sensible(a) /\ db.report \in ReportRecord /\ db.logs \in [Report!Draft -> Nat]
      /\ db \in [report : ReportRecord, logs : [Report!Draft -> Nat]]
      /\ UNCHANGED ui /\ a.at = "sent"
    BY ReportParts DEF ReportInv, ReportTypes, ReportUi, Report!ServePage, Report!ServeSave, Report!ServeSummary,
       Report!ServeParse, Report!ServeWrite, Report!ServeToday, Report!ServeSubmit, Report!Saving
\* A refusal or a loss leaves the report as it is.
<1>1. ASSUME db' = db, Report!Refuse(c) \/ Report!NeverArrives(c) \/ Report!Answer(c, "blocked")
      PROVE  ReportInv'
    <2>1. db' \in Database /\ OneDraftPosted(c) /\ TextIsOfCall(c)
        BY <1>0, <1>1 DEF Database, OneDraftPosted, TextIsOfCall
    <2>2. CASE Report!Answer(c, "blocked")
        BY <1>0, <2>1, <2>2, ReportAnswersKeep
    <2>3. CASE Report!Answer(c, "refused") \/ IsLost(c)
        BY <1>0, <2>1, <2>3, ReportAnswersKeep
    <2> QED
        BY <1>1, <2>2, <2>3 DEF Report!Refuse, Report!NeverArrives, IsLost
\* An answer that reports what was done, or is lost.
<1>2. ASSUME db' \in Database, Report!AnswerOrLose(c), OneDraftPosted(c), TextIsOfCall(c), SaveIsDone(c)
      PROVE  ReportInv'
    <2>1. Report!Answer(c, "ok") \/ IsLost(c)
        BY <1>2 DEF Report!AnswerOrLose, IsLost
    <2> QED
        BY <1>0, <1>2, <2>1, ReportAnswersKeep
<1>3. CASE Report!ServeSave(c)
    <2>1. a.step = "save" /\ a.text \in Report!Text /\ a.text = [raw |-> a.text.raw, sum |-> a.text.sum]
        BY <1>0, <1>3 DEF Report!ServeSave, Report!Saving, HandlerRecord, Report!Text
    <2>2. CASE db' = [db EXCEPT !.report.raw = a.text.raw, !.report.sum = a.text.sum] /\ Report!AnswerOrLose(c)
        <3>1. /\ db' \in [report : ReportRecord, logs : [Report!Draft -> Nat]] /\ db'.logs = db.logs
              /\ Report!TextOf(db'.report) = [raw |-> a.text.raw, sum |-> a.text.sum]
            <4> DEFINE r == a.text.raw
                       s == a.text.sum
            <4>1. r \in Report!Version /\ s \in Report!Version
                BY <2>1 DEF Report!Text
            <4> HIDE DEF r, s
            <4>2. db' = [db EXCEPT !.report.raw = r, !.report.sum = s]
                BY <2>2 DEF r, s
            <4> SUFFICES /\ db' \in [report : ReportRecord, logs : [Report!Draft -> Nat]] /\ db'.logs = db.logs
                         /\ Report!TextOf(db'.report) = [raw |-> r, sum |-> s]
                BY DEF r, s
            <4> QED
                BY <1>0, <4>1, <4>2 DEF Report!TextOf, ReportRecord
        <3> QED
            BY <1>2, <2>1, <2>2, <3>1 DEF Database, OneDraftPosted, TextIsOfCall, SaveIsDone
    <2> QED
        BY <1>1, <1>3, <2>2 DEF Report!ServeSave, Report!Refuse, Report!NeverArrives
<1>4. CASE Report!ServeSummary(c)
    <2>1. a.step = "summary" /\ a.text.sum \in Report!Version
        BY <1>0, <1>4 DEF Report!ServeSummary, HandlerRecord, Report!Text
    <2>2. CASE db' = [db EXCEPT !.report.sum = a.text.sum] /\ Report!AnswerOrLose(c)
        <3>1. db' \in [report : ReportRecord, logs : [Report!Draft -> Nat]] /\ db'.logs = db.logs
            BY <1>0, <2>1, <2>2 DEF ReportRecord
        <3> QED
            BY <1>2, <2>1, <2>2, <3>1 DEF Database, OneDraftPosted, TextIsOfCall, SaveIsDone
    <2> QED
        BY <1>1, <1>4, <2>2 DEF Report!ServeSummary, Report!Refuse
<1>5. CASE Report!ServeParse(c) \/ Report!ServeToday(c)
    <2>1. db' = db /\ (Report!AnswerOrLose(c) \/ Report!Answer(c, "refused")) /\ a.step # "save"
        BY <1>5 DEF Report!ServeParse, Report!ServeToday
    <2>2. CASE Report!AnswerOrLose(c)
        BY <1>0, <1>2, <2>1, <2>2 DEF Database, OneDraftPosted, TextIsOfCall, SaveIsDone
    <2>3. CASE Report!Answer(c, "refused")
        BY <1>0, <2>1, <2>3, ReportAnswersKeep DEF Database, OneDraftPosted, TextIsOfCall
    <2> QED
        BY <2>1, <2>2, <2>3
<1>6. CASE Report!ServeWrite(c)
    <2>1. a.step \in {"write", "create"} /\ (a.step = "create" => a.draft \in Report!Draft)
        BY <1>0, <1>6 DEF Report!ServeWrite, Sensible, HandlerRecord
    <2>2. CASE a.step = "write" /\ db' = db /\ Report!AnswerOrLose(c)
        BY <1>0, <1>2, <2>2 DEF Database, OneDraftPosted, TextIsOfCall, SaveIsDone
    <2>3. CASE a.step = "create" /\ db' = [db EXCEPT !.logs[a.draft] = @ + 1] /\ Report!AnswerOrLose(c)
        <3>1. /\ db' \in [report : ReportRecord, logs : [Report!Draft -> Nat]] /\ db'.report = db.report
              /\ \A d \in Report!Draft : db'.logs[d] = IF d = a.draft THEN db.logs[d] + 1 ELSE db.logs[d]
            BY <1>0, <2>1, <2>3
        <3> QED
            BY <1>0, <1>2, <2>3, <3>1 DEF Database, OneDraftPosted, TextIsOfCall, SaveIsDone
    <2> QED
        BY <1>1, <1>6, <2>1, <2>2, <2>3 DEF Report!ServeWrite, Report!NeverArrives
<1>7. CASE Report!ServeSubmit(c)
    <2>1. a.step = "submit"
        BY <1>7 DEF Report!ServeSubmit
    <2>2. CASE db' = [db EXCEPT !.report.status = "submitted"] /\ Report!AnswerOrLose(c)
        <3>1. /\ db' \in [report : ReportRecord, logs : [Report!Draft -> Nat]] /\ db'.logs = db.logs
              /\ Report!TextOf(db'.report) = Report!TextOf(db.report)
            BY <1>0, <2>2 DEF ReportRecord, Report!TextOf
        <3> QED
            BY <1>2, <2>1, <2>2, <3>1 DEF Database, OneDraftPosted, TextIsOfCall, SaveIsDone
    <2> QED
        BY <1>1, <1>7, <2>2 DEF Report!ServeSubmit, Report!Refuse
<1> QED
    BY <1>3, <1>4, <1>5, <1>6, <1>7 DEF Report!ServePage

\* The page moves and its handlers do not.
LEMMA EditorKeeps ==
    ASSUME ReportInv, \/ Report!Type \/ Report!CloseWarnings
                      \/ \E d \in Report!Draft : Report!RemoveDraft(d)
    PROVE  ReportInv'
<1>0. /\ MaxReportEvent \in Nat /\ ReportTypes
      /\ ui.confirming \in SUBSET Report!Draft /\ ui.drafts \in SUBSET Report!Draft
    BY ReportParts DEF ReportInv
<1>1. ASSUME ReportTypes', UNCHANGED db, net'.call = net.call, net'.events >= net.events,
             net'.failed = net.failed, net'.crossed = net.crossed, net'.pressed = net.pressed,
             ui'.confirming = ui.confirming, ui'.submitting = ui.submitting, ui'.drafts \subseteq ui.drafts
      PROVE  ReportInv'
    <2>1. \A c \in Handlers : Sensible(net.call[c])' /\ Confirms(c)' /\ Submits(c)'
        BY <1>1 DEF ReportInv, Sensible, Confirms, Submits
    <2>2. OneOfAKind'
        BY <1>1 DEF ReportInv, OneOfAKind
    <2>3. DraftsFit'
        <3>1. net.events \in Nat /\ net'.events \in Nat
            BY <1>0, <1>1 DEF ReportTypes, ReportUi
        <3>2. \A d \in Report!Draft : net'.events < d => net.events < d
            BY <1>1, <3>1 DEF Report!Draft
        <3> QED
            BY <1>1, <3>2 DEF ReportInv, DraftsFit
    <2> QED
        BY <1>1, <2>1, <2>2, <2>3 DEF ReportInv
<1>2. CASE Report!Type
    <2> DEFINE n == net.events + 1
    <2>1. n \in 0 .. MaxReportEvent /\ n >= net.events /\ n + 1 \in Report!Version /\ net' = [net EXCEPT !.events = n]
          /\ UNCHANGED db
        BY <1>0, <1>2 DEF Report!Type, Report!Event, Report!Spent, Report!Version, ReportTypes, ReportUi
    <2>2. \/ ui' = [ui EXCEPT !.text.raw = n + 1]
          \/ ui' = [ui EXCEPT !.text.sum = n + 1]
        BY <1>2 DEF Report!Type, Report!Fresh
    <2> HIDE DEF n
    <2>3. /\ ui' \in ReportUi
          /\ ui'.confirming = ui.confirming /\ ui'.submitting = ui.submitting /\ ui'.drafts = ui.drafts
        BY <1>0, <2>1, <2>2 DEF ReportTypes, ReportUi, Report!Text
    <2>4. ReportTypes' /\ net'.call = net.call /\ net'.events = n /\ net'.failed = net.failed
          /\ net'.crossed = net.crossed /\ net'.pressed = net.pressed
        BY <1>0, <2>1, <2>3 DEF ReportTypes, ReportUi
    <2> QED
        BY <1>1, <2>1, <2>3, <2>4
<1>3. CASE Report!CloseWarnings
    <2>1. ReportTypes' /\ ui'.confirming = ui.confirming /\ ui'.submitting = ui.submitting /\ ui'.drafts = ui.drafts
          /\ UNCHANGED <<net, db>>
        BY <1>0, <1>3 DEF Report!CloseWarnings, ReportTypes, ReportUi
    <2>2. net.events >= net.events
        BY <1>0 DEF ReportTypes, ReportUi
    <2> QED
        BY <1>1, <2>1, <2>2
<1>4. ASSUME NEW d \in Report!Draft, Report!RemoveDraft(d) PROVE ReportInv'
    <2>1. ui' = [ui EXCEPT !.drafts = ui.drafts \ {d}] /\ UNCHANGED <<net, db>>
        BY <1>4 DEF Report!RemoveDraft
    <2>2. ReportTypes' /\ ui'.confirming = ui.confirming /\ ui'.submitting = ui.submitting
          /\ ui'.drafts = ui.drafts \ {d}
        BY <1>0, <2>1 DEF ReportTypes, ReportUi
    <2>3. net.events >= net.events
        BY <1>0 DEF ReportTypes, ReportUi
    <2> QED
        BY <1>1, <2>1, <2>2, <2>3
<1> QED
    BY <1>2, <1>3, <1>4

\* A handler begins in a slot that is free: one that submits takes the text of the editor,
\* one that confirms a draft marks its row.
LEMMA HandlersBegin ==
    ASSUME ReportInv, NEW c \in Handlers, net.call[c].at = "idle", UNCHANGED db,
           NEW new \in HandlerRecord, Sensible(new), ReportTypes', new.at = "sent",
           net'.call = [net.call EXCEPT ![c] = new], net'.events >= net.events, net'.failed = net.failed,
           ui'.drafts = ui.drafts,
           new.does \notin {"none", "poll"} => c \in Call,
           new.draft = 0 => ui'.confirming = ui.confirming,
           new.draft # 0 => /\ new.draft \in ui.drafts \ ui.confirming
                            /\ ui'.confirming = ui.confirming \cup {new.draft},
           IF new.does \in Report!Submits
           THEN /\ ~ui.submitting /\ ui'.submitting /\ new.step = "save" /\ net'.pressed = new.text
                /\ ~net'.crossed => \A e \in Call : net.call[e].does \notin Report!Saves
           ELSE /\ ui'.submitting = ui.submitting /\ net'.pressed = net.pressed
                /\ IF new.does \in Report!Saves
                   THEN ~net'.crossed => ~net.crossed /\ \A e \in Call : net.call[e].does \notin Report!Submits
                   ELSE net'.crossed = net.crossed
    PROVE  ReportInv'
<1> DEFINE a == net.call[c]
<1>0. /\ a = Report!Idle /\ a.does = "none" /\ a.draft = 0 /\ OneOfAKind /\ DraftsFit
      /\ \A e \in Handlers : net'.call[e] = IF e = c THEN new ELSE net.call[e]
      /\ \A e \in Handlers : net.call[e] \in HandlerRecord /\ Sensible(net.call[e]) /\ Confirms(e) /\ Submits(e)
      /\ net.events \in Nat /\ net'.events \in Nat /\ new.draft \in Report!Draft \cup {0}
    BY ReportParts DEF Sensible, Report!Idle, HandlerRecord, ReportTypes, ReportUi
<1>1. Report!Submits \cap Report!Saves = {} /\ {"none", "poll", "draft"} \cap (Report!Submits \cup Report!Saves) = {}
    BY DEF Report!Submits, Report!Saves
\* Nothing of the new kind ran before.
<1>2. /\ new.draft # 0 => \A e \in Handlers : net.call[e].draft # new.draft
      /\ new.does \in Report!Submits => \A e \in Handlers : net.call[e].does \notin Report!Submits
    BY <1>0 DEF Confirms, Submits
<1>3. OneOfAKind'
    BY <1>0, <1>2 DEF OneOfAKind
<1>4. ASSUME NEW e \in Handlers PROVE Confirms(e)'
    <2>1. CASE e = c
        <3>1. new.draft # 0 => db.logs[new.draft] <= net.failed[new.draft]
            BY <1>0, <1>2 DEF DraftsFit
        <3> QED
            BY <1>0, <2>1, <3>1 DEF Confirms
    <2>2. CASE e # c
        BY <1>0, <2>2 DEF Confirms
    <2> QED
        BY <2>1, <2>2
<1>5. ASSUME NEW e \in Handlers PROVE Submits(e)'
    <2> SUFFICES ASSUME net'.call[e].does \in Report!Submits PROVE Submits(e)'
        BY DEF Submits
    <2>1. CASE e = c
        <3>1. ~net'.crossed => \A f \in Call : net'.call[f].does \notin Report!Saves
            BY <1>0, <1>1, <2>1 DEF Handlers
        <3>2. new.does \in Report!Submits
            BY <1>0, <2>1
        <3> QED
            BY <1>0, <2>1, <3>1, <3>2 DEF Submits
    <2>2. CASE e # c
        <3>1. net'.call[e] = net.call[e] /\ new.does \notin Report!Submits /\ e \in Call
            BY <1>0, <1>1, <1>2, <2>2 DEF Confirms
        <3>2. ~net'.crossed => ~net.crossed /\ \A f \in Call : net'.call[f].does \notin Report!Saves
            <4>1. CASE new.does \in Report!Saves
                BY <3>1, <4>1
            <4>2. CASE new.does \notin Report!Saves
                BY <1>0, <3>1, <4>2 DEF Submits, Handlers
            <4> QED
                BY <4>1, <4>2
        <3> QED
            BY <1>0, <3>1, <3>2 DEF Submits
    <2> QED
        BY <2>1, <2>2
<1>6. DraftsFit'
    <2> SUFFICES ASSUME NEW d \in Report!Draft
                 PROVE  /\ db.logs[d] <= 1 + net.failed[d]
                        /\ d \in ui.drafts /\ (\A e \in Handlers : net'.call[e].draft # d)
                           => db.logs[d] <= net.failed[d]
                        /\ net'.events < d /\ d <= MaxReportEvent =>
                              d \notin ui.drafts /\ db.logs[d] = 0 /\ \A e \in Handlers : net'.call[e].draft # d
        BY DEF DraftsFit
    <2>1. /\ d \in Nat /\ d # 0 /\ db.logs[d] <= 1 + net.failed[d]
          /\ d \in ui.drafts /\ (\A e \in Handlers : net.call[e].draft # d) => db.logs[d] <= net.failed[d]
          /\ net.events < d /\ d <= MaxReportEvent =>
                d \notin ui.drafts /\ db.logs[d] = 0 /\ \A e \in Handlers : net.call[e].draft # d
        BY <1>0 DEF DraftsFit, Report!Draft
    <2>2. (\A e \in Handlers : net'.call[e].draft # d) => \A e \in Handlers : net.call[e].draft # d
        BY <1>0, <2>1
    <2>3. net'.events < d /\ d <= MaxReportEvent => new.draft # d
        BY <1>0, <2>1
    <2> QED
        BY <1>0, <2>1, <2>2, <2>3
<1>7. \A e \in Handlers : Sensible(net.call[e])'
    BY <1>0 DEF Sensible
<1> QED
    BY <1>3, <1>4, <1>5, <1>6, <1>7 DEF ReportInv

\* A handler that was answered ends or goes on: a draft leaves the list with its handler,
\* unless the failure was told; new drafts are named for the event that made them.
LEMMA HandlersProceed ==
    ASSUME ReportInv, NEW c \in Handlers, UNCHANGED db, NEW new \in HandlerRecord, Sensible(new), ReportTypes',
           net'.call = [net.call EXCEPT ![c] = new], net'.events >= net.events,
           net'.crossed = net.crossed, net'.pressed = net.pressed,
           \/ new = Report!Idle
           \/ /\ new.does = net.call[c].does /\ new.draft = net.call[c].draft /\ new.at = "sent"
              /\ new.step \notin {"create", "save"}
              /\ new.step = "submit" => net.call[c].step = "save" /\ net.call[c].at = "ok",
           ui'.submitting = ui.submitting \/ (new = Report!Idle /\ net.call[c].does \in Report!Submits),
           \/ ui'.confirming = ui.confirming
           \/ new = Report!Idle /\ ui'.confirming = ui.confirming \ {net.call[c].draft},
           \/ ui'.drafts \subseteq ui.drafts
           \/ ui'.drafts = {net.events + 1} /\ net.events < MaxReportEvent /\ net'.events = net.events + 1,
           \/ /\ net'.failed = net.failed
              /\ net.call[c].draft # 0 /\ new = Report!Idle => net.call[c].draft \notin ui'.drafts
           \/ /\ new = Report!Idle /\ net.call[c].draft # 0
              /\ net'.failed = [net.failed EXCEPT ![net.call[c].draft] = @ + 1]
    PROVE  ReportInv'
<1> DEFINE a == net.call[c]
<1>0. /\ Report!Idle.does = "none" /\ Report!Idle.draft = 0 /\ OneOfAKind /\ DraftsFit
      /\ \A e \in Handlers : net'.call[e] = IF e = c THEN new ELSE net.call[e]
      /\ \A e \in Handlers : net.call[e] \in HandlerRecord /\ Sensible(net.call[e]) /\ Confirms(e) /\ Submits(e)
      /\ net.events \in Nat /\ net'.events \in Nat /\ MaxReportEvent \in Nat
      /\ db.logs \in [Report!Draft -> Nat] /\ net.failed \in [Report!Draft -> Nat]
      /\ net'.failed \in [Report!Draft -> Nat] /\ a.draft \in Report!Draft \cup {0}
    BY ReportParts DEF Report!Idle, HandlerRecord, ReportTypes, ReportUi
<1>1. Report!Submits \cap Report!Saves = {} /\ {"none", "poll", "draft"} \cap (Report!Submits \cup Report!Saves) = {}
    BY DEF Report!Submits, Report!Saves
<1>2. /\ new.does \in {"none", a.does} /\ new.draft \in {0, a.draft}
      /\ new.does # "none" => new # Report!Idle
      /\ new.draft # 0 => new # Report!Idle
    BY <1>0
<1>3. \A d \in Report!Draft : net.failed[d] <= net'.failed[d]
    <2>1. ASSUME NEW d \in Report!Draft, net'.failed = [net.failed EXCEPT ![a.draft] = @ + 1]
          PROVE  net.failed[d] <= net'.failed[d]
        <3>1. net'.failed[d] \in {net.failed[d], net.failed[d] + 1} /\ net.failed[d] \in Nat
            BY <1>0, <2>1
        <3> QED
            BY <3>1
    <2>2. ASSUME NEW d \in Report!Draft, net'.failed = net.failed PROVE net.failed[d] <= net'.failed[d]
        BY <1>0, <2>2
    <2> QED
        BY <2>1, <2>2
<1>4. OneOfAKind'
    BY <1>0, <1>1, <1>2 DEF OneOfAKind
<1>5. ASSUME NEW e \in Handlers PROVE Confirms(e)'
    <2>1. CASE e = c
        BY <1>0, <1>2, <2>1 DEF Confirms
    <2>2. CASE e # c
        <3>1. net.call[e].draft # 0 => net.call[e].draft \in ui'.confirming
            BY <1>0, <2>2 DEF Confirms, OneOfAKind
        <3>2. net.call[e].draft # 0 => /\ db.logs[net.call[e].draft] \in Nat /\ net.failed[net.call[e].draft] \in Nat
                                       /\ net'.failed[net.call[e].draft] \in Nat
                                       /\ net.failed[net.call[e].draft] <= net'.failed[net.call[e].draft]
            BY <1>0, <1>3 DEF HandlerRecord
        <3> QED
            BY <1>0, <2>2, <3>1, <3>2 DEF Confirms
    <2> QED
        BY <2>1, <2>2
<1>6. ASSUME NEW e \in Handlers PROVE Submits(e)'
    <2> SUFFICES ASSUME net'.call[e].does \in Report!Submits PROVE Submits(e)'
        BY DEF Submits
    <2>1. net.call[e].does = net'.call[e].does /\ (e = c => new # Report!Idle)
        BY <1>0, <1>1, <1>2
    <2>2. ui'.submitting = ui.submitting
        BY <1>0, <2>1 DEF OneOfAKind
    <2>3. ~net.crossed => \A f \in Call : net'.call[f].does \notin Report!Saves
        BY <1>0, <1>1, <1>2, <2>1 DEF Submits, Handlers
    <2>4. CASE e = c
        BY <1>0, <2>1, <2>2, <2>3, <2>4 DEF Submits
    <2>5. CASE e # c
        BY <1>0, <2>1, <2>2, <2>3, <2>5 DEF Submits
    <2> QED
        BY <2>4, <2>5
<1>7. DraftsFit'
    <2> SUFFICES ASSUME NEW d \in Report!Draft
                 PROVE  /\ db.logs[d] <= 1 + net'.failed[d]
                        /\ d \in ui'.drafts /\ (\A e \in Handlers : net'.call[e].draft # d)
                           => db.logs[d] <= net'.failed[d]
                        /\ net'.events < d /\ d <= MaxReportEvent =>
                              d \notin ui'.drafts /\ db.logs[d] = 0 /\ \A e \in Handlers : net'.call[e].draft # d
        BY DEF DraftsFit
    <2>0. d \in Nat /\ d # 0
        BY <1>0 DEF Report!Draft
    <2>1. /\ d \in Nat /\ d # 0 /\ db.logs[d] <= 1 + net.failed[d]
          /\ d \in ui.drafts /\ (\A e \in Handlers : net.call[e].draft # d) => db.logs[d] <= net.failed[d]
          /\ net.events < d /\ d <= MaxReportEvent =>
                d \notin ui.drafts /\ db.logs[d] = 0 /\ \A e \in Handlers : net.call[e].draft # d
          /\ db.logs[d] \in Nat /\ net.failed[d] \in Nat /\ net'.failed[d] \in Nat
          /\ net.failed[d] <= net'.failed[d]
        BY <1>0, <1>3, <2>0 DEF DraftsFit
    <2>2. db.logs[d] <= 1 + net'.failed[d]
        BY <2>1
    <2>3. ASSUME d \in ui'.drafts, \A e \in Handlers : net'.call[e].draft # d PROVE db.logs[d] <= net'.failed[d]
        <3>1. CASE a.draft # d
            <4>1. \A e \in Handlers : net.call[e].draft # d
                BY <1>0, <2>3, <3>1
            <4>2. CASE d \in ui.drafts
                BY <2>1, <4>1, <4>2
            <4>3. CASE d = net.events + 1 /\ net.events < MaxReportEvent
                <5>1. net.events < d /\ d <= MaxReportEvent
                    BY <1>0, <4>3
                <5> QED
                    BY <2>1, <5>1
            <4> QED
                BY <2>3, <4>2, <4>3
        <3>2. CASE a.draft = d
            <4>1. new = Report!Idle
                BY <1>0, <2>3, <3>2
            <4>2. net'.failed[d] = net.failed[d] + 1
                BY <1>0, <2>1, <2>3, <3>2, <4>1
            <4> QED
                BY <2>1, <4>2
        <3> QED
            BY <3>1, <3>2
    <2>4. ASSUME net'.events < d, d <= MaxReportEvent
          PROVE  d \notin ui'.drafts /\ db.logs[d] = 0 /\ \A e \in Handlers : net'.call[e].draft # d
        <3>1. (net.events < d /\ d # net.events + 1) \/ ui'.drafts \subseteq ui.drafts
            BY <1>0, <2>1, <2>4
        <3>2. net.events < d
            BY <1>0, <2>1, <2>4
        <3> QED
            BY <1>0, <1>2, <2>1, <2>4, <3>1, <3>2
    <2> QED
        BY <2>2, <2>3, <2>4
<1>8. \A e \in Handlers : Sensible(net.call[e])'
    BY <1>0 DEF Sensible
<1> QED
    BY <1>4, <1>5, <1>6, <1>7, <1>8 DEF ReportInv

\* The new state of a handler that has ended or goes on, and of the page.
LEMMA StepsTyped ==
    ASSUME ReportInv, NEW c \in Handlers, NEW new \in HandlerRecord, NEW n \in 0 .. MaxReportEvent,
           net' = [net EXCEPT !.call = [net.call EXCEPT ![c] = new], !.events = n],
           ui' \in ReportUi, UNCHANGED db
    PROVE  /\ ReportTypes' /\ net'.call = [net.call EXCEPT ![c] = new] /\ net'.events = n
           /\ net'.failed = net.failed /\ net'.crossed = net.crossed /\ net'.pressed = net.pressed
BY DEF ReportInv, ReportTypes

LEMMA Idles ==
    /\ Report!Idle \in HandlerRecord /\ Sensible(Report!Idle) /\ Report!Idle.does = "none"
    /\ Report!Idle.draft = 0 /\ Report!Idle.at = "idle" /\ Report!Idle.step = "none"
<1>1. MaxReportEvent \in Nat /\ 0 \in Report!Version
    BY Bounds DEF Report!Version
<1> QED
    BY <1>1 DEF Report!Idle, HandlerRecord, ReportRecord, Report!Text, Sensible, Report!Saves, Report!Submits

\* A handler ends and the page is what it shows then.
LEMMA HandlersFinish ==
    ASSUME ReportInv, NEW c \in Handlers, Report!Finish(c), UNCHANGED db, ui' \in ReportUi,
           ui'.submitting = ui.submitting \/ net.call[c].does \in Report!Submits,
           \/ ui'.confirming = ui.confirming
           \/ ui'.confirming = ui.confirming \ {net.call[c].draft},
           ui'.drafts \subseteq ui.drafts,
           net.call[c].draft # 0 => net.call[c].draft \notin ui'.drafts
    PROVE  ReportInv'
<1>1. net.events \in 0 .. MaxReportEvent /\ net.events >= net.events
    BY ReportParts
<1>2. net' = [net EXCEPT !.call = [net.call EXCEPT ![c] = Report!Idle], !.events = net.events]
    BY DEF Report!Finish, ReportInv, ReportTypes
<1>3. /\ ReportTypes' /\ net'.call = [net.call EXCEPT ![c] = Report!Idle] /\ net'.events = net.events
      /\ net'.failed = net.failed /\ net'.crossed = net.crossed /\ net'.pressed = net.pressed
    BY <1>1, <1>2, Idles, StepsTyped
<1> QED
    BY <1>1, <1>3, Idles, HandlersProceed

\* A handler goes on to its next call.
LEMMA HandlersGoOn ==
    ASSUME ReportInv, NEW c \in Handlers, NEW step \in {"today", "parse", "summary", "submit"},
           NEW new \in HandlerRecord, new.does = net.call[c].does, new.draft = net.call[c].draft,
           new.at = "sent", new.step = step, NEW n \in 0 .. MaxReportEvent, n >= net.events,
           net' = [net EXCEPT !.call = [net.call EXCEPT ![c] = new], !.events = n],
           UNCHANGED db, ui' \in ReportUi, ui'.submitting = ui.submitting, ui'.confirming = ui.confirming,
           \/ ui'.drafts = ui.drafts
           \/ ui'.drafts = {net.events + 1} /\ net.events < MaxReportEvent /\ n = net.events + 1,
           step = "submit" => /\ net.call[c].step = "save" /\ net.call[c].at = "ok"
                              /\ net.call[c].does \in Report!Submits,
           step \in {"parse", "summary"} => net.call[c].does \in Report!Saves,
           step # "today" => net.call[c].does # "draft",
           net.call[c].at # "idle"
    PROVE  ReportInv'
<1>1. net.call[c] \in HandlerRecord /\ Sensible(net.call[c])
    BY ReportParts
<1>2. Sensible(new)
    BY <1>1 DEF Sensible
<1>3. /\ ReportTypes' /\ net'.call = [net.call EXCEPT ![c] = new] /\ net'.events = n
      /\ net'.failed = net.failed /\ net'.crossed = net.crossed /\ net'.pressed = net.pressed
    BY StepsTyped
<1>4. new.step \notin {"create", "save"} /\ new # Report!Idle
    BY Idles
<1> QED
    BY <1>2, <1>3, <1>4, HandlersProceed

LEMMA AnswersAreTaken ==
    ASSUME ReportInv, NEW c \in Handlers,
           \/ Report!AnswerPoll(c) \/ Report!AfterSave(c) \/ Report!AfterParse(c) \/ Report!AfterSummary(c)
           \/ Report!AfterSubmit(c) \/ Report!AfterWrite(c) \/ Report!AfterToday(c)
    PROVE  ReportInv'
<1> DEFINE a == net.call[c]
<1>0. /\ a \in HandlerRecord /\ Sensible(a) /\ ui \in ReportUi /\ UNCHANGED db
      /\ ui.text \in Report!Text /\ ui.drafts \in SUBSET Report!Draft /\ ui.confirming \in SUBSET Report!Draft
      /\ a.report \in ReportRecord /\ a.text \in Report!Text /\ Report!TextOf(a.report) \in Report!Text
      /\ net.events \in 0 .. MaxReportEvent /\ net.events \in Nat /\ MaxReportEvent \in Nat
      /\ a.draft # 0 <=> a.does = "draft"
      /\ net.call \in [Handlers -> HandlerRecord]
    BY ReportParts DEF ReportInv, ReportTypes, HandlerRecord, Sensible, Report!TextOf, ReportRecord, Report!Text,
       Report!AnswerPoll, Report!AfterSave, Report!AfterParse, Report!AfterSummary,
       Report!AfterSubmit, Report!AfterWrite, Report!AfterToday
\* An answer that is taken as it is.
<1>1. ASSUME NEW s \in BOOLEAN, ui' = [ui EXCEPT !.report = a.report, !.text = Report!TextOf(a.report)]
      PROVE  ui' \in ReportUi /\ ui'.submitting = ui.submitting /\ ui'.confirming = ui.confirming
             /\ ui'.drafts = ui.drafts
    BY <1>0, <1>1 DEF ReportUi
<1>2. CASE Report!AnswerPoll(c)
    <2>1. Report!Finish(c) /\ a.draft = 0
        BY <1>0, <1>2 DEF Report!AnswerPoll, Report!Finish
    <2>2. CASE ui' = ui
        BY <1>0, <2>1, <2>2, HandlersFinish
    <2>3. CASE ui' = [ui EXCEPT !.report = a.report, !.text = Report!TextOf(a.report)]
        BY <1>0, <1>1, <2>1, <2>3, HandlersFinish
    <2> QED
        BY <1>2, <2>2, <2>3 DEF Report!AnswerPoll
<1>3. CASE Report!AfterSave(c)
    <2>0. a.step = "save" /\ a.at = "ok" /\ ui' = Report!Taken(a) /\ a.draft = 0
        BY <1>0, <1>3 DEF Report!AfterSave, Sensible, Report!Saves, Report!Submits
    <2>1. ui' \in ReportUi /\ ui'.submitting = ui.submitting /\ ui'.confirming = ui.confirming
          /\ ui'.drafts = ui.drafts
        <3>1. CASE a.does = "summary"
            <4>1. ui' = [ui EXCEPT !.report = a.report, !.text = ui.text]
                BY <2>0, <3>1 DEF Report!Taken
            <4> QED
                BY <1>0, <4>1 DEF ReportUi
        <3>2. CASE a.does # "summary"
            <4>1. ui' = [ui EXCEPT !.report = a.report, !.text = Report!TextOf(a.report)]
                BY <2>0, <3>2 DEF Report!Taken
            <4> QED
                BY <1>1, <4>1
        <3> QED
            BY <3>1, <3>2
    <2>2. CASE Report!Finish(c)
        BY <1>0, <2>0, <2>1, <2>2, HandlersFinish
    <2>3. ASSUME NEW step \in {"parse", "submit"}, Report!Then(c, step, a.text),
                 step = "submit" => a.does \in Report!Submits, step = "parse" => a.does \in Report!Saves
          PROVE  ReportInv'
        <3> DEFINE new == [net.call[c] EXCEPT !.step = step, !.at = "sent", !.text = a.text]
        <3>1. net' = [net EXCEPT !.call = [net.call EXCEPT ![c] = new], !.events = net.events]
            BY <1>0, <2>3 DEF Report!Then, ReportInv, ReportTypes
        <3>2. net.events >= net.events
            BY <1>0
        <3>3. new \in HandlerRecord /\ new.does = a.does /\ new.draft = a.draft /\ new.at = "sent" /\ new.step = step
            BY <1>0 DEF HandlerRecord
        <3> HIDE DEF new
        <3> QED
            BY <1>0, <2>0, <2>1, <2>3, <3>1, <3>2, <3>3, HandlersGoOn
    <2>4. a.does \in Report!Saves \cup Report!Submits
        BY <1>0, <2>0 DEF Sensible
    <2> QED
        BY <1>3, <2>2, <2>3, <2>4 DEF Report!AfterSave, Report!Saves, Report!Submits
<1>4. CASE Report!AfterParse(c)
    <2> DEFINE n == net.events + 1
               text == [ui.text EXCEPT !.sum = n + 1]
    <2>0. a.step = "parse" /\ a.at = "ok" /\ a.draft = 0 /\ a.does \in Report!Saves
        BY <1>0, <1>4 DEF Report!AfterParse, Sensible, Report!Saves
    <2>1. /\ net.events < MaxReportEvent /\ n \in 0 .. MaxReportEvent /\ n >= net.events
          /\ n + 1 \in Report!Version /\ n \in Report!Draft
        BY <1>0, <1>4 DEF Report!AfterParse, Report!Event, Report!Version, Report!Draft
    <2>2. text \in Report!Text
        BY <1>0, <2>1 DEF Report!Text
    <2>3. CASE ui' = [ui EXCEPT !.ai = FALSE] /\ Report!Finish(c)
        <3>1. ui' \in ReportUi /\ ui'.submitting = ui.submitting /\ ui'.confirming = ui.confirming
              /\ ui'.drafts = ui.drafts
            BY <1>0, <2>3 DEF ReportUi
        <3> QED
            BY <1>0, <2>0, <2>3, <3>1, HandlersFinish
    <2> HIDE DEF n, text
    <2>4. ASSUME NEW u \in ReportUi, u.submitting = ui.submitting, u.confirming = ui.confirming,
                 u.drafts = ui.drafts \/ u.drafts = {n}, ui' = [u EXCEPT !.text = text],
                 net' = [Report!Spent(net) EXCEPT !.call[c] = [@ EXCEPT !.step = "summary", !.at = "sent",
                                                                         !.text = text]]
          PROVE  ReportInv'
        <3>1. ui' \in ReportUi /\ ui'.submitting = ui.submitting /\ ui'.confirming = ui.confirming
              /\ (ui'.drafts = ui.drafts \/ ui'.drafts = {n})
            BY <2>2, <2>4 DEF ReportUi
        <3> DEFINE new == [net.call[c] EXCEPT !.step = "summary", !.at = "sent", !.text = text]
        <3>2. net' = [net EXCEPT !.call = [net.call EXCEPT ![c] = new], !.events = n]
            BY <1>0, <2>4 DEF Report!Spent, ReportInv, ReportTypes, n
        <3>3. ui'.drafts = ui.drafts \/ (ui'.drafts = {net.events + 1} /\ n = net.events + 1)
            BY <3>1 DEF n
        <3>4. new \in HandlerRecord /\ new.does = a.does /\ new.draft = a.draft /\ new.at = "sent"
              /\ new.step = "summary"
            BY <1>0, <2>2 DEF HandlerRecord
        <3> HIDE DEF new
        <3> QED
            BY <1>0, <2>0, <2>1, <3>1, <3>2, <3>3, <3>4, HandlersGoOn DEF Report!Saves
    <2>5. ASSUME NEW u \in ReportUi, u.submitting = ui.submitting, u.confirming = ui.confirming,
                 u.drafts = ui.drafts \/ u.drafts = {n}, ui' = [u EXCEPT !.ai = FALSE],
                 net' = [Report!Spent(net) EXCEPT !.call[c] = Report!Idle]
          PROVE  ReportInv'
        <3>1. ui' \in ReportUi /\ ui'.submitting = ui.submitting /\ ui'.confirming = ui.confirming
              /\ (ui'.drafts = ui.drafts \/ ui'.drafts = {n})
            BY <2>5 DEF ReportUi
        <3>2. net' = [net EXCEPT !.call = [net.call EXCEPT ![c] = Report!Idle], !.events = n]
            BY <1>0, <2>5 DEF Report!Spent, ReportInv, ReportTypes, n
        <3>3. /\ ReportTypes' /\ net'.call = [net.call EXCEPT ![c] = Report!Idle] /\ net'.events = n
              /\ net'.failed = net.failed /\ net'.crossed = net.crossed /\ net'.pressed = net.pressed
            BY <1>0, <2>1, <3>1, <3>2, Idles, StepsTyped
        <3>4. \/ ui'.drafts \subseteq ui.drafts
              \/ ui'.drafts = {net.events + 1} /\ n = net.events + 1
            BY <3>1 DEF n
        <3> QED
            BY <1>0, <2>0, <2>1, <3>1, <3>3, <3>4, Idles, HandlersProceed
    <2>6. ASSUME NEW u, u = [ui EXCEPT !.drafts = {n}]
          PROVE  u \in ReportUi /\ u.submitting = ui.submitting /\ u.confirming = ui.confirming /\ u.drafts = {n}
        BY <1>0, <2>1, <2>6 DEF ReportUi
    <2>7. PICK u \in {ui, [ui EXCEPT !.drafts = {n}]} :
             \/ ui' = [u EXCEPT !.text = text]
                /\ net' = [Report!Spent(net) EXCEPT !.call[c] = [@ EXCEPT !.step = "summary", !.at = "sent",
                                                                         !.text = text]]
             \/ ui' = [u EXCEPT !.ai = FALSE] /\ net' = [Report!Spent(net) EXCEPT !.call[c] = Report!Idle]
             \/ ui' = [ui EXCEPT !.ai = FALSE] /\ Report!Finish(c)
        <3> USE DEF n, text
        <3> QED
            BY <1>4 DEF Report!AfterParse, Report!Fresh
    <2>8. u \in ReportUi /\ u.submitting = ui.submitting /\ u.confirming = ui.confirming
          /\ (u.drafts = ui.drafts \/ u.drafts = {n})
        BY <1>0, <2>6
    <2> QED
        BY <2>3, <2>4, <2>5, <2>7, <2>8
<1>5. CASE Report!AfterSummary(c)
    <2>1. /\ ui' = [ui EXCEPT !.report = a.report, !.ai = FALSE] /\ Report!Finish(c) /\ a.draft = 0
        BY <1>0, <1>5 DEF Report!AfterSummary, Sensible, Report!Saves
    <2>2. ui' \in ReportUi /\ ui'.submitting = ui.submitting /\ ui'.confirming = ui.confirming
          /\ ui'.drafts = ui.drafts
        BY <1>0, <2>1 DEF ReportUi
    <2> QED
        BY <1>0, <2>1, <2>2, HandlersFinish
<1>6. CASE Report!AfterSubmit(c)
    <2>1. /\ ui' = [ui EXCEPT !.report = a.report, !.submitting = FALSE, !.warned = a.at = "blocked"]
          /\ Report!Finish(c) /\ a.draft = 0 /\ a.does \in Report!Submits
        BY <1>0, <1>6 DEF Report!AfterSubmit, Sensible, Report!Submits
    <2>2. ui' \in ReportUi /\ ui'.confirming = ui.confirming /\ ui'.drafts = ui.drafts
        BY <1>0, <2>1 DEF ReportUi
    <2> QED
        BY <1>0, <2>1, <2>2, HandlersFinish
<1>7. CASE Report!AfterWrite(c)
    <2>1. Report!Then(c, "today", a.text) /\ ui' = ui /\ a.at = "ok"
        BY <1>7 DEF Report!AfterWrite
    <2> DEFINE new == [net.call[c] EXCEPT !.step = "today", !.at = "sent", !.text = a.text]
    <2>2. net' = [net EXCEPT !.call = [net.call EXCEPT ![c] = new], !.events = net.events]
        BY <1>0, <2>1 DEF Report!Then, ReportInv, ReportTypes
    <2>3. net.events >= net.events
        BY <1>0
    <2>4. new \in HandlerRecord /\ new.does = a.does /\ new.draft = a.draft /\ new.at = "sent" /\ new.step = "today"
        BY <1>0 DEF HandlerRecord
    <2> HIDE DEF new
    <2> QED
        BY <1>0, <2>1, <2>2, <2>3, <2>4, HandlersGoOn
<1>8. CASE Report!AfterToday(c)
    <2>1. /\ ui' = [ui EXCEPT !.report = a.report, !.drafts = @ \ {a.draft}, !.confirming = @ \ {a.draft}]
          /\ Report!Finish(c)
        BY <1>8 DEF Report!AfterToday
    <2>2. ui' \in ReportUi /\ ui'.submitting = ui.submitting /\ ui'.confirming = ui.confirming \ {a.draft}
          /\ ui'.drafts = ui.drafts \ {a.draft}
        BY <1>0, <2>1 DEF ReportUi
    <2> QED
        BY <1>0, <2>1, <2>2, HandlersFinish
<1> QED
    BY <1>2, <1>3, <1>4, <1>5, <1>6, <1>7, <1>8, SMTT(30)

\* A handler fails and tells so: the flags it set are cleared.
LEMMA FailuresAreTold ==
    ASSUME ReportInv, NEW c \in Call, Report!AfterFailure(c)
    PROVE  ReportInv'
<1> DEFINE a == net.call[c]
<1>0. /\ c \in Handlers /\ a \in HandlerRecord /\ ui \in ReportUi /\ UNCHANGED db
      /\ net.events \in 0 .. MaxReportEvent /\ net.events >= net.events
      /\ net.failed \in [Report!Draft -> Nat] /\ net.crossed \in BOOLEAN /\ net.pressed \in Report!Text
      /\ a.draft \in Report!Draft \cup {0} /\ 0 \notin Report!Draft
      /\ Report!Idle \in HandlerRecord /\ Sensible(Report!Idle)
    BY ReportParts, Idles DEF ReportInv, ReportTypes, HandlerRecord, Report!AfterFailure, Handlers, Report!Draft
<1> DEFINE ai == ui.ai /\ a.does \notin {"organize", "summary"}
           submitting == ui.submitting /\ a.does \notin Report!Submits
           failed == IF a.draft = 0 THEN net.failed ELSE [net.failed EXCEPT ![a.draft] = @ + 1]
<1>1. /\ ai \in BOOLEAN /\ submitting \in BOOLEAN
      /\ submitting = ui.submitting \/ a.does \in Report!Submits
    BY <1>0 DEF ReportUi
<1>2. /\ failed \in [Report!Draft -> Nat]
      /\ a.draft = 0 => failed = net.failed
      /\ a.draft # 0 => failed = [net.failed EXCEPT ![a.draft] = @ + 1]
    BY <1>0
<1>3. ui' = [ui EXCEPT !.ai = ai, !.submitting = submitting, !.confirming = ui.confirming \ {a.draft}]
    BY Zenon DEF Report!AfterFailure, Report!Abandons
<1>4. net' = [net EXCEPT !.call = [net.call EXCEPT ![c] = Report!Idle], !.events = net.events,
                         !.failed = failed, !.crossed = net.crossed, !.pressed = net.pressed]
    <2>1. net' = [net EXCEPT !.call = [net.call EXCEPT ![c] = Report!Idle], !.failed = failed]
        <3>1. CASE a.draft = 0
            <4>1. net' = [net EXCEPT !.call = [net.call EXCEPT ![c] = Report!Idle], !.failed = net.failed]
                BY <3>1 DEF Report!AfterFailure, Report!Abandons
            <4> QED
                BY <3>1, <4>1
        <3>2. CASE a.draft # 0
            <4>1. net' = [net EXCEPT !.call = [net.call EXCEPT ![c] = Report!Idle],
                                     !.failed = [net.failed EXCEPT ![a.draft] = @ + 1]]
                BY <3>2 DEF Report!AfterFailure, Report!Abandons
            <4> QED
                BY <3>2, <4>1
        <3> QED
            BY <3>1, <3>2
    <2> HIDE DEF failed
    <2> QED
        BY <2>1 DEF ReportInv, ReportTypes
<1> HIDE DEF ai, submitting, failed
<1>5. /\ ui' \in ReportUi /\ ui'.submitting = submitting /\ ui'.drafts = ui.drafts
      /\ ui'.confirming = ui.confirming \ {a.draft}
    BY <1>0, <1>1, <1>3 DEF ReportUi
<1>6. /\ ReportTypes' /\ net'.call = [net.call EXCEPT ![c] = Report!Idle] /\ net'.events = net.events
      /\ net'.failed = failed /\ net'.crossed = net.crossed /\ net'.pressed = net.pressed
    BY <1>0, <1>2, <1>4, <1>5 DEF ReportInv, ReportTypes
<1> QED
    BY <1>0, <1>1, <1>2, <1>5, <1>6, HandlersProceed

\* The buttons of the page, and the poll.
LEMMA HandlersStart ==
    ASSUME ReportInv, NEW c \in Handlers,
           \/ c \in Poll /\ Report!StartPoll(c)
           \/ /\ c \in Call
              /\ \/ Report!SaveRaw(c) \/ Report!WriteOther(c)
                 \/ \E does \in {"organize", "summary"} : Report!Organize(c, does)
                 \/ \E force \in BOOLEAN : Report!Submit(c, force)
    PROVE  ReportInv'
<1>0. /\ ui \in ReportUi /\ net.call[c].at = "idle" /\ MaxReportEvent \in Nat
      /\ net.events \in 0 .. MaxReportEvent /\ net.events >= net.events
      /\ net.failed \in [Report!Draft -> Nat] /\ net.crossed \in BOOLEAN /\ net.pressed \in Report!Text
      /\ ui.text \in Report!Text /\ UNCHANGED db /\ ui.submitting \in BOOLEAN
    <2>1. net.call[c].at = "idle" /\ UNCHANGED db
        BY Zenon DEF Report!StartPoll, Report!SaveRaw, Report!WriteOther, Report!Organize, Report!Submit, Report!Start
    <2> QED
        BY <2>1, ReportParts DEF ReportInv, ReportTypes
<1>1. CASE Report!StartPoll(c)
    <2> DEFINE new == [Report!Idle EXCEPT !.does = "poll", !.step = "today", !.at = "sent"]
    <2>1. /\ new \in HandlerRecord /\ Sensible(new) /\ new.at = "sent" /\ new.does = "poll" /\ new.draft = 0
        BY Idles DEF HandlerRecord, Sensible, Report!Saves, Report!Submits
    <2>2. /\ net' = [net EXCEPT !.call = [net.call EXCEPT ![c] = new], !.events = net.events] /\ ui' = ui
        BY <1>1 DEF Report!StartPoll, ReportInv, ReportTypes
    <2> HIDE DEF new
    <2>3. /\ ReportTypes' /\ net'.call = [net.call EXCEPT ![c] = new] /\ net'.events = net.events
          /\ net'.failed = net.failed /\ net'.crossed = net.crossed /\ net'.pressed = net.pressed
        BY <1>0, <2>1, <2>2, StepsTyped
    <2> QED
        BY <1>0, <2>1, <2>2, <2>3, HandlersBegin DEF Report!Saves, Report!Submits
<1>2. ASSUME c \in Call, NEW does \in {"other"} \cup Report!Saves \cup Report!Submits, NEW step \in {"save", "write"},
             step = "write" <=> does = "other",
             Report!Event, Report!Start(c, does, step), ui' \in ReportUi, ui'.drafts = ui.drafts,
             ui'.confirming = ui.confirming,
             IF does \in Report!Submits THEN ~ui.submitting /\ ui'.submitting ELSE ui'.submitting = ui.submitting
      PROVE  ReportInv'
    <2> DEFINE new == [Report!Idle EXCEPT !.does = does, !.step = step, !.at = "sent", !.text = ui.text]
               n == net.events + 1
               crossed == IF does \in Report!Submits THEN Report!Runs(Report!Saves)
                          ELSE net.crossed \/ (does \in Report!Saves /\ Report!Runs(Report!Submits))
               pressed == IF does \in Report!Submits THEN ui.text ELSE net.pressed
    <2>1. /\ new \in HandlerRecord /\ new.at = "sent" /\ new.does = does /\ new.draft = 0
          /\ new.step = step /\ new.text = ui.text
        BY <1>0, <1>2, Idles DEF HandlerRecord
    <2>2. Sensible(new)
        BY <1>2, <2>1 DEF Sensible, Report!Saves, Report!Submits
    <2>3. /\ crossed \in BOOLEAN /\ pressed \in Report!Text
          /\ does \in Report!Submits => pressed = ui.text
          /\ does \notin Report!Submits => pressed = net.pressed
          /\ does \in Report!Submits /\ ~crossed => \A e \in Call : net.call[e].does \notin Report!Saves
        BY <1>0 DEF Report!Runs
    <2>4. does \in Report!Saves => does \notin Report!Submits
        BY DEF Report!Saves, Report!Submits
    <2>5. /\ does \in Report!Saves /\ ~crossed => ~net.crossed /\ \A e \in Call : net.call[e].does \notin Report!Submits
          /\ does \notin Report!Saves /\ does \notin Report!Submits => crossed = net.crossed
        BY <1>0, <2>4 DEF Report!Runs
    <2>6. n \in 0 .. MaxReportEvent /\ n >= net.events
        BY <1>0, <1>2 DEF Report!Event
    <2>7. net' = [net EXCEPT !.call = [net.call EXCEPT ![c] = new], !.events = n, !.failed = net.failed,
                             !.crossed = crossed, !.pressed = pressed]
        <3>1. net' = [net EXCEPT !.events = n, !.call = [net.call EXCEPT ![c] = new],
                                 !.crossed = crossed, !.pressed = pressed]
            BY <1>2, Zenon DEF Report!Start, Report!Spent
        <3> HIDE DEF new, n, crossed, pressed
        <3> QED
            BY <3>1 DEF ReportInv, ReportTypes
    <2> HIDE DEF new, n, crossed, pressed
    <2>8. /\ ReportTypes' /\ net'.call = [net.call EXCEPT ![c] = new] /\ net'.events = n
          /\ net'.failed = net.failed /\ net'.crossed = crossed /\ net'.pressed = pressed
        BY <1>0, <1>2, <2>1, <2>3, <2>6, <2>7 DEF ReportInv, ReportTypes
    <2>9. IF new.does \in Report!Submits
          THEN /\ ~ui.submitting /\ ui'.submitting /\ new.step = "save" /\ net'.pressed = new.text
               /\ ~net'.crossed => \A e \in Call : net.call[e].does \notin Report!Saves
          ELSE /\ ui'.submitting = ui.submitting /\ net'.pressed = net.pressed
               /\ IF new.does \in Report!Saves
                  THEN ~net'.crossed => ~net.crossed /\ \A e \in Call : net.call[e].does \notin Report!Submits
                  ELSE net'.crossed = net.crossed
        <3>1. CASE does \in Report!Submits
            <4>1. step = "save"
                BY <1>2, <3>1 DEF Report!Submits
            <4> QED
                BY <1>2, <2>1, <2>3, <2>8, <3>1, <4>1
        <3>2. CASE does \notin Report!Submits
            BY <1>2, <2>1, <2>3, <2>5, <2>8, <3>2
        <3> QED
            BY <3>1, <3>2
    <2> QED
        BY <1>0, <1>2, <2>1, <2>2, <2>6, <2>8, <2>9, HandlersBegin
<1>3. CASE Report!SaveRaw(c) /\ c \in Call
    BY <1>0, <1>2, <1>3 DEF Report!SaveRaw, Report!Saves, Report!Submits
<1>4. CASE Report!WriteOther(c) /\ c \in Call
    BY <1>0, <1>2, <1>4 DEF Report!WriteOther, Report!Saves, Report!Submits
<1>5. ASSUME c \in Call, NEW does \in {"organize", "summary"}, Report!Organize(c, does) PROVE ReportInv'
    <2>1. ui' \in ReportUi /\ ui'.drafts = ui.drafts /\ ui'.confirming = ui.confirming
          /\ ui'.submitting = ui.submitting
        BY <1>0, <1>5 DEF Report!Organize, ReportUi
    <2> QED
        BY <1>0, <1>2, <1>5, <2>1 DEF Report!Organize, Report!Saves, Report!Submits
<1>6. ASSUME c \in Call, NEW force \in BOOLEAN, Report!Submit(c, force) PROVE ReportInv'
    <2>1. ui' \in ReportUi /\ ui'.drafts = ui.drafts /\ ui'.confirming = ui.confirming
          /\ ~ui.submitting /\ ui'.submitting
        BY <1>0, <1>6 DEF Report!Submit, ReportUi
    <2> DEFINE does == IF force THEN "force" ELSE "submit"
    <2>2. does \in Report!Submits /\ does # "other" /\ Report!Start(c, does, "save") /\ Report!Event
        BY <1>6 DEF Report!Submit, Report!Submits
    <2> HIDE DEF does
    <2> QED
        BY <1>2, <1>6, <2>1, <2>2
<1> QED
    BY <1>1, <1>3, <1>4, <1>5, <1>6

\* A draft is confirmed once at a time: its row shows the handler.
LEMMA DraftsAreConfirmed ==
    ASSUME ReportInv, NEW c \in Call, NEW d \in Report!Draft, Report!ConfirmDraft(c, d)
    PROVE  ReportInv'
<1>0. /\ ui \in ReportUi /\ net.call[c].at = "idle" /\ MaxReportEvent \in Nat /\ c \in Handlers
      /\ net.events \in 0 .. MaxReportEvent /\ d # 0
      /\ UNCHANGED db /\ ui.submitting \in BOOLEAN
    BY ReportParts DEF ReportInv, ReportTypes, Report!ConfirmDraft, Handlers, Report!Draft
<1> DEFINE new == [Report!Idle EXCEPT !.does = "draft", !.step = "create", !.at = "sent", !.draft = d]
           n == net.events + 1
<1>1. new \in HandlerRecord /\ new.at = "sent" /\ new.does = "draft" /\ new.draft = d /\ new.step = "create"
    BY Idles DEF HandlerRecord
<1>2. Sensible(new)
    BY <1>0, <1>1 DEF Sensible
<1>3. n \in 0 .. MaxReportEvent /\ n >= net.events
    BY <1>0 DEF Report!ConfirmDraft, Report!Event
<1>4. net' = [net EXCEPT !.call = [net.call EXCEPT ![c] = new], !.events = n]
    <2>1. net' = [net EXCEPT !.events = n, !.call = [net.call EXCEPT ![c] = new]]
        BY Zenon DEF Report!ConfirmDraft, Report!Spent
    <2> HIDE DEF new, n
    <2> QED
        BY <2>1 DEF ReportInv, ReportTypes
<1> HIDE DEF new, n
<1>5. /\ ui' \in ReportUi /\ ui'.drafts = ui.drafts /\ ui'.confirming = ui.confirming \cup {d}
      /\ ui'.submitting = ui.submitting /\ d \in ui.drafts \ ui.confirming
    BY <1>0 DEF Report!ConfirmDraft, Report!MayConfirm, ReportUi
<1>6. /\ ReportTypes' /\ net'.call = [net.call EXCEPT ![c] = new] /\ net'.events = n
      /\ net'.failed = net.failed /\ net'.crossed = net.crossed /\ net'.pressed = net.pressed
    BY <1>0, <1>1, <1>3, <1>4, <1>5, StepsTyped
<1> QED
    BY <1>0, <1>1, <1>2, <1>3, <1>5, <1>6, HandlersBegin DEF Report!Saves, Report!Submits

LEMMA ReportStep ==
    ASSUME ReportInv, Report!Next \/ UNCHANGED still
    PROVE  ReportInv'
<1>1. CASE UNCHANGED still
    BY <1>1 DEF still, ReportInv, ReportTypes, Sensible, Confirms, Submits, OneOfAKind, DraftsFit
<1>2. ASSUME NEW c \in Call, Report!After(c) PROVE ReportInv'
    BY <1>2, AnswersAreTaken, FailuresAreTold DEF Report!After, Handlers
<1>3. ASSUME NEW c \in Poll, Report!StartPoll(c) \/ Report!AnswerPoll(c) PROVE ReportInv'
    BY <1>3, HandlersStart, AnswersAreTaken DEF Handlers
<1>4. ASSUME NEW c \in Handlers, Report!ServePage(c) PROVE ReportInv'
    BY <1>4, ReportIsServed
<1>5. ASSUME NEW c \in Call,
             \/ Report!SaveRaw(c) \/ Report!WriteOther(c)
             \/ \E does \in {"organize", "summary"} : Report!Organize(c, does)
             \/ \E force \in BOOLEAN : Report!Submit(c, force)
      PROVE  ReportInv'
    BY <1>5, HandlersStart DEF Handlers
<1> QED
    BY <1>1, <1>2, <1>3, <1>4, <1>5, EditorKeeps, DraftsAreConfirmed DEF Report!Next, Handlers

LEMMA ReportTyping == ReportInv => Report!TypeOK
BY DEF ReportInv, ReportTypes, ReportUi, ReportRecord, HandlerRecord, Handlers, Report!TypeOK

\* Only the server submits, and the text on it is then the one the button was pressed on.
LEMMA SubmitsTheText ==
    ASSUME ReportInv, Report!Next
    PROVE  Report!SubmitsTheShown
<1> SUFFICES ASSUME db.report.status = "draft", db'.report.status = "submitted", ~net.crossed
             PROVE  Report!TextOf(db'.report) = net.pressed
    BY DEF Report!SubmitsTheShown
<1>0. db.report \in ReportRecord /\ db \in [report : ReportRecord, logs : [Report!Draft -> Nat]]
    BY ReportParts DEF ReportInv, ReportTypes
<1>1. db' # db
    BY Zenon
<1>2. PICK c \in Handlers : Report!ServePage(c)
    BY <1>1, Zenon DEF Report!Next, Report!Type, Report!CloseWarnings, Report!StartPoll, Report!AnswerPoll,
       Report!SaveRaw, Report!WriteOther, Report!Organize, Report!Submit, Report!Start, Report!ConfirmDraft,
       Report!RemoveDraft, Report!After, Report!AfterSave, Report!AfterParse, Report!AfterSummary,
       Report!AfterSubmit, Report!AfterWrite, Report!AfterToday, Report!AfterFailure, Handlers
<1>3. /\ net.call[c].step = "submit" /\ db' = [db EXCEPT !.report.status = "submitted"]
    <2>1. ~Report!ServeSave(c)
        <3> SUFFICES ASSUME NEW r, NEW s, db' = [db EXCEPT !.report.raw = r, !.report.sum = s] PROVE FALSE
            BY <1>1 DEF Report!ServeSave, Report!Refuse, Report!NeverArrives
        <3> QED
            BY <1>0 DEF ReportRecord
    <2>2. ~Report!ServeSummary(c)
        BY <1>0 DEF Report!ServeSummary, Report!Refuse, ReportRecord
    <2>3. ~Report!ServeWrite(c)
        BY <1>0, <1>1 DEF Report!ServeWrite, Report!NeverArrives
    <2>4. Report!ServeSubmit(c)
        BY <1>1, <1>2, <2>1, <2>2, <2>3 DEF Report!ServePage, Report!ServeParse, Report!ServeToday
    <2> QED
        BY <1>1, <2>4 DEF Report!ServeSubmit, Report!Refuse
<1>4. Report!TextOf(db'.report) = Report!TextOf(db.report)
    BY <1>0, <1>3 DEF Report!TextOf, ReportRecord
<1>5. Sensible(net.call[c]) /\ Submits(c)
    BY ReportParts
<1> QED
    BY <1>3, <1>4, <1>5 DEF Sensible, Submits
-----------------------------------------------------------------------------
(* The pages whose invariants are proved beside their modules. An instance *)
(* of those proofs has definitions of its own, which say the same.         *)

SessionProofs == INSTANCE WebSessionProofs WITH Kind <- RequestKind, Target <- Destination
DashboardProofs == INSTANCE ProjectPageProofs WITH User <- Person, MaxEvent <- MaxProjectEvent
ItemsProofs == INSTANCE StepItemsProofs
UpdateProofs == INSTANCE UpdateStreamProofs WITH MaxTrouble <- MaxUpdateTrouble

LEMMA SessionInitsAgree == Session!Init => SessionProofs!Init
BY Zenon DEF Session!NoUser, SessionProofs!NoUser, Session!Request, SessionProofs!Request,
       Session!Flight, SessionProofs!Flight, Session!FreshTab, SessionProofs!FreshTab,
       Session!FreshRequest, SessionProofs!FreshRequest, Session!NoFlight,
       SessionProofs!NoFlight, Session!Init, SessionProofs!Init

LEMMA SessionStepsAgree == Session!Next => SessionProofs!Next
BY Zenon DEF Session!NoUser, SessionProofs!NoUser, Session!Request, SessionProofs!Request,
       Session!Flight, SessionProofs!Flight, Session!client, SessionProofs!client,
       Session!server, SessionProofs!server, Session!Trouble, SessionProofs!Trouble,
       Session!Role, SessionProofs!Role, Session!MustChange, SessionProofs!MustChange,
       Session!FreshTab, SessionProofs!FreshTab, Session!FreshRequest,
       SessionProofs!FreshRequest, Session!NoFlight, SessionProofs!NoFlight, Session!Pending,
       SessionProofs!Pending, Session!Send, SessionProofs!Send, Session!Verdict,
       SessionProofs!Verdict, Session!JoinRefresh, SessionProofs!JoinRefresh,
       Session!RefreshOnce, SessionProofs!RefreshOnce, Session!StoresKey,
       SessionProofs!StoresKey, Session!Answer, SessionProofs!Answer, Session!MayResend,
       SessionProofs!MayResend, Session!LoseRequest, SessionProofs!LoseRequest, Session!Resend,
       SessionProofs!Resend, Session!FindToken, SessionProofs!FindToken, Session!Rotates,
       SessionProofs!Rotates, Session!Rotate, SessionProofs!Rotate, Session!ReloadAtLogin,
       SessionProofs!ReloadAtLogin, Session!Waiting, SessionProofs!Waiting, Session!FlightEnds,
       SessionProofs!FlightEnds, Session!RefreshSucceeds, SessionProofs!RefreshSucceeds,
       Session!RefreshRefused, SessionProofs!RefreshRefused, Session!LoseRefresh,
       SessionProofs!LoseRefresh, Session!Go, SessionProofs!Go, Session!LoadMe,
       SessionProofs!LoadMe, Session!MeAnswered, SessionProofs!MeAnswered, Session!MeFailed,
       SessionProofs!MeFailed, Session!Guard, SessionProofs!Guard, Session!Resolve,
       SessionProofs!Resolve, Session!Login, SessionProofs!Login, Session!Logout,
       SessionProofs!Logout, Session!ExpireAccess, SessionProofs!ExpireAccess, Session!RevokeAll,
       SessionProofs!RevokeAll, Session!Route, SessionProofs!Route, Session!Progress,
       SessionProofs!Progress, Session!Refresh, SessionProofs!Refresh, Session!Next,
       SessionProofs!Next

LEMMA DashboardInitsAgree == Dashboard!Init => DashboardProofs!Init
BY DEF Dashboard!None, DashboardProofs!None, Dashboard!Role, DashboardProofs!Role,
       Dashboard!Membership, DashboardProofs!Membership, Dashboard!Slot, DashboardProofs!Slot,
       Dashboard!NoCall, DashboardProofs!NoCall, Dashboard!NoDialog, DashboardProofs!NoDialog,
       Dashboard!NoPending, DashboardProofs!NoPending, Dashboard!Init, DashboardProofs!Init

LEMMA DashboardStepsAgree == Dashboard!Next => DashboardProofs!Next
<1>1. ASSUME NEW p, Dashboard!Go(p) \/ Dashboard!AnswerCount(p)
      PROVE  DashboardProofs!Go(p) \/ DashboardProofs!AnswerCount(p)
    BY <1>1 DEF Dashboard!None, DashboardProofs!None, Dashboard!NoDialog, DashboardProofs!NoDialog,
       Dashboard!Event, DashboardProofs!Event, Dashboard!Spent, DashboardProofs!Spent,
       Dashboard!Go, DashboardProofs!Go, Dashboard!NoPending, DashboardProofs!NoPending,
       Dashboard!AnswerCount, DashboardProofs!AnswerCount
<1>2. ASSUME NEW m, Dashboard!AnswerMembers(m)
      PROVE  DashboardProofs!AnswerMembers(m)
    BY <1>2 DEF Dashboard!None, DashboardProofs!None, Dashboard!Event, DashboardProofs!Event,
       Dashboard!TakesMembers, DashboardProofs!TakesMembers, Dashboard!MayRead,
       DashboardProofs!MayRead, Dashboard!AnswerMembers, DashboardProofs!AnswerMembers
<1>3. Dashboard!AnswerStore \/ Dashboard!OpenAdd \/ Dashboard!AnswerUsers \/ Dashboard!CloseDialog
      \/ Dashboard!MemberDone \/ Dashboard!RemoveDone \/ Dashboard!Leave
      => DashboardProofs!AnswerStore \/ DashboardProofs!OpenAdd \/ DashboardProofs!AnswerUsers
         \/ DashboardProofs!CloseDialog \/ DashboardProofs!MemberDone \/ DashboardProofs!RemoveDone
         \/ DashboardProofs!Leave
    BY Zenon DEF Dashboard!AnswerStore, DashboardProofs!AnswerStore, Dashboard!None,
       DashboardProofs!None, Dashboard!NoDialog, DashboardProofs!NoDialog, Dashboard!Event,
       DashboardProofs!Event, Dashboard!Spent, DashboardProofs!Spent, Dashboard!CanManage,
       DashboardProofs!CanManage, Dashboard!OpenAdd, DashboardProofs!OpenAdd,
       Dashboard!AnswerUsers, DashboardProofs!AnswerUsers, Dashboard!CloseDialog,
       DashboardProofs!CloseDialog, Dashboard!NoCall, DashboardProofs!NoCall,
       Dashboard!MemberDone, DashboardProofs!MemberDone, Dashboard!RemoveDone,
       DashboardProofs!RemoveDone, Dashboard!Leave, DashboardProofs!Leave, Dashboard!AddDialog,
       DashboardProofs!AddDialog, Dashboard!Closed, DashboardProofs!Closed
<1>4. ASSUME NEW u, Dashboard!OpenEdit(u) \/ Dashboard!AskRemove(u)
      PROVE  DashboardProofs!OpenEdit(u) \/ DashboardProofs!AskRemove(u)
    BY <1>4 DEF Dashboard!None, DashboardProofs!None, Dashboard!NoDialog, DashboardProofs!NoDialog,
       Dashboard!Event, DashboardProofs!Event, Dashboard!Spent, DashboardProofs!Spent,
       Dashboard!CanManage, DashboardProofs!CanManage, Dashboard!OpenEdit,
       DashboardProofs!OpenEdit, Dashboard!Owners, DashboardProofs!Owners,
       Dashboard!IsLastOwner, DashboardProofs!IsLastOwner, Dashboard!AskRemove,
       DashboardProofs!AskRemove
<1>5. ASSUME NEW u, NEW role, Dashboard!Submit(u, role)
      PROVE  DashboardProofs!Submit(u, role)
    BY <1>5 DEF Dashboard!None, DashboardProofs!None, Dashboard!NoCall, DashboardProofs!NoCall,
       Dashboard!Mode, DashboardProofs!Mode, Dashboard!Candidate,
       DashboardProofs!Candidate, Dashboard!Submit, DashboardProofs!Submit
<1>6. ASSUME NEW yes, Dashboard!ConfirmRemove(yes)
      PROVE  DashboardProofs!ConfirmRemove(yes)
    BY <1>6 DEF Dashboard!None, DashboardProofs!None, Dashboard!NoCall, DashboardProofs!NoCall,
       Dashboard!ConfirmRemove, DashboardProofs!ConfirmRemove
<1>7. ASSUME NEW c, Dashboard!WriteRefused(c)
      PROVE  DashboardProofs!WriteRefused(c)
    BY <1>7, Zenon DEF Dashboard!None, DashboardProofs!None, Dashboard!NoCall, DashboardProofs!NoCall,
       Dashboard!WriteRefused, DashboardProofs!WriteRefused
<1>8. ASSUME NEW c, Dashboard!ServeAdd(c) \/ Dashboard!LockProject(c)
      PROVE  DashboardProofs!ServeAdd(c) \/ DashboardProofs!LockProject(c)
    BY <1>8, Zenon DEF Dashboard!None, DashboardProofs!None, Dashboard!Slot, DashboardProofs!Slot,
       Dashboard!Permitted, DashboardProofs!Permitted, Dashboard!To, DashboardProofs!To,
       Dashboard!MayLock, DashboardProofs!MayLock, Dashboard!ServeAdd, DashboardProofs!ServeAdd,
       Dashboard!LockProject, DashboardProofs!LockProject
<1>9. ASSUME NEW c, Dashboard!CountOwners(c) \/ Dashboard!WriteMember(c)
      PROVE  DashboardProofs!CountOwners(c) \/ DashboardProofs!WriteMember(c)
    <2>1. /\ Dashboard!None = DashboardProofs!None
          /\ \A a : Dashboard!TakesLastOwner(a) => DashboardProofs!TakesLastOwner(a)
          /\ \A a : DashboardProofs!TakesLastOwner(a) => Dashboard!TakesLastOwner(a)
          /\ \A at : Dashboard!To(c, at) => DashboardProofs!To(c, at)
        <3>1. \A members : Dashboard!Owners(members) = DashboardProofs!Owners(members)
            BY DEF Dashboard!Owners, DashboardProofs!Owners
        <3>2. \A at : Dashboard!To(c, at) => DashboardProofs!To(c, at)
            BY DEF Dashboard!To, DashboardProofs!To
        <3>3. \A a : Dashboard!TakesLastOwner(a) <=> DashboardProofs!TakesLastOwner(a)
            <4>1. \A some : Dashboard!Cardinality(some) = DashboardProofs!Cardinality(some)
                BY DEF Dashboard!Cardinality, DashboardProofs!Cardinality
            <4> QED
                BY <3>1, <4>1 DEF Dashboard!TakesLastOwner, DashboardProofs!TakesLastOwner
        <3> QED
            BY <3>2, <3>3 DEF Dashboard!None, DashboardProofs!None
    <2> QED
        BY <1>9, <2>1, Zenon DEF Dashboard!CountOwners, DashboardProofs!CountOwners,
           Dashboard!WriteMember, DashboardProofs!WriteMember
<1>10. ASSUME NEW m, Dashboard!OpenStage(m)
      PROVE  DashboardProofs!OpenStage(m)
    BY <1>10 DEF Dashboard!None, DashboardProofs!None, Dashboard!BackActions,
       DashboardProofs!BackActions, Dashboard!NoPending, DashboardProofs!NoPending,
       Dashboard!Event, DashboardProofs!Event, Dashboard!Spent, DashboardProofs!Spent,
       Dashboard!OpenStage, DashboardProofs!OpenStage
<1>11. Dashboard!CloseStage \/ Dashboard!ConfirmStage \/ Dashboard!StageDone
      => DashboardProofs!CloseStage \/ DashboardProofs!ConfirmStage \/ DashboardProofs!StageDone
    BY Zenon DEF Dashboard!None, DashboardProofs!None, Dashboard!NoPending, DashboardProofs!NoPending,
       Dashboard!CloseStage, DashboardProofs!CloseStage, Dashboard!NoCall,
       DashboardProofs!NoCall, Dashboard!ConfirmStage, DashboardProofs!ConfirmStage,
       Dashboard!StageDone, DashboardProofs!StageDone
<1>12. Dashboard!ReadStage \/ Dashboard!WriteStage
      => DashboardProofs!ReadStage \/ DashboardProofs!WriteStage
    BY Zenon DEF Dashboard!Moves, DashboardProofs!Moves, Dashboard!BackActions,
       DashboardProofs!BackActions, Dashboard!Permitted, DashboardProofs!Permitted,
       Dashboard!To, DashboardProofs!To, Dashboard!IgnoresWarnings,
       DashboardProofs!IgnoresWarnings, Dashboard!ReadStage, DashboardProofs!ReadStage,
       Dashboard!Slot, DashboardProofs!Slot, Dashboard!MayLock, DashboardProofs!MayLock,
       Dashboard!WriteStage, DashboardProofs!WriteStage
<1>13. Dashboard!Others => DashboardProofs!Others
    <2>1. ASSUME NEW issues, db' = issues, net' = Dashboard!Spent(net), Dashboard!Event, UNCHANGED ui
          PROVE  db' = issues /\ net' = DashboardProofs!Spent(net) /\ DashboardProofs!Event /\ UNCHANGED ui
        BY <2>1 DEF Dashboard!Event, DashboardProofs!Event, Dashboard!Spent, DashboardProofs!Spent
    <2>2. ASSUME NEW op \in {"edit", "remove"}, NEW p \in Project, NEW u \in Person, Dashboard!Event,
                 net.call["theirs"].at \in {"idle", "ok", "refused"}, UNCHANGED <<ui, db>>,
                 net' = [Dashboard!Spent(net) EXCEPT !.call["theirs"] =
                            [Dashboard!NoCall EXCEPT !.at = "sent", !.op = op, !.of = p, !.user = u,
                                 !.role = IF op = "edit" THEN "member" ELSE Dashboard!None]]
          PROVE  DashboardProofs!Others
        BY <2>2 DEF Dashboard!Event, DashboardProofs!Event, Dashboard!Spent, DashboardProofs!Spent,
           Dashboard!NoCall, DashboardProofs!NoCall, Dashboard!None, DashboardProofs!None, DashboardProofs!Others
    <2> QED
        BY <2>1, <2>2, Zenon DEF Dashboard!Others, DashboardProofs!Others
<1> QED
    BY <1>1, <1>2, <1>3, <1>4, <1>5, <1>6, <1>7, <1>8, <1>9, <1>10, <1>11, <1>12, <1>13, Zenon
    DEF Dashboard!Next, DashboardProofs!Next, Dashboard!Serve, DashboardProofs!Serve, Dashboard!Slot,
       DashboardProofs!Slot, Dashboard!Moves, DashboardProofs!Moves, Dashboard!Role, DashboardProofs!Role

LEMMA ItemsInitsAgree == Items!Init => ItemsProofs!Init
BY Zenon DEF Items!Null, ItemsProofs!Null, Items!Id, ItemsProofs!Id, Items!Init, ItemsProofs!Init

LEMMA ItemsStepsAgree == Items!Next => ItemsProofs!Next
BY Zenon DEF Items!Null, ItemsProofs!Null, Items!Id, ItemsProofs!Id, Items!Rows, ItemsProofs!Rows,
       Items!AddRow, ItemsProofs!AddRow, Items!SelectDependency, ItemsProofs!SelectDependency,
       Items!Shifted, ItemsProofs!Shifted, Items!AfterRemoval, ItemsProofs!AfterRemoval,
       Items!RemoveRow, ItemsProofs!RemoveRow, Items!Swapped, ItemsProofs!Swapped,
       Items!AfterMove, ItemsProofs!AfterMove, Items!Move, ItemsProofs!Move, Items!KnownBefore,
       ItemsProofs!KnownBefore, Items!Created, ItemsProofs!Created, Items!Valid,
       ItemsProofs!Valid, Items!Apply, ItemsProofs!Apply, Items!ApplyInline,
       ItemsProofs!ApplyInline, Items!SaveAndApply, ItemsProofs!SaveAndApply, Items!Edit,
       ItemsProofs!Edit, Items!Next, ItemsProofs!Next

LEMMA UpdateInitsAgree == Update!Init => UpdateProofs!Init
BY Zenon DEF Update!Frame, UpdateProofs!Frame, Update!NoFrame, UpdateProofs!NoFrame, Update!NoSession,
       UpdateProofs!NoSession, Update!NoStream, UpdateProofs!NoStream, Update!NewPage,
       UpdateProofs!NewPage, Update!Init, UpdateProofs!Init

LEMMA UpdateStepsAgree == Update!Next => UpdateProofs!Next
BY Zenon DEF Update!Frame, UpdateProofs!Frame, Update!NoFrame, UpdateProofs!NoFrame, Update!NoSession,
       UpdateProofs!NoSession, Update!NoStream, UpdateProofs!NoStream, Update!NewPage,
       UpdateProofs!NewPage, Update!Trouble, UpdateProofs!Trouble, Update!Troubled,
       UpdateProofs!Troubled, Update!ScriptLine, UpdateProofs!ScriptLine, Update!ScriptEnds,
       UpdateProofs!ScriptEnds, Update!S, UpdateProofs!S, Update!Broadcast,
       UpdateProofs!Broadcast, Update!Ingest, UpdateProofs!Ingest, Update!ServeTrigger,
       UpdateProofs!ServeTrigger, Update!NoteRunner, UpdateProofs!NoteRunner, Update!TailLine,
       UpdateProofs!TailLine, Update!FindMarker, UpdateProofs!FindMarker, Update!VerdictOf,
       UpdateProofs!VerdictOf, Update!GiveUp, UpdateProofs!GiveUp, Update!Finish,
       UpdateProofs!Finish, Update!FinishFiles, UpdateProofs!FinishFiles, Update!Numbered,
       UpdateProofs!Numbered, Update!Rebuilt, UpdateProofs!Rebuilt, Update!Crash,
       UpdateProofs!Crash, Update!Restart, UpdateProofs!Restart, Update!St, UpdateProofs!St,
       Update!Send, UpdateProofs!Send, Update!Snapshot, UpdateProofs!Snapshot, Update!Replay,
       UpdateProofs!Replay, Update!AfterReplay, UpdateProofs!AfterReplay, Update!AfterDone,
       UpdateProofs!AfterDone, Update!StartUpdate, UpdateProofs!StartUpdate, Update!Follow,
       UpdateProofs!Follow, Update!AnswerTrigger, UpdateProofs!AnswerTrigger, Update!Retry,
       UpdateProofs!Retry, Update!Stop, UpdateProofs!Stop, Update!Connect, UpdateProofs!Connect,
       Update!Takes, UpdateProofs!Takes, Update!ResetsAttempts, UpdateProofs!ResetsAttempts,
       Update!Shown, UpdateProofs!Shown, Update!Receive, UpdateProofs!Receive, Update!Disconnect,
       UpdateProofs!Disconnect, Update!Reconnect, UpdateProofs!Reconnect, Update!Reopen,
       UpdateProofs!Reopen, Update!Subscription, UpdateProofs!Subscription, Update!Server,
       UpdateProofs!Server, Update!Page, UpdateProofs!Page, Update!Next, UpdateProofs!Next

SessionInv == SessionProofs!SessionInv /\ SessionProofs!RetryInv /\ SessionProofs!TypesInv
DashboardInv ==
    /\ DashboardProofs!UiInv /\ DashboardProofs!OwnerInv /\ DashboardProofs!MembersInv
    /\ DashboardProofs!PageTypes
ItemsInv == ItemsProofs!ItemsInv /\ ItemsProofs!WithinLimits
UpdateInv == UpdateProofs!UpdateInv /\ UpdateProofs!OrderInv /\ UpdateProofs!TypesInv

LEMMA SessionInit == Session!Init => SessionInv
BY Bounds, SessionInitsAgree, SessionProofs!SessionInit, SessionProofs!RetryInit, SessionProofs!TypesInit
   DEF SessionInv

LEMMA SessionStep ==
    ASSUME SessionInv, Session!Next \/ UNCHANGED session
    PROVE  SessionInv'
<1>1. [SessionProofs!Next]_(SessionProofs!vars)
    BY SessionStepsAgree DEF session, SessionProofs!vars, SessionProofs!client, SessionProofs!server
<1> QED
    BY <1>1, Bounds, SessionProofs!SessionStep, SessionProofs!RetryStep, SessionProofs!TypesStep DEF SessionInv

LEMMA SessionHolds == SessionInv => Session!RetryIsNotRefused /\ Session!OneSessionPerLogin
<1>1. \A some : Session!Cardinality(some) = SessionProofs!Cardinality(some)
    BY DEF Session!Cardinality, SessionProofs!Cardinality
<1> QED
    BY <1>1 DEF SessionInv, SessionProofs!SessionInv, SessionProofs!RetryInv, Session!RetryIsNotRefused,
       Session!OneSessionPerLogin, Session!Request, SessionProofs!Request

LEMMA SessionTyping == SessionInv => Session!TypeOK
<1>1. SessionInv => SessionProofs!TypeOK
    BY SessionProofs!TypesHold DEF SessionInv
<1> QED
    BY <1>1 DEF SessionProofs!TypeOK, Session!TypeOK, Session!Request, SessionProofs!Request,
       Session!Flight, SessionProofs!Flight, Session!Token, SessionProofs!Token,
       Session!NoUser, SessionProofs!NoUser, Session!Pending, SessionProofs!Pending

LEMMA DashboardUsers == DashboardProofs!Users
BY Users DEF DashboardProofs!Users, IsFiniteSet, DashboardProofs!IsFiniteSet

LEMMA DashboardInit == Dashboard!Init => DashboardInv
BY Bounds, DashboardUsers, DashboardInitsAgree, DashboardProofs!OwnerInit, DashboardProofs!MembersInit,
   DashboardProofs!TypesInit DEF DashboardInv

LEMMA DashboardStep ==
    ASSUME DashboardInv, Dashboard!Next \/ UNCHANGED still
    PROVE  DashboardInv'
<1>1. [DashboardProofs!Next]_(DashboardProofs!vars)
    BY DashboardStepsAgree DEF still, DashboardProofs!vars
<1>2. DashboardProofs!PageTypes'
    <2>1. DashboardProofs!CallInv
        BY DEF DashboardInv, DashboardProofs!OwnerInv
    <2> QED
        BY <1>1, <2>1, Bounds, DashboardProofs!TypesStep DEF DashboardInv
<1> QED
    BY <1>1, <1>2, DashboardUsers, DashboardProofs!UiKeeps, DashboardProofs!OwnerStep,
       DashboardProofs!MembersStep DEF DashboardInv

LEMMA DashboardHolds == DashboardInv => Dashboard!OwnersAreCounted /\ Dashboard!MembersAreOfTheRoute
BY DEF DashboardInv, DashboardProofs!OwnerInv, DashboardProofs!OwnersAreCounted, Dashboard!OwnersAreCounted,
   DashboardProofs!Owners, Dashboard!Owners, DashboardProofs!MembersInv,
   DashboardProofs!MembersAreOfTheRoute, Dashboard!MembersAreOfTheRoute, DashboardProofs!None, Dashboard!None

LEMMA DashboardTyping == DashboardInv => Dashboard!TypeOK
<1>1. DashboardInv => DashboardProofs!TypeOK
    BY DashboardProofs!TypesHold DEF DashboardInv
<1> QED
    BY <1>1 DEF DashboardProofs!TypeOK, Dashboard!TypeOK, DashboardProofs!None, Dashboard!None,
       DashboardProofs!Membership, Dashboard!Membership, DashboardProofs!Role, Dashboard!Role,
       DashboardProofs!Stage, Dashboard!Stage, DashboardProofs!Slot, Dashboard!Slot

LEMMA ItemsBounds == ItemsProofs!Bounds /\ MaxEdit >= 1 /\ MaxItems >= 1
BY Bounds DEF ItemsProofs!Bounds

LEMMA ItemsInit == Items!Init => ItemsInv
BY ItemsBounds, ItemsInitsAgree, ItemsProofs!ItemsInit, ItemsProofs!TypesInit DEF ItemsInv

LEMMA ItemsStep ==
    ASSUME ItemsInv, Items!Next \/ UNCHANGED still
    PROVE  ItemsInv'
<1>1. [ItemsProofs!Next]_(ItemsProofs!vars)
    BY ItemsStepsAgree DEF still, ItemsProofs!vars
<1> QED
    BY <1>1, ItemsBounds, ItemsProofs!ItemsStep, ItemsProofs!TypesStep DEF ItemsInv

LEMMA ItemsHold == ItemsInv => Items!DependencyFollowsItsRow
BY DEF ItemsInv, ItemsProofs!ItemsInv, ItemsProofs!DependencyFollowsItsRow, Items!DependencyFollowsItsRow,
   ItemsProofs!Rows, Items!Rows, ItemsProofs!Null, Items!Null

LEMMA ItemsTyping == ItemsInv => Items!TypeOK
<1>1. ItemsInv => ItemsProofs!TypeOK
    BY ItemsBounds, ItemsProofs!TypesHold DEF ItemsInv
<1> QED
    BY <1>1 DEF ItemsProofs!TypeOK, Items!TypeOK, ItemsProofs!Row, Items!Row, ItemsProofs!Id, Items!Id,
       ItemsProofs!Null, Items!Null

LEMMA UpdateBounds == UpdateProofs!Bounds
BY Bounds DEF UpdateProofs!Bounds

LEMMA UpdateInit == Update!Init => UpdateInv
BY UpdateBounds, UpdateInitsAgree, UpdateProofs!UpdateInit, UpdateProofs!OrderInit,
   UpdateProofs!TypesInit DEF UpdateInv

LEMMA UpdateStep ==
    ASSUME UpdateInv, Update!Next \/ UNCHANGED still
    PROVE  UpdateInv'
<1>1. [UpdateProofs!Next]_(UpdateProofs!vars)
    BY UpdateStepsAgree DEF still, UpdateProofs!vars
<1>2. UpdateProofs!Truth
    BY DEF UpdateInv, UpdateProofs!UpdateInv
<1> QED
    BY <1>1, <1>2, UpdateBounds, UpdateProofs!UpdateStep, UpdateProofs!OrderStep, UpdateProofs!TypesStep
       DEF UpdateInv

LEMMA UpdateHolds == UpdateInv => Update!SuccessIsTrue /\ Update!LinesInOrder
BY DEF UpdateInv, UpdateProofs!UpdateInv, UpdateProofs!SuccessIsTrue, Update!SuccessIsTrue,
   UpdateProofs!OrderInv, UpdateProofs!PageInv, UpdateProofs!LinesInOrder, Update!LinesInOrder

LEMMA UpdateTyping == UpdateInv => Update!TypeOK
<1>1. UpdateInv => UpdateProofs!TypeOK
    BY UpdateBounds, UpdateProofs!TypesHold DEF UpdateInv, UpdateProofs!UpdateInv
<1> QED
    BY <1>1 DEF UpdateProofs!TypeOK, Update!TypeOK
-----------------------------------------------------------------------------
(* The properties of the pages.                                            *)

\* Once everything is answered, a list answers the query on the screen and shows every
\* write of this user that was confirmed, for any records and events: every handler whose
\* write changes a list loads it again (the pages, useAsyncData.ts).
THEOREM ListsKeepUp == Spec => []ListKeepsUp
<1> DEFINE Inv == OnList => ListInv
<1>1. Init => Inv
    BY PageInits, ListInit
<1>2. Inv /\ [Next]_vars => Inv'
    BY PageSteps, ListStep DEF OnList, Lists
<1>3. Inv => ListKeepsUp
    BY SettledListKeepsUp DEF ListKeepsUp
<1> QED
    BY <1>1, <1>2, <1>3, PTL DEF Spec

\* The server accepts the edit of a todo on the version the user was shown only.
THEOREM EditsSeeTheLatest == Spec => EditSeesTheLatest
<1> DEFINE Inv == OnList => ListInv
<1>1. Init => Inv
    BY PageInits, ListInit
<1>2. Inv /\ [Next]_vars => Inv'
    BY PageSteps, ListStep DEF OnList, Lists
<1>3. Inv /\ [Next]_vars => [OnList => List!EditsTheLatest]_vars
    <2> SUFFICES ASSUME ListInv, OnList, Next PROVE List!EditsTheLatest
        BY DEF Inv
    <2>1. List!Next
        BY ListsAlone DEF Next, OnList, Other
    <2> QED
        BY <2>1, EditsAreOfTheLatest
<1> QED
    BY <1>1, <1>2, <1>3, PTL DEF Spec, EditSeesTheLatest

\* However rows are typed, pasted and removed after the answer of the server, a mark is on
\* a row that was refused and is still as it was (TestDataEntryView.vue).
THEOREM MarksFit == Spec => []MarksFitTheRows
<1> DEFINE Inv == page = "batch" => BatchInv
<1>1. Init => Inv
    BY PageInits, BatchInit
<1>2. Inv /\ [Next]_vars => Inv'
    BY PageSteps, BatchStep DEF still
<1>3. Inv => MarksFitTheRows
    BY DEF BatchInv, MarksFitTheRows
<1> QED
    BY <1>1, <1>2, <1>3, PTL DEF Spec

\* However its text is saved, organised and polled while a submission is on its way: the
\* report is submitted with the text on the screen, unless another save ran meanwhile
\* (saveDraft and submit of DailyReportView.vue).
THEOREM SubmittedIsShown == Spec => SubmittedAsShown
<1> DEFINE Inv == page = "report" => ReportInv
<1>1. Init => Inv
    BY PageInits, ReportInit
<1>2. Inv /\ [Next]_vars => Inv'
    BY PageSteps, ReportStep
<1>3. Inv /\ [Next]_vars => [page = "report" => Report!SubmitsTheShown]_vars
    <2> SUFFICES ASSUME ReportInv, page = "report", [Next]_vars, vars' # vars
                 PROVE  Report!SubmitsTheShown
        BY DEF Inv
    <2>1. Report!Next \/ UNCHANGED still
        BY PageSteps
    <2>2. CASE UNCHANGED still
        BY <2>2 DEF still, Report!SubmitsTheShown
    <2> QED
        BY <2>1, <2>2, SubmitsTheText
<1> QED
    BY <1>1, <1>2, <1>3, PTL DEF Spec, SubmittedAsShown

\* A draft is confirmed again only after a failure that was told: its row shows the
\* confirmation while it runs and leaves the list with it (DailyReportView.vue).
THEOREM DraftsBecomeOneLog == Spec => []DraftBecomesOneLog
<1> DEFINE Inv == page = "report" => ReportInv
<1>1. Init => Inv
    BY PageInits, ReportInit
<1>2. Inv /\ [Next]_vars => Inv'
    BY PageSteps, ReportStep
<1>3. Inv => DraftBecomesOneLog
    BY DEF ReportInv, DraftsFit, DraftBecomesOneLog, Report!DraftBecomesOneLog
<1> QED
    BY <1>1, <1>2, <1>3, PTL DEF Spec

\* However a dialog is closed, opened again and left while its requests are on their way:
\* what it leaves half made was reported, or it was disturbed (the apply dialog of runs).
THEOREM LeftoversAreTold == Spec => []LeftoversAreReported
<1> DEFINE Inv == page = "authoring" => AuthoringInv
<1>1. Init => Inv
    BY PageInits, AuthoringInit
<1>2. Inv /\ [Next]_vars => Inv'
    BY PageSteps, AuthoringStep
<1>3. Inv => LeftoversAreReported
    BY AuthoringSettles DEF LeftoversAreReported
<1> QED
    BY <1>1, <1>2, <1>3, PTL DEF Spec

\* However the user goes from instrument to instrument while readings arrive: what the form
\* would save was measured by the instrument it names (InstrumentMeasureView.vue).
THEOREM ValuesAreMeasured == Spec => []SavedAsMeasured
<1> DEFINE Inv == page = "instrument" => CardsInv
<1>1. Init => Inv
    BY PageInits, CardsInit
<1>2. Inv /\ [Next]_vars => Inv'
    BY PageSteps, CardsStep
<1>3. Inv => SavedAsMeasured
    BY DEF CardsInv, SavedAsMeasured
<1> QED
    BY <1>1, <1>2, <1>3, PTL DEF Spec

\* No write that is sent a second time is refused as a duplicate of itself, and refreshing
\* never multiplies a login (client.ts, idempotency.go, auth/repository.go).
LEMMA SessionsHold == Spec => [](RetryIsNotRefused /\ OneSessionPerLogin)
<1> DEFINE Inv == page = "session" => SessionInv
<1>1. Init => Inv
    BY PageInits, SessionInit
<1>2. Inv /\ [Next]_vars => Inv'
    BY PageSteps, SessionStep
<1>3. Inv => RetryIsNotRefused /\ OneSessionPerLogin
    BY SessionHolds DEF RetryIsNotRefused, OneSessionPerLogin
<1> QED
    BY <1>1, <1>2, <1>3, PTL DEF Spec

\* A write that is sent again after a refresh is not refused (client.ts).
THEOREM RetriesAreNotRefused == Spec => []RetryIsNotRefused
BY SessionsHold, PTL

\* A login has one session at a time, whoever refreshes it (auth/repository.go).
THEOREM LoginsHaveOneSession == Spec => []OneSessionPerLogin
BY SessionsHold, PTL

\* The dashboard shows the members of the project on the screen, and whoever demotes and
\* removes members at the same time leaves every project an owner (ProjectDashboard.vue,
\* projects/repository.go).
LEMMA MembersHold == Spec => [](MembersAreOfTheRoute /\ OwnersAreCounted)
<1> DEFINE Inv == page = "project" => DashboardInv
<1>1. Init => Inv
    BY PageInits, DashboardInit
<1>2. Inv /\ [Next]_vars => Inv'
    BY PageSteps, DashboardStep
<1>3. Inv => MembersAreOfTheRoute /\ OwnersAreCounted
    BY DashboardHolds DEF MembersAreOfTheRoute, OwnersAreCounted
<1> QED
    BY <1>1, <1>2, <1>3, PTL DEF Spec

\* The members on the dashboard are those of its project, unless a list that was fetched
\* after a write came late (ProjectDashboard.vue).
THEOREM MembersFollowTheRoute == Spec => []MembersAreOfTheRoute
BY MembersHold, PTL

\* A project keeps an owner, unless an owner is added in another role
\* (projects/repository.go).
THEOREM ProjectsKeepAnOwner == Spec => []OwnersAreCounted
BY MembersHold, PTL

\* However rows are added, moved and removed, a row names the row the user chose for it
\* (StepItemsEditor.vue).
THEOREM RowsKeepTheirChoice == Spec => []DependencyFollowsItsRow
<1> DEFINE Inv == page = "items" => ItemsInv
<1>1. Init => Inv
    BY PageInits, ItemsInit
<1>2. Inv /\ [Next]_vars => Inv'
    BY PageSteps, ItemsStep
<1>3. Inv => DependencyFollowsItsRow
    BY ItemsHold DEF DependencyFollowsItsRow
<1> QED
    BY <1>1, <1>2, <1>3, PTL DEF Spec

\* However the server crashes and the connection is lost and resumed: the lines of an
\* update are shown once and in order, and a success only of a script that succeeded
\* (SettingsView.vue, system/service.go).
LEMMA UpdatesHold == Spec => [](LinesInOrder /\ SuccessIsTrue)
<1> DEFINE Inv == page = "update" => UpdateInv
<1>1. Init => Inv
    BY PageInits, UpdateInit
<1>2. Inv /\ [Next]_vars => Inv'
    BY PageSteps, UpdateStep
<1>3. Inv => LinesInOrder /\ SuccessIsTrue
    BY UpdateHolds DEF LinesInOrder, SuccessIsTrue
<1> QED
    BY <1>1, <1>2, <1>3, PTL DEF Spec

\* No line of an update is shown twice or out of order (SettingsView.vue).
THEOREM LinesAreShownInOrder == Spec => []LinesInOrder
BY UpdatesHold, PTL

\* The page reports a success only of a script that succeeded (system/service.go).
THEOREM SuccessesAreReal == Spec => []SuccessIsTrue
BY UpdatesHold, PTL

\* Every page keeps its types: no request or event beyond its bound, and no value of a form,
\* a list or an answer outside what its page and the server take.
THEOREM PagesTyped == Spec => []TypeOK
<1> DEFINE Inv == /\ page \in Lists \cup Other
                  /\ page = "session" => SessionInv
                  /\ OnList => ListInv
                  /\ page = "project" => DashboardInv
                  /\ page = "items" => ItemsInv
                  /\ page = "report" => ReportInv
                  /\ page = "authoring" => AuthoringInv
                  /\ page = "update" => UpdateInv
                  /\ page = "instrument" => CardsInv
                  /\ page = "batch" => BatchInv
<1>1. Init => Inv
    BY PageInits, SessionInit, ListInit, DashboardInit, ItemsInit, ReportInit, AuthoringInit,
       UpdateInit, CardsInit, BatchInit
<1>2. Inv /\ [Next]_vars => Inv'
    <2> SUFFICES ASSUME Inv, [Next]_vars PROVE Inv'
        OBVIOUS
    <2>1. page' = page /\ (OnList' <=> OnList)
        BY PageSteps DEF OnList, Lists, List!PageOf
    <2>2. (page = "session" => SessionInv)' /\ (OnList => ListInv)'
        BY <2>1, PageSteps, SessionStep, ListStep
    <2>3. (page = "project" => DashboardInv)' /\ (page = "items" => ItemsInv)'
        BY <2>1, PageSteps, DashboardStep, ItemsStep
    <2>4. (page = "report" => ReportInv)' /\ (page = "authoring" => AuthoringInv)'
        BY <2>1, PageSteps, ReportStep, AuthoringStep
    <2>5. (page = "update" => UpdateInv)' /\ (page = "instrument" => CardsInv)'
          /\ (page = "batch" => BatchInv)'
        BY <2>1, PageSteps, UpdateStep, CardsStep, BatchStep DEF still
    <2>6. (page \in Lists \cup Other)'
        BY <2>1 DEF Lists, List!PageOf, Other
    <2> QED
        BY <2>2, <2>3, <2>4, <2>5, <2>6
<1>3. Inv => TypeOK
    BY SessionTyping, ListTyping, DashboardTyping, ItemsTyping, ReportTyping, AuthoringSettles,
       UpdateTyping, CardsTyping, BatchTyped DEF TypeOK
<1> QED
    BY <1>1, <1>2, <1>3, PTL DEF Spec
=============================================================================
