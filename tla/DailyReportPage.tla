--------------------------- MODULE DailyReportPage ---------------------------
(***************************************************************************)
(* The page on which a user writes the daily report: the text in the       *)
(* editor, the report on the server, the poll that refreshes the page      *)
(* every five seconds, the drafts the assistant makes of the text and the  *)
(* submission of the report.                                               *)
(*                                                                         *)
(* A text is the number of the edit that made it; 0 is the empty text.     *)
(***************************************************************************)
EXTENDS Naturals

CONSTANTS
    Call,        \* handlers of the page that may run at the same time
    Poll,        \* polls that may be on their way at the same time
    MaxEvent     \* bound on the edits, the handlers started and the failures

VARIABLES
    ui,          \* the editor, the report as last received, drafts and flags
    net,         \* the running handlers and polls
    db           \* the report and its logs on the server

vars == <<ui, net, db>>

Version == 0 .. MaxEvent + 1
Text == [raw : Version, sum : Version]
Draft == 1 .. MaxEvent + 1
Idle == [does |-> "none", step |-> "none", at |-> "idle", draft |-> 0,
         text |-> [raw |-> 0, sum |-> 0], report |-> [raw |-> 0, sum |-> 0, status |-> "draft"]]

TypeOK ==
    /\ ui.text \in Text /\ ui.report.raw \in Version /\ ui.report.sum \in Version
    /\ ui.drafts \subseteq Draft /\ ui.confirming \subseteq Draft
    /\ ui.ai \in BOOLEAN /\ ui.submitting \in BOOLEAN /\ ui.warned \in BOOLEAN
    /\ \A c \in Call \cup Poll : net.call[c].at \in {"idle", "sent", "ok", "blocked", "refused"}
    /\ net.events \in 0 .. MaxEvent /\ net.failed \in [Draft -> Nat]
    /\ db.report.status \in {"draft", "submitted"} /\ db.logs \in [Draft -> Nat]

Event == net.events < MaxEvent
Spent(q) == [q EXCEPT !.events = @ + 1]
Fresh == net.events + 1       \* the text an edit makes
TextOf(report) == [raw |-> report.raw, sum |-> report.sum]

\* init has loaded today's report, which has a log, and has started the poll; the
\* assistant may have made a draft already.
Init ==
    /\ \E sum \in {0, 1}, drafts \in {{}, {MaxEvent + 1}} :
          LET report == [raw |-> 1, sum |-> sum, status |-> "draft"] IN
          /\ ui = [text |-> TextOf(report), report |-> report, drafts |-> drafts, confirming |-> {},
                   ai |-> FALSE, submitting |-> FALSE, warned |-> FALSE]
          /\ db = [report |-> report, logs |-> [d \in Draft |-> 0]]
    /\ net = [call |-> [c \in Call \cup Poll |-> Idle], events |-> 0,
              failed |-> [d \in Draft |-> 0], crossed |-> FALSE, pressed |-> TextOf(db.report)]
-----------------------------------------------------------------------------
(* The editor and the poll.                                                *)

\* Either text area, whatever is on its way; the summary of a submitted report is locked.
Type ==
    /\ Event
    /\ \/ ui' = [ui EXCEPT !.text.raw = Fresh + 1]
       \/ ui.report.status = "draft" /\ ui' = [ui EXCEPT !.text.sum = Fresh + 1]
    /\ net' = Spent(net) /\ UNCHANGED db

Dirty == ui.text # TextOf(ui.report)

StartPoll(c) ==
    /\ net.call[c].at = "idle"
    /\ net' = [net EXCEPT !.call[c] = [Idle EXCEPT !.does = "poll", !.step = "today", !.at = "sent"]]
    /\ UNCHANGED <<ui, db>>

\* The whole answer is taken or, over unsaved text, none of it.
AnswerPoll(c) ==
    LET a == net.call[c] IN
    /\ a.does = "poll" /\ a.at \in {"ok", "refused"}
    /\ net' = [net EXCEPT !.call[c] = Idle]
    /\ ui' = IF a.at = "ok" /\ ~Dirty
             THEN [ui EXCEPT !.report = a.report, !.text = TextOf(a.report)] ELSE ui
    /\ UNCHANGED db
-----------------------------------------------------------------------------
(* Handlers.                                                               *)

Saving(c) == net.call[c].step = "save" /\ net.call[c].at = "sent"
Submits == {"submit", "force"}
Saves == {"raw", "organize", "summary"}
Runs(some) == \E d \in Call : net.call[d].does \in some
Start(c, does, step) ==
    /\ net.call[c].at = "idle"
    /\ net' = [Spent(net) EXCEPT
                 !.call[c] = [Idle EXCEPT !.does = does, !.step = step, !.at = "sent", !.text = ui.text],
                 !.crossed = IF does \in Submits THEN Runs(Saves)
                             ELSE @ \/ (does \in Saves /\ Runs(Submits)),
                 !.pressed = IF does \in Submits THEN ui.text ELSE @]
    /\ UNCHANGED db

\* saveRaw: its button has no loading state.
SaveRaw(c) == Event /\ Start(c, "raw", "save") /\ UNCHANGED ui

\* organizeWithAI and generateSummary save the text first and share aiLoading.
Organize(c, does) ==
    /\ Event /\ ~ui.ai /\ ui.report.status = "draft" /\ ui.text.raw # 0
    /\ Start(c, does, "save") /\ ui' = [ui EXCEPT !.ai = TRUE]

\* submit(false), and submit(true) from the dialog of warnings.
Submit(c, force) ==
    /\ Event /\ ~ui.submitting /\ (force => ui.warned)
    /\ Start(c, IF force THEN "force" ELSE "submit", "save")
    /\ ui' = [ui EXCEPT !.submitting = TRUE]

\* saveLog, confirmLog, saveTranslation: a write that leaves the text alone, after which
\* the report is fetched.
WriteOther(c) == Event /\ Start(c, "other", "write") /\ UNCHANGED ui

\* confirmDraft: the button of the row shows row.confirming.
AnyDraft(d) == TRUE
MayConfirm(d) == d \notin ui.confirming
ConfirmDraft(c, d) ==
    /\ Event /\ d \in ui.drafts /\ MayConfirm(d) /\ net.call[c].at = "idle"
    /\ net' = [Spent(net) EXCEPT !.call[c] = [Idle EXCEPT !.does = "draft", !.step = "create",
                                                         !.at = "sent", !.draft = d]]
    /\ ui' = [ui EXCEPT !.confirming = @ \cup {d}]
    /\ UNCHANGED db

RemoveDraft(d) ==
    /\ d \in ui.drafts
    /\ ui' = [ui EXCEPT !.drafts = @ \ {d}] /\ UNCHANGED <<net, db>>

CloseWarnings == ui.warned /\ ui' = [ui EXCEPT !.warned = FALSE] /\ UNCHANGED <<net, db>>
-----------------------------------------------------------------------------
(* The server. A call may be refused, or be carried out and its answer lost. *)

Answer(c, at) == net' = [net EXCEPT !.call[c].at = at, !.call[c].report = db'.report]
AnswerOrLose(c) == Answer(c, "ok") \/ (Event /\ net' = [Spent(net) EXCEPT !.call[c].at = "refused"])
Refuse(c) == db' = db /\ Answer(c, "refused")
NeverArrives(c) == Event /\ db' = db /\ net' = [Spent(net) EXCEPT !.call[c].at = "refused"]

Writable == db.report.status = "draft"
ServeSave(c) ==
    /\ Saving(c)
    /\ IF Writable
       THEN \/ db' = [db EXCEPT !.report.raw = net.call[c].text.raw, !.report.sum = net.call[c].text.sum]
               /\ AnswerOrLose(c)
            \/ NeverArrives(c)
       ELSE Refuse(c)
    /\ UNCHANGED ui

\* updateReport({ summary }) of the assistant's summary.
ServeSummary(c) ==
    /\ net.call[c].step = "summary" /\ net.call[c].at = "sent"
    /\ IF Writable
       THEN db' = [db EXCEPT !.report.sum = net.call[c].text.sum] /\ AnswerOrLose(c)
       ELSE Refuse(c)
    /\ UNCHANGED ui

\* The assistant makes logs and a summary of the text on the server, or asks or declines.
ServeParse(c) ==
    /\ net.call[c].step = "parse" /\ net.call[c].at = "sent"
    /\ UNCHANGED <<ui, db>>
    /\ IF Writable THEN AnswerOrLose(c) ELSE Answer(c, "refused")

ServeWrite(c) ==
    /\ net.call[c].step \in {"write", "create"} /\ net.call[c].at = "sent"
    /\ \/ /\ db' = IF net.call[c].step = "write" THEN db
                   ELSE [db EXCEPT !.logs[net.call[c].draft] = @ + 1]
          /\ AnswerOrLose(c)
       \/ NeverArrives(c)
    /\ UNCHANGED ui

ServeToday(c) ==
    /\ net.call[c].step = "today" /\ net.call[c].at = "sent"
    /\ UNCHANGED <<ui, db>> /\ AnswerOrLose(c)

\* Warnings block a submission that is not forced; an empty summary is always one.
ServeSubmit(c) ==
    /\ net.call[c].step = "submit" /\ net.call[c].at = "sent"
    /\ \/ /\ Writable /\ (db.report.sum = 0 => net.call[c].does = "force")
          /\ db' = [db EXCEPT !.report.status = "submitted"]
          /\ AnswerOrLose(c)
       \/ /\ Writable /\ net.call[c].does # "force"
          /\ db' = db /\ Answer(c, "blocked")
       \/ ~Writable /\ Refuse(c)
    /\ UNCHANGED ui
-----------------------------------------------------------------------------
(* What the handlers do with the answers.                                  *)

Then(c, step, text) ==
    net' = [net EXCEPT !.call[c] = [@ EXCEPT !.step = step, !.at = "sent", !.text = text]]
Finish(c) == net' = [net EXCEPT !.call[c] = Idle]

\* saveDraft and organizeWithAI take the text of the answer into the editor,
\* generateSummary leaves the editor alone.
Taken(a) == [ui EXCEPT !.report = a.report,
                       !.text = IF a.does = "summary" THEN @ ELSE TextOf(a.report)]
AfterSave(c) ==
    LET a == net.call[c] IN
    /\ a.step = "save" /\ a.at = "ok"
    /\ ui' = Taken(a)
    /\ CASE a.does = "raw" -> Finish(c)
         [] a.does \in {"organize", "summary"} -> Then(c, "parse", a.text)
         [] OTHER -> Then(c, "submit", a.text)
    /\ UNCHANGED db

\* Drafts replace those there are; a summary is taken when there is none, and always
\* when one was asked for. A question or a refusal of the assistant ends the handler.
AfterParse(c) ==
    LET a == net.call[c]  new == [ui.text EXCEPT !.sum = Fresh + 1]
        shown == IF a.does = "organize" THEN [ui EXCEPT !.drafts = {Fresh}] ELSE ui IN
    /\ a.step = "parse" /\ a.at = "ok" /\ Event
    /\ \/ /\ a.does = "summary" \/ ui.text.sum = 0
          /\ ui' = [shown EXCEPT !.text = new]
          /\ net' = [Spent(net) EXCEPT !.call[c] = [@ EXCEPT !.step = "summary", !.at = "sent",
                                                            !.text = new]]
       \/ /\ a.does = "organize" /\ ui.text.sum # 0
          /\ ui' = [shown EXCEPT !.ai = FALSE]
          /\ net' = [Spent(net) EXCEPT !.call[c] = Idle]
       \/ ui' = [ui EXCEPT !.ai = FALSE] /\ Finish(c)
    /\ UNCHANGED db

AfterSummary(c) ==
    LET a == net.call[c] IN
    /\ a.step = "summary" /\ a.at = "ok"
    /\ ui' = [ui EXCEPT !.report = a.report, !.ai = FALSE]
    /\ Finish(c) /\ UNCHANGED db

AfterSubmit(c) ==
    LET a == net.call[c] IN
    /\ a.step = "submit" /\ a.at \in {"ok", "blocked"}
    /\ ui' = [ui EXCEPT !.report = a.report, !.submitting = FALSE, !.warned = a.at = "blocked"]
    /\ Finish(c) /\ UNCHANGED db

AfterWrite(c) ==
    LET a == net.call[c] IN
    /\ a.step \in {"write", "create"} /\ a.at = "ok"
    /\ Then(c, "today", a.text) /\ UNCHANGED <<ui, db>>

\* The row goes when its log exists and the report has been fetched.
AfterToday(c) ==
    LET a == net.call[c] IN
    /\ a.step = "today" /\ a.at = "ok" /\ c \in Call
    /\ ui' = [ui EXCEPT !.report = a.report, !.drafts = @ \ {a.draft}, !.confirming = @ \ {a.draft}]
    /\ Finish(c) /\ UNCHANGED db

\* A failure is reported and ends the handler; a submission whose save failed stops here.
SubmitsAnyway(a) == a.step = "save" /\ a.does \in Submits
Abandons(a) == FALSE
AfterFailure(c) ==
    LET a == net.call[c] IN
    /\ a.at = "refused" /\ c \in Call
    /\ IF Abandons(a) THEN Then(c, "submit", a.text) /\ ui' = ui
       ELSE /\ net' = [net EXCEPT !.call[c] = Idle,
                                  !.failed = IF a.draft = 0 THEN @ ELSE [net.failed EXCEPT ![a.draft] = @ + 1]]
            /\ ui' = [ui EXCEPT !.ai = @ /\ a.does \notin {"organize", "summary"},
                                !.submitting = @ /\ a.does \notin Submits,
                                !.confirming = @ \ {a.draft}]
    /\ UNCHANGED db

ServePage(c) == ServeSave(c) \/ ServeSummary(c) \/ ServeParse(c) \/ ServeWrite(c)
                    \/ ServeToday(c) \/ ServeSubmit(c)
After(c) == AfterSave(c) \/ AfterParse(c) \/ AfterSummary(c) \/ AfterSubmit(c)
                \/ AfterWrite(c) \/ AfterToday(c) \/ AfterFailure(c)

Next ==
    \/ Type \/ CloseWarnings
    \/ \E c \in Poll : StartPoll(c) \/ AnswerPoll(c)
    \/ \E c \in Call \cup Poll : ServePage(c)
    \/ \E c \in Call :
          \/ SaveRaw(c) \/ WriteOther(c) \/ After(c)
          \/ \E does \in {"organize", "summary"} : Organize(c, does)
          \/ \E force \in BOOLEAN : Submit(c, force)
          \/ \E d \in Draft : ConfirmDraft(c, d)
    \/ \E d \in Draft : RemoveDraft(d)

Spec == Init /\ [][Next]_vars
-----------------------------------------------------------------------------
\* What is submitted is the text the user saw when pressing the button, unless another
\* save of the page runs at the same time: the two may reach the server in any order.
SubmitsTheShown ==
    db.report.status = "draft" /\ db'.report.status = "submitted" /\ ~net.crossed =>
        TextOf(db'.report) = net.pressed
SubmittedAsShown == [][SubmitsTheShown]_vars

\* A draft becomes two logs only when the user was told that the first attempt failed.
DraftBecomesOneLog == \A d \in Draft : db.logs[d] <= 1 + net.failed[d]
=============================================================================
