---------------------------- MODULE StepAuthoring ----------------------------
(***************************************************************************)
(* The dialog in which the assistant makes steps of a prompt, on the pages *)
(* of the assembly, of the runs and of one run: the steps are applied as   *)
(* they are, saved as a template, or both. The page of the runs also asks  *)
(* which run they are for, and may have to create it first.                *)
(*                                                                         *)
(* The dialog can be closed and opened again while any of its requests is  *)
(* on its way. Of a prompt and of steps only the presence is modelled.     *)
(***************************************************************************)
EXTENDS Naturals

CONSTANTS
    Run,         \* runs there are to apply steps to
    MaxEvent     \* bound on what the user starts

VARIABLES
    ui,          \* the dialog
    net,         \* its requests: generation, list of runs, submission
    db           \* runs and templates created and not in use, failures told, silent ends

vars == <<ui, net, db>>

Number == 0 .. MaxEvent
Screen == {"assembly", "runs", "run"}
NoTarget == "none"
NewRun == "__new__"
Target == Run \cup {NoTarget, NewRun}
NoCall == [does |-> "none", step |-> "none", at |-> "idle", items |-> FALSE,
           target |-> NoTarget, disturbed |-> FALSE]

TypeOK ==
    /\ ui.screen \in Screen /\ ui.open \in BOOLEAN /\ ui.stage \in {"input", "result"}
    /\ ui.prompt \in BOOLEAN /\ ui.items \in BOOLEAN /\ ui.target \in Target
    /\ ui.generating \in BOOLEAN /\ ui.submitting \in BOOLEAN
    /\ net.generating \in BOOLEAN /\ net.options \in BOOLEAN
    /\ net.call.does \in {"none", "inline", "template", "both"} /\ net.events \in Number
    /\ db.runs \in Nat /\ db.templates \in Nat /\ db.failed \in Nat

Event == net.events < MaxEvent
Spent(q) == [q EXCEPT !.events = @ + 1]
Disturbed(q) == [q EXCEPT !.call.disturbed = @ \/ q.call.does # "none"]

Init ==
    /\ ui \in [screen : Screen, open : {FALSE}, stage : {"input"}, prompt : {FALSE}, items : {FALSE},
               target : {NoTarget}, generating : {FALSE}, submitting : {FALSE}]
    /\ net = [generating |-> FALSE, options |-> FALSE, call |-> NoCall, events |-> 0]
    /\ db = [runs |-> 0, templates |-> 0, failed |-> 0, quiet |-> 0]
-----------------------------------------------------------------------------
(* The dialog.                                                             *)

\* openAi: the page of the runs fetches the runs for the choice of the target.
Open ==
    /\ ~ui.open /\ Event
    /\ ui' = [ui EXCEPT !.open = TRUE]
    /\ net' = [Spent(net) EXCEPT !.options = @ \/ ui.screen = "runs"]
    /\ UNCHANGED db

\* The answer chooses the target anew, whatever has been chosen, in a dialog open or not.
AnswerOptions ==
    /\ net.options
    /\ net' = [Disturbed(net) EXCEPT !.options = FALSE]
    /\ \E target \in {NoTarget, NewRun} : ui' = [ui EXCEPT !.target = target]
    /\ UNCHANGED db

\* Cancel and the cross; what is on its way goes on.
Close ==
    /\ ui.open
    /\ ui' = [ui EXCEPT !.open = FALSE] /\ UNCHANGED <<net, db>>

\* resetAi, when the dialog has disappeared. The flags are left as they are.
Reset ==
    /\ ~ui.open
    /\ ui' = [ui EXCEPT !.stage = "input", !.prompt = FALSE, !.items = FALSE,
                        !.target = NoTarget]
    /\ net' = Disturbed(net) /\ ui' # ui /\ UNCHANGED db

Type ==
    /\ ui.open /\ ui.stage = "input" /\ Event
    /\ ui' = [ui EXCEPT !.prompt = ~@] /\ net' = Spent(net) /\ UNCHANGED db

Select(target) ==
    /\ ui.open /\ ui.stage = "result" /\ ui.screen = "runs" /\ target # ui.target
    /\ target \in Run => ~net.options
    /\ ui' = [ui EXCEPT !.target = target]
    /\ net' = Disturbed(net) /\ UNCHANGED db

BackToEdit ==
    /\ ui.open /\ ui.stage = "result"
    /\ ui' = [ui EXCEPT !.stage = "input"] /\ UNCHANGED <<net, db>>
-----------------------------------------------------------------------------
(* Generation.                                                             *)

Generate ==
    /\ ui.open /\ ui.stage = "input" /\ ui.prompt /\ ~ui.generating /\ Event
    /\ ui' = [ui EXCEPT !.generating = TRUE]
    /\ net' = [Spent(net) EXCEPT !.generating = TRUE]
    /\ UNCHANGED db

\* Steps replace those there are, in a dialog that may have been closed meanwhile; a
\* question, a refusal or a failure only shows a notice.
AnswerGeneration ==
    /\ net.generating
    /\ \/ /\ ui' = [ui EXCEPT !.generating = FALSE, !.items = TRUE, !.stage = "result"]
          /\ net' = [Disturbed(net) EXCEPT !.generating = FALSE]
       \/ /\ ui' = [ui EXCEPT !.generating = FALSE]
          /\ net' = [net EXCEPT !.generating = FALSE]
    /\ UNCHANGED db
-----------------------------------------------------------------------------
(* Submission: applyInline, saveTemplateOnly, saveAndApply.                *)

\* aiTargetReady; the other pages know where the steps go.
TargetReady == ui.screen = "runs" => ui.target # NoTarget
StepsOf(does) == IF does = "inline" THEN IF ui.screen = "runs" /\ ui.target = NewRun THEN "run" ELSE "apply"
                 ELSE "template"

\* The three buttons share aiSubmitting. The steps must be there.
Press(does) ==
    /\ ui.open /\ ui.stage = "result" /\ ui.items /\ ~ui.submitting /\ Event
    /\ does \in {"inline", "both"} => TargetReady
    /\ ui' = [ui EXCEPT !.submitting = TRUE]
    /\ net' = [Spent(net) EXCEPT
                 !.call = [NoCall EXCEPT !.does = does, !.step = StepsOf(does), !.at = "sent",
                                         !.items = ui.items, !.target = ui.target]]
    /\ UNCHANGED db

\* The server creates a template or a run, or applies steps; or it fails.
Serve ==
    LET a == net.call IN
    /\ a.at = "sent"
    /\ \/ /\ net' = [net EXCEPT !.call.at = "ok"]
          /\ db' = CASE a.step = "template" ->
                            [db EXCEPT !.templates = @ + (IF a.does = "both" THEN 1 ELSE 0)]
                     [] a.step = "run" -> [db EXCEPT !.runs = @ + 1]
                     [] OTHER -> [db EXCEPT !.runs = @ - (IF a.target = NewRun THEN 1 ELSE 0),
                                            !.templates = @ - (IF a.does = "both" THEN 1 ELSE 0)]
       \/ net' = [net EXCEPT !.call.at = "failed"] /\ db' = db
    /\ a.step = "apply" /\ ~a.items => net'.call.at = "failed"
    /\ UNCHANGED ui

End(u) == [u EXCEPT !.submitting = FALSE]
Ended == net' = [net EXCEPT !.call = NoCall]
Continue(call, step) ==
    /\ net' = [net EXCEPT !.call = [call EXCEPT !.step = step, !.at = "sent"]]
    /\ UNCHANGED <<ui, db>>

\* After the template was saved the target is looked at again: there may be none any
\* more, and the handler ends without a word.
AfterTemplate ==
    LET a == net.call IN
    /\ a.step = "template" /\ a.at = "ok"
    /\ \/ /\ a.does = "template"
          /\ ui' = End([ui EXCEPT !.open = FALSE]) /\ Ended /\ UNCHANGED db
       \/ /\ a.does = "both" /\ TargetReady
          /\ Continue([a EXCEPT !.target = ui.target], IF ui.target = NewRun THEN "run" ELSE "apply")
       \/ /\ a.does = "both" /\ ~TargetReady
          /\ ui' = End(ui) /\ Ended
          /\ db' = [db EXCEPT !.quiet = @ + (IF a.disturbed THEN 1 ELSE 0)]

\* After the run was created the steps of the editor are looked at again.
Latest(a) == IF a.does = "both" THEN a ELSE [a EXCEPT !.items = ui.items]
AfterRun ==
    /\ net.call.step = "run" /\ net.call.at = "ok"
    /\ Continue(Latest(net.call), "apply")

AfterApply ==
    /\ net.call.step = "apply" /\ net.call.at = "ok"
    /\ ui' = End([ui EXCEPT !.open = FALSE]) /\ Ended /\ UNCHANGED db

Silent(failed) == failed
Told(failed) == failed + 1
AfterFailure ==
    /\ net.call.at = "failed"
    /\ ui' = End(ui) /\ Ended /\ db' = [db EXCEPT !.failed = Told(@)]

Next ==
    \/ Open \/ AnswerOptions \/ Close \/ Reset \/ Type \/ BackToEdit
    \/ Generate \/ AnswerGeneration
    \/ \E target \in Target \ {NoTarget} : Select(target)
    \/ \E does \in {"inline", "template", "both"} : Press(does)
    \/ Serve \/ AfterTemplate \/ AfterRun \/ AfterApply \/ AfterFailure

Spec == Init /\ [][Next]_vars
-----------------------------------------------------------------------------
\* A run without its steps, or a template that was to be applied and was not, is left
\* behind only by a failure the user was told of, or in a dialog that was disturbed.
LeftoversAreReported ==
    net.call.does = "none" => db.runs <= db.failed /\ db.templates <= db.failed + db.quiet
=============================================================================
