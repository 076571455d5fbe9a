--------------------------- MODULE InstrumentPage ---------------------------
(***************************************************************************)
(* The instrument page: a card per instrument, of which one is expanded    *)
(* with a form for a whitelisted command, the panel with the result of the *)
(* last command, the chat in which the assistant turns a wish into a       *)
(* command for the selected instrument, and the form that saves a result.  *)
(*                                                                         *)
(* An execution is known by its number; its response and the value parsed  *)
(* from it are that number. Parameters are the command whose defaults they *)
(* started from.                                                           *)
(***************************************************************************)
EXTENDS Naturals, Sequences

CONSTANTS
    Instrument,     \* the instruments of the page
    Command,        \* commands of the whitelist that may be executed
    Yellow,         \* those of them that ask before they are sent
    MaxEvent        \* bound on the commands run and the wishes made

VARIABLES
    ui,             \* the page
    net,            \* its requests, and the candidates the assistant has made
    db              \* the commands the instruments have carried out, in order

vars == <<ui, net, db>>

None == "none"
Candidate == 1 .. MaxEvent
Exec == 0 .. Len(db)          \* 0 stands for no execution
Idle == [at |-> "idle", ins |-> None, cmd |-> None, params |-> None, of |-> 0]
NoCandidate == [ins |-> None, cmd |-> None]
NoForm == [ins |-> None, value |-> 0]

TypeOK ==
    /\ ui.expanded \in Instrument \cup {None} /\ ui.cmd \in Command \cup {None}
    /\ ui.params \in Command \cup {None} /\ ui.running \in BOOLEAN
    /\ ui.result \in Exec /\ ui.parsed \in Exec /\ ui.resultIns \in Instrument \cup {None}
    /\ ui.chosen \in Instrument \cup {None} /\ ui.chat \subseteq Candidate
    /\ ui.done \subseteq Candidate /\ ui.busy \subseteq Candidate /\ ui.execs \subseteq Exec
    /\ ui.asking \in BOOLEAN /\ ui.form.ins \in Instrument \cup {None} /\ ui.form.value \in Exec
    /\ net.run.at \in {"idle", "asking", "sent", "ok", "refused", "parsing"}
    /\ \A k \in Candidate : /\ net.try[k].at \in {"idle", "asking", "sent", "ok", "refused", "parsing"}
                            /\ net.candidate[k].ins \in Instrument \cup {None}
    /\ net.events \in 0 .. MaxEvent

\* The list of instruments and the whitelist have been loaded.
Init ==
    /\ ui = [expanded |-> None, cmd |-> None, params |-> None, running |-> FALSE,
             result |-> 0, parsed |-> 0, resultIns |-> None, form |-> NoForm,
             chosen |-> None, chat |-> {}, done |-> {}, busy |-> {}, execs |-> {}, asking |-> FALSE]
    /\ net = [status |-> {}, run |-> Idle, wish |-> None, try |-> [k \in Candidate |-> Idle],
              candidate |-> [k \in Candidate |-> NoCandidate], made |-> 0,
              events |-> 0]
    /\ db = <<>>

\* A question of ElMessageBox covers the page: the user can only answer it.
Questioned == net.run.at = "asking" \/ \E k \in Candidate : net.try[k].at = "asking"
User == ~Questioned
Event == User /\ net.events < MaxEvent
Spent(q) == [q EXCEPT !.events = @ + 1]
-----------------------------------------------------------------------------
(* The cards.                                                              *)

\* onCommandPick fills in the defaults of the command.
Picked(u, c) == [u EXCEPT !.cmd = c, !.params = c]
Expanded(u, i) == [u EXCEPT !.expanded = i, !.cmd = None, !.params = None]

\* toggleExpand: the status it fetches is shown and used for nothing else.
ToggleExpand(i) ==
    /\ User
    /\ ui' = IF ui.expanded = i THEN [ui EXCEPT !.expanded = None] ELSE Expanded(ui, i)
    /\ UNCHANGED <<net, db>>

PickCommand(c) ==
    /\ ui.expanded # None /\ User
    /\ ui' = Picked(ui, c) /\ UNCHANGED <<net, db>>

\* executeFromWhitelist: the command is put into the form of the expanded card, or of the
\* first card once its status has been fetched.
FromWhitelist(c) ==
    /\ User
    /\ \/ ui.expanded # None /\ ui' = Picked(ui, c) /\ UNCHANGED <<net, db>>
       \/ /\ ui.expanded = None /\ Instrument # {} /\ Event
          /\ LET first == CHOOSE i \in Instrument : TRUE IN
             /\ ui' = Expanded(ui, first)
             /\ net' = [Spent(net) EXCEPT !.status = @ \cup {c}]
          /\ UNCHANGED db

\* The status arrives, or does not; the command is put into the form of whichever card
\* is open by now.
AnswerStatus ==
    \E c \in net.status :
        /\ ui' = Picked(ui, c)
        /\ net' = [net EXCEPT !.status = @ \ {c}] /\ UNCHANGED db
-----------------------------------------------------------------------------
(* The command form.                                                       *)

KeepsResult(u) == u
ClearsResult(u) == [u EXCEPT !.result = 0, !.parsed = 0]

\* The parameters are read from the form when the command is sent.
SendCommand(q, i, c) ==
    /\ net' = [q EXCEPT !.run = [Idle EXCEPT !.at = "sent", !.ins = i, !.cmd = c, !.params = ui.params]]
    /\ ui' = ClearsResult([ui EXCEPT !.running = TRUE])

RunCommand ==
    /\ ui.expanded # None /\ ui.cmd # None /\ ~ui.running /\ Event
    /\ IF ui.cmd \in Yellow
       THEN /\ net' = [Spent(net) EXCEPT !.run = [Idle EXCEPT !.at = "asking", !.ins = ui.expanded,
                                                             !.cmd = ui.cmd]]
            /\ ui' = ui
       ELSE SendCommand(Spent(net), ui.expanded, ui.cmd)
    /\ UNCHANGED db

AnswerQuestion ==
    /\ net.run.at = "asking"
    /\ \/ SendCommand(net, net.run.ins, net.run.cmd)
       \/ net' = [net EXCEPT !.run = Idle] /\ ui' = ui
    /\ UNCHANGED db

\* The server carries the command out or refuses it; an answer may be lost.
Execution(a, k) == [ins |-> a.ins, cmd |-> a.cmd, params |-> a.params, candidate |-> k]
ServeCommand ==
    /\ net.run.at = "sent"
    /\ \/ \E at \in {"ok", "refused"} :
             /\ db' = Append(db, Execution(net.run, 0))
             /\ net' = [net EXCEPT !.run.at = at, !.run.of = Len(db) + 1]
       \/ net' = [net EXCEPT !.run.at = "refused"] /\ db' = db
    /\ UNCHANGED ui

\* The response is shown and sent to be parsed; then the value is shown.
AfterCommand ==
    /\ \/ /\ net.run.at = "ok"
          /\ ui' = [ui EXCEPT !.result = net.run.of, !.resultIns = net.run.ins]
          /\ net' = [net EXCEPT !.run.at = "parsing"]
       \/ /\ net.run.at = "parsing"
          /\ \E parsed \in {0, net.run.of} : ui' = [ui EXCEPT !.parsed = parsed, !.running = FALSE]
          /\ net' = [net EXCEPT !.run = Idle]
       \/ /\ net.run.at = "refused"
          /\ ui' = [ui EXCEPT !.running = FALSE]
          /\ net' = [net EXCEPT !.run = Idle]
    /\ UNCHANGED db
-----------------------------------------------------------------------------
(* The chat.                                                               *)

\* The select of the panel and the button of a card: the chat starts anew.
SelectInstrument(i) ==
    /\ ui.chosen # i /\ User
    /\ ui' = [ui EXCEPT !.chosen = i, !.chat = {}, !.execs = {}]
    /\ UNCHANGED <<net, db>>

\* sendAI.
SendWish ==
    /\ ui.chosen # None /\ ~ui.asking /\ Event
    /\ ui' = [ui EXCEPT !.asking = TRUE]
    /\ net' = [Spent(net) EXCEPT !.wish = ui.chosen]
    /\ UNCHANGED db

\* The answer goes into the chat there is by now.
AnswerWish ==
    /\ net.wish # None
    /\ \/ /\ net.made < MaxEvent
          /\ \E c \in Command :
                net' = [net EXCEPT !.wish = None, !.made = @ + 1,
                                   !.candidate[net.made + 1] = [ins |-> net.wish, cmd |-> c]]
          /\ ui' = [ui EXCEPT !.asking = FALSE, !.chat = @ \cup {net.made + 1}]
       \/ net' = [net EXCEPT !.wish = None] /\ ui' = [ui EXCEPT !.asking = FALSE]
    /\ UNCHANGED db

Discard(k) ==
    /\ k \in ui.chat \ ui.done /\ User
    /\ ui' = [ui EXCEPT !.done = @ \cup {k}] /\ UNCHANGED <<net, db>>

\* runAICandidate: on the instrument that is selected now.
SendCandidate(q, k, i) ==
    LET c == net.candidate[k].cmd IN
    /\ net' = [q EXCEPT !.try[k] = [at |-> "sent", ins |-> i, cmd |-> c, params |-> c, of |-> 0]]
    /\ ui' = [ui EXCEPT !.busy = @ \cup {k}]

RunCandidate(k) ==
    /\ k \in ui.chat \ (ui.done \cup ui.busy) /\ net.try[k] = Idle /\ Event
    /\ IF net.candidate[k].cmd \in Yellow
       THEN net' = [Spent(net) EXCEPT !.try[k] = [Idle EXCEPT !.at = "asking", !.ins = ui.chosen]] /\ ui' = ui
       ELSE SendCandidate(Spent(net), k, ui.chosen)
    /\ UNCHANGED db

AnswerConfirm(k) ==
    /\ net.try[k].at = "asking"
    /\ \/ SendCandidate(net, k, net.try[k].ins)
       \/ net' = [net EXCEPT !.try[k] = Idle] /\ ui' = ui
    /\ UNCHANGED db

ServeCandidate(k) ==
    /\ net.try[k].at = "sent"
    /\ \/ \E at \in {"ok", "refused"} :
             /\ db' = Append(db, Execution(net.try[k], k))
             /\ net' = [net EXCEPT !.try[k].at = at, !.try[k].of = Len(db) + 1]
       \/ net' = [net EXCEPT !.try[k].at = "refused"] /\ db' = db
    /\ UNCHANGED ui

\* The candidate is done when it has been executed; its result is a message of its own.
AfterCandidate(k) ==
    /\ \/ /\ net.try[k].at = "ok"
          /\ ui' = [ui EXCEPT !.done = @ \cup {k}]
          /\ net' = [net EXCEPT !.try[k].at = "parsing"]
       \/ /\ net.try[k].at = "parsing"
          /\ ui' = [ui EXCEPT !.busy = @ \ {k}, !.execs = @ \cup {net.try[k].of}]
          /\ net' = [net EXCEPT !.try[k] = Idle]
       \/ /\ net.try[k].at = "refused"
          /\ ui' = [ui EXCEPT !.busy = @ \ {k}]
          /\ net' = [net EXCEPT !.try[k] = Idle]
    /\ UNCHANGED db
-----------------------------------------------------------------------------
(* Saving a result as test data.                                           *)

\* openSave, from the panel or from a message of the chat.
OpenSave ==
    /\ User /\ ui.form = NoForm
    /\ \/ /\ ui.result # 0
          /\ ui' = [ui EXCEPT !.form = [ins |-> ui.resultIns, value |-> ui.parsed]]
       \/ \E n \in ui.execs : ui' = [ui EXCEPT !.form = [ins |-> db[n].ins, value |-> n]]
    /\ UNCHANGED <<net, db>>

CloseSave ==
    /\ ui.form # NoForm /\ User
    /\ ui' = [ui EXCEPT !.form = NoForm] /\ UNCHANGED <<net, db>>

Next ==
    \/ AnswerStatus \/ RunCommand \/ AnswerQuestion \/ ServeCommand \/ AfterCommand
    \/ SendWish \/ AnswerWish \/ OpenSave \/ CloseSave
    \/ \E i \in Instrument : ToggleExpand(i) \/ SelectInstrument(i)
    \/ \E c \in Command : PickCommand(c) \/ FromWhitelist(c)
    \/ \E k \in Candidate : Discard(k) \/ RunCandidate(k) \/ AnswerConfirm(k)
                               \/ ServeCandidate(k) \/ AfterCandidate(k)

Spec == Init /\ [][Next]_vars
-----------------------------------------------------------------------------
\* A value in the save form was measured by the instrument the form names, whichever
\* commands ran, failed or were still being parsed meanwhile.
SavedAsMeasured == ui.form.value # 0 => db[ui.form.value].ins = ui.form.ins

\* A candidate is executed on the instrument it was made for.
CandidateRunsWhereMeant ==
    \A n \in 1 .. Len(db) :
        db[n].candidate # 0 => db[n].ins = net.candidate[db[n].candidate].ins
=============================================================================
