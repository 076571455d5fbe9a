---------------------------- MODULE UpdateStream ----------------------------
(***************************************************************************)
(* One update of the system, followed from the settings page: the script   *)
(* runs outside the server and writes a log file and a marker, the server  *)
(* numbers the lines and streams them, restarts in the middle and rebuilds *)
(* the session from the files, and the page reconnects until it is told    *)
(* the result or gives up.                                                 *)
(*                                                                         *)
(* A frame of the stream is [seq, type, of]: a line with its number in the *)
(* log file, an error, or the result.                                      *)
(***************************************************************************)
EXTENDS Naturals, Sequences

CONSTANTS
    MaxLines,       \* bound on the lines of the log file
    MaxCrash,       \* bound on the crashes of the server
    MaxTrouble,     \* bound on lost connections, expired cookies and reloads of the page
    MaxAttempts,    \* RECONNECT_ATTEMPTS
    Buffer          \* subBufferSize, the frames a subscription holds

VARIABLES
    ui,             \* the update card of the settings page
    net,            \* the connection: frames sent and not yet shown, faults so far
    db              \* the script, its files, and the session in the server's memory

vars == <<ui, net, db>>

Frame(seq, type, of) == [seq |-> seq, type |-> type, of |-> of]
NoFrame == Frame(0, "none", "none")
NoSession == [at |-> "none", seq |-> 0, history |-> <<>>, done |-> NoFrame, read |-> 0,
              end |-> FALSE, tails |-> FALSE, verdict |-> "none", closed |-> FALSE]
NoStream == [at |-> "none", rest |-> <<>>, last |-> 0, sent |-> <<>>]
NewPage == [running |-> FALSE, starting |-> FALSE, result |-> "none", log |-> <<>>, last |-> 0,
            attempts |-> 0, conn |-> "none", auth |-> FALSE, saved |-> FALSE]

TypeOK ==
    /\ ui.running \in BOOLEAN /\ ui.starting \in BOOLEAN /\ ui.saved \in BOOLEAN
    /\ ui.result \in {"none", "success", "failed"} /\ ui.attempts \in 0 .. MaxAttempts
    /\ ui.log \in Seq(1 .. MaxLines) /\ ui.last \in Nat
    /\ ui.conn \in {"none", "asking", "open", "timer", "refreshing"}
    /\ net.stream.at \in {"none", "new", "replay", "live", "closed"}
    /\ Len(net.stream.sent) <= Buffer /\ net.trouble \in 0 .. MaxTrouble
    /\ db.lines \in 0 .. MaxLines /\ db.runner \in {"none", "running", "gone"}
    /\ db.marker \in {"none", "ok", "failed"} /\ db.exit \in {"none", "ok", "failed"}
    /\ db.session.at \in {"none", "spawned", "running", "ending", "done"}
    /\ db.session.read \in 0 .. db.lines /\ db.up \in BOOLEAN /\ db.crashes \in 0 .. MaxCrash

Init ==
    /\ ui = NewPage
    /\ net = [stream |-> NoStream, trigger |-> "none", trouble |-> 0]
    /\ db = [lines |-> 0, marker |-> "none", exit |-> "none", runner |-> "none", noted |-> FALSE,
             up |-> TRUE, crashes |-> 0, session |-> NoSession]

Trouble == net.trouble < MaxTrouble
Troubled(q) == [q EXCEPT !.trouble = @ + 1]
-----------------------------------------------------------------------------
(* The script, in a process or a container of its own.                     *)

ScriptLine ==
    /\ db.runner = "running" /\ db.lines < MaxLines
    /\ db' = [db EXCEPT !.lines = @ + 1]
    /\ UNCHANGED <<ui, net>>

\* Its exit trap writes the marker; killed, it writes none.
ScriptEnds ==
    /\ db.runner = "running"
    /\ \/ \E code \in {"ok", "failed"} :
             db' = [db EXCEPT !.runner = "gone", !.exit = code, !.marker = code]
       \/ db' = [db EXCEPT !.runner = "gone", !.exit = "failed"]
    /\ UNCHANGED <<ui, net>>
-----------------------------------------------------------------------------
(* The session in the server's memory.                                     *)

S == db.session

\* broadcastLocked: a frame for which the subscription has no room is dropped.
Broadcast(q, frame) ==
    IF q.stream.at \notin {"none", "closed"} /\ Len(q.stream.sent) < Buffer
    THEN [q EXCEPT !.stream.sent = Append(@, frame)] ELSE q

\* ingestLine and ingestError number a frame, keep it and broadcast it.
Ingest(s, type, of) == [s EXCEPT !.seq = @ + 1, !.history = Append(@, Frame(s.seq + 1, type, of))]

\* Trigger and runScript: the session is registered and the script spawned; when it
\* cannot be, the session ends with an error.
ServeTrigger ==
    /\ net.trigger = "sent" /\ db.up /\ S.at = "none" /\ db.runner = "none"
    /\ \/ db' = [db EXCEPT !.runner = "running",
                           !.session = [NoSession EXCEPT !.at = "spawned"]]
       \/ db' = [db EXCEPT !.runner = "gone", !.exit = "failed",
                           !.session = [Ingest(NoSession, "error", "none")
                                        EXCEPT !.at = "ending", !.verdict = "failed"]]
    /\ UNCHANGED <<ui, net>>

\* The runner is noted on disk, the watchdog set, the tail started, and Trigger returns.
NoteRunner ==
    /\ S.at = "spawned"
    /\ db' = [db EXCEPT !.noted = TRUE, !.session.at = "running", !.session.tails = TRUE,
                        !.session.end = (db.lines = 0)]
    /\ net' = [net EXCEPT !.trigger = "ok"]
    /\ UNCHANGED ui

\* tailSessionLog takes one line, and knows whether it was the last one then; once the
\* session is done the line is dropped.
TailLine ==
    /\ S.tails /\ S.at \in {"running", "ending"} /\ S.read < db.lines
    /\ LET s == Ingest([S EXCEPT !.read = @ + 1, !.end = (S.read + 1 = db.lines)],
                       "line", S.read + 1) IN
       /\ db' = [db EXCEPT !.session = s]
       /\ net' = Broadcast(net, s.history[Len(s.history)])
    /\ UNCHANGED ui

\* finishFromMarker: the tail has been at the end of the file, looks for the marker, finds
\* it and returns. Lines written between the two looks stay unread.
FindMarker ==
    /\ S.tails /\ S.at \in {"running", "ending"} /\ S.end /\ db.marker # "none"
    /\ db' = [db EXCEPT !.session.at = "ending", !.session.verdict = db.marker,
                        !.session.tails = FALSE]
    /\ UNCHANGED <<ui, net>>

\* The runner is gone without a marker, or the watchdog kills it: an error, then finish.
TakesForDone(s) == "ok"
VerdictOf(s) == "failed"
GiveUp ==
    /\ S.at = "running"
    /\ LET s == [Ingest(S, "error", "none") EXCEPT !.at = "ending", !.verdict = VerdictOf(S)] IN
       /\ \/ /\ db.runner = "gone" /\ db.marker = "none" /\ S.tails /\ S.end
             /\ db' = [db EXCEPT !.session = [s EXCEPT !.tails = FALSE]]
          \/ db' = [db EXCEPT !.session = s, !.runner = "gone",
                              !.exit = IF db.runner = "running" THEN "failed" ELSE @]
       /\ net' = Broadcast(net, s.history[Len(s.history)])
    /\ UNCHANGED ui

\* finish: first the state and the number of the result ...
Finish ==
    /\ S.at = "ending"
    /\ db' = [db EXCEPT !.session.at = "done", !.session.seq = @ + 1,
                        !.session.done = Frame(S.seq + 1, "done", S.verdict)]
    /\ UNCHANGED <<ui, net>>

\* ... then, outside the lock, the marker, the runner file, the broadcast. A trigger
\* whose script could not be spawned returns only now.
FinishFiles ==
    /\ S.at = "done" /\ S.done.seq > 0 /\ S.verdict # "none" /\ ~S.closed
    /\ db' = [db EXCEPT !.marker = S.verdict, !.noted = FALSE, !.session.closed = TRUE]
    /\ net' = [Broadcast(net, S.done) EXCEPT !.trigger = IF @ = "sent" THEN "ok" ELSE @]
    /\ UNCHANGED ui

\* recoverFromDisk numbers the lines of the file anew. A marker is the result, a runner
\* that is alive is followed on, and anything else was interrupted: an error, no result.
Numbered == [n \in 1 .. db.lines |-> Frame(n, "line", n)]
Rebuilt ==
    LET base == [NoSession EXCEPT !.history = Numbered, !.seq = db.lines, !.read = db.lines] IN
    IF db.marker # "none"
    THEN LET done == Frame(db.lines + 1, "done", db.marker) IN
         [base EXCEPT !.at = "done", !.done = done, !.history = Append(@, done)]
    ELSE IF db.noted /\ db.runner = "running"
    THEN [base EXCEPT !.at = "running", !.tails = TRUE, !.end = TRUE]
    ELSE [base EXCEPT !.at = "done", !.history = Append(@, Frame(db.lines + 1, "error", "none"))]

\* The update restarts the server: its memory, its subscriptions and calls are lost.
Crash ==
    /\ db.up /\ db.crashes < MaxCrash
    /\ db' = [db EXCEPT !.up = FALSE, !.crashes = @ + 1, !.session = NoSession]
    /\ net' = [net EXCEPT !.stream = NoStream,
                          !.trigger = IF @ \in {"sent", "ok"} THEN "lost" ELSE @]
    /\ UNCHANGED ui

\* recoverInterruptedSessions: sessions with a log and a runner file, and no marker.
Restart ==
    /\ ~db.up
    /\ db' = [db EXCEPT !.up = TRUE,
                        !.session = IF db.lines > 0 /\ db.noted /\ db.marker = "none"
                                    THEN Rebuilt ELSE NoSession]
    /\ UNCHANGED <<ui, net>>
-----------------------------------------------------------------------------
(* One subscription: its goroutine replays the history while broadcasts    *)
(* write into the same buffer.                                             *)

St == net.stream
Send(frame) == /\ Len(St.sent) < Buffer
               /\ net' = [net EXCEPT !.stream.sent = Append(@, frame), !.stream.last = frame.seq]

\* replaySnapshot: a session that was rebuilt leaves its own result to what follows.
Snapshot ==
    /\ St.at = "new"
    /\ net' = [net EXCEPT !.stream.at = "replay", !.stream.rest = S.history]
    /\ UNCHANGED <<ui, db>>

Replay ==
    /\ St.at = "replay" /\ St.rest # <<>> /\ Len(St.sent) < Buffer
    /\ net' = [net EXCEPT !.stream.sent = Append(@, Head(St.rest)),
                          !.stream.last = Head(St.rest).seq, !.stream.rest = Tail(@)]
    /\ UNCHANGED <<ui, db>>

\* A session that is done sends its result once more, unless it has been replayed.
AfterReplay ==
    /\ St.at = "replay" /\ St.rest = <<>>
    /\ IF S.at # "done" THEN net' = [net EXCEPT !.stream.at = "live"]
       ELSE IF S.done.seq <= St.last THEN net' = [net EXCEPT !.stream.at = "closed"]
       ELSE Send(S.done)
    /\ UNCHANGED <<ui, db>>

AfterDone ==
    /\ St.at = "live" /\ S.closed
    /\ IF S.done.seq <= St.last THEN net' = [net EXCEPT !.stream.at = "closed"]
       ELSE Send(S.done)
    /\ UNCHANGED <<ui, db>>
-----------------------------------------------------------------------------
(* The settings page.                                                      *)

StartUpdate ==
    /\ ~ui.running /\ ~ui.starting /\ net.trigger = "none"
    /\ ui' = [ui EXCEPT !.starting = TRUE]
    /\ net' = [net EXCEPT !.trigger = "sent"]
    /\ UNCHANGED db

\* The session is remembered in localStorage and its stream opened.
Follow(u) == [u EXCEPT !.running = TRUE, !.result = "none", !.log = <<>>, !.last = 0,
                       !.attempts = 0, !.conn = "asking"]
AnswerTrigger ==
    /\ net.trigger \in {"ok", "lost"} /\ ui.starting
    /\ ui' = IF net.trigger = "lost" THEN [ui EXCEPT !.starting = FALSE]
             ELSE Follow([ui EXCEPT !.starting = FALSE, !.saved = TRUE])
    /\ net' = [net EXCEPT !.trigger = "done"]
    /\ UNCHANGED db

\* scheduleReconnect.
Retry(u) == IF u.attempts >= MaxAttempts THEN [u EXCEPT !.running = FALSE, !.conn = "none"]
            ELSE [u EXCEPT !.attempts = @ + 1, !.conn = "timer"]
Stop(u) == [u EXCEPT !.running = FALSE, !.conn = "none", !.saved = FALSE]

\* The server subscribes the page, rebuilding the session when it is not in memory. The
\* cookie may have expired, the session be unknown, the server be down.
Connect ==
    /\ ui.conn = "asking"
    /\ \/ /\ db.up /\ (S.at # "none" \/ db.lines > 0)
          /\ db' = IF S.at = "none" THEN [db EXCEPT !.session = Rebuilt] ELSE db
          /\ net' = [net EXCEPT !.stream = [NoStream EXCEPT !.at = "new"]]
          /\ ui' = [ui EXCEPT !.conn = "open"]
       \/ /\ db.up /\ S.at = "none" /\ db.lines = 0
          /\ ui' = Stop(ui) /\ UNCHANGED <<net, db>>
       \/ /\ Trouble /\ net' = Troubled(net) /\ db' = db
          /\ ui' = Retry([ui EXCEPT !.auth = TRUE])
       \/ ~db.up /\ ui' = Retry(ui) /\ UNCHANGED <<net, db>>

\* onEvent: a frame that is not newer than the last one is dropped, and only a new one
\* resets the count of attempts.
AnyFrame(frame) == TRUE
Takes(frame) == frame.seq > ui.last
ResetsAttempts(frame) == Takes(frame)
Shown(u, frame) ==
    CASE frame.type = "line" -> [u EXCEPT !.log = Append(@, frame.of)]
      [] frame.type = "done" -> [Stop(u) EXCEPT !.result = IF frame.of = "ok" THEN "success"
                                                          ELSE "failed"]
      [] OTHER -> u

Receive ==
    /\ ui.conn = "open" /\ St.sent # <<>>
    /\ LET frame == Head(St.sent)
           u == IF ResetsAttempts(frame) THEN [ui EXCEPT !.attempts = 0] ELSE ui
       IN /\ ui' = IF Takes(frame) THEN Shown([u EXCEPT !.last = frame.seq], frame) ELSE u
          /\ net' = IF ui'.conn = "none" THEN [net EXCEPT !.stream = NoStream]
                                           ELSE [net EXCEPT !.stream.sent = Tail(@)]
    /\ UNCHANGED db

\* onNetworkError: the server is gone, has closed the stream, or the connection is lost.
Disconnect ==
    /\ ui.conn = "open"
    /\ \/ St.at = "none" /\ net' = net
       \/ St.at = "closed" /\ St.sent = <<>> /\ net' = [net EXCEPT !.stream = NoStream]
       \/ Trouble /\ net' = [Troubled(net) EXCEPT !.stream = NoStream]
    /\ ui' = Retry(ui)
    /\ UNCHANGED db

\* reconnectStream: after a 401 the cookie is refreshed first, and a failure of that ends
\* the session of the user.
Reconnect ==
    \/ /\ ui.conn = "timer"
       /\ ui' = [ui EXCEPT !.auth = FALSE, !.conn = IF ui.auth THEN "refreshing" ELSE "asking"]
       /\ UNCHANGED <<net, db>>
    \/ /\ ui.conn = "refreshing"
       /\ \/ ui' = [ui EXCEPT !.conn = "asking"]
          \/ ui' = [Stop(ui) EXCEPT !.result = "failed"]
       /\ UNCHANGED <<net, db>>

\* The page is reloaded, or left and opened again: onMounted restores the session.
Reopen ==
    /\ Trouble /\ ~ui.starting /\ ui # NewPage
    /\ ui' = LET u == [NewPage EXCEPT !.saved = ui.saved] IN IF ui.saved THEN Follow(u) ELSE u
    /\ net' = [Troubled(net) EXCEPT !.stream = NoStream]
    /\ UNCHANGED db

Subscription == Snapshot \/ Replay \/ AfterReplay \/ AfterDone
Server == ServeTrigger \/ NoteRunner \/ TailLine \/ FindMarker \/ GiveUp \/ Finish \/ FinishFiles
              \/ Restart \/ Subscription
Page == AnswerTrigger \/ Connect \/ Receive \/ Disconnect \/ Reconnect
Next == ScriptLine \/ ScriptEnds \/ Crash \/ StartUpdate \/ Reopen \/ Server \/ Page

Spec == Init /\ [][Next]_vars

\* The server is restarted and its goroutines run, the watchdog included; timers of the
\* page fire and its requests are answered or fail.
Fairness ==
    /\ WF_vars(Restart) /\ WF_vars(NoteRunner) /\ WF_vars(TailLine) /\ WF_vars(GiveUp)
    /\ WF_vars(FindMarker) /\ WF_vars(Finish) /\ WF_vars(FinishFiles)
    /\ WF_vars(Subscription)
    /\ WF_vars(Connect) /\ WF_vars(Receive) /\ WF_vars(Disconnect) /\ WF_vars(Reconnect)
FairSpec == Spec /\ Fairness
-----------------------------------------------------------------------------
\* Whatever is replayed, numbered anew after a restart of the server, or overtaken, the
\* page never shows a line twice or after a later one.
LinesInOrder == \A i, j \in 1 .. Len(ui.log) : i < j => ui.log[i] < ui.log[j]

\* A success is shown only when the script has ended with 0.
SuccessIsTrue == ui.result = "success" => db.exit = "ok"

\* The page does not follow an update for ever: it learns the result, or gives up.
UpdateEnds == ui.running ~> ~ui.running

\* The frames of a subscription are in the order of their numbers (the comment on
\* sendLocked).
StreamInOrder ==
    \A i, j \in 1 .. Len(net.stream.sent) :
        i < j => net.stream.sent[i].seq <= net.stream.sent[j].seq
=============================================================================
