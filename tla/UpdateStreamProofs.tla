------------------------- MODULE UpdateStreamProofs -------------------------
(***************************************************************************)
(* What holds of an update for any number of lines, crashes, troubles and  *)
(* attempts and any buffer: the page is told of a success only when the    *)
(* script has succeeded, and shows every line at most once and in order.   *)
(***************************************************************************)
EXTENDS UpdateStream, TLAPS

-----------------------------------------------------------------------------
(* Types.                                                                  *)

Outcome == {"none", "ok", "failed"}
FrameRecord == [seq : Nat, type : {"none", "line", "error", "done"}, of : Nat \cup Outcome]

Session == [at : {"none", "spawned", "running", "ending", "done"}, seq : Nat,
            history : Seq(FrameRecord), done : FrameRecord, read : Nat, end : BOOLEAN,
            tails : BOOLEAN, verdict : Outcome, closed : BOOLEAN]

Stream == [at : {"none", "new", "replay", "live", "closed"}, rest : Seq(FrameRecord),
           last : Nat, sent : Seq(FrameRecord)]

DbType == [lines : Nat, marker : Outcome, exit : Outcome, runner : {"none", "running", "gone"},
           noted : BOOLEAN, up : BOOLEAN, crashes : Nat, session : Session]

NetInv ==
    /\ {"stream", "trigger", "trouble"} \subseteq DOMAIN net
    /\ net.stream \in Stream

USE DEF S, St

-----------------------------------------------------------------------------
(* The invariant.                                                          *)

\* Nothing that speaks of a success is there before the script has ended with 0, and then
\* the script is over.
Fits(exit, frame) == frame.type = "done" /\ frame.of = "ok" => exit = "ok"
AllFit(exit, frames) == \A i \in 1 .. Len(frames) : Fits(exit, frames[i])

DbTrue ==
    /\ db.exit = "ok" => db.runner = "gone"
    /\ db.marker = "ok" => db.exit = "ok"
    /\ S.verdict = "ok" => db.exit = "ok"
    /\ Fits(db.exit, S.done) /\ AllFit(db.exit, S.history)

StreamTrue == AllFit(db.exit, St.rest) /\ AllFit(db.exit, St.sent)

DbInv == db \in DbType /\ DbTrue
Truth == DbInv /\ NetInv /\ StreamTrue

LEMMA NoFrames == <<>> \in Seq(FrameRecord) /\ Len(<<>>) = 0 /\ NoFrame \in FrameRecord
                  /\ NoFrame.type = "none"
BY DEF NoFrame, Frame, FrameRecord, Outcome

LEMMA NoSessionType == /\ NoSession \in Session /\ NoSession.history = <<>>
                       /\ NoSession.done = NoFrame /\ NoSession.verdict = "none"
BY NoFrames DEF NoSession, Session, Outcome

LEMMA NoStreamType == NoStream \in Stream /\ NoStream.rest = <<>> /\ NoStream.sent = <<>>
BY NoFrames DEF NoStream, Stream

\* A session that has read a line more.
LEMMA ReadsOn ==
    ASSUME NEW s \in Session, NEW end \in BOOLEAN
    PROVE  LET r == [s EXCEPT !.read = @ + 1, !.end = end]
           IN  /\ r \in Session /\ r.verdict = s.verdict /\ r.done = s.done
               /\ r.history = s.history /\ s.read + 1 \in Nat
<1> DEFINE n == s.read + 1
           r == [s EXCEPT !.read = n, !.end = end]
<1>1. n \in Nat
    BY DEF Session
<1> HIDE DEF n
<1>2. r \in Session
    BY <1>1, Zenon DEF Session
<1>3. r.verdict = s.verdict /\ r.done = s.done /\ r.history = s.history
    BY Zenon DEF Session
<1> QED
    BY <1>1, <1>2, <1>3 DEF n

\* A line, an error or a result that is appended.
LEMMA Ingesting ==
    ASSUME NEW s \in Session, NEW type \in {"line", "error"}, NEW of \in Nat \cup Outcome
    PROVE  /\ Ingest(s, type, of) \in Session
           /\ Ingest(s, type, of).verdict = s.verdict /\ Ingest(s, type, of).done = s.done
           /\ \A e : AllFit(e, s.history) => AllFit(e, Ingest(s, type, of).history)
           /\ LET f == Ingest(s, type, of).history[Len(Ingest(s, type, of).history)]
              IN  f \in FrameRecord /\ f.type = type
<1> DEFINE f == Frame(s.seq + 1, type, of)
           n == s.seq + 1
           h == Append(s.history, f)
<1>1. f \in FrameRecord /\ f.type = type
    BY DEF Frame, FrameRecord, Session
<1>2. Ingest(s, type, of) = [s EXCEPT !.seq = n, !.history = h]
    BY DEF Ingest
<1>3. s.history \in Seq(FrameRecord) /\ n \in Nat
    BY DEF Session
<1> HIDE DEF f, n
<1>4. h \in Seq(FrameRecord) /\ h[Len(h)] = f
    BY <1>1, <1>3
<1>5. \A e : AllFit(e, s.history) => AllFit(e, h)
    BY <1>1, <1>3 DEF AllFit, Fits
<1> HIDE DEF h
<1>6. Ingest(s, type, of) \in Session /\ Ingest(s, type, of).history = h
    BY <1>2, <1>3, <1>4 DEF Session
<1> QED
    BY <1>1, <1>2, <1>4, <1>5, <1>6 DEF Session

\* A broadcast adds one frame to the stream, or none.
LEMMA Broadcasting ==
    ASSUME NetInv, StreamTrue, NEW frame \in FrameRecord, Fits(db.exit, frame)
    PROVE  /\ Broadcast(net, frame).stream \in Stream
           /\ {"stream", "trigger", "trouble"} \subseteq DOMAIN Broadcast(net, frame)
           /\ AllFit(db.exit, Broadcast(net, frame).stream.rest)
           /\ AllFit(db.exit, Broadcast(net, frame).stream.sent)
<1>1. CASE Broadcast(net, frame) = net
    BY <1>1 DEF NetInv, StreamTrue
<1>2. CASE Broadcast(net, frame) = [net EXCEPT !.stream.sent = Append(@, frame)]
    <2>1. St.sent \in Seq(FrameRecord) /\ St.rest \in Seq(FrameRecord)
        BY DEF NetInv, Stream
    <2>2. Append(St.sent, frame) \in Seq(FrameRecord) /\ AllFit(db.exit, Append(St.sent, frame))
        BY <2>1 DEF StreamTrue, AllFit
    <2>3. /\ Broadcast(net, frame).stream = [St EXCEPT !.sent = Append(St.sent, frame)]
          /\ DOMAIN Broadcast(net, frame) = DOMAIN net
        BY <1>2 DEF NetInv
    <2> QED
        BY <2>1, <2>2, <2>3 DEF NetInv, Stream, StreamTrue
<1> QED
    BY <1>1, <1>2 DEF Broadcast

\* Frames that were true stay so, since the script does not end twice.
LEMMA StillFit ==
    ASSUME NEW e, NEW e2, e = "ok" => e2 = "ok"
    PROVE  /\ \A frame : Fits(e, frame) => Fits(e2, frame)
           /\ \A frames : AllFit(e, frames) => AllFit(e2, frames)
BY DEF Fits, AllFit

\* What the page and the connection do leaves the server alone, except that connecting may
\* rebuild the session.
LEMMA RebuiltIsTrue ==
    ASSUME DbInv
    PROVE  /\ Rebuilt \in Session /\ Rebuilt.verdict = "none"
           /\ Fits(db.exit, Rebuilt.done) /\ AllFit(db.exit, Rebuilt.history)
<1> DEFINE base == [NoSession EXCEPT !.history = Numbered, !.seq = db.lines, !.read = db.lines]
           done == Frame(db.lines + 1, "done", db.marker)
           error == Frame(db.lines + 1, "error", "none")
<1>1. db.lines \in Nat /\ db.marker \in Outcome
    BY DEF DbInv, DbType
<1>2. Numbered \in Seq(FrameRecord) /\ AllFit(db.exit, Numbered)
    <2>1. \A n \in 1 .. db.lines : Frame(n, "line", n) \in FrameRecord /\ Fits(db.exit, Frame(n, "line", n))
        BY <1>1 DEF Frame, FrameRecord, Fits
    <2> QED
        BY <1>1, <2>1 DEF Numbered, AllFit
<1>3. done \in FrameRecord /\ error \in FrameRecord /\ Fits(db.exit, done) /\ Fits(db.exit, error)
    BY <1>1 DEF Frame, FrameRecord, Outcome, Fits, DbInv, DbTrue
<1>4. /\ base \in Session /\ base.history = Numbered /\ base.verdict = "none"
      /\ base.done = NoFrame
    BY <1>1, <1>2, NoSessionType DEF Session
<1> HIDE DEF done, error
<1>5. /\ Append(Numbered, done) \in Seq(FrameRecord) /\ AllFit(db.exit, Append(Numbered, done))
      /\ Append(Numbered, error) \in Seq(FrameRecord) /\ AllFit(db.exit, Append(Numbered, error))
    BY <1>2, <1>3 DEF AllFit
<1>6. Fits(db.exit, NoFrame)
    BY NoFrames DEF Fits
<1> HIDE DEF base
<1>7. CASE Rebuilt = [base EXCEPT !.at = "done", !.done = done, !.history = Append(@, done)]
    BY <1>3, <1>4, <1>5, <1>7 DEF Session
<1>8. CASE Rebuilt = [base EXCEPT !.at = "running", !.tails = TRUE, !.end = TRUE]
    BY <1>2, <1>4, <1>6, <1>8 DEF Session
<1>9. CASE Rebuilt = [base EXCEPT !.at = "done", !.history = Append(@, error)]
    BY <1>3, <1>4, <1>5, <1>6, <1>9 DEF Session
<1> QED
    BY <1>7, <1>8, <1>9 DEF Rebuilt, base, done, error
-----------------------------------------------------------------------------
(* Steps of the script and of the session.                                 *)

ExitStays == db.exit = "ok" => db'.exit = "ok"

\* The script speaks once.
LEMMA ScriptKeeps ==
    ASSUME DbInv, ScriptLine \/ ScriptEnds
    PROVE  DbInv' /\ ExitStays
<1>1. CASE ScriptLine
    BY <1>1 DEF ScriptLine, DbInv, DbType, DbTrue, ExitStays
<1>2. CASE ScriptEnds
    <2>1. db.runner = "running" /\ db.exit # "ok"
        BY <1>2 DEF ScriptEnds, DbInv, DbTrue
    <2>2. db'.session = db.session /\ db' \in DbType /\ db'.runner = "gone"
          /\ (db'.marker = db.marker \/ db'.marker = db'.exit)
        BY <1>2, ZenonT(40) DEF ScriptEnds, DbInv, DbType, Outcome
    <2>3. ExitStays
        BY <2>1 DEF ExitStays
    <2> QED
        BY <2>1, <2>2, <2>3, StillFit DEF DbInv, DbTrue, ExitStays
<1> QED
    BY <1>1, <1>2

\* A session that follows from the present one.
LEMMA SessionKeeps ==
    ASSUME DbInv, NEW s \in Session, db' = [db EXCEPT !.session = s],
           s.verdict = "ok" => db.exit = "ok", Fits(db.exit, s.done), AllFit(db.exit, s.history)
    PROVE  DbInv' /\ ExitStays
BY DEF DbInv, DbType, DbTrue, ExitStays

\* The server spawns the script, or notes that it cannot.
LEMMA TriggerKeeps ==
    ASSUME DbInv, ServeTrigger \/ NoteRunner
    PROVE  DbInv' /\ ExitStays
<1>1. CASE NoteRunner
    BY <1>1 DEF NoteRunner, DbInv, DbType, Session, DbTrue, ExitStays
<1>2. CASE ServeTrigger
    <2>0. db.exit # "ok" /\ db.marker # "ok"
        BY <1>2 DEF ServeTrigger, DbInv, DbTrue
    <2>1. /\ Fits("none", NoFrame) /\ AllFit("none", <<>>)
          /\ \A e : Fits(e, NoFrame) /\ AllFit(e, <<>>)
        BY NoFrames DEF Fits, AllFit
    <2>2. CASE db' = [db EXCEPT !.runner = "running",
                                !.session = [NoSession EXCEPT !.at = "spawned"]]
        <3> DEFINE s == [NoSession EXCEPT !.at = "spawned"]
        <3>1. s \in Session /\ s.done = NoFrame /\ s.verdict = "none" /\ s.history = <<>>
            BY NoSessionType DEF Session
        <3>2. db' = [db EXCEPT !.runner = "running", !.session = s]
            BY <2>2
        <3> HIDE DEF s
        <3> QED
            BY <2>0, <2>1, <3>1, <3>2 DEF DbInv, DbType, DbTrue, ExitStays
    <2>3. CASE db' = [db EXCEPT !.runner = "gone", !.exit = "failed",
                                !.session = [Ingest(NoSession, "error", "none")
                                             EXCEPT !.at = "ending", !.verdict = "failed"]]
        <3> DEFINE i == Ingest(NoSession, "error", "none")
                   s == [i EXCEPT !.at = "ending", !.verdict = "failed"]
        <3>1. i \in Session /\ i.done = NoFrame /\ \A e : AllFit(e, i.history)
            BY <2>1, NoSessionType, Ingesting DEF Outcome
        <3> HIDE DEF i
        <3>2. s \in Session /\ s.done = NoFrame /\ s.verdict = "failed" /\ s.history = i.history
            BY <3>1 DEF Session, Outcome
        <3>3. db' = [db EXCEPT !.runner = "gone", !.exit = "failed", !.session = s]
            BY <2>3 DEF i
        <3> HIDE DEF s
        <3> QED
            BY <2>0, <2>1, <3>1, <3>2, <3>3 DEF DbInv, DbType, DbTrue, ExitStays, Outcome
    <2> QED
        BY <1>2, <2>2, <2>3 DEF ServeTrigger
<1> QED
    BY <1>1, <1>2

\* A line is numbered, kept and broadcast.
LEMMA TailKeeps ==
    ASSUME Truth, TailLine
    PROVE  DbInv' /\ ExitStays /\ NetInv' /\ StreamTrue'
<1> DEFINE r == [S EXCEPT !.read = @ + 1, !.end = (S.read + 1 = db.lines)]
           s == Ingest(r, "line", S.read + 1)
           f == s.history[Len(s.history)]
<1>1. db' = [db EXCEPT !.session = s] /\ net' = Broadcast(net, f)
    BY DEF TailLine
<1>2. /\ r \in Session /\ r.verdict = S.verdict /\ r.done = S.done /\ r.history = S.history
      /\ S.read + 1 \in Nat
    BY ReadsOn DEF Truth, DbInv, DbType
<1> HIDE DEF r
<1>3. /\ s \in Session /\ s.verdict = S.verdict /\ s.done = S.done
      /\ AllFit(db.exit, s.history) /\ f \in FrameRecord /\ Fits(db.exit, f)
    BY <1>2, Ingesting DEF Truth, DbInv, DbTrue, Fits
<1> HIDE DEF s, f
<1>4. DbInv' /\ ExitStays
    BY <1>1, <1>3, SessionKeeps DEF Truth, DbInv, DbTrue
<1>5. db'.exit = db.exit
    BY <1>1 DEF Truth, DbInv, DbType
<1> QED
    BY <1>1, <1>3, <1>4, <1>5, Broadcasting DEF Truth, NetInv, StreamTrue

\* Giving up adds an error and never a success.
LEMMA GiveUpKeeps ==
    ASSUME Truth, GiveUp
    PROVE  DbInv' /\ ExitStays /\ NetInv' /\ StreamTrue'
<1> DEFINE i == Ingest(S, "error", "none")
           s == [i EXCEPT !.at = "ending", !.verdict = VerdictOf(S)]
           t == [s EXCEPT !.tails = FALSE]
           f == s.history[Len(s.history)]
<1>1. /\ net' = Broadcast(net, f)
      /\ \/ db' = [db EXCEPT !.session = t]
         \/ db' = [db EXCEPT !.session = s, !.runner = "gone",
                             !.exit = IF db.runner = "running" THEN "failed" ELSE @]
    BY DEF GiveUp
<1>2. /\ i \in Session /\ i.done = S.done /\ AllFit(db.exit, i.history)
      /\ i.history[Len(i.history)] \in FrameRecord /\ Fits(db.exit, i.history[Len(i.history)])
    BY Ingesting DEF Truth, DbInv, DbTrue, DbType, Outcome, Fits
<1> HIDE DEF i
<1>3. /\ s \in Session /\ s.verdict = "failed" /\ s.done = S.done
      /\ s.history = i.history
      /\ t \in Session /\ t.verdict = "failed" /\ t.done = S.done /\ t.history = i.history
    BY <1>2 DEF Session, VerdictOf, Outcome
<1> HIDE DEF t, s
<1>4. f \in FrameRecord /\ Fits(db.exit, f)
    BY <1>2, <1>3
<1> HIDE DEF f
<1>5. /\ db' \in DbType /\ db'.session \in {s, t} /\ db'.marker = db.marker
      /\ \/ db'.exit = db.exit /\ (db'.runner = db.runner \/ db'.runner = "gone")
         \/ db.runner = "running" /\ db'.exit = "failed"
    BY <1>1, <1>3 DEF Truth, DbInv, DbType, Outcome
<1>6. ExitStays
    BY <1>5 DEF ExitStays, Truth, DbInv, DbTrue
<1>7. DbInv'
    BY <1>2, <1>3, <1>5, <1>6, StillFit DEF Truth, DbInv, DbTrue, ExitStays
<1> QED
    BY <1>1, <1>4, <1>6, <1>7, Broadcasting, StillFit DEF Truth, NetInv, StreamTrue, ExitStays

\* The marker becomes the verdict, the verdict the result and the marker again.
LEMMA FinishKeeps ==
    ASSUME Truth, FindMarker \/ Finish \/ FinishFiles
    PROVE  DbInv' /\ ExitStays /\ NetInv' /\ StreamTrue'
<1>1. CASE FindMarker
    <2> DEFINE s == [S EXCEPT !.at = "ending", !.verdict = db.marker, !.tails = FALSE]
    <2>1. /\ s \in Session /\ s.verdict = db.marker /\ s.done = S.done /\ s.history = S.history
          /\ db' = [db EXCEPT !.session = s] /\ net' = net
        BY <1>1 DEF FindMarker, Truth, DbInv, DbType, Session
    <2> HIDE DEF s
    <2>2. DbInv' /\ ExitStays /\ db'.exit = db.exit
        BY <2>1, SessionKeeps DEF Truth, DbInv, DbType, DbTrue
    <2> QED
        BY <2>1, <2>2 DEF Truth, NetInv, StreamTrue
<1>2. CASE Finish
    <2> DEFINE f == Frame(S.seq + 1, "done", S.verdict)
               n == S.seq + 1
               s == [S EXCEPT !.at = "done", !.seq = n, !.done = f]
    <2>1. f \in FrameRecord /\ Fits(db.exit, f) /\ n \in Nat
        BY DEF Frame, FrameRecord, Fits, Truth, DbInv, DbType, DbTrue, Session
    <2>2. db' = [db EXCEPT !.session = s] /\ net' = net
        BY <1>2 DEF Finish, Truth, DbInv, DbType, Session
    <2> HIDE DEF f, n
    <2>3. s \in Session /\ s.verdict = S.verdict /\ s.done = f /\ s.history = S.history
        BY <2>1 DEF Truth, DbInv, DbType, Session
    <2> HIDE DEF s
    <2>4. DbInv' /\ ExitStays /\ db'.exit = db.exit
        BY <2>1, <2>2, <2>3, SessionKeeps DEF Truth, DbInv, DbType, DbTrue
    <2> QED
        BY <2>2, <2>4 DEF Truth, NetInv, StreamTrue
<1>3. CASE FinishFiles
    <2> DEFINE s == [S EXCEPT !.closed = TRUE]
    <2>1. /\ s \in Session /\ s.verdict = S.verdict /\ s.done = S.done /\ s.history = S.history
          /\ db' = [db EXCEPT !.marker = S.verdict, !.noted = FALSE, !.session = s]
        BY <1>3 DEF FinishFiles, Truth, DbInv, DbType, Session
    <2> HIDE DEF s
    <2>2. DbInv' /\ ExitStays /\ db'.exit = db.exit
        BY <2>1 DEF Truth, DbInv, DbType, DbTrue, ExitStays, Session
    <2>3. S.done \in FrameRecord /\ Fits(db.exit, S.done)
        BY DEF Truth, DbInv, DbType, DbTrue, Session
    <2>4. /\ net'.stream = Broadcast(net, S.done).stream
          /\ DOMAIN net' = DOMAIN Broadcast(net, S.done)
        BY <1>3, <2>3, Broadcasting DEF FinishFiles, Truth
    <2> QED
        BY <2>2, <2>3, <2>4, Broadcasting DEF Truth, NetInv, StreamTrue
<1> QED
    BY <1>1, <1>2, <1>3

\* A crash forgets the session, and the recovery reads it from the files.
LEMMA CrashKeeps ==
    ASSUME Truth, Crash \/ Restart
    PROVE  DbInv' /\ ExitStays /\ NetInv' /\ StreamTrue'
<1>0. Fits(db.exit, NoFrame) /\ AllFit(db.exit, <<>>)
    BY NoFrames DEF Fits, AllFit
<1>1. ASSUME NEW s \in Session, s.verdict = "none", Fits(db.exit, s.done), AllFit(db.exit, s.history),
             NEW up \in BOOLEAN, NEW crashes \in Nat,
             db' = [db EXCEPT !.up = up, !.crashes = crashes, !.session = s]
      PROVE  DbInv' /\ ExitStays /\ db'.exit = db.exit
    BY <1>1 DEF Truth, DbInv, DbType, DbTrue, ExitStays
<1>2. CASE Crash
    <2>1. db' = [db EXCEPT !.up = FALSE, !.crashes = db.crashes + 1, !.session = NoSession]
        BY <1>2 DEF Crash
    <2>2. db.crashes + 1 \in Nat
        BY DEF Truth, DbInv, DbType
    <2>3. DbInv' /\ ExitStays /\ db'.exit = db.exit
        BY <1>0, <1>1, <2>1, <2>2, NoSessionType
    <2>4. net'.stream = NoStream /\ DOMAIN net' = DOMAIN net
        BY <1>2 DEF Crash, Truth, NetInv
    <2> QED
        BY <1>0, <2>3, <2>4, NoStreamType DEF Truth, NetInv, StreamTrue
<1>3. CASE Restart
    <2>1. PICK s \in {Rebuilt, NoSession} :
             db' = [db EXCEPT !.up = TRUE, !.session = s] /\ net' = net
        BY <1>3 DEF Restart
    <2>2. s \in Session /\ s.verdict = "none" /\ Fits(db.exit, s.done) /\ AllFit(db.exit, s.history)
        BY <1>0, NoSessionType, RebuiltIsTrue DEF Truth
    <2>3. DbInv' /\ ExitStays /\ db'.exit = db.exit
        BY <2>1, <2>2 DEF Truth, DbInv, DbType, DbTrue, ExitStays
    <2> QED
        BY <2>1, <2>3 DEF Truth, NetInv, StreamTrue
<1> QED
    BY <1>2, <1>3
-----------------------------------------------------------------------------
(* Steps of the subscription and of the page.                              *)

\* A stream of true frames.
FitStream(s) == s \in Stream /\ AllFit(db.exit, s.rest) /\ AllFit(db.exit, s.sent)

\* What is sent comes from the history or is the result.
LEMMA SubscriptionKeeps ==
    ASSUME Truth, Subscription
    PROVE  NetInv' /\ StreamTrue' /\ db' = db
<1> USE DEF Truth, NetInv
<1>0. /\ St \in Stream /\ St.sent \in Seq(FrameRecord) /\ St.rest \in Seq(FrameRecord)
      /\ S.history \in Seq(FrameRecord) /\ AllFit(db.exit, S.history)
      /\ S.done \in FrameRecord /\ Fits(db.exit, S.done) /\ S.done.seq \in Nat
    BY DEF Stream, DbInv, DbType, DbTrue, Session, FrameRecord
<1>1. ASSUME NEW s \in Stream, net' = [net EXCEPT !.stream = s], UNCHANGED db,
             AllFit(db.exit, s.rest), AllFit(db.exit, s.sent)
      PROVE  NetInv' /\ StreamTrue'
    BY <1>1 DEF StreamTrue
<1>2. ASSUME NEW frame \in FrameRecord, Fits(db.exit, frame)
      PROVE  Append(St.sent, frame) \in Seq(FrameRecord) /\ AllFit(db.exit, Append(St.sent, frame))
    BY <1>0, <1>2 DEF StreamTrue, AllFit
<1>3. CASE Snapshot
    <2> DEFINE s == [St EXCEPT !.at = "replay", !.rest = S.history]
    <2>1. s \in Stream /\ s.rest = S.history /\ s.sent = St.sent
        BY <1>0 DEF Stream
    <2>2. net' = [net EXCEPT !.stream = s] /\ UNCHANGED db
        BY <1>3 DEF Snapshot
    <2> HIDE DEF s
    <2> QED
        BY <1>0, <1>1, <2>1, <2>2 DEF StreamTrue
<1>4. CASE Replay
    <2> DEFINE f == Head(St.rest)
               q == Append(St.sent, f)
               s == [St EXCEPT !.sent = q, !.last = f.seq, !.rest = Tail(St.rest)]
    <2>1. f \in FrameRecord /\ Fits(db.exit, f) /\ f.seq \in Nat
        <3>1. f = St.rest[1] /\ 1 \in 1 .. Len(St.rest) /\ f \in FrameRecord
            BY <1>0, <1>4 DEF Replay
        <3> QED
            BY <3>1 DEF StreamTrue, AllFit, FrameRecord
    <2>2. Tail(St.rest) \in Seq(FrameRecord) /\ AllFit(db.exit, Tail(St.rest))
        BY <1>0, <1>4 DEF Replay, StreamTrue, AllFit
    <2>3. net' = [net EXCEPT !.stream = s] /\ UNCHANGED db
        BY <1>4 DEF Replay
    <2> HIDE DEF f
    <2>4. q \in Seq(FrameRecord) /\ AllFit(db.exit, q)
        BY <1>2, <2>1
    <2> HIDE DEF q
    <2>5. s \in Stream /\ s.rest = Tail(St.rest) /\ s.sent = q
        BY <1>0, <2>1, <2>2, <2>4 DEF Stream
    <2> HIDE DEF s
    <2> QED
        BY <1>1, <2>2, <2>3, <2>4, <2>5
<1>5. CASE AfterReplay \/ AfterDone
    <2> DEFINE q == Append(St.sent, S.done)
               s == [St EXCEPT !.sent = q, !.last = S.done.seq]
    <2>1. q \in Seq(FrameRecord) /\ AllFit(db.exit, q)
        BY <1>0, <1>2
    <2>2. UNCHANGED db /\ \/ net' = [net EXCEPT !.stream = s]
                          \/ \E at \in {"live", "closed"} : net' = [net EXCEPT !.stream = [St EXCEPT !.at = at]]
        BY <1>5 DEF AfterReplay, AfterDone, Send
    <2> HIDE DEF q
    <2>3. s \in Stream /\ s.rest = St.rest /\ s.sent = q
        BY <1>0, <2>1 DEF Stream
    <2> HIDE DEF s
    <2>4. CASE net' = [net EXCEPT !.stream = s]
        BY <1>1, <2>1, <2>2, <2>3, <2>4 DEF StreamTrue
    <2>5. ASSUME NEW at \in {"live", "closed"}, net' = [net EXCEPT !.stream = [St EXCEPT !.at = at]]
          PROVE  NetInv' /\ StreamTrue'
        <3>1. /\ [St EXCEPT !.at = at] \in Stream /\ [St EXCEPT !.at = at].rest = St.rest
              /\ [St EXCEPT !.at = at].sent = St.sent
            BY <1>0 DEF Stream
        <3> QED
            BY <1>1, <2>2, <2>5, <3>1 DEF StreamTrue
    <2> QED
        BY <2>2, <2>4, <2>5
<1> QED
    BY <1>3, <1>4, <1>5 DEF Subscription, Snapshot, Replay, AfterReplay, AfterDone

\* The page shows the result it receives; nothing else makes it show a success.
SuccessStep ==
    ui'.result = "success" =>
        \/ ui.result = "success"
        \/ St.sent # <<>> /\ Head(St.sent).type = "done" /\ Head(St.sent).of = "ok"

UiInv == "result" \in DOMAIN ui

\* What the page does with its streams and timers.
LEMMA PageSteps ==
    ASSUME Truth, UiInv, StartUpdate \/ Reopen \/ Page
    PROVE  /\ DbInv' /\ db'.exit = db.exit
           /\ NetInv' /\ StreamTrue'
           /\ UiInv' /\ SuccessStep
<1> USE DEF UiInv, SuccessStep
<1>0. FitStream(NoStream) /\ FitStream([NoStream EXCEPT !.at = "new"]) /\ FitStream(St)
    <2>1. /\ [NoStream EXCEPT !.at = "new"] \in Stream
          /\ [NoStream EXCEPT !.at = "new"].rest = <<>>
          /\ [NoStream EXCEPT !.at = "new"].sent = <<>>
        BY NoStreamType DEF Stream
    <2>2. AllFit(db.exit, <<>>)
        BY DEF AllFit
    <2> QED
        BY <2>1, <2>2, NoStreamType DEF FitStream, Truth, NetInv, StreamTrue
<1>1. ASSUME DOMAIN net' = DOMAIN net, FitStream(net'.stream), db'.exit = db.exit
      PROVE  NetInv' /\ StreamTrue'
    BY <1>1 DEF FitStream, NetInv, StreamTrue, Truth
<1>9. ASSUME db' = db
      PROVE  DbInv' /\ db'.exit = db.exit
    BY <1>9 DEF Truth, DbInv, DbTrue
<1>2. CASE StartUpdate
    <2>1. db' = db /\ DOMAIN net' = DOMAIN net /\ net'.stream = net.stream
        BY <1>2 DEF StartUpdate, Truth, NetInv
    <2>2. UiInv' /\ SuccessStep
        BY <1>2 DEF StartUpdate
    <2> QED
        BY <1>0, <1>1, <1>9, <2>1, <2>2
<1>3. CASE Reopen
    <2>1. db' = db /\ DOMAIN net' = DOMAIN net /\ net'.stream = NoStream
        BY <1>3 DEF Reopen, Troubled, Truth, NetInv
    <2>2. UiInv' /\ SuccessStep
        BY <1>3 DEF Reopen, Follow, NewPage
    <2> QED
        BY <1>0, <1>1, <1>9, <2>1, <2>2
<1>4. CASE AnswerTrigger
    <2>1. db' = db /\ DOMAIN net' = DOMAIN net /\ net'.stream = net.stream
        BY <1>4 DEF AnswerTrigger, Truth, NetInv
    <2>2. UiInv' /\ SuccessStep
        BY <1>4 DEF AnswerTrigger, Follow
    <2> QED
        BY <1>0, <1>1, <1>9, <2>1, <2>2
<1>5. CASE Connect
    <2>1. db' \in {db, [db EXCEPT !.session = Rebuilt]}
        BY <1>5 DEF Connect
    <2>2. DbInv' /\ db'.exit = db.exit
        <3>1. CASE db' = db
            BY <1>9, <3>1
        <3>2. CASE db' = [db EXCEPT !.session = Rebuilt]
            BY <3>2, RebuiltIsTrue, SessionKeeps DEF Truth, DbInv, DbType
        <3> QED
            BY <2>1, <3>1, <3>2
    <2>3. DOMAIN net' = DOMAIN net /\ net'.stream \in {St, [NoStream EXCEPT !.at = "new"]}
        BY <1>5 DEF Connect, Troubled, Truth, NetInv
    <2>4. UiInv' /\ SuccessStep
        BY <1>5 DEF Connect, Retry, Stop
    <2> QED
        BY <1>0, <1>1, <2>2, <2>3, <2>4
<1>6. CASE Disconnect
    <2>1. db' = db /\ DOMAIN net' = DOMAIN net /\ net'.stream \in {St, NoStream}
        BY <1>6 DEF Disconnect, Troubled, Truth, NetInv
    <2>2. UiInv' /\ SuccessStep
        BY <1>6 DEF Disconnect, Retry
    <2> QED
        BY <1>0, <1>1, <1>9, <2>1, <2>2
<1>7. CASE Reconnect
    <2>1. db' = db /\ net' = net
        BY <1>7 DEF Reconnect
    <2>2. UiInv' /\ SuccessStep
        BY <1>7 DEF Reconnect, Stop
    <2> QED
        BY <1>0, <1>1, <1>9, <2>1, <2>2
<1>8. CASE Receive
    <2> DEFINE f == Head(St.sent)
    <2>1. St.sent # <<>> /\ St.sent \in Seq(FrameRecord)
        BY <1>8 DEF Receive, Truth, NetInv, Stream
    <2> DEFINE q == Tail(St.sent)
               s == [St EXCEPT !.sent = q]
    <2>2. FitStream(s)
        <3>1. q \in Seq(FrameRecord) /\ AllFit(db.exit, q)
            BY <2>1 DEF Truth, StreamTrue, AllFit
        <3> HIDE DEF q
        <3> QED
            BY <3>1, <1>0 DEF FitStream, Stream
    <2>3. db' = db /\ DOMAIN net' = DOMAIN net /\ net'.stream \in {NoStream, s}
        <3>1. /\ UNCHANGED db
              /\ \/ net' = [net EXCEPT !.stream = NoStream]
                 \/ net' = [net EXCEPT !.stream = s]
            BY <1>8, Zenon DEF Receive
        <3> HIDE DEF s
        <3> QED
            BY <3>1 DEF Truth, NetInv
    <2> HIDE DEF s
    <2>4. PICK u, last : /\ u = [ui EXCEPT !.attempts = 0] \/ u = ui
                         /\ ui' = u \/ ui' = Shown([u EXCEPT !.last = last], f)
        BY <1>8 DEF Receive
    <2>5. UiInv' /\ SuccessStep
        BY <2>1, <2>4 DEF Shown, Stop
    <2> QED
        BY <1>0, <1>1, <1>9, <2>2, <2>3, <2>5
<1> QED
    BY <1>2, <1>3, <1>4, <1>5, <1>6, <1>7, <1>8 DEF Page
-----------------------------------------------------------------------------
(* The theorem.                                                            *)

UpdateInv == Truth /\ UiInv /\ SuccessIsTrue

LEMMA UpdateInit == Init => UpdateInv
<1> SUFFICES ASSUME Init PROVE UpdateInv
    OBVIOUS
<1>1. /\ db.lines = 0 /\ db.marker = "none" /\ db.exit = "none" /\ db.runner = "none"
      /\ db.session = NoSession /\ db \in DbType
    BY NoSessionType DEF Init, DbType, Outcome
<1>2. \A e : Fits(e, NoFrame) /\ AllFit(e, <<>>)
    BY NoFrames DEF Fits, AllFit
<1>3. DbInv
    BY <1>1, <1>2, NoSessionType DEF DbInv, DbTrue
<1>4. net.stream = NoStream /\ {"stream", "trigger", "trouble"} \subseteq DOMAIN net
    BY DEF Init
<1>5. NetInv /\ StreamTrue
    BY <1>2, <1>4, NoStreamType DEF NetInv, StreamTrue
<1>6. UiInv /\ SuccessIsTrue
    BY DEF Init, NewPage, UiInv, SuccessIsTrue
<1> QED
    BY <1>3, <1>5, <1>6 DEF UpdateInv, Truth

\* A frame in the stream is true, hence so is the success it shows.
LEMMA UpdateStep ==
    ASSUME UpdateInv, [Next]_vars
    PROVE  UpdateInv'
<1> USE DEF UpdateInv
<1>1. ASSUME UNCHANGED ui, ExitStays
      PROVE  UiInv' /\ SuccessIsTrue'
    BY <1>1 DEF UiInv, SuccessIsTrue, ExitStays
<1>2. CASE ScriptLine \/ ScriptEnds \/ ServeTrigger \/ NoteRunner
    <2>1. DbInv' /\ ExitStays
        BY <1>2, ScriptKeeps, TriggerKeeps DEF Truth
    <2>2. UNCHANGED ui /\ net'.stream = net.stream /\ DOMAIN net' = DOMAIN net
        BY <1>2 DEF ScriptLine, ScriptEnds, ServeTrigger, NoteRunner, Truth, NetInv
    <2>3. NetInv' /\ StreamTrue'
        BY <2>1, <2>2, StillFit DEF Truth, NetInv, StreamTrue, ExitStays
    <2> QED
        BY <1>1, <2>1, <2>2, <2>3 DEF Truth
<1>3. CASE TailLine \/ GiveUp \/ FindMarker \/ Finish \/ FinishFiles \/ Crash \/ Restart
    <2>1. DbInv' /\ ExitStays /\ NetInv' /\ StreamTrue'
        BY <1>3, TailKeeps, GiveUpKeeps, FinishKeeps, CrashKeeps
    <2>2. UNCHANGED ui
        BY <1>3, Zenon DEF TailLine, GiveUp, FindMarker, Finish, FinishFiles, Crash, Restart
    <2> QED
        BY <1>1, <2>1, <2>2 DEF Truth
<1>4. CASE Subscription
    <2>1. NetInv' /\ StreamTrue' /\ db' = db
        BY <1>4, SubscriptionKeeps
    <2>2. UNCHANGED ui
        BY <1>4, Zenon DEF Subscription, Snapshot, Replay, AfterReplay, AfterDone
    <2>3. DbInv' /\ ExitStays
        BY <2>1 DEF Truth, DbInv, DbTrue, ExitStays
    <2> QED
        BY <1>1, <2>1, <2>2, <2>3 DEF Truth
<1>5. CASE StartUpdate \/ Reopen \/ Page
    <2>1. /\ DbInv' /\ db'.exit = db.exit /\ NetInv' /\ StreamTrue'
          /\ UiInv' /\ SuccessStep
        BY <1>5, PageSteps
    <2>2. ASSUME St.sent # <<>>, Head(St.sent).type = "done", Head(St.sent).of = "ok"
          PROVE  db.exit = "ok"
        <3>1. Head(St.sent) = St.sent[1] /\ 1 \in 1 .. Len(St.sent)
            BY <2>2 DEF Truth, NetInv, Stream
        <3> QED
            BY <2>2, <3>1 DEF Truth, StreamTrue, AllFit, Fits
    <2>3. SuccessIsTrue'
        BY <2>1, <2>2 DEF SuccessStep, SuccessIsTrue
    <2> QED
        BY <2>1, <2>3 DEF Truth
<1>6. CASE UNCHANGED vars
    <2>1. UNCHANGED <<ui, net, db>>
        BY <1>6 DEF vars
    <2> QED
        BY <2>1 DEF Truth, DbInv, DbTrue, NetInv, StreamTrue, UiInv, SuccessIsTrue
<1> QED
    BY <1>2, <1>3, <1>4, <1>5, <1>6 DEF Next, Server

\* The page shows a success only of a script that has ended with 0, whatever crashes,
\* replays, broadcasts and reconnections come between the exit of the script and the page:
\* the marker (its exit trap), finish and recoverFromDisk of system/service.go, onEvent of
\* the settings page.
THEOREM SuccessesAreTrue == Spec => []SuccessIsTrue
<1>1. UpdateInv => SuccessIsTrue
    BY DEF UpdateInv
<1> QED
    BY <1>1, UpdateInit, UpdateStep, PTL DEF Spec
-----------------------------------------------------------------------------
(* The order of the lines.                                                 *)

\* In one session a line has one number, its own or the next one: at most one error comes
\* before it.
IsLine(f) == f.type = "line"
Numbering(h, read) ==
    /\ \A i \in 1 .. Len(h) :
          IsLine(h[i]) => h[i].of \in 1 .. read /\ h[i].seq \in {h[i].of, h[i].of + 1}
    /\ \A i, j \in 1 .. Len(h) :
          IsLine(h[i]) /\ IsLine(h[j]) /\ h[i].of = h[j].of => h[i].seq = h[j].seq

\* The lines of a stream are those of the session.
Known(h, frames) ==
    \A k \in 1 .. Len(frames) :
        IsLine(frames[k]) => \E i \in 1 .. Len(h) : h[i] = frames[k]

\* The session has read the last line shown; if the page took that line with its own
\* number, the session gives it no other.
Steady(h, read, top, last) ==
    /\ top <= read
    /\ last = top => \A i \in 1 .. Len(h) : IsLine(h[i]) /\ h[i].of = top => h[i].seq = top

LEMMA KnownGrows ==
    ASSUME NEW h \in Seq(FrameRecord), NEW f \in FrameRecord
    PROVE  /\ \A frames : Known(h, frames) => Known(Append(h, f), frames)
           /\ \A frames \in Seq(FrameRecord) :
                 Known(h, frames) => Known(Append(h, f), Append(frames, f))
<1>1. /\ Len(Append(h, f)) = Len(h) + 1 /\ Append(h, f)[Len(h) + 1] = f
      /\ \A i \in 1 .. Len(h) : Append(h, f)[i] = h[i]
      /\ Len(h) \in Nat
    OBVIOUS
<1>2. ASSUME NEW frames, Known(h, frames)
      PROVE  Known(Append(h, f), frames)
    BY <1>1, <1>2 DEF Known
<1>3. ASSUME NEW frames \in Seq(FrameRecord), Known(h, frames)
      PROVE  Known(Append(h, f), Append(frames, f))
    <2> SUFFICES ASSUME NEW k \in 1 .. Len(Append(frames, f)), IsLine(Append(frames, f)[k])
                 PROVE  \E i \in 1 .. Len(Append(h, f)) : Append(h, f)[i] = Append(frames, f)[k]
        BY DEF Known
    <2>1. CASE k = Len(frames) + 1
        BY <1>1, <2>1
    <2>2. CASE k # Len(frames) + 1
        <3>1. k \in 1 .. Len(frames) /\ Append(frames, f)[k] = frames[k]
            BY <2>2
        <3> QED
            BY <1>1, <1>3, <3>1 DEF Known
    <2> QED
        BY <2>1, <2>2
<1> QED
    BY <1>2, <1>3

\* A line that is read gets the next number.
LEMMA LineNumbered ==
    ASSUME NEW h \in Seq(FrameRecord), NEW read \in Nat, NEW seq \in {read, read + 1},
           Numbering(h, read),
           NEW f \in FrameRecord, f.type = "line", f.of = read + 1, f.seq = seq + 1
    PROVE  /\ Numbering(Append(h, f), read + 1)
           /\ \A top, last \in Nat :
                 Steady(h, read, top, last) => Steady(Append(h, f), read + 1, top, last)
<1>1. /\ Len(Append(h, f)) = Len(h) + 1 /\ Append(h, f)[Len(h) + 1] = f
      /\ \A i \in 1 .. Len(h) : Append(h, f)[i] = h[i]
      /\ Len(h) \in Nat
    OBVIOUS
<1>2. \A i \in 1 .. Len(Append(h, f)) : i \in 1 .. Len(h) \/ i = Len(h) + 1
    BY <1>1
<1> QED
    BY <1>1, <1>2 DEF Numbering, Steady, IsLine

\* Errors and results number no line.
LEMMA OtherNumbered ==
    ASSUME NEW h \in Seq(FrameRecord), NEW read \in Nat, Numbering(h, read),
           NEW f \in FrameRecord, ~IsLine(f)
    PROVE  /\ Numbering(Append(h, f), read)
           /\ \A top, last \in Nat :
                 Steady(h, read, top, last) => Steady(Append(h, f), read, top, last)
<1>1. /\ Len(Append(h, f)) = Len(h) + 1 /\ Append(h, f)[Len(h) + 1] = f
      /\ \A i \in 1 .. Len(h) : Append(h, f)[i] = h[i]
      /\ Len(h) \in Nat
    OBVIOUS
<1>2. \A i \in 1 .. Len(Append(h, f)) : i \in 1 .. Len(h) \/ i = Len(h) + 1
    BY <1>1
<1> QED
    BY <1>1, <1>2 DEF Numbering, Steady

\* A session that was rebuilt has read every line, with its own number.
LEMMA RebuiltIsNumbered ==
    ASSUME DbInv
    PROVE  /\ Numbering(Rebuilt.history, Rebuilt.read) /\ Rebuilt.read = db.lines
           /\ Rebuilt.seq = Rebuilt.read /\ Rebuilt.at \in {"running", "done"}
           /\ ~IsLine(Rebuilt.done)
           /\ \A top, last \in Nat :
                 top <= db.lines => Steady(Rebuilt.history, Rebuilt.read, top, last)
<1> DEFINE base == [NoSession EXCEPT !.history = Numbered, !.seq = db.lines, !.read = db.lines]
           done == Frame(db.lines + 1, "done", db.marker)
           error == Frame(db.lines + 1, "error", "none")
<1>1. db.lines \in Nat /\ db.marker \in Outcome
    BY DEF DbInv, DbType
<1>2. /\ Numbered \in Seq(FrameRecord) /\ Len(Numbered) = db.lines
      /\ \A n \in 1 .. db.lines : Numbered[n] = Frame(n, "line", n)
    <2>1. \A n \in 1 .. db.lines : Frame(n, "line", n) \in FrameRecord
        BY <1>1 DEF Frame, FrameRecord
    <2> QED
        BY <1>1, <2>1 DEF Numbered
<1>3. \A n \in 1 .. db.lines : /\ IsLine(Numbered[n])
                               /\ Numbered[n].of = n /\ Numbered[n].seq = n
    <2>1. \A n : LET f == Frame(n, "line", n) IN f.type = "line" /\ f.of = n /\ f.seq = n
        BY DEF Frame
    <2> QED
        BY <1>2, <2>1 DEF IsLine
<1>4. /\ Numbering(Numbered, db.lines)
      /\ \A top, last \in Nat : top <= db.lines => Steady(Numbered, db.lines, top, last)
    BY <1>1, <1>2, <1>3 DEF Numbering, Steady
<1>5. /\ done \in FrameRecord /\ error \in FrameRecord /\ ~IsLine(done) /\ ~IsLine(error)
      /\ ~IsLine(NoFrame)
    BY <1>1, NoFrames DEF Frame, FrameRecord, Outcome, IsLine
<1>6. /\ base \in Session /\ base.history = Numbered /\ base.read = db.lines
      /\ base.seq = db.lines /\ base.done = NoFrame
    BY <1>1, <1>2, NoSessionType DEF Session
<1> HIDE DEF done, error, base
<1>7. CASE Rebuilt = [base EXCEPT !.at = "done", !.done = done, !.history = Append(@, done)]
    <2>1. /\ Rebuilt.history = Append(Numbered, done) /\ Rebuilt.read = db.lines
          /\ Rebuilt.seq = db.lines /\ Rebuilt.at = "done" /\ Rebuilt.done = done
        BY <1>6, <1>7 DEF Session
    <2> QED
        BY <1>1, <1>2, <1>4, <1>5, <2>1, OtherNumbered
<1>8. CASE Rebuilt = [base EXCEPT !.at = "running", !.tails = TRUE, !.end = TRUE]
    BY <1>4, <1>5, <1>6, <1>8 DEF Session
<1>9. CASE Rebuilt = [base EXCEPT !.at = "done", !.history = Append(@, error)]
    <2>1. /\ Rebuilt.history = Append(Numbered, error) /\ Rebuilt.read = db.lines
          /\ Rebuilt.seq = db.lines /\ Rebuilt.at = "done" /\ Rebuilt.done = NoFrame
        BY <1>6, <1>9 DEF Session
    <2> QED
        BY <1>1, <1>2, <1>4, <1>5, <2>1, OtherNumbered
<1> QED
    BY <1>7, <1>8, <1>9 DEF Rebuilt, base, done, error

Top == IF ui.log = <<>> THEN 0 ELSE ui.log[Len(ui.log)]

\* The lines shown, ...
PageInv ==
    /\ {"log", "last"} \subseteq DOMAIN ui
    /\ ui.log \in Seq(Nat) /\ ui.last \in Nat
    /\ Top <= ui.last
    /\ LinesInOrder

\* ... the numbers of the session, ...
CountInv ==
    /\ db.runner = "none" => db.lines = 0
    /\ ~db.up => S.at = "none"
    /\ S.read <= db.lines
    /\ S.at \in {"spawned", "running"} => S.seq = S.read
    /\ S.at = "ending" => S.seq \in {S.read, S.read + 1}
    /\ Numbering(S.history, S.read)
    /\ ~IsLine(S.done)

\* ... how the lines shown relate to it, ...
ShownInv ==
    /\ Top <= db.lines
    /\ S.at # "none" => Steady(S.history, S.read, Top, ui.last)

\* ... and the stream.
SentInv ==
    /\ S.at = "none" => St = NoStream
    /\ Known(S.history, St.rest) /\ Known(S.history, St.sent)

OrderInv == PageInv /\ CountInv /\ ShownInv /\ SentInv

LEMMA TopIsNumber == PageInv => Top \in Nat
BY DEF PageInv, Top

\* The page keeps its lines, or starts with none.
LEMMA PageStays ==
    ASSUME PageInv, {"log", "last"} \subseteq DOMAIN ui', ui'.log = ui.log, ui'.last = ui.last
    PROVE  PageInv' /\ Top' = Top /\ Top \in Nat
<1>1. Top' = Top
    BY DEF Top
<1>2. LinesInOrder'
    BY DEF PageInv, LinesInOrder
<1> QED
    BY <1>1, <1>2, TopIsNumber DEF PageInv

LEMMA PageStarts ==
    ASSUME {"log", "last"} \subseteq DOMAIN ui', ui'.log = <<>>, ui'.last = 0
    PROVE  PageInv' /\ Top' = 0
<1>1. Top' = 0
    BY DEF Top
<1>2. LinesInOrder'
    BY DEF LinesInOrder
<1> QED
    BY <1>1, <1>2 DEF PageInv

\* A broadcast frame of the session is known.
LEMMA BroadcastKnown ==
    ASSUME NetInv, NEW h \in Seq(FrameRecord), NEW f \in FrameRecord,
           Known(h, St.rest), Known(h, St.sent)
    PROVE  /\ Known(Append(h, f), Broadcast(net, f).stream.rest)
           /\ Known(Append(h, f), Broadcast(net, f).stream.sent)
<1>1. CASE Broadcast(net, f) = net
    BY <1>1, KnownGrows
<1>2. CASE Broadcast(net, f) = [net EXCEPT !.stream.sent = Append(@, f)]
    <2>1. St.sent \in Seq(FrameRecord)
        BY DEF NetInv, Stream
    <2>2. /\ Broadcast(net, f).stream.rest = St.rest
          /\ Broadcast(net, f).stream.sent = Append(St.sent, f)
        BY <1>2 DEF NetInv, Stream
    <2> QED
        BY <2>1, <2>2, KnownGrows
<1> QED
    BY <1>1, <1>2 DEF Broadcast

\* The script writes a line, ends, is spawned or noted.
LEMMA ScriptOrder ==
    ASSUME Truth, OrderInv, ScriptLine \/ ScriptEnds \/ NoteRunner \/ ServeTrigger
    PROVE  OrderInv'
<1> USE DEF Truth, DbInv, DbType, NetInv
<1>0. UNCHANGED ui /\ net'.stream = net.stream
    BY DEF ScriptLine, ScriptEnds, NoteRunner, ServeTrigger
<1>1. PageInv' /\ Top' = Top /\ Top \in Nat
    BY <1>0, PageStays DEF OrderInv, PageInv
<1>2. CASE ScriptLine \/ ScriptEnds
    <2>0. db \in DbType /\ db.lines \in Nat /\ db.runner = "running"
        BY <1>2 DEF ScriptLine, ScriptEnds
    <2>1. /\ db'.session = db.session /\ db'.up = db.up /\ db'.runner # "none"
          /\ db'.lines \in {db.lines, db.lines + 1}
        <3>1. CASE ScriptLine
            BY <2>0, <3>1 DEF ScriptLine
        <3>2. CASE ScriptEnds
            BY <2>0, <3>2 DEF ScriptEnds
        <3> QED
            BY <1>2, <3>1, <3>2
    <2>2. S.read \in Nat
        BY DEF Session
    <2> QED
        BY <1>0, <1>1, <2>0, <2>1, <2>2 DEF OrderInv, CountInv, ShownInv, SentInv
<1>3. CASE NoteRunner
    <2>1. /\ db'.lines = db.lines /\ db'.runner = db.runner /\ db'.up = db.up
          /\ S.at = "spawned" /\ db'.session.at = "running" /\ db'.session.seq = S.seq
          /\ db'.session.read = S.read /\ db'.session.history = S.history
          /\ db'.session.done = S.done
        BY <1>3 DEF NoteRunner, Session
    <2> QED
        BY <1>0, <1>1, <2>1 DEF OrderInv, CountInv, ShownInv, SentInv
<1>4. CASE ServeTrigger
    <2>1. Top = 0 /\ db.lines = 0 /\ St = NoStream
        BY <1>1, <1>4 DEF ServeTrigger, OrderInv, ShownInv, CountInv, SentInv
    <2> DEFINE i == Ingest(NoSession, "error", "none")
               e == Frame(1, "error", "none")
    <2>2. /\ i.history = Append(<<>>, e) /\ i.seq = 1 /\ i.read = 0 /\ i.done = NoFrame
          /\ NoSession.history = <<>> /\ NoSession.seq = 0 /\ NoSession.read = 0
          /\ NoSession.done = NoFrame /\ i \in Session /\ NoSession \in Session
        <3>1. /\ NoSession.history = <<>> /\ NoSession.seq = 0 /\ NoSession.read = 0
              /\ NoSession.done = NoFrame /\ NoSession \in Session
            BY NoSessionType DEF NoSession
        <3>2. i \in Session /\ i.done = NoFrame
            BY <3>1, Ingesting DEF Outcome
        <3>3. NoSession.seq + 1 = 1 /\ Frame(NoSession.seq + 1, "error", "none") = e
            BY <3>1
        <3>4. i = [NoSession EXCEPT !.seq = NoSession.seq + 1,
                                    !.history = Append(@, Frame(NoSession.seq + 1, "error", "none"))]
            BY DEF Ingest
        <3> HIDE DEF i, e
        <3> QED
            BY <3>1, <3>2, <3>3, <3>4 DEF Session
    <2>3. e \in FrameRecord /\ ~IsLine(e) /\ ~IsLine(NoFrame)
        BY NoFrames DEF Frame, FrameRecord, IsLine, Outcome
    <2> HIDE DEF i, e
    <2>4. /\ Numbering(<<>>, 0) /\ Numbering(Append(<<>>, e), 0)
          /\ Steady(<<>>, 0, 0, ui.last) /\ Steady(Append(<<>>, e), 0, 0, ui.last)
        <3>1. Numbering(<<>>, 0) /\ Steady(<<>>, 0, 0, ui.last)
            BY DEF Numbering, Steady
        <3>2. ui.last \in Nat
            BY DEF OrderInv, PageInv
        <3> QED
            BY <2>3, <3>1, <3>2, NoFrames, OtherNumbered, ZenonT(40)
    <2>5. /\ db'.lines = 0 /\ db'.runner # "none" /\ db'.up = db.up /\ db.up
          /\ db'.session.read = 0 /\ db'.session.done = NoFrame
          /\ \/ /\ db'.session.at = "spawned" /\ db'.session.seq = 0
                /\ db'.session.history = <<>>
             \/ /\ db'.session.at = "ending" /\ db'.session.seq = 1
                /\ db'.session.history = Append(<<>>, e)
        <3>1. CASE db' = [db EXCEPT !.runner = "running",
                                    !.session = [NoSession EXCEPT !.at = "spawned"]]
            BY <1>4, <2>1, <2>2, <3>1 DEF ServeTrigger, Session
        <3>2. CASE db' = [db EXCEPT !.runner = "gone", !.exit = "failed",
                                    !.session = [i EXCEPT !.at = "ending", !.verdict = "failed"]]
            BY <1>4, <2>1, <2>2, <3>2 DEF ServeTrigger, Session
        <3> QED
            BY <1>4, <3>1, <3>2 DEF ServeTrigger, i
    <2>6. St.rest = <<>> /\ St.sent = <<>> /\ \A h : Known(h, <<>>)
        BY <2>1, NoStreamType DEF Known
    <2> QED
        BY <1>0, <1>1, <2>1, <2>3, <2>4, <2>5, <2>6 DEF OrderInv, CountInv, ShownInv, SentInv
<1> QED
    BY <1>2, <1>3, <1>4

\* What is no line is sent as it is.
LEMMA OtherSent ==
    ASSUME NEW h, NEW frames \in Seq(FrameRecord), Known(h, frames),
           NEW f \in FrameRecord, ~IsLine(f)
    PROVE  Known(h, Append(frames, f))
<1> SUFFICES ASSUME NEW k \in 1 .. Len(Append(frames, f)), IsLine(Append(frames, f)[k])
             PROVE  \E i \in 1 .. Len(h) : h[i] = Append(frames, f)[k]
    BY DEF Known
<1>1. CASE k = Len(frames) + 1
    BY <1>1
<1>2. CASE k # Len(frames) + 1
    <2>1. k \in 1 .. Len(frames) /\ Append(frames, f)[k] = frames[k]
        BY <1>2
    <2> QED
        BY <2>1 DEF Known
<1> QED
    BY <1>1, <1>2

\* A line is read.
LEMMA TailOrder ==
    ASSUME Truth, OrderInv, TailLine
    PROVE  OrderInv'
<1> DEFINE r == [S EXCEPT !.read = @ + 1, !.end = (S.read + 1 = db.lines)]
           f == Frame(S.seq + 1, "line", S.read + 1)
           h == Append(S.history, f)
           s == [r EXCEPT !.seq = S.seq + 1, !.history = h]
<1>1. /\ S \in Session /\ S.history \in Seq(FrameRecord) /\ S.read \in Nat /\ S.seq \in Nat
      /\ db.lines \in Nat
    BY DEF Truth, DbInv, DbType, Session
<1>2. /\ f \in FrameRecord /\ f.type = "line" /\ f.of = S.read + 1 /\ f.seq = S.seq + 1
    BY <1>1 DEF Frame, FrameRecord
<1>3. h \in Seq(FrameRecord) /\ h[Len(h)] = f
    BY <1>1, <1>2
<1>4. /\ s.history = h /\ s.read = S.read + 1 /\ s.seq = S.seq + 1 /\ s.at = S.at
      /\ s.done = S.done
    BY <1>1 DEF Session
<1>5. Ingest(r, "line", S.read + 1) = s
    <2>1. r.seq = S.seq /\ r.history = S.history
        BY <1>1 DEF Session
    <2> HIDE DEF r
    <2> QED
        BY <2>1 DEF Ingest
<1>6. db' = [db EXCEPT !.session = s] /\ net' = Broadcast(net, s.history[Len(s.history)]) /\ ui' = ui
    BY <1>5 DEF TailLine
<1>7. S.at \in {"running", "ending"} /\ S.read < db.lines
    BY DEF TailLine
<1> HIDE DEF r, f, h, s
<1>8. /\ db'.session = s /\ db'.lines = db.lines /\ db'.runner = db.runner /\ db'.up = db.up
      /\ net' = Broadcast(net, f)
    BY <1>3, <1>4, <1>6 DEF Truth, DbInv, DbType
<1>9. PageInv' /\ Top' = Top /\ Top \in Nat /\ ui.last \in Nat
    BY <1>6, PageStays DEF OrderInv, PageInv
<1>10. Numbering(h, S.read + 1) /\ Steady(h, S.read + 1, Top, ui.last)
    BY <1>1, <1>2, <1>7, <1>9, LineNumbered, SMTT(30) DEF OrderInv, CountInv, ShownInv, h
<1>11. Known(h, net'.stream.rest) /\ Known(h, net'.stream.sent)
    BY <1>1, <1>2, <1>8, BroadcastKnown DEF OrderInv, SentInv, Truth, h
<1> QED
    BY <1>1, <1>4, <1>6, <1>7, <1>8, <1>9, <1>10, <1>11, SMTT(30) DEF OrderInv, CountInv, ShownInv, SentInv

\* The session gives up with an error.
LEMMA GiveUpOrder ==
    ASSUME Truth, OrderInv, GiveUp
    PROVE  OrderInv'
<1> DEFINE f == Frame(S.seq + 1, "error", "none")
           h == Append(S.history, f)
           i == Ingest(S, "error", "none")
           s == [i EXCEPT !.at = "ending", !.verdict = VerdictOf(S)]
           t == [s EXCEPT !.tails = FALSE]
<1>1. /\ S \in Session /\ S.history \in Seq(FrameRecord) /\ S.read \in Nat /\ S.seq \in Nat
      /\ db.lines \in Nat
    BY DEF Truth, DbInv, DbType, Session
<1>2. f \in FrameRecord /\ ~IsLine(f)
    BY <1>1 DEF Frame, FrameRecord, Outcome, IsLine
<1>3. h \in Seq(FrameRecord) /\ h[Len(h)] = f
    BY <1>1, <1>2
<1>4. i = [S EXCEPT !.seq = S.seq + 1, !.history = h]
    BY DEF Ingest
<1>5. /\ s.history = h /\ s.read = S.read /\ s.seq = S.seq + 1 /\ s.at = "ending"
      /\ s.done = S.done
      /\ t.history = h /\ t.read = S.read /\ t.seq = S.seq + 1 /\ t.at = "ending"
      /\ t.done = S.done
    BY <1>1, <1>4 DEF Session
<1>6. /\ net' = Broadcast(net, s.history[Len(s.history)]) /\ ui' = ui
      /\ \/ db' = [db EXCEPT !.session = t]
         \/ db' = [db EXCEPT !.session = s, !.runner = "gone",
                             !.exit = IF db.runner = "running" THEN "failed" ELSE @]
    BY DEF GiveUp
<1>7. S.at = "running"
    BY DEF GiveUp
<1> HIDE DEF f, h, i, s, t
<1>8. /\ db'.session \in {s, t} /\ db'.lines = db.lines /\ db'.runner \in {db.runner, "gone"}
      /\ db'.up = db.up /\ net' = Broadcast(net, f)
    BY <1>3, <1>5, <1>6 DEF Truth, DbInv, DbType
<1>9. PageInv' /\ Top' = Top /\ Top \in Nat /\ ui.last \in Nat
    BY <1>6, PageStays DEF OrderInv, PageInv
<1>10. Numbering(h, S.read) /\ Steady(h, S.read, Top, ui.last)
    BY <1>1, <1>2, <1>7, <1>9, OtherNumbered DEF OrderInv, CountInv, ShownInv, h
<1>11. Known(h, net'.stream.rest) /\ Known(h, net'.stream.sent)
    BY <1>1, <1>2, <1>8, BroadcastKnown DEF OrderInv, SentInv, Truth, h
<1> QED
    BY <1>1, <1>5, <1>6, <1>7, <1>8, <1>9, <1>10, <1>11 DEF OrderInv, CountInv, ShownInv, SentInv

\* The end of the session numbers no line.
LEMMA FinishOrder ==
    ASSUME Truth, OrderInv, FindMarker \/ Finish \/ FinishFiles
    PROVE  OrderInv'
<1>1. /\ S \in Session /\ S.history \in Seq(FrameRecord) /\ S.read \in Nat /\ S.seq \in Nat
      /\ db.lines \in Nat /\ S.done \in FrameRecord
    BY DEF Truth, DbInv, DbType, Session
<1>2. /\ ui' = ui /\ db'.lines = db.lines /\ db'.runner = db.runner /\ db'.up = db.up
    BY DEF FindMarker, Finish, FinishFiles, Truth, DbInv, DbType
<1>3. PageInv' /\ Top' = Top /\ Top \in Nat /\ ui.last \in Nat
    BY <1>2, PageStays DEF OrderInv, PageInv
<1>4. /\ db'.session.history = S.history /\ db'.session.read = S.read
      /\ ~IsLine(db'.session.done)
      /\ \/ /\ S.at \in {"running", "ending"} /\ db'.session.at = "ending"
            /\ db'.session.seq = S.seq
         \/ S.at # "none" /\ db'.session.at = "done"
    <2>1. CASE FindMarker
        BY <1>1, <2>1 DEF FindMarker, Truth, DbInv, DbType, Session, OrderInv, CountInv
    <2>2. CASE Finish
        <3>1. ~IsLine(Frame(S.seq + 1, "done", S.verdict))
            BY DEF Frame, IsLine
        <3> QED
            BY <1>1, <2>2, <3>1 DEF Finish, Truth, DbInv, DbType, Session
    <2>3. CASE FinishFiles
        BY <1>1, <2>3 DEF FinishFiles, Truth, DbInv, DbType, Session, OrderInv, CountInv
    <2> QED
        BY <2>1, <2>2, <2>3
<1>5. Known(S.history, net'.stream.rest) /\ Known(S.history, net'.stream.sent)
    <2>1. /\ St.sent \in Seq(FrameRecord) /\ ~IsLine(S.done) /\ Known(S.history, St.rest)
          /\ Known(S.history, St.sent)
        BY DEF Truth, NetInv, Stream, OrderInv, CountInv, SentInv
    <2>2. Known(S.history, Append(St.sent, S.done))
        BY <1>1, <2>1, OtherSent
    <2>3. net'.stream \in {St, [St EXCEPT !.sent = Append(St.sent, S.done)]}
        BY DEF FindMarker, Finish, FinishFiles, Broadcast, Truth, NetInv
    <2> QED
        BY <2>1, <2>2, <2>3 DEF Truth, NetInv, Stream
<1> QED
    BY <1>1, <1>2, <1>3, <1>4, <1>5 DEF OrderInv, CountInv, ShownInv, SentInv

\* No session: nothing numbered, nothing sent.
LEMMA NothingSent ==
    /\ NoSession.at = "none" /\ NoSession.read = 0 /\ NoSession.seq = 0
    /\ ~IsLine(NoSession.done) /\ Numbering(NoSession.history, 0)
    /\ NoStream.rest = <<>> /\ NoStream.sent = <<>>
    /\ \A h : Known(h, <<>>)
<1>1. /\ NoSession.at = "none" /\ NoSession.read = 0 /\ NoSession.seq = 0
      /\ NoSession.history = <<>> /\ NoSession.done = NoFrame
    BY NoSessionType DEF NoSession
<1>2. ~IsLine(NoFrame) /\ Numbering(<<>>, 0) /\ \A h : Known(h, <<>>)
    BY NoFrames DEF IsLine, Numbering, Known
<1> QED
    BY <1>1, <1>2, NoStreamType

\* A crash leaves no session and no stream; the recovery numbers the lines as the file does.
LEMMA CrashOrder ==
    ASSUME Truth, OrderInv, Crash \/ Restart
    PROVE  OrderInv'
<1>1. ui' = ui /\ db'.lines = db.lines /\ db'.runner = db.runner /\ db.lines \in Nat
    BY DEF Crash, Restart, Truth, DbInv, DbType
<1>2. PageInv' /\ Top' = Top /\ Top \in Nat /\ ui.last \in Nat
    BY <1>1, PageStays DEF OrderInv, PageInv
<1>3. net'.stream = NoStream
    BY DEF Crash, Restart, Truth, NetInv, OrderInv, CountInv, SentInv
<1>4. \/ db'.session = NoSession
      \/ db'.up /\ db'.session = Rebuilt
    BY DEF Crash, Restart, Truth, DbInv, DbType
<1>5. CASE db'.session = NoSession
    BY <1>1, <1>2, <1>3, <1>5, NothingSent DEF OrderInv, CountInv, ShownInv, SentInv
<1>6. CASE db'.up /\ db'.session = Rebuilt
    <2>1. Top <= db.lines
        BY DEF OrderInv, ShownInv
    <2> QED
        BY <1>1, <1>2, <1>3, <1>6, <2>1, NothingSent, RebuiltIsNumbered
           DEF Truth, OrderInv, CountInv, ShownInv, SentInv
<1> QED
    BY <1>4, <1>5, <1>6

\* A subscription sends what the session has.
LEMMA SubscriptionOrder ==
    ASSUME Truth, OrderInv, Subscription
    PROVE  OrderInv'
<1>1. ui' = ui /\ db' = db
    BY DEF Subscription, Snapshot, Replay, AfterReplay, AfterDone
<1>2. PageInv' /\ Top' = Top
    BY <1>1, PageStays DEF OrderInv, PageInv
<1>3. /\ St \in Stream /\ St.sent \in Seq(FrameRecord) /\ St.rest \in Seq(FrameRecord)
      /\ S.history \in Seq(FrameRecord) /\ S.done \in FrameRecord /\ ~IsLine(S.done)
      /\ Known(S.history, St.rest) /\ Known(S.history, St.sent)
    BY DEF Truth, NetInv, Stream, DbInv, DbType, Session, OrderInv, CountInv, SentInv
<1>4. S.at # "none"
    BY NoStreamType DEF Subscription, Snapshot, Replay, AfterReplay, AfterDone, OrderInv, SentInv,
       NoStream
<1>5. Known(S.history, net'.stream.rest) /\ Known(S.history, net'.stream.sent)
    <2>1. CASE Snapshot
        <3>1. net'.stream.rest = S.history /\ net'.stream.sent = St.sent
            BY <1>3, <2>1 DEF Snapshot, Truth, NetInv, Stream
        <3>2. Known(S.history, S.history)
            BY DEF Known
        <3> QED
            BY <1>3, <3>1, <3>2
    <2>2. CASE Replay
        <3> DEFINE f == Head(St.rest)
        <3>1. /\ St.rest # <<>> /\ net'.stream.rest = Tail(St.rest)
              /\ net'.stream.sent = Append(St.sent, f)
            BY <1>3, <2>2 DEF Replay, Truth, NetInv, Stream
        <3>2. /\ f \in FrameRecord /\ f = St.rest[1] /\ 1 \in 1 .. Len(St.rest)
              /\ Tail(St.rest) \in Seq(FrameRecord)
              /\ \A k \in 1 .. Len(Tail(St.rest)) : /\ Tail(St.rest)[k] = St.rest[k + 1]
                                                    /\ k + 1 \in 1 .. Len(St.rest)
            BY <1>3, <3>1
        <3>3. Known(S.history, Tail(St.rest))
            BY <1>3, <3>2 DEF Known
        <3>4. IsLine(f) => \E i \in 1 .. Len(S.history) : S.history[i] = f
            BY <1>3, <3>2 DEF Known
        <3> HIDE DEF f
        <3>5. Known(S.history, Append(St.sent, f))
            <4> SUFFICES ASSUME NEW k \in 1 .. Len(Append(St.sent, f)),
                                IsLine(Append(St.sent, f)[k])
                         PROVE  \E i \in 1 .. Len(S.history) :
                                    S.history[i] = Append(St.sent, f)[k]
                BY DEF Known
            <4>1. CASE k = Len(St.sent) + 1
                BY <1>3, <3>2, <3>4, <4>1
            <4>2. CASE k # Len(St.sent) + 1
                <5>1. k \in 1 .. Len(St.sent) /\ Append(St.sent, f)[k] = St.sent[k]
                    BY <1>3, <3>2, <4>2
                <5> QED
                    BY <1>3, <5>1 DEF Known
            <4> QED
                BY <4>1, <4>2
        <3> QED
            BY <3>1, <3>3, <3>5
    <2>3. CASE AfterReplay \/ AfterDone
        <3>1. /\ net'.stream.rest = St.rest
              /\ net'.stream.sent \in {St.sent, Append(St.sent, S.done)}
            <4>1. \/ \E at \in {"live", "closed"} : net' = [net EXCEPT !.stream = [St EXCEPT !.at = at]]
                  \/ net' = [net EXCEPT !.stream = [St EXCEPT !.sent = Append(St.sent, S.done),
                                                              !.last = S.done.seq]]
                BY <2>3 DEF AfterReplay, AfterDone, Send
            <4>2. "stream" \in DOMAIN net
                BY DEF Truth, NetInv
            <4>3. CASE \E at \in {"live", "closed"} : net' = [net EXCEPT !.stream = [St EXCEPT !.at = at]]
                BY <1>3, <4>2, <4>3 DEF Stream
            <4>4. CASE net' = [net EXCEPT !.stream = [St EXCEPT !.sent = Append(St.sent, S.done),
                                                               !.last = S.done.seq]]
                BY <1>3, <4>2, <4>4 DEF Stream
            <4> QED
                BY <4>1, <4>3, <4>4
        <3>2. Known(S.history, Append(St.sent, S.done))
            BY <1>3, OtherSent
        <3> QED
            BY <1>3, <3>1, <3>2
    <2> QED
        BY <2>1, <2>2, <2>3 DEF Subscription
<1> QED
    BY <1>1, <1>2, <1>4, <1>5 DEF OrderInv, CountInv, ShownInv, SentInv

\* A page that starts anew has shown no line.
LEMMA NoneShown ==
    ASSUME CountInv, S \in Session
    PROVE  Steady(S.history, S.read, 0, 0)
BY DEF CountInv, Numbering, Steady, Session

\* The page shows only lines that are newer.
LEMMA ReceiveOrder ==
    ASSUME Truth, OrderInv, Receive
    PROVE  OrderInv'
<1> DEFINE f == Head(St.sent)
<1>1. /\ St \in Stream /\ St.sent \in Seq(FrameRecord) /\ St.sent # <<>>
      /\ S.history \in Seq(FrameRecord) /\ S.read \in Nat /\ db.lines \in Nat
    BY DEF Receive, Truth, NetInv, Stream, DbInv, DbType, Session
<1>2. f \in FrameRecord /\ f = St.sent[1] /\ 1 \in 1 .. Len(St.sent) /\ f.seq \in Nat
    <2>1. f \in FrameRecord /\ f = St.sent[1] /\ 1 \in 1 .. Len(St.sent)
        BY <1>1
    <2> QED
        BY <2>1 DEF FrameRecord
<1>3. db' = db
    BY DEF Receive
<1>4. S.at # "none"
    BY <1>1, NoStreamType DEF OrderInv, SentInv
<1>5. Known(S.history, net'.stream.rest) /\ Known(S.history, net'.stream.sent)
    <2>1. \/ net' = [net EXCEPT !.stream = NoStream]
          \/ net' = [net EXCEPT !.stream.sent = Tail(@)]
        BY Zenon DEF Receive
    <2>2. \/ net'.stream = NoStream
          \/ net'.stream.rest = St.rest /\ net'.stream.sent = Tail(St.sent)
        BY <1>1, <2>1 DEF Truth, NetInv, Stream
    <2>3. Known(S.history, Tail(St.sent)) /\ Known(S.history, St.rest)
        <3>1. \A k \in 1 .. Len(Tail(St.sent)) : /\ Tail(St.sent)[k] = St.sent[k + 1]
                                                 /\ k + 1 \in 1 .. Len(St.sent)
            BY <1>1
        <3> QED
            BY <3>1 DEF OrderInv, SentInv, Known
    <2> QED
        BY <2>2, <2>3, NothingSent
<1>6. IsLine(f) => \E i \in 1 .. Len(S.history) : S.history[i] = f
    BY <1>1, <1>2 DEF OrderInv, SentInv, Known
<1>7. /\ ui.log \in Seq(Nat) /\ ui.last \in Nat /\ Top \in Nat /\ Top <= ui.last
      /\ {"log", "last"} \subseteq DOMAIN ui
    BY TopIsNumber DEF OrderInv, PageInv
<1>8. \/ ui'.log = ui.log /\ ui'.last = ui.last
      \/ /\ f.seq > ui.last /\ ui'.last = f.seq
         /\ ui'.log = IF IsLine(f) THEN Append(ui.log, f.of) ELSE ui.log
    <2>1. PICK u \in {ui, [ui EXCEPT !.attempts = 0]} :
             ui' = IF Takes(f) THEN Shown([u EXCEPT !.last = f.seq], f) ELSE u
        BY DEF Receive
    <2>2. u.log = ui.log /\ u.last = ui.last /\ {"log", "last"} \subseteq DOMAIN u
        BY <1>7
    <2> DEFINE v == [u EXCEPT !.last = f.seq]
    <2>3. v.log = ui.log /\ v.last = f.seq /\ {"log", "last"} \subseteq DOMAIN v
        BY <2>2
    <2> HIDE DEF v
    <2>4. Shown(v, f).last = f.seq
          /\ Shown(v, f).log = IF IsLine(f) THEN Append(ui.log, f.of) ELSE ui.log
        BY <2>3 DEF Shown, Stop, IsLine
    <2> QED
        BY <2>1, <2>2, <2>4 DEF Takes, v
<1>9. {"log", "last"} \subseteq DOMAIN ui'
    BY <1>7, Zenon DEF Receive, Shown, Stop
<1> HIDE DEF f
<1>10. CASE ui'.log = ui.log /\ ui'.last = ui.last
    <2>1. PageInv' /\ Top' = Top
        BY <1>9, <1>10, PageStays DEF OrderInv
    <2> QED
        BY <1>3, <1>4, <1>5, <1>10, <2>1 DEF OrderInv, CountInv, ShownInv, SentInv
<1>11. CASE f.seq > ui.last /\ ui'.last = f.seq /\ ~IsLine(f) /\ ui'.log = ui.log
    <2>1. Top' = Top
        BY <1>11 DEF Top
    <2>2. LinesInOrder'
        BY <1>11 DEF LinesInOrder, OrderInv, PageInv
    <2>3. PageInv'
        BY <1>2, <1>7, <1>9, <1>11, <2>1, <2>2 DEF PageInv
    <2>4. Steady(S.history, S.read, Top, f.seq)
        BY <1>2, <1>4, <1>7, <1>11 DEF OrderInv, ShownInv, Steady
    <2> QED
        BY <1>3, <1>4, <1>5, <1>11, <2>1, <2>3, <2>4 DEF OrderInv, CountInv, ShownInv, SentInv
<1>12. CASE /\ f.seq > ui.last /\ ui'.last = f.seq /\ IsLine(f)
            /\ ui'.log = Append(ui.log, f.of)
    <2>1. PICK i \in 1 .. Len(S.history) : S.history[i] = f
        BY <1>6, <1>12
    <2>2. f.of \in 1 .. S.read /\ f.seq \in {f.of, f.of + 1}
        BY <1>12, <2>1 DEF OrderInv, CountInv, Numbering
    <2>3. f.of > Top
        <3>1. f.of >= Top
            BY <1>2, <1>7, <1>12, <2>2, SMTT(30)
        <3>2. ASSUME f.of = Top PROVE FALSE
            <4>1. ui.last = Top
                BY <1>2, <1>7, <1>12, <2>2, <3>2
            <4>2. f.seq = Top
                BY <1>4, <1>12, <2>1, <3>2, <4>1 DEF OrderInv, ShownInv, Steady
            <4> QED
                BY <1>7, <1>12, <4>1, <4>2
        <3> QED
            BY <1>1, <1>7, <2>2, <3>1, <3>2
    <2>4. /\ Len(ui'.log) = Len(ui.log) + 1 /\ ui'.log[Len(ui.log) + 1] = f.of
          /\ \A k \in 1 .. Len(ui.log) : ui'.log[k] = ui.log[k]
          /\ ui'.log \in Seq(Nat) /\ Len(ui.log) \in Nat /\ f.of \in Nat
        BY <1>1, <1>7, <1>12, <2>2
    <2>5. Top' = f.of
        BY <2>4 DEF Top
    <2>6. \A k \in 1 .. Len(ui.log) : ui.log[k] < f.of
        <3> SUFFICES ASSUME NEW k \in 1 .. Len(ui.log)
                     PROVE  ui.log[k] < f.of
            OBVIOUS
        <3>1. Top = ui.log[Len(ui.log)] /\ Len(ui.log) \in 1 .. Len(ui.log) /\ ui.log[k] \in Nat
            BY <1>7 DEF Top
        <3>2. k < Len(ui.log) => ui.log[k] < ui.log[Len(ui.log)]
            BY <3>1 DEF OrderInv, PageInv, LinesInOrder
        <3> QED
            BY <1>7, <2>3, <2>4, <3>1, <3>2, SMTT(30)
    <2>7. LinesInOrder'
        <3> SUFFICES ASSUME NEW k \in 1 .. Len(ui'.log), NEW j \in 1 .. Len(ui'.log), k < j
                     PROVE  ui'.log[k] < ui'.log[j]
            BY DEF LinesInOrder
        <3>1. CASE j = Len(ui.log) + 1
            BY <2>4, <2>6, <3>1, SMTT(30)
        <3>2. CASE j # Len(ui.log) + 1
            <4>1. k \in 1 .. Len(ui.log) /\ j \in 1 .. Len(ui.log)
                BY <2>4, <3>2, SMTT(30)
            <4>2. ui.log[k] < ui.log[j]
                BY <4>1 DEF OrderInv, PageInv, LinesInOrder
            <4> QED
                BY <2>4, <4>1, <4>2
        <3> QED
            BY <3>1, <3>2
    <2>8. PageInv'
        BY <1>2, <1>9, <1>12, <2>2, <2>4, <2>5, <2>7, SMTT(30) DEF PageInv
    <2>9. Steady(S.history, S.read, f.of, f.seq)
        <3>1. ASSUME f.seq = f.of, NEW k \in 1 .. Len(S.history), IsLine(S.history[k]),
                     S.history[k].of = f.of
              PROVE  S.history[k].seq = f.of
            BY <1>12, <2>1, <3>1 DEF OrderInv, CountInv, Numbering
        <3> QED
            BY <1>1, <2>2, <3>1 DEF Steady
    <2>10. f.of <= db.lines
        BY <1>1, <2>2 DEF OrderInv, CountInv
    <2> QED
        BY <1>3, <1>4, <1>5, <1>12, <2>5, <2>8, <2>9, <2>10
           DEF OrderInv, CountInv, ShownInv, SentInv
<1> QED
    BY <1>8, <1>10, <1>11, <1>12

\* The other steps of the page leave its lines, or clear them.
LEMMA PageOrder ==
    ASSUME Truth, OrderInv,
           StartUpdate \/ Reopen \/ AnswerTrigger \/ Connect \/ Disconnect \/ Reconnect
    PROVE  OrderInv'
<1>1. /\ S \in Session /\ ui.last \in Nat /\ Top \in Nat /\ db.lines \in Nat
      /\ {"log", "last"} \subseteq DOMAIN ui /\ "stream" \in DOMAIN net
    BY TopIsNumber DEF Truth, NetInv, DbInv, DbType, OrderInv, PageInv
<1>2. /\ {"log", "last"} \subseteq DOMAIN ui'
      /\ \/ ui'.log = ui.log /\ ui'.last = ui.last
         \/ ui'.log = <<>> /\ ui'.last = 0
    <2>1. \A u : {"log", "last"} \subseteq DOMAIN u =>
             /\ {"log", "last"} \subseteq DOMAIN Retry(u) \cap DOMAIN Stop(u) \cap DOMAIN Follow(u)
             /\ Retry(u).log = u.log /\ Retry(u).last = u.last
             /\ Stop(u).log = u.log /\ Stop(u).last = u.last
             /\ Follow(u).log = <<>> /\ Follow(u).last = 0
        BY DEF Retry, Stop, Follow
    <2>2. CASE StartUpdate
        BY <1>1, <2>2 DEF StartUpdate
    <2>3. CASE Reopen
        <3> DEFINE u == [NewPage EXCEPT !.saved = ui.saved]
        <3>1. {"log", "last"} \subseteq DOMAIN u /\ u.log = <<>> /\ u.last = 0
            BY DEF NewPage
        <3>2. ui' = Follow(u) \/ ui' = u
            BY <2>3 DEF Reopen
        <3> HIDE DEF u
        <3> QED
            BY <2>1, <3>1, <3>2
    <2>4. CASE AnswerTrigger
        <3> DEFINE u == [ui EXCEPT !.starting = FALSE]
                   v == [ui EXCEPT !.starting = FALSE, !.saved = TRUE]
        <3>1. /\ {"log", "last"} \subseteq DOMAIN u /\ u.log = ui.log /\ u.last = ui.last
              /\ {"log", "last"} \subseteq DOMAIN v
            BY <1>1
        <3>2. ui' = u \/ ui' = Follow(v)
            BY <2>4 DEF AnswerTrigger
        <3> HIDE DEF u, v
        <3> QED
            BY <2>1, <3>1, <3>2
    <2>5. CASE Connect
        <3> DEFINE u == [ui EXCEPT !.auth = TRUE]
                   v == [ui EXCEPT !.conn = "open"]
        <3>1. /\ {"log", "last"} \subseteq DOMAIN u /\ u.log = ui.log /\ u.last = ui.last
              /\ {"log", "last"} \subseteq DOMAIN v /\ v.log = ui.log /\ v.last = ui.last
            BY <1>1
        <3>2. ui' \in {v, Stop(ui), Retry(u), Retry(ui)}
            BY <2>5 DEF Connect
        <3> HIDE DEF u, v
        <3> QED
            BY <1>1, <2>1, <3>1, <3>2
    <2>6. CASE Disconnect
        BY <1>1, <2>1, <2>6 DEF Disconnect
    <2>7. CASE Reconnect
        <3>1. \/ \E auth, conn : ui' = [ui EXCEPT !.auth = auth, !.conn = conn]
              \/ \E conn : ui' = [ui EXCEPT !.conn = conn]
              \/ ui' = [Stop(ui) EXCEPT !.result = "failed"]
            BY <2>7, Zenon DEF Reconnect
        <3>2. /\ {"log", "last"} \subseteq DOMAIN Stop(ui)
              /\ Stop(ui).log = ui.log /\ Stop(ui).last = ui.last
            BY <1>1, <2>1
        <3> QED
            BY <1>1, <3>1, <3>2
    <2> QED
        BY <2>2, <2>3, <2>4, <2>5, <2>6, <2>7
<1>3. /\ PageInv'
      /\ \/ Top' = Top /\ ui'.last = ui.last
         \/ Top' = 0 /\ ui'.last = 0
    BY <1>2, PageStays, PageStarts DEF OrderInv
<1>4. net'.stream.rest \in {St.rest, <<>>} /\ net'.stream.sent \in {St.sent, <<>>}
    <2>1. net'.stream \in {St, NoStream, [NoStream EXCEPT !.at = "new"]}
        BY <1>1 DEF StartUpdate, Reopen, AnswerTrigger, Connect, Disconnect, Reconnect, Troubled
    <2>2. /\ [NoStream EXCEPT !.at = "new"].rest = <<>>
          /\ [NoStream EXCEPT !.at = "new"].sent = <<>>
        BY NothingSent DEF NoStream
    <2> QED
        BY <2>1, <2>2, NothingSent
<1>5. CASE db' = db /\ (S.at = "none" => net'.stream = NoStream)
    <2>1. S.at # "none" => Steady(S.history, S.read, Top', ui'.last)
        BY <1>1, <1>3, NoneShown DEF OrderInv, ShownInv
    <2> QED
        BY <1>1, <1>3, <1>4, <1>5, <2>1, NothingSent DEF OrderInv, CountInv, ShownInv, SentInv
<1>6. CASE S.at = "none" /\ db.up /\ db' = [db EXCEPT !.session = Rebuilt]
    <2>1. /\ db'.session = Rebuilt /\ db'.lines = db.lines /\ db'.runner = db.runner
          /\ db'.up
        BY <1>6 DEF Truth, DbInv, DbType
    <2>2. Top' <= db.lines /\ Top' \in Nat /\ ui'.last \in Nat
        BY <1>1, <1>3 DEF OrderInv, ShownInv
    <2>3. net'.stream.rest = <<>> /\ net'.stream.sent = <<>>
        BY <1>4, <1>6, NothingSent DEF OrderInv, SentInv
    <2> QED
        BY <1>1, <1>3, <2>1, <2>2, <2>3, NothingSent, RebuiltIsNumbered
           DEF Truth, OrderInv, CountInv, ShownInv, SentInv
<1>7. \/ db' = db /\ (S.at = "none" => net'.stream = NoStream)
      \/ S.at = "none" /\ db.up /\ db' = [db EXCEPT !.session = Rebuilt]
    <2>1. S.at = "none" => St = NoStream
        BY DEF OrderInv, SentInv
    <2>2. CASE Connect
        BY <1>1, <2>1, <2>2 DEF Connect, Troubled
    <2>3. CASE StartUpdate \/ Reopen \/ AnswerTrigger \/ Disconnect \/ Reconnect
        BY <1>1, <2>1, <2>3 DEF StartUpdate, Reopen, AnswerTrigger, Disconnect, Reconnect, Troubled
    <2> QED
        BY <2>2, <2>3
<1> QED
    BY <1>5, <1>6, <1>7

LEMMA OrderInit == Init => OrderInv
<1> SUFFICES ASSUME Init PROVE OrderInv
    OBVIOUS
<1>1. /\ ui.log = <<>> /\ ui.last = 0 /\ {"log", "last"} \subseteq DOMAIN ui
      /\ db.lines = 0 /\ db.up /\ db.session = NoSession /\ net.stream = NoStream
    BY DEF Init, NewPage
<1>2. Top = 0 /\ LinesInOrder
    BY <1>1 DEF Top, LinesInOrder
<1> QED
    BY <1>1, <1>2, NothingSent DEF OrderInv, PageInv, CountInv, ShownInv, SentInv

LEMMA OrderStep ==
    ASSUME Truth, OrderInv, [Next]_vars
    PROVE  OrderInv'
<1>1. CASE Next
    BY <1>1, ScriptOrder, TailOrder, GiveUpOrder, FinishOrder, CrashOrder, SubscriptionOrder,
       ReceiveOrder, PageOrder, Zenon DEF Next, Server, Page
<1>2. CASE UNCHANGED vars
    <2>1. ui' = ui /\ net' = net /\ db' = db
        BY <1>2 DEF vars
    <2>2. PageInv' /\ Top' = Top
        BY <2>1, PageStays DEF OrderInv, PageInv
    <2> QED
        BY <2>1, <2>2 DEF OrderInv, CountInv, ShownInv, SentInv
<1> QED
    BY <1>1, <1>2

\* The page shows no line twice and none after a later one, although a restart numbers the
\* lines anew, an error may shift the numbers of the lines read after it, and the replay and
\* the broadcasts share the stream: tailSessionLog, recoverFromDisk and sendLocked of
\* system/service.go, onEvent of the settings page.
THEOREM LinesAreInOrder == Spec => []LinesInOrder
<1>1. UpdateInv /\ OrderInv /\ [Next]_vars => UpdateInv' /\ OrderInv'
    BY UpdateStep, OrderStep DEF UpdateInv
<1>2. OrderInv => LinesInOrder
    BY DEF OrderInv, PageInv
<1> QED
    BY <1>1, <1>2, UpdateInit, OrderInit, PTL DEF Spec

-----------------------------------------------------------------------------
(* Types.                                                                  *)

Bounds == MaxLines \in Nat /\ MaxCrash \in Nat /\ MaxTrouble \in Nat /\ MaxAttempts \in Nat
          /\ Buffer \in Nat

\* The lines shown are lines of the script.
PageType ==
    [running : BOOLEAN, starting : BOOLEAN, result : {"none", "success", "failed"},
     log : Seq(1 .. MaxLines), last : Nat, attempts : 0 .. MaxAttempts,
     conn : {"none", "asking", "open", "timer", "refreshing"}, auth : BOOLEAN, saved : BOOLEAN]

\* The page gives up in time, and a subscription holds no more frames than its buffer.
NetLimits == net.trouble \in 0 .. MaxTrouble /\ Len(St.sent) <= Buffer
DbLimits == db.lines <= MaxLines /\ db.crashes <= MaxCrash
TypesInv == ui \in PageType /\ NetLimits /\ DbLimits

LEMMA TypesHold ==
    ASSUME Truth, OrderInv, TypesInv, Bounds
    PROVE  TypeOK
<1>1. /\ db.lines \in 0 .. MaxLines /\ db.crashes \in 0 .. MaxCrash
      /\ db.runner \in {"none", "running", "gone"} /\ db.marker \in Outcome
      /\ db.exit \in Outcome /\ db.up \in BOOLEAN /\ S \in Session
    BY DEF Truth, DbInv, DbType, TypesInv, DbLimits, Bounds
<1>2. S.at \in {"none", "spawned", "running", "ending", "done"} /\ S.read \in 0 .. db.lines
    BY <1>1 DEF Session, OrderInv, CountInv
<1>3. St.at \in {"none", "new", "replay", "live", "closed"}
    BY DEF Truth, NetInv, Stream
<1> QED
    BY <1>1, <1>2, <1>3 DEF TypeOK, TypesInv, NetLimits, PageType, Outcome

LEMMA NewPageTyped == Bounds => NewPage \in PageType
BY DEF Bounds, NewPage, PageType

LEMMA TypesInit == Bounds /\ Init => TypesInv
<1> SUFFICES ASSUME Bounds, Init PROVE TypesInv
    OBVIOUS
<1>1. /\ ui = NewPage /\ net.stream = NoStream /\ net.trouble = 0 /\ db.lines = 0
      /\ db.crashes = 0
    BY DEF Init
<1>2. Len(St.sent) = 0
    BY <1>1, NoStreamType, NoFrames
<1> QED
    BY <1>1, <1>2, NewPageTyped DEF TypesInv, NetLimits, DbLimits, Bounds

\* A broadcast into a full buffer is dropped.
LEMMA BroadcastFits ==
    ASSUME Bounds, NetInv, NetLimits, NEW f \in FrameRecord
    PROVE  /\ Len(Broadcast(net, f).stream.sent) <= Buffer
           /\ Broadcast(net, f).trouble = net.trouble
<1>1. CASE Broadcast(net, f) = net
    BY <1>1 DEF NetLimits
<1>2. CASE /\ Broadcast(net, f) = [net EXCEPT !.stream.sent = Append(@, f)]
           /\ Len(St.sent) < Buffer
    <2>1. St.sent \in Seq(FrameRecord)
        BY DEF NetInv, Stream
    <2>2. Len(Append(St.sent, f)) = Len(St.sent) + 1 /\ Len(St.sent) \in Nat
        BY <2>1
    <2>3. /\ Broadcast(net, f).stream.sent = Append(St.sent, f)
          /\ Broadcast(net, f).trouble = net.trouble
        BY <1>2 DEF NetInv, Stream
    <2> QED
        BY <1>2, <2>2, <2>3 DEF Bounds
<1> QED
    BY <1>1, <1>2 DEF Broadcast

\* The script and the server keep their limits, whatever the page does.
LEMMA ServerTyped ==
    ASSUME Bounds, Truth, TypesInv,
           \/ ScriptLine \/ ScriptEnds \/ Crash \/ ServeTrigger \/ NoteRunner \/ TailLine
           \/ FindMarker \/ GiveUp \/ Finish \/ FinishFiles \/ Restart
    PROVE  TypesInv'
<1> USE DEF TypesInv
<1>0. /\ db \in DbType /\ S \in Session /\ db.lines \in Nat /\ db.crashes \in Nat /\ NetInv
      /\ DbLimits /\ NetLimits /\ Len(NoStream.sent) = 0
    BY NoStreamType, NoFrames DEF Truth, DbInv, DbType
<1>1. ui' = ui
    BY DEF ScriptLine, ScriptEnds, Crash, ServeTrigger, NoteRunner, TailLine, FindMarker,
           GiveUp, Finish, FinishFiles, Restart
<1>2. DbLimits'
    <2>1. CASE ScriptLine
        BY <1>0, <2>1 DEF ScriptLine, DbType, DbLimits, Bounds
    <2>2. CASE Crash
        BY <1>0, <2>2 DEF Crash, DbType, DbLimits, Bounds
    <2>3. CASE ScriptEnds \/ ServeTrigger \/ NoteRunner \/ TailLine
        BY <1>0, <2>3 DEF ScriptEnds, ServeTrigger, NoteRunner, TailLine, DbType, DbLimits
    <2>4. CASE FindMarker \/ GiveUp \/ Finish \/ FinishFiles \/ Restart
        BY <1>0, <2>4 DEF FindMarker, GiveUp, Finish, FinishFiles, Restart, DbType, DbLimits
    <2> QED
        BY <2>1, <2>2, <2>3, <2>4
<1>3. NetLimits'
    <2>1. CASE ScriptLine \/ ScriptEnds \/ ServeTrigger \/ NoteRunner \/ FindMarker \/ Finish \/ Restart
        <3>1. net'.stream = net.stream /\ net'.trouble = net.trouble
            BY <1>0, <2>1
               DEF ScriptLine, ScriptEnds, ServeTrigger, NoteRunner, FindMarker, Finish, Restart, NetInv
        <3> QED
            BY <1>0, <3>1 DEF NetLimits
    <2>2. CASE Crash
        <3>1. net'.stream = NoStream /\ net'.trouble = net.trouble
            BY <1>0, <2>2 DEF Crash, NetInv
        <3> QED
            BY <1>0, <3>1 DEF NetLimits, Bounds
    <2>3. ASSUME NEW f \in FrameRecord, net' = Broadcast(net, f)
          PROVE  NetLimits'
        BY <1>0, <2>3, BroadcastFits DEF NetLimits
    <2>4. CASE TailLine
        <3> DEFINE r == [S EXCEPT !.read = @ + 1, !.end = (S.read + 1 = db.lines)]
                   s == Ingest(r, "line", S.read + 1)
        <3>1. r \in Session /\ S.read + 1 \in Nat \cup Outcome
            BY <1>0, ReadsOn
        <3>2. s.history[Len(s.history)] \in FrameRecord
            BY <3>1, Ingesting
        <3>3. net' = Broadcast(net, s.history[Len(s.history)])
            BY <2>4 DEF TailLine
        <3> QED
            BY <2>3, <3>2, <3>3
    <2>5. CASE GiveUp
        <3> DEFINE i == Ingest(S, "error", "none")
                   s == [i EXCEPT !.at = "ending", !.verdict = VerdictOf(S)]
        <3>1. i \in Session /\ i.history[Len(i.history)] \in FrameRecord
            BY <1>0, Ingesting DEF Outcome
        <3>2. s.history = i.history
            BY <3>1 DEF Session
        <3>3. net' = Broadcast(net, s.history[Len(s.history)])
            BY <2>5 DEF GiveUp
        <3> QED
            BY <2>3, <3>1, <3>2, <3>3
    <2>6. CASE FinishFiles
        <3> DEFINE q == Broadcast(net, S.done)
        <3>1. S.done \in FrameRecord
            BY <1>0 DEF Session
        <3>2. Len(q.stream.sent) <= Buffer /\ q.trouble = net.trouble
            BY <1>0, <3>1, BroadcastFits
        <3>3. net'.stream = q.stream /\ net'.trouble = q.trouble
            <4>1. {"stream", "trigger", "trouble"} \subseteq DOMAIN q
                BY <1>0 DEF NetInv, Broadcast
            <4>2. net' = [q EXCEPT !.trigger = IF @ = "sent" THEN "ok" ELSE @]
                BY <2>6 DEF FinishFiles
            <4> HIDE DEF q
            <4> QED
                BY <4>1, <4>2
        <3> QED
            BY <1>0, <3>2, <3>3 DEF NetLimits
    <2> QED
        BY <2>1, <2>2, <2>4, <2>5, <2>6
<1> QED
    BY <1>1, <1>2, <1>3

\* A subscription sends only where there is room.
LEMMA SubscriptionTyped ==
    ASSUME Bounds, Truth, TypesInv, Subscription
    PROVE  TypesInv'
<1>0. /\ St \in Stream /\ St.sent \in Seq(FrameRecord) /\ St.rest \in Seq(FrameRecord)
      /\ S.done \in FrameRecord /\ {"stream", "trigger", "trouble"} \subseteq DOMAIN net
      /\ Len(St.sent) \in Nat /\ Len(St.sent) <= Buffer
    BY DEF Truth, NetInv, DbInv, DbType, Session, Stream, TypesInv, NetLimits
<1>1. ui' = ui /\ db' = db /\ net'.trouble = net.trouble
    BY <1>0 DEF Subscription, Snapshot, Replay, AfterReplay, AfterDone, Send
<1>2. ASSUME NEW f, f \in FrameRecord, Len(St.sent) < Buffer, net'.stream.sent = Append(St.sent, f)
      PROVE  Len(net'.stream.sent) <= Buffer
    BY <1>0, <1>2 DEF Bounds
<1>3. Snapshot => TypesInv'
    <2>1. Snapshot => net'.stream.sent = St.sent
        BY <1>0, ZenonT(40) DEF Snapshot, Stream
    <2> QED
        BY <1>0, <1>1, <2>1 DEF TypesInv, NetLimits, DbLimits
<1>4. CASE Replay
    <2>1. Head(St.rest) \in FrameRecord
        BY <1>0, <1>4 DEF Replay
    <2>2. net'.stream.sent = Append(St.sent, Head(St.rest)) /\ Len(St.sent) < Buffer
        BY <1>0, <1>4 DEF Replay, Stream
    <2>3. Len(net'.stream.sent) <= Buffer
        BY <1>2, <2>1, <2>2
    <2> QED
        BY <1>1, <2>3 DEF TypesInv, NetLimits, DbLimits
<1>5. CASE AfterReplay \/ AfterDone
    <2>1. \/ net'.stream.sent = St.sent
          \/ net'.stream.sent = Append(St.sent, S.done) /\ Len(St.sent) < Buffer
        <3>1. \/ \E at \in {"live", "closed"} : net' = [net EXCEPT !.stream.at = at]
              \/ Send(S.done)
            BY <1>5, Zenon DEF AfterReplay, AfterDone
        <3>2. CASE Send(S.done)
            <4>1. /\ Len(St.sent) < Buffer
                  /\ net' = [net EXCEPT !.stream.sent = Append(@, S.done), !.stream.last = S.done.seq]
                BY <3>2 DEF Send
            <4> QED
                BY <1>0, <4>1 DEF Stream
        <3>3. ASSUME NEW at, net' = [net EXCEPT !.stream.at = at]
              PROVE  net'.stream.sent = St.sent
            BY <1>0, <3>3 DEF Stream
        <3> QED
            BY <3>1, <3>2, <3>3
    <2>2. Len(net'.stream.sent) <= Buffer
        BY <1>0, <1>2, <2>1
    <2> QED
        BY <1>1, <2>2 DEF TypesInv, NetLimits, DbLimits
<1> QED
    BY <1>3, <1>4, <1>5 DEF Subscription

\* The page retries, stops, follows.
LEMMA PageMoves ==
    ASSUME Bounds, NEW u \in PageType
    PROVE  Retry(u) \in PageType /\ Stop(u) \in PageType /\ Follow(u) \in PageType
<1>1. u.attempts \in 0 .. MaxAttempts
    BY DEF PageType
<1>2. Retry(u) \in PageType
    <2>1. CASE u.attempts >= MaxAttempts
        BY <2>1 DEF Retry, PageType
    <2>2. CASE ~(u.attempts >= MaxAttempts)
        <3>1. u.attempts + 1 \in 0 .. MaxAttempts
            BY <1>1, <2>2 DEF Bounds
        <3> QED
            BY <2>2, <3>1 DEF Retry, PageType
    <2> QED
        BY <2>1, <2>2
<1>3. Stop(u) \in PageType
    BY DEF Stop, PageType
<1>4. Follow(u) \in PageType
    <2>1. <<>> \in Seq(1 .. MaxLines) /\ 0 \in Nat /\ 0 \in 0 .. MaxAttempts
        BY DEF Bounds
    <2> QED
        BY <2>1 DEF Follow, PageType
<1> QED
    BY <1>2, <1>3, <1>4

\* A line that is shown is one the script has written.
LEMMA ReceiveTyped ==
    ASSUME Bounds, Truth, OrderInv, TypesInv, Receive
    PROVE  TypesInv'
<1> DEFINE f == Head(St.sent)
<1>0. /\ ui \in PageType /\ DbLimits /\ db.lines \in Nat /\ db' = db /\ NetLimits
      /\ St \in Stream /\ St.sent \in Seq(FrameRecord) /\ St.sent # <<>>
      /\ {"stream", "trigger", "trouble"} \subseteq DOMAIN net
    BY DEF Receive, Truth, NetInv, Stream, DbInv, DbType, TypesInv
<1>1. f \in FrameRecord /\ f = St.sent[1] /\ 1 \in 1 .. Len(St.sent)
    BY <1>0
<1> HIDE DEF f
<1>2. f.seq \in Nat
    BY <1>1 DEF FrameRecord
<1>3. IsLine(f) => f.of \in 1 .. MaxLines
    <2> SUFFICES ASSUME IsLine(f) PROVE f.of \in 1 .. MaxLines
        OBVIOUS
    <2>1. PICK i \in 1 .. Len(S.history) : S.history[i] = f
        BY <1>1 DEF OrderInv, SentInv, Known
    <2>2. f.of \in 1 .. S.read
        BY <2>1 DEF OrderInv, CountInv, Numbering
    <2>3. S.read <= db.lines /\ S.read \in Nat
        BY DEF OrderInv, CountInv, Truth, DbInv, DbType, Session
    <2>4. db.lines <= MaxLines /\ db.lines \in Nat /\ MaxLines \in Nat
        BY <1>0 DEF DbLimits, Bounds
    <2> QED
        BY <2>2, <2>3, <2>4
<1>4. ui' \in PageType
    <2>1. PICK u \in {ui, [ui EXCEPT !.attempts = 0]} :
             ui' = IF Takes(f) THEN Shown([u EXCEPT !.last = f.seq], f) ELSE u
        BY DEF Receive, f
    <2>2. u \in PageType
        <3>1. 0 \in 0 .. MaxAttempts
            BY DEF Bounds
        <3>2. [ui EXCEPT !.attempts = 0] \in PageType
            BY <1>0, <3>1 DEF PageType
        <3> QED
            BY <1>0, <2>1, <3>2
    <2> DEFINE v == [u EXCEPT !.last = f.seq]
    <2>3. v \in PageType
        BY <1>2, <2>2 DEF PageType
    <2> HIDE DEF v
    <2>4. CASE f.type = "line"
        <3>1. Append(v.log, f.of) \in Seq(1 .. MaxLines)
            BY <1>3, <2>3, <2>4 DEF IsLine, PageType
        <3>2. Shown(v, f) = [v EXCEPT !.log = Append(@, f.of)]
            BY <2>4 DEF Shown
        <3>3. Shown(v, f) \in PageType
            BY <2>3, <3>1, <3>2 DEF PageType
        <3> QED
            BY <2>1, <2>2, <3>3 DEF v
    <2>5. CASE f.type = "done"
        <3> DEFINE r == IF f.of = "ok" THEN "success" ELSE "failed"
        <3>1. Stop(v) \in PageType
            BY <2>3, PageMoves
        <3>2. Shown(v, f) = [Stop(v) EXCEPT !.result = r]
            BY <2>5 DEF Shown
        <3>3. Shown(v, f) \in PageType
            BY <3>1, <3>2 DEF PageType
        <3> QED
            BY <2>1, <2>2, <3>3 DEF v
    <2>6. CASE f.type # "line" /\ f.type # "done"
        BY <2>1, <2>2, <2>3, <2>6 DEF Shown, v
    <2> QED
        BY <2>4, <2>5, <2>6
<1>5. NetLimits'
    <2>1. \/ net' = [net EXCEPT !.stream = NoStream]
          \/ net' = [net EXCEPT !.stream.sent = Tail(@)]
        BY Zenon DEF Receive
    <2>2. /\ net'.trouble = net.trouble
          /\ \/ net'.stream = NoStream
             \/ net'.stream.sent = Tail(St.sent)
        BY <1>0, <2>1 DEF Stream
    <2>3. Len(NoStream.sent) <= Buffer
        BY NoStreamType, NoFrames DEF Bounds
    <2>4. Len(Tail(St.sent)) <= Buffer
        BY <1>0 DEF NetLimits, Bounds
    <2>5. Len(net'.stream.sent) <= Buffer
        BY <2>2, <2>3, <2>4
    <2> QED
        BY <1>0, <2>2, <2>5 DEF NetLimits
<1> QED
    BY <1>0, <1>4, <1>5 DEF TypesInv, DbLimits

\* The other steps of the page.
LEMMA PageTyped ==
    ASSUME Bounds, Truth, TypesInv,
           StartUpdate \/ Reopen \/ AnswerTrigger \/ Connect \/ Disconnect \/ Reconnect
    PROVE  TypesInv'
<1>0. /\ ui \in PageType /\ {"stream", "trigger", "trouble"} \subseteq DOMAIN net
      /\ Len(NoStream.sent) = 0 /\ NoStream \in Stream /\ net.trouble \in 0 .. MaxTrouble
      /\ Len([NoStream EXCEPT !.at = "new"].sent) = 0
    BY NoStreamType, NoFrames DEF Truth, NetInv, TypesInv, NetLimits, Stream
<1>1. DbLimits'
    <2>1. db' = db \/ db' = [db EXCEPT !.session = Rebuilt]
        BY Zenon DEF StartUpdate, Reopen, AnswerTrigger, Connect, Disconnect, Reconnect
    <2> QED
        BY <2>1 DEF TypesInv, DbLimits, Truth, DbInv, DbType
<1>2. /\ \/ net'.stream = net.stream \/ net'.stream = NoStream
         \/ net'.stream = [NoStream EXCEPT !.at = "new"]
      /\ \/ net'.trouble = net.trouble
         \/ net.trouble < MaxTrouble /\ net'.trouble = net.trouble + 1
    <2>1. CASE StartUpdate \/ AnswerTrigger \/ Reconnect
        BY <1>0, <2>1 DEF StartUpdate, AnswerTrigger, Reconnect
    <2>2. CASE Reopen
        BY <1>0, <2>2 DEF Reopen, Trouble, Troubled
    <2>3. CASE Connect
        BY <1>0, <2>3 DEF Connect, Trouble, Troubled
    <2>4. CASE Disconnect
        BY <1>0, <2>4 DEF Disconnect, Trouble, Troubled
    <2> QED
        BY <2>1, <2>2, <2>3, <2>4
<1>3. NetLimits'
    <2>1. Len(net'.stream.sent) <= Buffer
        <3>1. Len(St.sent) <= Buffer /\ 0 <= Buffer
            BY DEF TypesInv, NetLimits, Bounds
        <3> QED
            BY <1>0, <1>2, <3>1
    <2>2. net'.trouble \in 0 .. MaxTrouble
        BY <1>0, <1>2 DEF Bounds
    <2> QED
        BY <2>1, <2>2 DEF NetLimits
<1>4. ui' \in PageType
    <2>1. CASE StartUpdate
        BY <1>0, <2>1 DEF StartUpdate, PageType
    <2>2. CASE Reopen
        <3> DEFINE u == [NewPage EXCEPT !.saved = ui.saved]
        <3>1. u \in PageType
            BY <1>0, NewPageTyped DEF PageType
        <3>2. ui' = Follow(u) \/ ui' = u
            BY <2>2 DEF Reopen
        <3> HIDE DEF u
        <3> QED
            BY <3>1, <3>2, PageMoves
    <2>3. CASE AnswerTrigger
        <3>1. /\ [ui EXCEPT !.starting = FALSE] \in PageType
              /\ [ui EXCEPT !.starting = FALSE, !.saved = TRUE] \in PageType
            BY <1>0 DEF PageType
        <3> QED
            BY <2>3, <3>1, PageMoves DEF AnswerTrigger
    <2>4. CASE Connect
        <3>1. [ui EXCEPT !.auth = TRUE] \in PageType /\ [ui EXCEPT !.conn = "open"] \in PageType
            BY <1>0 DEF PageType
        <3> QED
            BY <1>0, <2>4, <3>1, PageMoves DEF Connect
    <2>5. CASE Disconnect
        BY <1>0, <2>5, PageMoves DEF Disconnect
    <2>6. CASE Reconnect
        <3>1. Stop(ui) \in PageType
            BY <1>0, PageMoves
        <3>2. /\ [Stop(ui) EXCEPT !.result = "failed"] \in PageType
              /\ [ui EXCEPT !.conn = "asking"] \in PageType
              /\ \A c \in {"refreshing", "asking"} :
                    [ui EXCEPT !.auth = FALSE, !.conn = c] \in PageType
            BY <1>0, <3>1 DEF PageType
        <3>3. (IF ui.auth THEN "refreshing" ELSE "asking") \in {"refreshing", "asking"}
            OBVIOUS
        <3> QED
            BY <2>6, <3>2, <3>3 DEF Reconnect
    <2> QED
        BY <2>1, <2>2, <2>3, <2>4, <2>5, <2>6
<1> QED
    BY <1>1, <1>3, <1>4 DEF TypesInv

LEMMA TypesStep ==
    ASSUME Bounds, Truth, OrderInv, TypesInv, [Next]_vars
    PROVE  TypesInv'
<1>1. CASE Next
    BY <1>1, ServerTyped, SubscriptionTyped, ReceiveTyped, PageTyped, Zenon DEF Next, Server, Page
<1>2. CASE UNCHANGED vars
    BY <1>2 DEF vars, TypesInv, NetLimits, DbLimits
<1> QED
    BY <1>1, <1>2

\* The page tries a connection again no more often than RECONNECT_ATTEMPTS, a subscription
\* never holds more frames than its channel, and every line shown is one the script wrote:
\* scheduleReconnect of the settings page, broadcastLocked and sendLocked of the server.
THEOREM UpdateTyped == Bounds /\ Spec => []TypeOK
<1> SUFFICES ASSUME Bounds PROVE Spec => []TypeOK
    OBVIOUS
<1>1. Init => UpdateInv /\ OrderInv /\ TypesInv
    BY UpdateInit, OrderInit, TypesInit
<1>2. UpdateInv /\ OrderInv /\ TypesInv /\ [Next]_vars => UpdateInv' /\ OrderInv' /\ TypesInv'
    BY UpdateStep, OrderStep, TypesStep DEF UpdateInv
<1>3. UpdateInv /\ OrderInv /\ TypesInv => TypeOK
    BY TypesHold DEF UpdateInv
<1> QED
    BY <1>1, <1>2, <1>3, PTL DEF Spec
=============================================================================
