----------------------------- MODULE RecordPage -----------------------------
(***************************************************************************)
(* What the list pages of the web interface have in common: a list loaded  *)
(* by useAsyncData or by hand, a detail drawer, forms, and handlers that   *)
(* send a write and then reload. RecordPages describes each page and each  *)
(* of its handlers; this module gives the descriptions their meaning,      *)
(* against a server that other users change too.                           *)
(*                                                                         *)
(* A record is abstracted to its version: the number of writes to it. The  *)
(* version of New counts the records created.                              *)
(***************************************************************************)
EXTENDS RecordPages, Naturals

CONSTANTS
    Row,         \* the records of the list
    MaxEvent     \* bound on what the user and others start: loads, details, handlers, writes

VARIABLES
    page,     \* the page that is mounted
    ui,       \* its reactive state
    net,      \* its requests: loads of the list, calls of handlers, details fetched
    db,       \* the server: the version of every record
    seen      \* history: own writes confirmed, events, whether loads overtook each other

vars == <<page, ui, net, db, seen>>

Slots == 1 .. MaxEvent            \* requests of one kind
Loads == 1 .. 1 + MaxEvent        \* the first load as well

P == PageOf[page]
Rec == Row \cup {New}
None == "none"
NoForm == [name |-> None, rec |-> None, base |-> 0]
NoCall == [name |-> None, rec |-> None, base |-> 0, read |-> 0, step |-> 0,
           at |-> "idle", ver |-> 0]
NoLoad == [at |-> "idle", query |-> 0, snap |-> [r \in Rec |-> 0]]
NoFetch == [at |-> "idle", rec |-> None]

TypeOK ==
    /\ page \in DOMAIN PageOf
    /\ ui.list \in [Rec -> Nat] /\ ui.newest \in Loads /\ ui.of \in 0 .. ui.newest
    /\ {ui.query, ui.asked, ui.listQuery} \subseteq {0, 1}
    /\ ui.loading \in BOOLEAN /\ ui.failed \in BOOLEAN
    /\ ui.open \in Row \cup {None} /\ ui.beside \in Row \cup {None}
    /\ ui.form.name \in {None} \cup {h.name : h \in P.handlers}
    /\ ui.flags \subseteq {h.flag : h \in P.handlers} \X (Rec \cup {"all"})
    /\ \A n \in Loads : net.load[n].at \in {"idle", "sent", "served", "lost", "done"}
    /\ \A c \in Slots : net.call[c].rec \in Rec \cup {None}
    /\ \A f \in Slots : net.fetch[f].rec \in Row \cup {None}
    /\ db \in [Rec -> Nat] /\ seen.own \in [Rec -> Nat]
-----------------------------------------------------------------------------
(* The list.                                                               *)

\* run() of useAsyncData and the load() of the pages that do without it: a new run
\* becomes the newest, whether or not an older one is still on its way. A detail in the
\* place of the list is cleared.
StartsLoad(u, q) ==
    /\ ui' = [u EXCEPT !.newest = @ + 1, !.loading = TRUE, !.failed = FALSE, !.asked = u.query,
                       !.open = IF P.detail = "screen" THEN None ELSE @,
                       !.shown = IF P.detail = "screen" THEN 0 ELSE @]
    /\ net' = [q EXCEPT !.load[u.newest + 1] = [NoLoad EXCEPT !.at = "sent", !.query = u.query]]
Event == seen.events < MaxEvent /\ seen' = [seen EXCEPT !.events = @ + 1]

\* onMounted, or the immediate option.
Init ==
    /\ page \in DOMAIN PageOf
    /\ ui = [list |-> [r \in Rec |-> 0], listQuery |-> 0, of |-> 0, newest |-> 1,
             loading |-> TRUE, failed |-> FALSE, query |-> 0, asked |-> 0,
             open |-> None, shown |-> 0, beside |-> None, form |-> NoForm, flags |-> {}]
    /\ net = [load |-> [n \in Loads |-> IF n = 1 THEN [NoLoad EXCEPT !.at = "sent"] ELSE NoLoad],
              call |-> [c \in Slots |-> NoCall], fetch |-> [f \in Slots |-> NoFetch]]
    /\ db = [r \in Rec |-> 0]
    /\ seen = [own |-> [r \in Rec |-> 0], events |-> 0, crossed |-> FALSE]

\* A filter is changed that the next load takes, whatever starts it.
EditFilter ==
    /\ P.searches
    /\ ui' = [ui EXCEPT !.query = 1 - @]
    /\ UNCHANGED <<page, net, db, seen>>

\* onFilter, a tab, a page of the pagination, a watched project: the query changes and
\* the list is loaded.
ChangeQuery ==
    /\ P.queries /\ (P.detail = "screen" => ui.open = None)
    /\ Event /\ StartsLoad([ui EXCEPT !.query = 1 - @], net)
    /\ UNCHANGED <<page, db>>

\* The refresh or search button, the retry of an error, a poll.
Reload == P.reloads /\ Event /\ StartsLoad(ui, net) /\ UNCHANGED <<page, db>>

ServeLoad(n) ==
    /\ net.load[n].at = "sent"
    /\ \/ net' = [net EXCEPT !.load[n].at = "served", !.load[n].snap = db]
       \/ net' = [net EXCEPT !.load[n].at = "lost"]
    /\ UNCHANGED <<page, ui, db, seen>>

\* current === seq: an answer counts when no newer run has started. The pages without
\* useAsyncData take every answer. What a guarded loader itself writes before it returns,
\* the total and the thumbnails, is not part of the list.
TakesAnyAnswer(n) == TRUE
TakesAnswer(n) == P.guarded => n = ui.newest

AnswerLoad(n) ==
    LET a == net.load[n] IN
    /\ a.at \in {"served", "lost"}
    /\ net' = [net EXCEPT !.load[n] = [NoLoad EXCEPT !.at = "done"]]
    /\ ui' = IF ~TakesAnswer(n) THEN ui
             ELSE IF a.at = "served"
             THEN [ui EXCEPT !.list = a.snap, !.listQuery = a.query, !.of = n, !.loading = FALSE,
                             !.failed = n # ui.newest /\ @]
             ELSE [ui EXCEPT !.loading = FALSE, !.failed = (n = ui.newest) \/ @]
    /\ seen' = [seen EXCEPT !.crossed = @ \/ n # ui.newest]
    /\ UNCHANGED <<page, db>>
-----------------------------------------------------------------------------
(* The detail.                                                             *)

Fetch(q, r) ==
    LET f == CHOOSE f \in Slots : q.fetch[f].at = "idle" /\ \A g \in 1 .. f - 1 : q.fetch[g].at # "idle" IN
    [q EXCEPT !.fetch[f] = [at |-> "sent", rec |-> r]]

FetchedFirst == P.detail \in {"fetch", "screen"}

\* open(row): a page shows the row at once, fetches it first, or shows it at once and
\* fetches what belongs beside it.
Open(r) ==
    /\ P.detail # None /\ ui.of > 0 /\ ui.form = NoForm /\ Event
    /\ P.detail = "screen" => ui.open = None
    /\ ui' = IF FetchedFirst THEN ui
             ELSE [ui EXCEPT !.open = r, !.shown = ui.list[r], !.beside = None]
    /\ net' = IF P.detail = "row" THEN net ELSE Fetch(net, r)
    /\ UNCHANGED <<page, db>>

\* Neither fetch looks whether another record was opened meanwhile.
AnswerFetch(f) ==
    LET a == net.fetch[f] IN
    /\ a.at = "sent"
    /\ net' = [net EXCEPT !.fetch[f] = [NoFetch EXCEPT !.at = "done"]]
    /\ \/ ui' = IF FetchedFirst THEN [ui EXCEPT !.open = a.rec, !.shown = db[a.rec]]
                ELSE [ui EXCEPT !.beside = a.rec]
       \/ ui' = ui
    /\ UNCHANGED <<page, db, seen>>

CloseDrawer ==
    /\ ui.open # None /\ ui.form = NoForm
    /\ ui' = [ui EXCEPT !.open = None, !.shown = 0]
    /\ UNCHANGED <<page, net, db, seen>>
-----------------------------------------------------------------------------
(* Handlers.                                                               *)

\* What a handler may be started on: a row of the list, the open detail, a form's
\* record, or nothing yet. Some buttons go by the status the user is shown.
Offered(h, shown) == h.first => shown = 0
Listed(h) == IF ui.of = 0 THEN {} ELSE {r \in Row : Offered(h, ui.list[r])}
Targets(h) ==
    CASE h.from = "form" -> IF ui.form.name = h.name THEN {ui.form.rec} ELSE {}
      [] ui.form # NoForm -> {}
      [] h.from = "row" -> Listed(h)
      [] h.from = "drawer" -> IF ui.open # None /\ Offered(h, ui.shown) THEN {ui.open} ELSE {}
      [] OTHER -> {New}

\* The button that opens the dialog of a handler copies the row into the form.
OpenForm(h) ==
    /\ h.from = "form" /\ ui.form = NoForm
    /\ \E r \in IF h.creates THEN {New} ELSE Listed(h) :
          ui' = [ui EXCEPT !.form = [name |-> h.name, rec |-> r, base |-> ui.list[r]]]
    /\ UNCHANGED <<page, net, db, seen>>

\* A dialog can be closed at any time, also while its call is on its way.
CloseForm ==
    /\ ui.form # NoForm
    /\ ui' = [ui EXCEPT !.form = NoForm]
    /\ UNCHANGED <<page, net, db, seen>>

\* The loading state of a button disables it. A flag is one for all that use it, or
\* holds the row it is about.
FlagKey(h, r) == <<h.flag, IF h.perRow THEN r ELSE "all">>
Enabled(h, r) == h.flag = "" \/ FlagKey(h, r) \notin ui.flags
Raised(h, r, flags) ==
    IF h.flag = "" THEN flags ELSE {k \in flags : k[1] # h.flag} \cup {FlagKey(h, r)}
Lowered(h, flags) == {k \in flags : k[1] # h.flag}

\* The version the user was shown, and the version the call names as the one it is based
\* on: the updated_at copied into the form when it was opened.
Read(h, r) == IF h.from = "form" THEN ui.form.base ELSE ui.list[r]
NamesListed(h, r) == ui.list[r]
Base(h, r) == Read(h, r)

\* The user presses the button; a question may come before the call.
Press(h, c) ==
    /\ net.call[c].at = "idle" /\ \A d \in 1 .. c - 1 : net.call[d].at # "idle"
    /\ Event /\ \A d \in Slots : net.call[d].at # "asking"
    /\ \E r \in Targets(h) :
          /\ Enabled(h, r)
          /\ net' = [net EXCEPT !.call[c] = [name |-> h.name, rec |-> r, base |-> Base(h, r),
                                             read |-> Read(h, r), step |-> 1, ver |-> 0,
                                             at |-> IF h.asks THEN "asking" ELSE "sent"]]
          /\ ui' = IF h.asks THEN ui
                   ELSE [ui EXCEPT !.flags = Raised(h, r, @), !.form = IF h.early THEN NoForm ELSE @]
    /\ UNCHANGED <<page, db>>

\* ElMessageBox.confirm resolves, or rejects and the handler returns.
Confirm(h, c) ==
    LET a == net.call[c] IN
    /\ a.name = h.name /\ a.at = "asking"
    /\ \/ /\ net' = [net EXCEPT !.call[c].at = "sent"]
          /\ ui' = [ui EXCEPT !.flags = Raised(h, a.rec, @)]
       \/ /\ net' = [net EXCEPT !.call[c] = [NoCall EXCEPT !.at = "done"]]
          /\ ui' = IF h.drafts THEN [ui EXCEPT !.flags = Lowered(h, @)] ELSE ui
    /\ UNCHANGED <<page, db, seen>>

\* The server accepts or refuses the call, or its answer is lost. An update that names
\* the version it started from is accepted on that version only.
AcceptsStale(h, a) == TRUE
Accepts(h, a) == /\ h.checks => a.base = db[a.rec]
                 /\ h.first => db[a.rec] = 0

Written(h, a) == IF h.drafts /\ a.step = 1 THEN 0 ELSE 1

ServeCall(h, c) ==
    LET a == net.call[c] IN
    /\ a.name = h.name /\ a.at = "sent"
    /\ \/ /\ Accepts(h, a)
          /\ db' = [db EXCEPT ![a.rec] = @ + Written(h, a)]
          /\ \E answer \in {"ok", "refused"} :
                net' = [net EXCEPT !.call[c].at = answer, !.call[c].ver = db'[a.rec]]
       \/ net' = [net EXCEPT !.call[c].at = "refused"] /\ db' = db
    /\ UNCHANGED <<page, ui, seen>>

\* What a handler does after its last call has succeeded, and after a failure.
Done(h, a, u) ==
    [u EXCEPT !.flags = Lowered(h, @),
              !.form = IF h.closes /\ u.form.name = h.name THEN NoForm ELSE @,
              !.open = IF h.leaves THEN None ELSE IF h.shows THEN a.rec ELSE @,
              !.shown = IF h.leaves THEN 0 ELSE IF h.shows THEN a.ver ELSE @]
Settled(q, c) == [q EXCEPT !.call[c] = [NoCall EXCEPT !.at = "done"]]
Reopens(h, a, q) == IF h.reopens THEN Fetch(q, a.rec) ELSE q

ReloadsOnFailureOnly(h) == h.anyway
ReloadsAfter(h) == h.reloads

Succeed(h, c) ==
    LET a == net.call[c] IN
    /\ a.name = h.name
    /\ a.at = "ok" \/ (a.at = "refused" /\ h.tolerates /\ a.step = h.calls /\ a.step > 1)
    /\ IF a.step < h.calls
       THEN /\ net' = [net EXCEPT !.call[c].at = IF h.drafts THEN "asking" ELSE "sent",
                                  !.call[c].step = @ + 1]
            /\ UNCHANGED <<ui, seen>>
       ELSE /\ seen' = [seen EXCEPT !.own[a.rec] = IF h.listed /\ a.ver > @ THEN a.ver ELSE @]
            /\ IF ReloadsAfter(h)
               THEN StartsLoad(Done(h, a, ui), Reopens(h, a, Settled(net, c)))
               ELSE ui' = Done(h, a, ui) /\ net' = Reopens(h, a, Settled(net, c))
    /\ UNCHANGED <<page, db>>

\* finally { loading = false }
Fail(h, c) ==
    LET a == net.call[c]  u == [ui EXCEPT !.flags = Lowered(h, @)] IN
    /\ a.name = h.name /\ a.at = "refused" /\ ~(h.tolerates /\ a.step = h.calls)
    /\ IF h.anyway THEN StartsLoad(u, Settled(net, c))
       ELSE ui' = u /\ net' = Settled(net, c)
    /\ UNCHANGED <<page, db, seen>>

\* Another user writes a record.
Foreign(r) ==
    /\ Event
    /\ db' = [db EXCEPT ![r] = @ + 1]
    /\ UNCHANGED <<page, ui, net>>

Handle(h) ==
    \/ OpenForm(h)
    \/ \E c \in Slots : \/ Press(h, c) \/ Confirm(h, c) \/ ServeCall(h, c)
                        \/ Succeed(h, c) \/ Fail(h, c)

Next ==
    \/ EditFilter \/ ChangeQuery \/ Reload \/ CloseDrawer \/ CloseForm
    \/ \E n \in Loads : ServeLoad(n) \/ AnswerLoad(n)
    \/ \E r \in Row : Open(r) \/ Foreign(r)
    \/ \E f \in Slots : AnswerFetch(f)
    \/ \E h \in P.handlers : Handle(h)

Spec == Init /\ [][Next]_vars
-----------------------------------------------------------------------------
Pending(q) == q.at \notin {"idle", "done"}
Quiet == (\A n \in Loads : ~Pending(net.load[n])) /\ (\A c \in Slots : ~Pending(net.call[c]))

\* When nothing is on its way and the last load has not failed, the list answers the last
\* query asked, which is the one on the screen unless a filter waits for a search, and
\* shows every write of this user that was confirmed. Excepted are the pages that load by
\* hand when two of their loads overtook each other.
ListKeepsUp ==
    Quiet /\ ~ui.failed /\ (P.guarded \/ ~seen.crossed) =>
        /\ ui.listQuery = ui.asked
        /\ P.searches \/ ui.asked = ui.query
        /\ \A r \in Rec : ui.list[r] >= seen.own[r]

\* The edit of a todo is never accepted over a change its author was not shown.
EditsTheLatest ==
    \A c \in Slots : \A h \in P.handlers :
        /\ h.checks /\ net.call[c].name = h.name /\ net.call[c].at = "sent"
        /\ net'.call[c] # net.call[c] /\ db'[net.call[c].rec] > db[net.call[c].rec]
        => db[net.call[c].rec] = net.call[c].read
EditSeesTheLatest == [][EditsTheLatest]_vars
=============================================================================
