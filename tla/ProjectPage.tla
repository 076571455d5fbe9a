----------------------------- MODULE ProjectPage -----------------------------
(***************************************************************************)
(* The dashboard of a project: its members, their roles and the stages of  *)
(* the project, with the transactions of the server that change them.      *)
(*                                                                         *)
(* The page stays mounted while the address changes from one project to    *)
(* another; a second administrator works on the same projects.             *)
(***************************************************************************)
EXTENDS Naturals, FiniteSets

CONSTANTS
    Project,        \* projects the user may go to
    User,           \* users that may be members
    Me,             \* the user of the page
    MaxEvent        \* bound on what the users start and on the failures

VARIABLES
    ui,             \* the state of the component and of the project store
    net,            \* its requests, and those of the other administrator
    db              \* members, stages and unresolved issues

vars == <<ui, net, db>>

None == "none"
Role == {"owner", "member"}
Membership == [User -> Role \cup {None}]
Stage == {"draft", "active", "completed", "archived"}
Owners(members) == {u \in User : members[u] = "owner"}

\* NEXT_ACTIONS and BACK_ACTIONS, and targetStatus of the server, which knows the same.
Moves == {[action |-> "activate", from |-> "draft", to |-> "active"],
          [action |-> "complete", from |-> "active", to |-> "completed"],
          [action |-> "archive", from |-> "completed", to |-> "archived"],
          [action |-> "deactivate", from |-> "active", to |-> "draft"],
          [action |-> "reopen", from |-> "completed", to |-> "active"]}
BackActions == {"deactivate", "reopen"}

Slot == {"member", "remove", "stage", "theirs"}
NoCall == [at |-> "idle", op |-> None, of |-> None, user |-> None, role |-> None,
           to |-> None]
\* The dialog adds a member, or changes the role of the member editingMember names.
NoDialog == [open |-> FALSE, user |-> None, role |-> None]
AddDialog == [NoDialog EXCEPT !.open = TRUE]
Closed(dialog) == [dialog EXCEPT !.open = FALSE]
NoPending == [action |-> None, count |-> None]

TypeOK ==
    /\ ui.route \in Project \cup {None} /\ ui.of \in Project
    /\ ui.members \in Membership /\ ui.dialog.open \in BOOLEAN
    /\ ui.dialog.user \in User \cup {None} /\ ui.dialog.role \in Role \cup {None}
    /\ ui.asked \in User \cup {None} /\ ui.saving \in BOOLEAN /\ ui.switching \in BOOLEAN
    /\ ui.status \in [Project -> Stage]
    /\ ui.pending.count \in {None, "clean", "issues"}
    /\ \A c \in Slot : net.call[c].at \in {"idle", "sent", "locked", "counted", "read", "ok", "refused"}
    /\ net.events \in 0 .. MaxEvent
    /\ db.members \in [Project -> Membership] /\ db.status \in [Project -> Stage]
    /\ db.issues \in [Project -> BOOLEAN]

Event == net.events < MaxEvent
Spent(q) == [q EXCEPT !.events = @ + 1]

\* The user, an administrator or not, owns every project.
Init ==
    /\ \E route \in Project, admin \in BOOLEAN, members \in {m \in Membership : m[Me] = "owner"},
         issues \in BOOLEAN :
          /\ ui = [route |-> route, admin |-> admin, of |-> route, members |-> [u \in User |-> None],
                   users |-> FALSE, dialog |-> NoDialog, asked |-> None, saving |-> FALSE,
                   pending |-> NoPending, switching |-> FALSE, late |-> FALSE,
                   status |-> [p \in Project |-> "active"]]
          /\ net = [load |-> {[of |-> route, after |-> None]}, users |-> FALSE, count |-> {},
                    store |-> FALSE, leaving |-> FALSE, call |-> [c \in Slot |-> NoCall], events |-> 0,
                    demoted |-> {}]
          /\ db = [members |-> [p \in Project |-> members],
                   status |-> [p \in Project |-> "active"],
                   issues |-> [p \in Project |-> issues]]
-----------------------------------------------------------------------------
(* Loading.                                                                *)

\* watch(projectId): everything of the old project is dropped but a question about a
\* removal, the stage dialog and what is on its way.
Go(p) ==
    /\ ui.route # None /\ p # ui.route /\ Event
    /\ ui' = [ui EXCEPT !.route = p, !.of = p, !.members = [u \in User |-> None],
                        !.dialog = NoDialog]
    /\ net' = [Spent(net) EXCEPT !.load = @ \cup {[of |-> p, after |-> None]}]
    /\ UNCHANGED db

\* id !== projectId.value: the answer of the watch counts for its own project only, while
\* the lists fetched after a write are taken as they come.
TakesEveryAnswer(m) == TRUE
TakesMembers(m) == m.after # None \/ m.of = ui.route

\* PermRead of the routes below a project: an administrator, or a member of it.
MayRead(p) == ui.admin \/ db.members[p][Me] # None

\* A list that is refused or lost changes nothing, and the handler that asked for it
\* stops here: the user who removed themselves leaves only with a list.
AnswerMembers(m) ==
    /\ m \in net.load
    /\ \E arrives \in BOOLEAN :
          /\ IF MayRead(m.of) THEN arrives \/ Event ELSE ~arrives
          /\ net' = [net EXCEPT !.load = @ \ {m},
                                !.leaving = @ \/ (arrives /\ m.after = "leave"),
                                !.events = IF MayRead(m.of) /\ ~arrives THEN @ + 1 ELSE @]
          /\ LET done == [ui EXCEPT !.saving = IF m.after = "member" THEN FALSE ELSE @] IN
             ui' = IF arrives /\ TakesMembers(m)
                   THEN [done EXCEPT !.members = db.members[m.of], !.of = m.of,
                                     !.late = @ \/ (m.after # None /\ m.of # ui.route)]
                   ELSE done
    /\ UNCHANGED db

\* projects.load() after a transition.
AnswerStore ==
    /\ net.store
    /\ net' = [net EXCEPT !.store = FALSE]
    /\ ui' = [ui EXCEPT !.status = db.status]
    /\ UNCHANGED db
-----------------------------------------------------------------------------
(* Members.                                                                *)

CanManage == ui.admin \/ ui.members[Me] = "owner"
IsLastOwner(u) == Owners(ui.members) = {u}

\* openAddMember: an administrator's first dialog waits for the list of users, and opens
\* whatever project is shown by then.
OpenAdd ==
    /\ ui.route # None /\ CanManage /\ ~ui.dialog.open /\ Event
    /\ IF ui.admin /\ ~ui.users
       THEN net' = [Spent(net) EXCEPT !.users = TRUE] /\ ui' = [ui EXCEPT !.dialog = NoDialog]
       ELSE net' = Spent(net) /\ ui' = [ui EXCEPT !.dialog = AddDialog]
    /\ UNCHANGED db

\* memberDialog = true, with whatever member was chosen for the dialog meanwhile.
AnswerUsers ==
    /\ net.users
    /\ net' = [net EXCEPT !.users = FALSE]
    /\ ui' = [ui EXCEPT !.users = TRUE, !.dialog.open = TRUE]
    /\ UNCHANGED db

OpenEdit(u) ==
    /\ ui.route # None /\ CanManage /\ ~ui.dialog.open /\ ui.members[u] # None /\ Event
    /\ ui' = [ui EXCEPT !.dialog = [open |-> TRUE, user |-> u, role |-> ui.members[u]]]
    /\ net' = Spent(net) /\ UNCHANGED db

CloseDialog ==
    /\ ui.dialog.open
    /\ ui' = [ui EXCEPT !.dialog = Closed(@)] /\ UNCHANGED <<net, db>>

\* submitMember: an administrator adds one of availableUsers, others type an identifier;
\* an edit must change the role. Both go to the project that is shown.
Mode == IF ui.dialog.user = None THEN "add" ELSE "edit"
Candidate(u) == IF Mode = "edit" THEN u = ui.dialog.user
                ELSE ui.admin => ui.members[u] = None

Submit(u, role) ==
    /\ ui.dialog.open /\ ~ui.saving /\ ui.route # None
    /\ Candidate(u) /\ role # ui.dialog.role
    /\ net' = [net EXCEPT !.call["member"] = [NoCall EXCEPT !.at = "sent", !.op = Mode,
                                                !.of = ui.route, !.user = u, !.role = role]]
    /\ ui' = [ui EXCEPT !.saving = TRUE]
    /\ UNCHANGED db

\* remove(member) asks first; the project is read after the answer.
AskRemove(u) ==
    /\ ui.route # None /\ CanManage /\ ui.members[u] # None /\ ~IsLastOwner(u)
    /\ ui.asked = None /\ net.call["remove"].at = "idle" /\ Event
    /\ ui' = [ui EXCEPT !.asked = u] /\ net' = Spent(net) /\ UNCHANGED db

ConfirmRemove(yes) ==
    /\ ui.asked # None
    /\ ui' = [ui EXCEPT !.asked = None]
    /\ net' = IF yes /\ ui.route # None
              THEN [net EXCEPT !.call["remove"] = [NoCall EXCEPT !.at = "sent", !.op = "remove",
                                                    !.of = ui.route, !.user = ui.asked]]
              ELSE net
    /\ UNCHANGED db

\* After a write the members are fetched again, also by users who removed themselves.
MemberDone ==
    LET a == net.call["member"] IN
    /\ a.at = "ok"
    /\ ui' = [ui EXCEPT !.dialog = Closed(@)]
    /\ net' = [net EXCEPT !.call["member"] = NoCall,
                          !.load = @ \cup {[of |-> a.of, after |-> "member"]}]
    /\ UNCHANGED db

RemoveDone ==
    LET a == net.call["remove"] IN
    /\ a.at = "ok"
    /\ net' = [net EXCEPT !.call["remove"] = NoCall,
                          !.load = IF ui.route = None THEN @
                                   ELSE @ \cup {[of |-> ui.route,
                                                 after |-> IF a.user = Me THEN "leave" ELSE "remove"]}]
    /\ UNCHANGED <<ui, db>>

\* store.load() and router.push('/projects'), which a failure of the load prevents.
Leave ==
    /\ net.leaving
    /\ \/ /\ ui' = [ui EXCEPT !.route = None, !.dialog = NoDialog, !.status = db.status]
          /\ net' = [net EXCEPT !.leaving = FALSE]
       \/ Event /\ ui' = ui /\ net' = [Spent(net) EXCEPT !.leaving = FALSE]
    /\ UNCHANGED db

WriteRefused(c) ==
    /\ c \in {"member", "remove", "stage"} /\ net.call[c].at = "refused"
    /\ net' = [net EXCEPT !.call[c] = NoCall]
    /\ ui' = CASE c = "member" -> [ui EXCEPT !.saving = FALSE]
               [] c = "stage" -> [ui EXCEPT !.switching = FALSE]
               [] OTHER -> ui
    /\ UNCHANGED db
-----------------------------------------------------------------------------
(* The server's transactions on members.                                   *)

\* RequireProjectPermission looks the sender up when the request comes in.
Permitted(c) ==
    c = "theirs" \/ ui.admin \/ db.members[net.call[c].of][Me] = "owner"

To(c, at) == net' = [net EXCEPT !.call[c].at = at]

\* SELECT ... FOR UPDATE on the project.
LockIsFree(p) == TRUE
MayLock(p) == \A d \in Slot : net.call[d].of = p => net.call[d].at \notin {"locked", "counted"}

\* addMember: INSERT ... ON CONFLICT DO UPDATE SET role, in one statement. The foreign key
\* of a new row waits for the lock of the project, the row of a member does not.
ServeAdd(c) ==
    LET a == net.call[c] IN
    /\ a.at = "sent" /\ a.op = "add"
    /\ IF Permitted(c)
       THEN /\ db.members[a.of][a.user] = None => MayLock(a.of)
            /\ db' = [db EXCEPT !.members[a.of][a.user] = a.role]
            /\ net' = [net EXCEPT !.call[c].at = "ok",
                                  !.demoted = IF db.members[a.of][a.user] = "owner" /\ a.role # "owner"
                                              THEN @ \cup {a.of} ELSE @]
       ELSE To(c, "refused") /\ db' = db
    /\ UNCHANGED ui

LockProject(c) ==
    LET a == net.call[c] IN
    /\ a.at = "sent" /\ a.op \in {"edit", "remove"}
    /\ IF Permitted(c) THEN MayLock(a.of) /\ To(c, "locked") ELSE To(c, "refused")
    /\ UNCHANGED <<ui, db>>

\* An owner who is demoted or removed must not be the only one.
TakesLastOwner(a) ==
    /\ db.members[a.of][a.user] = "owner" /\ a.role # "owner"
    /\ Cardinality(Owners(db.members[a.of])) <= 1

CountOwners(c) ==
    LET a == net.call[c] IN
    /\ a.at = "locked"
    /\ To(c, IF db.members[a.of][a.user] = None \/ TakesLastOwner(a) THEN "refused" ELSE "counted")
    /\ UNCHANGED <<ui, db>>

WriteMember(c) ==
    LET a == net.call[c] IN
    /\ a.at = "counted"
    /\ db' = [db EXCEPT !.members[a.of][a.user] = IF a.op = "remove" THEN None ELSE a.role]
    /\ To(c, "ok") /\ UNCHANGED ui

\* The other administrator's requests, and what others do to the issues.
Others ==
    \/ /\ Event /\ net.call["theirs"].at \in {"idle", "ok", "refused"}
       /\ \E op \in {"edit", "remove"}, p \in Project, u \in User :
             net' = [Spent(net) EXCEPT !.call["theirs"] =
                        [NoCall EXCEPT !.at = "sent", !.op = op, !.of = p, !.user = u,
                                       !.role = IF op = "edit" THEN "member" ELSE None]]
       /\ UNCHANGED <<ui, db>>
    \/ /\ Event
       /\ \E p \in Project : db' = [db EXCEPT !.issues[p] = ~@]
       /\ net' = Spent(net) /\ UNCHANGED ui
-----------------------------------------------------------------------------
(* Stages.                                                                 *)

\* openTransition for nextAction or backAction of the stage shown; before "complete" the
\* unresolved issues are counted for the dialog.
OpenStage(m) ==
    /\ ui.route # None /\ ui.pending = NoPending /\ Event
    /\ m.from = ui.status[ui.route] /\ (m.action \in BackActions => ui.admin)
    /\ ui' = [ui EXCEPT !.pending = [NoPending EXCEPT !.action = m.action]]
    /\ net' = [Spent(net) EXCEPT !.count = IF m.action = "complete" THEN @ \cup {ui.route} ELSE @]
    /\ UNCHANGED db

\* The count is shown in a dialog that is still open on the same project; a failed count
\* shows nothing.
AnswerCount(p) ==
    /\ p \in net.count
    /\ net' = [net EXCEPT !.count = @ \ {p}]
    /\ \/ ui' = IF p = ui.route /\ ui.pending # NoPending
                THEN [ui EXCEPT !.pending.count = IF db.issues[p] THEN "issues" ELSE "clean"]
                ELSE ui
       \/ ui' = ui
    /\ UNCHANGED db

CloseStage ==
    /\ ui.pending # NoPending
    /\ ui' = [ui EXCEPT !.pending = NoPending] /\ UNCHANGED <<net, db>>

\* confirmTransition: "complete" always carries ignore_warnings, and the project is the
\* one that is current when the user confirms.
IgnoresWarnings(action) == action = "complete"

ConfirmStage ==
    /\ ui.pending # NoPending /\ ~ui.switching /\ ui.route # None
    /\ ui' = [ui EXCEPT !.switching = TRUE]
    /\ net' = [net EXCEPT !.call["stage"] =
                  [NoCall EXCEPT !.at = "sent", !.op = ui.pending.action, !.of = ui.route]]
    /\ UNCHANGED db

\* TransitionStatus reads the status, checks it, the sender and the issues, and writes the
\* new status in a statement of its own, which waits for the lock.
ReadStage ==
    LET a == net.call["stage"] IN
    /\ a.at = "sent"
    /\ \E m \in Moves :
          /\ m.action = a.op
          /\ IF /\ db.status[a.of] = m.from
                /\ Permitted("stage") /\ (m.action \in BackActions => ui.admin)
                /\ (m.action = "complete" /\ db.issues[a.of] => IgnoresWarnings(m.action))
             THEN net' = [net EXCEPT !.call["stage"] = [@ EXCEPT !.at = "read", !.to = m.to]]
             ELSE To("stage", "refused")
    /\ UNCHANGED <<ui, db>>

WriteStage ==
    LET a == net.call["stage"] IN
    /\ a.at = "read" /\ MayLock(a.of)
    /\ db' = [db EXCEPT !.status[a.of] = a.to]
    /\ To("stage", "ok") /\ UNCHANGED ui

StageDone ==
    /\ net.call["stage"].at = "ok"
    /\ ui' = [ui EXCEPT !.pending = NoPending, !.switching = FALSE]
    /\ net' = [net EXCEPT !.call["stage"] = NoCall, !.store = TRUE]
    /\ UNCHANGED db
-----------------------------------------------------------------------------
Serve(c) == ServeAdd(c) \/ LockProject(c) \/ CountOwners(c) \/ WriteMember(c)

Next ==
    \/ \E p \in Project : Go(p) \/ AnswerCount(p)
    \/ \E m \in net.load : AnswerMembers(m)
    \/ AnswerStore \/ OpenAdd \/ AnswerUsers \/ CloseDialog \/ MemberDone \/ RemoveDone
    \/ Leave
    \/ \E u \in User : OpenEdit(u) \/ AskRemove(u) \/ \E role \in Role : Submit(u, role)
    \/ \E yes \in BOOLEAN : ConfirmRemove(yes)
    \/ \E c \in Slot : WriteRefused(c) \/ Serve(c)
    \/ \E m \in Moves : OpenStage(m)
    \/ CloseStage \/ ConfirmStage \/ ReadStage \/ WriteStage \/ StageDone \/ Others

Spec == Init /\ [][Next]_vars
-----------------------------------------------------------------------------
\* The members shown are those of the project shown, unless a write to the members of
\* another project was finished after the user had gone on: then its list replaces them.
MembersAreOfTheRoute == ui.route # None /\ ~ui.late => ui.of = ui.route

\* Two administrators who demote and remove at the same time never leave a project
\* without an owner: only the addition of an owner in another role does.
OwnersAreCounted ==
    \A p \in Project : Owners(db.members[p]) = {} => p \in net.demoted

\* "A project needs at least one owner", says the error of the server.
OwnerRemains == \A p \in Project : Owners(db.members[p]) # {}
=============================================================================
