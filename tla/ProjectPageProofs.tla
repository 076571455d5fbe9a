-------------------------- MODULE ProjectPageProofs --------------------------
(***************************************************************************)
(* What holds of the members of a project for any projects, users and      *)
(* events: demotions and removals, whoever asks for them and however they  *)
(* interleave, never take the last owner.                                  *)
(***************************************************************************)
EXTENDS ProjectPage, FiniteSetTheorems, TLAPS

\* The user of the page is one of finitely many users.
Users == Me \in User /\ IsFiniteSet(User)

-----------------------------------------------------------------------------
(* The invariant.                                                          *)

At == {"idle", "sent", "locked", "counted", "read", "ok", "refused"}
StageAction == {"activate", "complete", "archive", "deactivate", "reopen"}
Op == {None, "add", "edit", "remove"} \cup StageAction
CallRecord == [at : At, op : Op, of : Project \cup {None}, user : User \cup {None},
               role : Role \cup {None}, to : Stage \cup {None}]

\* What the page fills into its requests is a project, a user and an action.
UiInv ==
    /\ {"route", "asked", "pending"} \subseteq DOMAIN ui
    /\ ui.route \in Project \cup {None}
    /\ ui.asked \in User \cup {None}
    /\ "action" \in DOMAIN ui.pending
    /\ ui.pending.action \in StageAction \cup {None}

NetInv ==
    /\ {"call", "demoted"} \subseteq DOMAIN net
    /\ net.call \in [Slot -> CallRecord]

DbInv ==
    /\ "members" \in DOMAIN db
    /\ db.members \in [Project -> Membership]

\* A request on members names a project and a user, and only such requests take the lock.
Busy(a) == a.at \in {"locked", "counted"}
Changes == {"edit", "remove"}
Sound(a) ==
    /\ a.op \in Changes \cup {"add"} /\ a.at \in {"sent", "locked", "counted"}
         => a.of \in Project /\ a.user \in User
    /\ a.op \in {"add", "edit"} => a.role \in Role
    /\ a.op = "remove" => a.role = None
    /\ Busy(a) => a.op \in Changes

CallInv == \A c \in Slot : Sound(net.call[c])

\* One transaction at a time has the lock of a project.
LockInv ==
    \A c, d \in Slot :
        Busy(net.call[c]) /\ Busy(net.call[d]) /\ net.call[c].of = net.call[d].of => c = d

\* What a transaction counted is still so when it writes: an owner who loses the role
\* leaves another, or an addition has demoted an owner meanwhile.
LeavesAnOwner(a) ==
    \/ a.of \in net.demoted
    \/ a.role = "owner"
    \/ db.members[a.of][a.user] # "owner"
    \/ \E v \in User \ {a.user} : db.members[a.of][v] = "owner"

CountInv == \A c \in Slot : net.call[c].at = "counted" => LeavesAnOwner(net.call[c])

OwnerInv == NetInv /\ DbInv /\ CallInv /\ LockInv /\ CountInv /\ OwnersAreCounted

\* The members stay, and requests come, go or wait without a lock.
Quiet ==
    /\ NetInv'
    /\ "members" \in DOMAIN db' /\ db'.members = db.members
    /\ net'.demoted = net.demoted
    /\ \A c \in Slot : \/ net'.call[c] = net.call[c]
                       \/ Sound(net'.call[c]) /\ ~Busy(net'.call[c])

LEMMA QuietKeeps ==
    ASSUME OwnerInv, Quiet
    PROVE  OwnerInv'
<1>1. NetInv' /\ DbInv' /\ CallInv'
    BY DEF OwnerInv, Quiet, DbInv, CallInv
<1>2. \A c \in Slot : Busy(net'.call[c]) => net'.call[c] = net.call[c]
    BY DEF Quiet
<1>3. LockInv'
    BY <1>2 DEF OwnerInv, LockInv
<1>4. CountInv'
    BY <1>2 DEF OwnerInv, CountInv, LeavesAnOwner, Busy, Quiet
<1>5. OwnersAreCounted'
    BY DEF OwnerInv, OwnersAreCounted, Owners, Quiet
<1> QED
    BY <1>1, <1>3, <1>4, <1>5 DEF OwnerInv

SameRequest(c) ==
    /\ net'.call[c].of = net.call[c].of /\ net'.call[c].op = net.call[c].op
    /\ net'.call[c].user = net.call[c].user /\ net'.call[c].role = net.call[c].role

\* A call that only moves on: what it is about stays.
LEMMA ToMoves ==
    ASSUME NetInv, NEW c \in Slot, NEW at \in At, To(c, at)
    PROVE  /\ NetInv' /\ net'.demoted = net.demoted
           /\ net'.call[c].at = at
           /\ SameRequest(c)
           /\ \A d \in Slot \ {c} : net'.call[d] = net.call[d]
BY DEF NetInv, To, CallRecord, SameRequest
-----------------------------------------------------------------------------
(* Steps of the page.                                                      *)

Pages ==
    \/ \E p \in Project : Go(p) \/ AnswerCount(p)
    \/ \E m \in net.load : AnswerMembers(m)
    \/ AnswerStore \/ OpenAdd \/ AnswerUsers \/ CloseDialog \/ Leave
    \/ \E u \in User : OpenEdit(u) \/ AskRemove(u)
    \/ \E m \in Moves : OpenStage(m)
    \/ CloseStage

\* Whatever the page does beside its writes leaves the requests on members alone.
LEMMA PagesAreQuiet ==
    ASSUME OwnerInv, Pages
    PROVE  Quiet
<1> USE DEF OwnerInv, NetInv, DbInv, Quiet, Spent
<1>1. CASE \E p \in Project : Go(p) \/ AnswerCount(p)
    BY <1>1 DEF Go, AnswerCount
<1>2. CASE \E m \in net.load : AnswerMembers(m)
    BY <1>2 DEF AnswerMembers
<1>3. CASE AnswerStore \/ OpenAdd \/ AnswerUsers \/ CloseDialog \/ Leave
    BY <1>3 DEF AnswerStore, OpenAdd, AnswerUsers, CloseDialog, Leave
<1>4. CASE \E u \in User : OpenEdit(u) \/ AskRemove(u)
    BY <1>4 DEF OpenEdit, AskRemove
<1>5. CASE (\E m \in Moves : OpenStage(m)) \/ CloseStage
    BY <1>5 DEF OpenStage, CloseStage
<1> QED
    BY <1>1, <1>2, <1>3, <1>4, <1>5 DEF Pages

\* A request is put in its slot, or taken out of it.
LEMMA SlotIsQuiet ==
    ASSUME OwnerInv, NEW c \in Slot, NEW new \in CallRecord, Sound(new), ~Busy(new),
           {"call", "demoted"} \subseteq DOMAIN net',
           net'.demoted = net.demoted, net'.call = [net.call EXCEPT ![c] = new],
           "members" \in DOMAIN db', db'.members = db.members
    PROVE  Quiet
BY DEF OwnerInv, NetInv, Quiet

LEMMA NoCallIsSound == NoCall \in CallRecord /\ Sound(NoCall) /\ ~Busy(NoCall)
BY DEF NoCall, CallRecord, Sound, Busy, Changes, None, At, Op

\* The writes of the page, of the other administrator, and the stages.
LEMMA WritesAreQuiet ==
    ASSUME OwnerInv, UiInv,
           \/ \E u \in User, role \in Role : Submit(u, role)
           \/ \E yes \in BOOLEAN : ConfirmRemove(yes)
           \/ MemberDone \/ RemoveDone \/ Others
           \/ \E c \in Slot : WriteRefused(c)
           \/ ConfirmStage \/ StageDone
    PROVE  Quiet
<1> USE DEF Slot
<1>1. ASSUME NEW u \in User, NEW role \in Role, Submit(u, role)
      PROVE  Quiet
    <2> DEFINE new == [NoCall EXCEPT !.at = "sent", !.op = Mode, !.of = ui.route,
                                     !.user = u, !.role = role]
    <2>1. new \in CallRecord /\ Sound(new) /\ ~Busy(new)
        BY <1>1 DEF Submit, Mode, UiInv, CallRecord, NoCall, Sound, Busy, Changes, None, At, Op
    <2> QED
        BY <1>1, <2>1, SlotIsQuiet DEF Submit, OwnerInv, NetInv, DbInv
<1>2. ASSUME NEW yes \in BOOLEAN, ConfirmRemove(yes)
      PROVE  Quiet
    <2> DEFINE new == [NoCall EXCEPT !.at = "sent", !.op = "remove", !.of = ui.route,
                                     !.user = ui.asked]
    <2>1. CASE yes /\ ui.route # None
        <3>1. new \in CallRecord /\ Sound(new) /\ ~Busy(new)
            BY <1>2, <2>1 DEF ConfirmRemove, UiInv, CallRecord, NoCall, Sound, Busy, Changes, None, At, Op
        <3> QED
            BY <1>2, <2>1, <3>1, SlotIsQuiet DEF ConfirmRemove, OwnerInv, NetInv, DbInv
    <2>2. CASE ~(yes /\ ui.route # None)
        BY <1>2, <2>2 DEF ConfirmRemove, Quiet, OwnerInv, NetInv, DbInv
    <2> QED
        BY <2>1, <2>2
<1>3. CASE MemberDone \/ RemoveDone \/ StageDone
    BY <1>3, NoCallIsSound, SlotIsQuiet DEF MemberDone, RemoveDone, StageDone, OwnerInv, NetInv, DbInv
<1>4. ASSUME NEW c \in Slot, WriteRefused(c)
      PROVE  Quiet
    BY <1>4, NoCallIsSound, SlotIsQuiet, SMTT(30) DEF WriteRefused, OwnerInv, NetInv, DbInv
<1>5. CASE Others
    <2>1. ASSUME NEW op \in {"edit", "remove"}, NEW p \in Project, NEW u \in User,
                 net' = [Spent(net) EXCEPT !.call["theirs"] =
                            [NoCall EXCEPT !.at = "sent", !.op = op, !.of = p, !.user = u,
                                           !.role = IF op = "edit" THEN "member" ELSE None]],
                 UNCHANGED <<ui, db>>
          PROVE  Quiet
        <3> DEFINE new == [NoCall EXCEPT !.at = "sent", !.op = op, !.of = p, !.user = u,
                                         !.role = IF op = "edit" THEN "member" ELSE None]
        <3>1. new \in CallRecord /\ Sound(new) /\ ~Busy(new)
            BY DEF CallRecord, NoCall, Sound, Busy, Changes, Role, None, At, Op
        <3>2. /\ net'.call = [net.call EXCEPT !["theirs"] = new]
              /\ net'.demoted = net.demoted /\ {"call", "demoted"} \subseteq DOMAIN net'
            BY <2>1 DEF Spent, OwnerInv, NetInv
        <3> QED
            BY <2>1, <3>1, <3>2, SlotIsQuiet DEF OwnerInv, DbInv
    <2>2. CASE /\ \E p \in Project : db' = [db EXCEPT !.issues[p] = ~@]
               /\ net' = Spent(net)
        BY <2>2 DEF Quiet, Spent, OwnerInv, NetInv, DbInv
    <2> QED
        BY <1>5, <2>1, <2>2 DEF Others
<1>6. CASE ConfirmStage
    <2> DEFINE new == [NoCall EXCEPT !.at = "sent", !.op = ui.pending.action, !.of = ui.route]
    <2>1. new \in CallRecord /\ Sound(new) /\ ~Busy(new)
        BY <1>6 DEF ConfirmStage, UiInv, CallRecord, NoCall, Sound, Busy, Changes, None, At, Op, StageAction
    <2> QED
        BY <1>6, <2>1, SlotIsQuiet DEF ConfirmStage, OwnerInv, NetInv, DbInv
<1> QED
    BY <1>1, <1>2, <1>3, <1>4, <1>5, <1>6

\* The statements of a change of stage take no lock.
LEMMA StagesAreQuiet ==
    ASSUME OwnerInv, ReadStage \/ WriteStage
    PROVE  Quiet
<1> USE DEF Slot, At
<1>0. "stage" \in Slot
    OBVIOUS
<1>1. ASSUME NEW at \in At, ~Busy([at |-> at]), To("stage", at),
             "members" \in DOMAIN db', db'.members = db.members,
             net.call["stage"].at \in {"sent", "read"}, at # "sent"
      PROVE  Quiet
    <2>1. /\ NetInv' /\ net'.demoted = net.demoted
          /\ net'.call["stage"].at = at
          /\ SameRequest("stage")
          /\ \A d \in Slot \ {"stage"} : net'.call[d] = net.call[d]
        BY <1>1, <1>0, ToMoves DEF OwnerInv
    <2>2. Sound(net'.call["stage"]) /\ ~Busy(net'.call["stage"])
        BY <1>0, <1>1, <2>1 DEF OwnerInv, SameRequest, CallInv, Sound, Busy
    <2> QED
        BY <1>1, <2>1, <2>2 DEF Quiet
<1>2. CASE WriteStage
    BY <1>2, <1>1, SMTT(30) DEF WriteStage, Busy, OwnerInv, DbInv
<1>3. CASE ReadStage
    <2>1. CASE To("stage", "refused") /\ net.call["stage"].at = "sent" /\ UNCHANGED db
        BY <2>1, <1>1 DEF Busy, OwnerInv, DbInv
    <2>2. ASSUME NEW m \in Moves, UNCHANGED db,
                 net' = [net EXCEPT !.call["stage"] = [@ EXCEPT !.at = "read", !.to = m.to]]
          PROVE  Quiet
        <3> DEFINE new == [net.call["stage"] EXCEPT !.at = "read", !.to = m.to]
        <3>1. m.to \in Stage
            BY DEF Moves, Stage
        <3>2. new \in CallRecord /\ Sound(new) /\ ~Busy(new)
            BY <3>1 DEF OwnerInv, NetInv, CallInv, CallRecord, Sound, Busy
        <3> QED
            BY <2>2, <3>2, SlotIsQuiet DEF OwnerInv, NetInv, DbInv
    <2> QED
        BY <1>3, <2>1, <2>2, Zenon DEF ReadStage
<1> QED
    BY <1>2, <1>3
-----------------------------------------------------------------------------
(* The transactions on members.                                            *)

\* A transaction takes the lock when nobody has it, or is refused.
LEMMA LockingKeeps ==
    ASSUME OwnerInv, NEW c \in Slot, LockProject(c)
    PROVE  OwnerInv'
<1> DEFINE a == net.call[c]
<1>1. PICK at \in {"locked", "refused"} :
          /\ To(c, at) /\ a.at = "sent" /\ a.op \in Changes /\ UNCHANGED db
          /\ at = "locked" => MayLock(a.of)
    BY DEF LockProject, Changes
<1>2. /\ NetInv' /\ net'.demoted = net.demoted
      /\ net'.call[c].at = at /\ SameRequest(c)
      /\ \A d \in Slot \ {c} : net'.call[d] = net.call[d]
    BY <1>1, ToMoves DEF OwnerInv, At
<1>3. /\ net'.call[c].of = a.of /\ net'.call[c].op = a.op
      /\ net'.call[c].user = a.user /\ net'.call[c].role = a.role
    BY <1>2 DEF SameRequest
<1>4. CallInv'
    BY <1>1, <1>2, <1>3 DEF OwnerInv, CallInv, Sound, Busy, Changes
<1>5. LockInv'
    BY <1>1, <1>2, <1>3 DEF OwnerInv, LockInv, Busy, MayLock
<1>6. CountInv'
    BY <1>1, <1>2, <1>3 DEF OwnerInv, CountInv, LeavesAnOwner
<1>7. OwnersAreCounted' /\ DbInv'
    BY <1>1, <1>2 DEF OwnerInv, OwnersAreCounted, Owners, DbInv
<1> QED
    BY <1>2, <1>4, <1>5, <1>6, <1>7 DEF OwnerInv

\* Whoever is not the last owner by the count leaves another one.
LEMMA AnotherOwner ==
    ASSUME Users, DbInv, NEW a, a.of \in Project, a.user \in User, ~TakesLastOwner(a)
    PROVE  LeavesAnOwner(a)
<1> SUFFICES ASSUME db.members[a.of][a.user] = "owner", a.role # "owner",
                    \A v \in User \ {a.user} : db.members[a.of][v] # "owner"
             PROVE  FALSE
    BY DEF LeavesAnOwner
<1>1. Owners(db.members[a.of]) = {a.user}
    BY DEF Owners
<1>2. Cardinality(Owners(db.members[a.of])) = 1
    BY <1>1, FS_Singleton
<1> QED
    BY <1>2 DEF TakesLastOwner

LEMMA CountingKeeps ==
    ASSUME Users, OwnerInv, NEW c \in Slot, CountOwners(c)
    PROVE  OwnerInv'
<1> DEFINE a == net.call[c]
<1>1. PICK at \in {"counted", "refused"} :
          /\ To(c, at) /\ a.at = "locked" /\ UNCHANGED db
          /\ at = "counted" => ~TakesLastOwner(a)
    BY DEF CountOwners
<1>2. /\ NetInv' /\ net'.demoted = net.demoted
      /\ net'.call[c].at = at /\ SameRequest(c)
      /\ \A d \in Slot \ {c} : net'.call[d] = net.call[d]
    BY <1>1, ToMoves DEF OwnerInv, At
<1>3. /\ net'.call[c].of = a.of /\ net'.call[c].op = a.op
      /\ net'.call[c].user = a.user /\ net'.call[c].role = a.role
    BY <1>2 DEF SameRequest
<1>4. CallInv'
    BY <1>1, <1>2, <1>3 DEF OwnerInv, CallInv, Sound, Busy, Changes
<1>5. LockInv'
    BY <1>1, <1>2, <1>3 DEF OwnerInv, LockInv, Busy
<1>6. at = "counted" => LeavesAnOwner(a)
    BY <1>1, AnotherOwner DEF OwnerInv, CallInv, Sound, Busy
<1>7. CountInv'
    BY <1>1, <1>2, <1>3, <1>6 DEF OwnerInv, CountInv, LeavesAnOwner
<1>8. OwnersAreCounted' /\ DbInv'
    BY <1>1, <1>2 DEF OwnerInv, OwnersAreCounted, Owners, DbInv
<1> QED
    BY <1>2, <1>4, <1>5, <1>7, <1>8 DEF OwnerInv

\* A transaction that counted writes, and nobody else has counted.
LEMMA WritingKeeps ==
    ASSUME OwnerInv, NEW c \in Slot, WriteMember(c)
    PROVE  OwnerInv'
<1> DEFINE a == net.call[c]
           new == IF a.op = "remove" THEN None ELSE a.role
<1>1. To(c, "ok") /\ a.at = "counted" /\ db' = [db EXCEPT !.members[a.of][a.user] = new]
    BY DEF WriteMember
<1>2. /\ NetInv' /\ net'.demoted = net.demoted
      /\ net'.call[c].at = "ok" /\ SameRequest(c)
      /\ \A d \in Slot \ {c} : net'.call[d] = net.call[d]
    BY <1>1, ToMoves DEF OwnerInv, At
<1>3. /\ a.of \in Project /\ a.user \in User /\ a.op \in Changes /\ LeavesAnOwner(a)
      /\ new \in Role \cup {None} /\ (new = "owner" <=> a.role = "owner")
    BY <1>1 DEF OwnerInv, CallInv, CountInv, Sound, Busy, Changes, Role, None
<1> HIDE DEF new
<1>4. /\ DbInv'
      /\ \A p \in Project, u \in User :
            db'.members[p][u] = IF p = a.of /\ u = a.user THEN new ELSE db.members[p][u]
    BY <1>1, <1>3 DEF OwnerInv, DbInv, Membership
<1>5. CallInv'
    BY <1>2, SMTT(30) DEF OwnerInv, CallInv, Sound, Busy, SameRequest
<1>6. LockInv'
    BY <1>2 DEF OwnerInv, LockInv, Busy
<1>7. CountInv'
    <2> SUFFICES ASSUME NEW d \in Slot, net'.call[d].at = "counted"
                 PROVE  LeavesAnOwner(net.call[d])'
        BY DEF CountInv
    <2>1. d # c /\ net'.call[d] = net.call[d] /\ LeavesAnOwner(net.call[d])
        BY <1>2 DEF OwnerInv, CountInv
    <2>2. net.call[d].of \in Project /\ net.call[d].user \in User /\ net.call[d].of # a.of
        BY <1>1, <2>1 DEF OwnerInv, CallInv, LockInv, Sound, Busy, Changes
    <2> QED
        BY <1>2, <1>4, <2>1, <2>2 DEF LeavesAnOwner
<1>8. OwnersAreCounted'
    <2> SUFFICES ASSUME NEW p \in Project, Owners(db'.members[p]) = {}
                 PROVE  p \in net.demoted
        BY <1>2 DEF OwnersAreCounted
    <2>1. \A u \in User : db'.members[p][u] # "owner"
        BY SMTT(30) DEF Owners
    <2>2. CASE p = a.of
        BY <1>3, <1>4, <2>1, <2>2 DEF OwnerInv, OwnersAreCounted, LeavesAnOwner, Owners
    <2>3. CASE p # a.of
        BY <1>4, <2>1, <2>3 DEF OwnerInv, OwnersAreCounted, Owners
    <2> QED
        BY <2>2, <2>3
<1> QED
    BY <1>2, <1>4, <1>5, <1>6, <1>7, <1>8 DEF OwnerInv

\* An addition counts nothing; it is remembered when it takes the role of an owner.
LEMMA AddingKeeps ==
    ASSUME OwnerInv, NEW c \in Slot, ServeAdd(c)
    PROVE  OwnerInv'
<1> DEFINE a == net.call[c]
<1>0. a \in CallRecord /\ Sound(a) /\ a.at = "sent" /\ a.op = "add"
    BY DEF ServeAdd, OwnerInv, NetInv, CallInv
<1>1. CASE To(c, "refused") /\ db' = db
    <2>1. /\ NetInv' /\ net'.demoted = net.demoted
          /\ net'.call[c].at = "refused" /\ SameRequest(c)
          /\ \A d \in Slot \ {c} : net'.call[d] = net.call[d]
        BY <1>1, ToMoves DEF OwnerInv, At
    <2>2. Sound(net'.call[c]) /\ ~Busy(net'.call[c])
        BY <1>0, <2>1 DEF Sound, Busy, SameRequest
    <2> QED
        BY <1>1, <2>1, <2>2, QuietKeeps DEF Quiet, OwnerInv, DbInv
<1>2. CASE /\ db' = [db EXCEPT !.members[a.of][a.user] = a.role]
           /\ net' = [net EXCEPT !.call[c].at = "ok",
                                 !.demoted = IF db.members[a.of][a.user] = "owner" /\ a.role # "owner"
                                             THEN @ \cup {a.of} ELSE @]
    <2>1. a.of \in Project /\ a.user \in User /\ a.role \in Role
        BY <1>0 DEF Sound
    <2>2. /\ DbInv'
          /\ \A p \in Project, u \in User :
                db'.members[p][u] = IF p = a.of /\ u = a.user THEN a.role ELSE db.members[p][u]
        BY <1>2, <2>1 DEF OwnerInv, DbInv, Membership
    <2>3. /\ NetInv'
          /\ net'.call[c].at = "ok" /\ SameRequest(c)
          /\ \A d \in Slot \ {c} : net'.call[d] = net.call[d]
        BY <1>2 DEF OwnerInv, NetInv, CallRecord, SameRequest, At
    <2>4. /\ \A p \in net.demoted : p \in net'.demoted
          /\ db.members[a.of][a.user] = "owner" /\ a.role # "owner" => a.of \in net'.demoted
        BY <1>2 DEF OwnerInv, NetInv
    <2>5. CallInv'
        BY <1>0, <2>3, SMTT(30) DEF OwnerInv, CallInv, Sound, Busy, SameRequest
    <2>6. LockInv'
        BY <2>3, SMTT(30) DEF OwnerInv, LockInv, Busy
    <2>7. CountInv'
        <3> SUFFICES ASSUME NEW d \in Slot, net'.call[d].at = "counted"
                     PROVE  LeavesAnOwner(net.call[d])'
            BY DEF CountInv
        <3>1. d # c /\ net'.call[d] = net.call[d] /\ LeavesAnOwner(net.call[d])
            BY <2>3 DEF OwnerInv, CountInv
        <3>2. net.call[d].of \in Project /\ net.call[d].user \in User
            BY <2>3, <3>1 DEF OwnerInv, CallInv, Sound, Busy, Changes
        <3>3. \/ net.call[d].of \in net.demoted
              \/ \E v \in User : db.members[net.call[d].of][v] = "owner"
            BY <3>2 DEF OwnerInv, OwnersAreCounted, Owners
        <3> QED
            BY <2>1, <2>2, <2>4, <3>1, <3>2, <3>3, SMTT(30) DEF LeavesAnOwner
    <2>8. OwnersAreCounted'
        <3> SUFFICES ASSUME NEW p \in Project, Owners(db'.members[p]) = {}
                     PROVE  p \in net'.demoted
            BY DEF OwnersAreCounted
        <3>1. \A u \in User : db'.members[p][u] # "owner"
            BY DEF Owners
        <3>2. CASE p \in net.demoted
            BY <2>4, <3>2
        <3>3. CASE p \notin net.demoted
            <4>1. PICK u \in User : db.members[p][u] = "owner"
                BY <3>3 DEF OwnerInv, OwnersAreCounted, Owners
            <4> QED
                BY <2>1, <2>2, <2>4, <3>1, <4>1
        <3> QED
            BY <3>2, <3>3
    <2> QED
        BY <2>2, <2>3, <2>5, <2>6, <2>7, <2>8 DEF OwnerInv
<1> QED
    BY <1>1, <1>2 DEF ServeAdd
-----------------------------------------------------------------------------
(* The theorem.                                                            *)

\* What the page asks for stays a project, a user and an action.
LEMMA UiKeeps ==
    ASSUME UiInv, [Next]_vars
    PROVE  UiInv'
<1> USE DEF UiInv, NoDialog, NoPending
<1>1. CASE \/ \E p \in Project : Go(p) \/ AnswerCount(p)
           \/ \E m \in net.load : AnswerMembers(m)
    <2>1. ASSUME NEW p \in Project, Go(p)
          PROVE  UiInv'
        BY <2>1 DEF Go
    <2>2. ASSUME NEW p \in Project, AnswerCount(p)
          PROVE  UiInv'
        BY <2>2 DEF AnswerCount
    <2>3. ASSUME NEW m \in net.load, AnswerMembers(m)
          PROVE  UiInv'
        <3> DEFINE saving == IF m.after = "member" THEN FALSE ELSE ui.saving
                   late == ui.late \/ (m.after # None /\ m.of # ui.route)
        <3>1. \/ ui' = [ui EXCEPT !.saving = saving]
              \/ ui' = [[ui EXCEPT !.saving = saving] EXCEPT !.members = db.members[m.of],
                                                            !.of = m.of, !.late = late]
            BY <2>3 DEF AnswerMembers
        <3> HIDE DEF saving, late
        <3> QED
            BY <3>1
    <2> QED
        BY <1>1, <2>1, <2>2, <2>3
<1>2. CASE AnswerStore \/ OpenAdd \/ AnswerUsers \/ CloseDialog \/ MemberDone \/ RemoveDone \/ Leave
    <2>1. CASE AnswerStore \/ CloseDialog
        BY <2>1 DEF AnswerStore, CloseDialog, None
    <2>2. CASE OpenAdd \/ AnswerUsers
        BY <2>2 DEF OpenAdd, AnswerUsers
    <2>3. CASE MemberDone
        BY <2>3 DEF MemberDone, None
    <2>4. CASE RemoveDone \/ Leave
        BY <2>4 DEF RemoveDone, Leave, None
    <2> QED
        BY <1>2, <2>1, <2>2, <2>3, <2>4
<1>3. CASE \E u \in User : OpenEdit(u) \/ AskRemove(u) \/ \E role \in Role : Submit(u, role)
    <2>1. ASSUME NEW u \in User, OpenEdit(u) \/ AskRemove(u)
          PROVE  UiInv'
        BY <2>1 DEF OpenEdit, AskRemove
    <2>2. ASSUME NEW u \in User, NEW role \in Role, Submit(u, role)
          PROVE  UiInv'
        BY <2>2 DEF Submit
    <2> QED
        BY <1>3, <2>1, <2>2
<1>4. CASE \E yes \in BOOLEAN : ConfirmRemove(yes)
    BY <1>4 DEF ConfirmRemove
<1>5. CASE \E c \in Slot : WriteRefused(c) \/ Serve(c)
    <2>1. ASSUME NEW c \in Slot, WriteRefused(c)
          PROVE  UiInv'
        BY <2>1 DEF WriteRefused
    <2>2. ASSUME NEW c \in Slot, Serve(c)
          PROVE  ui' = ui
        BY <2>2, Zenon DEF Serve, ServeAdd, LockProject, CountOwners, WriteMember
    <2> QED
        BY <1>5, <2>1, <2>2
<1>6. CASE \E m \in Moves : OpenStage(m)
    BY <1>6 DEF OpenStage, Moves, StageAction
<1>7. CASE CloseStage \/ ConfirmStage \/ ReadStage \/ WriteStage \/ StageDone \/ Others \/ UNCHANGED vars
    <2>1. CASE CloseStage
        BY <2>1 DEF CloseStage
    <2>2. CASE ConfirmStage \/ StageDone
        <3>1. CASE ConfirmStage
            BY <3>1 DEF ConfirmStage
        <3>2. CASE StageDone
            <4>1. ui' = [ui EXCEPT !.pending = NoPending, !.switching = FALSE]
                BY <3>2, Zenon DEF StageDone
            <4> QED
                BY <4>1 DEF None
        <3> QED
            BY <2>2, <3>1, <3>2
    <2>3. CASE ReadStage \/ WriteStage \/ Others \/ UNCHANGED vars
        <3>1. ui' = ui
            BY <2>3, Zenon DEF ReadStage, WriteStage, Others, vars
        <3> QED
            BY <3>1
    <2> QED
        BY <1>7, <2>1, <2>2, <2>3
<1> QED
    BY <1>1, <1>2, <1>3, <1>4, <1>5, <1>6, <1>7 DEF Next

LEMMA OwnerStep ==
    ASSUME Users, UiInv, OwnerInv, [Next]_vars
    PROVE  OwnerInv'
<1>1. ASSUME NEW c \in Slot, Serve(c)
      PROVE  OwnerInv'
    BY <1>1, AddingKeeps, LockingKeeps, CountingKeeps, WritingKeeps DEF Serve
<1>2. CASE Pages
    BY <1>2, PagesAreQuiet, QuietKeeps
<1>3. CASE ReadStage \/ WriteStage
    BY <1>3, StagesAreQuiet, QuietKeeps
<1>4. CASE \/ \E u \in User, role \in Role : Submit(u, role)
           \/ \E yes \in BOOLEAN : ConfirmRemove(yes)
           \/ MemberDone \/ RemoveDone \/ Others
           \/ \E c \in Slot : WriteRefused(c)
           \/ ConfirmStage \/ StageDone
    BY <1>4, WritesAreQuiet, QuietKeeps
<1>5. CASE UNCHANGED vars
    BY <1>5, QuietKeeps DEF vars, Quiet, OwnerInv, NetInv, DbInv
<1> QED
    BY <1>1, <1>2, <1>3, <1>4, <1>5 DEF Next, Pages

LEMMA OwnerInit ==
    ASSUME Users, Init
    PROVE  UiInv /\ OwnerInv
<1>1. UiInv
    BY DEF Init, UiInv, NoDialog, NoPending, None
<1>2. NetInv /\ \A c \in Slot : net.call[c] = NoCall
    BY NoCallIsSound DEF Init, NetInv
<1>3. CallInv /\ LockInv /\ CountInv
    BY <1>2, NoCallIsSound DEF CallInv, LockInv, CountInv, Busy
<1>4. DbInv /\ OwnersAreCounted
    BY DEF Init, DbInv, OwnersAreCounted, Owners, Users
<1> QED
    BY <1>1, <1>2, <1>3, <1>4 DEF OwnerInv

\* However two administrators demote, remove and add at the same time, in any projects: a
\* project loses its last owner only by an addition that changes the role of a member
\* (addMember of projects/repository.go counts no owners, the two others count them under
\* the lock of the project).
THEOREM OwnersStay == Users /\ Spec => []OwnersAreCounted
<1> SUFFICES ASSUME Users PROVE Spec => []OwnersAreCounted
    OBVIOUS
<1>1. Init => UiInv /\ OwnerInv
    BY OwnerInit
<1>2. UiInv /\ OwnerInv /\ [Next]_vars => UiInv' /\ OwnerInv'
    BY UiKeeps, OwnerStep
<1>3. OwnerInv => OwnersAreCounted
    BY DEF OwnerInv
<1> QED
    BY <1>1, <1>2, <1>3, PTL DEF Spec
-----------------------------------------------------------------------------
(* The members on the screen.                                              *)

MembersInv == {"route", "of", "late"} \subseteq DOMAIN ui /\ MembersAreOfTheRoute

\* The project, the one whose members are shown and the mark of a late list stay.
LEMMA ScreenStays ==
    ASSUME MembersInv, DOMAIN ui' = DOMAIN ui, ui'.route = ui.route, ui'.of = ui.of, ui'.late = ui.late
    PROVE  MembersInv'
BY DEF MembersInv, MembersAreOfTheRoute

LEMMA MembersInit == Init => MembersInv
BY DEF Init, MembersInv, MembersAreOfTheRoute

LEMMA MembersStep ==
    ASSUME MembersInv, [Next]_vars
    PROVE  MembersInv'
<1> USE DEF MembersInv, MembersAreOfTheRoute
<1>1. ASSUME NEW p \in Project, Go(p) PROVE MembersInv'
    BY <1>1 DEF Go
<1>2. ASSUME NEW m \in net.load, AnswerMembers(m) PROVE MembersInv'
    <2>1. PICK saving : \/ ui' = [ui EXCEPT !.saving = saving]
                        \/ /\ TakesMembers(m)
                           /\ ui' = [[ui EXCEPT !.saving = saving]
                                        EXCEPT !.members = db.members[m.of], !.of = m.of,
                                               !.late = @ \/ (m.after # None /\ m.of # ui.route)]
        BY <1>2, Zenon DEF AnswerMembers
    <2>2. CASE ui' = [ui EXCEPT !.saving = saving]
        BY <2>2, ScreenStays
    <2>3. ASSUME NEW late, TakesMembers(m), late = (ui.late \/ (m.after # None /\ m.of # ui.route)),
                 ui' = [[ui EXCEPT !.saving = saving] EXCEPT !.members = db.members[m.of], !.of = m.of, !.late = late]
          PROVE  MembersInv'
        <3>1. /\ DOMAIN ui' = DOMAIN ui /\ ui'.route = ui.route /\ ui'.of = m.of /\ ui'.late = late
            BY <2>3
        <3>2. ~late => m.of = ui.route
            BY <2>3 DEF TakesMembers
        <3> QED
            BY <3>1, <3>2
    <2> QED
        BY <2>1, <2>2, <2>3, Zenon
<1>3. CASE Leave
    <2>1. CASE ui' = ui
        BY <2>1
    <2>2. CASE ui' = [ui EXCEPT !.route = None, !.dialog = NoDialog, !.status = db.status]
        BY <2>2
    <2> QED
        BY <1>3, <2>1, <2>2 DEF Leave
<1>4. ASSUME NEW p \in Project, AnswerCount(p) PROVE MembersInv'
    BY <1>4, ScreenStays DEF AnswerCount
<1>5. ASSUME NEW u \in User, OpenEdit(u) \/ AskRemove(u) \/ \E role \in Role : Submit(u, role)
      PROVE  MembersInv'
    BY <1>5, ScreenStays DEF OpenEdit, AskRemove, Submit
<1>6. CASE AnswerStore \/ OpenAdd \/ AnswerUsers \/ CloseDialog \/ MemberDone \/ RemoveDone
    BY <1>6, ScreenStays DEF AnswerStore, OpenAdd, AnswerUsers, CloseDialog, MemberDone, RemoveDone
<1>7. ASSUME NEW yes \in BOOLEAN, ConfirmRemove(yes) PROVE MembersInv'
    BY <1>7, ScreenStays DEF ConfirmRemove
<1>8. ASSUME NEW c \in Slot, WriteRefused(c) PROVE MembersInv'
    <2>1. ui' \in {ui, [ui EXCEPT !.saving = FALSE], [ui EXCEPT !.switching = FALSE]}
        BY <1>8 DEF WriteRefused
    <2> QED
        BY <2>1, ScreenStays
<1>9. ASSUME NEW m \in Moves, OpenStage(m) PROVE MembersInv'
    BY <1>9, ScreenStays DEF OpenStage
<1>10. CASE CloseStage \/ ConfirmStage \/ StageDone
    BY <1>10, ScreenStays DEF CloseStage, ConfirmStage, StageDone
<1>11. CASE (\E c \in Slot : Serve(c)) \/ ReadStage \/ WriteStage \/ Others \/ UNCHANGED vars
    <2>1. ui' = ui
        BY <1>11, Zenon DEF Serve, ServeAdd, LockProject, CountOwners, WriteMember, ReadStage, WriteStage,
           Others, vars
    <2> QED
        BY <2>1
<1> QED
    BY <1>1, <1>2, <1>3, <1>4, <1>5, <1>6, <1>7, <1>8, <1>9, <1>10, <1>11 DEF Next

\* However the user goes from project to project while lists are on their way: the members
\* on the screen are those of the project on the screen, unless a list that was fetched
\* after a write came late (the guard of loadMembers in ProjectDashboard.vue).
THEOREM MembersFollow == Spec => []MembersAreOfTheRoute
<1>1. MembersInv => MembersAreOfTheRoute
    BY DEF MembersInv
<1> QED
    BY <1>1, MembersInit, MembersStep, PTL DEF Spec
-----------------------------------------------------------------------------
(* Types.                                                                  *)

DialogType == [open : BOOLEAN, user : User \cup {None}, role : Role \cup {None}]
PendingType == [action : StageAction \cup {None}, count : {None, "clean", "issues"}]
UiType ==
    [route : Project \cup {None}, admin : BOOLEAN, of : Project, members : Membership,
     users : BOOLEAN, dialog : DialogType, asked : User \cup {None}, saving : BOOLEAN,
     pending : PendingType, switching : BOOLEAN, late : BOOLEAN, status : [Project -> Stage]]
LoadType == [of : Project, after : {None, "member", "remove", "leave"}]
NetType ==
    [load : SUBSET LoadType, users : BOOLEAN, count : SUBSET Project, store : BOOLEAN,
     leaving : BOOLEAN,
     call : [Slot -> CallRecord], events : 0 .. MaxEvent, demoted : SUBSET Project]
DbType ==
    [members : [Project -> Membership], status : [Project -> Stage], issues : [Project -> BOOLEAN]]

\* A write of the page is about a project, and a stage that was read goes to a stage.
Named(calls) ==
    /\ calls["member"].at # "idle" => calls["member"].of \in Project
    /\ calls["stage"].at = "read" => calls["stage"].to \in Stage

PageTypes == ui \in UiType /\ net \in NetType /\ db \in DbType /\ Named(net.call)

LEMMA TypesHold == PageTypes => TypeOK
<1> SUFFICES ASSUME PageTypes PROVE TypeOK
    OBVIOUS
<1>1. /\ ui.route \in Project \cup {None} /\ ui.of \in Project
      /\ ui.members \in Membership /\ ui.dialog.open \in BOOLEAN
      /\ ui.dialog.user \in User \cup {None} /\ ui.dialog.role \in Role \cup {None}
      /\ ui.asked \in User \cup {None} /\ ui.saving \in BOOLEAN /\ ui.switching \in BOOLEAN
      /\ ui.status \in [Project -> Stage] /\ ui.pending.count \in {None, "clean", "issues"}
    BY DEF PageTypes, UiType, DialogType, PendingType
<1>2. (\A c \in Slot : net.call[c].at \in At) /\ net.events \in 0 .. MaxEvent
    BY DEF PageTypes, NetType, CallRecord
<1>3. /\ db.members \in [Project -> Membership] /\ db.status \in [Project -> Stage]
      /\ db.issues \in [Project -> BOOLEAN]
    BY DEF PageTypes, DbType
<1> QED
    BY <1>1, <1>2, <1>3 DEF TypeOK, At

LEMMA TypesInit == MaxEvent \in Nat /\ Users /\ Init => PageTypes
<1> SUFFICES ASSUME MaxEvent \in Nat, Users, Init PROVE PageTypes
    OBVIOUS
<1>1. /\ NoDialog \in DialogType /\ NoPending \in PendingType
      /\ [u \in User |-> None] \in Membership /\ [p \in Project |-> "active"] \in [Project -> Stage]
    BY DEF NoDialog, DialogType, NoPending, PendingType, Membership, Stage
<1>2. ui \in UiType
    BY <1>1 DEF Init, UiType
<1>3. net \in NetType /\ \A c \in Slot : net.call[c] = NoCall
    BY NoCallIsSound DEF Init, NetType, LoadType
<1>4. db \in DbType
    BY <1>1 DEF Init, DbType
<1>5. Named(net.call)
    BY <1>3 DEF Named, Slot, NoCall
<1> QED
    BY <1>2, <1>3, <1>4, <1>5 DEF PageTypes

LEMMA SpentTyped ==
    ASSUME MaxEvent \in Nat, PageTypes, Event
    PROVE  Spent(net) \in NetType /\ Spent(net).call = net.call /\ Spent(net).load = net.load
           /\ Spent(net).count = net.count
BY DEF PageTypes, NetType, Event, Spent

\* A request is put in its slot, or taken out of it.
LEMMA SlotTyped ==
    ASSUME PageTypes, NEW c \in Slot, NEW new \in CallRecord,
           c = "member" => new.at = "idle" \/ new.of \in Project,
           c = "stage" => new.at # "read" \/ new.to \in Stage
    PROVE  [net.call EXCEPT ![c] = new] \in [Slot -> CallRecord] /\ Named([net.call EXCEPT ![c] = new])
BY DEF PageTypes, NetType, Named, Slot

\* Loads and questions of the page.
LEMMA LoadsTyped ==
    ASSUME MaxEvent \in Nat, PageTypes,
           \/ \E p \in Project : Go(p) \/ AnswerCount(p)
           \/ \E m \in net.load : AnswerMembers(m)
           \/ AnswerStore \/ Leave
    PROVE  PageTypes'
<1>1. /\ ui \in UiType /\ net \in NetType /\ db \in DbType /\ Named(net.call)
      /\ NoDialog \in DialogType /\ [u \in User |-> None] \in Membership
    BY DEF PageTypes, NoDialog, DialogType, Membership
<1>2. ASSUME NEW p \in Project, Go(p) PROVE PageTypes'
    <2>1. ui' \in UiType /\ db' = db
        BY <1>1, <1>2 DEF Go, UiType
    <2>2. net' = [Spent(net) EXCEPT !.load = net.load \cup {[of |-> p, after |-> None]}]
        BY <1>2, SpentTyped DEF Go
    <2> DEFINE load == net.load \cup {[of |-> p, after |-> None]}
    <2>3. load \in SUBSET LoadType
        BY <1>1 DEF LoadType, NetType
    <2> HIDE DEF load
    <2>4. Spent(net) \in NetType /\ Spent(net).call = net.call
        BY <1>2, SpentTyped DEF Go
    <2>5. net' \in NetType /\ net'.call = net.call
        BY <2>2, <2>3, <2>4 DEF NetType, load
    <2> QED
        BY <1>1, <2>1, <2>5 DEF PageTypes
<1>3. ASSUME NEW p \in Project, AnswerCount(p) PROVE PageTypes'
    <2>1. net' \in NetType /\ net'.call = net.call /\ db' = db
        BY <1>1, <1>3 DEF AnswerCount, NetType
    <2>2. \/ ui' = ui
          \/ ui' = [ui EXCEPT !.pending = [ui.pending EXCEPT !.count = IF db.issues[p] THEN "issues" ELSE "clean"]]
        BY <1>1, <1>3 DEF AnswerCount, UiType
    <2>3. [ui.pending EXCEPT !.count = IF db.issues[p] THEN "issues" ELSE "clean"] \in PendingType
        BY <1>1 DEF UiType, PendingType
    <2>4. ui' \in UiType
        BY <1>1, <2>2, <2>3 DEF UiType
    <2> QED
        BY <1>1, <2>1, <2>4 DEF PageTypes
<1>4. ASSUME NEW m \in net.load, AnswerMembers(m) PROVE PageTypes'
    <2>1. PICK arrives \in BOOLEAN :
             /\ MayRead(m.of) /\ ~arrives => Event
             /\ net' = [net EXCEPT !.load = net.load \ {m},
                                   !.leaving = net.leaving \/ (arrives /\ m.after = "leave"),
                                   !.events = IF MayRead(m.of) /\ ~arrives THEN net.events + 1 ELSE net.events]
        BY <1>1, <1>4 DEF AnswerMembers, NetType
    <2> DEFINE load == net.load \ {m}
               leaving == net.leaving \/ (arrives /\ m.after = "leave")
               events == IF MayRead(m.of) /\ ~arrives THEN net.events + 1 ELSE net.events
    <2>2. load \in SUBSET LoadType /\ leaving \in BOOLEAN /\ events \in 0 .. MaxEvent
        BY <1>1, <2>1 DEF NetType, Event
    <2>3. net' = [net EXCEPT !.load = load, !.leaving = leaving, !.events = events]
        BY <2>1
    <2> HIDE DEF load, leaving, events
    <2>4. net' \in NetType /\ net'.call = net.call
        BY <1>1, <2>2, <2>3 DEF NetType
    <2>5. m.of \in Project /\ db.members[m.of] \in Membership /\ UNCHANGED db
        BY <1>1, <1>4 DEF AnswerMembers, NetType, LoadType, DbType
    <2> DEFINE saving == IF m.after = "member" THEN FALSE ELSE ui.saving
               late == ui.late \/ (m.after # None /\ m.of # ui.route)
    <2>6. saving \in BOOLEAN /\ late \in BOOLEAN
        BY <1>1 DEF UiType
    <2>7. \/ ui' = [ui EXCEPT !.saving = saving]
          \/ ui' = [[ui EXCEPT !.saving = saving] EXCEPT !.members = db.members[m.of], !.of = m.of,
                                                        !.late = late]
        BY <1>1, <1>4 DEF AnswerMembers, UiType
    <2> HIDE DEF saving, late
    <2>8. ui' \in UiType
        BY <1>1, <2>5, <2>6, <2>7, ZenonT(40) DEF UiType
    <2> QED
        BY <1>1, <2>4, <2>5, <2>8 DEF PageTypes
<1>5. CASE AnswerStore
    <2>1. ui' \in UiType /\ net' \in NetType /\ net'.call = net.call /\ db' = db
        BY <1>1, <1>5 DEF AnswerStore, UiType, NetType, DbType
    <2> QED
        BY <1>1, <2>1 DEF PageTypes
<1>6. CASE Leave
    <2>1. CASE /\ ui' = [ui EXCEPT !.route = None, !.dialog = NoDialog, !.status = db.status]
               /\ net' = [net EXCEPT !.leaving = FALSE] /\ db' = db
        <3>1. ui' \in UiType
            BY <1>1, <2>1 DEF UiType, DbType
        <3>2. net' \in NetType /\ net'.call = net.call
            BY <1>1, <2>1 DEF NetType
        <3> QED
            BY <1>1, <2>1, <3>1, <3>2 DEF PageTypes
    <2>2. CASE Event /\ ui' = ui /\ net' = [Spent(net) EXCEPT !.leaving = FALSE] /\ db' = db
        <3>1. net' \in NetType /\ net'.call = net.call
            BY <1>1, <2>2, SpentTyped DEF NetType
        <3> QED
            BY <1>1, <2>2, <3>1 DEF PageTypes
    <2> QED
        BY <1>6, <2>1, <2>2 DEF Leave
<1> QED
    BY <1>2, <1>3, <1>4, <1>5, <1>6

\* Dialogs and questions the user opens and closes.
LEMMA DialogsTyped ==
    ASSUME MaxEvent \in Nat, PageTypes,
           \/ OpenAdd \/ AnswerUsers \/ CloseDialog \/ CloseStage
           \/ \E u \in User : OpenEdit(u) \/ AskRemove(u)
           \/ \E m \in Moves : OpenStage(m)
    PROVE  PageTypes'
<1>1. /\ ui \in UiType /\ net \in NetType /\ db \in DbType /\ Named(net.call)
      /\ NoDialog \in DialogType /\ AddDialog \in DialogType
      /\ NoPending \in PendingType
      /\ Closed(ui.dialog) \in DialogType /\ [ui.dialog EXCEPT !.open = TRUE] \in DialogType
    BY DEF PageTypes, UiType, NoDialog, AddDialog, Closed, DialogType, NoPending, PendingType
<1>2. Event => /\ Spent(net) \in NetType /\ Spent(net).call = net.call /\ Spent(net).count = net.count
               /\ [Spent(net) EXCEPT !.users = TRUE] \in NetType
               /\ [Spent(net) EXCEPT !.users = TRUE].call = net.call
    BY SpentTyped DEF NetType
<1>3. CASE OpenAdd \/ AnswerUsers \/ CloseDialog \/ CloseStage
    <2>1. ui' \in UiType
        BY <1>1, <1>3, ZenonT(40) DEF OpenAdd, AnswerUsers, CloseDialog, CloseStage, UiType
    <2>2. CASE OpenAdd
        BY <1>1, <1>2, <2>1, <2>2 DEF OpenAdd, PageTypes
    <2>3. CASE AnswerUsers
        <3>1. net' \in NetType /\ net'.call = net.call /\ db' = db
            BY <1>1, <2>3 DEF AnswerUsers, NetType
        <3> QED
            BY <1>1, <2>1, <3>1 DEF PageTypes
    <2>4. CASE CloseDialog \/ CloseStage
        BY <1>1, <2>1, <2>4 DEF CloseDialog, CloseStage, PageTypes
    <2> QED
        BY <1>3, <2>2, <2>3, <2>4
<1>4. ASSUME NEW u \in User, OpenEdit(u) \/ AskRemove(u) PROVE PageTypes'
    <2>1. ui.members[u] \in Role \cup {None}
        BY <1>1 DEF UiType, Membership
    <2>2. [open |-> TRUE, user |-> u, role |-> ui.members[u]] \in DialogType
        BY <2>1 DEF DialogType
    <2>3. ui' \in UiType
        BY <1>1, <1>4, <2>2 DEF OpenEdit, AskRemove, UiType
    <2> QED
        BY <1>1, <1>2, <1>4, <2>3 DEF OpenEdit, AskRemove, PageTypes
<1>5. ASSUME NEW m \in Moves, OpenStage(m) PROVE PageTypes'
    <2>1. [NoPending EXCEPT !.action = m.action] \in PendingType
        BY DEF Moves, StageAction, NoPending, PendingType
    <2>2. ui' \in UiType /\ ui.route \in Project
        BY <1>1, <1>5, <2>1 DEF OpenStage, UiType
    <2> DEFINE count == IF m.action = "complete" THEN net.count \cup {ui.route} ELSE net.count
    <2>3. count \in SUBSET Project
        BY <1>1, <2>2 DEF NetType
    <2>4. net' = [Spent(net) EXCEPT !.count = count] /\ Event /\ db' = db
        BY <1>2, <1>5 DEF OpenStage
    <2> HIDE DEF count
    <2>5. net' \in NetType /\ net'.call = net.call
        BY <1>2, <2>3, <2>4 DEF NetType
    <2> QED
        BY <1>1, <2>2, <2>4, <2>5 DEF PageTypes
<1> QED
    BY <1>3, <1>4, <1>5

\* Requests start in their slots.
LEMMA StartsTyped ==
    ASSUME MaxEvent \in Nat, PageTypes,
           \/ \E u \in User, role \in Role : Submit(u, role)
           \/ \E yes \in BOOLEAN : ConfirmRemove(yes)
           \/ ConfirmStage \/ Others
    PROVE  PageTypes'
<1>1. ui \in UiType /\ net \in NetType /\ db \in DbType /\ Named(net.call)
    BY DEF PageTypes
<1>2. ASSUME NEW u \in User, NEW role \in Role, Submit(u, role) PROVE PageTypes'
    <2> DEFINE new == [NoCall EXCEPT !.at = "sent", !.op = Mode, !.of = ui.route,
                                     !.user = u, !.role = role]
    <2>1. ui.route \in Project /\ Mode \in {"add", "edit"}
        BY <1>1, <1>2 DEF Submit, Mode, UiType
    <2>2. new \in CallRecord /\ new.of \in Project
        BY <2>1 DEF NoCall, CallRecord, At, Op
    <2>3. ui' \in UiType /\ db' = db
        BY <1>1, <1>2 DEF Submit, UiType
    <2>4. net' = [net EXCEPT !.call = [net.call EXCEPT !["member"] = new]]
        BY <1>1, <1>2 DEF Submit, NetType
    <2> HIDE DEF new
    <2>5. net' \in NetType /\ Named(net'.call)
        BY <1>1, <2>2, <2>4, SlotTyped DEF Slot, NetType
    <2> QED
        BY <1>1, <2>3, <2>5 DEF PageTypes
<1>3. ASSUME NEW yes \in BOOLEAN, ConfirmRemove(yes) PROVE PageTypes'
    <2> DEFINE new == [NoCall EXCEPT !.at = "sent", !.op = "remove", !.of = ui.route, !.user = ui.asked]
    <2>1. new \in CallRecord
        BY <1>1 DEF NoCall, CallRecord, At, Op, UiType
    <2>2. ui' \in UiType /\ db' = db
        BY <1>1, <1>3 DEF ConfirmRemove, UiType
    <2>3. net' = net \/ net' = [net EXCEPT !.call = [net.call EXCEPT !["remove"] = new]]
        BY <1>1, <1>3 DEF ConfirmRemove, NetType
    <2> HIDE DEF new
    <2>4. net' \in NetType /\ Named(net'.call)
        BY <1>1, <2>1, <2>3, SlotTyped DEF Slot, NetType
    <2> QED
        BY <1>1, <2>2, <2>4 DEF PageTypes
<1>4. CASE ConfirmStage
    <2> DEFINE new == [NoCall EXCEPT !.at = "sent", !.op = ui.pending.action, !.of = ui.route]
    <2>1. new \in CallRecord /\ new.at = "sent"
        BY <1>1 DEF NoCall, CallRecord, At, Op, UiType, PendingType
    <2>2. ui' \in UiType /\ db' = db
        BY <1>1, <1>4 DEF ConfirmStage, UiType
    <2>3. net' = [net EXCEPT !.call = [net.call EXCEPT !["stage"] = new]]
        BY <1>1, <1>4 DEF ConfirmStage, NetType
    <2> HIDE DEF new
    <2>4. net' \in NetType /\ Named(net'.call)
        BY <1>1, <2>1, <2>3, SlotTyped, SMTT(30) DEF Slot, NetType
    <2> QED
        BY <1>1, <2>2, <2>4 DEF PageTypes
<1>5. CASE Others
    <2>1. ASSUME NEW op \in {"edit", "remove"}, NEW p \in Project, NEW u \in User, Event,
                 net' = [Spent(net) EXCEPT !.call["theirs"] =
                            [NoCall EXCEPT !.at = "sent", !.op = op, !.of = p, !.user = u,
                                           !.role = IF op = "edit" THEN "member" ELSE None]],
                 UNCHANGED <<ui, db>>
          PROVE  PageTypes'
        <3> DEFINE new == [NoCall EXCEPT !.at = "sent", !.op = op, !.of = p, !.user = u,
                                         !.role = IF op = "edit" THEN "member" ELSE None]
        <3>1. new \in CallRecord
            BY DEF NoCall, CallRecord, At, Op, Role
        <3>2. net' = [Spent(net) EXCEPT !.call = [net.call EXCEPT !["theirs"] = new]]
            BY <2>1, SpentTyped
        <3> HIDE DEF new
        <3>3. net' \in NetType /\ Named(net'.call)
            BY <1>1, <2>1, <3>1, <3>2, SlotTyped, SpentTyped DEF Slot, NetType
        <3> QED
            BY <1>1, <2>1, <3>3 DEF PageTypes
    <2>2. ASSUME NEW p \in Project, Event, db' = [db EXCEPT !.issues[p] = ~@], net' = Spent(net), UNCHANGED ui
          PROVE  PageTypes'
        <3>1. db' \in DbType
            BY <1>1, <2>2 DEF DbType
        <3> QED
            BY <1>1, <2>2, <3>1, SpentTyped DEF PageTypes
    <2> QED
        BY <1>5, <2>1, <2>2, Zenon DEF Others
<1> QED
    BY <1>2, <1>3, <1>4, <1>5

\* Requests end.
LEMMA EndsTyped ==
    ASSUME PageTypes, MemberDone \/ RemoveDone \/ StageDone \/ \E c \in Slot : WriteRefused(c)
    PROVE  PageTypes'
<1>1. /\ ui \in UiType /\ net \in NetType /\ db \in DbType /\ Named(net.call)
      /\ NoDialog \in DialogType /\ NoPending \in PendingType /\ NoCall \in CallRecord /\ NoCall.at = "idle"
      /\ Closed(ui.dialog) \in DialogType
    BY NoCallIsSound DEF PageTypes, UiType, Closed, NoDialog, DialogType, NoPending, PendingType, NoCall
<1>2. CASE MemberDone
    <2> DEFINE load == net.load \cup {[of |-> net.call["member"].of, after |-> "member"]}
    <2>1. load \in SUBSET LoadType
        BY <1>1, <1>2 DEF MemberDone, Named, NetType, LoadType
    <2>2. ui' \in UiType /\ db' = db
        BY <1>1, <1>2 DEF MemberDone, UiType
    <2>3. net' = [net EXCEPT !.call = [net.call EXCEPT !["member"] = NoCall], !.load = load]
        BY <1>1, <1>2 DEF MemberDone, NetType
    <2> HIDE DEF load
    <2>4. net' \in NetType /\ Named(net'.call)
        BY <1>1, <2>1, <2>3, SlotTyped DEF Slot, NetType
    <2> QED
        BY <1>1, <2>2, <2>4 DEF PageTypes
<1>3. CASE RemoveDone
    <2> DEFINE load == IF ui.route = None THEN net.load
                       ELSE net.load \cup {[of |-> ui.route,
                                            after |-> IF net.call["remove"].user = Me
                                                      THEN "leave" ELSE "remove"]}
    <2>1. load \in SUBSET LoadType
        BY <1>1 DEF NetType, UiType, LoadType
    <2>2. ui' \in UiType /\ db' = db
        BY <1>1, <1>3 DEF RemoveDone, UiType
    <2>3. net' = [net EXCEPT !.call = [net.call EXCEPT !["remove"] = NoCall], !.load = load]
        BY <1>1, <1>3 DEF RemoveDone, NetType
    <2> HIDE DEF load
    <2>4. net' \in NetType /\ Named(net'.call)
        BY <1>1, <2>1, <2>3, SlotTyped DEF Slot, NetType
    <2> QED
        BY <1>1, <2>2, <2>4 DEF PageTypes
<1>4. CASE StageDone
    <2>1. ui' \in UiType /\ db' = db
        BY <1>1, <1>4 DEF StageDone, UiType
    <2>2. net' = [net EXCEPT !.call = [net.call EXCEPT !["stage"] = NoCall], !.store = TRUE]
        BY <1>1, <1>4 DEF StageDone, NetType
    <2>3. net' \in NetType /\ Named(net'.call)
        BY <1>1, <2>2, SlotTyped DEF Slot, NetType
    <2> QED
        BY <1>1, <2>1, <2>3 DEF PageTypes
<1>5. ASSUME NEW c \in Slot, WriteRefused(c) PROVE PageTypes'
    <2>1. ui' \in UiType /\ db' = db
        BY <1>1, <1>5 DEF WriteRefused, UiType
    <2>2. net' = [net EXCEPT !.call = [net.call EXCEPT ![c] = NoCall]]
        BY <1>1, <1>5 DEF WriteRefused, NetType
    <2>3. net' \in NetType /\ Named(net'.call)
        BY <1>1, <2>2, SlotTyped DEF NetType
    <2> QED
        BY <1>1, <2>1, <2>3 DEF PageTypes
<1> QED
    BY <1>2, <1>3, <1>4, <1>5

\* A call moves on.
LEMMA MovesTyped ==
    ASSUME PageTypes, NEW c \in Slot, NEW at \in At, net.call[c].at # "idle", at # "read", To(c, at)
    PROVE  net' \in NetType /\ Named(net'.call)
<1> DEFINE new == [net.call[c] EXCEPT !.at = at]
<1>1. net \in NetType /\ Named(net.call) /\ net.call[c] \in CallRecord
    BY DEF PageTypes, NetType
<1>2. /\ new \in CallRecord /\ new.at # "read"
      /\ c = "member" => new.of \in Project
    BY <1>1 DEF CallRecord, Named
<1>3. net' = [net EXCEPT !.call = [net.call EXCEPT ![c] = new]]
    BY <1>1 DEF To, NetType
<1> HIDE DEF new
<1> QED
    BY <1>1, <1>2, <1>3, SlotTyped DEF NetType

\* The transactions of the server.
LEMMA ServeTyped ==
    ASSUME PageTypes, CallInv, (\E c \in Slot : Serve(c)) \/ ReadStage \/ WriteStage
    PROVE  PageTypes'
<1>1. /\ ui \in UiType /\ net \in NetType /\ db \in DbType /\ Named(net.call)
      /\ \A c \in Slot : net.call[c] \in CallRecord /\ Sound(net.call[c])
      /\ {"ok", "refused", "locked", "counted"} \subseteq At
    BY DEF PageTypes, NetType, CallInv, At
<1>2. ASSUME NEW c \in Slot, ServeAdd(c) PROVE PageTypes'
    <2> DEFINE a == net.call[c]
               new == [a EXCEPT !.at = "ok"]
    <2>1. a.at = "sent" /\ a.of \in Project /\ a.user \in User /\ a.role \in Role /\ ui' = ui
        BY <1>1, <1>2 DEF ServeAdd, Sound, Changes
    <2>2. CASE To(c, "refused") /\ db' = db
        BY <1>1, <2>1, <2>2, MovesTyped DEF PageTypes
    <2>3. CASE ~(To(c, "refused") /\ db' = db)
        <3> DEFINE demoted == IF db.members[a.of][a.user] = "owner" /\ a.role # "owner"
                              THEN net.demoted \cup {a.of} ELSE net.demoted
        <3>1. db' = [db EXCEPT !.members = [db.members EXCEPT ![a.of] = [db.members[a.of] EXCEPT ![a.user] = a.role]]]
              /\ net' = [net EXCEPT !.call = [net.call EXCEPT ![c] = new], !.demoted = demoted]
            BY <1>1, <1>2, <2>3 DEF ServeAdd, NetType, DbType
        <3>2. demoted \in SUBSET Project
            BY <1>1, <2>1 DEF NetType
        <3>3. [db.members[a.of] EXCEPT ![a.user] = a.role] \in Membership
            BY <1>1, <2>1, SMTT(30) DEF DbType, Membership
        <3>4. db' \in DbType
            BY <1>1, <3>1, <3>3 DEF DbType
        <3>5. new \in CallRecord /\ new.at = "ok" /\ new.of \in Project
            BY <1>1, <2>1 DEF CallRecord
        <3> HIDE DEF demoted, new
        <3>6. net' \in NetType /\ Named(net'.call)
            BY <1>1, <3>1, <3>2, <3>5, SlotTyped DEF NetType
        <3> QED
            BY <1>1, <2>1, <3>4, <3>6 DEF PageTypes
    <2> QED
        BY <2>2, <2>3
<1>3. ASSUME NEW c \in Slot, LockProject(c) \/ CountOwners(c) PROVE PageTypes'
    <2>1. PICK at \in {"refused", "locked", "counted"} : To(c, at)
        BY <1>3 DEF LockProject, CountOwners
    <2>2. net.call[c].at # "idle" /\ UNCHANGED <<ui, db>>
        BY <1>3 DEF LockProject, CountOwners
    <2> QED
        BY <1>1, <2>1, <2>2, MovesTyped DEF PageTypes
<1>4. ASSUME NEW c \in Slot, WriteMember(c) PROVE PageTypes'
    <2> DEFINE a == net.call[c]
               role == IF a.op = "remove" THEN None ELSE a.role
    <2>1. /\ a.at = "counted" /\ a.of \in Project /\ role \in Role \cup {None}
          /\ To(c, "ok") /\ ui' = ui
        BY <1>1, <1>4 DEF WriteMember, Sound, Changes, Busy
    <2>2. db' = [db EXCEPT !.members = [db.members EXCEPT ![a.of] = [db.members[a.of] EXCEPT ![a.user] = role]]]
        BY <1>1, <1>4 DEF WriteMember, DbType
    <2> HIDE DEF role
    <2>3. [db.members[a.of] EXCEPT ![a.user] = role] \in Membership
        BY <1>1, <2>1 DEF DbType, Membership
    <2>4. db' \in DbType
        BY <1>1, <2>2, <2>3, SMTT(30) DEF DbType
    <2> QED
        BY <1>1, <2>1, <2>4, MovesTyped DEF PageTypes
<1>5. CASE ReadStage
    <2>1. net.call["stage"].at = "sent" /\ UNCHANGED <<ui, db>>
        BY <1>5, Zenon DEF ReadStage
    <2>2. CASE To("stage", "refused")
        BY <1>1, <2>1, <2>2, MovesTyped DEF PageTypes, Slot
    <2>3. ASSUME NEW m \in Moves, net' = [net EXCEPT !.call["stage"] = [@ EXCEPT !.at = "read", !.to = m.to]]
          PROVE  PageTypes'
        <3> DEFINE new == [net.call["stage"] EXCEPT !.at = "read", !.to = m.to]
        <3>1. m.to \in Stage
            BY DEF Moves, Stage
        <3>2. new \in CallRecord /\ new.to \in Stage
            BY <1>1, <3>1 DEF CallRecord, At, Slot
        <3>3. net' = [net EXCEPT !.call = [net.call EXCEPT !["stage"] = new]]
            BY <1>1, <2>3 DEF NetType
        <3> HIDE DEF new
        <3>4. net' \in NetType /\ Named(net'.call)
            BY <1>1, <3>2, <3>3, SlotTyped DEF Slot, NetType
        <3> QED
            BY <1>1, <2>1, <3>4 DEF PageTypes
    <2> QED
        BY <1>5, <2>2, <2>3, ZenonT(40) DEF ReadStage
<1>6. CASE WriteStage
    <2>1. /\ net.call["stage"].at = "read" /\ net.call["stage"].to \in Stage /\ ui' = ui
          /\ To("stage", "ok")
        BY <1>1, <1>6 DEF WriteStage, Named
    <2>2. db' \in DbType
        BY <1>1, <1>6, <2>1 DEF WriteStage, DbType
    <2> QED
        BY <1>1, <2>1, <2>2, MovesTyped DEF PageTypes, Slot
<1> QED
    BY <1>2, <1>3, <1>4, <1>5, <1>6 DEF Serve

LEMMA TypesStep ==
    ASSUME MaxEvent \in Nat, CallInv, PageTypes, [Next]_vars
    PROVE  PageTypes'
<1>1. CASE UNCHANGED vars
    BY <1>1 DEF vars, PageTypes
<1> QED
    BY <1>1, LoadsTyped, DialogsTyped, StartsTyped, EndsTyped, ServeTyped DEF Next

\* Every reachable state of the dashboard is well typed.
THEOREM DashboardTyped == MaxEvent \in Nat /\ Users /\ Spec => []TypeOK
<1> SUFFICES ASSUME MaxEvent \in Nat, Users PROVE Spec => []TypeOK
    OBVIOUS
<1>1. Init => UiInv /\ OwnerInv /\ PageTypes
    BY OwnerInit, TypesInit
<1>2. UiInv /\ OwnerInv /\ PageTypes /\ [Next]_vars => UiInv' /\ OwnerInv' /\ PageTypes'
    BY UiKeeps, OwnerStep, TypesStep DEF OwnerInv
<1> QED
    BY <1>1, <1>2, TypesHold, PTL DEF Spec
=============================================================================
