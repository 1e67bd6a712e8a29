------------------------------ MODULE ListSharing ------------------------------
(***************************************************************************)
(* Who shares whose shopping list: the invite, member and selection        *)
(* handlers of api/routers/lists.py over                                   *)
(* services/repositories/lists_repository.py, the invites in the inbox,    *)
(* and DELETE /users/me.                                                   *)
(*                                                                         *)
(* Every account is given one list when it is created (handle_new_user),   *)
(* and no handler creates another for an account that has one: a list is   *)
(* named by its owner.  With DB_DSN set no handler awaits, so one request  *)
(* at a time is under way; every call commits on its own and may be the    *)
(* last one of its request.  An action is one writing call with the reads  *)
(* that come before it.  Push messages, list events, and the inbox rows    *)
(* that tell of a removed or leaving member are left out.                  *)
(***************************************************************************)
EXTENDS FiniteSets

CONSTANTS
  Users,   \* accounts that may be created, each once, and their lists
  Invites, \* ids that insert_list_invite can draw
  None,    \* a column is null: any value that is neither
  Failures \* a request may end at any call

ASSUME SharingAssumption ==
  /\ None \notin Users \cup Invites
  /\ Users \cap Invites = {}
  /\ Failures \in BOOLEAN

VARIABLES
  account, \* auth.users: "new" before and "deleted" after it is there
  role,    \* list_members.role by list and user
  active,  \* user_profiles.active_list_id
  invites, \* list_invites by id
  inbox,   \* app_notifications of kind list_invite, by invite
  request, \* the request under way
  used,    \* history: invites that have made their target a member
  reused,  \* history: invites that have done so twice
  told,    \* history: invites whose sender has a list_invite_accepted row
  halfway  \* history: users and invites of requests that ended half-way

vars == <<account, role, active, invites, inbox, request, used, reused, told, halfway>>
history == <<used, reused, told>>

Statuses == {"pending", "accepted", "declined", "expired", "revoked"}
NoInvite == [list |-> None, target |-> None, status |-> "none", late |-> FALSE]
Gone == [NoInvite EXCEPT !.status = "gone"]
NoNote == [user |-> None, status |-> "none", read |-> FALSE]

Idle == [step |-> "idle", list |-> None, user |-> None, invite |-> None]
AtRest == request = Idle
Finish == request' = Idle
At(step, i) == request.step = step /\ request.invite = i
Continue(step, i) == request' = [Idle EXCEPT !.step = step, !.invite = i]

Open(u) == account[u] = "open"
Member(l, u) == role[l][u] # "none"
Status(i) == invites[i].status
List(i) == invites[i].list
Target(i) == invites[i].target
SetStatus(i, s) == invites' = [invites EXCEPT ![i].status = s]

(* set_active_list_id                                                      *)
Activate(u, l) ==
  /\ active' = [active EXCEPT ![u] = l]
  /\ halfway' = halfway \ {u}

(* resolved_list_id_for_user                                               *)
Resolved(u) == IF active[u] # None /\ Member(active[u], u) THEN active[u] ELSE u

Init ==
  /\ account = [u \in Users |-> "new"]
  /\ role = [l \in Users |-> [u \in Users |-> "none"]]
  /\ active = [u \in Users |-> None]
  /\ invites = [i \in Invites |-> NoInvite]
  /\ inbox = [i \in Invites |-> NoNote]
  /\ request = Idle
  /\ used = {}
  /\ reused = {}
  /\ told = {}
  /\ halfway = {}

-----------------------------------------------------------------------------
(* Accounts.                                                               *)

(* handle_new_user, the trigger on auth.users: the list and its owner.     *)
SignUp(u) ==
  /\ account[u] = "new"
  /\ account' = [account EXCEPT ![u] = "open"]
  /\ role' = [role EXCEPT ![u][u] = "owner"]
  /\ UNCHANGED <<active, invites, inbox, request, history, halfway>>

(* delete_account deletes the invites that the user has sent, then the     *)
(* account, and the foreign keys take the list of the user, everything     *)
(* about its members, and every row of the user along.                     *)
DeleteInvites(u) ==
  /\ AtRest
  /\ Open(u)
  /\ invites' = [i \in Invites |-> IF List(i) = u THEN Gone ELSE invites[i]]
  /\ request' = [Idle EXCEPT !.step = "delete", !.user = u]
  /\ UNCHANGED <<account, role, active, inbox, history, halfway>>

(* active_list_id is ON DELETE SET NULL.                                   *)
Unselected(u) == [v \in Users |-> IF v = u \/ active[v] = u THEN None ELSE active[v]]

DeleteUser ==
  /\ request.step = "delete"
  /\ LET u == request.user IN
     /\ account' = [account EXCEPT ![u] = "deleted"]
     /\ role' = [l \in Users |-> [v \in Users |->
                   IF u \in {l, v} THEN "none" ELSE role[l][v]]]
     /\ active' = Unselected(u)
     /\ invites' = [i \in Invites |->
                      IF u \in {List(i), Target(i)} THEN Gone ELSE invites[i]]
     /\ inbox' = [i \in Invites |-> IF inbox[i].user = u THEN NoNote ELSE inbox[i]]
  /\ Finish
  /\ UNCHANGED <<history, halfway>>

-----------------------------------------------------------------------------
(* The owner of list l invites user u, and may revoke the invite.          *)

InviteMember(l, u, i) ==
  /\ AtRest
  /\ role[l][l] = "owner"
  /\ Open(u)
  /\ u # l
  /\ ~Member(l, u)
  /\ ~\E j \in Invites : List(j) = l /\ Target(j) = u /\ Status(j) = "pending"
  /\ invites[i] = NoInvite
  /\ invites' = [invites EXCEPT ![i] = [list |-> l, target |-> u,
                                        status |-> "pending", late |-> FALSE]]
  /\ Continue("notify", i)
  /\ UNCHANGED <<account, role, active, inbox, history, halfway>>

NotifyInvited(i) ==
  /\ At("notify", i)
  /\ inbox' = [inbox EXCEPT ![i] = [user |-> Target(i), status |-> "pending",
                                    read |-> FALSE]]
  /\ Finish
  /\ UNCHANGED <<account, role, active, invites, history, halfway>>

(* Mutant of RevokeInvite: the status is not looked at.                    *)
RevokeAny(i) ==
  /\ AtRest
  /\ Status(i) \in Statuses
  /\ SetStatus(i, "revoked")
  /\ Continue("revise", i)
  /\ UNCHANGED <<account, role, active, inbox, history, halfway>>
RevokeInvite(i) ==
  /\ AtRest
  /\ Status(i) = "pending"
  /\ SetStatus(i, "revoked")
  /\ Continue("revise", i)
  /\ UNCHANGED <<account, role, active, inbox, history, halfway>>

(* update_invite_notifications: the row is there unless it was deleted.    *)
ReviseNotification(i) ==
  /\ At("revise", i)
  /\ inbox' = IF inbox[i] = NoNote THEN inbox
              ELSE [inbox EXCEPT ![i].status = "revoked"]
  /\ Finish
  /\ UNCHANGED <<account, role, active, invites, history, halfway>>

-----------------------------------------------------------------------------
(* The invited user answers.                                               *)

(* The seven days of an invite pass; its status is not touched.            *)
PassExpiry(i) ==
  /\ Status(i) = "pending"
  /\ ~invites[i].late
  /\ invites' = [invites EXCEPT ![i].late = TRUE]
  /\ UNCHANGED <<account, role, active, inbox, request, history, halfway>>

(* Mutant of MayAnswer: an invite that was answered is answered again.     *)
MayAnswerAgain(i) == AtRest /\ Status(i) \in {"pending", "accepted"} /\ ~invites[i].late
MayAnswer(i) == AtRest /\ Status(i) = "pending" /\ ~invites[i].late

(* accept_pending_invite: list_members, active_list_id, the status, the    *)
(* notification of the invite, and the one for its sender.                 *)
InsertMember(i) ==
  /\ MayAnswer(i)
  /\ ~Member(List(i), Target(i))
  /\ role' = [role EXCEPT ![List(i)][Target(i)] = "member"]
  /\ used' = used \cup {i}
  /\ reused' = IF i \in used THEN reused \cup {i} ELSE reused
  /\ Continue("activate", i)
  /\ UNCHANGED <<account, active, invites, inbox, told, halfway>>

SetActiveList(i) ==
  /\ At("activate", i) \/ (MayAnswer(i) /\ Member(List(i), Target(i)))
  /\ Activate(Target(i), List(i))
  /\ Continue("accept", i)
  /\ UNCHANGED <<account, role, invites, inbox, history>>

SetAccepted(i) ==
  /\ At("accept", i)
  /\ SetStatus(i, "accepted")
  /\ Continue("read", i)
  /\ UNCHANGED <<account, role, active, inbox, history, halfway>>

(* An invite that is answered too late becomes expired only now.           *)
AnswerLate(i) ==
  /\ AtRest
  /\ Status(i) = "pending"
  /\ invites[i].late
  /\ SetStatus(i, "expired")
  /\ Continue("read", i)
  /\ UNCHANGED <<account, role, active, inbox, history, halfway>>

DeclineInvite(i) ==
  /\ MayAnswer(i)
  /\ SetStatus(i, "declined")
  /\ Continue("read", i)
  /\ UNCHANGED <<account, role, active, inbox, history, halfway>>

(* Mutant of MarkInviteRead: nothing is marked.                            *)
MarkNothing(i) ==
  /\ At("read", i)
  /\ IF Status(i) = "accepted" THEN Continue("tell", i) ELSE Finish
  /\ UNCHANGED <<account, role, active, invites, inbox, history, halfway>>
MarkInviteRead(i) ==
  /\ At("read", i)
  /\ inbox' = IF inbox[i] = NoNote THEN inbox ELSE [inbox EXCEPT ![i].read = TRUE]
  /\ IF Status(i) = "accepted" THEN Continue("tell", i) ELSE Finish
  /\ UNCHANGED <<account, role, active, invites, history, halfway>>

NotifyInviter(i) ==
  /\ At("tell", i)
  /\ told' = told \cup {i}
  /\ Finish
  /\ UNCHANGED <<account, role, active, invites, inbox, used, reused, halfway>>

-----------------------------------------------------------------------------
(* Members and the selected list.                                          *)

(* remove_member: a member leaves, or the owner removes another one.  The  *)
(* mutant lets the owner leave.                                            *)
AnyoneMayRemove(by, l, u) == Member(l, by) /\ (by = u \/ role[l][by] = "owner")
MayRemove(by, l, u) ==
  IF by = u THEN role[l][by] = "member" ELSE role[l][by] = "owner"

DeleteMember(l, u) ==
  /\ AtRest
  /\ Member(l, u)
  /\ \E by \in Users : MayRemove(by, l, u)
  /\ role' = [role EXCEPT ![l][u] = "none"]
  /\ request' = [Idle EXCEPT !.step = "fallback", !.list = l, !.user = u]
  /\ UNCHANGED <<account, active, invites, inbox, history, halfway>>

(* _fallback_selected_list_for_users; the mutant keeps the selection.      *)
KeepSelected ==
  /\ request.step = "fallback"
  /\ Finish
  /\ UNCHANGED <<account, role, active, invites, inbox, history, halfway>>
FallbackSelected ==
  /\ request.step = "fallback"
  /\ IF active[request.user] = request.list
     THEN Activate(request.user, request.user) ELSE UNCHANGED <<active, halfway>>
  /\ Finish
  /\ UNCHANGED <<account, role, invites, inbox, history>>

SelectActiveList(u, l) ==
  /\ AtRest
  /\ Member(l, u)
  /\ Activate(u, l)
  /\ UNCHANGED <<account, role, invites, inbox, request, history>>

GetActiveList(u) ==
  /\ AtRest
  /\ Open(u)
  /\ active[u] # Resolved(u)
  /\ Activate(u, Resolved(u))
  /\ UNCHANGED <<account, role, invites, inbox, request, history>>

(* The user reads or deletes the notification of an invite.                *)
ReadNotification(i) ==
  /\ AtRest
  /\ inbox[i] # NoNote
  /\ ~inbox[i].read
  /\ inbox' = [inbox EXCEPT ![i].read = TRUE]
  /\ UNCHANGED <<account, role, active, invites, request, history, halfway>>

DeleteNotification(i) ==
  /\ AtRest
  /\ inbox[i] # NoNote
  /\ inbox' = [inbox EXCEPT ![i] = NoNote]
  /\ UNCHANGED <<account, role, active, invites, request, history, halfway>>

(* A call raises, or the process dies, between two calls of the request.   *)
RequestDies ==
  /\ Failures
  /\ ~AtRest
  /\ halfway' = halfway \cup ({request.user, request.invite} \ {None})
  /\ Finish
  /\ UNCHANGED <<account, role, active, invites, inbox, history>>

Next ==
  \/ DeleteUser \/ FallbackSelected \/ RequestDies
  \/ \E u \in Users : SignUp(u) \/ DeleteInvites(u) \/ GetActiveList(u)
  \/ \E l, u \in Users : DeleteMember(l, u) \/ SelectActiveList(u, l)
  \/ \E l, u \in Users, i \in Invites : InviteMember(l, u, i)
  \/ \E i \in Invites : \/ NotifyInvited(i) \/ RevokeInvite(i) \/ ReviseNotification(i)
                        \/ PassExpiry(i) \/ InsertMember(i) \/ SetActiveList(i)
                        \/ SetAccepted(i) \/ AnswerLate(i) \/ DeclineInvite(i)
                        \/ MarkInviteRead(i) \/ NotifyInviter(i)
                        \/ ReadNotification(i) \/ DeleteNotification(i)

Spec == Init /\ [][Next]_vars

-----------------------------------------------------------------------------
(* The types of the variables and the foreign keys between the tables.     *)
Steps == {"idle", "delete", "notify", "revise", "activate", "accept", "read", "tell",
          "fallback"}
Maybe(S) == S \cup {None}
Invite == [list : Maybe(Users), target : Maybe(Users),
           status : Statuses \cup {"none", "gone"}, late : BOOLEAN]
Note == [user : Maybe(Users), status : {"none", "pending", "revoked"}, read : BOOLEAN]
Request == [step : Steps, list : Maybe(Users), user : Maybe(Users), invite : Maybe(Invites)]
Typed ==
  /\ account \in [Users -> {"new", "open", "deleted"}]
  /\ role \in [Users -> [Users -> {"none", "member", "owner"}]]
  /\ active \in [Users -> Maybe(Users)]
  /\ invites \in [Invites -> Invite]
  /\ inbox \in [Invites -> Note]
  /\ request \in Request
  /\ {used, reused, told} \subseteq SUBSET Invites
  /\ halfway \subseteq Users \cup Invites
ForeignKeys ==
  /\ \A l, u \in Users : Member(l, u) => Open(l) /\ Open(u)
  /\ \A u \in Users : active[u] # None => Open(u) /\ Open(active[u])
  /\ \A i \in Invites : Status(i) \in Statuses => Open(List(i)) /\ Open(Target(i))
TypeOK == Typed /\ ForeignKeys

(* GET /lists/active serves the list that resolved_list_id_for_user names  *)
(* through _verify_member: for every account, and whatever has ended       *)
(* half-way, it is a list of which the user is a member.                   *)
ShownListIsMine == \A u \in Users : Open(u) => Member(Resolved(u), u)

(* At rest the selected list is one of the user's own memberships; excused *)
(* is a user whose removal has ended before the fallback.                  *)
ActiveIsMine ==
  AtRest => \A u \in Users \ halfway : active[u] # None => Member(active[u], u)

(* An invite makes its target a member once: who was removed comes back    *)
(* only by a new invite.  Excused is an invite whose acceptance has ended  *)
(* between the member row and the status.                                  *)
InviteJoinsOnce == reused \subseteq halfway

(* A settled invite keeps its status until it is deleted with an account,  *)
(* although set_invite_status and the update of revoke_invite do not ask   *)
(* what the status is.                                                     *)
SettledInvitesStay ==
  [][\A i \in Invites : Status(i) \in Statuses \ {"pending"}
                          => Status(i)' \in {Status(i), "gone"}]_vars

(* At rest the inbox tells the state of the invites: an unread invite that *)
(* is shown as pending can be answered unless its sender's account is      *)
(* gone or going, and (README.md:17) the sender of an accepted invite was  *)
(* notified.  Excused are invites with a request that has ended half-way.  *)
InboxFollowsInvites ==
  AtRest => \A i \in Invites \ halfway :
    /\ inbox[i].status = "pending" /\ ~inbox[i].read => Status(i) \in {"pending", "gone"}
    /\ Status(i) = "accepted" => i \in told

(* What makes these invariants inductive.  An account that is open owns    *)
(* its list and no other list has an owner; an open invite names accounts; *)
(* a request in the middle of its calls knows what it has found.           *)
OwnersOwn ==
  /\ \A u \in Users : Open(u) => role[u][u] = "owner"
  /\ \A l, u \in Users : role[l][u] = "owner" => u = l

InvitesNameUsers ==
  \A i \in Invites : Status(i) \in Statuses => {List(i), Target(i)} \subseteq Users

Doing(steps, i) == request.invite = i /\ request.step \in steps
RequestKnows ==
  /\ request.step = "idle" => AtRest
  /\ request.step \in {"delete", "fallback"} => request.user \in Users
  /\ request.step = "fallback" => request.list \in Users
  /\ \A i \in Invites :
       /\ Doing({"notify", "activate", "accept"}, i) => Status(i) = "pending"
       /\ Doing({"activate"}, i) => Member(List(i), Target(i))

(* The four invariants above in states in which a request is under way.    *)
SelectedIsMine ==
  \A u \in Users : active[u] # None =>
    \/ Member(active[u], u)
    \/ u \in halfway
    \/ request.step = "fallback" /\ request.user = u /\ request.list = active[u]

UsedIsSettled ==
  \A i \in used : /\ Status(i) # "none"
                  /\ Status(i) = "pending" => i \in halfway \/ Doing({"activate", "accept"}, i)

InboxIsRevised ==
  \A i \in Invites \ halfway :
    /\ inbox[i].status = "pending" /\ ~inbox[i].read =>
         Status(i) \in {"pending", "gone"} \/ Doing({"revise", "read"}, i)
    /\ Status(i) = "accepted" => i \in told \/ Doing({"read", "tell"}, i)

SharingInv ==
  /\ OwnersOwn
  /\ InvitesNameUsers
  /\ RequestKnows
  /\ SelectedIsMine
  /\ UsedIsSettled
  /\ InboxIsRevised
  /\ InviteJoinsOnce
=============================================================================
