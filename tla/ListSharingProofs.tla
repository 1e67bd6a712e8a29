------------------------- MODULE ListSharingProofs -------------------------
(***************************************************************************)
(* Theorems about ListSharing, for any number of accounts and invites.     *)
(*                                                                         *)
(* IInv, the types and the foreign keys together with SharingInv, is       *)
(* inductive: there is one lemma per action, and the theorems follow.      *)
(***************************************************************************)
EXTENDS ListSharing, TLAPS

(* A new status keeps the type of the invites.                             *)
LEMMA StatusTyped ==
  ASSUME Typed, NEW i \in Invites, NEW s \in Statuses
  PROVE  [invites EXCEPT ![i].status = s] \in [Invites -> Invite]
<1>1. [invites[i] EXCEPT !.status = s] \in Invite
  BY DEF Typed, Invite
<1>2. QED
  BY <1>1 DEF Typed

(* So does the expiry.                                                     *)
LEMMA LateTyped ==
  ASSUME Typed, NEW i \in Invites
  PROVE  [invites EXCEPT ![i].late = TRUE] \in [Invites -> Invite]
<1>1. [invites[i] EXCEPT !.late = TRUE] \in Invite
  BY DEF Typed, Invite
<1>2. QED
  BY <1>1 DEF Typed

(* A revoked status keeps the type of the inbox.                           *)
LEMMA RevisedTyped ==
  ASSUME Typed, NEW i \in Invites
  PROVE  [inbox EXCEPT ![i].status = "revoked"] \in [Invites -> Note]
<1>1. [inbox[i] EXCEPT !.status = "revoked"] \in Note
  BY DEF Typed, Note
<1>2. QED
  BY <1>1 DEF Typed

(* So does a read mark.                                                    *)
LEMMA ReadTyped ==
  ASSUME Typed, NEW i \in Invites
  PROVE  [inbox EXCEPT ![i].read = TRUE] \in [Invites -> Note]
<1>1. [inbox[i] EXCEPT !.read = TRUE] \in Note
  BY DEF Typed, Note
<1>2. QED
  BY <1>1 DEF Typed

(* A new role keeps the type of the memberships.                           *)
LEMMA RoleTyped ==
  ASSUME Typed, NEW l \in Users, NEW u \in Users, NEW r \in {"none", "member", "owner"}
  PROVE  [role EXCEPT ![l][u] = r] \in [Users -> [Users -> {"none", "member", "owner"}]]
<1>1. [role[l] EXCEPT ![u] = r] \in [Users -> {"none", "member", "owner"}]
  BY DEF Typed
<1>2. QED
  BY <1>1 DEF Typed

(* Shorthands of the specification that every proof below expands.         *)
USE SharingAssumption
    DEF TypeOK, SharingInv, Open, Member, Status, List, Target, AtRest, Idle, Doing,
        Statuses, history

(* A new account owns its own list and no other.                           *)
LEMMA SignUpStep ==
  ASSUME NEW u \in Users, TypeOK, SharingInv, SignUp(u)
  PROVE  TypeOK' /\ SharingInv'
<1> USE DEF SignUp
<1>1. Typed'
  BY DEF Typed
<1>2. ForeignKeys'
  BY DEF Typed, ForeignKeys
<1>3. OwnersOwn'
  BY DEF Typed, OwnersOwn
<1>4. RequestKnows'
  BY DEF Typed, RequestKnows
<1>5. SelectedIsMine'
  BY DEF Typed, SelectedIsMine
<1>6. InvitesNameUsers' /\ UsedIsSettled' /\ InboxIsRevised' /\
     InviteJoinsOnce'
  BY DEF InvitesNameUsers, UsedIsSettled, InboxIsRevised, InviteJoinsOnce
<1>7. QED
  BY <1>1, <1>2, <1>3, <1>4, <1>5, <1>6

(* The invites of an account that is being deleted go first.               *)
LEMMA DeleteInvitesStep ==
  ASSUME NEW u \in Users, TypeOK, SharingInv, DeleteInvites(u)
  PROVE  TypeOK' /\ SharingInv'
<1> USE DEF DeleteInvites, Gone, NoInvite
<1>1. Typed'
  BY DEF Typed, Request, Maybe, Steps, Invite
<1>2. ForeignKeys'
  BY DEF Typed, ForeignKeys
<1>3. InvitesNameUsers'
  BY DEF Typed, InvitesNameUsers
<1>4. RequestKnows'
  BY DEF Typed, RequestKnows
<1>5. SelectedIsMine'
  BY DEF Typed, SelectedIsMine
<1>6. UsedIsSettled'
  BY DEF Typed, UsedIsSettled
<1>7. InboxIsRevised'
  BY DEF Typed, InboxIsRevised
<1>8. OwnersOwn' /\ InviteJoinsOnce'
  BY DEF OwnersOwn, InviteJoinsOnce
<1>9. QED
  BY <1>1, <1>2, <1>3, <1>4, <1>5, <1>6, <1>7, <1>8

(* Loading the active list repairs a selection that is not a membership.   *)
LEMMA GetActiveListStep ==
  ASSUME NEW u \in Users, TypeOK, SharingInv, GetActiveList(u)
  PROVE  TypeOK' /\ SharingInv'
<1> USE DEF GetActiveList, Activate, Resolved
<1>1. Typed'
  BY DEF Typed, Maybe
<1>2. ForeignKeys'
  BY DEF Typed, ForeignKeys
<1>3. SelectedIsMine'
  BY DEF Typed, SelectedIsMine, OwnersOwn
<1>4. UsedIsSettled'
  BY DEF Typed, UsedIsSettled
<1>5. InboxIsRevised'
  BY DEF Typed, InboxIsRevised
<1>6. InviteJoinsOnce'
  BY DEF Typed, InviteJoinsOnce
<1>7. OwnersOwn' /\ InvitesNameUsers' /\ RequestKnows'
  BY DEF OwnersOwn, InvitesNameUsers, RequestKnows
<1>8. QED
  BY <1>1, <1>2, <1>3, <1>4, <1>5, <1>6, <1>7

(* The cascades of a deleted account leave no row that names it.           *)
LEMMA DeleteUserStep ==
  ASSUME TypeOK, SharingInv, DeleteUser
  PROVE  TypeOK' /\ SharingInv'
<1> USE DEF DeleteUser, Unselected, Gone, NoInvite, NoNote, Finish
<1>1. Typed'
  <2>1. role' \in [Users -> [Users -> {"none", "member", "owner"}]]
    BY DEF Typed
  <2>2. active' \in [Users -> Maybe(Users)]
    BY DEF Typed, Maybe
  <2>3. invites' \in [Invites -> Invite]
    BY DEF Typed, Invite, Maybe
  <2>4. inbox' \in [Invites -> Note]
    BY DEF Typed, Note, Maybe
  <2>5. QED
    BY <2>1, <2>2, <2>3, <2>4 DEF Typed, Request, Maybe, Steps, RequestKnows
<1>2. ForeignKeys'
  BY DEF Typed, ForeignKeys
<1>3. OwnersOwn'
  BY DEF Typed, OwnersOwn
<1>4. InvitesNameUsers'
  BY DEF Typed, InvitesNameUsers
<1>5. RequestKnows'
  BY DEF Typed, RequestKnows
<1>6. SelectedIsMine'
  BY DEF Typed, SelectedIsMine, RequestKnows, Maybe
<1>7. UsedIsSettled'
  BY DEF Typed, UsedIsSettled
<1>8. InboxIsRevised'
  BY DEF Typed, InboxIsRevised
<1>9. InviteJoinsOnce'
  BY DEF InviteJoinsOnce
<1>10. QED
  BY <1>1, <1>2, <1>3, <1>4, <1>5, <1>6, <1>7, <1>8, <1>9

(* Whoever was removed gets the own list selected.                         *)
LEMMA FallbackSelectedStep ==
  ASSUME TypeOK, SharingInv, FallbackSelected
  PROVE  TypeOK' /\ SharingInv'
<1>1. PICK u \in Users : request.user = u
  BY DEF RequestKnows, FallbackSelected
<1>2. UNCHANGED <<account, role, invites, inbox, used, reused, told>>
  BY DEF FallbackSelected
<1>3. request' = Idle
  BY DEF FallbackSelected, Finish
<1>4. CASE active[u] = request.list
  <2>1. active' = [active EXCEPT ![u] = u] /\ halfway' = halfway \ {u}
    BY <1>1, <1>4 DEF FallbackSelected, Activate
  <2>2. Open(u) /\ role[u][u] = "owner"
    BY <1>1, <1>4 DEF FallbackSelected, RequestKnows, Typed, ForeignKeys, OwnersOwn
  <2>3. Typed' /\ ForeignKeys'
    BY <1>2, <1>3, <2>1, <2>2 DEF Typed, ForeignKeys, Request, Maybe, Steps
  <2>4. OwnersOwn' /\ InvitesNameUsers' /\ RequestKnows'
    BY <1>2, <1>3 DEF OwnersOwn, InvitesNameUsers, RequestKnows
  <2>5. SelectedIsMine'
    BY <1>1, <1>2, <2>1, <2>2 DEF SelectedIsMine, Typed
  <2>6. UsedIsSettled' /\ InboxIsRevised' /\ InviteJoinsOnce'
    BY <1>2, <2>1 DEF FallbackSelected, Typed, UsedIsSettled, InboxIsRevised, InviteJoinsOnce
  <2>7. QED
    BY <2>3, <2>4, <2>5, <2>6
<1>5. CASE active[u] # request.list
  <2>1. UNCHANGED <<active, halfway>>
    BY <1>1, <1>5 DEF FallbackSelected
  <2>2. Typed' /\ ForeignKeys'
    BY <1>2, <1>3, <2>1 DEF Typed, ForeignKeys, Request, Maybe, Steps
  <2>3. OwnersOwn' /\ InvitesNameUsers' /\ RequestKnows'
    BY <1>2, <1>3 DEF OwnersOwn, InvitesNameUsers, RequestKnows
  <2>4. SelectedIsMine'
    BY <1>1, <1>2, <1>5, <2>1 DEF SelectedIsMine
  <2>5. UsedIsSettled' /\ InboxIsRevised' /\ InviteJoinsOnce'
    BY <1>2, <2>1 DEF FallbackSelected, UsedIsSettled, InboxIsRevised, InviteJoinsOnce
  <2>6. QED
    BY <2>2, <2>3, <2>4, <2>5
<1>6. QED
  BY <1>4, <1>5

(* A request that ends half-way excuses its user or its invite.            *)
LEMMA RequestDiesStep ==
  ASSUME TypeOK, SharingInv, RequestDies
  PROVE  TypeOK' /\ SharingInv'
<1> USE DEF RequestDies, Finish
<1>1. Typed'
  BY DEF Typed, Request, Maybe, Steps
<1>2. RequestKnows'
  BY DEF Typed, RequestKnows
<1>3. SelectedIsMine'
  BY DEF Typed, SelectedIsMine
<1>4. UsedIsSettled'
  BY DEF Typed, UsedIsSettled
<1>5. InboxIsRevised'
  BY DEF Typed, InboxIsRevised
<1>6. InviteJoinsOnce'
  BY DEF Typed, InviteJoinsOnce
<1>7. ForeignKeys' /\ OwnersOwn' /\ InvitesNameUsers'
  BY DEF ForeignKeys, OwnersOwn, InvitesNameUsers
<1>8. QED
  BY <1>1, <1>2, <1>3, <1>4, <1>5, <1>6, <1>7

(* No owner is removed: only members leave, only the owner removes others. *)
LEMMA DeleteMemberStep ==
  ASSUME NEW l \in Users, NEW u \in Users, TypeOK, SharingInv, DeleteMember(l, u)
  PROVE  TypeOK' /\ SharingInv'
<1> USE DEF DeleteMember, MayRemove
<1>1. Typed'
  BY RoleTyped DEF Typed, Request, Maybe, Steps
<1>2. ForeignKeys'
  BY DEF Typed, ForeignKeys
<1>3. OwnersOwn'
  BY DEF Typed, OwnersOwn
<1>4. RequestKnows'
  BY DEF Typed, RequestKnows
<1>5. SelectedIsMine'
  BY DEF Typed, SelectedIsMine
<1>6. UsedIsSettled'
  BY DEF Typed, UsedIsSettled
<1>7. InboxIsRevised'
  BY DEF Typed, InboxIsRevised
<1>8. InvitesNameUsers' /\ InviteJoinsOnce'
  BY DEF InvitesNameUsers, InviteJoinsOnce
<1>9. QED
  BY <1>1, <1>2, <1>3, <1>4, <1>5, <1>6, <1>7, <1>8

(* Only a membership is selected.                                          *)
LEMMA SelectActiveListStep ==
  ASSUME NEW u \in Users, NEW l \in Users, TypeOK, SharingInv, SelectActiveList(u, l)
  PROVE  TypeOK' /\ SharingInv'
<1> USE DEF SelectActiveList, Activate
<1>1. Typed'
  BY DEF Typed, Maybe
<1>2. ForeignKeys'
  BY DEF Typed, ForeignKeys
<1>3. SelectedIsMine'
  BY DEF Typed, SelectedIsMine
<1>4. UsedIsSettled'
  BY DEF Typed, UsedIsSettled
<1>5. InboxIsRevised'
  BY DEF Typed, InboxIsRevised
<1>6. InviteJoinsOnce'
  BY DEF Typed, InviteJoinsOnce
<1>7. OwnersOwn' /\ InvitesNameUsers' /\ RequestKnows'
  BY DEF OwnersOwn, InvitesNameUsers, RequestKnows
<1>8. QED
  BY <1>1, <1>2, <1>3, <1>4, <1>5, <1>6, <1>7

(* An invite names two open accounts.                                      *)
LEMMA InviteMemberStep ==
  ASSUME NEW l \in Users, NEW u \in Users, NEW i \in Invites,
         TypeOK, SharingInv, InviteMember(l, u, i)
  PROVE  TypeOK' /\ SharingInv'
<1> USE DEF InviteMember, Continue, NoInvite
<1>1. Typed'
  BY DEF Typed, Request, Maybe, Steps, Invite
<1>2. ForeignKeys'
  BY DEF Typed, ForeignKeys
<1>3. InvitesNameUsers'
  BY DEF Typed, InvitesNameUsers
<1>4. RequestKnows'
  BY DEF Typed, RequestKnows
<1>5. SelectedIsMine'
  BY DEF Typed, SelectedIsMine
<1>6. UsedIsSettled'
  BY DEF Typed, UsedIsSettled
<1>7. InboxIsRevised'
  BY DEF Typed, InboxIsRevised
<1>8. OwnersOwn' /\ InviteJoinsOnce'
  BY DEF OwnersOwn, InviteJoinsOnce
<1>9. QED
  BY <1>1, <1>2, <1>3, <1>4, <1>5, <1>6, <1>7, <1>8

(* The notification of an invite tells of a pending one.                   *)
LEMMA NotifyInvitedStep ==
  ASSUME NEW i \in Invites, TypeOK, SharingInv, NotifyInvited(i)
  PROVE  TypeOK' /\ SharingInv'
<1> USE DEF NotifyInvited, At, Finish
<1>1. Typed'
  BY DEF Typed, Note, Maybe, Request, Steps, RequestKnows, InvitesNameUsers
<1>2. RequestKnows'
  BY DEF Typed, RequestKnows
<1>3. SelectedIsMine'
  BY DEF Typed, SelectedIsMine
<1>4. UsedIsSettled'
  BY DEF Typed, UsedIsSettled
<1>5. InboxIsRevised'
  BY DEF Typed, InboxIsRevised, RequestKnows
<1>6. ForeignKeys' /\ OwnersOwn' /\ InvitesNameUsers' /\ InviteJoinsOnce'
  BY DEF ForeignKeys, OwnersOwn, InvitesNameUsers, InviteJoinsOnce
<1>7. QED
  BY <1>1, <1>2, <1>3, <1>4, <1>5, <1>6

(* Only a pending invite is revoked.                                       *)
LEMMA RevokeInviteStep ==
  ASSUME NEW i \in Invites, TypeOK, SharingInv, RevokeInvite(i)
  PROVE  TypeOK' /\ SharingInv'
<1> USE DEF RevokeInvite, SetStatus, Continue
<1>1. Typed'
  BY StatusTyped DEF Typed, Request, Maybe, Steps, Invite
<1>2. ForeignKeys'
  BY DEF Typed, ForeignKeys
<1>3. InvitesNameUsers'
  BY DEF Typed, InvitesNameUsers
<1>4. RequestKnows'
  BY DEF Typed, RequestKnows
<1>5. SelectedIsMine'
  BY DEF Typed, SelectedIsMine
<1>6. UsedIsSettled'
  BY DEF Typed, UsedIsSettled
<1>7. InboxIsRevised'
  BY DEF Typed, InboxIsRevised
<1>8. OwnersOwn' /\ InviteJoinsOnce'
  BY DEF OwnersOwn, InviteJoinsOnce
<1>9. QED
  BY <1>1, <1>2, <1>3, <1>4, <1>5, <1>6, <1>7, <1>8

(* The notification follows the revocation.                                *)
LEMMA ReviseNotificationStep ==
  ASSUME NEW i \in Invites, TypeOK, SharingInv, ReviseNotification(i)
  PROVE  TypeOK' /\ SharingInv'
<1> USE DEF ReviseNotification, At, Finish, NoNote
<1>1. Typed'
  BY RevisedTyped DEF Typed, Note, Maybe, Request, Steps
<1>2. RequestKnows'
  BY DEF Typed, RequestKnows
<1>3. SelectedIsMine'
  BY DEF Typed, SelectedIsMine
<1>4. UsedIsSettled'
  BY DEF Typed, UsedIsSettled
<1>5. InboxIsRevised'
  BY DEF Typed, InboxIsRevised
<1>6. ForeignKeys' /\ OwnersOwn' /\ InvitesNameUsers' /\ InviteJoinsOnce'
  BY DEF ForeignKeys, OwnersOwn, InvitesNameUsers, InviteJoinsOnce
<1>7. QED
  BY <1>1, <1>2, <1>3, <1>4, <1>5, <1>6

(* Expiry changes no status.                                               *)
LEMMA PassExpiryStep ==
  ASSUME NEW i \in Invites, TypeOK, SharingInv, PassExpiry(i)
  PROVE  TypeOK' /\ SharingInv'
<1> USE DEF PassExpiry
<1>1. Typed'
  BY LateTyped DEF Typed, Invite, Maybe
<1>2. ForeignKeys'
  BY DEF Typed, ForeignKeys
<1>3. InvitesNameUsers'
  BY DEF Typed, InvitesNameUsers
<1>4. RequestKnows'
  BY DEF Typed, RequestKnows
<1>5. UsedIsSettled'
  BY DEF Typed, UsedIsSettled
<1>6. InboxIsRevised'
  BY DEF Typed, InboxIsRevised
<1>7. OwnersOwn' /\ SelectedIsMine' /\ InviteJoinsOnce'
  BY DEF OwnersOwn, SelectedIsMine, InviteJoinsOnce
<1>8. QED
  BY <1>1, <1>2, <1>3, <1>4, <1>5, <1>6, <1>7

(* A pending invite that was not used before makes a member.               *)
LEMMA InsertMemberStep ==
  ASSUME NEW i \in Invites, TypeOK, SharingInv, InsertMember(i)
  PROVE  TypeOK' /\ SharingInv'
<1> USE DEF InsertMember, MayAnswer, Continue
<1>1. Typed'
  <2>1. List(i) \in Users /\ Target(i) \in Users
    BY DEF InvitesNameUsers
  <2>2. role' \in [Users -> [Users -> {"none", "member", "owner"}]]
    BY <2>1, RoleTyped
  <2>3. request' \in Request
    BY DEF Request, Maybe, Steps
  <2>4. used' \subseteq Invites /\ reused' \subseteq Invites
    BY DEF Typed
  <2>5. QED
    BY <2>2, <2>3, <2>4 DEF Typed
<1>2. ForeignKeys'
  BY DEF Typed, ForeignKeys
<1>3. OwnersOwn'
  BY DEF Typed, OwnersOwn
<1>4. RequestKnows'
  BY DEF Typed, RequestKnows, InvitesNameUsers
<1>5. SelectedIsMine'
  BY DEF Typed, SelectedIsMine
<1>6. UsedIsSettled'
  BY DEF Typed, UsedIsSettled
<1>7. InboxIsRevised'
  BY DEF Typed, InboxIsRevised
<1>8. InviteJoinsOnce'
  BY DEF Typed, InviteJoinsOnce, UsedIsSettled
<1>9. InvitesNameUsers'
  BY DEF InvitesNameUsers
<1>10. QED
  BY <1>1, <1>2, <1>3, <1>4, <1>5, <1>6, <1>7, <1>8, <1>9

(* The list selected by an acceptance is a membership by then.             *)
LEMMA SetActiveListStep ==
  ASSUME NEW i \in Invites, TypeOK, SharingInv, SetActiveList(i)
  PROVE  TypeOK' /\ SharingInv'
<1> USE DEF SetActiveList, At, MayAnswer, Activate, Continue
<1>1. Typed'
  BY DEF Typed, Request, Maybe, Steps, InvitesNameUsers, RequestKnows
<1>2. ForeignKeys'
  BY DEF Typed, ForeignKeys, InvitesNameUsers, RequestKnows
<1>3. RequestKnows'
  BY DEF Typed, RequestKnows
<1>4. SelectedIsMine'
  BY DEF Typed, SelectedIsMine, InvitesNameUsers, RequestKnows
<1>5. UsedIsSettled'
  BY DEF Typed, UsedIsSettled, InvitesNameUsers, RequestKnows
<1>6. InboxIsRevised'
  BY DEF Typed, InboxIsRevised, InvitesNameUsers, RequestKnows
<1>7. InviteJoinsOnce'
  BY DEF Typed, InviteJoinsOnce, InvitesNameUsers, RequestKnows
<1>8. OwnersOwn' /\ InvitesNameUsers'
  BY DEF OwnersOwn, InvitesNameUsers
<1>9. QED
  BY <1>1, <1>2, <1>3, <1>4, <1>5, <1>6, <1>7, <1>8

(* The invite that is accepted is still pending.                           *)
LEMMA SetAcceptedStep ==
  ASSUME NEW i \in Invites, TypeOK, SharingInv, SetAccepted(i)
  PROVE  TypeOK' /\ SharingInv'
<1> USE DEF SetAccepted, At, SetStatus, Continue
<1>1. Typed'
  BY StatusTyped DEF Typed, Request, Maybe, Steps, Invite
<1>2. ForeignKeys'
  BY DEF Typed, ForeignKeys, RequestKnows
<1>3. InvitesNameUsers'
  BY DEF Typed, InvitesNameUsers, RequestKnows
<1>4. RequestKnows'
  BY DEF Typed, RequestKnows
<1>5. SelectedIsMine'
  BY DEF Typed, SelectedIsMine
<1>6. UsedIsSettled'
  BY DEF Typed, UsedIsSettled
<1>7. InboxIsRevised'
  BY DEF Typed, InboxIsRevised
<1>8. OwnersOwn' /\ InviteJoinsOnce'
  BY DEF OwnersOwn, InviteJoinsOnce
<1>9. QED
  BY <1>1, <1>2, <1>3, <1>4, <1>5, <1>6, <1>7, <1>8

(* A late answer settles a pending invite.                                 *)
LEMMA AnswerLateStep ==
  ASSUME NEW i \in Invites, TypeOK, SharingInv, AnswerLate(i)
  PROVE  TypeOK' /\ SharingInv'
<1> USE DEF AnswerLate, SetStatus, Continue
<1>1. Typed'
  BY StatusTyped DEF Typed, Request, Maybe, Steps, Invite
<1>2. ForeignKeys'
  BY DEF Typed, ForeignKeys
<1>3. InvitesNameUsers'
  BY DEF Typed, InvitesNameUsers
<1>4. RequestKnows'
  BY DEF Typed, RequestKnows
<1>5. SelectedIsMine'
  BY DEF Typed, SelectedIsMine
<1>6. UsedIsSettled'
  BY DEF Typed, UsedIsSettled
<1>7. InboxIsRevised'
  BY DEF Typed, InboxIsRevised
<1>8. OwnersOwn' /\ InviteJoinsOnce'
  BY DEF OwnersOwn, InviteJoinsOnce
<1>9. QED
  BY <1>1, <1>2, <1>3, <1>4, <1>5, <1>6, <1>7, <1>8

(* Declining settles a pending invite.                                     *)
LEMMA DeclineInviteStep ==
  ASSUME NEW i \in Invites, TypeOK, SharingInv, DeclineInvite(i)
  PROVE  TypeOK' /\ SharingInv'
<1> USE DEF DeclineInvite, MayAnswer, SetStatus, Continue
<1>1. Typed'
  BY StatusTyped DEF Typed, Request, Maybe, Steps, Invite
<1>2. ForeignKeys'
  BY DEF Typed, ForeignKeys
<1>3. InvitesNameUsers'
  BY DEF Typed, InvitesNameUsers
<1>4. RequestKnows'
  BY DEF Typed, RequestKnows
<1>5. SelectedIsMine'
  BY DEF Typed, SelectedIsMine
<1>6. UsedIsSettled'
  BY DEF Typed, UsedIsSettled
<1>7. InboxIsRevised'
  BY DEF Typed, InboxIsRevised
<1>8. OwnersOwn' /\ InviteJoinsOnce'
  BY DEF OwnersOwn, InviteJoinsOnce
<1>9. QED
  BY <1>1, <1>2, <1>3, <1>4, <1>5, <1>6, <1>7, <1>8

(* The answered invite is read; an accepted one goes on to its sender.     *)
LEMMA MarkInviteReadStep ==
  ASSUME NEW i \in Invites, TypeOK, SharingInv, MarkInviteRead(i)
  PROVE  TypeOK' /\ SharingInv'
<1>1. UNCHANGED <<account, role, active, invites, used, reused, told, halfway>>
  BY DEF MarkInviteRead
<1>2. inbox' \in [Invites -> Note]
  BY ReadTyped DEF Typed, MarkInviteRead
<1>3. \A j \in Invites : inbox'[j].status = "pending" /\ ~inbox'[j].read
                          => j # i /\ inbox'[j] = inbox[j]
  BY DEF MarkInviteRead, Typed, Note, NoNote
<1>4. ForeignKeys' /\ OwnersOwn' /\ InvitesNameUsers'
  BY <1>1 DEF ForeignKeys, OwnersOwn, InvitesNameUsers
<1>5. SelectedIsMine' /\ UsedIsSettled' /\ InviteJoinsOnce'
  BY <1>1 DEF MarkInviteRead, At, SelectedIsMine, UsedIsSettled, InviteJoinsOnce
<1>6. CASE Status(i) = "accepted"
  <2>1. request' = [Idle EXCEPT !.step = "tell", !.invite = i]
    BY <1>6 DEF MarkInviteRead, Continue
  <2>2. Typed'
    BY <1>1, <1>2, <2>1 DEF Typed, Request, Maybe, Steps
  <2>3. RequestKnows'
    BY <1>1, <2>1 DEF RequestKnows
  <2>4. InboxIsRevised'
    BY <1>1, <1>3, <2>1 DEF MarkInviteRead, At, InboxIsRevised
  <2>5. QED
    BY <1>4, <1>5, <2>2, <2>3, <2>4
<1>7. CASE Status(i) # "accepted"
  <2>1. request' = Idle
    BY <1>7 DEF MarkInviteRead, Finish
  <2>2. Typed'
    BY <1>1, <1>2, <2>1 DEF Typed, Request, Maybe, Steps
  <2>3. RequestKnows'
    BY <1>1, <2>1 DEF RequestKnows
  <2>4. InboxIsRevised'
    BY <1>1, <1>3, <1>7, <2>1 DEF MarkInviteRead, At, InboxIsRevised
  <2>5. QED
    BY <1>4, <1>5, <2>2, <2>3, <2>4
<1>8. QED
  BY <1>6, <1>7

(* The sender of an accepted invite is told.                               *)
LEMMA NotifyInviterStep ==
  ASSUME NEW i \in Invites, TypeOK, SharingInv, NotifyInviter(i)
  PROVE  TypeOK' /\ SharingInv'
<1> USE DEF NotifyInviter, At, Finish
<1>1. Typed'
  BY DEF Typed, Request, Maybe, Steps
<1>2. RequestKnows'
  BY DEF Typed, RequestKnows
<1>3. SelectedIsMine'
  BY DEF Typed, SelectedIsMine
<1>4. UsedIsSettled'
  BY DEF Typed, UsedIsSettled
<1>5. InboxIsRevised'
  BY DEF Typed, InboxIsRevised
<1>6. ForeignKeys' /\ OwnersOwn' /\ InvitesNameUsers' /\ InviteJoinsOnce'
  BY DEF ForeignKeys, OwnersOwn, InvitesNameUsers, InviteJoinsOnce
<1>7. QED
  BY <1>1, <1>2, <1>3, <1>4, <1>5, <1>6

(* Reading a notification makes no claim about its invite.                 *)
LEMMA ReadNotificationStep ==
  ASSUME NEW i \in Invites, TypeOK, SharingInv, ReadNotification(i)
  PROVE  TypeOK' /\ SharingInv'
<1> USE DEF ReadNotification, NoNote
<1>1. Typed'
  BY ReadTyped DEF Typed, Note, Maybe
<1>2. InboxIsRevised'
  BY DEF Typed, InboxIsRevised
<1>3. ForeignKeys' /\ OwnersOwn' /\ InvitesNameUsers' /\ RequestKnows' /\
     SelectedIsMine' /\ UsedIsSettled' /\ InviteJoinsOnce'
  BY DEF ForeignKeys, OwnersOwn, InvitesNameUsers, RequestKnows,
     SelectedIsMine, UsedIsSettled, InviteJoinsOnce
<1>4. QED
  BY <1>1, <1>2, <1>3

(* Nor does deleting one.                                                  *)
LEMMA DeleteNotificationStep ==
  ASSUME NEW i \in Invites, TypeOK, SharingInv, DeleteNotification(i)
  PROVE  TypeOK' /\ SharingInv'
<1> USE DEF DeleteNotification, NoNote
<1>1. Typed'
  BY DEF Typed, Note, Maybe
<1>2. InboxIsRevised'
  BY DEF Typed, InboxIsRevised
<1>3. ForeignKeys' /\ OwnersOwn' /\ InvitesNameUsers' /\ RequestKnows' /\
     SelectedIsMine' /\ UsedIsSettled' /\ InviteJoinsOnce'
  BY DEF ForeignKeys, OwnersOwn, InvitesNameUsers, RequestKnows,
     SelectedIsMine, UsedIsSettled, InviteJoinsOnce
<1>4. QED
  BY <1>1, <1>2, <1>3

(* The inductive invariant.                                                *)
IInv == TypeOK /\ SharingInv

(* The invariant holds in the beginning ...                                *)
LEMMA InvInit == Init => IInv
<1>1. ASSUME Init PROVE TypeOK
  BY <1>1 DEF Init, Typed, ForeignKeys, Maybe, Invite, Note, Request,
     NoInvite, NoNote, Steps
<1>2. ASSUME Init PROVE SharingInv
  BY <1>2 DEF Init, OwnersOwn, InvitesNameUsers, RequestKnows,
     SelectedIsMine, UsedIsSettled, InboxIsRevised, InviteJoinsOnce,
     NoInvite, NoNote
<1>3. QED
  BY <1>1, <1>2 DEF IInv

(* ... and every step keeps it.                                            *)
LEMMA InvStep == IInv /\ [Next]_vars => IInv'
<1> SUFFICES ASSUME TypeOK, SharingInv, [Next]_vars PROVE TypeOK' /\ SharingInv'
  BY DEF IInv
<1>1. CASE DeleteUser
  BY <1>1, DeleteUserStep
<1>2. CASE FallbackSelected
  BY <1>2, FallbackSelectedStep
<1>3. CASE RequestDies
  BY <1>3, RequestDiesStep
<1>4. CASE \E u \in Users : SignUp(u) \/ DeleteInvites(u) \/ GetActiveList(u)
  BY <1>4, SignUpStep, DeleteInvitesStep, GetActiveListStep
<1>5. CASE \E l, u \in Users : DeleteMember(l, u) \/ SelectActiveList(u, l)
  BY <1>5, DeleteMemberStep, SelectActiveListStep
<1>6. CASE \E l, u \in Users, i \in Invites : InviteMember(l, u, i)
  BY <1>6, InviteMemberStep
<1>7. ASSUME NEW i \in Invites,
             \/ NotifyInvited(i) \/ RevokeInvite(i) \/ ReviseNotification(i)
             \/ PassExpiry(i) \/ InsertMember(i) \/ SetActiveList(i)
             \/ SetAccepted(i) \/ AnswerLate(i) \/ DeclineInvite(i)
             \/ MarkInviteRead(i) \/ NotifyInviter(i)
             \/ ReadNotification(i) \/ DeleteNotification(i)
      PROVE  TypeOK' /\ SharingInv'
  BY <1>7, NotifyInvitedStep, RevokeInviteStep, ReviseNotificationStep,
     PassExpiryStep, InsertMemberStep, SetActiveListStep, SetAcceptedStep,
     AnswerLateStep, DeclineInviteStep, MarkInviteReadStep,
     NotifyInviterStep, ReadNotificationStep, DeleteNotificationStep
<1>8. CASE UNCHANGED vars
  BY <1>8 DEF vars, Typed, ForeignKeys, OwnersOwn, InvitesNameUsers,
     RequestKnows, SelectedIsMine, UsedIsSettled, InboxIsRevised,
     InviteJoinsOnce
<1>9. QED
  BY <1>1, <1>2, <1>3, <1>4, <1>5, <1>6, <1>7, <1>8 DEF Next

(* Types and foreign keys hold for any number of accounts and invites: the *)
(* cascades of delete_account leave no dangling row.                       *)
THEOREM TypeCorrect == Spec => []TypeOK
<1>1. IInv => TypeOK
  BY DEF IInv
<1>2. QED
  BY <1>1, InvInit, InvStep, PTL DEF Spec

(* The strengthening is an invariant.                                      *)
THEOREM SharingInvariant == Spec => []SharingInv
<1>1. IInv => SharingInv
  BY DEF IInv
<1>2. QED
  BY <1>1, InvInit, InvStep, PTL DEF Spec

(* GET /lists/active shows a list of the user's own memberships, whatever  *)
(* has ended half-way.                                                     *)
THEOREM NobodyIsShownListsOfOthers == Spec => []ShownListIsMine
<1>1. IInv => ShownListIsMine
  BY DEF IInv, Typed, OwnersOwn, ShownListIsMine, Resolved
<1>2. QED
  BY <1>1, InvInit, InvStep, PTL DEF Spec

(* At rest the selected list is a membership of everybody whose removal    *)
(* has not ended before its fallback.                                      *)
THEOREM SelectedListsAreMine == Spec => []ActiveIsMine
<1>1. IInv => ActiveIsMine
  BY DEF IInv, SelectedIsMine, ActiveIsMine
<1>2. QED
  BY <1>1, InvInit, InvStep, PTL DEF Spec

(* Accepting makes a member once per invite.                               *)
THEOREM InvitesAdmitOnce == Spec => []InviteJoinsOnce
<1>1. IInv => InviteJoinsOnce
  BY DEF IInv
<1>2. QED
  BY <1>1, InvInit, InvStep, PTL DEF Spec

(* At rest no unread notification offers an invite that is settled, and    *)
(* the sender of an accepted invite was told.                              *)
THEOREM InboxTellsTheTruth == Spec => []InboxFollowsInvites
<1>1. IInv => InboxFollowsInvites
  BY DEF IInv, InboxIsRevised, InboxFollowsInvites
<1>2. QED
  BY <1>1, InvInit, InvStep, PTL DEF Spec

(* No handler changes the status of an invite that was settled.            *)
THEOREM SettledInvitesAreKept == Spec => SettledInvitesStay
<1>1. ASSUME IInv, [Next]_vars, NEW i \in Invites,
             Status(i) \in Statuses \ {"pending"}
      PROVE  Status(i)' \in {Status(i), "gone"}
  <2> USE <1>1 DEF IInv, Typed, Invite, RequestKnows
  <2>1. CASE DeleteUser
    BY <2>1 DEF DeleteUser, Gone
  <2>2. CASE \E u \in Users : DeleteInvites(u)
    BY <2>2 DEF DeleteInvites, Gone
  <2>3. CASE \E l, u \in Users, j \in Invites : InviteMember(l, u, j)
    BY <2>3 DEF InviteMember, NoInvite
  <2>4. CASE \E j \in Invites : RevokeInvite(j) \/ AnswerLate(j) \/ DeclineInvite(j)
    BY <2>4 DEF RevokeInvite, AnswerLate, DeclineInvite, MayAnswer, SetStatus
  <2>5. CASE \E j \in Invites : SetAccepted(j)
    BY <2>5 DEF SetAccepted, At, SetStatus
  <2>6. CASE \E j \in Invites : PassExpiry(j)
    BY <2>6 DEF PassExpiry
  <2>7. CASE UNCHANGED invites
    BY <2>7
  <2>8. QED
    BY <2>1, <2>2, <2>3, <2>4, <2>5, <2>6, <2>7 DEF Next, vars,
       FallbackSelected, RequestDies, SignUp, GetActiveList, DeleteMember,
       SelectActiveList, NotifyInvited, ReviseNotification, InsertMember,
       SetActiveList, MarkInviteRead, NotifyInviter, ReadNotification,
       DeleteNotification
<1>2. IInv /\ [Next]_vars =>
        [\A i \in Invites : Status(i) \in Statuses \ {"pending"}
                               => Status(i)' \in {Status(i), "gone"}]_vars
  BY <1>1
<1>3. QED
  BY <1>2, InvInit, InvStep, PTL DEF Spec, SettledInvitesStay
=============================================================================
