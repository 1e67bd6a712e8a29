CONSTANTS
  anna = anna
  bruno = bruno
  i1 = i1
  i2 = i2
  None = None
  Users = {anna, bruno}
  Invites = {i1, i2}
  Failures = TRUE
SPECIFICATION Spec
CHECK_DEADLOCK FALSE
CONSTRAINT FewHalfway
SYMMETRY Symmetry
INVARIANTS ShownListIsMine ActiveIsMine InviteJoinsOnce InboxFollowsInvites SharingInv
PROPERTIES SettledInvitesStay
