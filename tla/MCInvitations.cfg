CONSTANTS
  Requests = {r, s}
  MaxResends = 1
  MaxPerWindow = 2
  MaxInvitations = 3
SPECIFICATION InviteSpec
INVARIANTS InviteTypeOK OwnersAnswered OnePending MailsBounded
SYMMETRY Symmetry
CONSTRAINT FewOfAll
CHECK_DEADLOCK FALSE
