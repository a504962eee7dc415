SPECIFICATION PairingSpec
CONSTANTS
  Device <- Two
  Desktop <- One
  Nothing = Nothing
  MaxSeen = 1
  MaxOffers = 2
  MaxChanges = 1
INVARIANTS InvitedOnce AttemptBacked NoSilentWait
CHECK_DEADLOCK FALSE
