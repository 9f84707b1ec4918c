CONSTANTS
  Names = {a, b}
  NoName = none
  Clients <- TwoClients
  MaxTokens = 2
  MaxSignals = 1
  MaxFaults = 1
SPECIFICATION FairSpec
INVARIANTS TypeOK OnlineIsAccepted VerifiedHasProfile
PROPERTIES NoLogoutUnasked RestartKeepsAccounts LoginEnds
