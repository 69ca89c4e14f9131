SPECIFICATION ReconciledSpec
CONSTANTS
  Accounts = {u1}
  i1 = i1
  i2 = i2
  k1 = k1
  k2 = k2
  Invites = {i1, i2}
  Campaigns = {k1, k2}
  CampaignOf <- OneInviteEach
  Redemptions = {c1, c2}
  Nobody = Nobody
  MaxCap = 1
  MaxEpoch = 1
PROPERTY SeatsAreHonoured
CHECK_DEADLOCK FALSE
