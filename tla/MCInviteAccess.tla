--------------------------- MODULE MCInviteAccess ---------------------------
\* Instances of InviteAccess for TLC: one campaign, or two, of one invite each.
EXTENDS InviteAccess, TLC

CONSTANTS i1, i2, k1, k2
OneInvite == i1 :> k1
OneInviteEach == (i1 :> k1) @@ (i2 :> k2)
=============================================================================
