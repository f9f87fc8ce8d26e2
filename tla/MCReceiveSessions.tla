------------------------- MODULE MCReceiveSessions -------------------------
EXTENDS ReceiveSessions, TLC

CONSTANTS s1, s2, d1, d2

KindOf == (d1 :> "conversion") @@ (d2 :> "direct")
ChannelOf == (s1 :> "web") @@ (s2 :> "telegram")
=============================================================================
