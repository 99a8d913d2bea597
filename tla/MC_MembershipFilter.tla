------------------------- MODULE MC_MembershipFilter -------------------------
EXTENDS MembershipFilter, TLC

CONSTANTS a1, a2, f1, f2

\* two buffer addresses that the QF maps to different fingerprints
MCHash == (a1 :> f1) @@ (a2 :> f2)

=============================================================================
