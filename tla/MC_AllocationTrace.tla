------------------------- MODULE MC_AllocationTrace -------------------------
EXTENDS AllocationTrace

=============================================================================
