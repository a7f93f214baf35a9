--------------------------- MODULE MCGuestSession ---------------------------
(* GuestSession with two interchangeable locks.                            *)
EXTENDS GuestSession, TLC

CONSTANTS l1, l2

MCLocks == {l1, l2}

LockSymmetry == Permutations(MCLocks)

=============================================================================
