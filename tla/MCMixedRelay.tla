---------------------------- MODULE MCMixedRelay ----------------------------
(* Small instances of MixedRelay.                                           *)
EXTENDS MixedRelay

CONSTANTS n1, n2, n3

\* Two signers, a different first one for the next seed.
MCOwner(height, seed, k) == IF (seed + k) % 2 = 0 THEN n1 ELSE n2

\* The signers differ from height to height.
MCOwnerByHeight(height, seed, k) == IF (height + seed + k) % 2 = 0 THEN n1 ELSE n2

\* With seed 0 the second signer is offline.
MCOwnerOffline(height, seed, k) == IF seed = 0 /\ k = 2 THEN NoOne ELSE MCOwner(height, seed, k)
=============================================================================
