---------------------------- MODULE MCChainState ----------------------------
(* Small block trees for ChainState.                                       *)
EXTENDS ChainState, TLC

CONSTANTS t1, t2

\* 1 - 2 - 3, and a rival 4 of block 2.
MCRival       == 1 :> 0 @@ 2 :> 1 @@ 3 :> 2 @@ 4 :> 1
MCRivalHeight == 0 :> 0 @@ 1 :> 1 @@ 2 :> 2 @@ 3 :> 3 @@ 4 :> 2
MCRivalWork   == 0 :> 1 @@ 1 :> 2 @@ 2 :> 3 @@ 3 :> 4 @@ 4 :> 3
MCRivalChain  == 0 :> {0} @@ 1 :> {0, 1} @@ 2 :> {0, 1, 2} @@ 3 :> {0, 1, 2, 3} @@ 4 :> {0, 1, 4}

\* The same, and 5 on 3.
MCLong       == MCRival @@ 5 :> 3
MCLongHeight == MCRivalHeight @@ 5 :> 4
MCLongWork   == MCRivalWork @@ 5 :> 5
MCLongChain  == MCRivalChain @@ 5 :> {0, 1, 2, 3, 5}

\* 1 - 2, and 3 - 4, where 3 has less work than 1 and 4 as much as 2.
MCFork       == 1 :> 0 @@ 2 :> 1 @@ 3 :> 0 @@ 4 :> 3
MCForkHeight == 0 :> 0 @@ 1 :> 1 @@ 2 :> 2 @@ 3 :> 1 @@ 4 :> 2
MCForkWork   == 0 :> 1 @@ 1 :> 3 @@ 2 :> 4 @@ 3 :> 2 @@ 4 :> 4
MCForkChain  == 0 :> {0} @@ 1 :> {0, 1} @@ 2 :> {0, 1, 2} @@ 3 :> {0, 3} @@ 4 :> {0, 3, 4}

MCMinReverse == -1
=============================================================================
