----------------------------- MODULE TicketPool -----------------------------
(***************************************************************************)
(* One node's ticket pool and the active chain it is derived from          *)
(* (src/src/validation.cpp: UpdateTip, ConnectTip, DisconnectTip,          *)
(* FlushStateToDisk, LoadTicketpool, updateTicketpool;                     *)
(* src/src/init.cpp: ThreadImport and the last steps of AppInitMain).      *)
(*                                                                         *)
(* chainActive is the sequence of blocks of the active chain, genesis      *)
(* first.  A block is its hash digits, its seed and the hashes of the      *)
(* ticket purchases in it.  The pool only lives in memory: a restart       *)
(* rebuilds it from the chain that was last flushed to disk.               *)
(***************************************************************************)
EXTENDS Tickets, Sequences

CONSTANTS
    Blocks,                    \* contents a block may have
    Genesis,                   \* the block at height 0
    TICKETPOOL_HEIGHT_LATENCY, \* 64: a ticket enters the pool this many blocks late
    TICKET_VALVE,              \* 5000: lucky tickets sign blocks above this height
    TICKET_POOL_MAX_SIZE,      \* 2048: a ticket expires at this age
    MIN_BLOCKS_TO_KEEP,        \* 288: blocks below the tip that pruning spares
    fPruneMode,                \* whether the node deletes old block files
    MaxHeight                  \* bound on the height of the active chain

ASSUME PoolAssumption ==
    /\ Genesis \in [hash : HexString, seed : Seed, buys : SUBSET Nat]
    /\ Blocks \subseteq [hash : HexString, seed : Seed, buys : SUBSET Nat]
    /\ TICKETPOOL_HEIGHT_LATENCY \in Nat \ {0}
    /\ TICKET_VALVE \in Nat
    /\ TICKET_VALVE >= TICKETPOOL_HEIGHT_LATENCY
    /\ TICKET_POOL_MAX_SIZE \in Nat
    /\ TICKET_POOL_MAX_SIZE > TICKETPOOL_HEIGHT_LATENCY
    /\ MIN_BLOCKS_TO_KEEP \in Nat
    /\ MIN_BLOCKS_TO_KEEP > TICKETPOOL_HEIGHT_LATENCY
    /\ fPruneMode \in BOOLEAN
    /\ MaxHeight \in Nat

VARIABLES
    chainActive,   \* the active chain
    diskChain,     \* the chain the flushed chain state on disk stands for
    pruned,        \* blocks up to this height are no longer on disk
    ticket_pool,   \* the pool: a set of tickets
    load_height,   \* height whose tickets were pushed last
    phase,         \* "import" (ThreadImport), "load" (LoadTicketpool), "run" (floadok)
    loadNext,      \* LoadTicketpool's loop variable i
    deepRollback   \* history: a disconnect reached load_height since the pool was loaded

vars == <<chainActive, diskChain, pruned, ticket_pool, load_height, phase, loadNext, deepRollback>>

Height(chain) == Len(chain) - 1
BlockAt(chain, height) == chain[height + 1]

BoughtOn(chain) == UNION {chain[i].buys : i \in 1 .. Len(chain)}

-----------------------------------------------------------------------------
(* updateTicketpool.                                                       *)

\* The part after the early returns: block is the one at ticket_height, prev
\* the one below it, whose hash getLuckyIndex(block_height - 1, .) reads.  The
\* result is the set of the draws that are possible.
LuckyToDelete(pool, prev, block, block_height) ==
    IF block_height > TICKET_VALVE THEN LuckyTickets(pool, prev.hash, block.seed) ELSE {{}}

DeleteLucky(pool, lucky) ==
    {u \in pool : \A t \in lucky : u.ticketTxHash # t.ticketTxHash}

\* Mutant: the age is off by one.
DeleteExpiredLate(pool, block_height) ==
    IF block_height - TICKETPOOL_HEIGHT_LATENCY >= TICKET_POOL_MAX_SIZE
    THEN ticketDelByHeight(pool, block_height - TICKET_POOL_MAX_SIZE - 1)
    ELSE pool

DeleteExpired(pool, block_height) ==
    IF block_height - TICKETPOOL_HEIGHT_LATENCY >= TICKET_POOL_MAX_SIZE
    THEN ticketDelByHeight(pool, block_height - TICKET_POOL_MAX_SIZE)
    ELSE pool

\* ticketPush of every purchase of the block; one that is already in the pool
\* stays as it is.
PushBought(pool, block, height) ==
    pool \cup {Ticket(h, height) : h \in {b \in block.buys :
                                            \A u \in pool : u.ticketTxHash # b}}

\* The pool after one update, when lucky is what was drawn.
Updated(pool, lucky, block, block_height) ==
    PushBought(DeleteExpired(DeleteLucky(pool, lucky), block_height), block,
               block_height - TICKETPOOL_HEIGHT_LATENCY)

UpdatedPools(pool, prev, block, block_height) ==
    {Updated(pool, lucky, block, block_height) :
        lucky \in LuckyToDelete(pool, prev, block, block_height)}

\* Mutant: a height that is already loaded is loaded again.
updateTicketpoolTwice(chain, block_height) ==
    LET ticket_height == block_height - TICKETPOOL_HEIGHT_LATENCY
    IN  \/ /\ ticket_height <= 0 \/ ticket_height < load_height
           /\ ticket_pool' = IF block_height <= load_height
                             THEN ticketDelByHeight(ticket_pool, block_height)
                             ELSE ticket_pool
           /\ UNCHANGED load_height
        \/ /\ ticket_height > 0 /\ ticket_height >= load_height
           /\ ticket_pool' \in UpdatedPools(ticket_pool, BlockAt(chain, ticket_height - 1),
                                            BlockAt(chain, ticket_height), block_height)
           /\ load_height' = ticket_height

\* Mutant: a rollback leaves the tickets of the new tip in the pool.
updateTicketpoolKeeps(chain, block_height) ==
    LET ticket_height == block_height - TICKETPOOL_HEIGHT_LATENCY
    IN  \/ /\ ticket_height <= load_height \/ ticket_height <= pruned
           /\ UNCHANGED <<ticket_pool, load_height>>
        \/ /\ ticket_height > load_height
           /\ ticket_height > pruned
           /\ ticket_pool' \in UpdatedPools(ticket_pool, BlockAt(chain, ticket_height - 1),
                                            BlockAt(chain, ticket_height), block_height)
           /\ load_height' = ticket_height

\* chain is chainActive when the function is called, which for UpdateTip is
\* after SetTip.
updateTicketpool(chain, block_height) ==
    LET ticket_height == block_height - TICKETPOOL_HEIGHT_LATENCY
    IN  \/ /\ ticket_height <= load_height
           /\ ticket_pool' = IF block_height <= load_height
                             THEN ticketDelByHeight(ticket_pool, block_height)
                             ELSE ticket_pool
           /\ UNCHANGED load_height
        \/ /\ ticket_height > load_height
           /\ ticket_height <= pruned           \* "Block not found on disk"
           /\ UNCHANGED <<ticket_pool, load_height>>
        \/ /\ ticket_height > load_height
           /\ ticket_height > pruned
           /\ ticket_pool' \in UpdatedPools(ticket_pool, BlockAt(chain, ticket_height - 1),
                                            BlockAt(chain, ticket_height), block_height)
           /\ load_height' = ticket_height

-----------------------------------------------------------------------------
Init ==
    /\ chainActive = <<Genesis>>
    /\ diskChain = <<Genesis>>
    /\ pruned = -1
    /\ ticket_pool = {}
    /\ load_height = 0
    /\ phase = "import"
    /\ loadNext = 1
    /\ deepRollback = FALSE

\* UpdateTip with the new tip at the end of chain; floadok is phase = "run".
UpdateTip(chain) ==
    /\ chainActive' = chain
    /\ IF Height(chain) > TICKETPOOL_HEIGHT_LATENCY /\ phase = "run"
       THEN updateTicketpool(chain, Height(chain))
       ELSE UNCHANGED <<ticket_pool, load_height>>

\* FlushStateToDisk writes when the cache is large or old, or not at all.
MaybeFlush(chain) == diskChain' \in {diskChain, chain}

\* A transaction identifier occurs once on a chain, so a block buys tickets
\* that no block below it bought.
ConnectTip(block) ==
    /\ phase \in {"import", "run"}
    /\ Height(chainActive) < MaxHeight
    /\ block.buys \cap BoughtOn(chainActive) = {}
    /\ UpdateTip(Append(chainActive, block))
    /\ MaybeFlush(Append(chainActive, block))
    /\ UNCHANGED <<pruned, phase, loadNext, deepRollback>>

\* Disconnecting needs the block of the tip on disk.
DisconnectTip ==
    LET chain == SubSeq(chainActive, 1, Len(chainActive) - 1)
    IN  /\ phase \in {"import", "run"}
        /\ Height(chainActive) > 0
        /\ Height(chainActive) > pruned
        /\ UpdateTip(chain)
        /\ MaybeFlush(chain)
        /\ deepRollback' = (deepRollback \/ (phase = "run" /\ Height(chain) <= load_height))
        /\ UNCHANGED <<pruned, phase, loadNext>>

\* FindFilesToPrune / FindFilesToPruneManual; pruning is part of a flush, and
\* of the start (PruneAndFlush).
Prune ==
    /\ fPruneMode
    /\ phase \in {"import", "run"}
    /\ \E height \in (pruned + 1) .. (Height(chainActive) - MIN_BLOCKS_TO_KEEP) :
          pruned' = height
    /\ diskChain' = chainActive
    /\ UNCHANGED <<chainActive, ticket_pool, load_height, phase, loadNext, deepRollback>>

\* ThreadImport is done (fTipOk) and AppInitMain enters LoadTicketpool.
StartLoad ==
    /\ phase = "import"
    /\ phase' = "load"
    /\ loadNext' = 1
    /\ UNCHANGED <<chainActive, diskChain, pruned, ticket_pool, load_height, deepRollback>>

\* One iteration of LoadTicketpool's loop over the active chain.
LoadStep ==
    /\ phase = "load"
    /\ loadNext <= Height(chainActive)
    /\ updateTicketpool(chainActive, loadNext)
    /\ loadNext' = loadNext + 1
    /\ UNCHANGED <<chainActive, diskChain, pruned, phase, deepRollback>>

\* Mutant: the loop stops before the tip.
FinishLoadEarly ==
    /\ phase = "load"
    /\ loadNext >= Height(chainActive)
    /\ phase' = "run"
    /\ UNCHANGED <<chainActive, diskChain, pruned, ticket_pool, load_height, loadNext, deepRollback>>

FinishLoad ==
    /\ phase = "load"
    /\ loadNext > Height(chainActive)
    /\ phase' = "run"
    /\ UNCHANGED <<chainActive, diskChain, pruned, ticket_pool, load_height, loadNext, deepRollback>>

\* Mutant: load_height starts below the genesis block.
RestartBelowGenesis ==
    /\ chainActive' = diskChain
    /\ ticket_pool' = {}
    /\ load_height' = -1
    /\ phase' = "import"
    /\ loadNext' = 1
    /\ deepRollback' = FALSE
    /\ UNCHANGED <<diskChain, pruned>>

\* The process stops, cleanly or not, and starts again from the flushed chain.
Restart ==
    /\ chainActive' = diskChain
    /\ ticket_pool' = {}
    /\ load_height' = 0
    /\ phase' = "import"
    /\ loadNext' = 1
    /\ deepRollback' = FALSE
    /\ UNCHANGED <<diskChain, pruned>>

Next ==
    \/ \E block \in Blocks : ConnectTip(block)
    \/ DisconnectTip
    \/ Prune
    \/ StartLoad
    \/ LoadStep
    \/ FinishLoad
    \/ Restart

Spec == Init /\ [][Next]_vars

-----------------------------------------------------------------------------
(* Properties.                                                             *)

\* Type invariant: heights are never negative (pruned = -1: nothing is
\* deleted), a chain has its genesis block, and load_height, loadNext and the
\* tickets' heights stay in range through rollbacks and restarts.
TypeOK ==
    /\ chainActive \in Seq(Blocks \cup {Genesis})
    /\ Len(chainActive) > 0
    /\ diskChain \in Seq(Blocks \cup {Genesis})
    /\ Len(diskChain) > 0
    /\ pruned \in Nat \cup {-1}
    /\ ticket_pool \subseteq [ticketTxHash : Nat, ticketHeight : Nat]
    /\ load_height \in Nat
    /\ phase \in {"import", "load", "run"}
    /\ loadNext \in Nat \ {0}
    /\ deepRollback \in BOOLEAN

\* The pools that one more block can lead to.
ReplayStep(pools, chain, h) ==
    UNION {UpdatedPools(pool, BlockAt(chain, h - 1), BlockAt(chain, h),
                        h + TICKETPOOL_HEIGHT_LATENCY) : pool \in pools}

\* The pools that are possible after each of the heights 0 .. n when the chain
\* is replayed from genesis without interruption.  On a node that starts with
\* this chain LoadTicketpool stops at n = FreshHeight(chain).
Replay(chain, n) ==
    LET pools[h \in 0 .. n] == IF h = 0 THEN {{}} ELSE ReplayStep(pools[h - 1], chain, h)
    IN  pools

FreshHeight(chain) ==
    IF Height(chain) > TICKETPOOL_HEIGHT_LATENCY THEN Height(chain) - TICKETPOOL_HEIGHT_LATENCY
                                                 ELSE 0

\* Every draw up to height n reads digits of a hash only.  Seeds below
\* 2 ^ (SeedBits - 1) always do; nodes count them up from 0.
SeedsReadable(chain, n) == \A h \in 1 .. n : Unreadable(BlockAt(chain, h).seed) = {}

\* Nodes agree on who may sign only if the pool is a function of the chain and
\* of load_height.  However connects, disconnects, crashes and reloads are
\* interleaved, the pool is a replay of the present chain up to load_height,
\* and the only one there is as long as the draws read nothing but digits of
\* hashes; unless a rollback reached load_height (a reorganisation of
\* TICKETPOOL_HEIGHT_LATENCY blocks or more) or old blocks were deleted.
PoolFollowsChain ==
    ~deepRollback /\ pruned = -1 =>
        LET pools == Replay(chainActive, load_height)[load_height]
        IN  /\ ticket_pool \in pools
            /\ SeedsReadable(chainActive, load_height) => pools = {ticket_pool}

\* "when a fork rolls blocks back, the tickets deleted from the pool have to be
\* put back" (the todo in updateTicketpool): the pool of a running node is the
\* one a node that starts with the same chain loads.
PoolAsFresh ==
    phase = "run" /\ pruned = -1 /\ SeedsReadable(chainActive, FreshHeight(chainActive)) =>
        Replay(chainActive, FreshHeight(chainActive))[FreshHeight(chainActive)] = {ticket_pool}

\* Every ticket bought above the latency height lies in a block below the tip
\* of the active chain: after a reorganisation, however deep, pruned or not, no
\* such ticket of the abandoned branch can sign, because updateTicketpool has
\* deleted the tickets of a loaded block by the time that block is
\* disconnected.  UpdateTip does not call it at the latency height and below:
\* tickets bought there are on the chain as long as no rollback reached
\* load_height.
TicketsOnChain ==
    \A t \in ticket_pool :
        t.ticketHeight > TICKETPOOL_HEIGHT_LATENCY \/ ~deepRollback =>
            /\ t.ticketHeight \in 1 .. Height(chainActive) - 1
            /\ t.ticketTxHash \in BlockAt(chainActive, t.ticketHeight).buys

\* Once the node runs on a complete block store, load_height is never behind
\* the height that the tip calls for, whatever was rolled back, crashed and
\* loaded again.  With PoolFollowsChain: unless a rollback reached load_height,
\* signatures are checked against a pool with the tickets of every block up to
\* that height.  (After such a rollback load_height also counts heights whose
\* new blocks were never read.)
PoolNeverBehind ==
    phase = "run" /\ pruned = -1 =>
        load_height >= Height(chainActive) - TICKETPOOL_HEIGHT_LATENCY

\* Tickets bought at or above the latency height leave the pool at age
\* TICKET_POOL_MAX_SIZE (the block that connects then refunds them), unless a
\* rollback reached load_height or old blocks were deleted.
ExpiredTicketsLeave ==
    ~deepRollback /\ pruned = -1 =>
        \A t \in ticket_pool :
            t.ticketHeight >= TICKETPOOL_HEIGHT_LATENCY =>
                t.ticketHeight > load_height + TICKETPOOL_HEIGHT_LATENCY - TICKET_POOL_MAX_SIZE

\* The sets of tickets that can be asked to sign a block on top of the present
\* chain, given its seed (ProcessNewBlock, SIGNNEWBLOCKHEADER, CreateNewBlock).
Signers(seed) ==
    LuckyTickets(ticket_pool,
                 BlockAt(chainActive, Height(chainActive) - TICKETPOOL_HEIGHT_LATENCY).hash, seed)

\* "delete previous lucky ticket / get nowaday block sig ticket": when a block
\* that connects moves the pool on, the tickets that signed it leave the pool.
\* Seeds whose draw is not determined are excepted.
SignersLeave ==
    [][\A block \in Blocks :
          /\ phase = "run" /\ ~deepRollback
          /\ chainActive' = Append(chainActive, block)
          /\ load_height' = load_height + 1
          /\ Height(chainActive) >= TICKET_VALVE
          /\ Unreadable(block.seed) = {}
          => \A signers \in Signers(block.seed) : signers \cap ticket_pool' = {}]_vars
=============================================================================
