# Verification of the TSC node (PoW with ticket signatures)

The repository is a full node of the Bitcoin/Qtum family: a block tree with
proof of work, a UTXO set, a contract virtual machine, a peer-to-peer layer, a
wallet and RPC. What it adds is a second condition on a block. Users buy
*tickets* with `OP_BUYTICKET` transactions; from height `TICKET_VALVE` on, five
*lucky tickets*, drawn from the pool of live tickets, must sign a mined block
before it can connect. A mined block is therefore passed round unsigned, with
timeouts, until it is complete or given up.

This directory holds TLA+ models of the parts whose correctness depends on the
order in which things happen, TLC configurations that check them on small
instances, and TLAPS proofs about the ticket pool.

## 1. The system and its parts

| Part | State | Operations that change it | Modules |
|---|---|---|---|
| Ticket pool, draw (`ticketpool.cpp`) | `ticket_pool`, `load_height` | push, delete, delete by height | `Tickets`, `TicketPool` |
| Pool upkeep (`validation.cpp`: `UpdateTip`, `updateTicketpool`, `LoadTicketpool`) | the pool, `chainActive`, what is flushed, what is pruned, `floadok` | connect, disconnect, flush, prune, load, restart | `TicketPool` |
| Signature relay (`net_processing.cpp`, `net.cpp`, `rpc/mining.cpp`, `rpcwallet.cpp`) | `nRelayingBlock`, `nRelayingTime`, `nNextChoice`, `nDownLoadingRelayingHash`, per peer `nMixedPowHeader` | handlers of `POWNEWBLOCKHEADER`, `GETPOWNEWBLOCK`, `POWNEWBLOCK`, tail of `GETHEADERS`, `ProcessNetBlock`, `getwork`, `submitblock`, timeout, reconnection | `MixedRelay` |
| Block tree and active chain (`validation.cpp`, `chain.h`, `rpc/blockchain.cpp`) | flags of `CBlockIndex`, `setBlockIndexCandidates`, `mapBlocksUnlinked`, `g_failed_blocks`, sequence ids, the tip | headers, blocks, `ActivateBestChain`, `invalidateblock`, `reconsiderblock`, `preciousblock`, `pruneblockchain`, restart | `ChainState` |
| Block connection, rewards, refunds | coins, payouts to tickets | `ConnectBlock`, `CheckReward` | only chain and pool |
| Block templates (`miner.cpp`) | template, seed | `CreateNewBlock` | tip and seed, in `MixedRelay` |
| Coins cache, UTXO database | cache entries with FRESH/DIRTY, head blocks | `AddCoin`, `SpendCoin`, `BatchWrite`, `ReplayBlocks` | planned |
| Memory pool | ancestor and descendant sums | add, remove, reorganise | planned |
| Block download, orphan blocks | blocks in flight, orphan map | request, receive, stall, evict | planned |
| Check queue, scheduler, validation signals | queue, counters | add, loop, wait | planned |
| Version bits, retarget, Merkle trees | pure functions | | planned |
| Address manager | tried and new tables | add, good, attempt | planned |
| Contract execution, script interpreter | | | not planned: large pure functions |
| Wallet, RPC/HTTP, GUI, libraries | | | not planned: bookkeeping, I/O, third party |

How the modelled parts interact: `ChainState` decides which chain is active;
each connected or disconnected tip calls `UpdateTip`, which moves the pool
(`TicketPool`); the pool and the chain determine the signers that `MixedRelay`
waits for (`Owner` there); a complete block goes back to `ProcessNewBlock`. The
three are checked separately. The interface between them is narrow: a sequence
of connects and disconnects, and a function from height and seed to owners.

The behaviours that are hard to test, and the properties that would catch them
going wrong, are the `hazards` of `PROJECT.json`, each at its line: a pool that
is kept up to date incrementally through reorganisations, crashes and reloads;
signatures, timeouts and ordinary blocks racing; globals shared by two threads;
a loop that gives up `cs_main` and goes on with a cached target; blocks that
arrive before their ancestors.

## 2. The modules

**`Tickets`** (operators). A ticket is a transaction hash and a height; hashes
are naturals because the pool's first index orders them. `ticketPush`,
`ticketDel`, `ticketDelByHeight` and `ticketAt` are the methods of
`ticketPool`. `getLuckyIndex` keeps the arithmetic of the code: windows of four
hexadecimal digits, shifted by the seed modulo `SeedMod`, modulo the size less
`NLucky`, and no ticket at all when the pool is not larger than `NLucky`. A seed
is an unsigned number of `SeedBits` bits that `getLuckyIndex` takes as a signed
one, so the upper half of the seeds shifts the windows the other way
(`SeedShift`): one may be cut short by the end of the hash, or start behind it,
and then `sscanf` may leave `idata` uninitialised (`Unreadable`). The result is
therefore a set of lists, with one element where all windows are digits.
`LuckyTickets` is the draw from a shrinking copy that every caller does.

**`TicketPool`** (state machine). `chainActive` is a sequence of blocks (hash
digits, seed, purchases), `diskChain` the chain a restart finds, `pruned` the
highest deleted block. `UpdateTip` calls `updateTicketpool` only when
`floadok` (`phase = "run"`). `updateTicketpool` keeps the three exits of the
code: already loaded (with the deletion for rollbacks), block not on disk,
normal. The normal one deletes the drawn and the expired tickets and pushes the
purchases of the block `TICKETPOOL_HEIGHT_LATENCY` below. `LoadStep` is one
iteration of `LoadTicketpool`. `ConnectTip` and `DisconnectTip` cannot happen
during `"load"`: the message handler waits for `floadok` (`net.cpp:2022`) and
RPC is in warm-up until after `LoadTicketpool` (`init.cpp:1878`).
`deepRollback` is a history variable: a disconnect has reached `load_height`.

**`MixedRelay`** (state machine, several nodes). A block is hash, parent,
height, seed, verdict of `ProcessNewBlock` and number of signatures. Messages
travel on a FIFO per ordered pair of nodes; a lost connection empties both
directions and resets what each side remembers of the other. A node has two
threads, one for messages and one for the miner's calls, and the globals of the
relay have no lock. A handler makes its tests in one step and leaves the
statements that follow in `todo`; each of them (store the block, the time, the
seed; sign and process; send; drop) is a step of its own (`Step`). The constant
`Preempt` says before which statements other threads may run. With all of them
(`relay_race`) the model has every interleaving of statements; with `{"drop"}`,
the other runs, a miner's call falls between handlers, or after
`ProcessNewBlock` and before the drop of the relayed block in
`ProcessNetBlock`, where the code may spend seconds. `SignersAgree` is the check
of `ProcessNewBlock` against the signers of the *present* tip. `PromptSpec` is
the same system with a network faster than the timeouts.

**`ChainState`** (state machine, several threads). Every action is one critical
section of `cs_main`. `ActivateBestChain` is one iteration of the loop:
`FindMostWorkChain` (only if there is no cached target),
`ActivateBestChainStep`, the exit test; `pindexMostWork` lives on between
iterations. The flags of `nStatus` are sets of blocks. The block tree, the
blocks that `ContextualCheckBlock` and `ConnectBlock` accept, those that may be
read wrongly from disk (`Corruptible`; `InvalidBlockFound` does not mark them)
and the calls users make are constants.

**`InductionLemmas`, `TicketPoolProofs`**: theorems, see section 4.
`MCTicketPool`, `MCMixedRelay`, `MCChainState` give the constants their values.

### Abstractions

- `TicketPool`: prices, owners and refunds are left out; a transaction occurs
  once on a chain; a crash returns to the last flushed chain; a flush may or may
  not happen at each tip. The wait of `LoadTicketpool` with `-txindex` is left
  out.
- `MixedRelay`: proof of work always passes; signatures are counted, not
  verified; blocks are fetched in the order of the peer's chain (the orphan map
  is left out); branches are shorter than the latency, so that the owner of a
  slot is a function of height and seed; the tests at the start of a handler
  are one step, and a statement is one step although it copies a whole block;
  seeds are natural numbers (the wrap of `nNextChoice` after 2^32 timeouts is
  left out).
- `ChainState`: `pindexBestHeader` and `pindexBestInvalid`, which feed warnings
  and requests only, are left out; siblings waiting in `mapBlocksUnlinked` are
  linked in any order; everything is flushed before a restart; automatic
  pruning is the same step as `pruneblockchain`; the batches of 32 blocks of
  `ActivateBestChainStep` do not show on trees of this size; assertions of the
  code are properties rather than guards, except the one at
  `validation.cpp:5198`, which ends the process in `RefuseHeader`; every block
  passes the signature check of `ProcessNewBlock`, which is `MixedRelay`'s.
  `RewindBlockIndex` is left out.

## 3. What TLC checks

`PROJECT.json` names the module and the `.cfg` of each run.

| Run | Instance | Distinct states | Shows |
|---|---|---|---|
| `ticket_pool` | 2 lucky tickets, latency 2, valve 3, expiry age 3, chains up to height 5, pruning allowed | 1.42 million | Pool = replay of the chain up to `load_height`, no ticket of an abandoned branch, `load_height` up to date with the tip, no expired ticket |
| `ticket_pool_rollback` | the same, no pruning | violation | After a rollback the pool is not what a fresh node loads |
| `ticket_pool_signers` | the same, no pruning | violation | The tickets that leave are not those that signed |
| `relay` | 2 nodes, 2 signatures, 2 blocks, an offline signer, one lost connection, blocks that are refused | 360,332 | The seed stays ahead of the block; no signature is lost; every relayed block is settled |
| `relay_race` | the same, threads interleaved at every statement | violation | A block is left without a timer |
| `relay_prompt` | 3 nodes, 2 signatures, 1 block, all three verdicts | 72,798 | A valid block collects its signatures and connects everywhere |
| `relay_fork` | 2 nodes, 1 signature, 4 blocks, signers independent of the height | 191,327 | No signatures are collected for a block whose place is taken; forks are resolved |
| `relay_branches` | the same, signers depend on the height | violation | Forks are not resolved |
| `relay_download` | as `relay` | violation | A header is skipped as "being downloaded" when nothing is under way |
| `chain` | 1 thread, branches 1-2 and 3-4 with less work in 3 than in 1 and as much in 4 as in 2; 4 fails `ConnectBlock`, 3 may be misread; `invalidateblock`, pruning, restarts, a minimum chain work | 506,570 | Best chain active, no failed block on it, candidates complete, waiting blocks kept and linked in every order of arrival, no work lost without a new search |
| `chain_threads` | 2 threads, 1-2-3-5 and a rival 4 of 2; 2 fails `ConnectBlock`, 5 `ContextualCheckBlock`; `preciousblock` with its counter at the limit, `reconsiderblock` | 74,720 | There is always a candidate; `ActivateBestChain` returns on both threads |
| `chain_stale` | 2 threads, 1-2-3 and a rival of 2 | violation | A stale target undoes a longer chain |

Bounds. `TICKETPOOL_HEIGHT_LATENCY`, `TICKET_VALVE` and `TICKET_POOL_MAX_SIZE`
are scaled down together, keeping their order, so that chains of five blocks
pass the latency, the valve and the expiry age, and draw tickets with different
seeds; purchases come in bundles so that the pool exceeds `NLucky`. A hash has
fourteen digits, enough for two windows at every seed that is not negative; of
the four-bit seeds in use one is small, one gives a window that the end of the
hash cuts short and one a window behind it. Limits of 0 and 1 ticks distinguish
"before the minimum", "between" and "after the maximum". In `chain`, two
branches of two blocks are the smallest tree in which a switch is given up
halfway, passes through less work, and finds a pruned block on the side branch.
In `chain_threads`, 2 - 3 - 5 is the shortest chain on which `AcceptBlockHeader`
walks from a header over an unmarked block to a failed one; `MaxSequenceId = 5`
lets three blocks be linked. `MinReverseSequenceId = -1` puts the counter of
`preciousblock` at its limit from the start: every precious block gets the same
sequence id and the address decides. `MaxHeight`, `MaxBlocks`, `MaxDrops` and
`MaxSequenceId` bound the behaviours and are otherwise not in the code.
Deadlock is checked in the `ticket_pool` runs; the other models may stop (all
blocks mined, nobody calls, the node has shut down).

Fairness. `MixedRelay`: weak fairness of each peer's handler, of the statements
a thread has begun, of the timeout and of the clock, because
`ThreadMessageHandler` serves every peer and tests the timeout in every pass;
none for miners and connections. `PromptSpec` has no clock and no timeout.
`ChainState`: a thread inside `ActivateBestChain` gets `cs_main` again;
`ActivationEnds` excepts behaviours in which users change the marks or the order
of blocks for ever, and is checked with sound reads, since a block that is
misread every time keeps the loop going.
`TicketPool` has no liveness property and no fairness.

### Deviations

Six runs end in a violation and are the `findings` of `PROJECT.json`:

1. `ticket_pool_rollback`: `updateTicketpool` does not undo what a disconnected
   block did to the pool (the todo at `validation.cpp:6799`). Until the chain is
   as high again, and for good if the rollback reached `load_height`, the pool
   is not the one a fresh node loads. `PoolFollowsChain` says what it is
   instead: a replay up to `load_height`, which stays where it was.
2. `ticket_pool_signers`: the tickets deleted with a block are drawn with the
   seed of the block `TICKETPOOL_HEIGHT_LATENCY` below it, the signers with its
   own seed (`validation.cpp:6825`).
3. `relay_race`: the timeout clears the block and stops the timer in two
   statements (`net.cpp:2075`). A block the miner submits in between loses its
   timer; the node then holds it, and does not mine, until another block comes.
4. `relay_branches`: blocks of another branch are checked against the signers
   for the height of the tip (`validation.cpp:5402`), so a node refuses a longer
   branch that forks below its tip. `relay_fork` shows that nothing else stands
   in the way.
5. `relay_download`: `nDownLoadingRelayingHash` survives the request it stands
   for (`net_processing.cpp:3369`).
6. `chain_stale`: `pindexMostWork` survives the unlock of `cs_main`
   (`validation.cpp:4312`).

Others are the reason for an exception in a property or for a call that a
configuration leaves out:

- `deepRollback` in `PoolFollowsChain` and `ExpiredTicketsLeave`: a rollback
  that reaches `load_height` deletes the tickets of the new tip's height, which
  are still bought on the chain (`validation.cpp:6802`), and puts back none of
  those that expired or signed. `TicketsOnChain` holds after such a rollback
  for tickets bought above the latency height, thanks to that deletion;
  `UpdateTip` does not call `updateTicketpool` at the latency height and below
  (`validation.cpp:3880`), where tickets of abandoned blocks can stay.
  `PoolNeverBehind` only speaks of `load_height`, which after such a rollback
  also counts heights whose new blocks were never read.
- `SeedsReadable` in `PoolFollowsChain`: where a draw reads behind the digits of
  the hash, several pools are possible for the same chain.
- `ExpiredTicketsLeave` starts at the latency height: the guard at
  `validation.cpp:6845` compares `ticket_height`, not `block_height`, with the
  age, and tickets bought lower never expire.
- `pruned = -1`: a pruning node that restarts skips the tickets of deleted
  blocks (`validation.cpp:6810`); what it does hold is on the chain
  (`TicketsOnChain`, `pruned` or not).
- No property says that a block with more signatures replaces ours, as the
  comment at `net_processing.cpp:3436` has it: the block is asked for and then
  judged by elapsed time and seed only (`:1131`).
- `ActiveChainValid` is checked with one thread: a call of `invalidateblock`
  between two steps of another thread can mark a target that is connected all
  the same (the stale target again).
- `LinkedWhenReceived` excepts failed ancestors: a block received while its
  parent is marked is not put in `mapBlocksUnlinked` (`validation.cpp:4570`).
- `WorkKept` is checked with one thread: a stale target of another one can take
  work away without a new search.
- `CandidatesComplete` is checked without `reconsiderblock`, which clears the
  marks of ancestors without making their other descendants candidates or
  emptying `g_failed_blocks` (`validation.cpp:4480`). The next header above such
  an ancestor meets the assertion at `validation.cpp:5198`: `chain_threads`
  reaches it.
- `invalidateblock` is left out of `chain_threads`: with a stale target it can
  empty `setBlockIndexCandidates`.

## 4. What is proved

For every latency, valve, expiry age, prune margin, number of lucky tickets,
hash length and set of blocks allowed by `LuckyAssumption` and
`PoolAssumption`, `TicketPoolProofs` proves of `TicketPool`:

- `TypeCorrect`: `TypeOK`;
- `PoolFollowsChainCorrect`: the pool is a replay of the active chain up to
  `load_height`, and the only one where no draw reads behind the digits, unless
  a rollback reached `load_height` or blocks were pruned;
- `TicketsOnChainCorrect`: every ticket bought above the latency height is a
  purchase at its height on the active chain, below the tip, after any rollback
  and any pruning; so is every other ticket unless a rollback reached
  `load_height`;
- `PoolNeverBehindCorrect`: `load_height` of a running node that does not prune
  is not behind the height the tip calls for;
- `ExpiredTicketsLeaveCorrect`: expired tickets are gone, with the exceptions of
  `PoolFollowsChain`.

The properties are not inductive. That the pool is a replay says nothing about
where `load_height` stands relative to the tip, and a disconnect preserves it
only because the blocks that leave are above `load_height`. The invariant `IInv`
adds `LoadInv`: in `"import"` nothing is loaded; in `"load"` the height loaded
is `TICKETPOOL_HEIGHT_LATENCY` behind the loop (further if blocks were
deleted); in `"run"` it is below
the tip unless a rollback went deep, and not behind it. It adds `PoolOn`:
tickets are purchases of the chain at loaded heights; and `HighOn`: those above
the latency height also after a deep rollback, and then below the tip, because
the call for every new tip at or below `load_height` deletes the tickets of
that tip's height before the next disconnect can make them stale. The argument for a change of the tip has two halves.
`ReplayPrefix`: the replay up to a height depends only on the blocks up to
that height, so chains that agree there have the same pools (by induction on the
height, from `SetInduction` in `InductionLemmas`). `UpdateStep`: one call of
`updateTicketpool` at the next height extends the replay by one step, keeps the
tickets on the chain and drops those that expire. `TipStep` combines them for
`UpdateTip`, and `IInvStep` has one case per action.

`MixedRelay` and `ChainState` are only model-checked, as is everything about
liveness, which is out of the prover's reach.

## 5. Plan

In order; each step adds its runs, mutants and, where named, theorems.

1. `CoinsCache`: stacked `CCoinsViewCache`s with FRESH and DIRTY, shown to
   implement a plain map from outpoints to coins; the refinement proved.
2. `CoinsDB`: the batches of `CCoinsViewDB::BatchWrite`, a crash between two,
   `ReplayBlocks`; every restart ends on one of the two tips.
3. The draw at the granularity of single reads, beside `updateTicketpool` on
   another thread (size read, pool copied, tickets drawn). Then `MixedRelay` with a real pool for `Owner`.
4. The wait of `LoadTicketpool` with `-txindex`, with the number of known
   headers.
5. Theorems: the type invariant and `ChoiceNotBehind` of `MixedRelay`; the type invariant and `CandidatesLeft` of `ChainState`.
6. `CheckQueue` (master and workers), `Scheduler` and the single-threaded
   clients behind the validation signals.
7. Orphan blocks and blocks in flight.
8. Pure parts against reference definitions: version bits, the retarget with
   its integer widths, Merkle trees with their duplication, `CheckReward` and
   the payouts of `CreateNewBlock`.
9. The memory pool's ancestor and descendant sums; the address manager.
