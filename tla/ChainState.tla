----------------------------- MODULE ChainState -----------------------------
(***************************************************************************)
(* The block tree and the choice of the active chain                       *)
(* (src/src/validation.cpp: AcceptBlockHeader to ProcessNewBlock,          *)
(* FindMostWorkChain to ResetBlockFailureFlags, pruning and LoadBlockIndex;*)
(* src/src/rpc/blockchain.cpp: the calls that mark blocks).                *)
(*                                                                         *)
(* Every action is one critical section of cs_main.  A thread that accepts *)
(* a block, or whose call marks one, then runs ActivateBestChain, whose    *)
(* loop gives the lock up after each ActivateBestChainStep and keeps       *)
(* pindexMostWork in a local variable meanwhile.                           *)
(*                                                                         *)
(* The flags of CBlockIndex::nStatus are the sets of the blocks that carry *)
(* them; nTx # 0 and nChainTx # 0 are sets too.  Left out: pindexBestHeader*)
(* and pindexBestInvalid, which feed warnings and requests to peers only.  *)
(***************************************************************************)
EXTENDS Integers, FiniteSets

CONSTANTS
    NBlocks,              \* the blocks are 1 .. NBlocks, the genesis block is 0
    pprev,                \* the parent of each block but the genesis block
    nHeight,
    nChainWork,
    Chain,                \* per block, the set of its ancestors and itself
    ContextOk,            \* the blocks ContextualCheckBlock accepts
    ConnectOk,            \* the blocks ConnectBlock accepts
    Corruptible,          \* the blocks whose transactions may be read wrongly from disk
    Threads,              \* the threads that process blocks or serve calls
    Calls,                \* the calls users make, a subset of AllCalls
    MIN_BLOCKS_TO_KEEP,   \* 288
    nMinimumChainWork,
    MinReverseSequenceId, \* numeric_limits<int32_t>::min()
    MaxSequenceId         \* bound: sequence ids given out

AllCalls == {"invalidateblock", "reconsiderblock", "preciousblock", "pruneblockchain", "restart"}
Genesis  == 0
Blocks   == 0 .. NBlocks
Nil      == -1

ASSUME ChainAssumption ==
    /\ NBlocks \in Nat
    /\ pprev \in [1 .. NBlocks -> Blocks]
    /\ \A b \in 1 .. NBlocks : pprev[b] < b
    /\ nHeight \in [Blocks -> Nat]
    /\ nChainWork \in [Blocks -> Nat]
    /\ Chain \in [Blocks -> SUBSET Blocks]
    /\ Chain[Genesis] = {Genesis}
    /\ \A b \in 1 .. NBlocks : /\ nHeight[b] = nHeight[pprev[b]] + 1
                               /\ nChainWork[b] > nChainWork[pprev[b]]
                               /\ Chain[b] = Chain[pprev[b]] \cup {b}
    /\ ContextOk \subseteq Blocks
    /\ ConnectOk \subseteq Blocks
    /\ Genesis \in ConnectOk
    /\ Corruptible \subseteq Blocks
    /\ Calls \subseteq AllCalls
    /\ MIN_BLOCKS_TO_KEEP \in Nat \ {0}
    /\ nMinimumChainWork \in Nat
    /\ MinReverseSequenceId \in Int
    /\ MinReverseSequenceId < 0
    /\ MaxSequenceId \in Nat

VARIABLES
    tip,                        \* chainActive.Tip()
    mapBlockIndex,
    BLOCK_HAVE_DATA,
    BLOCK_VALID_SCRIPTS,
    BLOCK_FAILED_VALID,
    BLOCK_FAILED_CHILD,
    nTx,                        \* blocks with nTx # 0, which are BLOCK_VALID_TRANSACTIONS
    nChainTx,                   \* blocks with nChainTx # 0
    nSequenceId,
    nBlockSequenceId,
    nBlockReverseSequenceId,
    nLastPreciousChainwork,
    setBlockIndexCandidates,
    mapBlocksUnlinked,          \* its second components
    g_failed_blocks,
    pc,                         \* per thread: "idle" or in "ActivateBestChain"
    pindexMostWork,             \* per thread: the cached target, or Nil
    fShutdown                   \* AbortNode has been called

failVars  == <<BLOCK_FAILED_VALID, BLOCK_FAILED_CHILD, g_failed_blocks>>
dataVars  == <<BLOCK_HAVE_DATA, nTx, nChainTx>>
orderVars == <<nSequenceId, nBlockSequenceId, nBlockReverseSequenceId, nLastPreciousChainwork>>
setVars   == <<setBlockIndexCandidates, mapBlocksUnlinked>>
runVars   == <<pc, pindexMostWork, fShutdown>>
vars      == <<tip, mapBlockIndex, BLOCK_VALID_SCRIPTS, failVars, dataVars, orderVars, setVars, runVars>>

Failed      == BLOCK_FAILED_VALID \cup BLOCK_FAILED_CHILD
chainActive == Chain[tip]
Top(S)      == CHOOSE b \in S : \A a \in S : nHeight[a] <= nHeight[b]
Bottom(S)   == CHOOSE b \in S : \A a \in S : nHeight[b] <= nHeight[a]

\* CBlockIndexWorkComparator: b is better than a.  Numbers stand for addresses.
WorseBy(seq, a, b) ==
    \/ nChainWork[a] < nChainWork[b]
    \/ nChainWork[a] = nChainWork[b] /\ seq[a] > seq[b]
    \/ nChainWork[a] = nChainWork[b] /\ seq[a] = seq[b] /\ a > b

Worse(a, b) == WorseBy(nSequenceId, a, b)

Best(S) == CHOOSE b \in S : \A a \in S : ~Worse(b, a)

-----------------------------------------------------------------------------
(* Headers and blocks from peers and miners.                               *)

\* A header whose parent descends from a block that failed since the start.
FailedAncestors(b) ==
    IF pprev[b] \in BLOCK_VALID_SCRIPTS \ Failed
      THEN {}
      ELSE {f \in g_failed_blocks : f \in Chain[pprev[b]]}

HeaderOk(b) ==
    IF b \in mapBlockIndex
      THEN b \notin Failed
      ELSE /\ pprev[b] \in mapBlockIndex
           /\ pprev[b] \notin Failed
           /\ FailedAncestors(b) = {}

\* The early return of AcceptBlockHeader that marks what it walked over, from
\* the first such block in the order of g_failed_blocks, which is by address.
\* It asserts that this block is marked: the process ends where it is not.
RefuseHeader(b) ==
    /\ ~fShutdown
    /\ b \notin mapBlockIndex
    /\ pprev[b] \in mapBlockIndex \ Failed
    /\ \E failedit \in FailedAncestors(b) :
          \/ /\ failedit \in BLOCK_FAILED_VALID
             /\ BLOCK_FAILED_CHILD' = BLOCK_FAILED_CHILD \cup (Chain[pprev[b]] \ Chain[failedit])
             /\ UNCHANGED fShutdown
          \/ /\ failedit \notin BLOCK_FAILED_VALID
             /\ fShutdown' = TRUE
             /\ UNCHANGED BLOCK_FAILED_CHILD
    /\ UNCHANGED <<tip, mapBlockIndex, BLOCK_VALID_SCRIPTS, BLOCK_FAILED_VALID, g_failed_blocks,
                   dataVars, orderVars, setVars, pc, pindexMostWork>>

ProcessNewBlockHeaders(b) ==
    /\ ~fShutdown
    /\ HeaderOk(b)
    /\ mapBlockIndex' = mapBlockIndex \cup {b}
    /\ UNCHANGED <<tip, BLOCK_VALID_SCRIPTS, failVars, dataVars, orderVars, setVars, runVars>>

\* AcceptBlock keeps the data of a requested block, and of another one when it
\* is new, could advance the tip and is not too far ahead.
Wanted(b, fRequested) ==
    /\ b \notin BLOCK_HAVE_DATA
    /\ \/ fRequested
       \/ /\ b \notin nTx
          /\ nChainWork[b] >= nChainWork[tip]
          /\ nHeight[b] <= nHeight[tip] + MIN_BLOCKS_TO_KEEP
          /\ nChainWork[b] >= nMinimumChainWork

\* Mutant: the descendants that wait are forgotten.
NowLinkedAlone(b) == IF pprev[b] \in nChainTx THEN {b} ELSE {}

\* The blocks the arrival of b links to the genesis block: b and the
\* descendants that waited for it in mapBlocksUnlinked.
NowLinked(b) ==
    IF pprev[b] \notin nChainTx
      THEN {}
      ELSE {b} \cup {d \in mapBlocksUnlinked :
                        b \in Chain[d] /\ Chain[d] \ Chain[b] \subseteq mapBlocksUnlinked}

\* The queue of ReceivedBlockTransactions takes lower blocks first; siblings
\* in the order in which they arrived, which the model does not keep.
QueueOrders(L) ==
    {o \in [L -> 0 .. Cardinality(L) - 1] :
        \A d, e \in L : d # e => o[d] # o[e] /\ (nHeight[d] < nHeight[e] => o[d] < o[e])}


\* mapBlocksUnlinked after the arrival of b: what is linked leaves it, and b
\* enters it to wait for a parent that has not failed.
UnlinkedAfter(b) ==
    IF NowLinked(b) # {} THEN mapBlocksUnlinked \ NowLinked(b)
    ELSE mapBlocksUnlinked \cup (IF pprev[b] \in Failed THEN {} ELSE {b})

ReceivedBlockTransactions(b) ==
    LET L == NowLinked(b)
    IN  /\ nBlockSequenceId + Cardinality(L) <= MaxSequenceId
        /\ BLOCK_HAVE_DATA' = BLOCK_HAVE_DATA \cup {b}
        /\ nTx' = nTx \cup {b}
        /\ nChainTx' = (nChainTx \ {b}) \cup L
        /\ \E o \in QueueOrders(L) :
              nSequenceId' = [d \in Blocks |-> IF d \in L THEN nBlockSequenceId + o[d]
                                                         ELSE nSequenceId[d]]
        /\ nBlockSequenceId' = nBlockSequenceId + Cardinality(L)
        /\ setBlockIndexCandidates' =
              setBlockIndexCandidates \cup {d \in L : ~WorseBy(nSequenceId', d, tip)}
        /\ mapBlocksUnlinked' = UnlinkedAfter(b)

Call(t) == pc[t] = "idle" /\ ~fShutdown

\* The thread goes on to ActivateBestChain.
Activate(t) ==
    /\ pc' = [pc EXCEPT ![t] = "ActivateBestChain"]
    /\ pindexMostWork' = [pindexMostWork EXCEPT ![t] = Nil]

\* ProcessNewBlock up to the unlock of cs_main; the check of the signatures
\* and CheckBlock, which change nothing, accept every block of the model.
\* AcceptBlock leaves a copy it refuses unmarked when the fault may be the
\* copy's alone (its witness), or is found before the data is looked at.
ProcessNewBlock(t, b, fRequested) ==
    /\ Call(t)
    /\ HeaderOk(b)
    /\ mapBlockIndex' = mapBlockIndex \cup {b}
    /\ \/ /\ ~Wanted(b, fRequested)
          /\ Activate(t)
          /\ UNCHANGED <<failVars, dataVars, orderVars, setVars>>
       \/ UNCHANGED <<failVars, dataVars, orderVars, setVars, pc, pindexMostWork>>
       \/ /\ Wanted(b, fRequested)
          /\ b \notin ContextOk
          /\ BLOCK_FAILED_VALID' = BLOCK_FAILED_VALID \cup {b}
          /\ UNCHANGED <<BLOCK_FAILED_CHILD, g_failed_blocks, dataVars, orderVars, setVars,
                         pc, pindexMostWork>>
       \/ /\ Wanted(b, fRequested)
          /\ b \in ContextOk
          /\ ReceivedBlockTransactions(b)
          /\ Activate(t)
          /\ UNCHANGED <<failVars, nBlockReverseSequenceId, nLastPreciousChainwork>>
    /\ UNCHANGED <<tip, BLOCK_VALID_SCRIPTS, fShutdown>>

-----------------------------------------------------------------------------
(* ActivateBestChain.                                                      *)

\* What FindMostWorkChain walks over: the part of b's chain not yet active.
Branch(b) == Chain[b] \ chainActive

\* Mutant: failed blocks are not told from good ones.
UnusableUnread(b) == Branch(b) \ BLOCK_HAVE_DATA

\* The blocks on the way to b that are failed or have been pruned.
Unusable(b) == Branch(b) \cap (Failed \cup (Blocks \ BLOCK_HAVE_DATA))

Usable == {b \in setBlockIndexCandidates : Unusable(b) = {}}

\* The candidates FindMostWorkChain rejects before it finds a usable one.
Rejected ==
    {b \in setBlockIndexCandidates : Unusable(b) # {} /\ \A u \in Usable : Worse(u, b)}

\* Of a rejected candidate's chain, the blocks above the first unusable one.
AboveUnusable(b) == Chain[b] \ Chain[Top(Unusable(b))]

FindMostWorkChain == IF Usable = {} THEN Nil ELSE Best(Usable)

\* ActivateBestChainStep towards m: what it disconnects, what it would
\* connect, and the block at which it stops, the first that cannot be read, is
\* read wrongly (it is in bad), is invalid, or makes the chain better than it
\* was.
Down(m) == chainActive \ Chain[m]

\* Mutant: the lock is given up after every block.
StopAtFirst(m, bad) == Bottom({m} \cup Branch(m))

StopAt(m, bad) ==
    Bottom({m} \cup {b \in Branch(m) : \/ b \notin BLOCK_HAVE_DATA
                                       \/ b \in bad
                                       \/ b \notin ConnectOk
                                       \/ nChainWork[b] > nChainWork[tip]})

Unreadable(m, bad) ==
    \/ ~(Down(m) \subseteq BLOCK_HAVE_DATA)
    \/ Branch(m) # {} /\ StopAt(m, bad) \notin BLOCK_HAVE_DATA

fInvalidFound(m, bad) ==
    ~Unreadable(m, bad) /\ Branch(m) # {} /\ StopAt(m, bad) \in bad \cup (Blocks \ ConnectOk)

\* InvalidBlockFound marks the block at fault, but not one for which
\* CorruptionPossible holds: its transactions do not match its header.
InvalidBlockFound(m, bad) ==
    IF fInvalidFound(m, bad) /\ StopAt(m, bad) \notin bad THEN {StopAt(m, bad)} ELSE {}

NewTip(m, bad) ==
    IF ~(Down(m) \subseteq BLOCK_HAVE_DATA) THEN Top(Down(m) \ BLOCK_HAVE_DATA)
    ELSE IF Branch(m) = {} THEN m
    ELSE IF Unreadable(m, bad) \/ fInvalidFound(m, bad) THEN pprev[StopAt(m, bad)]
    ELSE StopAt(m, bad)

\* Mutant: the loop of ActivateBestChain ends after one step.
DoneAtOnce(m, bad) == ~fInvalidFound(m, bad)

\* Whether the step is the last: the node aborts, or m is the tip.
Done(m, bad) == Unreadable(m, bad) \/ (NewTip(m, bad) = m /\ ~fInvalidFound(m, bad))

\* Mutant: the tip itself goes too.
PruneTipToo(S, seq, newTip) == {b \in S : WorseBy(seq, newTip, b)}

\* PruneBlockIndexCandidates once newTip is the tip.
PruneBlockIndexCandidates(S, seq, newTip) == {b \in S : ~WorseBy(seq, b, newTip)}

ActivateBestChainStep(t, m, candidates) ==
    \E bad \in SUBSET (Branch(m) \cap Corruptible) :
    \E newTip \in {NewTip(m, bad)}, done \in {Done(m, bad)}, invalid \in {InvalidBlockFound(m, bad)} :
       LET connected == Branch(m) \cap Chain[newTip]
       IN  /\ tip' = newTip
           /\ BLOCK_VALID_SCRIPTS' = BLOCK_VALID_SCRIPTS \cup (connected \ Failed)
           /\ BLOCK_FAILED_VALID' = BLOCK_FAILED_VALID \cup invalid
           /\ g_failed_blocks' = g_failed_blocks \cup invalid
           /\ setBlockIndexCandidates' =
                 (IF connected = {} THEN candidates
                  ELSE PruneBlockIndexCandidates(candidates, nSequenceId, newTip)) \ invalid
           /\ pindexMostWork' = [pindexMostWork EXCEPT ![t] = IF done \/ fInvalidFound(m, bad) THEN Nil ELSE m]
           /\ pc' = [pc EXCEPT ![t] = IF done THEN "idle" ELSE @]
           /\ fShutdown' = Unreadable(m, bad)

\* One turn of the loop, under cs_main: look for the target unless it is
\* cached, return when there is nothing to do, take a step towards it.
ActivateBestChain(t) ==
    /\ pc[t] = "ActivateBestChain"
    /\ ~fShutdown
    /\ \E m \in {IF pindexMostWork[t] = Nil THEN FindMostWorkChain ELSE pindexMostWork[t]},
          rejected \in {IF pindexMostWork[t] = Nil THEN Rejected ELSE {}} :
       LET candidates == setBlockIndexCandidates
                            \ UNION {AboveUnusable(b) \cup {Top(Unusable(b))} : b \in rejected}
       IN  /\ BLOCK_FAILED_CHILD' = BLOCK_FAILED_CHILD \cup
                 UNION {AboveUnusable(b) : b \in {c \in rejected : Top(Unusable(c)) \in Failed}}
           /\ mapBlocksUnlinked' = mapBlocksUnlinked \cup
                 UNION {AboveUnusable(b) : b \in {c \in rejected : Top(Unusable(c)) \notin Failed}}
           /\ \/ /\ m \in {Nil, tip}
                 /\ pc' = [pc EXCEPT ![t] = "idle"]
                 /\ pindexMostWork' = [pindexMostWork EXCEPT ![t] = Nil]
                 /\ setBlockIndexCandidates' = candidates
                 /\ UNCHANGED <<tip, BLOCK_VALID_SCRIPTS, BLOCK_FAILED_VALID, g_failed_blocks, fShutdown>>
              \/ /\ m \notin {Nil, tip}
                 /\ ActivateBestChainStep(t, m, candidates)
    /\ UNCHANGED <<mapBlockIndex, dataVars, orderVars>>

-----------------------------------------------------------------------------
(* Calls by which users mark blocks or drop their data.                    *)

\* Mutant: nChainTx is not asked for.
ConnectableUnlinked(F) == (mapBlockIndex \cap nTx) \ F

\* IsValid(BLOCK_VALID_TRANSACTIONS) && nChainTx, with F the failed blocks.
Connectable(F) == ((mapBlockIndex \cap nTx) \cap nChainTx) \ F

\* The active blocks that InvalidateBlock disconnects.
FromBlock(b) == {a \in chainActive : b \in Chain[a]}

\* DisconnectTip cannot read a pruned block and aborts the node.
InvalidateBlockAborts(b) ==
    LET unreadable == FromBlock(b) \ BLOCK_HAVE_DATA
    IN  /\ "invalidateblock" \in Calls
        /\ ~fShutdown
        /\ b # Genesis
        /\ unreadable # {}
        /\ tip' = Top(unreadable)
        /\ fShutdown' = TRUE
        /\ UNCHANGED <<mapBlockIndex, BLOCK_VALID_SCRIPTS, failVars, dataVars, orderVars, setVars,
                       pc, pindexMostWork>>

\* Mutant: nothing is added again.
CandidatesNotAgain(marked, F, newTip) == setBlockIndexCandidates \ marked

\* What InvalidateBlock leaves in setBlockIndexCandidates: it erases the blocks
\* it marks, and its last loop adds what is no worse than newTip, the tip then,
\* and not among the failed blocks F.
CandidatesAgain(marked, F, newTip) ==
    (setBlockIndexCandidates \ marked) \cup {x \in Connectable(F) : ~Worse(x, newTip)}

InvalidateBlock(t, b) ==
    LET down  == FromBlock(b)
        above == down \ {b}
    IN  /\ "invalidateblock" \in Calls
        /\ Call(t)
        /\ b \in mapBlockIndex \ {Genesis}
        /\ down \subseteq BLOCK_HAVE_DATA
        /\ tip' = IF down = {} THEN tip ELSE pprev[b]
        /\ BLOCK_FAILED_CHILD' = BLOCK_FAILED_CHILD \cup above
        /\ BLOCK_FAILED_VALID' = BLOCK_FAILED_VALID \cup {b}
        /\ g_failed_blocks' = g_failed_blocks \cup {b}
        /\ setBlockIndexCandidates' = CandidatesAgain(down \cup {b}, Failed \cup down \cup {b}, tip')
        /\ Activate(t)
        /\ UNCHANGED <<mapBlockIndex, BLOCK_VALID_SCRIPTS, dataVars, orderVars,
                       mapBlocksUnlinked, fShutdown>>

\* reconsiderblock: ResetBlockFailureFlags, then ActivateBestChain.
ResetBlockFailureFlags(t, b) ==
    LET below == {x \in mapBlockIndex : b \in Chain[x] /\ (x \in Failed \/ x \notin nTx)}
    IN  /\ "reconsiderblock" \in Calls
        /\ Call(t)
        /\ b \in mapBlockIndex
        /\ BLOCK_FAILED_VALID' = BLOCK_FAILED_VALID \ (below \cup Chain[b])
        /\ BLOCK_FAILED_CHILD' = BLOCK_FAILED_CHILD \ (below \cup Chain[b])
        /\ g_failed_blocks' = g_failed_blocks \ below
        /\ setBlockIndexCandidates' = setBlockIndexCandidates
              \cup {x \in below \cap Connectable({}) : Worse(tip, x)}
        /\ Activate(t)
        /\ UNCHANGED <<tip, mapBlockIndex, BLOCK_VALID_SCRIPTS, dataVars, orderVars,
                       mapBlocksUnlinked, fShutdown>>

PreciousBlock(t, b) ==
    LET id == IF nChainWork[tip] > nLastPreciousChainwork THEN -1 ELSE nBlockReverseSequenceId
    IN  /\ "preciousblock" \in Calls
        /\ Call(t)
        /\ b \in mapBlockIndex
        /\ nChainWork[b] >= nChainWork[tip]
        /\ nLastPreciousChainwork' = nChainWork[tip]
        /\ nSequenceId' = [nSequenceId EXCEPT ![b] = id]
        /\ nBlockReverseSequenceId' = IF id > MinReverseSequenceId THEN id - 1 ELSE id
        /\ setBlockIndexCandidates' =
              IF b \in Connectable(Failed)
                THEN PruneBlockIndexCandidates(setBlockIndexCandidates \cup {b}, nSequenceId', tip)
                ELSE setBlockIndexCandidates \ {b}
        /\ Activate(t)
        /\ UNCHANGED <<tip, mapBlockIndex, BLOCK_VALID_SCRIPTS, failVars, dataVars,
                       nBlockSequenceId, mapBlocksUnlinked, fShutdown>>

\* pruneblockchain: whole files go, and any blocks may share a file.
PruneBlockFilesManual(S) ==
    /\ "pruneblockchain" \in Calls
    /\ ~fShutdown
    /\ S # {}
    /\ \A b \in S : nHeight[b] + MIN_BLOCKS_TO_KEEP <= nHeight[tip]
    /\ BLOCK_HAVE_DATA' = BLOCK_HAVE_DATA \ S
    /\ mapBlocksUnlinked' = mapBlocksUnlinked \ S
    /\ UNCHANGED <<tip, mapBlockIndex, BLOCK_VALID_SCRIPTS, failVars, nTx, nChainTx, orderVars,
                   setBlockIndexCandidates, runVars>>

\* The node stops and LoadBlockIndexDB and LoadChainTip rebuild from what was
\* flushed; ThreadImport, played by t, then calls ActivateBestChain.
Restart(t) ==
    LET linked == {b \in nTx : Chain[b] \subseteq nTx}
        failed == {b \in mapBlockIndex : Chain[b] \cap Failed # {}}
    IN  /\ "restart" \in Calls
        /\ nChainTx' = linked
        /\ mapBlocksUnlinked' = nTx \ linked
        /\ BLOCK_FAILED_CHILD' = BLOCK_FAILED_CHILD \cup (failed \ Failed)
        /\ g_failed_blocks' = {}
        /\ nSequenceId' = [b \in Blocks |-> 0]
        /\ nBlockSequenceId' = 1
        /\ nBlockReverseSequenceId' = -1
        /\ nLastPreciousChainwork' = 0
        /\ setBlockIndexCandidates' = PruneBlockIndexCandidates(linked \ failed, nSequenceId', tip)
        /\ pc' = [u \in Threads |-> IF u = t THEN "ActivateBestChain" ELSE "idle"]
        /\ pindexMostWork' = [u \in Threads |-> Nil]
        /\ fShutdown' = FALSE
        /\ UNCHANGED <<tip, mapBlockIndex, BLOCK_VALID_SCRIPTS, BLOCK_FAILED_VALID,
                       BLOCK_HAVE_DATA, nTx>>

-----------------------------------------------------------------------------

\* LoadGenesisBlock on an empty directory, and the genesis block connected.
Init ==
    /\ tip = Genesis
    /\ mapBlockIndex = {Genesis}
    /\ BLOCK_HAVE_DATA = {Genesis}
    /\ BLOCK_VALID_SCRIPTS = {Genesis}
    /\ BLOCK_FAILED_VALID = {}
    /\ BLOCK_FAILED_CHILD = {}
    /\ nTx = {Genesis}
    /\ nChainTx = {Genesis}
    /\ nSequenceId = [b \in Blocks |-> IF b = Genesis THEN 1 ELSE 0]
    /\ nBlockSequenceId = 2
    /\ nBlockReverseSequenceId = -1
    /\ nLastPreciousChainwork = 0
    /\ setBlockIndexCandidates = {Genesis}
    /\ mapBlocksUnlinked = {}
    /\ g_failed_blocks = {}
    /\ pc = [t \in Threads |-> "idle"]
    /\ pindexMostWork = [t \in Threads |-> Nil]
    /\ fShutdown = FALSE

Next ==
    \/ \E b \in Blocks \ {Genesis} : ProcessNewBlockHeaders(b)
    \/ \E b \in Blocks \ {Genesis} : RefuseHeader(b)
    \/ \E t \in Threads, b \in Blocks \ {Genesis}, fRequested \in BOOLEAN :
          ProcessNewBlock(t, b, fRequested)
    \/ \E t \in Threads : ActivateBestChain(t)
    \/ \E t \in Threads, b \in Blocks : InvalidateBlock(t, b)
    \/ \E b \in Blocks : InvalidateBlockAborts(b)
    \/ \E t \in Threads, b \in Blocks : ResetBlockFailureFlags(t, b)
    \/ \E t \in Threads, b \in Blocks : PreciousBlock(t, b)
    \/ \E S \in SUBSET (BLOCK_HAVE_DATA \ {Genesis}) : PruneBlockFilesManual(S)
    \/ \E t \in Threads : Restart(t)

\* A thread inside ActivateBestChain gets cs_main again.
Spec == Init /\ [][Next]_vars /\ \A t \in Threads : WF_vars(ActivateBestChain(t))
-----------------------------------------------------------------------------
(* Properties.                                                             *)

\* Type invariant: flags and sets hold known blocks, a linked or flagged block
\* has been received, and a thread outside ActivateBestChain caches nothing.
TypeOK ==
    /\ tip \in mapBlockIndex
    /\ mapBlockIndex \subseteq Blocks
    /\ Failed \subseteq mapBlockIndex
    /\ g_failed_blocks \subseteq mapBlockIndex
    /\ BLOCK_HAVE_DATA \subseteq nTx
    /\ nChainTx \subseteq nTx
    /\ BLOCK_VALID_SCRIPTS \subseteq nChainTx
    /\ nTx \subseteq mapBlockIndex
    /\ setBlockIndexCandidates \subseteq nChainTx
    /\ mapBlocksUnlinked \subseteq nTx
    /\ nSequenceId \in [Blocks -> MinReverseSequenceId .. MaxSequenceId]
    /\ nBlockSequenceId \in 1 .. MaxSequenceId
    /\ nBlockReverseSequenceId \in MinReverseSequenceId .. -1
    /\ nLastPreciousChainwork \in Nat
    /\ pc \in [Threads -> {"idle", "ActivateBestChain"}]
    /\ pindexMostWork \in [Threads -> mapBlockIndex \cup {Nil}]
    /\ \A t \in Threads : pc[t] = "idle" => pindexMostWork[t] = Nil
    /\ fShutdown \in BOOLEAN

Idle == \A t \in Threads : pc[t] = "idle"

\* No block of the active chain is marked as failed: "we know all blocks in it
\* are valid already" (FindMostWorkChain).
ActiveChainValid == chainActive \cap Failed = {}

\* When no thread is inside ActivateBestChain, no chain whose blocks are all
\* here, linked and not failed has more work than the active one: "The result
\* is either failure or an activated best chain".
BestChainActive ==
    Idle /\ ~fShutdown =>
        \A b \in Connectable(Failed) : Unusable(b) = {} => nChainWork[b] <= nChainWork[tip]

\* CheckBlockIndex on setBlockIndexCandidates, when no thread is inside
\* ActivateBestChain: it holds the blocks that are no worse than the tip,
\* linked and free of failed ancestors and missing data, the tip among them,
\* and none that is worse than the tip or not linked.
CandidatesComplete ==
    Idle /\ ~fShutdown =>
        \A b \in mapBlockIndex :
            IF b \in nChainTx /\ ~Worse(b, tip)
              THEN /\ Chain[b] \cap BLOCK_FAILED_VALID = {}
                   /\ Chain[b] \subseteq BLOCK_HAVE_DATA \/ b = tip
                   => b \in setBlockIndexCandidates
              ELSE b \notin setBlockIndexCandidates


\* CheckBlockIndex on nChainTx, but for blocks with failed or pruned ancestors:
\* it is set only once every ancestor has been received, and is set when all
\* are here, whatever the order in which they arrived.
LinkedWhenReceived ==
    \A b \in mapBlockIndex :
        /\ b \in nChainTx => Chain[b] \subseteq nTx
        /\ Chain[b] \subseteq BLOCK_HAVE_DATA \ BLOCK_FAILED_VALID => b \in nChainTx

\* PruneBlockIndexCandidates leaves "Either the current tip or a successor of
\* it we're working towards": ActivateBestChain always has somewhere to go.
CandidatesLeft == setBlockIndexCandidates # {}

\* With one thread inside ActivateBestChain, the active chain loses work only in
\* a step that aborts the node or after which the thread looks for the best
\* chain afresh: a user invalidates a block, or a switch is given up halfway at
\* a block found invalid or read wrongly.  cs_main is never given up in the
\* middle of a switch, when the new chain is still the worse one.
WorkKept ==
    [][nChainWork[tip'] < nChainWork[tip] =>
          fShutdown' \/ \E t \in Threads : pc'[t] = "ActivateBestChain" /\ pindexMostWork'[t] = Nil]_vars

\* ActivateBestChain returns, whatever the other threads do, or the node shuts
\* down, unless the marks or the order of blocks change for ever, which takes
\* calls of users without end.  Blocks are read from disk as they were written.
ActivationEnds ==
    \A t \in Threads :
        \/ []<>(pc[t] = "idle" \/ fShutdown)
        \/ []<><<failVars' # failVars \/ orderVars' # orderVars>>_vars
=============================================================================
