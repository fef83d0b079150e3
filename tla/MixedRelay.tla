----------------------------- MODULE MixedRelay -----------------------------
(***************************************************************************)
(* Collecting the lucky tickets' signatures on a mined block               *)
(* (src/src/net_processing.cpp: SIGNNEWBLOCKHEADER, NewMixedPoWValidBlock  *)
(* ProcessNetBlock and the handlers of POWNEWBLOCKHEADER, GETPOWNEWBLOCK,  *)
(* POWNEWBLOCK and the tail of GETHEADERS; src/src/net.cpp: the timeout at *)
(* the end of ThreadMessageHandler; the calls of src/src/rpc/mining.cpp).  *)
(*                                                                         *)
(* A mined block is handed from node to node until the owner of each of    *)
(* the NSigs lucky tickets has signed, in order; whoever adds the last     *)
(* signature connects it.  A node relays one block at a time and drops it  *)
(* when it makes no progress for RelayingBlockMaxLimit.                    *)
(*                                                                         *)
(* A block is its hash (a number), the hash of its parent, its seed, what  *)
(* ProcessNewBlock makes of it, and the number of its signatures           *)
(* (CBlockHeader::index), which the hash does not cover.  The tickets that *)
(* sign depend on the height and the seed: branches are taken to be shorter*)
(* than the latency of the ticket pool.                                    *)
(*                                                                         *)
(* Each node has a thread for messages and one for its miner's calls.  The *)
(* globals of the relay have no lock.  A handler makes its tests in one    *)
(* step and leaves in todo the statements that follow, and each of these is*)
(* a step of its own.  Preempt says before which of them other threads may *)
(* run: all kinds of statement is what the code permits, fewer stand for   *)
(* calls of the miner that do not fall among those statements.             *)
(***************************************************************************)
EXTENDS Integers, Sequences, FiniteSets

CONSTANTS
    Nodes,
    NSigs,                  \* signatures a block needs, 5 in the code
    Owner(_, _, _),         \* the node that owns lucky ticket k for a height and a seed, or NoOne
    NoOne,                  \* the owner is offline
    RelayingBlockMinLimit,  \* 10 seconds
    RelayingBlockMaxLimit,  \* 15 seconds
    Preempt,                \* the statements before which others run, a subset of Ops
    Outcomes,               \* the verdicts on mined blocks, a subset of Verdicts
    MaxBlocks,              \* bound: blocks mined
    MaxDrops                \* bound: connections lost

\* Of a complete block: ProcessNewBlock connects it; it returns true, but
\* ConnectBlock has failed; it returns false.
Verdicts == {"connects", "fails", "refused"}

Threads == {"msg", "rpc"}
Ops     == {"block", "header", "time", "choice", "seed", "count", "sign", "send", "drop"}

ASSUME RelayAssumption ==
    /\ Outcomes \subseteq Verdicts
    /\ Preempt \subseteq Ops
    /\ NoOne \notin Nodes
    /\ NSigs \in Nat \ {0}
    /\ RelayingBlockMinLimit \in Nat
    /\ RelayingBlockMaxLimit \in Nat
    /\ RelayingBlockMinLimit <= RelayingBlockMaxLimit
    /\ MaxBlocks \in Nat
    /\ MaxDrops \in Nat
    /\ \A height \in 0 .. MaxBlocks, seed \in 0 .. 2 * MaxBlocks, k \in 1 .. NSigs :
          Owner(height, seed, k) \in Nodes \cup {NoOne}

Genesis == 0
NoHash  == -1
Null    == [hash |-> NoHash, prev |-> NoHash, height |-> 0, seed |-> 0, verdict |-> "refused", index |-> 0]
Off     == -1                 \* nRelayingTime = 0

VARIABLES
    mined,                    \* the blocks mined so far, without signatures, by hash
    chain,                    \* chainActive of each node, as hashes
    mapBlockIndex,            \* the blocks each node has processed
    todo,                     \* the statements each thread of a node has yet to execute
    nRelayingBlock,           \* the block each node relays, or Null
    nRelayingTime,            \* time since its last progress, or Off
    nNextChoice,              \* the seed of the next block template
    nDownLoadingRelayingHash, \* the block a node has asked for, or NoHash
    nMixedPowHeader,          \* per node and peer, the last header taken from it
    work,                     \* the template a miner works on, or Null
    net,                      \* the messages under way, a FIFO per ordered pair
    drops                     \* connections lost so far

chainVars == <<chain, mapBlockIndex>>
relayVars == <<nRelayingBlock, nRelayingTime, nNextChoice>>
vars == <<mined, chainVars, todo, relayVars, nDownLoadingRelayingHash, nMixedPowHeader, work, net, drops>>

Tip(n)      == chain[n][Len(chain[n])]
Height(n)   == Len(chain[n]) - 1
OnTip(n, b) == b.prev = Tip(n)          \* hashPrevBlock == chainActive.Tip()
Peers(n)    == Nodes \ {n}

Msg(command, b) == [command |-> command, block |-> b]

-----------------------------------------------------------------------------
(* The network: n takes the first message from p (p = n: it takes none)    *)
(* and sends out[q] to each q.                                             *)

Exchange(n, p, out) ==
    net' = [a \in Nodes |-> [b \in Nodes |->
              LET rest == IF a = p /\ b = n /\ p # n THEN Tail(net[a][b]) ELSE net[a][b]
              IN  IF a = n THEN rest \o out[b] ELSE rest]]

Send(S, command, b) == [q \in Nodes |-> IF q \in S THEN <<Msg(command, b)>> ELSE << >>]
Silence == [q \in Nodes |-> << >>]

-----------------------------------------------------------------------------
(* Statements, and who may run.                                            *)

Stmt(op, b, val) == [op |-> op, block |-> b, val |-> val]

Busy(n, t) == todo[n][t] # << >>
Quiet(n)   == \A t \in Threads : ~Busy(n, t)

\* Every other thread that is inside a handler can be interrupted there.
Runs(n, t) ==
    \A m \in Nodes, u \in Threads :
        Busy(m, u) /\ <<m, u>> # <<n, t>> => Head(todo[m][u]).op \in Preempt

Starts(n, t) == Runs(n, t) /\ ~Busy(n, t)

Begin(n, t, stmts) == todo' = [todo EXCEPT ![n][t] = stmts]

\* An accepted block, or one overridden by another, is forgotten.
Clear == <<Stmt("block", Null, 0), Stmt("time", Null, Off), Stmt("choice", Null, 0)>>

\* Mutant: the seed is counted down.
AbandonedDown == <<Stmt("block", Null, 0), Stmt("time", Null, Off), Stmt("count", Null, -1)>>

\* Mutant: the timer is stopped and the block kept.
AbandonedTimerOnly == <<Stmt("time", Null, Off), Stmt("count", Null, 1)>>

\* The timeout: the next block gets another seed.
Abandoned == <<Stmt("block", Null, 0), Stmt("time", Null, Off), Stmt("count", Null, 1)>>

\* Mutant: the seed of the block is not noted.
TakenUpSeedKept(b) ==
    <<Stmt("block", b, 0), Stmt("time", Null, 0), Stmt("sign", Null, 0), Stmt("send", b, 0)>>

\* NewMixedPoWValidBlock(b, false) where no block, or a stale one, is relayed.
TakenUp(b) ==
    <<Stmt("block", b, 0), Stmt("time", Null, 0), Stmt("seed", Null, 0), Stmt("sign", Null, 0),
      Stmt("send", b, 0)>>

\* The same where b takes the place of a block for the same tip.
Replaced(b) ==
    <<Stmt("time", Null, 0), Stmt("block", b, 0), Stmt("seed", Null, 1), Stmt("sign", Null, 0),
      Stmt("send", b, 0)>>

\* ChangeHeader and NewMixedPoWValidBlock(., isupdateheader = true).
Updated(b) ==
    <<Stmt("header", b, 0), Stmt("time", Null, 0), Stmt("sign", Null, 0), Stmt("send", Null, 0)>>

Replaces(n, b) ==
    /\ nRelayingTime[n] # Off
    /\ nRelayingTime[n] > RelayingBlockMinLimit
    /\ nRelayingBlock[n].seed # b.seed

\* The tests of NewMixedPoWValidBlock(b, false).
NewMixedPoWValidBlock(n, t, b) ==
    LET relayingOnTip == OnTip(n, nRelayingBlock[n])
    IN  \/ /\ OnTip(n, b) /\ ~relayingOnTip
           /\ Begin(n, t, TakenUp(b))
        \/ /\ OnTip(n, b) /\ relayingOnTip /\ Replaces(n, b)
           /\ Begin(n, t, Replaced(b))
        \/ /\ ~OnTip(n, b) \/ (relayingOnTip /\ ~Replaces(n, b))
           /\ UNCHANGED todo

-----------------------------------------------------------------------------
(* What a statement does.  rest are those that follow it.                  *)

\* ProcessNewBlock checks the signatures of every block against the tickets
\* that sign on top of the present tip.
SignersAgree(n, b) ==
    \A k \in 1 .. NSigs : Owner(Height(n), b.seed, k) = Owner(b.height - 1, b.seed, k)

\* The block and its ancestors.
ChainTo[hash \in Genesis .. MaxBlocks] ==
    IF hash = Genesis THEN <<Genesis>> ELSE Append(ChainTo[mined[hash].prev], hash)

\* Whether ProcessNewBlock returns true.  A block that failed before is refused.
Accepts(n, b) ==
    /\ b.verdict # "refused"
    /\ b.verdict = "fails" => b.hash \notin mapBlockIndex[n]
    /\ b.prev \in mapBlockIndex[n]
    /\ SignersAgree(n, b)

\* The longer chain becomes active, the first of two of equal length stays so.
ProcessNewBlock(n, b) ==
    /\ mapBlockIndex' = [mapBlockIndex EXCEPT ![n] = @ \cup {b.hash}]
    /\ chain' = IF b.verdict = "connects" /\ b.height > Height(n)
                  THEN [chain EXCEPT ![n] = ChainTo[b.hash]] ELSE chain

\* An assignment to one of the globals.  ChangeHeader leaves the transactions,
\* which do not match the header of another block.
Assign(n, t, s, rest) ==
    /\ \/ /\ s.op = "block"
          /\ nRelayingBlock' = [nRelayingBlock EXCEPT ![n] = s.block]
          /\ UNCHANGED <<nRelayingTime, nNextChoice>>
       \/ /\ s.op = "header"
          /\ nRelayingBlock' = [nRelayingBlock EXCEPT ![n] =
                IF @.hash = s.block.hash THEN s.block ELSE [s.block EXCEPT !.verdict = "refused"]]
          /\ UNCHANGED <<nRelayingTime, nNextChoice>>
       \/ /\ s.op = "time"
          /\ nRelayingTime' = [nRelayingTime EXCEPT ![n] = s.val]
          /\ UNCHANGED <<nRelayingBlock, nNextChoice>>
       \/ /\ s.op \in {"choice", "seed", "count"}
          /\ nNextChoice' = [nNextChoice EXCEPT ![n] =
                s.val + CASE s.op = "choice" -> 0
                          [] s.op = "seed"   -> nRelayingBlock[n].seed
                          [] s.op = "count"  -> @]
          /\ UNCHANGED <<nRelayingBlock, nRelayingTime>>
    /\ Begin(n, t, rest)
    /\ UNCHANGED <<chainVars, net>>

\* SIGNNEWBLOCKHEADER(nRelayingBlock): n signs the next slot as long as it owns
\* it; with the last signature in place the block goes to ProcessNewBlock.  The
\* statement that sends learns whether n has signed.
SIGNNEWBLOCKHEADER(n, t, s, rest) ==
    LET b        == nRelayingBlock[n]
        owns(k)  == Owner(Height(n), b.seed, k) = n
        index    == CHOOSE j \in b.index .. NSigs :
                       /\ \A k \in b.index + 1 .. j : owns(k)
                       /\ j = NSigs \/ ~owns(j + 1)
        accepted == index = NSigs /\ Accepts(n, b)
        send     == [rest EXCEPT ![1].val = IF index > b.index THEN 1 ELSE 0]
    IN  /\ s.op = "sign"
        /\ nRelayingBlock' = [nRelayingBlock EXCEPT ![n].index = index]
        /\ \/ accepted /\ ProcessNewBlock(n, b) /\ Begin(n, t, Clear \o send)
           \/ ~accepted /\ Begin(n, t, send) /\ UNCHANGED chainVars
        /\ UNCHANGED <<nRelayingTime, nNextChoice, net>>

\* Mutant: a peer that knows the block is not told of the signature just added.
AudienceQuiet(n, s) == {q \in Peers(n) : nMixedPowHeader[n][q].hash # s.block.hash}

\* The peers to which the header of the relayed block is sent: after an update
\* (s.block is Null) all, or none if it is complete; else those that do not
\* know the block yet, or all if n has signed.  An accepted block is announced
\* as the null header.
Audience(n, s) ==
    {q \in Peers(n) : IF s.block = Null THEN nRelayingBlock[n].index # NSigs
                      ELSE nMixedPowHeader[n][q].hash # s.block.hash \/ s.val = 1}

SendHeader(n, t, s, rest) ==
    /\ s.op = "send"
    /\ Exchange(n, n, Send(Audience(n, s), "pownewheader", nRelayingBlock[n]))
    /\ Begin(n, t, rest)
    /\ UNCHANGED <<chainVars, relayVars>>

\* Mutant: only the very block received is dropped.
DropSameOnly(n, t, s, rest) ==
    /\ s.op = "drop"
    /\ Begin(n, t, IF nRelayingBlock[n].hash = s.block.hash THEN Clear ELSE rest)
    /\ UNCHANGED <<chainVars, relayVars, net>>

\* The end of ProcessNetBlock: the relayed block is dropped if it is the one
\* received or has the same parent.
DropOverridden(n, t, s, rest) ==
    /\ s.op = "drop"
    /\ Begin(n, t, IF nRelayingBlock[n].prev = s.block.prev THEN Clear ELSE rest)
    /\ UNCHANGED <<chainVars, relayVars, net>>

\* Thread t of n executes its next statement.
Step(n, t) ==
    /\ Busy(n, t)
    /\ Runs(n, t)
    /\ LET s    == Head(todo[n][t])
           rest == Tail(todo[n][t])
       IN  \/ Assign(n, t, s, rest)
           \/ SIGNNEWBLOCKHEADER(n, t, s, rest)
           \/ SendHeader(n, t, s, rest)
           \/ DropOverridden(n, t, s, rest)
    /\ UNCHANGED <<mined, nDownLoadingRelayingHash, nMixedPowHeader, work, drops>>

-----------------------------------------------------------------------------
(* The message handlers.  p is the sender, b the header or block received. *)

Received(n, p, command) ==
    /\ p # n
    /\ Starts(n, "msg")
    /\ net[p][n] # << >>
    /\ Head(net[p][n]).command = command

Got(n, p) == Head(net[p][n]).block

\* The null relayed block is never on the tip, so the code's first and last
\* branches (nothing relayed; a stale block relayed) are one.
Fetch(n, p, b) ==
    /\ OnTip(n, b) /\ ~OnTip(n, nRelayingBlock[n])
    /\ nMixedPowHeader' = [nMixedPowHeader EXCEPT ![n][p] = b]
    /\ nDownLoadingRelayingHash' = [nDownLoadingRelayingHash EXCEPT ![n] = b.hash]
    /\ Exchange(n, p, IF nDownLoadingRelayingHash[n] = b.hash THEN Silence
                      ELSE Send({p}, "getpownewblock", Null))
    /\ UNCHANGED todo

\* Mutant: the numbers of signatures are not compared.
ProgressAlways(n, p, b) ==
    /\ OnTip(n, b) /\ b.hash = nRelayingBlock[n].hash
    /\ nMixedPowHeader' = [nMixedPowHeader EXCEPT ![n][p] = b]
    /\ Begin(n, "msg", Updated(b))
    /\ Exchange(n, p, Silence)
    /\ UNCHANGED nDownLoadingRelayingHash

\* The same block with more signatures.
Progress(n, p, b) ==
    /\ OnTip(n, b) /\ b.hash = nRelayingBlock[n].hash
    /\ b.index > nRelayingBlock[n].index
    /\ nMixedPowHeader' = [nMixedPowHeader EXCEPT ![n][p] = b]
    /\ Begin(n, "msg", Updated(b))
    /\ Exchange(n, p, Silence)
    /\ UNCHANGED nDownLoadingRelayingHash

\* Another block for the same tip with more signatures.
GiveWay(n, p, b) ==
    /\ OnTip(n, b) /\ OnTip(n, nRelayingBlock[n]) /\ b.hash # nRelayingBlock[n].hash
    /\ b.index > nRelayingBlock[n].index
    /\ nMixedPowHeader' = [nMixedPowHeader EXCEPT ![n][p] = b]
    /\ nDownLoadingRelayingHash' = [nDownLoadingRelayingHash EXCEPT ![n] = b.hash]
    /\ Exchange(n, p, Send({p}, "getpownewblock", Null))
    /\ UNCHANGED todo

\* Every other header is ignored.
Ignore(n, p, b) ==
    /\ \/ ~OnTip(n, b)
       \/ OnTip(n, nRelayingBlock[n]) /\ b.index <= nRelayingBlock[n].index
    /\ Exchange(n, p, Silence)
    /\ UNCHANGED <<todo, nDownLoadingRelayingHash, nMixedPowHeader>>

POWNEWBLOCKHEADER(n, p) ==
    /\ Received(n, p, "pownewheader")
    /\ LET b == Got(n, p)
       IN  Fetch(n, p, b) \/ Progress(n, p, b) \/ GiveWay(n, p, b) \/ Ignore(n, p, b)
    /\ UNCHANGED <<mined, chainVars, relayVars, work, drops>>

GETPOWNEWBLOCK(n, p) ==
    /\ Received(n, p, "getpownewblock")
    /\ Exchange(n, p, Send({p}, "pownewblock", nRelayingBlock[n]))
    /\ UNCHANGED <<mined, chainVars, todo, relayVars, nDownLoadingRelayingHash, nMixedPowHeader, work, drops>>

POWNEWBLOCK(n, p) ==
    /\ Received(n, p, "pownewblock")
    /\ LET b == Got(n, p)
           asked == /\ b.hash # NoHash
                    /\ b.hash = nMixedPowHeader[n][p].hash
                    /\ b.hash = nDownLoadingRelayingHash[n]
       IN  \/ /\ asked
              /\ nDownLoadingRelayingHash' = [nDownLoadingRelayingHash EXCEPT ![n] = NoHash]
              /\ NewMixedPoWValidBlock(n, "msg", b)
           \/ /\ ~asked
              /\ UNCHANGED <<todo, nDownLoadingRelayingHash>>
    /\ Exchange(n, p, Silence)
    /\ UNCHANGED <<mined, chainVars, relayVars, nMixedPowHeader, work, drops>>

\* The tail of the GETHEADERS handler: a peer that has announced nothing yet is
\* told of the block n relays.
GETHEADERS(n, p) ==
    /\ Received(n, p, "getheaders")
    /\ Exchange(n, p, IF nMixedPowHeader[n][p] = Null /\ OnTip(n, nRelayingBlock[n])
                      THEN Send({p}, "pownewheader", nRelayingBlock[n])
                      ELSE Silence)
    /\ UNCHANGED <<mined, chainVars, todo, relayVars, nDownLoadingRelayingHash, nMixedPowHeader, work, drops>>

-----------------------------------------------------------------------------
(* The miner (getwork, submitblock), time, and the connections.            *)

\* getwork: a template for the tip with the present seed, unless a block is
\* being relayed.
GetWork(n) ==
    /\ Starts(n, "rpc")
    /\ nRelayingBlock[n].hash = NoHash
    /\ Len(mined) < MaxBlocks
    /\ work' = [work EXCEPT ![n] = [Null EXCEPT !.prev = Tip(n), !.height = Height(n) + 1,
                                                !.seed = nNextChoice[n]]]
    /\ UNCHANGED <<mined, chainVars, todo, relayVars, nDownLoadingRelayingHash, nMixedPowHeader, net, drops>>

\* submitblock: the proof of work is found.
SubmitBlock(n) ==
    /\ Starts(n, "rpc")
    /\ work[n] # Null
    /\ Len(mined) < MaxBlocks
    /\ work' = [work EXCEPT ![n] = Null]
    /\ \E verdict \in Outcomes :
          LET b == [work[n] EXCEPT !.hash = Len(mined) + 1, !.verdict = verdict]
          IN  /\ mined' = Append(mined, b)
              /\ NewMixedPoWValidBlock(n, "rpc", b)
    /\ UNCHANGED <<chainVars, relayVars, nDownLoadingRelayingHash, nMixedPowHeader, net, drops>>

Tick ==
    /\ \A n \in Nodes, t \in Threads : Busy(n, t) => Head(todo[n][t]).op \in Preempt
    /\ \E n \in Nodes : nRelayingTime[n] \in 0 .. RelayingBlockMaxLimit
    /\ nRelayingTime' = [n \in Nodes |-> IF nRelayingTime[n] \in 0 .. RelayingBlockMaxLimit
                                         THEN nRelayingTime[n] + 1 ELSE nRelayingTime[n]]
    /\ UNCHANGED <<mined, chainVars, todo, nRelayingBlock, nNextChoice, nDownLoadingRelayingHash,
                   nMixedPowHeader, work, net, drops>>

\* The end of a pass of ThreadMessageHandler.
Abandon(n) ==
    /\ Starts(n, "msg")
    /\ nRelayingTime[n] > RelayingBlockMaxLimit
    /\ Begin(n, "msg", Abandoned)
    /\ UNCHANGED <<mined, chainVars, relayVars, nDownLoadingRelayingHash, nMixedPowHeader, work, net, drops>>

\* Mutant: only a block on the tip is processed.
ProcessNetBlockOnTip(n, p) ==
    /\ Starts(n, "msg")
    /\ \E i \in DOMAIN chain[p] :
          LET hash == chain[p][i]
          IN  /\ hash \notin mapBlockIndex[n]
              /\ mined[hash].prev = Tip(n)
              /\ Accepts(n, mined[hash])
              /\ ProcessNewBlock(n, mined[hash])
              /\ Begin(n, "msg", <<Stmt("drop", mined[hash], 0)>>)
    /\ UNCHANGED <<mined, relayVars, nDownLoadingRelayingHash, nMixedPowHeader, work, net, drops>>

\* Ordinary block relay: n gets the next block of the chain of p and hands it
\* to ProcessNewBlock.
ProcessNetBlock(n, p) ==
    /\ Starts(n, "msg")
    /\ \E i \in DOMAIN chain[p] :
          LET hash == chain[p][i]
          IN  /\ hash \notin mapBlockIndex[n]
              /\ Accepts(n, mined[hash])
              /\ ProcessNewBlock(n, mined[hash])
              /\ Begin(n, "msg", <<Stmt("drop", mined[hash], 0)>>)
    /\ UNCHANGED <<mined, relayVars, nDownLoadingRelayingHash, nMixedPowHeader, work, net, drops>>

\* A connection is lost, with the messages on it, and made again.
Reconnect(n, p) ==
    /\ n # p
    /\ \A m \in Nodes, t \in Threads : Busy(m, t) => Head(todo[m][t]).op \in Preempt
    /\ drops < MaxDrops
    /\ drops' = drops + 1
    /\ net' = [net EXCEPT ![n][p] = <<Msg("getheaders", Null)>>,
                          ![p][n] = <<Msg("getheaders", Null)>>]
    /\ nMixedPowHeader' = [nMixedPowHeader EXCEPT ![n][p] = Null, ![p][n] = Null]
    /\ UNCHANGED <<mined, chainVars, todo, relayVars, nDownLoadingRelayingHash, work>>

-----------------------------------------------------------------------------
Init ==
    /\ mined = << >>
    /\ chain = [n \in Nodes |-> <<Genesis>>]
    /\ mapBlockIndex = [n \in Nodes |-> {Genesis}]
    /\ todo = [n \in Nodes |-> [t \in Threads |-> << >>]]
    /\ nRelayingBlock = [n \in Nodes |-> Null]
    /\ nRelayingTime = [n \in Nodes |-> Off]
    /\ nNextChoice = [n \in Nodes |-> 0]
    /\ nDownLoadingRelayingHash = [n \in Nodes |-> NoHash]
    /\ nMixedPowHeader = [n \in Nodes |-> [p \in Nodes |-> Null]]
    /\ work = [n \in Nodes |-> Null]
    /\ net = [n \in Nodes |-> [p \in Nodes |-> << >>]]
    /\ drops = 0

Handle(n, p) ==
    \/ ProcessNetBlock(n, p)
    \/ POWNEWBLOCKHEADER(n, p)
    \/ GETPOWNEWBLOCK(n, p)
    \/ POWNEWBLOCK(n, p)
    \/ GETHEADERS(n, p)

Next ==
    \/ \E n, p \in Nodes : Handle(n, p) \/ Reconnect(n, p)
    \/ \E n \in Nodes, t \in Threads : Step(n, t)
    \/ \E n \in Nodes : GetWork(n) \/ SubmitBlock(n) \/ Abandon(n)
    \/ Tick

\* The message handler thread serves every peer and tests the timeout in every
\* pass, and what a thread has begun it ends; time goes on.  Nobody has to mine.
Fairness ==
    /\ \A n, p \in Nodes : WF_vars(Handle(n, p))
    /\ \A n \in Nodes, t \in Threads : WF_vars(Step(n, t))
    /\ \A n \in Nodes : WF_vars(Abandon(n))
    /\ WF_vars(Tick)

Spec == Init /\ [][Next]_vars /\ Fairness

\* The same with a network that is faster than the limits: no timeout runs out.
PromptNext ==
    \/ \E n, p \in Nodes : Handle(n, p) \/ Reconnect(n, p)
    \/ \E n \in Nodes, t \in Threads : Step(n, t)
    \/ \E n \in Nodes : GetWork(n) \/ SubmitBlock(n)

PromptSpec ==
    /\ Init /\ [][PromptNext]_vars
    /\ \A n, p \in Nodes : WF_vars(Handle(n, p))
    /\ \A n \in Nodes, t \in Threads : WF_vars(Step(n, t))

-----------------------------------------------------------------------------
(* Properties.                                                             *)

Block == [hash : NoHash .. MaxBlocks, prev : NoHash .. MaxBlocks, height : 0 .. MaxBlocks, seed : Nat,
          verdict : Verdicts, index : 0 .. NSigs]

\* The variables keep their types.
TypeOK ==
    /\ mined \in Seq(Block) /\ Len(mined) <= MaxBlocks
    /\ mapBlockIndex \in [Nodes -> SUBSET (Genesis .. Len(mined))]
    /\ \A n \in Nodes : chain[n] \in Seq(mapBlockIndex[n]) /\ chain[n] # << >>
    /\ \A n \in Nodes, t \in Threads :
          todo[n][t] \in Seq([op : Ops, block : Block, val : {Off, 0, 1}])
    /\ nRelayingBlock \in [Nodes -> Block]
    /\ nRelayingTime \in [Nodes -> Off .. RelayingBlockMaxLimit + 1]
    /\ nNextChoice \in [Nodes -> Nat]
    /\ nDownLoadingRelayingHash \in [Nodes -> NoHash .. MaxBlocks]
    /\ nMixedPowHeader \in [Nodes -> [Nodes -> Block]]
    /\ work \in [Nodes -> Block]
    /\ drops \in 0 .. MaxDrops

\* "the time is updated here in any case" (where a block is taken up): a block
\* that is relayed has a running timer once no thread of the node is inside a
\* handler.  The timeout only looks at nRelayingTime and getwork only at
\* nRelayingBlock: without a timer the block would keep the node from mining.
TimerRunsWithBlock ==
    \A n \in Nodes : Quiet(n) /\ nRelayingBlock[n].hash # NoHash => nRelayingTime[n] # Off

\* Between two messages a node never collects signatures for a block whose
\* place on its own chain is taken: whichever of the two threads moved the tip,
\* the relayed block is a child of the tip or of an abandoned branch.
RelayedNotOverridden ==
    \A n \in Nodes :
        Quiet(n) /\ nRelayingBlock[n].hash # NoHash =>
            \/ OnTip(n, nRelayingBlock[n])
            \/ \A i \in DOMAIN chain[n] : chain[n][i] # nRelayingBlock[n].prev

\* The next seed a node would use is never below that of the block it relays,
\* so what it mines after giving that block up draws other signers.  Seeds are
\* natural numbers here: the wrap of the uint32_t nNextChoice is not covered.
ChoiceNotBehind ==
    \A n \in Nodes : Quiet(n) => nRelayingBlock[n].seed <= nNextChoice[n]

\* A node that relays the same block before and after a step has lost none of
\* its signatures, however headers, blocks and timeouts are interleaved.
SignaturesKept ==
    [][\A n \in Nodes : nRelayingBlock'[n].hash = nRelayingBlock[n].hash
                            => nRelayingBlock'[n].index >= nRelayingBlock[n].index]_vars

\* Whatever happens to the other signers, a node ends up with nothing to relay
\* again and can mine: no block is passed round for ever.  This takes for granted
\* that no call of the miner falls among the statements of the message thread
\* (Preempt); where one does, see TimerRunsWithBlock.
EveryBlockSettled ==
    \A n \in Nodes : []<>(nRelayingBlock[n].hash = NoHash)

\* With every signer online and a network faster than the timeouts, a valid
\* block that a node takes up collects its signatures and every node connects it.
ValidBlockConnects ==
    \A p \in Nodes, hash \in 1 .. MaxBlocks :
        (\E n \in Nodes : nRelayingBlock[n].hash = hash /\ nRelayingBlock[n].verdict = "connects")
            ~> \E i \in DOMAIN chain[p] : chain[p][i] = hash

\* "only returns after the best known valid block is made active" (of
\* ProcessNewBlock): once mining stops every node ends up on a chain as long as
\* any other's.
ChainsConverge ==
    <>[](\A n, p \in Nodes : Len(chain[n]) = Len(chain[p]))

\* "already downloading this block from elsewhere": a header is only passed over
\* for that reason while a request for the block, or the block itself, is under
\* way.
SkippedIsUnderWay ==
    \A n, p \in Nodes :
        /\ Received(n, p, "pownewheader")
        /\ OnTip(n, Got(n, p)) /\ ~OnTip(n, nRelayingBlock[n])
        /\ nDownLoadingRelayingHash[n] = Got(n, p).hash
        => \E q \in Nodes :
              \/ \E i \in DOMAIN net[n][q] : net[n][q][i].command = "getpownewblock"
              \/ \E i \in DOMAIN net[q][n] :
                    /\ net[q][n][i].command = "pownewblock"
                    /\ net[q][n][i].block.hash = Got(n, p).hash
=============================================================================
