-------------------------- MODULE TicketPoolProofs --------------------------
(***************************************************************************)
(* The pool follows the chain, for every latency, valve, expiry age and    *)
(* number of lucky tickets.                                                *)
(***************************************************************************)
EXTENDS TicketPool, InductionLemmas, SequenceTheorems

Tix == [ticketTxHash : Nat, ticketHeight : Nat]
Blk == Blocks \cup {Genesis}

\* getLuckyIndex: a seed that fits an int shifts the windows to the left, so
\* none of them starts behind the digits.
LEMMA SmallSeedsReadable ==
  ASSUME NEW seed \in Nat, seed < 2 ^ (SeedBits - 1)
  PROVE  Unreadable(seed) = {}
<1>1. SeedShift(seed) \in 0 .. SeedMod - 1
  <2>1. SeedShift(seed) = seed % SeedMod
    BY DEF SeedShift
  <2> QED
    BY <2>1, LuckyAssumption
<1>2. ASSUME NEW k \in 1 .. NLucky PROVE ~(WindowStart(seed, k) >= HashLen)
  BY <1>1, LuckyAssumption DEF WindowStart
<1> QED
  BY <1>2 DEF Unreadable

OneElement(S) == \E x : S = {x}

\* A draw that reads digits only has one outcome.
LEMMA OneUpdate ==
  ASSUME NEW pool, NEW prev, NEW block, NEW bh, Unreadable(block.seed) = {}
  PROVE  OneElement(UpdatedPools(pool, prev, block, bh))
<1> DEFINE size == getTicketpoolSize(pool)
           ix == [k \in 1 .. NLucky |-> idata(prev.hash, block.seed, k) % (size - NLucky)]
<1>1. \E luckyIndex : getLuckyIndex(prev.hash, block.seed, size) = {luckyIndex}
  <2>1. CASE size > NLucky
    <3>1. \A S : \E any : [{} -> S] = {any}
      <4> SUFFICES ASSUME NEW S PROVE [{} -> S] = {[x \in {} |-> {}]}
        OBVIOUS
      <4> QED
        OBVIOUS
    <3>2. PICK any : [{} -> 0 .. size - NLucky - 1] = {any}
      BY <3>1
    <3>3. getLuckyIndex(prev.hash, block.seed, size)
            = {[k \in 1 .. NLucky |-> IF k \in {} THEN a[k]
                                      ELSE idata(prev.hash, block.seed, k) % (size - NLucky)] :
                  a \in [{} -> 0 .. size - NLucky - 1]}
      BY <2>1, Zenon DEF getLuckyIndex
    <3>4. getLuckyIndex(prev.hash, block.seed, size) = {ix}
      BY <3>2, <3>3
    <3> QED
      BY <3>4
  <2>2. CASE ~(size > NLucky)
    BY <2>2 DEF getLuckyIndex
  <2> QED
    BY <2>1, <2>2
<1>2. \E lucky : LuckyToDelete(pool, prev, block, bh) = {lucky}
  <2>1. CASE bh > TICKET_VALVE
    <3>1. PICK luckyIndex : getLuckyIndex(prev.hash, block.seed, size) = {luckyIndex}
      BY <1>1
    <3>2. LuckyTickets(pool, prev.hash, block.seed) = {Drawn(pool, luckyIndex)}
      BY <3>1, Zenon DEF LuckyTickets
    <3> QED
      BY <2>1, <3>2, Zenon DEF LuckyToDelete
  <2>2. CASE ~(bh > TICKET_VALVE)
    BY <2>2, Zenon DEF LuckyToDelete
  <2> QED
    BY <2>1, <2>2
<1>3. PICK lucky : LuckyToDelete(pool, prev, block, bh) = {lucky}
  BY <1>2
<1>4. UpdatedPools(pool, prev, block, bh) = {Updated(pool, lucky, block, bh)}
  BY <1>3, Zenon DEF UpdatedPools
<1> QED
  BY <1>4, Zenon DEF OneElement

\* Deleting and pushing tickets keeps the pool a set of tickets.
LEMMA UpdatedPoolType ==
  ASSUME NEW pool \in SUBSET Tix, NEW prev, NEW block \in Blk, NEW bh \in Nat,
         bh >= TICKETPOOL_HEIGHT_LATENCY
  PROVE  UpdatedPools(pool, prev, block, bh) \subseteq SUBSET Tix
<1> DEFINE th == bh - TICKETPOOL_HEIGHT_LATENCY
<1>1. th \in Nat
  BY PoolAssumption
<1>2. block.buys \subseteq Nat
  BY PoolAssumption DEF Blk
<1>3. \A P \in SUBSET Tix : DeleteExpired(P, bh) \in SUBSET Tix
  BY DEF DeleteExpired, ticketDelByHeight
<1>4. \A P \in SUBSET Tix : PushBought(P, block, th) \in SUBSET Tix
  BY <1>1, <1>2 DEF PushBought, Ticket, Tix
<1>5. \A L : DeleteLucky(pool, L) \in SUBSET Tix
  BY DEF DeleteLucky
<1> QED
  BY <1>3, <1>4, <1>5 DEF UpdatedPools, Updated

\* The initial state has the right types.
LEMMA TypeInit == Init => TypeOK
<1> SUFFICES ASSUME Init PROVE TypeOK
  OBVIOUS
<1>1. chainActive \in Seq(Blk) /\ Len(chainActive) > 0 /\ diskChain \in Seq(Blk)
  BY DEF Init, Blk
<1>2. deepRollback \in BOOLEAN
  BY DEF Init
<1> QED
  BY <1>1, <1>2 DEF Init, TypeOK, Blk

\* Every action keeps the types.
LEMMA TypeStep == TypeOK /\ [Next]_vars => TypeOK'
<1> SUFFICES ASSUME TypeOK, [Next]_vars PROVE TypeOK'
  OBVIOUS
<1> USE DEF TypeOK
<1>u. ASSUME NEW c \in Seq(Blk), NEW bh \in Nat, bh <= Len(c) - 1, updateTicketpool(c, bh)
      PROVE  ticket_pool' \in SUBSET Tix /\ load_height' \in Nat
  <2> DEFINE th == bh - TICKETPOOL_HEIGHT_LATENCY
  <2>1. CASE th <= load_height
    BY <1>u, <2>1, PoolAssumption DEF updateTicketpool, ticketDelByHeight, Tix
  <2>2. CASE th > load_height /\ th <= pruned
    BY <1>u, <2>2, PoolAssumption DEF updateTicketpool, Tix
  <2>3. CASE th > load_height /\ th > pruned
    <3>1. th \in Nat /\ th + 1 \in 1 .. Len(c)
      BY <2>3, <1>u, PoolAssumption
    <3>2. BlockAt(c, th) \in Blk
      BY <3>1 DEF BlockAt
    <3>3. ticket_pool \in SUBSET Tix
      BY DEF Tix
    <3> QED
      BY <1>u, <2>3, <3>1, <3>2, <3>3, UpdatedPoolType, PoolAssumption DEF updateTicketpool
  <2> QED
    BY <2>1, <2>2, <2>3, PoolAssumption
<1>t. ASSUME NEW c \in Seq(Blk), Len(c) > 0, UpdateTip(c)
      PROVE  /\ chainActive' = c
             /\ ticket_pool' \in SUBSET Tix
             /\ load_height' \in Nat
  <2>1. Height(c) \in Nat
    BY <1>t DEF Height
  <2> QED
    BY <1>t, <1>u, <2>1 DEF UpdateTip, Height, Tix
<1>1. ASSUME NEW block \in Blocks, ConnectTip(block) PROVE TypeOK'
  <2>1. Append(chainActive, block) \in Seq(Blk) /\ Len(Append(chainActive, block)) > 0
    BY DEF Blk
  <2> QED
    BY <1>1, <1>t, <2>1 DEF ConnectTip, MaybeFlush, Tix, Blk
<1>2. CASE DisconnectTip
  <2> DEFINE c == SubSeq(chainActive, 1, Len(chainActive) - 1)
  <2>1. c \in Seq(Blk) /\ Len(c) > 0
    BY <1>2 DEF DisconnectTip, Height, Blk
  <2>2. deepRollback' \in BOOLEAN
    BY <1>2 DEF DisconnectTip
  <2> HIDE DEF c
  <2>3. UpdateTip(c) /\ MaybeFlush(c) /\ UNCHANGED <<pruned, phase, loadNext>>
    BY <1>2 DEF DisconnectTip, c
  <2> QED
    BY <1>t, <2>1, <2>2, <2>3 DEF MaybeFlush, Tix, Blk
<1>3. CASE Prune
  BY <1>3, PoolAssumption DEF Prune, Height
<1>4. CASE StartLoad
  BY <1>4 DEF StartLoad
<1>5. CASE LoadStep
  <2>1. chainActive \in Seq(Blk) /\ loadNext \in Nat /\ loadNext <= Len(chainActive) - 1
    BY <1>5 DEF LoadStep, Height, Blk
  <2> QED
    BY <1>5, <1>u, <2>1 DEF LoadStep, Tix
<1>6. CASE FinishLoad
  BY <1>6 DEF FinishLoad
<1>7. CASE Restart
  <2>1. deepRollback' \in BOOLEAN
    BY <1>7 DEF Restart
  <2> QED
    BY <1>7, <2>1 DEF Restart
<1>8. CASE UNCHANGED vars
  BY <1>8 DEF vars
<1> QED
  BY <1>1, <1>2, <1>3, <1>4, <1>5, <1>6, <1>7, <1>8 DEF Next

\* The variables keep their types: in particular load_height is never negative
\* and every ticket has a natural height, whatever updateTicketpool is given.
THEOREM TypeCorrect == Spec => []TypeOK
BY TypeInit, TypeStep, PTL DEF Spec

-----------------------------------------------------------------------------
(* The replay of a chain is well defined and depends on its prefix only.   *)

ReplayFcn(f, c, n) ==
    f = [h \in 0 .. n |-> IF h = 0 THEN {{}} ELSE ReplayStep(f[h - 1], c, h)]

\* The recursive definition of Replay has a solution for every n.
LEMMA ReplayExists ==
  ASSUME NEW c
  PROVE  \A n \in Nat : \E f : ReplayFcn(f, c, n)
<1> DEFINE S == {n \in Nat : \E f : ReplayFcn(f, c, n)}
<1>1. 0 \in S
  <2>1. ReplayFcn([h \in 0 .. 0 |-> {{}}], c, 0)
    BY DEF ReplayFcn
  <2> QED
    BY <2>1
<1>2. ASSUME NEW n \in Nat, n \in S PROVE n + 1 \in S
  <2>1. PICK f : ReplayFcn(f, c, n)
    BY <1>2
  <2> DEFINE U(x, h) == ReplayStep(x, c, h)
             g == [h \in 0 .. n + 1 |-> IF h = n + 1 THEN U(f[n], n + 1) ELSE f[h]]
  <2>2. f = [h \in 0 .. n |-> IF h = 0 THEN {{}} ELSE U(f[h - 1], h)]
    BY <2>1 DEF ReplayFcn
  <2> HIDE DEF U
  <2>3. \A h \in 0 .. n + 1 : g[h] = IF h = 0 THEN {{}} ELSE U(g[h - 1], h)
    <3> SUFFICES ASSUME NEW h \in 0 .. n + 1
                 PROVE  g[h] = IF h = 0 THEN {{}} ELSE U(g[h - 1], h)
      OBVIOUS
    <3>1. CASE h = n + 1
      BY <3>1
    <3>2. CASE h = 0
      BY <3>2, <2>2
    <3>3. CASE h \in 1 .. n
      <4>1. h # n + 1 /\ h - 1 # n + 1 /\ h \in 0 .. n /\ h - 1 \in 0 .. n + 1 /\ h # 0
        BY <3>3
      <4>2. g[h] = f[h] /\ g[h - 1] = f[h - 1]
        BY <4>1
      <4>3. f[h] = U(f[h - 1], h)
        BY <4>1, <2>2
      <4> HIDE DEF g
      <4> QED
        BY <4>1, <4>2, <4>3
    <3> QED
      BY <3>1, <3>2, <3>3
  <2>4. g = [h \in 0 .. n + 1 |-> IF h = 0 THEN {{}} ELSE U(g[h - 1], h)]
    BY <2>3
  <2> HIDE DEF g
  <2>5. ReplayFcn(g, c, n + 1)
    BY <2>4 DEF ReplayFcn, U
  <2> QED
    BY <2>5
<1> HIDE DEF S
<1>3. Nat \subseteq S
  BY <1>1, <1>2, SetInduction, Zenon
<1> QED
  BY <1>3 DEF S

\* Replay satisfies its defining equation.
LEMMA ReplayDef ==
  ASSUME NEW c, NEW n \in Nat
  PROVE  /\ Replay(c, n)[0] = {{}}
         /\ \A h \in 1 .. n : Replay(c, n)[h] = ReplayStep(Replay(c, n)[h - 1], c, h)
<1>1. Replay(c, n) = CHOOSE f : ReplayFcn(f, c, n)
  BY DEF Replay, ReplayFcn
<1> HIDE DEF Replay
<1>2. \E f : ReplayFcn(f, c, n)
  BY ReplayExists
<1>3. ReplayFcn(Replay(c, n), c, n)
  BY <1>1, <1>2, Zenon
<1> DEFINE f == Replay(c, n)
           U(x, h) == ReplayStep(x, c, h)
<1>4. f = [h \in 0 .. n |-> IF h = 0 THEN {{}} ELSE U(f[h - 1], h)]
  BY <1>3 DEF ReplayFcn
<1> HIDE DEF f, U
<1>5. f[0] = {{}}
  BY <1>4
<1>6. \A h \in 1 .. n : f[h] = U(f[h - 1], h)
  BY <1>4
<1> QED
  BY <1>5, <1>6 DEF f, U

\* Chains that agree up to height n have the same replay up to n.
LEMMA ReplayPrefix ==
  ASSUME NEW c, NEW d, NEW m \in Nat, NEW n \in Nat, n <= m,
         \A h \in 0 .. n : BlockAt(c, h) = BlockAt(d, h)
  PROVE  Replay(c, n)[n] = Replay(d, m)[n]
<1> DEFINE S == {h \in Nat : h <= n => Replay(c, n)[h] = Replay(d, m)[h]}
<1> HIDE DEF Replay
<1>1. 0 \in S
  BY ReplayDef
<1>2. ASSUME NEW h \in Nat, h \in S PROVE h + 1 \in S
  <2> SUFFICES ASSUME h + 1 <= n PROVE Replay(c, n)[h + 1] = Replay(d, m)[h + 1]
    OBVIOUS
  <2>1. h + 1 \in 1 .. n /\ h + 1 \in 1 .. m /\ (h + 1) - 1 = h /\ h \in 0 .. n
    OBVIOUS
  <2>2. Replay(c, n)[h] = Replay(d, m)[h]
    BY <1>2
  <2>3. BlockAt(c, h) = BlockAt(d, h) /\ BlockAt(c, h + 1) = BlockAt(d, h + 1)
    BY <2>1
  <2>4. Replay(c, n)[h + 1] = ReplayStep(Replay(c, n)[h], c, h + 1)
    BY <2>1, ReplayDef
  <2>5. Replay(d, m)[h + 1] = ReplayStep(Replay(d, m)[h], d, h + 1)
    BY <2>1, ReplayDef
  <2>6. \A pools : ReplayStep(pools, c, h + 1) = ReplayStep(pools, d, h + 1)
    BY <2>1, <2>3 DEF ReplayStep
  <2> QED
    BY <2>2, <2>4, <2>5, <2>6
<1> HIDE DEF S
<1>3. Nat \subseteq S
  BY <1>1, <1>2, SetInduction, Zenon
<1> QED
  BY <1>3 DEF S

\* The seeds of a prefix are those of the chain.
LEMMA ReadablePrefix ==
  ASSUME NEW c, NEW d, NEW m \in Nat, NEW n \in Nat, n <= m, SeedsReadable(c, m),
         \A h \in 0 .. n : BlockAt(c, h) = BlockAt(d, h)
  PROVE  SeedsReadable(d, n)
<1> SUFFICES ASSUME NEW h \in 1 .. n PROVE Unreadable(BlockAt(d, h).seed) = {}
  BY Zenon DEF SeedsReadable
<1>1. h \in 0 .. n /\ h \in 1 .. m
  OBVIOUS
<1>2. BlockAt(c, h) = BlockAt(d, h)
  BY <1>1
<1>3. \A k \in 1 .. m : Unreadable(BlockAt(c, k).seed) = {}
  BY Zenon DEF SeedsReadable
<1> QED
  BY <1>1, <1>2, <1>3, Zenon

-----------------------------------------------------------------------------
(* The inductive invariant.                                                *)

\* How far the pool is loaded in each phase.
LoadInv ==
    /\ phase # "run" => ~deepRollback
    /\ phase = "import" => load_height = 0 /\ ticket_pool = {}
    /\ phase = "load" =>
          /\ loadNext <= Height(chainActive) + 1
          /\ load_height = 0 \/ load_height + TICKETPOOL_HEIGHT_LATENCY < loadNext
          /\ pruned = -1 => load_height + TICKETPOOL_HEIGHT_LATENCY + 1 >= loadNext
    /\ phase = "run" /\ ~deepRollback =>
          load_height = 0 \/ load_height < Height(chainActive)
    /\ PoolNeverBehind

\* The pool holds purchases of the chain at heights that are loaded.
PoolOn(chain, pool, height) ==
    \A t \in pool : /\ t.ticketHeight \in 1 .. height
                    /\ t.ticketTxHash \in BlockAt(chain, t.ticketHeight).buys

\* The same above the latency height only, where it survives every rollback;
\* no such ticket belongs to the tip itself.
HighOn(chain, pool, height) ==
    \A t \in pool : /\ t.ticketHeight \in 1 .. height
                    /\ t.ticketHeight > TICKETPOOL_HEIGHT_LATENCY =>
                          /\ t.ticketHeight < Height(chain)
                          /\ t.ticketTxHash \in BlockAt(chain, t.ticketHeight).buys

\* The pool is a replay of the chain, the only one if every draw is determined.
IsReplay(chain, pool, height) ==
    /\ pool \in Replay(chain, height)[height]
    /\ SeedsReadable(chain, height) => Replay(chain, height)[height] = {pool}

IInv ==
    /\ TypeOK
    /\ LoadInv
    /\ HighOn(chainActive, ticket_pool, load_height)
    /\ ~deepRollback => PoolOn(chainActive, ticket_pool, load_height)
    /\ PoolFollowsChain
    /\ ExpiredTicketsLeave

\* While no rollback reached it, load_height is a height of the chain.
LEMMA LoadedIsOnChain ==
  ASSUME TypeOK, LoadInv, ~deepRollback
  PROVE  load_height <= Height(chainActive)
BY PoolAssumption DEF TypeOK, LoadInv, Height

\* One call of updateTicketpool above load_height keeps the pool on the chain.
LEMMA UpdateKeepsPoolOn ==
  ASSUME TypeOK, NEW c \in Seq(Blk), NEW bh \in Nat, bh <= Len(c) - 1, bh > load_height,
         \A h \in 0 .. load_height : BlockAt(c, h) = BlockAt(chainActive, h),
         PoolOn(chainActive, ticket_pool, load_height),
         updateTicketpool(c, bh)
  PROVE  PoolOn(c, ticket_pool', load_height')
<1> DEFINE th == bh - TICKETPOOL_HEIGHT_LATENCY
<1>t. load_height \in Nat /\ th \in Int
  BY PoolAssumption DEF TypeOK
<1>0. PoolOn(c, ticket_pool, load_height)
  BY <1>t DEF PoolOn
<1>1. CASE th <= load_height \/ th <= pruned
  <2>1. ticket_pool' = ticket_pool /\ load_height' = load_height
    BY <1>1, <1>t DEF updateTicketpool, TypeOK
  <2> QED
    BY <1>0, <2>1
<1>2. CASE th > load_height /\ th > pruned
  <2>1. /\ load_height' = th
        /\ ticket_pool' \in UpdatedPools(ticket_pool, BlockAt(c, th - 1), BlockAt(c, th), bh)
    BY <1>2, <1>t DEF updateTicketpool, TypeOK
  <2>2. PoolOn(c, ticket_pool, th)
    BY <1>0, <1>2, <1>t DEF PoolOn
  <2>3. \A L : PoolOn(c, DeleteLucky(ticket_pool, L), th)
    BY <2>2 DEF PoolOn, DeleteLucky
  <2>4. \A P : PoolOn(c, P, th) => PoolOn(c, DeleteExpired(P, bh), th)
    BY DEF PoolOn, DeleteExpired, ticketDelByHeight
  <2>5. \A P : PoolOn(c, P, th) => PoolOn(c, PushBought(P, BlockAt(c, th), th), th)
    BY <1>2, <1>t DEF PoolOn, PushBought, Ticket
  <2> QED
    BY <2>1, <2>3, <2>4, <2>5 DEF UpdatedPools, Updated
<1> QED
  BY <1>1, <1>2, <1>t DEF TypeOK

\* One call of updateTicketpool, at any height of the chain, keeps the tickets
\* above the latency height on the chain: those of the height it is called for
\* are deleted if they were loaded.
LEMMA UpdateKeepsHighOn ==
  ASSUME TypeOK, NEW c \in Seq(Blk), NEW bh \in Nat, bh <= Len(c) - 1,
         \A t \in ticket_pool :
            /\ t.ticketHeight \in 1 .. load_height
            /\ t.ticketHeight > TICKETPOOL_HEIGHT_LATENCY /\ t.ticketHeight # bh =>
                  /\ t.ticketHeight < Height(c)
                  /\ t.ticketTxHash \in BlockAt(c, t.ticketHeight).buys,
         updateTicketpool(c, bh)
  PROVE  HighOn(c, ticket_pool', load_height')
<1> DEFINE th == bh - TICKETPOOL_HEIGHT_LATENCY
<1>t. load_height \in Nat /\ th \in Int /\ th < bh /\ bh <= Height(c)
  BY PoolAssumption DEF TypeOK, Height
<1>1. CASE bh <= load_height
  <2>1. ticket_pool' = ticketDelByHeight(ticket_pool, bh) /\ load_height' = load_height
    BY <1>1, <1>t DEF updateTicketpool
  <2> QED
    BY <2>1 DEF HighOn, ticketDelByHeight
<1>2. CASE bh > load_height
  <2>1. HighOn(c, ticket_pool, load_height)
    BY <1>2, <1>t DEF HighOn
  <2>2. CASE th <= load_height \/ th <= pruned
    <3>1. ticket_pool' = ticket_pool /\ load_height' = load_height
      BY <1>2, <2>2, <1>t DEF updateTicketpool, TypeOK
    <3> QED
      BY <2>1, <3>1
  <2>3. CASE th > load_height /\ th > pruned
    <3>1. /\ load_height' = th
          /\ ticket_pool' \in UpdatedPools(ticket_pool, BlockAt(c, th - 1), BlockAt(c, th), bh)
      BY <2>3, <1>t DEF updateTicketpool, TypeOK
    <3>2. HighOn(c, ticket_pool, th)
      BY <2>1, <2>3, <1>t DEF HighOn
    <3>3. \A L : HighOn(c, DeleteLucky(ticket_pool, L), th)
      BY <3>2 DEF HighOn, DeleteLucky
    <3>4. \A P : HighOn(c, P, th) => HighOn(c, DeleteExpired(P, bh), th)
      BY DEF HighOn, DeleteExpired, ticketDelByHeight
    <3>5. \A P : HighOn(c, P, th) => HighOn(c, PushBought(P, BlockAt(c, th), th), th)
      <4>1. th \in 1 .. th /\ th < Height(c)
        BY <2>3, <1>t DEF Height
      <4> QED
        BY <4>1 DEF HighOn, PushBought, Ticket
    <3> QED
      BY <3>1, <3>3, <3>4, <3>5 DEF UpdatedPools, Updated
  <2> QED
    BY <2>2, <2>3, <1>t DEF TypeOK
<1> QED
  BY <1>1, <1>2, <1>t

\* One call of updateTicketpool for the next height extends the replay.
LEMMA UpdateExtendsReplay ==
  ASSUME TypeOK, NEW c \in Seq(Blk), NEW bh \in Nat, bh <= Len(c) - 1, bh > load_height,
         bh - TICKETPOOL_HEIGHT_LATENCY <= load_height + 1, pruned = -1,
         \A h \in 0 .. load_height : BlockAt(c, h) = BlockAt(chainActive, h),
         IsReplay(chainActive, ticket_pool, load_height),
         updateTicketpool(c, bh)
  PROVE  IsReplay(c, ticket_pool', load_height')
<1> DEFINE th == bh - TICKETPOOL_HEIGHT_LATENCY
           P == Replay(chainActive, load_height)[load_height]
<1> HIDE DEF Replay
<1>t. load_height \in Nat /\ th \in Int
  BY PoolAssumption DEF TypeOK
<1>r. SeedsReadable(c, load_height) => SeedsReadable(chainActive, load_height)
  BY <1>t, ReadablePrefix
<1>1. CASE th <= load_height
  <2>1. P = Replay(c, load_height)[load_height]
    BY <1>t, ReplayPrefix
  <2>2. ticket_pool' = ticket_pool /\ load_height' = load_height
    BY <1>1, <1>t DEF updateTicketpool
  <2> QED
    BY <2>1, <2>2, <1>r DEF IsReplay
<1>2. CASE th = load_height + 1
  <2>1. /\ load_height' = th
        /\ ticket_pool' \in UpdatedPools(ticket_pool, BlockAt(c, th - 1), BlockAt(c, th), bh)
    BY <1>2, <1>t DEF updateTicketpool
  <2>2. P = Replay(c, th)[load_height]
    BY <1>2, <1>t, ReplayPrefix
  <2>3. th \in Nat /\ th \in 1 .. th /\ th - 1 = load_height
        /\ th + TICKETPOOL_HEIGHT_LATENCY = bh
    BY <1>2, <1>t, PoolAssumption
  <2>4. Replay(c, th)[th] = ReplayStep(P, c, th)
    <3> HIDE DEF th
    <3> QED BY <2>2, <2>3, ReplayDef
  <2>5. \A pools : ReplayStep(pools, c, th)
            = UNION {UpdatedPools(pool, BlockAt(c, th - 1), BlockAt(c, th), bh) : pool \in pools}
    BY <2>3 DEF ReplayStep
  <2>6. ticket_pool' \in ReplayStep(P, c, th)
    BY <2>1, <2>5 DEF IsReplay
  <2>7. ASSUME SeedsReadable(c, th) PROVE ReplayStep(P, c, th) = {ticket_pool'}
    <3>0. load_height \in 0 .. th /\ \A h \in 0 .. load_height : BlockAt(c, h) = BlockAt(c, h)
      BY <2>3, <1>t
    <3>1. SeedsReadable(c, load_height) /\ Unreadable(BlockAt(c, th).seed) = {}
      <4>1. SeedsReadable(c, load_height)
        BY <3>0, <2>3, <2>7, <1>t, ReadablePrefix
      <4>2. \A h \in 1 .. th : Unreadable(BlockAt(c, h).seed) = {}
        BY <2>7, Zenon DEF SeedsReadable
      <4> HIDE DEF th
      <4> QED
        BY <4>1, <4>2, <2>3, Zenon
    <3>2. P = {ticket_pool}
      BY <3>1, <1>r DEF IsReplay
    <3>3. PICK next : UpdatedPools(ticket_pool, BlockAt(c, th - 1), BlockAt(c, th), bh) = {next}
      <4>1. OneElement(UpdatedPools(ticket_pool, BlockAt(c, th - 1), BlockAt(c, th), bh))
        BY <3>1, OneUpdate
      <4> QED
        BY <4>1, Zenon DEF OneElement
    <3>4. ReplayStep(P, c, th) = {next}
      BY <3>2, <3>3, <2>5
    <3> QED
      BY <3>3, <3>4, <2>1
  <2> QED
    BY <2>1, <2>4, <2>6, <2>7 DEF IsReplay
<1> QED
  BY <1>1, <1>2, <1>t

\* No ticket above the latency height has reached the expiry age.
Unexpired(pool, height) ==
    \A t \in pool :
        t.ticketHeight >= TICKETPOOL_HEIGHT_LATENCY =>
            t.ticketHeight > height + TICKETPOOL_HEIGHT_LATENCY - TICKET_POOL_MAX_SIZE

\* One call of updateTicketpool for the next height removes what expires there.
LEMMA UpdateExpires ==
  ASSUME TypeOK, NEW c \in Seq(Blk), NEW bh \in Nat, bh <= Len(c) - 1, bh > load_height,
         bh - TICKETPOOL_HEIGHT_LATENCY <= load_height + 1, pruned = -1,
         Unexpired(ticket_pool, load_height),
         updateTicketpool(c, bh)
  PROVE  Unexpired(ticket_pool', load_height')
<1> DEFINE th == bh - TICKETPOOL_HEIGHT_LATENCY
<1>t. /\ load_height \in Nat /\ th \in Int
      /\ \A t \in ticket_pool : t.ticketHeight \in Nat
  BY PoolAssumption DEF TypeOK
<1>1. CASE th <= load_height
  <2>1. ticket_pool' = ticket_pool /\ load_height' = load_height
    BY <1>1, <1>t DEF updateTicketpool
  <2> QED
    BY <2>1
<1>2. CASE th = load_height + 1
  <2>0. /\ load_height' = th
        /\ ticket_pool' \in UpdatedPools(ticket_pool, BlockAt(c, th - 1), BlockAt(c, th), bh)
    BY <1>2, <1>t DEF updateTicketpool
  <2>p. PICK lucky : ticket_pool' = Updated(ticket_pool, lucky, BlockAt(c, th), bh)
    BY <2>0 DEF UpdatedPools
  <2> DEFINE kept == DeleteLucky(ticket_pool, lucky)
             rest == DeleteExpired(kept, bh)
  <2>1. /\ load_height' = th
        /\ ticket_pool' = PushBought(rest, BlockAt(c, th), th)
    BY <2>0, <2>p DEF Updated
  <2>2. kept \subseteq ticket_pool
    BY DEF DeleteLucky
  <2> HIDE DEF kept
  <2>3. \A t \in rest : t \in ticket_pool
    BY <2>2 DEF DeleteExpired, ticketDelByHeight
  <2>4. th >= TICKET_POOL_MAX_SIZE => \A t \in rest : t.ticketHeight # bh - TICKET_POOL_MAX_SIZE
    BY DEF DeleteExpired, ticketDelByHeight
  <2> HIDE DEF rest
  <2>5. Unexpired(rest, th)
    <3> SUFFICES ASSUME NEW t \in rest, t.ticketHeight >= TICKETPOOL_HEIGHT_LATENCY
                 PROVE  t.ticketHeight > th + TICKETPOOL_HEIGHT_LATENCY - TICKET_POOL_MAX_SIZE
      BY DEF Unexpired
    <3>1. t.ticketHeight \in Nat
          /\ t.ticketHeight > load_height + TICKETPOOL_HEIGHT_LATENCY - TICKET_POOL_MAX_SIZE
      BY <2>3, <1>t DEF Unexpired
    <3> QED
      BY <3>1, <2>4, <1>2, <1>t, PoolAssumption
  <2>6. ASSUME NEW t \in ticket_pool', t \notin rest PROVE t.ticketHeight = th
    BY <2>1, <2>6 DEF PushBought, Ticket
  <2> QED
    BY <2>1, <2>5, <2>6, <1>2, <1>t, PoolAssumption DEF Unexpired
<1> QED
  BY <1>1, <1>2, <1>t

\* The three facts about one call, from the invariant.
LEMMA UpdateStep ==
  ASSUME IInv, ~deepRollback, NEW c \in Seq(Blk), NEW bh \in Nat, bh <= Len(c) - 1,
         bh > load_height,
         pruned = -1 => bh - TICKETPOOL_HEIGHT_LATENCY <= load_height + 1,
         \A h \in 0 .. load_height : BlockAt(c, h) = BlockAt(chainActive, h),
         updateTicketpool(c, bh)
  PROVE  /\ PoolOn(c, ticket_pool', load_height')
         /\ pruned = -1 => IsReplay(c, ticket_pool', load_height')
         /\ pruned = -1 => Unexpired(ticket_pool', load_height')
<1> HIDE DEF Replay
<1> USE DEF IInv
<1>1. PoolOn(c, ticket_pool', load_height')
  BY UpdateKeepsPoolOn
<1>2. ASSUME pruned = -1
      PROVE  IsReplay(c, ticket_pool', load_height')
  <2>1. IsReplay(chainActive, ticket_pool, load_height)
    BY <1>2 DEF PoolFollowsChain, IsReplay
  <2> QED
    BY <1>2, <2>1, UpdateExtendsReplay DEF LoadInv
<1>3. ASSUME pruned = -1
      PROVE  Unexpired(ticket_pool', load_height')
  BY <1>3, UpdateExpires DEF LoadInv, ExpiredTicketsLeave, Unexpired
<1> QED
  BY <1>1, <1>2, <1>3

\* A sequence without its last element, and with one more, agree with it below.
LEMMA AppendAgrees ==
  ASSUME NEW c \in Seq(Blk), Len(c) > 0, NEW b \in Blk
  PROVE  /\ Append(c, b) \in Seq(Blk)
         /\ Height(Append(c, b)) = Height(c) + 1
         /\ \A h \in 0 .. Height(c) : BlockAt(Append(c, b), h) = BlockAt(c, h)
BY DEF Height, BlockAt

LEMMA FrontAgrees ==
  ASSUME NEW c \in Seq(Blk), Height(c) > 0
  PROVE  LET d == SubSeq(c, 1, Len(c) - 1)
         IN  /\ d \in Seq(Blk)
             /\ Len(d) > 0
             /\ Height(d) = Height(c) - 1
             /\ \A h \in 0 .. Height(d) : BlockAt(d, h) = BlockAt(c, h)
BY DEF Height, BlockAt

\* A chain that is not longer than load_height away keeps what is loaded.
LEMMA UnchangedPool ==
  ASSUME IInv, ~deepRollback, NEW c,
         \A h \in 0 .. load_height : BlockAt(c, h) = BlockAt(chainActive, h)
  PROVE  /\ PoolOn(c, ticket_pool, load_height)
         /\ pruned = -1 => IsReplay(c, ticket_pool, load_height)
<1> HIDE DEF Replay
<1>1. load_height \in Nat
  BY DEF IInv, TypeOK
<1>2. PoolOn(c, ticket_pool, load_height)
  BY <1>1 DEF IInv, PoolOn
<1>3. Replay(chainActive, load_height)[load_height] = Replay(c, load_height)[load_height]
  BY <1>1, ReplayPrefix
<1>4. SeedsReadable(c, load_height) => SeedsReadable(chainActive, load_height)
  BY <1>1, ReadablePrefix
<1> QED
  BY <1>2, <1>3, <1>4 DEF IInv, PoolFollowsChain, IsReplay

\* An empty pool at height 0 satisfies everything.
LEMMA EmptyPool ==
  ASSUME NEW c
  PROVE  /\ PoolOn(c, {}, 0)
         /\ HighOn(c, {}, 0)
         /\ IsReplay(c, {}, 0)
         /\ Unexpired({}, 0)
BY ReplayDef DEF PoolOn, HighOn, IsReplay, Unexpired

LEMMA IInvInit == Init => IInv
<1> HIDE DEF Replay
<1> SUFFICES ASSUME Init PROVE IInv
  OBVIOUS
<1>1. TypeOK
  BY TypeInit
<1>2. LoadInv
  BY PoolAssumption DEF Init, LoadInv, PoolNeverBehind, Height
<1> QED
  BY <1>1, <1>2, EmptyPool DEF IInv, Init, PoolFollowsChain, IsReplay, ExpiredTicketsLeave, Unexpired

\* What a call does to load_height.
LEMMA UpdateLoadHeight ==
  ASSUME TypeOK, NEW c, NEW bh \in Nat, updateTicketpool(c, bh)
  PROVE  \/ /\ load_height' = load_height
            /\ \/ bh - TICKETPOOL_HEIGHT_LATENCY <= load_height
               \/ bh - TICKETPOOL_HEIGHT_LATENCY <= pruned
         \/ /\ load_height' = bh - TICKETPOOL_HEIGHT_LATENCY
            /\ bh - TICKETPOOL_HEIGHT_LATENCY > load_height
BY PoolAssumption DEF updateTicketpool, TypeOK

\* The arithmetic of one iteration of LoadTicketpool: l and l2 are load_height
\* before and after it, n the loop variable, p the pruned height, k the latency.
LEMMA LoadArith ==
    ASSUME NEW l \in Nat, NEW l2 \in Nat, NEW n \in Nat, NEW p \in Int, NEW k \in Nat,
           \/ l2 = l /\ (n - k <= l \/ n - k <= p)
           \/ l2 = n - k /\ n - k > l
    PROVE  /\ p = -1 => l2 + k + 1 >= n + 1
           /\ l = 0 \/ l + k < n => l2 = 0 \/ l2 + k < n + 1
  OBVIOUS

\* LoadInv is preserved by every step.
LEMMA LoadStepInv == TypeOK /\ LoadInv /\ [Next]_vars => LoadInv'
<1> SUFFICES ASSUME TypeOK, LoadInv, [Next]_vars PROVE LoadInv'
  OBVIOUS
<1>t. TypeOK'
  BY TypeStep
<1> USE PoolAssumption DEF LoadInv, PoolNeverBehind, Height
<1>1. ASSUME NEW block \in Blocks, ConnectTip(block) PROVE LoadInv'
  <2>1. Len(chainActive') = Len(chainActive) + 1
    BY <1>1 DEF ConnectTip, UpdateTip, TypeOK
  <2>2. CASE phase = "run" /\ Len(chainActive) > TICKETPOOL_HEIGHT_LATENCY
    <3>1. updateTicketpool(Append(chainActive, block), Len(chainActive))
      BY <1>1, <2>1, <2>2 DEF ConnectTip, UpdateTip, TypeOK
    <3>2. Len(chainActive) \in Nat
      BY DEF TypeOK
    <3>3. \/ /\ load_height' = load_height
             /\ \/ Len(chainActive) - TICKETPOOL_HEIGHT_LATENCY <= load_height
                \/ Len(chainActive) - TICKETPOOL_HEIGHT_LATENCY <= pruned
          \/ /\ load_height' = Len(chainActive) - TICKETPOOL_HEIGHT_LATENCY
             /\ Len(chainActive) - TICKETPOOL_HEIGHT_LATENCY > load_height
      BY <3>1, <3>2, UpdateLoadHeight
    <3>4. UNCHANGED <<pruned, phase, deepRollback>>
      BY <1>1 DEF ConnectTip
    <3> QED
      BY <2>1, <2>2, <3>2, <3>3, <3>4, <1>t DEF TypeOK
  <2>3. CASE ~(phase = "run" /\ Len(chainActive) > TICKETPOOL_HEIGHT_LATENCY)
    <3>1. UNCHANGED <<ticket_pool, load_height>>
      BY <1>1, <2>1, <2>3 DEF ConnectTip, UpdateTip, TypeOK
    <3>2. phase \in {"import", "run"} /\ UNCHANGED <<pruned, phase, deepRollback>>
      BY <1>1 DEF ConnectTip
    <3> QED
      BY <2>1, <2>3, <3>1, <3>2, <1>t DEF TypeOK
  <2> QED
    BY <2>2, <2>3
<1>2. CASE DisconnectTip
  <2>1. Len(chainActive') = Len(chainActive) - 1
    BY <1>2 DEF DisconnectTip, UpdateTip, TypeOK
  <2> DEFINE c == SubSeq(chainActive, 1, Len(chainActive) - 1)
  <2>l. Len(c) = Len(chainActive) - 1 /\ Len(c) > 0
    BY <1>2 DEF DisconnectTip, TypeOK
  <2>d. deepRollback' = (deepRollback \/ (phase = "run" /\ Height(c) <= load_height))
    BY <1>2 DEF DisconnectTip
  <2>2. /\ Len(c) = Len(chainActive) - 1 /\ Len(c) > 0
        /\ phase \in {"import", "run"}
        /\ UpdateTip(c)
        /\ ~deepRollback' <=> (~deepRollback /\ ~(phase = "run" /\ Len(c) - 1 <= load_height))
        /\ UNCHANGED <<pruned, phase, loadNext>>
    BY <1>2, <2>l, <2>d, Zenon DEF DisconnectTip
  <2> HIDE DEF c
  <2>3. CASE phase = "run" /\ Len(c) - 1 > TICKETPOOL_HEIGHT_LATENCY
    <3>1. updateTicketpool(c, Len(c) - 1)
      BY <2>2, <2>3 DEF UpdateTip
    <3>2. Len(c) - 1 \in Nat
      BY <2>2 DEF TypeOK
    <3>3. \/ /\ load_height' = load_height
             /\ \/ Len(c) - 1 - TICKETPOOL_HEIGHT_LATENCY <= load_height
                \/ Len(c) - 1 - TICKETPOOL_HEIGHT_LATENCY <= pruned
          \/ /\ load_height' = Len(c) - 1 - TICKETPOOL_HEIGHT_LATENCY
             /\ Len(c) - 1 - TICKETPOOL_HEIGHT_LATENCY > load_height
      BY <3>1, <3>2, UpdateLoadHeight
    <3> QED
      BY <2>1, <2>2, <2>3, <3>2, <3>3, <1>t DEF TypeOK
  <2>4. CASE ~(phase = "run" /\ Len(c) - 1 > TICKETPOOL_HEIGHT_LATENCY)
    <3>1. load_height' = load_height /\ ticket_pool' = ticket_pool
      BY <2>2, <2>4 DEF UpdateTip
    <3> QED
      BY <2>1, <2>2, <2>4, <3>1, <1>t DEF TypeOK
  <2> QED
    BY <2>3, <2>4
<1>3. CASE Prune
  BY <1>3, <1>t DEF Prune, TypeOK
<1>4. CASE StartLoad
  BY <1>4, <1>t DEF StartLoad, TypeOK
<1>5. CASE LoadStep
  <2>1. \/ /\ load_height' = load_height
           /\ \/ loadNext - TICKETPOOL_HEIGHT_LATENCY <= load_height
              \/ loadNext - TICKETPOOL_HEIGHT_LATENCY <= pruned
        \/ /\ load_height' = loadNext - TICKETPOOL_HEIGHT_LATENCY
           /\ loadNext - TICKETPOOL_HEIGHT_LATENCY > load_height
    BY <1>5, UpdateLoadHeight DEF LoadStep, TypeOK
  <2>2. /\ phase = "load" /\ loadNext <= Len(chainActive) - 1 /\ loadNext' = loadNext + 1
        /\ UNCHANGED <<chainActive, pruned, phase, deepRollback>>
    BY <1>5 DEF LoadStep
  <2>3. /\ load_height \in Nat /\ load_height' \in Nat /\ pruned \in Int
        /\ loadNext \in Nat /\ loadNext' \in Nat
        /\ TICKETPOOL_HEIGHT_LATENCY \in Nat
    BY <1>t DEF TypeOK
  <2>h. load_height = 0 \/ load_height + TICKETPOOL_HEIGHT_LATENCY < loadNext
    BY <2>2
  <2>4. ASSUME pruned = -1
        PROVE  load_height' + TICKETPOOL_HEIGHT_LATENCY + 1 >= loadNext'
    BY <2>1, <2>2, <2>3, <2>4, LoadArith
  <2>5. load_height' = 0 \/ load_height' + TICKETPOOL_HEIGHT_LATENCY < loadNext'
    BY <2>1, <2>2, <2>3, <2>h, LoadArith
  <2>6. loadNext' <= Len(chainActive') - 1 + 1
    BY <2>2 DEF TypeOK
  <2> QED
    BY <2>2, <2>4, <2>5, <2>6 DEF LoadInv, PoolNeverBehind
<1>6. CASE FinishLoad
  BY <1>6, <1>t DEF FinishLoad, TypeOK
<1>7. CASE Restart
  BY <1>7, <1>t DEF Restart, TypeOK
<1>8. CASE UNCHANGED vars
  BY <1>8 DEF vars
<1> QED
  BY <1>1, <1>2, <1>3, <1>4, <1>5, <1>6, <1>7, <1>8 DEF Next

\* What the invariant says of the pool, with the chain as a parameter.
PoolFacts(c, pool, height) ==
    /\ PoolOn(c, pool, height)
    /\ pruned = -1 => IsReplay(c, pool, height)
    /\ pruned = -1 => Unexpired(pool, height)

\* A change of the tip that does not go down to load_height keeps the facts.
LEMMA TipStep ==
  ASSUME IInv, ~deepRollback, NEW c \in Seq(Blk), Len(c) > 0,
         phase = "run" => Height(c) > load_height,
         Height(c) <= Height(chainActive) + 1,
         \A h \in 0 .. load_height : BlockAt(c, h) = BlockAt(chainActive, h),
         UpdateTip(c)
  PROVE  PoolFacts(c, ticket_pool', load_height')
<1> HIDE DEF Replay
<1>1. CASE Height(c) > TICKETPOOL_HEIGHT_LATENCY /\ phase = "run"
  <2>1. updateTicketpool(c, Height(c))
    BY <1>1 DEF UpdateTip
  <2>2. Height(c) \in Nat /\ Height(c) <= Len(c) - 1 /\ Height(c) > load_height
    BY <1>1 DEF Height
  <2>3. pruned = -1 => Height(c) - TICKETPOOL_HEIGHT_LATENCY <= load_height + 1
    BY <1>1, PoolAssumption DEF IInv, TypeOK, LoadInv, PoolNeverBehind, Height
  <2> QED
    BY <2>1, <2>2, <2>3, UpdateStep DEF PoolFacts
<1>2. CASE ~(Height(c) > TICKETPOOL_HEIGHT_LATENCY /\ phase = "run")
  <2>1. ticket_pool' = ticket_pool /\ load_height' = load_height
    BY <1>2 DEF UpdateTip
  <2>2. pruned = -1 => Unexpired(ticket_pool, load_height)
    BY DEF IInv, ExpiredTicketsLeave, Unexpired
  <2> QED
    BY <2>1, <2>2, UnchangedPool DEF PoolFacts
<1> QED
  BY <1>1, <1>2

\* The invariant from the facts about the new chain.
LEMMA FactsGiveInv ==
  ASSUME TypeOK', LoadInv', HighOn(chainActive', ticket_pool', load_height'),
         pruned' = -1 => pruned = -1,
         deepRollback' \/ PoolFacts(chainActive', ticket_pool', load_height')
  PROVE  IInv'
<1> HIDE DEF Replay
<1> QED
  BY DEF IInv, PoolFacts, PoolFollowsChain, IsReplay, ExpiredTicketsLeave, Unexpired

\* What is deleted stays deleted.
LEMMA PrunedGrows == TypeOK /\ [Next]_vars => (pruned' = -1 => pruned = -1)
BY DEF TypeOK, Next, ConnectTip, DisconnectTip, Prune, StartLoad, LoadStep, FinishLoad, Restart, vars, Height

\* Every step keeps the tickets above the latency height on the chain, those
\* of a disconnected block included.
LEMMA HighOnStep == IInv /\ [Next]_vars => HighOn(chainActive', ticket_pool', load_height')
<1> SUFFICES ASSUME IInv, [Next]_vars
             PROVE  HighOn(chainActive', ticket_pool', load_height')
  OBVIOUS
<1>t. TypeOK /\ LoadInv /\ HighOn(chainActive, ticket_pool, load_height)
  BY DEF IInv
<1>s. ASSUME UNCHANGED <<chainActive, ticket_pool, load_height>>
      PROVE  HighOn(chainActive', ticket_pool', load_height')
  BY <1>s, <1>t
<1>u. ASSUME NEW c \in Seq(Blk), Len(c) > 0, UpdateTip(c), phase \in {"import", "run"},
             Height(c) \in {Height(chainActive) - 1, Height(chainActive) + 1},
             \A h \in 0 .. Height(chainActive) :
                 h <= Height(c) => BlockAt(c, h) = BlockAt(chainActive, h)
      PROVE  HighOn(c, ticket_pool', load_height')
  <2>t. Height(c) \in Nat /\ Height(chainActive) \in Nat /\ Height(c) = Len(c) - 1
    BY <1>t, <1>u DEF TypeOK, Height
  <2>1. CASE Height(c) > TICKETPOOL_HEIGHT_LATENCY /\ phase = "run"
    <3>1. updateTicketpool(c, Height(c))
      BY <1>u, <2>1 DEF UpdateTip
    <3>2. ASSUME NEW t \in ticket_pool, t.ticketHeight > TICKETPOOL_HEIGHT_LATENCY,
                 t.ticketHeight # Height(c)
          PROVE  /\ t.ticketHeight < Height(c)
                 /\ t.ticketTxHash \in BlockAt(c, t.ticketHeight).buys
      <4>1. /\ t.ticketHeight \in Nat /\ t.ticketHeight < Height(chainActive)
            /\ t.ticketTxHash \in BlockAt(chainActive, t.ticketHeight).buys
        BY <1>t, <3>2 DEF HighOn
      <4>2. t.ticketHeight < Height(c)
        BY <4>1, <3>2, <2>t, <1>u
      <4> QED
        BY <4>1, <4>2, <2>t, <1>u
    <3>3. \A t \in ticket_pool : t.ticketHeight \in 1 .. load_height
      BY <1>t DEF HighOn
    <3> HIDE DEF HighOn
    <3> QED
      BY <3>1, <3>2, <3>3, <2>t, <1>t, <1>u, UpdateKeepsHighOn
  <2>2. CASE ~(Height(c) > TICKETPOOL_HEIGHT_LATENCY /\ phase = "run")
    <3>1. ticket_pool' = ticket_pool /\ load_height' = load_height
      BY <1>u, <2>2 DEF UpdateTip
    <3>2. CASE phase = "import"
      BY <3>1, <3>2, <1>t DEF LoadInv, HighOn
    <3>3. CASE phase = "run"
      BY <3>1, <3>3, <2>2, <2>t, <1>t, <1>u, PoolAssumption DEF HighOn
    <3> QED
      BY <3>2, <3>3, <1>u
  <2> QED
    BY <2>1, <2>2
<1>1. ASSUME NEW block \in Blocks, ConnectTip(block)
      PROVE  HighOn(chainActive', ticket_pool', load_height')
  <2> DEFINE c == Append(chainActive, block)
  <2>1. chainActive \in Seq(Blk) /\ Len(chainActive) > 0 /\ block \in Blk
    BY <1>t DEF TypeOK, Blk
  <2>2. /\ c \in Seq(Blk) /\ Len(c) > 0 /\ Height(c) = Height(chainActive) + 1
        /\ \A h \in 0 .. Height(chainActive) : BlockAt(c, h) = BlockAt(chainActive, h)
    BY <2>1, AppendAgrees
  <2>3. UpdateTip(c) /\ chainActive' = c /\ phase \in {"import", "run"}
    BY <1>1 DEF ConnectTip, UpdateTip
  <2> HIDE DEF c
  <2> QED
    BY <2>2, <2>3, <1>u
<1>2. CASE DisconnectTip
  <2> DEFINE c == SubSeq(chainActive, 1, Len(chainActive) - 1)
  <2>1. /\ c \in Seq(Blk) /\ Len(c) > 0 /\ Height(c) = Height(chainActive) - 1
        /\ \A h \in 0 .. Height(c) : BlockAt(c, h) = BlockAt(chainActive, h)
    BY <1>2, <1>t, FrontAgrees DEF DisconnectTip, TypeOK, Blk
  <2>2. UpdateTip(c) /\ chainActive' = c /\ phase \in {"import", "run"}
    BY <1>2 DEF DisconnectTip, UpdateTip
  <2> HIDE DEF c
  <2>3. \A h \in 0 .. Height(chainActive) :
            h <= Height(c) => BlockAt(c, h) = BlockAt(chainActive, h)
    BY <2>1 DEF Height
  <2> QED
    BY <2>1, <2>2, <2>3, <1>u
<1>3. CASE Prune
  BY <1>3, <1>s DEF Prune
<1>4. CASE StartLoad
  BY <1>4, <1>s DEF StartLoad
<1>5. CASE LoadStep
  <2>1. /\ chainActive \in Seq(Blk) /\ loadNext \in Nat /\ loadNext <= Len(chainActive) - 1
        /\ updateTicketpool(chainActive, loadNext)
        /\ chainActive' = chainActive
    BY <1>5, <1>t DEF LoadStep, TypeOK, Height, Blk
  <2>2. HighOn(chainActive, ticket_pool', load_height')
    BY <2>1, <1>t, UpdateKeepsHighOn DEF HighOn
  <2> QED
    BY <2>1, <2>2
<1>6. CASE FinishLoad
  BY <1>6, <1>s DEF FinishLoad
<1>7. CASE Restart
  BY <1>7 DEF Restart, HighOn
<1>8. CASE UNCHANGED vars
  BY <1>8, <1>s DEF vars
<1> QED
  BY <1>1, <1>2, <1>3, <1>4, <1>5, <1>6, <1>7, <1>8 DEF Next

\* Every step keeps the invariant: one case per action.
LEMMA IInvStep == IInv /\ [Next]_vars => IInv'
<1> HIDE DEF Replay
<1> SUFFICES ASSUME IInv, [Next]_vars PROVE IInv'
  OBVIOUS
<1>t. TypeOK /\ LoadInv /\ TypeOK' /\ LoadInv'
  BY TypeStep, LoadStepInv DEF IInv
<1>p. pruned' = -1 => pruned = -1
  BY <1>t, PrunedGrows
<1>h. HighOn(chainActive', ticket_pool', load_height')
  BY HighOnStep
<1>f. ~deepRollback => PoolFacts(chainActive, ticket_pool, load_height)
  BY DEF IInv, PoolFacts, PoolFollowsChain, IsReplay, ExpiredTicketsLeave, Unexpired
<1>l. ~deepRollback => load_height \in 0 .. Height(chainActive)
  BY <1>t, LoadedIsOnChain DEF TypeOK, Height
<1>s. ASSUME UNCHANGED <<chainActive, ticket_pool, load_height, deepRollback>>
      PROVE  IInv'
  BY <1>s, <1>t, <1>f, <1>p, <1>h, FactsGiveInv
<1>1. ASSUME NEW block \in Blocks, ConnectTip(block) PROVE IInv'
  <2> DEFINE c == Append(chainActive, block)
  <2>1. /\ c \in Seq(Blk) /\ Len(c) > 0 /\ Height(c) = Height(chainActive) + 1
        /\ \A h \in 0 .. Height(chainActive) : BlockAt(c, h) = BlockAt(chainActive, h)
    <3>1. chainActive \in Seq(Blk) /\ Len(chainActive) > 0 /\ block \in Blk
      BY <1>t DEF TypeOK, Blk
    <3>2. Len(c) > 0
      BY <3>1
    <3> QED
      BY <3>1, <3>2, AppendAgrees
  <2>2. UpdateTip(c) /\ deepRollback' = deepRollback /\ chainActive' = c
    BY <1>1 DEF ConnectTip, UpdateTip
  <2> HIDE DEF c
  <2>3. CASE ~deepRollback
    <3>1. /\ Height(c) > load_height
          /\ \A h \in 0 .. load_height : BlockAt(c, h) = BlockAt(chainActive, h)
      BY <1>l, <2>1, <2>3 DEF Height
    <3>2. Height(c) <= Height(chainActive) + 1
      BY <1>t, <2>1 DEF TypeOK, Height
    <3> QED
      BY <1>t, <2>1, <2>2, <2>3, <3>1, <3>2, TipStep, <1>p, <1>h, FactsGiveInv
  <2>4. CASE deepRollback
    BY <1>t, <2>2, <2>4, <1>p, <1>h, FactsGiveInv
  <2> QED
    BY <2>3, <2>4
<1>2. CASE DisconnectTip
  <2> DEFINE c == SubSeq(chainActive, 1, Len(chainActive) - 1)
  <2>1. /\ c \in Seq(Blk) /\ Len(c) > 0 /\ Height(c) = Height(chainActive) - 1
        /\ \A h \in 0 .. Height(c) : BlockAt(c, h) = BlockAt(chainActive, h)
    BY <1>2, <1>t, FrontAgrees DEF DisconnectTip, TypeOK, Blk
  <2>2. UpdateTip(c) /\ chainActive' = c
        /\ deepRollback' = (deepRollback \/ (phase = "run" /\ Height(c) <= load_height))
        /\ phase \in {"import", "run"}
    BY <1>2 DEF DisconnectTip, UpdateTip
  <2> HIDE DEF c
  <2>3. CASE deepRollback'
    BY <1>t, <2>3, <1>p, <1>h, FactsGiveInv
  <2>4. CASE ~deepRollback'
    <3>1. ~deepRollback /\ (phase = "run" => ~(Height(c) <= load_height))
      BY <2>2, <2>4, Zenon
    <3>2. phase = "run" => Height(c) > load_height
      BY <3>1, <1>t, <2>1 DEF TypeOK, Height
    <3>3. load_height \in 0 .. Height(c)
      BY <3>2, <1>t, <2>1, <2>2 DEF TypeOK, LoadInv, Height
    <3>4. \A h \in 0 .. load_height : BlockAt(c, h) = BlockAt(chainActive, h)
      BY <2>1, <3>3 DEF Height
    <3>5. Height(c) <= Height(chainActive) + 1
      BY <1>t, <2>1 DEF TypeOK, Height
    <3> QED
      BY <1>t, <2>1, <2>2, <3>1, <3>2, <3>4, <3>5, TipStep, <1>p, <1>h, FactsGiveInv
  <2> QED
    BY <2>3, <2>4
<1>3. CASE Prune
  BY <1>3, <1>s DEF Prune
<1>4. CASE StartLoad
  BY <1>4, <1>s DEF StartLoad
<1>5. CASE LoadStep
  <2>1. /\ chainActive \in Seq(Blk) /\ loadNext \in Nat /\ loadNext <= Len(chainActive) - 1
        /\ updateTicketpool(chainActive, loadNext)
        /\ UNCHANGED <<chainActive, deepRollback>>
        /\ phase = "load"
    BY <1>5, <1>t DEF LoadStep, TypeOK, Height, Blk
  <2>2. ~deepRollback
    BY <2>1, <1>t DEF LoadInv
  <2>3. loadNext > load_height
        /\ (pruned = -1 => loadNext - TICKETPOOL_HEIGHT_LATENCY <= load_height + 1)
    BY <2>1, <1>t, PoolAssumption DEF LoadInv, TypeOK
  <2>4. PoolFacts(chainActive, ticket_pool', load_height')
    BY <2>1, <2>2, <2>3, UpdateStep DEF PoolFacts
  <2> QED
    BY <1>t, <2>1, <2>4, <1>p, <1>h, FactsGiveInv
<1>6. CASE FinishLoad
  BY <1>6, <1>s DEF FinishLoad
<1>7. CASE Restart
  <2>1. ticket_pool' = {} /\ load_height' = 0
    BY <1>7 DEF Restart
  <2>2. PoolFacts(chainActive', ticket_pool', load_height')
    BY <2>1, EmptyPool DEF PoolFacts
  <2> QED
    BY <1>t, <2>2, <1>p, <1>h, FactsGiveInv
<1>8. CASE UNCHANGED vars
  BY <1>8, <1>s DEF vars
<1> QED
  BY <1>1, <1>2, <1>3, <1>4, <1>5, <1>6, <1>7, <1>8 DEF Next

-----------------------------------------------------------------------------
\* The inductive invariant holds in every reachable state.
THEOREM Invariance == Spec => []IInv
BY IInvInit, IInvStep, PTL DEF Spec

\* updateTicketpool, UpdateTip and LoadTicketpool keep the pool a replay of the
\* active chain up to load_height through every interleaving of connects,
\* disconnects that stay above load_height, flushes, crashes and reloads, and the
\* replay has one outcome as long as no draw reads behind a hash.
THEOREM PoolFollowsChainCorrect == Spec => []PoolFollowsChain
<1>1. IInv => PoolFollowsChain
  BY DEF IInv
<1> QED
  BY <1>1, Invariance, PTL

\* Through every rollback, however deep, and with pruning or without, the
\* tickets bought above the latency height lie in blocks of the active chain
\* below its tip; without a rollback to load_height all tickets do.
THEOREM TicketsOnChainCorrect == Spec => []TicketsOnChain
<1>1. ASSUME IInv PROVE TicketsOnChain
  <2>t. /\ TypeOK /\ LoadInv /\ HighOn(chainActive, ticket_pool, load_height)
        /\ ~deepRollback => PoolOn(chainActive, ticket_pool, load_height)
        /\ load_height \in Nat /\ Height(chainActive) \in Nat
    BY <1>1 DEF IInv, TypeOK, Height
  <2>1. ASSUME NEW t \in ticket_pool, t.ticketHeight > TICKETPOOL_HEIGHT_LATENCY
        PROVE  /\ t.ticketHeight \in 1 .. Height(chainActive) - 1
               /\ t.ticketTxHash \in BlockAt(chainActive, t.ticketHeight).buys
    BY <2>t, <2>1 DEF HighOn
  <2>2. ASSUME NEW t \in ticket_pool, ~deepRollback
        PROVE  /\ t.ticketHeight \in 1 .. Height(chainActive) - 1
               /\ t.ticketTxHash \in BlockAt(chainActive, t.ticketHeight).buys
    <3>1. t.ticketHeight \in 1 .. load_height
          /\ t.ticketTxHash \in BlockAt(chainActive, t.ticketHeight).buys
      BY <2>t, <2>2 DEF PoolOn
    <3>2. load_height # 0 => load_height < Height(chainActive)
      BY <2>t, <2>2, PoolAssumption DEF LoadInv, TypeOK
    <3> QED
      BY <3>1, <3>2, <2>t
  <2> QED
    BY <2>1, <2>2 DEF TicketsOnChain
<1> QED
  BY <1>1, Invariance, PTL

\* UpdateTip leaves no block between load_height and the latency height.
THEOREM PoolNeverBehindCorrect == Spec => []PoolNeverBehind
<1>1. IInv => PoolNeverBehind
  BY DEF IInv, LoadInv
<1> QED
  BY <1>1, Invariance, PTL

\* updateTicketpool's expiry deletes every ticket above the latency height at
\* its age limit, unless a rollback reached load_height or blocks were deleted.
THEOREM ExpiredTicketsLeaveCorrect == Spec => []ExpiredTicketsLeave
<1>1. IInv => ExpiredTicketsLeave
  BY DEF IInv
<1> QED
  BY <1>1, Invariance, PTL
=============================================================================
