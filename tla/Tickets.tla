------------------------------- MODULE Tickets -------------------------------
(***************************************************************************)
(* The ticket pool as a value, and the choice of the lucky tickets         *)
(* (src/src/ticketpool.{h,cpp}).                                           *)
(*                                                                         *)
(* A ticket is the hash of the transaction that bought it and the height   *)
(* of the block that contains that transaction.  Hashes are naturals:      *)
(* the pool's first index orders them.  Price and owner are functions of   *)
(* the hash and are left to the modules that need them.                    *)
(***************************************************************************)
EXTENDS Integers, FiniteSets

CONSTANTS
    NLucky,    \* tickets drawn for a block, 5 in the code
    SeedBits,  \* width of the seed in a block header, 32 in the code
    SeedMod,   \* seeds are taken modulo this, 24 in the code
    HashLen    \* hexadecimal digits of a block hash, 64 in the code

\* No window of four digits starts before the hash (63 - 23 - 20 >= 0 in the
\* code).  It may start behind it: see Unreadable.
ASSUME LuckyAssumption ==
    /\ NLucky \in Nat \ {0}
    /\ SeedBits \in Nat \ {0}
    /\ SeedMod \in Nat \ {0}
    /\ HashLen \in Nat
    /\ HashLen >= SeedMod + 4 * NLucky

\* CBlockHeader::seed, a uint32_t.
Seed == 0 .. 2 ^ SeedBits - 1

\* The digits of a block hash, most significant first.
HexString == [0 .. HashLen - 1 -> 0 .. 15]

Ticket(h, height) == [ticketTxHash |-> h, ticketHeight |-> height]

-----------------------------------------------------------------------------
(* The pool: a set of tickets in which a hash occurs once.                 *)

ticketPush(pool, t) ==
    IF \E u \in pool : u.ticketTxHash = t.ticketTxHash THEN pool ELSE pool \cup {t}

ticketDel(pool, t) == {u \in pool : u.ticketTxHash # t.ticketTxHash}

ticketDelByHeight(pool, height) == {u \in pool : u.ticketHeight # height}

getTicketByHeight(pool, height) == {u \in pool : u.ticketHeight = height}

getTicketpoolSize(pool) == Cardinality(pool)

\* The ticket that has exactly index smaller hashes in front of it.  The code
\* throws "ticket index error" when there is none (IndexOk).
IndexOk(pool, index) == index < getTicketpoolSize(pool)

ticketAt(pool, index) ==
    CHOOSE t \in pool :
        Cardinality({u \in pool : u.ticketTxHash < t.ticketTxHash}) = index

-----------------------------------------------------------------------------
(* The lucky tickets.                                                      *)

\* seed % 24 in getLuckyIndex: its parameter is an int, so the upper half of
\* the seeds is negative there, and % rounds towards zero.
SeedShift(seed) ==
    IF seed < 2 ^ (SeedBits - 1) THEN seed % SeedMod
                                 ELSE -((2 ^ SeedBits - seed) % SeedMod)

\* Where the window of the k-th ticket starts.
WindowStart(seed, k) == (HashLen - 1) - SeedShift(seed) - 4 * k

\* sscanf("%x") of the four characters that start at p, which ends early at the
\* NUL behind the last digit.
HexWindow(hash, p) ==
    LET Scan(value, i) == IF p + i < HashLen THEN 16 * value + hash[p + i] ELSE value
    IN  Scan(Scan(Scan(Scan(0, 0), 1), 2), 3)

idata(hash, seed, k) == HexWindow(hash, WindowStart(seed, k))

\* The windows that start behind the digits.  What lies there is not part of
\* the hash, and when it is no number sscanf leaves the uninitialised idata as
\* it is: any value may come out, another one in every call.
Unreadable(seed) == {k \in 1 .. NLucky : WindowStart(seed, k) >= HashLen}

\* The lists of indices a call can return.  hash is that of the block
\* TICKETPOOL_HEIGHT_LATENCY below the given height; the size is that of the
\* pool at the time of the call.
getLuckyIndex(hash, seed, size) ==
    IF size > NLucky
    THEN {[k \in 1 .. NLucky |-> IF k \in Unreadable(seed) THEN any[k]
                                 ELSE idata(hash, seed, k) % (size - NLucky)] :
              any \in [Unreadable(seed) -> 0 .. size - NLucky - 1]}
    ELSE {<< >>}

\* What every caller does with the indices: draw a ticket from a copy of the
\* pool, take it out of the copy, draw the next.  Remaining(pool, ix)[k] is
\* the copy after k draws.
Remaining(pool, luckyIndex) ==
    LET temppool[k \in 0 .. NLucky] ==
          IF k = 0 THEN pool
          ELSE ticketDel(temppool[k - 1], ticketAt(temppool[k - 1], luckyIndex[k]))
    IN  temppool

Drawn(pool, luckyIndex) ==
    LET temppool == Remaining(pool, luckyIndex)
    IN  {ticketAt(temppool[k - 1], luckyIndex[k]) : k \in DOMAIN luckyIndex}

\* The sets of tickets a draw can end with.
LuckyTickets(pool, hash, seed) ==
    {Drawn(pool, luckyIndex) : luckyIndex \in getLuckyIndex(hash, seed, getTicketpoolSize(pool))}
=============================================================================
