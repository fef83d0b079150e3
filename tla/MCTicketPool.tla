---------------------------- MODULE MCTicketPool ----------------------------
(* Small instances of TicketPool: two lucky tickets, fourteen hash digits.  *)
EXTENDS TicketPool

\* Neighbouring digits of an odd step differ in parity, so the seed matters.
Digits(step) == [i \in 0 .. HashLen - 1 |-> (i * step) % 16]

MCGenesis == [hash |-> Digits(0), seed |-> 0, buys |-> {}]

\* Purchases come in bundles, so that the pool passes the size at which
\* tickets are drawn within a few blocks.  With four bits, seeds 13 and 11 are
\* -3 and -5 as signed numbers: a window that is cut short by the end of the
\* hash, and one that starts behind it.
MCBlocks == {[hash |-> Digits(1), seed |-> 11, buys |-> {1, 4}],
             [hash |-> Digits(3), seed |-> 13, buys |-> {2, 3, 5, 6}],
             [hash |-> Digits(2), seed |-> 1, buys |-> {}]}
=============================================================================
