---------------------------- MODULE PayoutLedger ----------------------------
(***************************************************************************)
(* What the pool promises its miners about money, with no database, task   *)
(* or transaction in it.  A miner earns tokens one after the other; the    *)
(* pool sets the next ones aside for payment; pieces of what is set aside  *)
(* are paid on the chain.  No token is paid that was not set aside, and    *)
(* none is paid twice.                                                     *)
(***************************************************************************)
EXTENDS Integers

CONSTANT Miners

VARIABLES
    earned,     \* per miner, how many tokens it has earned
    reserved,   \* per miner, how many of those were set aside for payment
    paid        \* pieces paid: miner, the tokens from + 1 to upto, and the payout

ledgerVars == <<earned, reserved, paid>>

Piece == [miner: Miners, from: Nat, upto: Nat, payout: Nat]

Disjoint(p, q) ==
    p.miner = q.miner => p.upto <= q.from \/ q.upto <= p.from

LedgerInit ==
    /\ earned = [m \in Miners |-> 0]
    /\ reserved = [m \in Miners |-> 0]
    /\ paid = {}

Earn(m) ==
    /\ earned'[m] > earned[m]
    /\ earned' = [earned EXCEPT ![m] = earned'[m]]
    /\ UNCHANGED <<reserved, paid>>

Reserve(m) ==
    /\ reserved'[m] > reserved[m]
    /\ reserved'[m] <= earned[m]
    /\ reserved' = [reserved EXCEPT ![m] = reserved'[m]]
    /\ UNCHANGED <<earned, paid>>

\* A batch of pieces is paid, all of it or nothing, with tokens no payout has paid.
Pay ==
    /\ paid \subseteq paid'
    /\ \A p \in paid' \ paid :
        /\ p \in Piece
        /\ p.from < p.upto
        /\ p.upto <= reserved[p.miner]
        /\ \A q \in paid' \ {p} : Disjoint(p, q)
    /\ UNCHANGED <<earned, reserved>>

LedgerNext ==
    \/ \E m \in Miners : Earn(m) \/ Reserve(m)
    \/ Pay

LedgerSpec == LedgerInit /\ [][LedgerNext]_ledgerVars

=============================================================================
