------------------------------- MODULE Ledger -------------------------------
(***************************************************************************)
(* What the money side of the bot promises, with no sessions, locks or     *)
(* retries in it.  A provider confirms that an order has been paid; the    *)
(* order's amount is then added to its owner's balance, once, in the same  *)
(* step that records the deposit; a purchase takes its price out of the    *)
(* balance if the balance covers it.                                       *)
(***************************************************************************)
EXTENDS Integers

CONSTANTS
    Payments,   \* the top-up orders
    Users,      \* the users whose balance is kept
    Owner,      \* the user that each order belongs to
    Amount,     \* the amount of each order, in kopeks
    Prices      \* the prices that a purchase may debit

VARIABLES
    confirmed,  \* the orders that the provider says are paid
    credited,   \* the orders whose deposit is recorded
    balance,    \* the balance of each user
    spent       \* what has been debited from each user so far

ledgerVars == <<confirmed, credited, balance, spent>>

LedgerInit ==
    /\ confirmed = {}
    /\ credited = {}
    /\ balance = [u \in Users |-> 0]
    /\ spent = [u \in Users |-> 0]

Confirm(p) ==
    /\ p \notin confirmed
    /\ confirmed' = confirmed \cup {p}
    /\ UNCHANGED <<credited, balance, spent>>

Credit(p) ==
    /\ p \in confirmed \ credited
    /\ credited' = credited \cup {p}
    /\ balance' = [balance EXCEPT ![Owner[p]] = @ + Amount[p]]
    /\ UNCHANGED <<confirmed, spent>>

Debit(u, price) ==
    /\ price <= balance[u]
    /\ balance' = [balance EXCEPT ![u] = @ - price]
    /\ spent' = [spent EXCEPT ![u] = @ + price]
    /\ UNCHANGED <<confirmed, credited>>

LedgerNext ==
    \/ \E p \in Payments : Confirm(p) \/ Credit(p)
    \/ \E u \in Users, price \in Prices : Debit(u, price)

LedgerSpec == LedgerInit /\ [][LedgerNext]_ledgerVars

=============================================================================
