-------------------------- MODULE MCAccountService --------------------------
(***************************************************************************)
(* Instances of AccountService and LedgerBalances for TLC.  Amounts are    *)
(* distinct powers of two, so that a sum tells which events it contains.   *)
(***************************************************************************)
EXTENDS LedgerBalances, TLC

CONSTANTS e1, e2, e3, a1, a2, usd, eur

ThreadSymmetry == Permutations(Threads)

Utc(clock) == [clock |-> clock, offset |-> 0]

Command(e, a, type, amount, currency, timestamp) ==
    [eventId |-> e, accountId |-> a, type |-> type, amount |-> amount,
     currency |-> currency, eventTimestamp |-> timestamp, metadata |-> NoMetadata]

(* Each account gets one event, retried, and a second body that reuses its *)
(* eventId.                                                                *)
RetriedCommands ==
    {Command(e1, a1, "CREDIT", 1, usd, Utc(10)),
     Command(e1, a1, "CREDIT", 2, usd, Utc(10)),
     Command(e2, a2, "DEBIT", 4, usd, Utc(11))}

(* Three events on one account.                                            *)
OneAccountCommands ==
    {Command(e1, a1, "CREDIT", 1, usd, Utc(10)),
     Command(e2, a1, "DEBIT", 2, usd, Utc(9)),
     Command(e3, a1, "CREDIT", 4, usd, Utc(11))}

(* The same, and a body that gives the third in another currency.          *)
SharedCommands ==
    OneAccountCommands \cup {Command(e3, a1, "CREDIT", 4, eur, Utc(11))}

=============================================================================
