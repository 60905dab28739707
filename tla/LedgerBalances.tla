--------------------------- MODULE LedgerBalances ---------------------------
(***************************************************************************)
(* What the balances of the Account Service are worth: how each is made of *)
(* the transactions recorded on its account, with and without races.       *)
(***************************************************************************)
EXTENDS AccountService, Functions

(* What the events of a set contribute to a balance.                       *)
Total(rows, events) == SumFunction([e \in events |-> Delta(rows[e])])

RecordedOn(a) == {e \in EventIds : Recorded(e) /\ transactions[e].accountId = a}

SumOf(events) == Total(transactions, events)

Balance(a) == IF accounts[a] = NoAccount THEN 0 ELSE accounts[a].balance

(* The balance is the sum of the recorded credits and debits, whatever the *)
(* order they arrived in and however often they were retried.              *)
BalanceMatchesLedger ==
    \A a \in AccountIds : Balance(a) = SumOf(RecordedOn(a))

(* A lost update never goes unseen: when a balance is not the sum of the   *)
(* recorded transactions, two audited changes of the account start from    *)
(* the same balance.  The converse is not claimed: a balance that comes    *)
(* back to an earlier value (credit, debit, credit) leaves two such        *)
(* changes without any race.                                               *)
LostUpdateIsAudited ==
    \A a \in AccountIds :
        \/ Balance(a) = SumOf(RecordedOn(a))
        \/ \E r1, r2 \in audit :
               /\ r1 # r2
               /\ r1.action = "BALANCE_UPDATED" /\ r1.accountId = a
               /\ r2.action = "BALANCE_UPDATED" /\ r2.accountId = a
               /\ r1.details.previousBalance = r2.details.previousBalance

(* No recorded event counts twice in a balance, and none that is not       *)
(* recorded counts at all, even when threads overwrite each other.         *)
BalanceCountsEachOnce ==
    \A a \in AccountIds :
        \E counted \in SUBSET RecordedOn(a) : Balance(a) = SumOf(counted)
=============================================================================
