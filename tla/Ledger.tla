------------------------------- MODULE Ledger -------------------------------
(***************************************************************************)
(* What the Account Service promises its callers, without tables, threads  *)
(* or sessions: a request takes effect in one step or not at all, an event *)
(* is recorded at most once and for good, the events of one account share  *)
(* a currency, and a success is told only of what is recorded.  A refusal  *)
(* promises nothing but that the request itself recorded nothing.          *)
(***************************************************************************)
EXTENDS LedgerData

CONSTANTS
    Clients,        \* whoever may have a request under way
    NoTransaction,  \* the event is not recorded
    NoAccount,      \* no account is addressed
    NoCommand       \* no request

VARIABLES
    recorded,  \* the transaction recorded under each event
    request    \* the request of each client

ledgerVars == <<recorded, request>>

Refusals ==
    {"EVENT_ID_CONFLICT", "CURRENCY_MISMATCH", "ACCOUNT_ID_MISMATCH",
     "DATABASE_UNAVAILABLE"}

NoRequest ==
    [phase |-> "idle", path |-> NoAccount, command |-> NoCommand, answer |-> "none"]

Tell(k, answer) ==
    request' = [request EXCEPT ![k] =
        [phase |-> "answered", path |-> @.path, command |-> @.command, answer |-> answer]]

Ask(k, path, c) ==
    /\ request[k].phase = "idle"
    /\ request' = [request EXCEPT ![k] =
         [phase |-> "open", path |-> path, command |-> c, answer |-> "none"]]
    /\ UNCHANGED recorded

(* The transactions of account a are in currency m, if there are any.      *)
InCurrency(a, m) ==
    \A e \in EventIds :
        recorded[e] # NoTransaction /\ recorded[e].accountId = a =>
            recorded[e].currency = m

(* The one step that records an event; the answer may get lost.            *)
Record(k) ==
    LET c == request[k].command IN
    /\ request[k].phase = "open"
    /\ request[k].path = c.accountId
    /\ recorded[c.eventId] = NoTransaction
    /\ InCurrency(c.accountId, c.currency)
    /\ recorded' = [recorded EXCEPT ![c.eventId] = TransactionRow(c)]
    /\ Tell(k, "APPLIED") \/ Tell(k, "DATABASE_UNAVAILABLE")

Recognize(k) ==
    LET c == request[k].command IN
    /\ request[k].phase = "open"
    /\ recorded[c.eventId] # NoTransaction
    /\ SameTransaction(recorded[c.eventId], c)
    /\ Tell(k, "REPLAYED")
    /\ UNCHANGED recorded

Refuse(k) ==
    /\ request[k].phase = "open"
    /\ \E answer \in Refusals : Tell(k, answer)
    /\ UNCHANGED recorded

Hear(k) ==
    /\ request[k].phase = "answered"
    /\ request' = [request EXCEPT ![k] = NoRequest]
    /\ UNCHANGED recorded

(* Requests under way are lost, what is recorded is not.                   *)
Crash ==
    /\ request' = [k \in Clients |-> NoRequest]
    /\ UNCHANGED recorded

LedgerInit ==
    /\ recorded = [e \in EventIds |-> NoTransaction]
    /\ request = [k \in Clients |-> NoRequest]

LedgerNext ==
    \/ \E k \in Clients, path \in AccountIds, c \in Commands : Ask(k, path, c)
    \/ \E k \in Clients : Record(k) \/ Recognize(k) \/ Refuse(k) \/ Hear(k)
    \/ Crash

LedgerSpec == LedgerInit /\ [][LedgerNext]_ledgerVars
=============================================================================
