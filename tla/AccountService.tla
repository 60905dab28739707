--------------------------- MODULE AccountService ---------------------------
(***************************************************************************)
(* The Account Service: POST /accounts/{accountId}/transactions handled by *)
(* a pool of threads over one SQLite database.                             *)
(*                                                                         *)
(* FastAPI runs the synchronous route in a thread pool, one SQLAlchemy     *)
(* session per request.  A SELECT opens no transaction, so every database  *)
(* call of AccountService.apply is a step of its own and steps of other    *)
(* threads come between them; the writes of one request reach the database *)
(* together, at its commit.  A request whose caller gave up keeps running. *)
(***************************************************************************)
EXTENDS LedgerData, FiniteSets

CONSTANTS
    Threads,        \* the threads that run requests
    NoAccount,      \* no accounts row
    NoTransaction,  \* no transactions row
    NoCommand,      \* the thread is free
    NoDetails       \* an audit record without details

VARIABLES
    accounts,      \* the accounts table
    transactions,  \* the transactions table, by its primary key eventId
    audit,         \* the distinct contents of the audit_records table
    thread         \* what each thread of the pool is doing

ledger == <<accounts, transactions, audit>>
accountVars == <<accounts, transactions, audit, thread>>

AccountRowType == [currency : Currencies, balance : Int]

AuditActions ==
    {"TRANSACTION_REJECTED", "TRANSACTION_CONFLICT_REJECTED",
     "TRANSACTION_REPLAYED", "ACCOUNT_CREATED", "BALANCE_UPDATED",
     "TRANSACTION_APPLIED"}

BalanceChange == [previousBalance : Int, delta : Int, newBalance : Int]

AuditRecordType ==
    [action : AuditActions, eventId : EventIds, accountId : AccountIds,
     details : BalanceChange \cup {NoDetails}]

(* The answers of the handler.  Left out is the 500 that errors.py:44-47   *)
(* gives for an exception no other handler names.                          *)
Answers ==
    {"APPLIED",               \* 201
     "REPLAYED",              \* 200, Idempotent-Replay: true
     "EVENT_ID_CONFLICT",     \* 409
     "CURRENCY_MISMATCH",     \* 409
     "ACCOUNT_ID_MISMATCH",   \* 422
     "DATABASE_UNAVAILABLE"}  \* 503, any SQLAlchemyError but IntegrityError

(* idle: free; lookup: about to read the transaction; account: about to    *)
(* read the account; commit: the rows are staged in the session; resolve:  *)
(* rolled back after an IntegrityError; done: the answer is on its way.    *)
ThreadType ==
    [pc : {"idle", "lookup", "account", "commit", "resolve", "done"},
     path : AccountIds \cup {NoAccount},
     command : Commands \cup {NoCommand},
     seen : AccountRowType \cup {NoAccount},
     answer : Answers \cup {"none"}]

IdleThread ==
    [pc |-> "idle", path |-> NoAccount, command |-> NoCommand,
     seen |-> NoAccount, answer |-> "none"]

ASSUME NullsAssumption ==
    /\ NoAccount \notin AccountRowType
    /\ NoTransaction \notin TransactionRowType
    /\ NoCommand \notin Commands
    /\ NoDetails \notin BalanceChange

-----------------------------------------------------------------------------
(* Helpers.                                                                *)

Note(action, eventId, accountId, details) ==
    [action |-> action, eventId |-> eventId, accountId |-> accountId,
     details |-> details]

(* The records AuditRepository.record adds for the request of thread t.    *)
NoteFor(t, action) ==
    Note(action, thread[t].command.eventId, thread[t].path, NoDetails)

Move(t, pc) == thread' = [thread EXCEPT ![t].pc = pc]

Answer(t, answer) ==
    thread' = [thread EXCEPT ![t].pc = "done", ![t].answer = answer]

(* record(...) with its own commit, then the answer; the ledger tables are *)
(* not touched.                                                            *)
RecordAndAnswer(t, action, answer) ==
    /\ audit' = audit \cup {NoteFor(t, action)}
    /\ Answer(t, answer)
    /\ UNCHANGED <<accounts, transactions>>

-----------------------------------------------------------------------------
(* The handler.                                                            *)

(* A thread takes the request POST /accounts/path/transactions.            *)
Receive(t, path, c) ==
    /\ thread[t].pc = "idle"
    /\ thread' = [thread EXCEPT ![t] =
         [IdleThread EXCEPT !.pc = "lookup", !.path = path, !.command = c]]
    /\ UNCHANGED ledger

(* The URL and the body name different accounts.                           *)
RejectMismatch(t) ==
    /\ thread[t].pc = "lookup"
    /\ thread[t].path # thread[t].command.accountId
    /\ RecordAndAnswer(t, "TRANSACTION_REJECTED", "ACCOUNT_ID_MISMATCH")

(* Answer from the transaction already recorded under this eventId.        *)
AnswerExisting(t) ==
    LET c == thread[t].command IN
    IF SameTransaction(transactions[c.eventId], c)
    THEN RecordAndAnswer(t, "TRANSACTION_REPLAYED", "REPLAYED")
    ELSE RecordAndAnswer(t, "TRANSACTION_CONFLICT_REJECTED", "EVENT_ID_CONFLICT")

(* repo.get_transaction(command.event_id)                                  *)
LookupTransaction(t) ==
    /\ thread[t].pc = "lookup"
    /\ thread[t].path = thread[t].command.accountId
    /\ IF transactions[thread[t].command.eventId] = NoTransaction
       THEN Move(t, "account") /\ UNCHANGED ledger
       ELSE AnswerExisting(t)

(* Variant of LookupAccount: no currency check.                            *)
LookupAccountUnchecked(t) ==
    /\ thread[t].pc = "account"
    /\ thread' = [thread EXCEPT ![t].pc = "commit", ![t].seen = accounts[thread[t].path]]
    /\ UNCHANGED ledger

(* Variant of LookupAccount: TRANSACTION_APPLIED is committed at once, not *)
(* with the ledger.                                                        *)
LookupAccountAuditsEarly(t) ==
    LET row == accounts[thread[t].path] IN
    /\ thread[t].pc = "account"
    /\ IF row # NoAccount /\ row.currency # thread[t].command.currency
       THEN RecordAndAnswer(t, "TRANSACTION_REJECTED", "CURRENCY_MISMATCH")
       ELSE /\ thread' = [thread EXCEPT ![t].pc = "commit", ![t].seen = row]
            /\ audit' = audit \cup {NoteFor(t, "TRANSACTION_APPLIED")}
            /\ UNCHANGED <<accounts, transactions>>

(* repo.get_account(account_id): the row read here is what the commit will *)
(* write back.                                                             *)
LookupAccount(t) ==
    LET row == accounts[thread[t].path] IN
    /\ thread[t].pc = "account"
    /\ IF row # NoAccount /\ row.currency # thread[t].command.currency
       THEN RecordAndAnswer(t, "TRANSACTION_REJECTED", "CURRENCY_MISMATCH")
       ELSE /\ thread' = [thread EXCEPT ![t].pc = "commit", ![t].seen = row]
            /\ UNCHANGED ledger

(* Variants of DuplicateKey: accounts may be opened twice, or neither key  *)
(* is unique.                                                              *)
DuplicateTransactionOnly(t) ==
    transactions[thread[t].command.eventId] # NoTransaction

NoDuplicateKey(t) == FALSE

(* The primary keys refuse the staged rows.                                *)
DuplicateKey(t) ==
    \/ transactions[thread[t].command.eventId] # NoTransaction
    \/ thread[t].seen = NoAccount /\ accounts[thread[t].path] # NoAccount

PreviousBalance(t) ==
    IF thread[t].seen = NoAccount THEN 0 ELSE thread[t].seen.balance

(* Variant of NewBalance: debits are added.                                *)
NewBalanceUnsigned(t) == PreviousBalance(t) + thread[t].command.amount

(* The balance staged in the session: the one read plus the delta.         *)
NewBalance(t) == PreviousBalance(t) + Delta(thread[t].command)

StagedAudit(t) ==
    {Note("BALANCE_UPDATED", thread[t].command.eventId, thread[t].path,
          [previousBalance |-> PreviousBalance(t),
           delta |-> Delta(thread[t].command),
           newBalance |-> NewBalance(t)]),
     NoteFor(t, "TRANSACTION_APPLIED")}
    \cup (IF thread[t].seen = NoAccount
          THEN {NoteFor(t, "ACCOUNT_CREATED")} ELSE {})

(* Variant of CommitAnswering: the database increments the balance, the    *)
(* audit record keeps the one computed from the earlier read.              *)
CommitAnsweringIncrement(t, answer) ==
    LET c == thread[t].command IN
    /\ thread[t].pc = "commit"
    /\ ~DuplicateKey(t)
    /\ accounts' = [accounts EXCEPT ![thread[t].path] =
         IF @ = NoAccount THEN [currency |-> c.currency, balance |-> Delta(c)]
         ELSE [@ EXCEPT !.balance = @ + Delta(c)]]
    /\ transactions' = [transactions EXCEPT ![c.eventId] = TransactionRow(c)]
    /\ audit' = audit \cup StagedAudit(t)
    /\ Answer(t, answer)

(* db.commit(): INSERT or UPDATE of the account, INSERT of the transaction *)
(* and of the audit records.                                               *)
CommitAnswering(t, answer) ==
    LET c == thread[t].command IN
    /\ thread[t].pc = "commit"
    /\ ~DuplicateKey(t)
    /\ accounts' = [accounts EXCEPT ![thread[t].path] =
         [currency |-> IF thread[t].seen = NoAccount THEN c.currency ELSE @.currency,
          balance |-> NewBalance(t)]]
    /\ transactions' = [transactions EXCEPT ![c.eventId] = TransactionRow(c)]
    /\ audit' = audit \cup StagedAudit(t)
    /\ Answer(t, answer)

Commit(t) == CommitAnswering(t, "APPLIED")

(* The refreshes after the commit fail: everything is recorded, and the    *)
(* answer is 503 all the same.                                             *)
CommitUnconfirmed(t) == CommitAnswering(t, "DATABASE_UNAVAILABLE")

(* IntegrityError at the commit: rollback.                                 *)
CommitRefused(t) ==
    /\ thread[t].pc = "commit"
    /\ DuplicateKey(t)
    /\ Move(t, "resolve")
    /\ UNCHANGED ledger

(* Variants of Resolve: a refused commit always means a replay, or always  *)
(* a conflict.                                                             *)
ResolveTrusting(t) ==
    /\ thread[t].pc = "resolve"
    /\ RecordAndAnswer(t, "TRANSACTION_REPLAYED", "REPLAYED")

ResolveRefusing(t) ==
    /\ thread[t].pc = "resolve"
    /\ RecordAndAnswer(t, "TRANSACTION_CONFLICT_REJECTED", "EVENT_ID_CONFLICT")

(* The second look after the rollback: whatever is not a replay is         *)
(* answered as a conflict, a missing transaction included.                 *)
Resolve(t) ==
    /\ thread[t].pc = "resolve"
    /\ IF transactions[thread[t].command.eventId] = NoTransaction
       THEN RecordAndAnswer(t, "TRANSACTION_CONFLICT_REJECTED", "EVENT_ID_CONFLICT")
       ELSE AnswerExisting(t)

(* Any other SQLAlchemyError (the database is locked, for one) at a read,  *)
(* at the commit or at the commit of a lone audit record.                  *)
DatabaseError(t) ==
    /\ thread[t].pc \in {"lookup", "account", "commit", "resolve"}
    /\ Answer(t, "DATABASE_UNAVAILABLE")
    /\ UNCHANGED ledger

(* The answer leaves and the thread returns to the pool.                   *)
Reply(t) ==
    /\ thread[t].pc = "done"
    /\ thread' = [thread EXCEPT ![t] = IdleThread]
    /\ UNCHANGED ledger

(* The container is killed and started again: sessions are lost, the       *)
(* database file on its volume is not.                                     *)
Restart ==
    /\ thread' = [t \in Threads |-> IdleThread]
    /\ UNCHANGED ledger

-----------------------------------------------------------------------------
AccountInit ==
    /\ accounts = [a \in AccountIds |-> NoAccount]
    /\ transactions = [e \in EventIds |-> NoTransaction]
    /\ audit = {}
    /\ thread = [t \in Threads |-> IdleThread]

Work(t) ==
    \/ RejectMismatch(t)
    \/ LookupTransaction(t)
    \/ LookupAccount(t)
    \/ Commit(t)
    \/ CommitRefused(t)
    \/ Resolve(t)

(* What a failing database does to a request.                              *)
Fail(t) == DatabaseError(t) \/ CommitUnconfirmed(t)

AccountNext ==
    \/ \E t \in Threads, path \in AccountIds, c \in Commands : Receive(t, path, c)
    \/ \E t \in Threads : Work(t) \/ Fail(t) \/ Reply(t)
    \/ Restart

AccountSpec == AccountInit /\ [][AccountNext]_accountVars

-----------------------------------------------------------------------------
(* Properties.                                                             *)

Recorded(e) == transactions[e] # NoTransaction

(* Every variable keeps the shape the code gives it.                       *)
TypeOK ==
    /\ accounts \in [AccountIds -> AccountRowType \cup {NoAccount}]
    /\ transactions \in [EventIds -> TransactionRowType \cup {NoTransaction}]
    /\ audit \subseteq AuditRecordType
    /\ thread \in [Threads -> ThreadType]

(* No transaction is ever recorded on an account of another currency, even *)
(* when several threads open the account at once: the check at line 57     *)
(* reads a row that another thread may be creating.                        *)
CurrencyConsistent ==
    \A e \in EventIds :
        Recorded(e) =>
            /\ accounts[transactions[e].accountId] # NoAccount
            /\ accounts[transactions[e].accountId].currency = transactions[e].currency

(* A caller told 201 or 200 finds its transaction in the ledger.           *)
SuccessMeansRecorded ==
    \A t \in Threads :
        thread[t].answer \in {"APPLIED", "REPLAYED"} =>
            /\ Recorded(thread[t].command.eventId)
            /\ \/ SameTransaction(transactions[thread[t].command.eventId],
                                  thread[t].command)
               \/ transactions[thread[t].command.eventId]
                      = TransactionRow(thread[t].command)

(* Nothing recorded is ever changed or removed: the ledger only grows, and *)
(* an account keeps the currency it was opened with, across crashes too.   *)
LedgerOnlyGrows ==
    [][/\ \A e \in EventIds : Recorded(e) => transactions'[e] = transactions[e]
       /\ \A a \in AccountIds :
              accounts[a] # NoAccount =>
                  /\ accounts'[a] # NoAccount
                  /\ accounts'[a].currency = accounts[a].currency
       /\ audit \subseteq audit']_accountVars

(* 201 is answered by the request that put the transaction in the ledger,  *)
(* and by no other: retries of one event that run in several threads at    *)
(* once get one 201 between them.                                          *)
CreatedByOneRequest ==
    [][\A t \in Threads :
          thread[t].answer # "APPLIED" /\ thread'[t].answer = "APPLIED" =>
              /\ ~Recorded(thread[t].command.eventId)
              /\ Recorded(thread[t].command.eventId)']_accountVars

(* The audit trail and the ledger agree: an event is audited as applied    *)
(* exactly when its transaction is there.                                  *)
AuditMatchesLedger ==
    \A e \in EventIds :
        Recorded(e) <=>
            \E r \in audit : r.action = "TRANSACTION_APPLIED" /\ r.eventId = e

(* An account is opened by exactly one event, however many threads race to *)
(* open it.                                                                *)
OpenedOnce ==
    \A a \in AccountIds :
        Cardinality({r \in audit : r.action = "ACCOUNT_CREATED" /\ r.accountId = a})
            = IF accounts[a] = NoAccount THEN 0 ELSE 1

(* The balance trail is connected: every audited balance change starts at  *)
(* zero or where another recorded change of the same account ended, and    *)
(* the balance is where one of them ended.                                 *)
BalanceTrailConnected ==
    LET Changes(a) == {r \in audit : r.action = "BALANCE_UPDATED" /\ r.accountId = a}
        Ends(a) == {r.details.newBalance : r \in Changes(a)}
    IN \A a \in AccountIds :
           /\ \A r \in Changes(a) : r.details.previousBalance \in Ends(a) \cup {0}
           /\ accounts[a] # NoAccount => accounts[a].balance \in Ends(a)

(* A request refused with EVENT_ID_CONFLICT really differs from what the   *)
(* ledger holds under its eventId.                                         *)
ConflictIsReal ==
    \A t \in Threads :
        thread[t].answer = "EVENT_ID_CONFLICT" =>
            /\ Recorded(thread[t].command.eventId)
            /\ transactions[thread[t].command.eventId]
                   # TransactionRow(thread[t].command)

-----------------------------------------------------------------------------
(* Refinement: the tables are the ledger, and a thread between its first   *)
(* lookup and its answer is one open request.                              *)

Phase(t) ==
    IF thread[t].pc = "idle" THEN "idle"
    ELSE IF thread[t].pc = "done" THEN "answered" ELSE "open"

RequestOf(t) ==
    [phase |-> Phase(t), path |-> thread[t].path, command |-> thread[t].command,
     answer |-> thread[t].answer]

Promise == INSTANCE Ledger WITH
    Clients <- Threads,
    recorded <- transactions,
    request <- [t \in Threads |-> RequestOf(t)]

(* The handler with its lookups, commits, rollbacks and second looks, in   *)
(* any number of threads, does what one atomic step would.                 *)
ImplementsLedger == Promise!LedgerSpec
=============================================================================
