----------------------- MODULE AccountService_proofs -----------------------
(***************************************************************************)
(* Safety of the Account Service, and that it implements Ledger, for every *)
(* set of threads, accounts, events and commands, from one inductive       *)
(* invariant.                                                              *)
(***************************************************************************)
EXTENDS AccountService, TLAPS

(* A busy thread holds a request of its caller, and from the first lookup  *)
(* on the URL and the body name one account.                               *)
BusyThreads ==
    \A t \in Threads :
        /\ thread[t].pc # "idle" =>
               thread[t].command \in Commands /\ thread[t].path \in AccountIds
        /\ thread[t].answer # "none" => thread[t].pc = "done"
        /\ thread[t].pc \in {"account", "commit", "resolve"} =>
               thread[t].path = thread[t].command.accountId

(* The account row a thread read still exists when it commits, in the      *)
(* currency it was checked against; only its balance may be out of date.   *)
SeenAccountExists ==
    \A t \in Threads :
        thread[t].pc = "commit" /\ thread[t].seen # NoAccount =>
            /\ accounts[thread[t].path] # NoAccount
            /\ accounts[thread[t].path].currency = thread[t].command.currency

(* A commit, whether its refreshes succeed or not, and all a busy thread   *)
(* may do before it answers.                                               *)
Commits(t) ==
    \E answer \in {"APPLIED", "DATABASE_UNAVAILABLE"} : CommitAnswering(t, answer)

Step(t) == Work(t) \/ Fail(t)

IInv == TypeOK /\ BusyThreads /\ SeenAccountExists /\ CurrencyConsistent
            /\ SuccessMeansRecorded /\ AuditMatchesLedger

-----------------------------------------------------------------------------
(* What a validated command contributes to the tables: identifiers of the  *)
(* right sets, a row of the right type and an integer delta.               *)
LEMMA CommandFacts ==
    ASSUME NEW c \in Commands
    PROVE  /\ c.eventId \in EventIds
           /\ c.accountId \in AccountIds
           /\ c.currency \in Currencies
           /\ TransactionRow(c) \in TransactionRowType
           /\ Delta(c) \in Int
<1>1. c \in CommandType
  BY CommandsAssumption
<1> QED
  BY <1>1 DEF CommandType, TransactionRow, TransactionRowType, Delta, Clock

(* An audit record written for a busy thread has the type of the table.    *)
LEMMA NoteType ==
    ASSUME NEW eventId \in EventIds, NEW accountId \in AccountIds,
           NEW action \in AuditActions, NEW details \in BalanceChange \cup {NoDetails}
    PROVE  Note(action, eventId, accountId, details) \in AuditRecordType
  BY DEF Note, AuditRecordType

(* Only an entry of a free thread, a move or an answer changes a thread.   *)
LEMMA ThreadSteps ==
    ASSUME TypeOK, NEW t \in Threads
    PROVE  /\ \A answer \in Answers : Answer(t, answer) => thread' \in [Threads -> ThreadType]
           /\ \A pc \in {"account", "resolve"} : Move(t, pc) => thread' \in [Threads -> ThreadType]
           /\ IdleThread \in ThreadType
  BY DEF TypeOK, Answer, Move, ThreadType, Answers, IdleThread

-----------------------------------------------------------------------------
(* The shape of the state and of busy threads is preserved by every step.  *)
LEMMA TypeStep ==
    ASSUME TypeOK, BusyThreads, SeenAccountExists, [AccountNext]_accountVars
    PROVE  TypeOK' /\ BusyThreads'
<1>0. ASSUME NEW t \in Threads, NEW answer, thread[t].pc # "idle", Answer(t, answer)
      PROVE  BusyThreads'
  BY <1>0 DEF Answer, BusyThreads, TypeOK, ThreadType
<1>1. ASSUME NEW t \in Threads, NEW path \in AccountIds, NEW c \in Commands,
             Receive(t, path, c)
      PROVE  TypeOK' /\ BusyThreads'
  BY <1>1 DEF Receive, ledger, TypeOK, BusyThreads, ThreadType, IdleThread
<1>2. ASSUME NEW t \in Threads, NEW action \in AuditActions, NEW answer \in Answers,
             thread[t].pc # "idle", RecordAndAnswer(t, action, answer)
      PROVE  TypeOK' /\ BusyThreads'
  <2>1. NoteFor(t, action) \in AuditRecordType
    BY <1>2, CommandFacts, NoteType DEF NoteFor, BusyThreads
  <2>2. TypeOK'
    BY <1>2, <2>1, ThreadSteps DEF RecordAndAnswer, TypeOK
  <2>3. BusyThreads'
    BY <1>0, <1>2 DEF RecordAndAnswer
  <2> QED BY <2>2, <2>3
<1>3. ASSUME NEW t \in Threads, thread[t].pc # "idle", AnswerExisting(t)
      PROVE  TypeOK' /\ BusyThreads'
  BY <1>2, <1>3 DEF AnswerExisting, AuditActions, Answers
<1>4. ASSUME NEW t \in Threads, Step(t)
      PROVE  TypeOK' /\ BusyThreads'
  <2>1. CASE RejectMismatch(t)
    BY <1>2, <2>1 DEF RejectMismatch, AuditActions, Answers
  <2>2. CASE LookupTransaction(t)
    <3>1. CASE transactions[thread[t].command.eventId] = NoTransaction
      BY <2>2, <3>1 DEF LookupTransaction, Move, ledger, TypeOK, BusyThreads, ThreadType
    <3>2. CASE transactions[thread[t].command.eventId] # NoTransaction
      BY <1>3, <2>2, <3>2 DEF LookupTransaction
    <3> QED BY <3>1, <3>2
  <2>3. CASE LookupAccount(t)
    <3> DEFINE row == accounts[thread[t].path]
    <3>1. CASE row # NoAccount /\ row.currency # thread[t].command.currency
      BY <1>2, <2>3, <3>1 DEF LookupAccount, AuditActions, Answers
    <3>2. CASE ~(row # NoAccount /\ row.currency # thread[t].command.currency)
      <4>1. row \in AccountRowType \cup {NoAccount}
        BY <2>3 DEF LookupAccount, TypeOK, BusyThreads
      <4> QED
        BY <2>3, <3>2, <4>1
        DEF LookupAccount, ledger, TypeOK, BusyThreads, ThreadType
    <3> QED BY <3>1, <3>2
  <2>4. CASE Commits(t)
    <3> DEFINE c == thread[t].command
    <3>1. thread[t].path \in AccountIds /\ c \in Commands
      BY <2>4 DEF Commits, CommitAnswering, BusyThreads
    <3>2. PreviousBalance(t) \in Int
      BY DEF PreviousBalance, TypeOK, ThreadType, AccountRowType
    <3>3. NewBalance(t) \in Int
      BY <3>1, <3>2, CommandFacts DEF NewBalance
    <3>4. StagedAudit(t) \subseteq AuditRecordType
      <4>1. [previousBalance |-> PreviousBalance(t), delta |-> Delta(c),
             newBalance |-> NewBalance(t)] \in BalanceChange
        BY <3>1, <3>2, <3>3, CommandFacts DEF BalanceChange
      <4> QED
        BY <3>1, <4>1, CommandFacts, NoteType DEF StagedAudit, NoteFor, AuditActions
    <3>5. accounts' \in [AccountIds -> AccountRowType \cup {NoAccount}]
      <4>1. CASE thread[t].seen = NoAccount
        BY <2>4, <3>1, <3>3, <4>1, CommandFacts DEF Commits, CommitAnswering, TypeOK, AccountRowType
      <4>2. CASE thread[t].seen # NoAccount
        <5>1. accounts[thread[t].path] \in AccountRowType
          BY <2>4, <3>1, <4>2 DEF Commits, CommitAnswering, TypeOK, SeenAccountExists
        <5> QED
          BY <2>4, <3>1, <3>3, <4>2, <5>1 DEF Commits, CommitAnswering, TypeOK, AccountRowType
      <4> QED BY <4>1, <4>2
    <3>6. transactions' \in [EventIds -> TransactionRowType \cup {NoTransaction}]
      BY <2>4, <3>1, CommandFacts DEF Commits, CommitAnswering, TypeOK
    <3>7. PICK answer \in Answers : Answer(t, answer)
      BY <2>4 DEF Commits, CommitAnswering, Answers
    <3>8. TypeOK'
      BY <2>4, <3>4, <3>5, <3>6, <3>7, ThreadSteps DEF Commits, CommitAnswering, TypeOK
    <3>9. BusyThreads'
      BY <1>0, <2>4, <3>7 DEF Commits, CommitAnswering
    <3> QED BY <3>8, <3>9
  <2>5. CASE CommitRefused(t)
    BY <2>5 DEF CommitRefused, Move, ledger, TypeOK, BusyThreads, ThreadType
  <2>6. CASE Resolve(t)
    BY <1>2, <1>3, <2>6 DEF Resolve, AuditActions, Answers
  <2>7. CASE DatabaseError(t)
    <3>1. TypeOK'
      BY <2>7, ThreadSteps DEF DatabaseError, ledger, TypeOK, Answers
    <3>2. BusyThreads'
      BY <1>0, <2>7 DEF DatabaseError
    <3> QED BY <3>1, <3>2
  <2> QED
    BY <1>4, <2>1, <2>2, <2>3, <2>4, <2>5, <2>6, <2>7 DEF Step, Work, Fail, Commits, Commit,
        CommitUnconfirmed
<1>5. ASSUME NEW t \in Threads, Reply(t)
      PROVE  TypeOK' /\ BusyThreads'
  BY <1>5, ThreadSteps DEF Reply, ledger, TypeOK, BusyThreads, IdleThread
<1>6. CASE Restart
  BY <1>6, ThreadSteps DEF Restart, ledger, TypeOK, BusyThreads, IdleThread
<1>7. CASE UNCHANGED accountVars
  BY <1>7 DEF accountVars, TypeOK, BusyThreads
<1> QED
  BY <1>1, <1>4, <1>5, <1>6, <1>7 DEF AccountNext, Step

(* A commit keeps every account that exists, with its currency.            *)
LEMMA AccountsKept ==
    ASSUME TypeOK, BusyThreads, SeenAccountExists, NEW t \in Threads, Commits(t)
    PROVE  \A a \in AccountIds : accounts[a] # NoAccount =>
               /\ accounts'[a] # NoAccount
               /\ accounts'[a].currency = accounts[a].currency
<1> DEFINE path == thread[t].path
<1> DEFINE row == [currency |-> IF thread[t].seen = NoAccount
                                THEN thread[t].command.currency
                                ELSE accounts[path].currency,
                   balance |-> NewBalance(t)]
<1>1. path \in AccountIds /\ accounts' = [accounts EXCEPT ![path] = row]
  BY DEF Commits, CommitAnswering, BusyThreads
<1>2. accounts[path] # NoAccount => thread[t].seen # NoAccount
  BY DEF Commits, CommitAnswering, DuplicateKey
<1>3. accounts[path] # NoAccount => row # NoAccount /\ row.currency = accounts[path].currency
  <2>1. row.currency \in Currencies /\ row.balance \in Int
    <3>1. thread[t].command \in Commands
      BY DEF Commits, CommitAnswering, BusyThreads
    <3>2. NewBalance(t) \in Int
      BY <3>1, CommandFacts
      DEF NewBalance, PreviousBalance, TypeOK, ThreadType, AccountRowType
    <3>3. thread[t].seen # NoAccount => accounts[path].currency \in Currencies
      BY <1>1 DEF Commits, CommitAnswering, TypeOK, SeenAccountExists, AccountRowType
    <3> QED BY <3>1, <3>2, <3>3, CommandFacts
  <2>2. row \in AccountRowType
    BY <2>1 DEF AccountRowType
  <2> QED
    BY <1>2, <2>2, NullsAssumption
<1> QED
  BY <1>1, <1>3 DEF TypeOK

(* No step disturbs what a thread knows of the account it is about to      *)
(* write: accounts never disappear and never change currency.              *)
LEMMA SeenStep ==
    ASSUME TypeOK, BusyThreads, SeenAccountExists, [AccountNext]_accountVars
    PROVE  SeenAccountExists'
<1>1. ASSUME NEW t \in Threads, NEW path \in AccountIds, NEW c \in Commands,
             Receive(t, path, c)
      PROVE  SeenAccountExists'
  BY <1>1 DEF Receive, ledger, TypeOK, SeenAccountExists, IdleThread, ThreadType
<1>2. ASSUME NEW t \in Threads, NEW answer, Answer(t, answer), UNCHANGED accounts
      PROVE  SeenAccountExists'
  BY <1>2 DEF Answer, TypeOK, SeenAccountExists, ThreadType
<1>3. ASSUME NEW t \in Threads, NEW pc \in {"account", "resolve"}, Move(t, pc),
             UNCHANGED accounts
      PROVE  SeenAccountExists'
  BY <1>3 DEF Move, TypeOK, SeenAccountExists, ThreadType
<1>4. ASSUME NEW t \in Threads, AnswerExisting(t)
      PROVE  SeenAccountExists'
  BY <1>2, <1>4 DEF AnswerExisting, RecordAndAnswer
<1>5. ASSUME NEW t \in Threads, Step(t)
      PROVE  SeenAccountExists'
  <2>1. CASE RejectMismatch(t)
    BY <1>2, <2>1 DEF RejectMismatch, RecordAndAnswer
  <2>2. CASE LookupTransaction(t)
    BY <1>3, <1>4, <2>2 DEF LookupTransaction, ledger
  <2>3. CASE LookupAccount(t)
    <3> DEFINE row == accounts[thread[t].path]
    <3>1. CASE row # NoAccount /\ row.currency # thread[t].command.currency
      BY <1>2, <2>3, <3>1 DEF LookupAccount, RecordAndAnswer
    <3>2. CASE ~(row # NoAccount /\ row.currency # thread[t].command.currency)
      <4>1. thread[t].path = thread[t].command.accountId /\ thread[t].path \in AccountIds
        BY <2>3 DEF LookupAccount, BusyThreads
      <4>2. thread' = [thread EXCEPT ![t].pc = "commit", ![t].seen = row]
        BY <2>3, <3>2 DEF LookupAccount
      <4>3. UNCHANGED accounts
        BY <2>3, <3>2 DEF LookupAccount, ledger
      <4>4. \A u \in Threads : u # t => thread'[u] = thread[u]
        BY <4>2 DEF TypeOK
      <4>5. /\ thread'[t].seen = row
            /\ thread'[t].path = thread[t].path
            /\ thread'[t].command = thread[t].command
        BY <4>2 DEF TypeOK, ThreadType
      <4> QED
        BY <3>2, <4>3, <4>4, <4>5 DEF SeenAccountExists
    <3> QED BY <3>1, <3>2
  <2>4. CASE Commits(t)
    <3>1. PICK answer : Answer(t, answer)
      BY <2>4 DEF Commits, CommitAnswering
    <3>2. \A a \in AccountIds : accounts[a] # NoAccount =>
              /\ accounts'[a] # NoAccount
              /\ accounts'[a].currency = accounts[a].currency
      BY <2>4, AccountsKept
    <3>3. \A u \in Threads : thread'[u].pc = "commit" => thread'[u] = thread[u]
      BY <3>1 DEF Answer, TypeOK, ThreadType
    <3> QED
      BY <3>2, <3>3 DEF SeenAccountExists, BusyThreads
  <2>5. CASE CommitRefused(t)
    BY <1>3, <2>5 DEF CommitRefused, ledger
  <2>6. CASE Resolve(t)
    BY <1>2, <1>4, <2>6 DEF Resolve, RecordAndAnswer
  <2>7. CASE DatabaseError(t)
    BY <1>2, <2>7 DEF DatabaseError, ledger
  <2> QED
    BY <1>5, <2>1, <2>2, <2>3, <2>4, <2>5, <2>6, <2>7 DEF Step, Work, Fail, Commits, Commit,
        CommitUnconfirmed
<1>6. ASSUME NEW t \in Threads, Reply(t)
      PROVE  SeenAccountExists'
  BY <1>6 DEF Reply, ledger, TypeOK, SeenAccountExists, IdleThread
<1>7. CASE Restart
  BY <1>7 DEF Restart, ledger, SeenAccountExists, IdleThread
<1>8. CASE UNCHANGED accountVars
  BY <1>8 DEF accountVars, SeenAccountExists
<1> QED
  BY <1>1, <1>5, <1>6, <1>7, <1>8 DEF AccountNext, Step

-----------------------------------------------------------------------------
(* A step either commits a transaction or leaves both ledger tables alone  *)
(* and audits nothing that speaks of them.                                 *)
LedgerActions == {"TRANSACTION_APPLIED", "BALANCE_UPDATED", "ACCOUNT_CREATED"}

LedgerUntouched ==
    /\ UNCHANGED <<accounts, transactions>>
    /\ audit \subseteq audit'
    /\ \A r \in audit' : r \in audit \/ r.action \notin LedgerActions

(* Every step either leaves the ledger alone but for the audit trail, or is *)
(* the commit of one thread.                                               *)
LEMMA StepKinds ==
    ASSUME [AccountNext]_accountVars
    PROVE  (\E t \in Threads : Commits(t)) \/ LedgerUntouched
<1>1. ASSUME NEW t, NEW action \in AuditActions \ LedgerActions, NEW answer,
             RecordAndAnswer(t, action, answer)
      PROVE  LedgerUntouched
  BY <1>1 DEF RecordAndAnswer, NoteFor, Note, LedgerUntouched
<1>2. ASSUME NEW t, AnswerExisting(t)
      PROVE  LedgerUntouched
  BY <1>1, <1>2 DEF AnswerExisting, AuditActions, LedgerActions
<1>3. ASSUME NEW t \in Threads, Step(t), ~Commits(t)
      PROVE  LedgerUntouched
  BY <1>1, <1>2, <1>3
  DEF Step, Work, Fail, Commits, Commit, CommitUnconfirmed, RejectMismatch,
      LookupTransaction, LookupAccount, CommitRefused, Resolve, DatabaseError,
      ledger, LedgerUntouched, AuditActions, LedgerActions
<1> QED
  BY <1>3 DEF AccountNext, Step, Receive, Reply, Restart, ledger, accountVars, LedgerUntouched

(* What a commit does to the tables.                                       *)
LEMMA CommitFacts ==
    ASSUME TypeOK, BusyThreads, SeenAccountExists, NEW t \in Threads, Commits(t)
    PROVE  LET c == thread[t].command IN
           /\ c \in Commands
           /\ thread[t].path = c.accountId
           /\ transactions[c.eventId] = NoTransaction
           /\ transactions' = [transactions EXCEPT ![c.eventId] = TransactionRow(c)]
           /\ TransactionRow(c) # NoTransaction
           /\ accounts'[c.accountId] # NoAccount
           /\ accounts'[c.accountId].currency = c.currency
           /\ accounts'[c.accountId].balance = NewBalance(t)
           /\ \A a \in AccountIds : a # c.accountId => accounts'[a] = accounts[a]
           /\ audit' = audit \cup StagedAudit(t)
<1> DEFINE c == thread[t].command
<1>1. c \in Commands /\ thread[t].path = c.accountId /\ c.accountId \in AccountIds
  BY CommandFacts DEF Commits, CommitAnswering, BusyThreads
<1>2. transactions[c.eventId] = NoTransaction
  BY DEF Commits, CommitAnswering, DuplicateKey
<1>3. transactions' = [transactions EXCEPT ![c.eventId] = TransactionRow(c)]
      /\ audit' = audit \cup StagedAudit(t)
  BY DEF Commits, CommitAnswering
<1>4. TransactionRow(c) # NoTransaction
  BY <1>1, CommandFacts, NullsAssumption
<1>5. \A a \in AccountIds : a # c.accountId => accounts'[a] = accounts[a]
  BY <1>1 DEF Commits, CommitAnswering, TypeOK
<1>6. PICK row : /\ accounts'[c.accountId] = row
                 /\ row = [currency |-> IF thread[t].seen = NoAccount THEN c.currency
                                        ELSE accounts[c.accountId].currency,
                           balance |-> NewBalance(t)]
  BY <1>1 DEF Commits, CommitAnswering, TypeOK
<1>7. row.currency = c.currency /\ row.balance = NewBalance(t)
  BY <1>1, <1>6 DEF Commits, CommitAnswering, SeenAccountExists
<1>8. NewBalance(t) \in Int
  BY <1>1, CommandFacts DEF NewBalance, PreviousBalance, TypeOK, ThreadType, AccountRowType
<1>9. row # NoAccount
  BY <1>1, <1>6, <1>7, <1>8, CommandFacts, NullsAssumption DEF AccountRowType
<1> QED
  BY <1>1, <1>2, <1>3, <1>4, <1>5, <1>6, <1>7, <1>9

-----------------------------------------------------------------------------
(* Currencies: the new transaction has the currency of its account, and no *)
(* account with transactions changes.                                      *)
LEMMA CurrencyStep ==
    ASSUME TypeOK, BusyThreads, SeenAccountExists, CurrencyConsistent,
           [AccountNext]_accountVars
    PROVE  CurrencyConsistent'
<1>1. CASE LedgerUntouched
  BY <1>1 DEF LedgerUntouched, CurrencyConsistent, Recorded
<1>2. ASSUME NEW t \in Threads, Commits(t)
      PROVE  CurrencyConsistent'
  <2> DEFINE c == thread[t].command
  <2> SUFFICES ASSUME NEW e \in EventIds, Recorded(e)'
               PROVE  /\ accounts'[transactions'[e].accountId] # NoAccount
                      /\ accounts'[transactions'[e].accountId].currency
                             = transactions'[e].currency
    BY DEF CurrencyConsistent
  <2>1. CASE e = c.eventId
    <3>1. transactions'[e] = TransactionRow(c)
      BY <1>2, <2>1, CommitFacts DEF TypeOK
    <3> QED
      BY <1>2, <3>1, CommitFacts DEF TransactionRow
  <2>2. CASE e # c.eventId
    <3>1. transactions'[e] = transactions[e]
      BY <1>2, <2>2, CommitFacts DEF TypeOK
    <3>2. transactions[e].accountId \in AccountIds
      BY <3>1 DEF Recorded, TypeOK, TransactionRowType
    <3> QED
      BY <1>2, <3>1, <3>2, AccountsKept DEF CurrencyConsistent, Recorded
  <2> QED BY <2>1, <2>2
<1> QED
  BY <1>1, <1>2, StepKinds

(* Nothing recorded changes in any step.                                   *)
LEMMA RecordedKept ==
    ASSUME TypeOK, BusyThreads, SeenAccountExists, [AccountNext]_accountVars
    PROVE  \A e \in EventIds : Recorded(e) => transactions'[e] = transactions[e]
<1>1. CASE LedgerUntouched
  BY <1>1 DEF LedgerUntouched
<1>2. ASSUME NEW t \in Threads, Commits(t)
      PROVE  \A e \in EventIds : Recorded(e) => transactions'[e] = transactions[e]
  BY <1>2, CommitFacts DEF TypeOK, Recorded
<1> QED
  BY <1>1, <1>2, StepKinds

(* An audit record of an applied event comes with its transaction.         *)
LEMMA AuditStep ==
    ASSUME TypeOK, BusyThreads, SeenAccountExists, AuditMatchesLedger,
           [AccountNext]_accountVars
    PROVE  AuditMatchesLedger'
<1>1. CASE LedgerUntouched
  BY <1>1 DEF LedgerUntouched, LedgerActions, AuditMatchesLedger, Recorded
<1>2. ASSUME NEW t \in Threads, Commits(t)
      PROVE  AuditMatchesLedger'
  <2> DEFINE c == thread[t].command
  <2>1. /\ \E r \in StagedAudit(t) : r.action = "TRANSACTION_APPLIED" /\ r.eventId = c.eventId
        /\ \A r \in StagedAudit(t) : r.action = "TRANSACTION_APPLIED" => r.eventId = c.eventId
    <3>1. /\ NoteFor(t, "TRANSACTION_APPLIED") \in StagedAudit(t)
          /\ \A r \in StagedAudit(t) : r.eventId = c.eventId
      BY DEF StagedAudit, NoteFor, Note
    <3>2. /\ NoteFor(t, "TRANSACTION_APPLIED").action = "TRANSACTION_APPLIED"
          /\ NoteFor(t, "TRANSACTION_APPLIED").eventId = c.eventId
      BY DEF NoteFor, Note
    <3> QED BY <3>1, <3>2
  <2>2. audit' = audit \cup StagedAudit(t)
    BY <1>2, CommitFacts
  <2>3. \A e \in EventIds : Recorded(e)' <=> Recorded(e) \/ e = c.eventId
    BY <1>2, CommitFacts DEF Recorded, TypeOK
  <2> QED
    BY <2>1, <2>2, <2>3 DEF AuditMatchesLedger
<1> QED
  BY <1>1, <1>2, StepKinds

(* Who answers success: a commit, or a look at a recorded transaction.     *)
LEMMA AnswersGiven ==
    ASSUME TypeOK, BusyThreads, [AccountNext]_accountVars, NEW u \in Threads,
           thread'[u] # thread[u], thread'[u].answer \in {"APPLIED", "REPLAYED"}
    PROVE  \/ Commits(u)
           \/ /\ AnswerExisting(u)
              /\ thread[u].pc \in {"lookup", "resolve"}
              /\ Recorded(thread[u].command.eventId)
<1>1. ASSUME NEW t \in Threads, NEW answer, Answer(t, answer)
      PROVE  t = u /\ answer \in {"APPLIED", "REPLAYED"}
  BY <1>1 DEF Answer, TypeOK, ThreadType
<1>2. ASSUME NEW t \in Threads, NEW pc, Move(t, pc), thread[t].pc # "done"
      PROVE  FALSE
  BY <1>2 DEF Move, TypeOK, BusyThreads, ThreadType
<1>3. ASSUME NEW t \in Threads, Step(t)
      PROVE  \/ Commits(u)
             \/ /\ AnswerExisting(u)
                /\ thread[u].pc \in {"lookup", "resolve"}
                /\ Recorded(thread[u].command.eventId)
  <2>1. CASE RejectMismatch(t)
    BY <1>1, <2>1 DEF RejectMismatch, RecordAndAnswer
  <2>2. CASE LookupTransaction(t)
    <3>1. AnswerExisting(t) /\ Recorded(thread[t].command.eventId) /\ thread[t].pc = "lookup"
      BY <1>2, <2>2 DEF LookupTransaction, Recorded
    <3> QED
      BY <1>1, <3>1 DEF AnswerExisting, RecordAndAnswer
  <2>3. CASE LookupAccount(t)
    <3>1. ASSUME NEW row, thread' = [thread EXCEPT ![t].pc = "commit", ![t].seen = row]
          PROVE  FALSE
      BY <2>3, <3>1 DEF LookupAccount, TypeOK, BusyThreads, ThreadType
    <3> QED
      BY <1>1, <2>3, <3>1 DEF LookupAccount, RecordAndAnswer
  <2>4. CASE Commits(t)
    BY <1>1, <2>4 DEF Commits, CommitAnswering
  <2>5. CASE CommitRefused(t)
    BY <1>2, <2>5 DEF CommitRefused
  <2>6. CASE Resolve(t)
    <3>1. AnswerExisting(t) /\ Recorded(thread[t].command.eventId) /\ thread[t].pc = "resolve"
      BY <1>1, <2>6 DEF Resolve, RecordAndAnswer, Recorded
    <3> QED
      BY <1>1, <3>1 DEF AnswerExisting, RecordAndAnswer
  <2>7. CASE DatabaseError(t)
    BY <1>1, <2>7 DEF DatabaseError
  <2> QED
    BY <1>3, <2>1, <2>2, <2>3, <2>4, <2>5, <2>6, <2>7 DEF Step, Work, Fail, Commits, Commit,
        CommitUnconfirmed
<1>4. ASSUME NEW t \in Threads, NEW path, NEW c, Receive(t, path, c)
      PROVE  FALSE
  BY <1>4 DEF Receive, IdleThread, TypeOK, ThreadType
<1>5. ASSUME NEW t \in Threads, Reply(t)
      PROVE  FALSE
  BY <1>5 DEF Reply, IdleThread, TypeOK
<1>6. ~Restart /\ ~UNCHANGED accountVars
  BY DEF Restart, accountVars, IdleThread
<1> QED
  BY <1>3, <1>4, <1>5, <1>6 DEF AccountNext, Step

(* A caller told 201 or 200 has its transaction in the ledger: a replay is *)
(* answered from the row, a 201 from the commit that writes it.            *)
LEMMA SuccessStep ==
    ASSUME TypeOK, BusyThreads, SeenAccountExists, SuccessMeansRecorded,
           [AccountNext]_accountVars
    PROVE  SuccessMeansRecorded'
<1> DEFINE Holds(c, ts) == /\ ts[c.eventId] # NoTransaction
                           /\ \/ SameTransaction(ts[c.eventId], c)
                              \/ ts[c.eventId] = TransactionRow(c)
<1> SUFFICES ASSUME NEW u \in Threads, thread'[u].answer \in {"APPLIED", "REPLAYED"}
             PROVE  Holds(thread'[u].command, transactions')
  BY DEF SuccessMeansRecorded, Recorded
<1>1. CASE thread'[u] = thread[u]
  <2>1. Holds(thread[u].command, transactions) /\ thread[u].command.eventId \in EventIds
    BY <1>1, CommandFacts DEF SuccessMeansRecorded, Recorded, BusyThreads
  <2> QED
    BY <1>1, <2>1, RecordedKept DEF Recorded
<1>2. CASE thread'[u] # thread[u]
  <2>1. Commits(u) \/ (AnswerExisting(u) /\ Recorded(thread[u].command.eventId))
    BY <1>2, AnswersGiven
  <2>2. thread'[u].command = thread[u].command
    BY <2>1 DEF Commits, CommitAnswering, AnswerExisting, RecordAndAnswer, Answer, TypeOK, ThreadType
  <2>3. CASE Commits(u)
    <3>1. transactions'[thread[u].command.eventId] = TransactionRow(thread[u].command)
      BY <2>3, CommitFacts, CommandFacts DEF TypeOK
    <3> QED
      BY <2>2, <2>3, <3>1, CommitFacts
  <2>4. CASE AnswerExisting(u) /\ Recorded(thread[u].command.eventId)
    <3>1. UNCHANGED transactions
      BY <2>4 DEF AnswerExisting, RecordAndAnswer
    <3>2. SameTransaction(transactions[thread[u].command.eventId], thread[u].command)
      BY <2>4 DEF AnswerExisting, RecordAndAnswer, Answer, TypeOK, ThreadType
    <3> QED
      BY <2>2, <2>4, <3>1, <3>2 DEF Recorded
  <2> QED
    BY <2>1, <2>3, <2>4
<1> QED
  BY <1>1, <1>2

-----------------------------------------------------------------------------
(* The invariant is inductive.                                             *)
LEMMA InitIInv == AccountInit => IInv
<1> SUFFICES ASSUME AccountInit
             PROVE  IInv
  OBVIOUS
<1>1. TypeOK
  BY DEF AccountInit, TypeOK, IdleThread, ThreadType
<1>2. \A t \in Threads : thread[t] = IdleThread
  BY DEF AccountInit
<1>3. BusyThreads /\ SeenAccountExists /\ SuccessMeansRecorded
  BY <1>2 DEF BusyThreads, SeenAccountExists, SuccessMeansRecorded, IdleThread
<1>4. CurrencyConsistent /\ AuditMatchesLedger
  BY DEF AccountInit, CurrencyConsistent, AuditMatchesLedger, Recorded
<1> QED
  BY <1>1, <1>3, <1>4 DEF IInv

(* Every step keeps it, from the lemmas on each part.                      *)
LEMMA StepIInv == IInv /\ [AccountNext]_accountVars => IInv'
  BY TypeStep, SeenStep, CurrencyStep, SuccessStep, AuditStep DEF IInv

(* The inductive invariant holds in every reachable state.                 *)
THEOREM Invariance == AccountSpec => []IInv
  BY InitIInv, StepIInv, PTL DEF AccountSpec

(* The tables and the threads keep their shape.                            *)
THEOREM TypeCorrect == AccountSpec => []TypeOK
<1>1. IInv => TypeOK
  BY DEF IInv
<1> QED
  BY Invariance, <1>1, PTL

(* Every transaction is in the currency of its account, however many       *)
(* threads race to open the account.                                       *)
THEOREM CurrencySafe == AccountSpec => []CurrencyConsistent
<1>1. IInv => CurrencyConsistent
  BY DEF IInv
<1> QED
  BY Invariance, <1>1, PTL

(* A success answer is backed by a row of the ledger.                      *)
THEOREM SuccessSafe == AccountSpec => []SuccessMeansRecorded
<1>1. IInv => SuccessMeansRecorded
  BY DEF IInv
<1> QED
  BY Invariance, <1>1, PTL

(* The audit trail tells which events are in the ledger.                   *)
THEOREM AuditSafe == AccountSpec => []AuditMatchesLedger
<1>1. IInv => AuditMatchesLedger
  BY DEF IInv
<1> QED
  BY Invariance, <1>1, PTL

(* The ledger only grows: no retry, race, error or restart alters or loses *)
(* a recorded transaction, an account or its currency.                     *)
THEOREM GrowthSafe == AccountSpec => LedgerOnlyGrows
<1>1. ASSUME IInv, [AccountNext]_accountVars
      PROVE  [/\ \A e \in EventIds : Recorded(e) => transactions'[e] = transactions[e]
              /\ \A a \in AccountIds :
                     accounts[a] # NoAccount =>
                         /\ accounts'[a] # NoAccount
                         /\ accounts'[a].currency = accounts[a].currency
              /\ audit \subseteq audit']_accountVars
  <2>1. TypeOK /\ BusyThreads /\ SeenAccountExists
    BY <1>1 DEF IInv
  <2>2. CASE LedgerUntouched
    BY <2>2 DEF LedgerUntouched
  <2>3. ASSUME NEW t \in Threads, Commits(t)
        PROVE  /\ \A a \in AccountIds :
                     accounts[a] # NoAccount =>
                         /\ accounts'[a] # NoAccount
                         /\ accounts'[a].currency = accounts[a].currency
               /\ audit \subseteq audit'
    BY <2>1, <2>3, AccountsKept, CommitFacts
  <2> QED
    BY <1>1, <2>1, <2>2, <2>3, RecordedKept, StepKinds
<1> QED
  BY Invariance, <1>1, PTL DEF AccountSpec, LedgerOnlyGrows

(* Of all the requests for one event, the one that records it is the one   *)
(* that is answered 201.                                                   *)
THEOREM CreationSafe == AccountSpec => CreatedByOneRequest
<1>1. ASSUME IInv, [AccountNext]_accountVars
      PROVE  [\A t \in Threads :
                 thread[t].answer # "APPLIED" /\ thread'[t].answer = "APPLIED" =>
                     /\ ~Recorded(thread[t].command.eventId)
                     /\ Recorded(thread[t].command.eventId)']_accountVars
  <2>1. TypeOK /\ BusyThreads /\ SeenAccountExists
    BY <1>1 DEF IInv
  <2> SUFFICES ASSUME NEW t \in Threads,
                      thread[t].answer # "APPLIED", thread'[t].answer = "APPLIED"
               PROVE  /\ ~Recorded(thread[t].command.eventId)
                      /\ Recorded(thread[t].command.eventId)'
    OBVIOUS
  <2>2. Commits(t) \/ AnswerExisting(t)
    BY <1>1, <2>1, AnswersGiven
  <2>3. ~AnswerExisting(t)
    BY <2>1 DEF AnswerExisting, RecordAndAnswer, Answer, TypeOK, ThreadType
  <2>4. thread'[t].command = thread[t].command
    BY <2>1, <2>2, <2>3 DEF Commits, CommitAnswering, Answer, TypeOK, ThreadType
  <2> QED
    BY <2>1, <2>2, <2>3, <2>4, CommitFacts, CommandFacts DEF Recorded, TypeOK
<1> QED
  BY Invariance, <1>1, PTL DEF AccountSpec, CreatedByOneRequest

-----------------------------------------------------------------------------
(***************************************************************************)
(* The Account Service implements Ledger: under the mapping Promise, a     *)
(* commit or an answer is the one step of its request and every other step *)
(* of the handler is invisible.                                            *)
(***************************************************************************)

OpenPhases == {"lookup", "account", "commit", "resolve"}

(* The requests of the abstract specification, as a function of a state.   *)
Requested == [t \in Threads |-> RequestOf(t)]

(* A step of one thread leaves the requests of the others as they are.     *)
LEMMA OthersKept ==
    ASSUME TypeOK, NEW t \in Threads, NEW th,
           thread' = [thread EXCEPT ![t] = th]
    PROVE  Requested' = [Requested EXCEPT ![t] = RequestOf(t)']
<1>1. \A u \in Threads : u # t => thread'[u] = thread[u]
  BY DEF TypeOK
<1>2. \A u \in Threads : u # t => RequestOf(u)' = RequestOf(u)
  BY <1>1 DEF RequestOf, Phase
<1> QED
  BY <1>2 DEF Requested

(* An answer of the handler is an answer to the open request.              *)
LEMMA AnswerTells ==
    ASSUME TypeOK, NEW t \in Threads, thread[t].pc \in OpenPhases,
           NEW answer, Answer(t, answer)
    PROVE  /\ Requested[t].phase = "open"
           /\ Requested[t].path = thread[t].path
           /\ Requested[t].command = thread[t].command
           /\ Requested' = [Requested EXCEPT ![t] =
                   [phase |-> "answered", path |-> thread[t].path,
                    command |-> thread[t].command, answer |-> answer]]
<1>1. thread' = [thread EXCEPT ![t] = [thread[t] EXCEPT !.pc = "done", !.answer = answer]]
  BY DEF Answer, TypeOK
<1>2. /\ thread'[t].pc = "done" /\ thread'[t].answer = answer
      /\ thread'[t].path = thread[t].path /\ thread'[t].command = thread[t].command
  BY <1>1 DEF TypeOK, ThreadType
<1>3. RequestOf(t)' = [phase |-> "answered", path |-> thread[t].path,
                       command |-> thread[t].command, answer |-> answer]
  BY <1>2 DEF RequestOf, Phase
<1>4. Requested' = [Requested EXCEPT ![t] = RequestOf(t)']
  BY <1>1, OthersKept
<1>5. Requested[t] = [phase |-> "open", path |-> thread[t].path,
                      command |-> thread[t].command, answer |-> thread[t].answer]
  BY DEF Requested, RequestOf, Phase, OpenPhases
<1> QED
  BY <1>3, <1>4, <1>5

(* A step that moves an open request on within the handler is invisible.   *)
LEMMA MoveIsInvisible ==
    ASSUME TypeOK, NEW t \in Threads, thread[t].pc \in OpenPhases,
           NEW pc \in OpenPhases, Move(t, pc)
    PROVE  Requested' = Requested
<1>1. thread' = [thread EXCEPT ![t] = [thread[t] EXCEPT !.pc = pc]]
  BY DEF Move, TypeOK
<1>2. /\ thread'[t].pc = pc /\ thread'[t].answer = thread[t].answer
      /\ thread'[t].path = thread[t].path /\ thread'[t].command = thread[t].command
  BY <1>1 DEF TypeOK, ThreadType
<1>3. RequestOf(t)' = RequestOf(t)
  BY <1>2 DEF RequestOf, Phase, OpenPhases
<1>4. Requested' = [Requested EXCEPT ![t] = RequestOf(t)']
  BY <1>1, OthersKept
<1> QED
  BY <1>3, <1>4 DEF Requested

(* So is the read of the account.                                          *)
LEMMA LookIsInvisible ==
    ASSUME TypeOK, NEW t \in Threads, thread[t].pc \in OpenPhases, NEW seen,
           thread' = [thread EXCEPT ![t].pc = "commit", ![t].seen = seen]
    PROVE  Requested' = Requested
<1>1. thread' = [thread EXCEPT ![t] = [thread[t] EXCEPT !.pc = "commit", !.seen = seen]]
  BY DEF TypeOK
<1>2. /\ thread'[t].pc = "commit" /\ thread'[t].answer = thread[t].answer
      /\ thread'[t].path = thread[t].path /\ thread'[t].command = thread[t].command
  BY <1>1 DEF TypeOK, ThreadType
<1>3. RequestOf(t)' = RequestOf(t)
  BY <1>2 DEF RequestOf, Phase, OpenPhases
<1>4. Requested' = [Requested EXCEPT ![t] = RequestOf(t)']
  BY <1>1, OthersKept
<1> QED
  BY <1>3, <1>4 DEF Requested

(* An answer without a commit is a refusal, or recognizes a replay.        *)
LEMMA AnswerIsAStep ==
    ASSUME TypeOK, NEW t \in Threads, thread[t].pc \in OpenPhases,
           NEW answer, Answer(t, answer), UNCHANGED transactions
    PROVE  /\ answer \in Promise!Refusals => Promise!Refuse(t)
           /\ /\ answer = "REPLAYED"
              /\ transactions[thread[t].command.eventId] # NoTransaction
              /\ SameTransaction(transactions[thread[t].command.eventId], thread[t].command)
              => Promise!Recognize(t)
<1>1. /\ Requested[t].phase = "open"
      /\ Requested[t].path = thread[t].path
      /\ Requested[t].command = thread[t].command
      /\ Requested' = [Requested EXCEPT ![t] =
              [phase |-> "answered", path |-> thread[t].path,
               command |-> thread[t].command, answer |-> answer]]
  BY AnswerTells
<1>2. Promise!Tell(t, answer)
  BY <1>1 DEF Promise!Tell, Requested
<1>3. answer \in Promise!Refusals => Promise!Refuse(t)
  BY <1>1, <1>2 DEF Promise!Refuse, Requested
<1>4. ASSUME answer = "REPLAYED",
             transactions[thread[t].command.eventId] # NoTransaction,
             SameTransaction(transactions[thread[t].command.eventId], thread[t].command)
      PROVE  Promise!Recognize(t)
  <2>1. Promise!SameTransaction(transactions[thread[t].command.eventId], thread[t].command)
    BY <1>4 DEF SameTransaction, UtcNaive, Promise!SameTransaction, Promise!UtcNaive
  <2> QED
    BY <1>1, <1>2, <1>4, <2>1 DEF Promise!Recognize, Requested
<1> QED
  BY <1>3, <1>4

(* The currency promise: whatever is recorded on the account a thread is   *)
(* about to commit to is in the currency of its command.                   *)
LEMMA CommitsInCurrency ==
    ASSUME IInv, NEW t \in Threads, Commits(t)
    PROVE  \A e \in EventIds :
               /\ Recorded(e)
               /\ transactions[e].accountId = thread[t].command.accountId
               => transactions[e].currency = thread[t].command.currency
<1>1. /\ thread[t].path = thread[t].command.accountId
      /\ thread[t].seen = NoAccount => accounts[thread[t].path] = NoAccount
  BY DEF IInv, BusyThreads, Commits, CommitAnswering, DuplicateKey
<1>2. thread[t].seen # NoAccount =>
          accounts[thread[t].path].currency = thread[t].command.currency
  BY DEF IInv, SeenAccountExists, Commits, CommitAnswering
<1> QED
  BY <1>1, <1>2 DEF IInv, CurrencyConsistent

(* A commit is the one step that records an event.                         *)
LEMMA CommitIsRecord ==
    ASSUME IInv, NEW t \in Threads, Commits(t)
    PROVE  Promise!Record(t)
<1> DEFINE c == thread[t].command
<1>1. TypeOK /\ BusyThreads /\ SeenAccountExists /\ thread[t].pc \in OpenPhases
  BY DEF IInv, Commits, CommitAnswering, OpenPhases
<1>2. /\ transactions[c.eventId] = NoTransaction
      /\ transactions' = [transactions EXCEPT ![c.eventId] = TransactionRow(c)]
      /\ thread[t].path = c.accountId
  BY <1>1, CommitFacts
<1>3. PICK answer \in {"APPLIED", "DATABASE_UNAVAILABLE"} : Answer(t, answer)
  BY DEF Commits, CommitAnswering
<1>4. /\ Requested[t].phase = "open"
      /\ Requested[t].path = c.accountId
      /\ Requested[t].command = c
      /\ Requested' = [Requested EXCEPT ![t] =
              [phase |-> "answered", path |-> thread[t].path,
               command |-> thread[t].command, answer |-> answer]]
  BY <1>1, <1>2, <1>3, AnswerTells
<1>5. Promise!InCurrency(c.accountId, c.currency)
  BY CommitsInCurrency DEF Promise!InCurrency, Recorded
<1>6. Promise!Tell(t, answer)
  BY <1>2, <1>4 DEF Promise!Tell, Requested
<1>7. Promise!Tell(t, "APPLIED") \/ Promise!Tell(t, "DATABASE_UNAVAILABLE")
  BY <1>3, <1>6
<1> QED
  BY <1>2, <1>4, <1>5, <1>7
  DEF Promise!Record, Requested, TransactionRow, Promise!TransactionRow

-----------------------------------------------------------------------------
(* What the handler does for one request between taking it and answering   *)
(* it is one abstract step, or none.                                       *)
LEMMA HandlerStep ==
    ASSUME IInv, NEW t \in Threads, Step(t)
    PROVE  \/ Promise!Record(t) \/ Promise!Recognize(t) \/ Promise!Refuse(t)
           \/ Requested' = Requested /\ UNCHANGED transactions
<1>1. TypeOK
  BY DEF IInv
<1>2. ASSUME NEW action, NEW answer \in Promise!Refusals,
             thread[t].pc \in OpenPhases, RecordAndAnswer(t, action, answer)
      PROVE  Promise!Refuse(t)
  BY <1>1, <1>2, AnswerIsAStep DEF RecordAndAnswer
<1>3. ASSUME thread[t].pc \in OpenPhases, AnswerExisting(t),
             transactions[thread[t].command.eventId] # NoTransaction
      PROVE  Promise!Recognize(t) \/ Promise!Refuse(t)
  <2>1. CASE SameTransaction(transactions[thread[t].command.eventId], thread[t].command)
    BY <1>1, <1>3, <2>1, AnswerIsAStep DEF AnswerExisting, RecordAndAnswer
  <2>2. CASE ~SameTransaction(transactions[thread[t].command.eventId], thread[t].command)
    BY <1>2, <1>3, <2>2 DEF AnswerExisting, Promise!Refusals
  <2> QED BY <2>1, <2>2
<1>4. CASE RejectMismatch(t)
  BY <1>2, <1>4 DEF RejectMismatch, OpenPhases, Promise!Refusals
<1>5. CASE LookupTransaction(t)
  <2>1. thread[t].pc \in OpenPhases
    BY <1>5 DEF LookupTransaction, OpenPhases
  <2>2. CASE transactions[thread[t].command.eventId] = NoTransaction
    <3>1. Move(t, "account") /\ "account" \in OpenPhases /\ UNCHANGED transactions
      BY <1>5, <2>2 DEF LookupTransaction, ledger, OpenPhases
    <3> QED
      BY <1>1, <2>1, <3>1, MoveIsInvisible
  <2>3. CASE transactions[thread[t].command.eventId] # NoTransaction
    BY <1>3, <1>5, <2>1, <2>3 DEF LookupTransaction
  <2> QED BY <2>2, <2>3
<1>6. CASE LookupAccount(t)
  <2> DEFINE row == accounts[thread[t].path]
  <2>1. thread[t].pc \in OpenPhases
    BY <1>6 DEF LookupAccount, OpenPhases
  <2>2. CASE row # NoAccount /\ row.currency # thread[t].command.currency
    BY <1>2, <1>6, <2>1, <2>2 DEF LookupAccount, Promise!Refusals
  <2>3. CASE ~(row # NoAccount /\ row.currency # thread[t].command.currency)
    <3>1. /\ thread' = [thread EXCEPT ![t].pc = "commit", ![t].seen = row]
          /\ UNCHANGED transactions
      BY <1>6, <2>3 DEF LookupAccount, ledger
    <3> QED
      BY <1>1, <2>1, <3>1, LookIsInvisible
  <2> QED BY <2>2, <2>3
<1>7. CASE Commits(t)
  BY <1>7, CommitIsRecord
<1>8. CASE CommitRefused(t)
  <2>1. /\ thread[t].pc \in OpenPhases /\ "resolve" \in OpenPhases
        /\ Move(t, "resolve") /\ UNCHANGED transactions
    BY <1>8 DEF CommitRefused, OpenPhases, ledger
  <2> QED
    BY <1>1, <2>1, MoveIsInvisible
<1>9. CASE Resolve(t)
  <2>1. thread[t].pc \in OpenPhases
    BY <1>9 DEF Resolve, OpenPhases
  <2>2. CASE transactions[thread[t].command.eventId] = NoTransaction
    BY <1>2, <1>9, <2>1, <2>2 DEF Resolve, Promise!Refusals
  <2>3. CASE transactions[thread[t].command.eventId] # NoTransaction
    BY <1>3, <1>9, <2>1, <2>3 DEF Resolve
  <2> QED BY <2>2, <2>3
<1>10. CASE DatabaseError(t)
  BY <1>1, <1>10, AnswerIsAStep DEF DatabaseError, OpenPhases, ledger, Promise!Refusals
<1> QED
  BY <1>4, <1>5, <1>6, <1>7, <1>8, <1>9, <1>10
  DEF Step, Work, Fail, Commit, CommitUnconfirmed, Commits

(* Every step of the Account Service is a step of Ledger or a stutter.     *)
LEMMA ImplementsStep ==
    ASSUME IInv, [AccountNext]_accountVars
    PROVE  [Promise!LedgerNext]_(Promise!ledgerVars)
<1>1. TypeOK
  BY DEF IInv
<1>2. ASSUME NEW t \in Threads, NEW path \in AccountIds, NEW c \in Commands,
             Receive(t, path, c)
      PROVE  Promise!Ask(t, path, c)
  <2>1. /\ thread'[t].pc = "lookup" /\ thread'[t].answer = "none"
        /\ thread'[t].path = path /\ thread'[t].command = c
    BY <1>1, <1>2 DEF Receive, IdleThread, TypeOK
  <2>2. RequestOf(t)' = [phase |-> "open", path |-> path, command |-> c, answer |-> "none"]
    BY <2>1 DEF RequestOf, Phase
  <2>3. Requested' = [Requested EXCEPT ![t] = RequestOf(t)']
    BY <1>1, <1>2, OthersKept DEF Receive
  <2>4. Requested[t].phase = "idle"
    BY <1>2 DEF Requested, RequestOf, Phase, Receive
  <2> QED
    BY <1>2, <2>2, <2>3, <2>4 DEF Promise!Ask, Requested, Receive, ledger
<1>3. ASSUME NEW t \in Threads, Reply(t)
      PROVE  Promise!Hear(t)
  <2>1. thread' = [thread EXCEPT ![t] = IdleThread]
    BY <1>3 DEF Reply
  <2>2. RequestOf(t)' = Promise!NoRequest
    BY <1>1, <2>1 DEF RequestOf, Phase, TypeOK, IdleThread, Promise!NoRequest
  <2>3. Requested' = [Requested EXCEPT ![t] = RequestOf(t)']
    BY <1>1, <2>1, OthersKept
  <2>4. Requested[t].phase = "answered"
    BY <1>3 DEF Requested, RequestOf, Phase, Reply
  <2> QED
    BY <1>3, <2>2, <2>3, <2>4 DEF Promise!Hear, Requested, Reply, ledger
<1>4. CASE Restart
  <2>1. \A t \in Threads : RequestOf(t)' = Promise!NoRequest
    BY <1>4 DEF Restart, RequestOf, Phase, IdleThread, Promise!NoRequest
  <2>2. Promise!Crash
    BY <1>4, <2>1 DEF Promise!Crash, Restart, ledger
  <2> QED
    BY <2>2 DEF Promise!LedgerNext
<1>5. ASSUME NEW t \in Threads, Step(t)
      PROVE  [Promise!LedgerNext]_(Promise!ledgerVars)
  BY <1>5, HandlerStep DEF Promise!LedgerNext, Promise!ledgerVars, Requested
<1>6. CASE UNCHANGED accountVars
  BY <1>6 DEF accountVars, Promise!ledgerVars, RequestOf, Phase
<1> QED
  BY <1>2, <1>3, <1>4, <1>5, <1>6 DEF AccountNext, Step, Promise!LedgerNext

(* The tables and threads implement the atomic ledger, whatever the number *)
(* of threads, accounts and events, through races, errors and restarts.    *)
THEOREM LedgerImplemented == AccountSpec => ImplementsLedger
<1>1. AccountInit => Promise!LedgerInit
  BY DEF AccountInit, Promise!LedgerInit, RequestOf, Phase, IdleThread, Promise!NoRequest
<1> QED
  BY Invariance, ImplementsStep, <1>1, PTL
  DEF AccountSpec, ImplementsLedger, Promise!LedgerSpec
=============================================================================
