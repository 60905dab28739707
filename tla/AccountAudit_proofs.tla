------------------------ MODULE AccountAudit_proofs ------------------------
(***************************************************************************)
(* What the audit trail of the Account Service says of its accounts: each  *)
(* was opened by one event, and the recorded balance changes of an account *)
(* connect.  From the trail follow the two things the ledger promises but  *)
(* for races, with the races named: a balance grows by the deltas of the   *)
(* recorded transactions as long as no two audited changes start from one  *)
(* balance, and a refused event differs from the recorded one unless its   *)
(* request lost the race to open its account.  (Two changes may start from *)
(* one balance without any race, when credits and debits bring it back to  *)
(* an earlier value: from there on the first says nothing.)  A balance is  *)
(* the sum of the amounts recorded on its account when requests come one   *)
(* at a time or each event has an account of its own.  All of it for every *)
(* set of threads, accounts, events and commands.                          *)
(***************************************************************************)
EXTENDS AccountService_proofs, LedgerBalances, Arithmetic_proofs, FiniteSetTheorems

Openings(a) == {r \in audit : r.action = "ACCOUNT_CREATED" /\ r.accountId = a}

Changes(a) == {r \in audit : r.action = "BALANCE_UPDATED" /\ r.accountId = a}

Ends(a) == {r.details.newBalance : r \in Changes(a)}

(* One opening of each account there is, none of the others.               *)
OpenedByOne ==
    \A a \in AccountIds :
        IF accounts[a] = NoAccount THEN Openings(a) = {}
        ELSE \E r \in audit : Openings(a) = {r}

(* A balance a thread is about to build on is one the trail knows.         *)
SeenInTrail ==
    \A t \in Threads :
        thread[t].pc = "commit" /\ thread[t].seen # NoAccount =>
            thread[t].seen.balance \in Ends(thread[t].path)

TrailInv == IInv /\ OpenedByOne /\ SeenInTrail /\ BalanceTrailConnected

(* Two audited changes of an account start from the same balance.          *)
Overlap(a) ==
    \E r1, r2 \in Changes(a) :
        r1 # r2 /\ r1.details.previousBalance = r2.details.previousBalance

(* The transaction of event e on account a was recorded for some request.  *)
RecordedFor(e, a) ==
    /\ Recorded(e)
    /\ \E c \in Commands :
           c.eventId = e /\ c.accountId = a /\ transactions[e] = TransactionRow(c)

(* The commit that audits a change of the ledger records its transaction.  *)
AuditedIsRecorded ==
    \A r \in audit : r.action \in LedgerActions => RecordedFor(r.eventId, r.accountId)

(* A balance a thread is about to build on is the current one, unless the  *)
(* trail already has a change that starts from it, or two that start from  *)
(* one balance.                                                            *)
SeenIsCurrent ==
    \A t \in Threads :
        thread[t].pc = "commit" /\ thread[t].seen # NoAccount =>
            \/ thread[t].seen.balance = accounts[thread[t].path].balance
            \/ \E r \in Changes(thread[t].path) :
                   r.details.previousBalance = thread[t].seen.balance
            \/ Overlap(thread[t].path)

(* A thread whose commit was refused lost a race for one of the two keys:  *)
(* its event is recorded, or there is an account where it had read none.   *)
RefusedForAKey ==
    \A t \in Threads :
        thread[t].pc = "resolve" =>
            \/ Recorded(thread[t].command.eventId)
            \/ thread[t].seen = NoAccount /\ accounts[thread[t].path] # NoAccount

(* The thread read that there is no account, its commit was refused, and   *)
(* the account it meant to open has been opened by another event, its own  *)
(* being recorded nowhere.                                                 *)
LostTheOpening(t) ==
    LET c == thread[t].command IN
    /\ thread[t].pc = "resolve"
    /\ thread[t].seen = NoAccount
    /\ ~Recorded(c.eventId)
    /\ \E r \in Openings(c.accountId) : r.eventId # c.eventId

(* EVENT_ID_CONFLICT is answered for a recorded transaction that differs   *)
(* from the request, or to a request that has just lost the race to open   *)
(* its account, and for no other reason.                                   *)
ConflictsHaveReasons ==
    [][\A t \in Threads :
          thread[t].answer # "EVENT_ID_CONFLICT" /\ thread'[t].answer = "EVENT_ID_CONFLICT" =>
              LET c == thread[t].command IN
              \/ Recorded(c.eventId) /\ ~SameTransaction(transactions[c.eventId], c)
              \/ LostTheOpening(t)]_accountVars

(* What remains of that in later states: the recorded transaction differs, *)
(* or the account is one that another event opened.                        *)
ConflictExplained ==
    \A t \in Threads :
        thread[t].answer = "EVENT_ID_CONFLICT" =>
            LET c == thread[t].command IN
            \/ Recorded(c.eventId) /\ ~SameTransaction(transactions[c.eventId], c)
            \/ \E r \in Openings(c.accountId) : r.eventId # c.eventId

RaceInv ==
    TrailInv /\ AuditedIsRecorded /\ SeenIsCurrent /\ RefusedForAKey /\ ConflictExplained

(* The events a step records on an account.                                *)
Added(a) == {e \in EventIds : ~Recorded(e) /\ Recorded(e)' /\ transactions'[e].accountId = a}

BalanceStep(a) ==
    \/ Overlap(a)'
    \/ Added(a) = {} /\ Balance(a)' = Balance(a)
    \/ \E e \in EventIds :
           /\ Added(a) = {e}
           /\ Balance(a)' = Balance(a) + Delta(transactions'[e])

(* A step that records an event adds its delta to the balance of its       *)
(* account, and no other step moves a balance, as long as no two audited   *)
(* changes of the account start from the same balance.                     *)
BalanceFollowsLedger == [][\A a \in AccountIds : BalanceStep(a)]_accountVars

-----------------------------------------------------------------------------
(* The records a commit stages, by their action: one balance change, and   *)
(* an opening if the thread saw no account.                                *)
LEMMA StagedFacts ==
    ASSUME NEW t
    PROVE  LET change == Note("BALANCE_UPDATED", thread[t].command.eventId,
                              thread[t].path,
                              [previousBalance |-> PreviousBalance(t),
                               delta |-> Delta(thread[t].command),
                               newBalance |-> NewBalance(t)])
               opening == NoteFor(t, "ACCOUNT_CREATED")
           IN /\ {r \in StagedAudit(t) : r.action = "BALANCE_UPDATED"} = {change}
              /\ change.accountId = thread[t].path
              /\ change.eventId = thread[t].command.eventId
              /\ change.details.previousBalance = PreviousBalance(t)
              /\ change.details.newBalance = NewBalance(t)
              /\ {r \in StagedAudit(t) : r.action = "ACCOUNT_CREATED"} =
                     IF thread[t].seen = NoAccount THEN {opening} ELSE {}
              /\ opening.accountId = thread[t].path
  BY DEF StagedAudit, NoteFor, Note

(* A commit appends its balance change to the trail of its account, and    *)
(* its opening if there was no account.                                    *)
LEMMA CommitAudits ==
    ASSUME TypeOK, BusyThreads, SeenAccountExists, NEW t \in Threads, Commits(t),
           NEW path, path = thread[t].path
    PROVE  /\ path \in AccountIds
           /\ accounts[path] = NoAccount <=> thread[t].seen = NoAccount
           /\ accounts'[path] # NoAccount /\ accounts'[path].balance = NewBalance(t)
           /\ \A a \in AccountIds : a # path =>
                  /\ accounts'[a] = accounts[a]
                  /\ Openings(a)' = Openings(a) /\ Changes(a)' = Changes(a)
           /\ IF thread[t].seen = NoAccount
              THEN \E r : Openings(path)' = Openings(path) \cup {r}
              ELSE Openings(path)' = Openings(path)
           /\ \E r : /\ Changes(path)' = Changes(path) \cup {r}
                     /\ r.eventId = thread[t].command.eventId
                     /\ r.details.previousBalance = PreviousBalance(t)
                     /\ r.details.newBalance = NewBalance(t)
<1>1. /\ path \in AccountIds
      /\ accounts'[path] # NoAccount /\ accounts'[path].balance = NewBalance(t)
      /\ \A a \in AccountIds : a # path => accounts'[a] = accounts[a]
      /\ audit' = audit \cup StagedAudit(t)
  BY CommitFacts, CommandFacts
<1>2. accounts[path] = NoAccount <=> thread[t].seen = NoAccount
  BY DEF Commits, CommitAnswering, DuplicateKey, SeenAccountExists
<1>3. PICK change, opening :
          /\ change = Note("BALANCE_UPDATED", thread[t].command.eventId, thread[t].path,
                           [previousBalance |-> PreviousBalance(t),
                            delta |-> Delta(thread[t].command),
                            newBalance |-> NewBalance(t)])
          /\ opening = NoteFor(t, "ACCOUNT_CREATED")
  OBVIOUS
<1>4. /\ {r \in StagedAudit(t) : r.action = "BALANCE_UPDATED"} = {change}
      /\ change.accountId = path
      /\ change.eventId = thread[t].command.eventId
      /\ change.details.previousBalance = PreviousBalance(t)
      /\ change.details.newBalance = NewBalance(t)
      /\ {r \in StagedAudit(t) : r.action = "ACCOUNT_CREATED"} =
             IF thread[t].seen = NoAccount THEN {opening} ELSE {}
      /\ opening.accountId = path
  BY <1>3, StagedFacts
<1>5. ASSUME NEW a \in AccountIds
      PROVE  /\ Changes(a)' = IF a = path THEN Changes(a) \cup {change} ELSE Changes(a)
             /\ Openings(a)' = IF a = path /\ thread[t].seen = NoAccount
                               THEN Openings(a) \cup {opening} ELSE Openings(a)
  <2>1. \A r : r \in Changes(a)' <=> r \in Changes(a) \/ (r = change /\ a = path)
    BY <1>1, <1>4 DEF Changes
  <2>2. \A r : r \in Openings(a)' <=>
            r \in Openings(a) \/ (r = opening /\ a = path /\ thread[t].seen = NoAccount)
    BY <1>1, <1>4 DEF Openings
  <2> QED BY <2>1, <2>2
<1> QED
  BY <1>1, <1>2, <1>4, <1>5

(* Any other step leaves the openings and the changes alone.               *)
LEMMA UntouchedTrail ==
    ASSUME LedgerUntouched
    PROVE  UNCHANGED accounts /\ \A a : Openings(a)' = Openings(a) /\ Changes(a)' = Changes(a)
  BY DEF LedgerUntouched, LedgerActions, Openings, Changes

(* A thread about to commit was so before, or has just read the account.   *)
LEMMA SeenIsRead ==
    ASSUME TypeOK, [AccountNext]_accountVars, NEW t \in Threads, thread'[t].pc = "commit"
    PROVE  /\ thread'[t].path = thread[t].path
           /\ \/ thread[t].pc = "commit" /\ thread'[t].seen = thread[t].seen
              \/ thread'[t].seen = accounts[thread[t].path]
<1> DEFINE Kept == /\ thread'[t].path = thread[t].path
                   /\ \/ thread[t].pc = "commit" /\ thread'[t].seen = thread[t].seen
                      \/ thread'[t].seen = accounts[thread[t].path]
<1>1. ASSUME NEW u \in Threads, NEW answer, Answer(u, answer)
      PROVE  Kept
  BY <1>1 DEF Answer, TypeOK, ThreadType
<1>2. ASSUME NEW u \in Threads, NEW pc \in {"account", "resolve"}, Move(u, pc)
      PROVE  Kept
  BY <1>2 DEF Move, TypeOK, ThreadType
<1>3. ASSUME NEW u \in Threads, LookupAccount(u)
      PROVE  Kept
  <2>1. \/ \E answer : Answer(u, answer)
        \/ thread' = [thread EXCEPT ![u].pc = "commit", ![u].seen = accounts[thread[u].path]]
    BY <1>3 DEF LookupAccount, RecordAndAnswer
  <2>2. ASSUME thread' = [thread EXCEPT ![u].pc = "commit",
                                        ![u].seen = accounts[thread[u].path]]
        PROVE  Kept
    BY <2>2 DEF TypeOK, ThreadType
  <2> QED BY <1>1, <2>1, <2>2
<1>4. ASSUME NEW u \in Threads, thread' = [thread EXCEPT ![u] = IdleThread]
      PROVE  Kept
  BY <1>4 DEF IdleThread, TypeOK
<1>5. ASSUME NEW u \in Threads, NEW path, NEW c, Receive(u, path, c)
      PROVE  Kept
  BY <1>5 DEF Receive, IdleThread, TypeOK
<1>6. Restart \/ UNCHANGED accountVars => Kept
  BY DEF Restart, IdleThread, accountVars
<1> HIDE DEF Kept
<1>7. ASSUME NEW u \in Threads, Step(u)
      PROVE  Kept
  BY <1>1, <1>2, <1>3, <1>7
  DEF Step, Work, Fail, Commit, CommitUnconfirmed, CommitAnswering, RejectMismatch,
      LookupTransaction, CommitRefused, Resolve, DatabaseError, AnswerExisting,
      RecordAndAnswer
<1> QED
  BY <1>4, <1>5, <1>6, <1>7 DEF AccountNext, Step, Reply, Kept

-----------------------------------------------------------------------------
(* One opening per account, whoever wins the race.                         *)
LEMMA OpenedStep ==
    ASSUME IInv, OpenedByOne, [AccountNext]_accountVars
    PROVE  OpenedByOne'
<1>1. CASE LedgerUntouched
  <2>1. audit \subseteq audit' /\ accounts' = accounts /\ \A a : Openings(a)' = Openings(a)
    BY <1>1, UntouchedTrail DEF LedgerUntouched
  <2> QED BY <2>1 DEF OpenedByOne
<1>2. ASSUME NEW t \in Threads, Commits(t)
      PROVE  OpenedByOne'
  <2> SUFFICES ASSUME NEW path, path = thread[t].path
               PROVE  OpenedByOne'
    OBVIOUS
  <2>1. /\ path \in AccountIds
        /\ accounts[path] = NoAccount <=> thread[t].seen = NoAccount
        /\ accounts'[path] # NoAccount
        /\ \A a \in AccountIds : a # path =>
               accounts'[a] = accounts[a] /\ Openings(a)' = Openings(a)
        /\ IF thread[t].seen = NoAccount
           THEN \E r : Openings(path)' = Openings(path) \cup {r}
           ELSE Openings(path)' = Openings(path)
    <3>1. TypeOK /\ BusyThreads /\ SeenAccountExists
      BY DEF IInv
    <3>2. \A a \in AccountIds : a # path =>
              /\ accounts'[a] = accounts[a]
              /\ Openings(a)' = Openings(a) /\ Changes(a)' = Changes(a)
      BY <1>2, <3>1, CommitAudits
    <3>3. /\ path \in AccountIds
          /\ accounts[path] = NoAccount <=> thread[t].seen = NoAccount
          /\ accounts'[path] # NoAccount
      BY <1>2, <3>1, CommitAudits
    <3>4. IF thread[t].seen = NoAccount
          THEN \E r : Openings(path)' = Openings(path) \cup {r}
          ELSE Openings(path)' = Openings(path)
      BY <1>2, <3>1, CommitAudits
    <3> QED BY <3>2, <3>3, <3>4
  <2>2. \E r \in audit' : Openings(path)' = {r}
    BY <2>1 DEF OpenedByOne, Openings
  <2>3. audit \subseteq audit'
    BY <1>2, CommitFacts DEF IInv
  <2> QED
    BY <2>1, <2>2, <2>3 DEF OpenedByOne
<1> QED
  BY <1>1, <1>2, StepKinds

(* The trail connects: a commit continues it where the thread read it.     *)
LEMMA TrailStep ==
    ASSUME IInv, SeenInTrail, BalanceTrailConnected, [AccountNext]_accountVars
    PROVE  BalanceTrailConnected' /\ \A a \in AccountIds : Ends(a) \subseteq Ends(a)'
<1>0. \A a \in AccountIds :
          /\ \A r \in Changes(a) : r.details.previousBalance \in Ends(a) \cup {0}
          /\ accounts[a] # NoAccount => accounts[a].balance \in Ends(a)
  BY DEF BalanceTrailConnected, Changes, Ends
<1> DEFINE Connected(a) ==
        /\ \A r \in Changes(a) : r.details.previousBalance \in Ends(a) \cup {0}
        /\ accounts[a] # NoAccount => accounts[a].balance \in Ends(a)
<1>1. CASE LedgerUntouched
  <2>1. \A a \in AccountIds : Connected(a)' /\ Ends(a)' = Ends(a)
    BY <1>0, <1>1, UntouchedTrail DEF Ends
  <2> QED BY <2>1 DEF BalanceTrailConnected, Changes, Ends
<1>2. ASSUME NEW t \in Threads, Commits(t)
      PROVE  BalanceTrailConnected' /\ \A a \in AccountIds : Ends(a) \subseteq Ends(a)'
  <2> SUFFICES ASSUME NEW path, path = thread[t].path
               PROVE  BalanceTrailConnected' /\ \A a \in AccountIds : Ends(a) \subseteq Ends(a)'
    OBVIOUS
  <2>1. PICK r : /\ Changes(path)' = Changes(path) \cup {r}
                 /\ r.details.previousBalance = PreviousBalance(t)
                 /\ r.details.newBalance = NewBalance(t)
    BY <1>2, CommitAudits DEF IInv
  <2>2. /\ path \in AccountIds
        /\ accounts'[path].balance = NewBalance(t)
        /\ \A a \in AccountIds : a # path =>
               accounts'[a] = accounts[a] /\ Changes(a)' = Changes(a)
    BY <1>2, CommitAudits DEF IInv
  <2>3. PreviousBalance(t) \in Ends(path) \cup {0}
    BY <1>2 DEF PreviousBalance, SeenInTrail, Commits, CommitAnswering
  <2>4. Ends(path)' = Ends(path) \cup {NewBalance(t)}
    BY <2>1 DEF Ends
  <2>5. \A a \in AccountIds : a # path => Ends(a)' = Ends(a)
    BY <2>2 DEF Ends
  <2>6. \A a \in AccountIds : Connected(a)'
    <3>1. Connected(path)'
      BY <1>0, <2>1, <2>2, <2>3, <2>4
    <3>2. \A a \in AccountIds : a # path => Connected(a)'
      BY <1>0, <2>2, <2>5
    <3> QED BY <3>1, <3>2
  <2>7. BalanceTrailConnected'
    BY <2>6 DEF BalanceTrailConnected, Changes, Ends
  <2>8. \A a \in AccountIds : Ends(a) \subseteq Ends(a)'
    BY <2>4, <2>5
  <2> QED BY <2>7, <2>8
<1> QED
  BY <1>1, <1>2, StepKinds

(* What threads are about to build on stays in the trail.                  *)
LEMMA SeenTrailStep ==
    ASSUME IInv, SeenInTrail, BalanceTrailConnected, [AccountNext]_accountVars,
           \A a \in AccountIds : Ends(a) \subseteq Ends(a)', TypeOK', BusyThreads'
    PROVE  SeenInTrail'
<1> SUFFICES ASSUME NEW t \in Threads, thread'[t].pc = "commit",
                    thread'[t].seen # NoAccount, NEW path, path = thread'[t].path
             PROVE  thread'[t].seen.balance \in Ends(path)'
  BY DEF SeenInTrail, Ends, Changes
<1>1. path = thread[t].path /\ path \in AccountIds
  BY SeenIsRead DEF IInv, BusyThreads
<1>2. thread'[t].seen.balance \in Ends(path)
  <2>1. CASE thread[t].pc = "commit" /\ thread'[t].seen = thread[t].seen
    BY <1>1, <2>1 DEF SeenInTrail
  <2>2. CASE thread'[t].seen = accounts[path]
    BY <1>1, <2>2 DEF BalanceTrailConnected, Ends, Changes
  <2> QED BY <1>1, <2>1, <2>2, SeenIsRead DEF IInv
<1> QED BY <1>1, <1>2

(* The service starts without accounts and without a trail.                *)
LEMMA InitTrailInv == AccountInit => TrailInv
<1> SUFFICES ASSUME AccountInit
             PROVE  TrailInv
  OBVIOUS
<1>1. IInv
  BY InitIInv
<1>2. \A a \in AccountIds : accounts[a] = NoAccount /\ Openings(a) = {} /\ Changes(a) = {}
  BY DEF AccountInit, Openings, Changes
<1>3. SeenInTrail
  BY DEF AccountInit, SeenInTrail, IdleThread
<1>4. BalanceTrailConnected
  BY <1>2 DEF BalanceTrailConnected, Changes
<1> QED
  BY <1>1, <1>2, <1>3, <1>4 DEF TrailInv, OpenedByOne

(* The audit trail stays sound.                                            *)
LEMMA StepTrailInv == TrailInv /\ [AccountNext]_accountVars => TrailInv'
<1> SUFFICES ASSUME TrailInv, [AccountNext]_accountVars
             PROVE  TrailInv'
  OBVIOUS
<1>1. IInv'
  BY StepIInv DEF TrailInv
<1>2. BalanceTrailConnected' /\ \A a \in AccountIds : Ends(a) \subseteq Ends(a)'
  BY TrailStep DEF TrailInv
<1>3. SeenInTrail'
  BY <1>1, <1>2, SeenTrailStep DEF TrailInv, IInv
<1>4. OpenedByOne'
  BY OpenedStep DEF TrailInv
<1> QED
  BY <1>1, <1>2, <1>3, <1>4 DEF TrailInv

(* The inductive invariant of the audit trail.                             *)
THEOREM TrailInvariance == AccountSpec => []TrailInv
  BY InitTrailInv, StepTrailInv, PTL DEF AccountSpec

(* An account is opened by exactly one event: of the threads that race to  *)
(* open it one commits, and the others audit no opening.                   *)
THEOREM OpenedByOneEvent == AccountSpec => []OpenedOnce
<1>1. OpenedByOne => OpenedOnce
  <2> SUFFICES ASSUME OpenedByOne, NEW a \in AccountIds
               PROVE  Cardinality(Openings(a)) = IF accounts[a] = NoAccount THEN 0 ELSE 1
    BY DEF OpenedOnce, Openings
  <2> QED
    BY FS_EmptySet, FS_Singleton DEF OpenedByOne
<1> QED
  BY TrailInvariance, <1>1, PTL DEF TrailInv

(* Every audited balance change starts where another one of its account    *)
(* ended, or at zero, and the balance is where one ended: a lost update    *)
(* forks the trail, it never breaks it.                                    *)
THEOREM TrailConnected == AccountSpec => []BalanceTrailConnected
<1>1. TrailInv => BalanceTrailConnected
  BY DEF TrailInv
<1> QED
  BY TrailInvariance, <1>1, PTL

-----------------------------------------------------------------------------
(* A commit audits the event it records, on the account it changes.        *)
LEMMA AuditedStep ==
    ASSUME IInv, AuditedIsRecorded, [AccountNext]_accountVars
    PROVE  AuditedIsRecorded'
<1>1. CASE LedgerUntouched
  BY <1>1 DEF LedgerUntouched, AuditedIsRecorded, RecordedFor, Recorded
<1>2. ASSUME NEW t \in Threads, Commits(t)
      PROVE  AuditedIsRecorded'
  <2> DEFINE c == thread[t].command
  <2>1. /\ c \in Commands /\ thread[t].path = c.accountId
        /\ transactions[c.eventId] = NoTransaction
        /\ transactions' = [transactions EXCEPT ![c.eventId] = TransactionRow(c)]
        /\ TransactionRow(c) # NoTransaction
        /\ audit' = audit \cup StagedAudit(t)
    BY <1>2, CommitFacts DEF IInv
  <2>2. c.eventId \in EventIds
    BY <2>1, CommandFacts
  <2>3. /\ transactions'[c.eventId] = TransactionRow(c)
        /\ \A e \in EventIds : Recorded(e) => transactions'[e] = transactions[e]
    BY <2>1, <2>2 DEF IInv, TypeOK, Recorded
  <2>4. \A r \in StagedAudit(t) : r.eventId = c.eventId /\ r.accountId = c.accountId
    BY <2>1 DEF StagedAudit, NoteFor, Note
  <2> SUFFICES ASSUME NEW r \in audit', r.action \in LedgerActions
               PROVE  RecordedFor(r.eventId, r.accountId)'
    BY DEF AuditedIsRecorded
  <2>5. CASE r \in StagedAudit(t)
    BY <2>1, <2>3, <2>4, <2>5 DEF RecordedFor, Recorded
  <2>6. CASE r \in audit
    <3>1. r.eventId \in EventIds
      BY <2>6 DEF IInv, TypeOK, AuditRecordType
    <3> QED BY <2>3, <2>6, <3>1 DEF AuditedIsRecorded, RecordedFor, Recorded
  <2> QED BY <2>1, <2>5, <2>6
<1> QED
  BY <1>1, <1>2, StepKinds

(* A commit either builds on the current balance or leaves an overlap in   *)
(* the trail of its account.                                               *)
LEMMA CommitBuilds ==
    ASSUME IInv, AuditedIsRecorded, SeenIsCurrent, NEW t \in Threads, Commits(t),
           NEW path, path = thread[t].path
    PROVE  Overlap(path)' \/ PreviousBalance(t) = Balance(path)
<1>1. PICK r : /\ Changes(path)' = Changes(path) \cup {r}
               /\ r.eventId = thread[t].command.eventId
               /\ r.details.previousBalance = PreviousBalance(t)
  BY CommitAudits DEF IInv
<1>2. accounts[path] = NoAccount <=> thread[t].seen = NoAccount
  BY CommitAudits DEF IInv
<1>3. CASE thread[t].seen = NoAccount
  BY <1>2, <1>3 DEF PreviousBalance, Balance
<1>4. CASE thread[t].seen # NoAccount
  <2>1. PreviousBalance(t) = thread[t].seen.balance /\ Balance(path) = accounts[path].balance
    BY <1>2, <1>4 DEF PreviousBalance, Balance
  <2>2. thread[t].pc = "commit"
    BY DEF Commits, CommitAnswering
  <2>3. ASSUME NEW s \in Changes(path), s.details.previousBalance = PreviousBalance(t)
        PROVE  Overlap(path)'
    <3>1. s # r
      <4>1. Recorded(s.eventId)
        BY <2>3 DEF Changes, AuditedIsRecorded, RecordedFor, LedgerActions
      <4>2. ~Recorded(r.eventId)
        BY <1>1, CommitFacts DEF IInv, Recorded
      <4> QED BY <4>1, <4>2
    <3>2. s \in Changes(path)' /\ r \in Changes(path)'
      BY <1>1, <2>3
    <3> QED BY <1>1, <2>3, <3>1, <3>2 DEF Overlap
  <2>4. Overlap(path) => Overlap(path)'
    BY <1>1 DEF Overlap
  <2> QED
    BY <1>4, <2>1, <2>2, <2>3, <2>4 DEF SeenIsCurrent
<1> QED
  BY <1>3, <1>4

(* A balance goes out of date only by a commit, which has then started     *)
(* from the same balance, or has itself built on an old one.               *)
LEMMA SeenCurrentStep ==
    ASSUME IInv, AuditedIsRecorded, SeenIsCurrent, [AccountNext]_accountVars
    PROVE  SeenIsCurrent'
<1> SUFFICES ASSUME NEW t \in Threads, thread'[t].pc = "commit",
                    thread'[t].seen # NoAccount, NEW path, path = thread'[t].path
             PROVE  \/ thread'[t].seen.balance = accounts'[path].balance
                    \/ \E r \in Changes(path)' :
                           r.details.previousBalance = thread'[t].seen.balance
                    \/ Overlap(path)'
  BY DEF SeenIsCurrent, Changes, Overlap
<1>1. CASE LedgerUntouched
  <2>1. accounts' = accounts /\ Changes(path)' = Changes(path) /\ (Overlap(path)' <=> Overlap(path))
    BY <1>1, UntouchedTrail DEF Overlap
  <2> QED BY <2>1, SeenIsRead DEF IInv, SeenIsCurrent
<1>2. ASSUME NEW u \in Threads, Commits(u)
      PROVE  \/ thread'[t].seen.balance = accounts'[path].balance
             \/ \E r \in Changes(path)' :
                    r.details.previousBalance = thread'[t].seen.balance
             \/ Overlap(path)'
  <2>1. thread'[t] = thread[t]
    BY <1>2 DEF Commits, CommitAnswering, Answer, IInv, TypeOK, ThreadType
  <2>2. \/ thread'[t].seen.balance = accounts[path].balance
        \/ \E r \in Changes(path) : r.details.previousBalance = thread'[t].seen.balance
        \/ Overlap(path)
    BY <2>1 DEF SeenIsCurrent
  <2>3. path \in AccountIds /\ accounts[path] # NoAccount
    BY <2>1 DEF IInv, BusyThreads, SeenAccountExists
  <2>4. CASE path # thread[u].path
    <3>1. accounts'[path] = accounts[path] /\ Changes(path)' = Changes(path)
      BY <1>2, <2>3, <2>4, CommitAudits DEF IInv
    <3> QED BY <2>2, <3>1 DEF Overlap
  <2>5. CASE path = thread[u].path
    <3>1. PICK r : /\ Changes(path)' = Changes(path) \cup {r}
                   /\ r.details.previousBalance = PreviousBalance(u)
      <4>1. TypeOK /\ BusyThreads /\ SeenAccountExists
        BY DEF IInv
      <4> HIDE DEF IInv
      <4>2. path = thread[u].path
        BY <2>5
      <4>3. Commits(u)
        BY <1>2
      <4>4. \E r : /\ Changes(path)' = Changes(path) \cup {r}
                   /\ r.eventId = thread[u].command.eventId
                   /\ r.details.previousBalance = PreviousBalance(u)
                   /\ r.details.newBalance = NewBalance(u)
        BY <4>1, <4>2, <4>3, CommitAudits, Zenon
      <4> QED BY <4>4, Zenon
    <3>2. Overlap(path)' \/ PreviousBalance(u) = accounts[path].balance
      BY <1>2, <2>3, <2>5, CommitBuilds DEF Balance
    <3>3. Overlap(path) => Overlap(path)'
      BY <3>1 DEF Overlap
    <3> QED BY <2>2, <3>1, <3>2, <3>3
  <2> QED BY <2>4, <2>5
<1> QED
  BY <1>1, <1>2, StepKinds

(* A refused thread was so before, or one of the two keys refuses it now.  *)
LEMMA RefusedSteps ==
    ASSUME TypeOK, [AccountNext]_accountVars, NEW t \in Threads, thread'[t].pc = "resolve"
    PROVE  /\ thread'[t].path = thread[t].path
           /\ thread'[t].command = thread[t].command
           /\ thread'[t].seen = thread[t].seen
           /\ \/ thread[t].pc = "resolve"
              \/ thread[t].pc = "commit" /\ DuplicateKey(t) /\ UNCHANGED ledger
<1> DEFINE Kept == /\ thread'[t].path = thread[t].path
                   /\ thread'[t].command = thread[t].command
                   /\ thread'[t].seen = thread[t].seen
                   /\ \/ thread[t].pc = "resolve"
                      \/ thread[t].pc = "commit" /\ DuplicateKey(t) /\ UNCHANGED ledger
<1>1. ASSUME NEW u \in Threads, NEW answer, Answer(u, answer)
      PROVE  Kept
  BY <1>1 DEF Answer, TypeOK, ThreadType
<1>2. ASSUME NEW u \in Threads, Move(u, "account")
      PROVE  Kept
  BY <1>2 DEF Move, TypeOK, ThreadType
<1>3. ASSUME NEW u \in Threads, CommitRefused(u)
      PROVE  Kept
  BY <1>3 DEF CommitRefused, Move, TypeOK, ThreadType
<1>4. ASSUME NEW u \in Threads, NEW row,
             thread' = [thread EXCEPT ![u].pc = "commit", ![u].seen = row]
      PROVE  Kept
  BY <1>4 DEF TypeOK, ThreadType
<1>5. ASSUME NEW u \in Threads, thread' = [thread EXCEPT ![u] = IdleThread]
      PROVE  Kept
  BY <1>5 DEF IdleThread, TypeOK
<1>6. ASSUME NEW u \in Threads, NEW path, NEW c, Receive(u, path, c)
      PROVE  Kept
  BY <1>6 DEF Receive, IdleThread, TypeOK
<1>7. Restart \/ UNCHANGED accountVars => Kept
  BY DEF Restart, IdleThread, accountVars
<1> HIDE DEF Kept
<1>8. ASSUME NEW u \in Threads, Step(u)
      PROVE  Kept
  BY <1>1, <1>2, <1>3, <1>4, <1>8
  DEF Step, Work, Fail, Commit, CommitUnconfirmed, CommitAnswering, RejectMismatch,
      LookupTransaction, LookupAccount, Resolve, DatabaseError, AnswerExisting,
      RecordAndAnswer
<1> QED
  BY <1>5, <1>6, <1>7, <1>8 DEF AccountNext, Step, Reply, Kept

(* What a refused thread lost to stays recorded or open.                   *)
LEMMA RefusedStep ==
    ASSUME IInv, RefusedForAKey, [AccountNext]_accountVars
    PROVE  RefusedForAKey'
<1> SUFFICES ASSUME NEW t \in Threads, thread'[t].pc = "resolve"
             PROVE  \/ transactions'[thread'[t].command.eventId] # NoTransaction
                    \/ thread'[t].seen = NoAccount /\ accounts'[thread'[t].path] # NoAccount
  BY DEF RefusedForAKey, Recorded
<1> DEFINE e == thread[t].command.eventId
<1> DEFINE path == thread[t].path
<1>1. /\ thread'[t].path = path /\ thread'[t].command.eventId = e
      /\ thread'[t].seen = thread[t].seen
      /\ \/ thread[t].pc = "resolve"
         \/ thread[t].pc = "commit" /\ DuplicateKey(t)
  BY RefusedSteps DEF IInv
<1>2. e \in EventIds /\ path \in AccountIds
  BY <1>1, CommandFacts DEF IInv, BusyThreads
<1>3. Recorded(e) \/ (thread[t].seen = NoAccount /\ accounts[path] # NoAccount)
  BY <1>1 DEF RefusedForAKey, DuplicateKey, Recorded
<1>4. Recorded(e) => transactions'[e] # NoTransaction
  BY <1>2, RecordedKept DEF IInv, Recorded
<1>5. accounts[path] # NoAccount => accounts'[path] # NoAccount
  <2>1. CASE LedgerUntouched
    BY <2>1 DEF LedgerUntouched
  <2>2. ASSUME NEW u \in Threads, Commits(u)
        PROVE  accounts[path] # NoAccount => accounts'[path] # NoAccount
    BY <1>2, <2>2, AccountsKept DEF IInv
  <2> QED BY <2>1, <2>2, StepKinds
<1> QED
  BY <1>1, <1>3, <1>4, <1>5 DEF Recorded

(* Who answers a conflict: a look at a recorded transaction that differs,  *)
(* or the second look of a refused thread that finds none.                 *)
LEMMA ConflictGiven ==
    ASSUME TypeOK, BusyThreads, [AccountNext]_accountVars, NEW t \in Threads,
           thread'[t].answer = "EVENT_ID_CONFLICT"
    PROVE  /\ thread'[t].command = thread[t].command
           /\ \/ thread[t].answer = "EVENT_ID_CONFLICT"
              \/ /\ thread[t].pc \in {"lookup", "resolve"}
                 /\ Recorded(thread[t].command.eventId)
                 /\ ~SameTransaction(transactions[thread[t].command.eventId],
                                     thread[t].command)
              \/ thread[t].pc = "resolve" /\ ~Recorded(thread[t].command.eventId)
<1> DEFINE Same == thread'[t].command = thread[t].command
<1> DEFINE Old == thread[t].answer = "EVENT_ID_CONFLICT"
<1> DEFINE Real == /\ thread[t].pc \in {"lookup", "resolve"}
                   /\ Recorded(thread[t].command.eventId)
                   /\ ~SameTransaction(transactions[thread[t].command.eventId],
                                       thread[t].command)
<1> DEFINE Lost == thread[t].pc = "resolve" /\ ~Recorded(thread[t].command.eventId)
<1>1. ASSUME NEW u \in Threads, NEW answer, Answer(u, answer)
      PROVE  Same /\ (Old \/ (u = t /\ answer = "EVENT_ID_CONFLICT"))
  BY <1>1 DEF Answer, TypeOK, ThreadType
<1>2. ASSUME NEW u \in Threads, NEW pc, Move(u, pc)
      PROVE  Same /\ Old
  BY <1>2 DEF Move, TypeOK, ThreadType
<1>3. ASSUME NEW u \in Threads, NEW row,
             thread' = [thread EXCEPT ![u].pc = "commit", ![u].seen = row]
      PROVE  Same /\ Old
  BY <1>3 DEF TypeOK, ThreadType
<1>4. ASSUME NEW u \in Threads, thread' = [thread EXCEPT ![u] = IdleThread]
      PROVE  Same /\ Old
  BY <1>4 DEF IdleThread, TypeOK
<1>5. ASSUME NEW u \in Threads, NEW path, NEW c, Receive(u, path, c)
      PROVE  Same /\ Old
  BY <1>5 DEF Receive, IdleThread, TypeOK
<1>6. Restart \/ UNCHANGED accountVars => Same /\ Old
  BY DEF Restart, IdleThread, accountVars
<1>7. ASSUME NEW u \in Threads, AnswerExisting(u), thread[u].pc \in {"lookup", "resolve"},
             Recorded(thread[u].command.eventId)
      PROVE  Same /\ (Old \/ Real)
  BY <1>1, <1>7 DEF AnswerExisting, RecordAndAnswer
<1> HIDE DEF Same, Old, Real
<1>8. ASSUME NEW u \in Threads, Step(u)
      PROVE  Same /\ (Old \/ Real \/ Lost)
  <2>1. CASE RejectMismatch(u)
    BY <1>1, <2>1 DEF RejectMismatch, RecordAndAnswer
  <2>2. CASE LookupTransaction(u)
    BY <1>2, <1>7, <2>2 DEF LookupTransaction, Recorded
  <2>3. CASE LookupAccount(u)
    BY <1>1, <1>3, <2>3 DEF LookupAccount, RecordAndAnswer
  <2>4. CASE Commits(u)
    BY <1>1, <2>4 DEF Commits, CommitAnswering
  <2>5. CASE CommitRefused(u)
    BY <1>2, <2>5 DEF CommitRefused
  <2>6. CASE Resolve(u)
    BY <1>1, <1>7, <2>6 DEF Resolve, RecordAndAnswer, Recorded
  <2>7. CASE DatabaseError(u)
    BY <1>1, <2>7 DEF DatabaseError
  <2> QED
    BY <1>8, <2>1, <2>2, <2>3, <2>4, <2>5, <2>6, <2>7 DEF Step, Work, Fail, Commits, Commit,
        CommitUnconfirmed
<1> QED
  BY <1>4, <1>5, <1>6, <1>8 DEF AccountNext, Step, Reply, Same, Old, Real

(* A thread refused without a recorded transaction lost the opening: the   *)
(* account was opened by an event that is recorded, hence by another.      *)
LEMMA RefusedLost ==
    ASSUME IInv, OpenedByOne, AuditedIsRecorded, RefusedForAKey,
           NEW t \in Threads, thread[t].pc = "resolve",
           ~Recorded(thread[t].command.eventId)
    PROVE  LostTheOpening(t)
<1>1. PICK c : c = thread[t].command
  OBVIOUS
<1>2. /\ c \in Commands /\ c.accountId \in AccountIds
      /\ thread[t].path = c.accountId
      /\ thread[t].seen = NoAccount /\ accounts[c.accountId] # NoAccount
  BY <1>1, CommandFacts DEF RefusedForAKey, IInv, BusyThreads
<1>3. PICK r : r \in Openings(c.accountId)
  BY <1>2 DEF OpenedByOne
<1>4. Recorded(r.eventId)
  BY <1>3 DEF Openings, AuditedIsRecorded, RecordedFor, LedgerActions
<1> QED
  BY <1>1, <1>2, <1>3, <1>4 DEF LostTheOpening

(* A conflict keeps its explanation, and a new one has one.                *)
LEMMA ConflictStep ==
    ASSUME IInv, OpenedByOne, AuditedIsRecorded, RefusedForAKey, ConflictExplained,
           [AccountNext]_accountVars, BusyThreads'
    PROVE  ConflictExplained'
<1> SUFFICES ASSUME NEW t \in Threads, thread'[t].answer = "EVENT_ID_CONFLICT",
                    NEW c, c = thread'[t].command
             PROVE  \/ /\ Recorded(c.eventId)'
                       /\ ~SameTransaction(transactions'[c.eventId], c)
                    \/ \E r \in Openings(c.accountId)' : r.eventId # c.eventId
  BY DEF ConflictExplained, Recorded, SameTransaction, Openings
<1>1. c \in Commands /\ c.eventId \in EventIds /\ c.accountId \in AccountIds
  BY CommandFacts DEF IInv, TypeOK, ThreadType, BusyThreads
<1>2. audit \subseteq audit'
  BY StepKinds, CommitFacts DEF IInv, LedgerUntouched
<1>3. Recorded(c.eventId) /\ ~SameTransaction(transactions[c.eventId], c)
          => Recorded(c.eventId)' /\ ~SameTransaction(transactions'[c.eventId], c)
  BY <1>1, RecordedKept DEF IInv, Recorded
<1>4. ASSUME NEW r \in Openings(c.accountId), r.eventId # c.eventId
      PROVE  r \in Openings(c.accountId)'
  BY <1>2 DEF Openings
<1>5. /\ c = thread[t].command
      /\ \/ thread[t].answer = "EVENT_ID_CONFLICT"
         \/ Recorded(c.eventId) /\ ~SameTransaction(transactions[c.eventId], c)
         \/ thread[t].pc = "resolve" /\ ~Recorded(c.eventId)
  BY ConflictGiven DEF IInv
<1>6. CASE thread[t].answer = "EVENT_ID_CONFLICT"
  BY <1>3, <1>4, <1>5, <1>6 DEF ConflictExplained
<1>7. CASE thread[t].pc = "resolve" /\ ~Recorded(c.eventId)
  <2>1. PICK r \in Openings(c.accountId) : r.eventId # c.eventId
    BY <1>5, <1>7, RefusedLost DEF LostTheOpening
  <2> QED BY <1>4, <2>1
<1> QED
  BY <1>3, <1>5, <1>6, <1>7

(* The service starts with nothing recorded, refused or audited.           *)
LEMMA InitRaceInv == AccountInit => RaceInv
<1> SUFFICES ASSUME AccountInit
             PROVE  RaceInv
  OBVIOUS
<1>1. TrailInv
  BY InitTrailInv
<1>2. \A t \in Threads : thread[t].pc = "idle" /\ thread[t].answer = "none"
  BY DEF AccountInit, IdleThread
<1>3. audit = {}
  BY DEF AccountInit
<1> QED
  BY <1>1, <1>2, <1>3
  DEF RaceInv, AuditedIsRecorded, SeenIsCurrent, RefusedForAKey, ConflictExplained

(* No race escapes the trail.                                              *)
LEMMA StepRaceInv == RaceInv /\ [AccountNext]_accountVars => RaceInv'
<1> SUFFICES ASSUME RaceInv, [AccountNext]_accountVars
             PROVE  RaceInv'
  OBVIOUS
<1>1. TrailInv'
  BY StepTrailInv DEF RaceInv
<1>2. AuditedIsRecorded'
  BY AuditedStep DEF RaceInv, TrailInv
<1>3. SeenIsCurrent'
  BY SeenCurrentStep DEF RaceInv, TrailInv
<1>4. RefusedForAKey'
  BY RefusedStep DEF RaceInv, TrailInv
<1>5. ConflictExplained'
  BY <1>1, ConflictStep DEF RaceInv, TrailInv, IInv
<1> QED
  BY <1>1, <1>2, <1>3, <1>4, <1>5 DEF RaceInv

(* The inductive invariant of the trail with what the races leave in it.   *)
THEOREM RaceInvariance == AccountSpec => []RaceInv
  BY InitRaceInv, StepRaceInv, PTL DEF AccountSpec

(* EVENT_ID_CONFLICT has two causes: the recorded transaction differs from *)
(* the request, or the request found no account, staged one, and another   *)
(* event opened it before the commit.  On an account a request has read it *)
(* is never answered for anything but a difference.                        *)
THEOREM ConflictsExplained == AccountSpec => ConflictsHaveReasons
<1> DEFINE Reasoned ==
        \A t \in Threads :
            thread[t].answer # "EVENT_ID_CONFLICT" /\ thread'[t].answer = "EVENT_ID_CONFLICT" =>
                LET c == thread[t].command IN
                \/ Recorded(c.eventId) /\ ~SameTransaction(transactions[c.eventId], c)
                \/ LostTheOpening(t)
<1>1. ASSUME RaceInv, [AccountNext]_accountVars
      PROVE  [Reasoned]_accountVars
  BY <1>1, ConflictGiven, RefusedLost DEF RaceInv, TrailInv, IInv
<1> QED
  BY RaceInvariance, <1>1, PTL DEF AccountSpec, ConflictsHaveReasons

(* Where no two events share an account, and timestamps are sent in UTC,   *)
(* the second explanation is gone and every conflict is real.              *)
THEOREM ConflictSafe ==
    ASSUME \A c, d \in Commands : c.accountId = d.accountId => c.eventId = d.eventId,
           \A c \in Commands : c.eventTimestamp.offset = 0
    PROVE  AccountSpec => []ConflictIsReal
<1>1. RaceInv => ConflictIsReal
  <2> SUFFICES ASSUME RaceInv, NEW t \in Threads,
                      thread[t].answer = "EVENT_ID_CONFLICT",
                      NEW c, c = thread[t].command
               PROVE  /\ Recorded(c.eventId)
                      /\ transactions[c.eventId] # TransactionRow(c)
    BY DEF ConflictIsReal
  <2>1. c \in Commands /\ c.eventTimestamp.clock \in Int
    BY CommandsAssumption DEF RaceInv, TrailInv, IInv, BusyThreads, CommandType, Clock
  <2>2. SameTransaction(TransactionRow(c), c)
    BY <2>1 DEF SameTransaction, TransactionRow, UtcNaive
  <2>3. \A r \in Openings(c.accountId) : r.eventId = c.eventId
    BY <2>1 DEF Openings, RaceInv, AuditedIsRecorded, RecordedFor, LedgerActions
  <2> QED
    BY <2>2, <2>3 DEF RaceInv, ConflictExplained
<1> QED
  BY RaceInvariance, <1>1, PTL

-----------------------------------------------------------------------------
(* A commit records one event and adds its delta to what the thread read.  *)
LEMMA BalanceFollows ==
    ASSUME IInv, AuditedIsRecorded, SeenIsCurrent, [AccountNext]_accountVars,
           NEW a \in AccountIds
    PROVE  BalanceStep(a)
<1>1. CASE LedgerUntouched
  <2>1. Added(a) = {} /\ Balance(a)' = Balance(a)
    BY <1>1 DEF LedgerUntouched, Added, Recorded, Balance
  <2> QED BY <2>1 DEF BalanceStep
<1>2. ASSUME NEW t \in Threads, Commits(t)
      PROVE  BalanceStep(a)
  <2> DEFINE c == thread[t].command
  <2>1. /\ c \in Commands /\ thread[t].path = c.accountId
        /\ transactions[c.eventId] = NoTransaction
        /\ transactions' = [transactions EXCEPT ![c.eventId] = TransactionRow(c)]
        /\ TransactionRow(c) # NoTransaction
        /\ accounts'[c.accountId] # NoAccount
        /\ accounts'[c.accountId].balance = NewBalance(t)
        /\ \A b \in AccountIds : b # c.accountId => accounts'[b] = accounts[b]
    BY <1>2, CommitFacts DEF IInv
  <2>2. c.eventId \in EventIds
    BY <2>1, CommandFacts
  <2>3. /\ transactions'[c.eventId] = TransactionRow(c)
        /\ \A e \in EventIds : e # c.eventId => transactions'[e] = transactions[e]
    BY <2>1, <2>2 DEF IInv, TypeOK
  <2>4. TransactionRow(c).accountId = c.accountId /\ Delta(TransactionRow(c)) = Delta(c)
    BY DEF TransactionRow, Delta
  <2>5. Added(a) = IF a = c.accountId THEN {c.eventId} ELSE {}
    BY <2>1, <2>2, <2>3, <2>4 DEF Added, Recorded
  <2>6. CASE a # c.accountId
    <3>1. Balance(a)' = Balance(a)
      BY <2>1, <2>6 DEF Balance
    <3> QED BY <2>5, <2>6, <3>1 DEF BalanceStep
  <2>7. CASE a = c.accountId
    <3>1. Overlap(a)' \/ PreviousBalance(t) = Balance(a)
      BY <1>2, <2>1, <2>7, CommitBuilds
    <3>2. Balance(a)' = PreviousBalance(t) + Delta(transactions'[c.eventId])
      BY <2>1, <2>3, <2>4, <2>7 DEF Balance, NewBalance
    <3> HIDE DEF c
    <3> QED BY <2>2, <2>5, <2>7, <3>1, <3>2 DEF BalanceStep
  <2> QED BY <2>6, <2>7
<1> QED
  BY <1>1, <1>2, StepKinds

(* The balance of an account moves with its transactions: by the delta of  *)
(* each, once, when it is recorded, and at no other time.  An account with *)
(* two audited changes from one balance is excepted: a lost update leaves  *)
(* two, but so does a balance that comes back to an earlier value.         *)
THEOREM BalanceSafe == AccountSpec => BalanceFollowsLedger
<1>1. ASSUME RaceInv, [AccountNext]_accountVars
      PROVE  [\A a \in AccountIds : BalanceStep(a)]_accountVars
  BY <1>1, BalanceFollows DEF RaceInv, TrailInv
<1> QED
  BY RaceInvariance, <1>1, PTL DEF AccountSpec, BalanceFollowsLedger

-----------------------------------------------------------------------------
(* The sum of what a set of events contributes is a sum of integers: of    *)
(* nothing it is zero, equal rows have equal sums, and one more event adds *)
(* its delta.                                                              *)
LEMMA TotalFacts ==
    ASSUME NEW rows, NEW events, IsFiniteSet(events), \A e \in events : Delta(rows[e]) \in Int
    PROVE  /\ Total(rows, events) \in Int
           /\ \A x : x \notin events /\ Delta(rows[x]) \in Int =>
                  Total(rows, events \cup {x}) = Total(rows, events) + Delta(rows[x])
<1> DEFINE F(s) == [e \in s |-> Delta(rows[e])]
<1>1. \A s : Total(rows, s) = SumFunctionOnSet(F(s), s)
  BY DEF Total, SumFunction
<1>2. \A e \in events : F(events)[e] \in Int
  OBVIOUS
<1>3. Total(rows, events) \in Int
  <2> HIDE DEF F
  <2> QED BY <1>1, <1>2, SumIsInteger
<1>4. ASSUME NEW x, x \notin events, Delta(rows[x]) \in Int
      PROVE  Total(rows, events \cup {x}) = Total(rows, events) + Delta(rows[x])
  <2>1. PICK G : G = F(events \cup {x})
    OBVIOUS
  <2>2. /\ G[x] = Delta(rows[x])
        /\ \A e \in events : G[e] = F(events)[e] /\ G[e] \in Int
    BY <2>1
  <2>3. SumFunctionOnSet(G, events \cup {x}) = SumFunctionOnSet(G, events) + G[x]
    BY <1>4, <2>2, SumOfOneMore
  <2>4. SumFunctionOnSet(G, events) = SumFunctionOnSet(F(events), events)
    <3> HIDE DEF F
    <3> QED BY <1>2, <2>2, SumOfSame
  <2> HIDE DEF F
  <2> QED BY <1>1, <2>1, <2>2, <2>3, <2>4
<1> QED
  BY <1>3, <1>4

(* No events, no contribution.                                             *)
LEMMA TotalOfNothing ==
    ASSUME NEW rows
    PROVE  Total(rows, {}) = 0
  BY SumOfNothing DEF Total, SumFunction

(* There are finitely many recorded transactions at any time.              *)
FinitelyRecorded == \A a \in AccountIds : IsFiniteSet(RecordedOn(a))

(* A commit puts one new event on its account and changes no sum; the sums *)
(* that take the new event in grow by its delta.                           *)
LEMMA RecordingAdds ==
    ASSUME IInv, FinitelyRecorded, NEW t \in Threads, Commits(t),
           NEW c, c = thread[t].command
    PROVE  /\ c.accountId \in AccountIds /\ c.accountId = thread[t].path
           /\ c.eventId \notin RecordedOn(c.accountId)
           /\ \A a \in AccountIds :
                  /\ RecordedOn(a)' = IF a = c.accountId THEN RecordedOn(a) \cup {c.eventId}
                                      ELSE RecordedOn(a)
                  /\ \A X \in SUBSET RecordedOn(a) : SumOf(X)' = SumOf(X)
           /\ \A X \in SUBSET RecordedOn(c.accountId) :
                  SumOf(X \cup {c.eventId})' = SumOf(X) + Delta(c)
<1>1. /\ c \in Commands /\ c.accountId = thread[t].path
      /\ transactions[c.eventId] = NoTransaction
      /\ transactions' = [transactions EXCEPT ![c.eventId] = TransactionRow(c)]
      /\ TransactionRow(c) # NoTransaction
  BY CommitFacts DEF IInv
<1>2. c.eventId \in EventIds /\ c.accountId \in AccountIds /\ Delta(c) \in Int
  BY <1>1, CommandFacts
<1>3. /\ transactions'[c.eventId] = TransactionRow(c)
      /\ \A e \in EventIds : e # c.eventId => transactions'[e] = transactions[e]
  BY <1>1, <1>2 DEF IInv, TypeOK
<1>4. TransactionRow(c).accountId = c.accountId /\ Delta(TransactionRow(c)) = Delta(c)
  BY DEF TransactionRow, Delta
<1>5. \A a \in AccountIds : c.eventId \notin RecordedOn(a)
  BY <1>1 DEF RecordedOn, Recorded
<1>6. ASSUME NEW a \in AccountIds
      PROVE  RecordedOn(a)' = IF a = c.accountId THEN RecordedOn(a) \cup {c.eventId}
                              ELSE RecordedOn(a)
  BY <1>1, <1>2, <1>3, <1>4 DEF RecordedOn, Recorded
<1>7. ASSUME NEW a \in AccountIds, NEW X \in SUBSET RecordedOn(a)
      PROVE  SumOf(X)' = SumOf(X)
  <2>1. \A e \in X : transactions'[e] = transactions[e]
    BY <1>3, <1>5 DEF RecordedOn
  <2>2. [e \in X |-> Delta(transactions'[e])] = [e \in X |-> Delta(transactions[e])]
    BY <2>1
  <2> QED BY <2>2 DEF SumOf, Total
<1>8. ASSUME NEW X \in SUBSET RecordedOn(c.accountId)
      PROVE  SumOf(X \cup {c.eventId})' = SumOf(X) + Delta(c)
  <2>1. \A e \in X : Delta(transactions'[e]) \in Int
    BY <1>3, <1>5 DEF RecordedOn, Recorded, IInv, TypeOK, TransactionRowType, Delta
  <2>2. IsFiniteSet(X)
    BY <1>2, FS_Subset DEF FinitelyRecorded
  <2>3. c.eventId \notin X
    BY <1>2, <1>5
  <2>4. Delta(transactions'[c.eventId]) = Delta(c)
    BY <1>3, <1>4
  <2>5. Total(transactions', X \cup {c.eventId}) = Total(transactions', X) + Delta(c)
    BY <1>2, <2>1, <2>2, <2>3, <2>4, TotalFacts
  <2>6. Total(transactions', X) = Total(transactions, X)
    BY <1>2, <1>7 DEF SumOf
  <2> QED BY <2>5, <2>6 DEF SumOf
<1> QED
  BY <1>1, <1>2, <1>5, <1>6, <1>7, <1>8

(* The set of recorded transactions stays finite.                          *)
LEMMA FinitelyStep ==
    ASSUME IInv, FinitelyRecorded, [AccountNext]_accountVars
    PROVE  FinitelyRecorded'
<1>1. CASE LedgerUntouched
  BY <1>1 DEF LedgerUntouched, FinitelyRecorded, RecordedOn, Recorded
<1>2. ASSUME NEW t \in Threads, Commits(t)
      PROVE  FinitelyRecorded'
  <2>1. PICK c : c = thread[t].command
    OBVIOUS
  <2>2. \A a \in AccountIds : RecordedOn(a)' = RecordedOn(a) \cup {c.eventId}
                              \/ RecordedOn(a)' = RecordedOn(a)
    BY <1>2, <2>1, RecordingAdds
  <2>3. \A a \in AccountIds : IsFiniteSet(RecordedOn(a) \cup {c.eventId})
    BY FS_AddElement DEF FinitelyRecorded
  <2> QED BY <2>2, <2>3 DEF FinitelyRecorded
<1> QED
  BY <1>1, <1>2, StepKinds

(* A balance is the whole sum unless two changes in the trail start from   *)
(* one balance.                                                            *)
SumsUnlessOverlap ==
    \A a \in AccountIds : Balance(a) = SumOf(RecordedOn(a)) \/ Overlap(a)

(* An overlap, once in the trail, stays there.                             *)
LEMMA OverlapStays ==
    ASSUME IInv, [AccountNext]_accountVars, NEW a, Overlap(a)
    PROVE  Overlap(a)'
<1>1. audit \subseteq audit'
  BY StepKinds, CommitFacts DEF IInv, LedgerUntouched
<1> QED
  BY <1>1 DEF Overlap, Changes

(* A commit that builds on the current balance keeps the sum.              *)
LEMMA CommitKeepsSum ==
    ASSUME IInv, FinitelyRecorded, NEW t \in Threads, Commits(t), NEW a \in AccountIds,
           Balance(a) = SumOf(RecordedOn(a)),
           a = thread[t].path => PreviousBalance(t) = Balance(a)
    PROVE  Balance(a)' = SumOf(RecordedOn(a))'
<1>1. PICK c : c = thread[t].command
  OBVIOUS
<1>2. /\ c.accountId \in AccountIds /\ c.accountId = thread[t].path
      /\ RecordedOn(a)' = IF a = c.accountId THEN RecordedOn(a) \cup {c.eventId}
                          ELSE RecordedOn(a)
      /\ \A X \in SUBSET RecordedOn(a) : SumOf(X)' = SumOf(X)
      /\ \A X \in SUBSET RecordedOn(c.accountId) :
             SumOf(X \cup {c.eventId})' = SumOf(X) + Delta(c)
  BY <1>1, RecordingAdds
<1>3. PICK events : events = RecordedOn(a)
  OBVIOUS
<1>4. CASE a # c.accountId
  <2>1. Balance(a)' = Balance(a)
    BY <1>1, <1>4, CommitFacts DEF IInv, Balance
  <2>2. SumOf(events)' = SumOf(events)
    BY <1>2, <1>3
  <2> QED BY <1>2, <1>3, <1>4, <2>1, <2>2 DEF SumOf
<1>5. CASE a = c.accountId
  <2>1. Balance(a)' = Balance(a) + Delta(c)
    BY <1>1, <1>2, <1>5, CommitFacts DEF IInv, Balance, NewBalance
  <2>2. SumOf(events \cup {c.eventId})' = SumOf(events) + Delta(c)
    BY <1>2, <1>3, <1>5
  <2> QED BY <1>2, <1>3, <1>5, <2>1, <2>2 DEF SumOf
<1> QED
  BY <1>4, <1>5

(* One that does not leaves an overlap.                                    *)
LEMMA SumsStep ==
    ASSUME IInv, AuditedIsRecorded, SeenIsCurrent, FinitelyRecorded, SumsUnlessOverlap,
           [AccountNext]_accountVars
    PROVE  SumsUnlessOverlap'
<1> SUFFICES ASSUME NEW a \in AccountIds, ~Overlap(a)'
             PROVE  Balance(a)' = SumOf(RecordedOn(a))'
  BY DEF SumsUnlessOverlap
<1>1. Balance(a) = SumOf(RecordedOn(a))
  BY OverlapStays DEF SumsUnlessOverlap
<1>2. CASE LedgerUntouched
  BY <1>1, <1>2 DEF LedgerUntouched, Balance, SumOf, RecordedOn, Recorded
<1>3. ASSUME NEW t \in Threads, Commits(t)
      PROVE  Balance(a)' = SumOf(RecordedOn(a))'
  BY <1>1, <1>3, CommitBuilds, CommitKeepsSum
<1> QED
  BY <1>2, <1>3, StepKinds

(* What a thread is about to build on is made of recorded transactions,    *)
(* each counted once.                                                      *)
SeenCountsEachOnce ==
    \A t \in Threads :
        thread[t].pc = "commit" /\ thread[t].seen # NoAccount =>
            \E counted \in SUBSET RecordedOn(thread[t].path) :
                thread[t].seen.balance = SumOf(counted)

(* So is what it builds on when there was no account.                      *)
LEMMA PreviousCounts ==
    ASSUME SeenCountsEachOnce, NEW t \in Threads, Commits(t)
    PROVE  \E counted \in SUBSET RecordedOn(thread[t].path) :
               PreviousBalance(t) = SumOf(counted)
<1>1. CASE thread[t].seen = NoAccount
  <2>1. {} \in SUBSET RecordedOn(thread[t].path) /\ SumOf({}) = 0
    BY TotalOfNothing DEF SumOf
  <2> QED BY <1>1, <2>1 DEF PreviousBalance
<1>2. CASE thread[t].seen # NoAccount
  BY <1>2 DEF SeenCountsEachOnce, Commits, CommitAnswering, PreviousBalance
<1> QED
  BY <1>1, <1>2

(* What is made of recorded transactions stays so in every step.           *)
LEMMA CountedStays ==
    ASSUME IInv, FinitelyRecorded, [AccountNext]_accountVars,
           NEW a \in AccountIds, NEW counted \in SUBSET RecordedOn(a)
    PROVE  counted \in SUBSET RecordedOn(a)' /\ SumOf(counted)' = SumOf(counted)
<1>1. CASE LedgerUntouched
  BY <1>1 DEF LedgerUntouched, SumOf, RecordedOn, Recorded
<1>2. ASSUME NEW t \in Threads, Commits(t)
      PROVE  counted \in SUBSET RecordedOn(a)' /\ SumOf(counted)' = SumOf(counted)
  <2>1. PICK c : c = thread[t].command
    OBVIOUS
  <2>2. /\ RecordedOn(a)' = IF a = c.accountId THEN RecordedOn(a) \cup {c.eventId}
                            ELSE RecordedOn(a)
        /\ \A X \in SUBSET RecordedOn(a) : SumOf(X)' = SumOf(X)
    BY <1>2, <2>1, RecordingAdds
  <2> QED BY <2>2
<1> QED
  BY <1>1, <1>2, StepKinds

(* A commit counts its own event once more than what it builds on, and its *)
(* event was not counted before: it was not recorded.                      *)
LEMMA CountsStep ==
    ASSUME IInv, FinitelyRecorded, BalanceCountsEachOnce, SeenCountsEachOnce,
           [AccountNext]_accountVars
    PROVE  BalanceCountsEachOnce'
<1> SUFFICES ASSUME NEW a \in AccountIds
             PROVE  \E counted \in SUBSET RecordedOn(a)' : Balance(a)' = SumOf(counted)'
  BY DEF BalanceCountsEachOnce
<1>1. PICK counted \in SUBSET RecordedOn(a) : Balance(a) = SumOf(counted)
  BY DEF BalanceCountsEachOnce
<1>2. CASE Balance(a)' = Balance(a)
  BY <1>1, <1>2, CountedStays
<1>3. ASSUME NEW t \in Threads, Commits(t), Balance(a)' # Balance(a)
      PROVE  \E X \in SUBSET RecordedOn(a)' : Balance(a)' = SumOf(X)'
  <2>1. PICK c : c = thread[t].command
    OBVIOUS
  <2>2. a = c.accountId /\ Balance(a)' = PreviousBalance(t) + Delta(c)
    BY <1>3, <2>1, CommitFacts DEF IInv, Balance, NewBalance
  <2>3. /\ c.accountId = thread[t].path
        /\ RecordedOn(a)' = RecordedOn(a) \cup {c.eventId}
        /\ \A X \in SUBSET RecordedOn(a) : SumOf(X \cup {c.eventId})' = SumOf(X) + Delta(c)
    BY <1>3, <2>1, <2>2, RecordingAdds
  <2>4. PICK X \in SUBSET RecordedOn(a) : PreviousBalance(t) = SumOf(X)
    BY <1>3, <2>2, <2>3, PreviousCounts
  <2>5. PICK Y : Y = X \cup {c.eventId}
    OBVIOUS
  <2>6. Y \in SUBSET RecordedOn(a)' /\ Balance(a)' = SumOf(Y)'
    BY <2>2, <2>3, <2>4, <2>5
  <2> QED BY <2>6
<1>4. LedgerUntouched => Balance(a)' = Balance(a)
  BY DEF LedgerUntouched, Balance
<1> QED
  BY <1>2, <1>3, <1>4, StepKinds

(* A thread reads a balance that is so made, and keeps it until it commits. *)
LEMMA SeenCountsStep ==
    ASSUME IInv, FinitelyRecorded, BalanceCountsEachOnce, SeenCountsEachOnce,
           [AccountNext]_accountVars, BusyThreads'
    PROVE  SeenCountsEachOnce'
<1> SUFFICES ASSUME NEW t \in Threads, thread'[t].pc = "commit",
                    thread'[t].seen # NoAccount, NEW path, path = thread'[t].path
             PROVE  \E X \in SUBSET RecordedOn(path)' : thread'[t].seen.balance = SumOf(X)'
  BY DEF SeenCountsEachOnce
<1>1. path = thread[t].path /\ path \in AccountIds
  BY SeenIsRead DEF IInv, BusyThreads
<1>2. PICK X \in SUBSET RecordedOn(path) : thread'[t].seen.balance = SumOf(X)
  <2>1. CASE thread[t].pc = "commit" /\ thread'[t].seen = thread[t].seen
    BY <1>1, <2>1 DEF SeenCountsEachOnce
  <2>2. CASE thread'[t].seen = accounts[path]
    <3>1. Balance(path) = thread'[t].seen.balance
      BY <2>2 DEF Balance
    <3> QED BY <1>1, <3>1 DEF BalanceCountsEachOnce
  <2> QED BY <1>1, <2>1, <2>2, SeenIsRead DEF IInv
<1>3. X \in SUBSET RecordedOn(path)' /\ SumOf(X)' = SumOf(X)
  BY <1>1, CountedStays
<1> QED
  BY <1>2, <1>3

SumInv ==
    RaceInv /\ FinitelyRecorded /\ SumsUnlessOverlap /\ BalanceCountsEachOnce
            /\ SeenCountsEachOnce

(* The service starts with empty tables, where every sum is zero.          *)
LEMMA InitSumInv == AccountInit => SumInv
<1> SUFFICES ASSUME AccountInit
             PROVE  SumInv
  OBVIOUS
<1>1. RaceInv
  BY InitRaceInv
<1>2. \A a \in AccountIds : RecordedOn(a) = {} /\ Balance(a) = 0
  BY DEF AccountInit, RecordedOn, Recorded, Balance
<1>3. SumOf({}) = 0
  BY TotalOfNothing DEF SumOf
<1>4. FinitelyRecorded
  BY <1>2, FS_EmptySet DEF FinitelyRecorded
<1>5. SumsUnlessOverlap
  BY <1>2, <1>3 DEF SumsUnlessOverlap
<1>6. BalanceCountsEachOnce
  BY <1>2, <1>3 DEF BalanceCountsEachOnce
<1>7. SeenCountsEachOnce
  BY DEF AccountInit, IdleThread, SeenCountsEachOnce
<1> QED
  BY <1>1, <1>4, <1>5, <1>6, <1>7 DEF SumInv

(* Every step keeps what the balances are made of.                         *)
LEMMA StepSumInv == SumInv /\ [AccountNext]_accountVars => SumInv'
<1> SUFFICES ASSUME SumInv, [AccountNext]_accountVars
             PROVE  SumInv'
  OBVIOUS
<1>1. RaceInv'
  BY StepRaceInv DEF SumInv
<1>2. FinitelyRecorded'
  BY FinitelyStep DEF SumInv, RaceInv, TrailInv
<1>3. SumsUnlessOverlap'
  BY SumsStep DEF SumInv, RaceInv, TrailInv
<1>4. BalanceCountsEachOnce'
  BY CountsStep DEF SumInv, RaceInv, TrailInv
<1>5. SeenCountsEachOnce'
  BY <1>1, SeenCountsStep DEF SumInv, RaceInv, TrailInv, IInv
<1> QED
  BY <1>1, <1>2, <1>3, <1>4, <1>5 DEF SumInv

(* The inductive invariant of the balances.                                *)
THEOREM SumInvariance == AccountSpec => []SumInv
  BY InitSumInv, StepSumInv, PTL DEF AccountSpec

(* Every balance is the sum of all recorded transactions of its account,   *)
(* or two audited changes of the account start from one balance.           *)
THEOREM LostUpdatesAudited == AccountSpec => []LostUpdateIsAudited
<1>1. SumInv => LostUpdateIsAudited
  BY DEF SumInv, SumsUnlessOverlap, LostUpdateIsAudited, Overlap, Changes
<1> QED
  BY SumInvariance, <1>1, PTL

(* Every balance is the sum of some recorded transactions of its account,  *)
(* each counted once, however many threads overwrite each other.           *)
THEOREM CountedOnce == AccountSpec => []BalanceCountsEachOnce
<1>1. SumInv => BalanceCountsEachOnce
  BY DEF SumInv
<1> QED
  BY SumInvariance, <1>1, PTL

-----------------------------------------------------------------------------
(* An event changes the balance of its account once.                       *)
OneChangePerEvent ==
    \A a \in AccountIds : \A r1, r2 \in Changes(a) : r1.eventId = r2.eventId => r1 = r2

(* A commit audits the change of an event that was not recorded, and all   *)
(* audited ones were.                                                      *)
LEMMA OneChangeStep ==
    ASSUME IInv, AuditedIsRecorded, OneChangePerEvent, [AccountNext]_accountVars
    PROVE  OneChangePerEvent'
<1>1. CASE LedgerUntouched
  <2>1. \A a : Changes(a)' = Changes(a)
    BY <1>1, UntouchedTrail
  <2> QED BY <2>1 DEF OneChangePerEvent
<1>2. ASSUME NEW t \in Threads, Commits(t)
      PROVE  OneChangePerEvent'
  <2>1. PICK path : path = thread[t].path
    OBVIOUS
  <2>2. PICK r : /\ Changes(path)' = Changes(path) \cup {r}
                 /\ r.eventId = thread[t].command.eventId
    BY <1>2, <2>1, CommitAudits DEF IInv
  <2>3. \A a \in AccountIds : a # path => Changes(a)' = Changes(a)
    BY <1>2, <2>1, CommitAudits DEF IInv
  <2>4. ~Recorded(r.eventId)
    BY <1>2, <2>2, CommitFacts DEF IInv, Recorded
  <2>5. \A a \in AccountIds : \A r1 \in Changes(a) : Recorded(r1.eventId)
    BY DEF AuditedIsRecorded, RecordedFor, Changes, LedgerActions
  <2>6. ASSUME NEW a \in AccountIds, NEW r1 \in Changes(a)', NEW r2 \in Changes(a)',
               r1.eventId = r2.eventId
        PROVE  r1 = r2
    <3>1. CASE a # path
      BY <2>3, <2>6, <3>1 DEF OneChangePerEvent
    <3>2. CASE a = path
      <4>1. \A r3 \in Changes(a)' : r3 = r \/ r3 \in Changes(a)
        BY <2>2, <3>2
      <4> QED BY <2>4, <2>5, <2>6, <4>1 DEF OneChangePerEvent
    <3> QED BY <3>1, <3>2
  <2> QED BY <2>6 DEF OneChangePerEvent
<1> QED
  BY <1>1, <1>2, StepKinds

(* Where no two events share an account, retries included, every balance   *)
(* is the sum of the ledger: a change that overlaps another needs a second *)
(* event.                                                                  *)
THEOREM BalanceExactPerEvent ==
    ASSUME \A c, d \in Commands : c.accountId = d.accountId => c.eventId = d.eventId
    PROVE  AccountSpec => []BalanceMatchesLedger
<1>1. AccountInit => OneChangePerEvent
  BY DEF AccountInit, OneChangePerEvent, Changes
<1>2. SumInv /\ OneChangePerEvent /\ [AccountNext]_accountVars => OneChangePerEvent'
  BY OneChangeStep DEF SumInv, RaceInv, TrailInv
<1>3. SumInv /\ OneChangePerEvent => BalanceMatchesLedger
  <2> SUFFICES ASSUME SumInv, OneChangePerEvent, NEW a \in AccountIds
               PROVE  ~Overlap(a)
    BY DEF SumInv, SumsUnlessOverlap, BalanceMatchesLedger
  <2>1. \A r \in Changes(a) : \E c \in Commands : c.eventId = r.eventId /\ c.accountId = a
    BY DEF SumInv, RaceInv, AuditedIsRecorded, RecordedFor, Changes, LedgerActions
  <2>2. \A r1, r2 \in Changes(a) : r1.eventId = r2.eventId
    BY <2>1
  <2> QED BY <2>2 DEF OneChangePerEvent, Overlap
<1> QED
  BY SumInvariance, <1>1, <1>2, <1>3, PTL DEF AccountSpec

-----------------------------------------------------------------------------
(* What a thread is about to build on is the balance of the account.       *)
SeenIsBalance ==
    \A t \in Threads :
        thread[t].pc = "commit" /\ thread[t].seen # NoAccount =>
            thread[t].seen.balance = accounts[thread[t].path].balance

(* A single thread has nobody to overtake it between its read and its      *)
(* commit.                                                                 *)
LEMMA SeenAloneStep ==
    ASSUME \A t, u \in Threads : t = u,
           IInv, SeenIsBalance, [AccountNext]_accountVars
    PROVE  SeenIsBalance'
<1> SUFFICES ASSUME NEW t \in Threads, thread'[t].pc = "commit", thread'[t].seen # NoAccount
             PROVE  thread'[t].seen.balance = accounts'[thread'[t].path].balance
  BY DEF SeenIsBalance
<1>1. ASSUME NEW u \in Threads, Commits(u)
      PROVE  FALSE
  <2>1. u = t
    OBVIOUS
  <2>2. thread'[t].pc = "done"
    BY <1>1, <2>1 DEF Commits, CommitAnswering, Answer, IInv, TypeOK, ThreadType
  <2> QED BY <2>2
<1>2. accounts' = accounts
  BY <1>1, StepKinds DEF LedgerUntouched
<1> QED
  BY <1>2, SeenIsRead DEF IInv, SeenIsBalance

(* So with a single thread every balance is the sum of the ledger, in      *)
(* whatever order events arrive and however often they are retried: the    *)
(* lost updates come from concurrent requests and from nothing else.       *)
THEOREM BalanceExactAlone ==
    ASSUME \A t, u \in Threads : t = u
    PROVE  AccountSpec => []BalanceMatchesLedger
<1> DEFINE Inv == SumInv /\ SeenIsBalance /\ BalanceMatchesLedger
<1>1. AccountInit => Inv
  <2> SUFFICES ASSUME AccountInit PROVE Inv
    OBVIOUS
  <2>1. SumInv
    BY InitSumInv
  <2>2. SeenIsBalance
    BY DEF AccountInit, IdleThread, SeenIsBalance
  <2>3. \A a \in AccountIds : RecordedOn(a) = {} /\ Balance(a) = 0
    BY DEF AccountInit, RecordedOn, Recorded, Balance
  <2>4. SumOf({}) = 0
    BY TotalOfNothing DEF SumOf
  <2> QED BY <2>1, <2>2, <2>3, <2>4 DEF BalanceMatchesLedger
<1>2. Inv /\ [AccountNext]_accountVars => Inv'
  <2> SUFFICES ASSUME Inv, [AccountNext]_accountVars PROVE Inv'
    OBVIOUS
  <2>1. SumInv'
    BY StepSumInv
  <2>2. SeenIsBalance'
    BY SeenAloneStep DEF SumInv, RaceInv, TrailInv
  <2>3. ASSUME NEW a \in AccountIds
        PROVE  Balance(a)' = SumOf(RecordedOn(a))'
    <3>1. Balance(a) = SumOf(RecordedOn(a))
      BY DEF BalanceMatchesLedger
    <3>2. CASE LedgerUntouched
      BY <3>1, <3>2 DEF LedgerUntouched, Balance, SumOf, RecordedOn, Recorded
    <3>3. ASSUME NEW t \in Threads, Commits(t)
          PROVE  Balance(a)' = SumOf(RecordedOn(a))'
      <4>1. accounts[thread[t].path] = NoAccount <=> thread[t].seen = NoAccount
        BY <3>3, CommitAudits DEF SumInv, RaceInv, TrailInv, IInv
      <4>2. a = thread[t].path => PreviousBalance(t) = Balance(a)
        BY <3>3, <4>1
        DEF PreviousBalance, Balance, SeenIsBalance, Commits, CommitAnswering
      <4> QED
        BY <3>1, <3>3, <4>2, CommitKeepsSum DEF SumInv, RaceInv, TrailInv
    <3> QED BY <3>2, <3>3, StepKinds
  <2> QED BY <2>1, <2>2, <2>3 DEF BalanceMatchesLedger
<1>3. Inv => BalanceMatchesLedger
  OBVIOUS
<1> HIDE DEF Inv
<1> QED
  BY <1>1, <1>2, <1>3, PTL DEF AccountSpec
=============================================================================
