----------------------------- MODULE LedgerData -----------------------------
(***************************************************************************)
(* The data both services exchange and store: a financial event as the     *)
(* request schemas accept it, the row each database makes of it, and the   *)
(* comparison that tells a replay from a conflict.                         *)
(*                                                                         *)
(* An eventTimestamp is a wall clock reading with its UTC offset.  The     *)
(* SQLite DateTime type keeps the clock reading and drops the offset, so   *)
(* a row carries the clock alone.  Amounts count units of 0.0001, the      *)
(* scale of NUMERIC(19, 4).                                                *)
(***************************************************************************)
EXTENDS Integers

CONSTANTS
    EventIds, AccountIds, Currencies,
    Metadata,       \* the non-empty metadata objects
    NoMetadata,     \* metadata absent or null (None)
    EmptyMetadata,  \* metadata {}, which Python takes for false
    Commands        \* the validated request bodies the environment may send

Clock == Int

(* A request body that passed the schema: amount > 0, a currency, an aware *)
(* timestamp.                                                              *)
CommandType ==
    [eventId : EventIds, accountId : AccountIds, type : {"CREDIT", "DEBIT"},
     amount : Nat \ {0}, currency : Currencies,
     eventTimestamp : [clock : Clock, offset : Int],
     metadata : Metadata \cup {NoMetadata, EmptyMetadata}]

ASSUME CommandsAssumption == Commands \subseteq CommandType

(* account.balance changes by +amount or by -amount.                       *)
Delta(c) == IF c.type = "CREDIT" THEN c.amount ELSE -c.amount

(* _utc_naive of an aware timestamp, the one of a command.                 *)
UtcNaive(timestamp) == timestamp.clock - timestamp.offset

(* Variant of TransactionRow: the signed amount is stored.                 *)
TransactionRowSigned(c) ==
    [accountId |-> c.accountId, type |-> c.type, amount |-> Delta(c),
     currency |-> c.currency, eventTimestamp |-> c.eventTimestamp.clock]

(* The transactions row of the Account Service.                            *)
TransactionRow(c) ==
    [accountId |-> c.accountId, type |-> c.type, amount |-> c.amount,
     currency |-> c.currency, eventTimestamp |-> c.eventTimestamp.clock]

TransactionRowType ==
    [accountId : AccountIds, type : {"CREDIT", "DEBIT"}, amount : Nat \ {0},
     currency : Currencies, eventTimestamp : Clock]

(* same_transaction: a row's timestamp has no tzinfo, so _utc_naive leaves *)
(* it as it is; the command's is converted.                                *)
SameTransaction(row, c) ==
    /\ row.accountId = c.accountId
    /\ row.type = c.type
    /\ row.amount = c.amount
    /\ row.currency = c.currency
    /\ row.eventTimestamp = UtcNaive(c.eventTimestamp)

(* The immutable columns of the Gateway's events row.                      *)
EventRow(c) ==
    [accountId |-> c.accountId, type |-> c.type, amount |-> c.amount,
     currency |-> c.currency, eventTimestamp |-> c.eventTimestamp.clock,
     metadata |-> c.metadata]

(* stored or None: an empty object reads back as None.                     *)
OrNone(metadata) == IF metadata = EmptyMetadata THEN NoMetadata ELSE metadata

(* same_event                                                              *)
SameEvent(row, c) ==
    /\ row.accountId = c.accountId
    /\ row.type = c.type
    /\ row.amount = c.amount
    /\ row.currency = c.currency
    /\ row.eventTimestamp = UtcNaive(c.eventTimestamp)
    /\ OrNone(row.metadata) = c.metadata
=============================================================================
