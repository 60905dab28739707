--------------------------- MODULE EventLifecycle ---------------------------
(***************************************************************************)
(* What the two services promise together about one event: it is accepted  *)
(* once, with contents that never change; it enters the ledger at most     *)
(* once, as accepted and never before; it is shown as APPLIED only after   *)
(* that; and APPLIED and FAILED are final.                                 *)
(*                                                                         *)
(* An event may still enter the ledger after it was shown as FAILED: that  *)
(* is the consistency trade-off the design document names.                 *)
(***************************************************************************)
CONSTANTS
    EventIds,
    Contents,  \* what an event says: account, type, amount, currency, time
    Nothing    \* no contents

VARIABLES
    status,   \* unknown, open, APPLIED or FAILED
    content,  \* what the client sent
    ledger    \* what the Account Service holds

lifecycleVars == <<status, content, ledger>>

Accept(e) ==
    /\ status[e] = "unknown"
    /\ status' = [status EXCEPT ![e] = "open"]
    /\ content' = [content EXCEPT ![e] = content'[e]]
    /\ content'[e] \in Contents
    /\ UNCHANGED ledger

Enter(e) ==
    /\ status[e] \in {"open", "FAILED"}
    /\ ledger[e] = Nothing
    /\ ledger' = [ledger EXCEPT ![e] = content[e]]
    /\ UNCHANGED <<status, content>>

Confirm(e) ==
    /\ status[e] = "open"
    /\ ledger[e] # Nothing
    /\ status' = [status EXCEPT ![e] = "APPLIED"]
    /\ UNCHANGED <<content, ledger>>

GiveUp(e) ==
    /\ status[e] = "open"
    /\ status' = [status EXCEPT ![e] = "FAILED"]
    /\ UNCHANGED <<content, ledger>>

LifecycleInit ==
    /\ status = [e \in EventIds |-> "unknown"]
    /\ content = [e \in EventIds |-> Nothing]
    /\ ledger = [e \in EventIds |-> Nothing]

LifecycleNext ==
    \E e \in EventIds : Accept(e) \/ Enter(e) \/ Confirm(e) \/ GiveUp(e)

LifecycleSpec == LifecycleInit /\ [][LifecycleNext]_lifecycleVars
=============================================================================
