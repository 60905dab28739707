--------------------------- MODULE MCEventGateway ---------------------------
(***************************************************************************)
(* Instances of EventGateway for TLC.                                      *)
(***************************************************************************)
EXTENDS EventGateway, TLC

CONSTANTS e1, e2, a1, a2, usd, eur

Utc(clock) == [clock |-> clock, offset |-> 0]

Command(e, a, amount, currency, timestamp, metadata) ==
    [eventId |-> e, accountId |-> a, type |-> "CREDIT", amount |-> amount,
     currency |-> currency, eventTimestamp |-> timestamp, metadata |-> metadata]

Symmetry == Permutations(Threads) \cup Permutations(Requests)

(* One event and a second body under its eventId.                          *)
ReusedEventId ==
    {Command(e1, a1, 1, usd, Utc(10), NoMetadata),
     Command(e1, a1, 3, usd, Utc(10), NoMetadata)}

(* Two events that want one account in two currencies: whichever comes     *)
(* second is rejected for good.                                            *)
TwoCurrencies ==
    {Command(e1, a1, 1, usd, Utc(10), NoMetadata),
     Command(e2, a1, 2, eur, Utc(11), NoMetadata)}

OneCommand == {Command(e1, a1, 1, usd, Utc(10), NoMetadata)}

WithOffset == {Command(e1, a1, 1, usd, [clock |-> 10, offset |-> 2], NoMetadata)}
=============================================================================
