------------------------------ MODULE Queries -------------------------------
(***************************************************************************)
(* What clients read back about one account while events arrive out of     *)
(* order: GET /events of the Gateway, page by page, and GET /accounts/{id} *)
(* of the Account Service, which reads the account and its recent          *)
(* transactions in two statements of their own.  A transaction is applied  *)
(* in one step here; AccountService shows what concurrent ones do.         *)
(*                                                                         *)
(* NUMERIC(19, 4) is a float in SQLite: an amount is stored as the nearest *)
(* number of MantissaBits bits and read back rounded to the scale again.   *)
(* Amounts and balances count units of 1 / Scale.                          *)
(***************************************************************************)
EXTENDS Integers, FiniteSets, Functions

CONSTANTS
    EventIds,      \* numbers: rows are ordered by them
    Clocks,        \* the clock readings stored of timestamps
    Deltas,        \* credits, and debits below zero
    NoRow,
    PageSizes,     \* the limits clients ask GET /events for
    RecentLimit,   \* settings.recent_transactions_limit
    MantissaBits,  \* 53
    Scale,         \* 10000
    ExactDigits    \* 15: decimals of so many digits survive the float

EventRowType == [clock : Clocks, delta : Deltas]

Size(v) == IF v < 0 THEN -v ELSE v

ASSUME QueriesAssumption ==
    /\ EventIds \subseteq Nat /\ Clocks \subseteq Int /\ Deltas \subseteq Int \ {0}
    /\ NoRow \notin EventRowType /\ NoRow \notin Int
    /\ PageSizes \subseteq Nat \ {0}
    /\ {RecentLimit, MantissaBits, Scale, ExactDigits} \subseteq Nat \ {0}
    /\ 10 ^ ExactDigits < 2 ^ (MantissaBits - 1) /\ Scale < 2 ^ MantissaBits
    /\ \A delta \in Deltas : Size(delta) < Scale * 2 ^ (MantissaBits + MantissaBits)

VARIABLES
    events,        \* the events table of the Gateway
    transactions,  \* the amount each transactions row reads back as
    balance,       \* what accounts.balance reads back as
    listing,       \* a client going through the pages of GET /events
    view           \* a request for GET /accounts/{id}

vars == <<events, transactions, balance, listing, view>>

ListingType ==
    [pc : {"idle", "paging", "done"}, limit : PageSizes \cup {0}, offset : Nat,
     present : SUBSET EventIds, seen : SUBSET EventIds]

NoListing == [pc |-> "idle", limit |-> 0, offset |-> 0, present |-> {}, seen |-> {}]

(* counted: the transactions the balance it read includes.                 *)
ViewType ==
    [pc : {"idle", "account", "done"}, counted : SUBSET EventIds, recent : SUBSET EventIds]

NoView == [pc |-> "idle", counted |-> {}, recent |-> {}]

Recorded == {e \in EventIds : events[e] # NoRow}
Applied == {e \in EventIds : transactions[e] # NoRow}

-----------------------------------------------------------------------------
(* Storage.                                                                *)

(* n / d to the nearest integer, halves to the even one.                   *)
Rounded(n, d) ==
    LET q == n \div d
        twice == 2 * (n % d)
    IN IF twice > d \/ (twice = d /\ q % 2 = 1) THEN q + 1 ELSE q

(* v / Scale has no bit beyond the mantissa if its last one stands for 2^k.  *)
Fits(v, k) ==
    IF k >= 0 THEN v < Scale * 2 ^ (MantissaBits + k)
              ELSE v * 2 ^ (-k) < Scale * 2 ^ MantissaBits

(* The power of two a float of the size of v / Scale is a multiple of.     *)
Spacing(v) ==
    CHOOSE k \in -MantissaBits..MantissaBits :
        Fits(v, k) /\ \A l \in -MantissaBits..(k - 1) : ~Fits(v, l)

(* Variant of FloatOf: the digits behind the scale are cut off.            *)
FloatOfTruncated(v) ==
    LET k == Spacing(v)
    IN IF k >= 0 THEN Rounded(v, Scale * 2 ^ k) * 2 ^ k * Scale
                 ELSE (Rounded(v * 2 ^ (-k), Scale) * Scale) \div 2 ^ (-k)

(* What v > 0 reads back as after it was stored as a float.                *)
FloatOf(v) ==
    LET k == Spacing(v)
    IN IF k >= 0 THEN Rounded(v, Scale * 2 ^ k) * 2 ^ k * Scale
                 ELSE Rounded(Rounded(v * 2 ^ (-k), Scale) * Scale, 2 ^ (-k))

Stored(v) == IF v = 0 THEN 0 ELSE IF v > 0 THEN FloatOf(v) ELSE -FloatOf(-v)

-----------------------------------------------------------------------------
(* The two orders.  A listing is the set of its rows: no client looks at   *)
(* the order within a page.                                                *)

(* event_timestamp.asc(), event_id.asc()                                   *)
Earlier(e, f) ==
    \/ events[e].clock < events[f].clock
    \/ events[e].clock = events[f].clock /\ e < f

(* How many rows the ascending order puts before e, the descending after.  *)
Rank(e) == Cardinality({f \in Recorded : Earlier(f, e)})
RankBack(e) == Cardinality({f \in Applied : Earlier(e, f)})

(* Variant of Page: the offset counts pages.                               *)
PageByNumber(offset, limit) ==
    {e \in Recorded : Rank(e) \in (offset * limit)..(offset * limit + limit - 1)}

(* list_for_account: the rows from place offset on, at most limit of them. *)
Page(offset, limit) == {e \in Recorded : Rank(e) \in offset..(offset + limit - 1)}

(* recent_transactions: event_timestamp.desc(), event_id.desc(), and the   *)
(* first RecentLimit rows.                                                 *)
Recent == {e \in Applied : RankBack(e) < RecentLimit}

-----------------------------------------------------------------------------
(* Writes.                                                                 *)

(* The Gateway commits an event.                                           *)
Record(e, clock, delta) ==
    /\ e \notin Recorded
    /\ events' = [events EXCEPT ![e] = [clock |-> clock, delta |-> delta]]
    /\ UNCHANGED <<transactions, balance, listing, view>>

(* The Account Service commits its transaction and the new balance, sooner *)
(* or later and in any order.                                              *)
Apply(e) ==
    /\ e \in Recorded \ Applied
    /\ transactions' = [transactions EXCEPT ![e] = Stored(events[e].delta)]
    /\ balance' = Stored(balance + events[e].delta)
    /\ UNCHANGED <<events, listing, view>>

(* Reads.                                                                  *)

StartListing(limit) ==
    /\ listing.pc = "idle"
    /\ listing' = [NoListing EXCEPT !.pc = "paging", !.limit = limit, !.present = Recorded]
    /\ UNCHANGED <<events, transactions, balance, view>>

(* The client asks for the next page until one is not full.                *)
ReadPage ==
    LET items == Page(listing.offset, listing.limit) IN
    /\ listing.pc = "paging"
    /\ listing' = [listing EXCEPT
                      !.pc = IF Cardinality(items) < listing.limit THEN "done" ELSE "paging",
                      !.offset = @ + listing.limit,
                      !.seen = @ \cup items]
    /\ UNCHANGED <<events, transactions, balance, view>>

EndListing ==
    /\ listing.pc = "done"
    /\ listing' = NoListing
    /\ UNCHANGED <<events, transactions, balance, view>>

(* Variant of GetAccount: the transactions are read first.                 *)
GetAccountSwapped ==
    /\ \/ /\ view.pc = "idle"
          /\ Applied # {}
          /\ view' = [NoView EXCEPT !.pc = "account", !.recent = Recent]
       \/ /\ view.pc = "account"
          /\ view' = [view EXCEPT !.pc = "done", !.counted = Applied]
    /\ UNCHANGED <<events, transactions, balance, listing>>

(* get_account: the account, or 404 without one, and then its recent       *)
(* transactions; commits may lie between the two statements.               *)
GetAccount ==
    /\ \/ /\ view.pc = "idle"
          /\ Applied # {}
          /\ view' = [NoView EXCEPT !.pc = "account", !.counted = Applied]
       \/ /\ view.pc = "account"
          /\ view' = [view EXCEPT !.pc = "done", !.recent = Recent]
    /\ UNCHANGED <<events, transactions, balance, listing>>

EndView ==
    /\ view.pc = "done"
    /\ view' = NoView
    /\ UNCHANGED <<events, transactions, balance, listing>>

-----------------------------------------------------------------------------
Init ==
    /\ events = [e \in EventIds |-> NoRow]
    /\ transactions = [e \in EventIds |-> NoRow]
    /\ balance = 0
    /\ listing = NoListing
    /\ view = NoView

Next ==
    \/ \E e \in EventIds, clock \in Clocks, delta \in Deltas : Record(e, clock, delta)
    \/ \E e \in EventIds : Apply(e)
    \/ \E limit \in PageSizes : StartListing(limit)
    \/ ReadPage
    \/ EndListing
    \/ GetAccount
    \/ EndView

Spec == Init /\ [][Next]_vars

-----------------------------------------------------------------------------
(* Properties.                                                             *)

(* A client that pages to the end has seen every event that was there when *)
(* it began, whatever arrived meanwhile and wherever it sorts: events are  *)
(* never deleted and never move past one another.                          *)
PagingNeverSkips == listing.pc = "done" => listing.present \subseteq listing.seen

(* The balance of an account view is never ahead of its transactions: what *)
(* it counts is listed, or older than everything in a list that is full.   *)
BalanceNotAhead ==
    view.pc = "done" =>
        \A e \in view.counted \ view.recent :
            /\ Cardinality(view.recent) = RecentLimit
            /\ \A f \in view.recent : Earlier(e, f)

(* While the applied amounts add up to at most ExactDigits digits, nothing *)
(* is lost between the float and the decimals: every amount reads back as  *)
(* the client sent it, which is what makes its retry a replay, and the     *)
(* balance is their exact sum in whatever order they were applied.         *)
AmountsReadBackExactly ==
    SumFunction([e \in Applied |-> Size(events[e].delta)]) < 10 ^ ExactDigits
    => /\ \A e \in Applied : transactions[e] = events[e].delta
       /\ balance = SumFunction([e \in Applied |-> events[e].delta])
=============================================================================
