---------------------------- MODULE RateLimiter ----------------------------
(***************************************************************************)
(* The Gateway's sliding-window rate limiter and the middleware that asks  *)
(* it: one log of admission times per client address, in the memory of the *)
(* process.                                                                *)
(*                                                                         *)
(* Time is counted in ticks, Second of them to a second, so that the       *)
(* rounding of Retry-After to whole seconds is part of the model.          *)
(***************************************************************************)
EXTENDS Integers, Sequences

CONSTANTS
    Keys,      \* client addresses
    Limit,     \* rate_limit_requests
    Window,    \* rate_limit_window_seconds, in ticks
    Second,    \* ticks in a second
    NoDecision \* the key has not been checked yet

ASSUME LimiterAssumption ==
    /\ Limit \in Nat \ {0}
    /\ Window \in Nat \ {0}
    /\ Second \in Nat \ {0}

VARIABLES
    now,       \* time.monotonic()
    requests,  \* the log of each key, oldest admission first
    admitted,  \* every admission of each key since the process started
    decision   \* the latest decision on each key, and when it was taken

vars == <<now, requests, admitted, decision>>

DecisionType ==
    [at : Nat, allowed : BOOLEAN, remaining : Nat, retryAfter : Nat, resetAfter : Nat]

ASSUME DecisionAssumption == NoDecision \notin DecisionType

-----------------------------------------------------------------------------
(* How many entries at the front of the log the loop pops: those not after *)
(* the cutoff.                                                             *)
Expired(log, cutoff) ==
    CHOOSE n \in 0..Len(log) :
        /\ \A i \in 1..n : log[i] <= cutoff
        /\ n < Len(log) => log[n + 1] > cutoff

(* Variant of Live: an entry exactly one window old stays.                 *)
LiveInclusive(log, time) ==
    SubSeq(log, Expired(log, time - Window - 1) + 1, Len(log))

(* Variant of Live: the log is cleared once its oldest entry has expired.  *)
LiveCleared(log, time) ==
    IF log # <<>> /\ log[1] <= time - Window THEN <<>> ELSE log

(* What is left of the log once they are popped.                           *)
Live(log, time) == SubSeq(log, Expired(log, time - Window) + 1, Len(log))

(* Variant of WholeSeconds: rounded down.                                  *)
WholeSecondsFloor(ticks) ==
    LET floor == ticks \div Second IN IF floor < 1 THEN 1 ELSE floor

(* max(1, math.ceil(x)), x being seconds.                                  *)
WholeSeconds(ticks) ==
    LET ceiling == (ticks + Second - 1) \div Second
    IN IF ceiling < 1 THEN 1 ELSE ceiling

(* Seconds until the oldest entry of a log expires.                        *)
UntilOldestExpires(log) == WholeSeconds(log[1] + Window - now)

(* Variant of Check: a full log admits one more.                           *)
CheckOffByOne(k) ==
    LET live == Live(requests[k], now) IN
    /\ Len(live) <= Limit
    /\ requests' = [requests EXCEPT ![k] = Append(live, now)]
    /\ admitted' = [admitted EXCEPT ![k] = Append(@, now)]
    /\ decision' = [decision EXCEPT ![k] =
         [at |-> now, allowed |-> TRUE, remaining |-> Limit - (Len(live) + 1),
          retryAfter |-> 0, resetAfter |-> 0]]
    /\ UNCHANGED now

-----------------------------------------------------------------------------
(* A request of client k that is not exempt: the log is pruned, then the   *)
(* request is refused with 429 and a Retry-After, or logged and let in.    *)
(* The decision is the last step of the middleware before the handler.     *)
Check(k) ==
    LET live == Live(requests[k], now) IN
    /\ IF Len(live) >= Limit
       THEN /\ requests' = [requests EXCEPT ![k] = live]
            /\ decision' = [decision EXCEPT ![k] =
                 [at |-> now, allowed |-> FALSE, remaining |-> 0,
                  retryAfter |-> UntilOldestExpires(live),
                  resetAfter |-> UntilOldestExpires(live)]]
            /\ UNCHANGED admitted
       ELSE /\ requests' = [requests EXCEPT ![k] = Append(live, now)]
            /\ decision' = [decision EXCEPT ![k] =
                 [at |-> now, allowed |-> TRUE, remaining |-> Limit - (Len(live) + 1),
                  retryAfter |-> 0,
                  resetAfter |-> UntilOldestExpires(Append(live, now))]]
            /\ admitted' = [admitted EXCEPT ![k] = Append(@, now)]
    /\ UNCHANGED now

(* reset(), or a restart of the process: the logs are in memory only.      *)
Reset ==
    /\ requests' = [k \in Keys |-> <<>>]
    /\ admitted' = [k \in Keys |-> <<>>]
    /\ decision' = [k \in Keys |-> NoDecision]
    /\ UNCHANGED now

Tick ==
    /\ now' = now + 1
    /\ UNCHANGED <<requests, admitted, decision>>

Init ==
    /\ now = 0
    /\ requests = [k \in Keys |-> <<>>]
    /\ admitted = [k \in Keys |-> <<>>]
    /\ decision = [k \in Keys |-> NoDecision]

Next ==
    \/ \E k \in Keys : Check(k)
    \/ Reset
    \/ Tick

Spec == Init /\ [][Next]_vars

-----------------------------------------------------------------------------
(* Properties.                                                             *)

(* Every variable keeps the shape the code gives it.                       *)
TypeOK ==
    /\ now \in Nat
    /\ requests \in [Keys -> Seq(Nat)]
    /\ admitted \in [Keys -> Seq(Nat)]
    /\ decision \in [Keys -> DecisionType \cup {NoDecision}]

(* The limit itself: any Limit + 1 consecutive admissions of one client    *)
(* take at least a window, however its requests are spread.                *)
WindowRespected ==
    \A k \in Keys :
        \A i \in 1..(Len(admitted[k]) - Limit) :
            admitted[k][i + Limit] - admitted[k][i] >= Window

(* A client is refused only when it did use up its limit within the last   *)
(* window: the pruning loses no admission early and keeps none too long.   *)
NoFalseRefusal ==
    \A k \in Keys :
        decision[k] # NoDecision /\ ~decision[k].allowed =>
            /\ Len(admitted[k]) >= Limit
            /\ admitted[k][Len(admitted[k]) - Limit + 1] > decision[k].at - Window

(* The log of a client never outgrows its limit, so the memory of a key is *)
(* bounded.                                                                *)
LogBounded == \A k \in Keys : Len(requests[k]) <= Limit

(* A refused client that waits for Retry-After seconds is let in, and one  *)
(* that comes a whole second earlier is not.                               *)
RetryAfterIsExact ==
    \A k \in Keys :
        decision[k] # NoDecision /\ ~decision[k].allowed =>
            LET wait == decision[k].retryAfter
                Admits == Len(Live(requests[k], now)) < Limit
            IN /\ now >= decision[k].at + wait * Second => Admits
               /\ wait > 1 /\ now <= decision[k].at + (wait - 1) * Second => ~Admits
=============================================================================
