------------------------- MODULE RateLimiter_proofs -------------------------
(***************************************************************************)
(* The rate limit holds for every limit, window and set of clients.        *)
(*                                                                         *)
(* The log of a client is the tail of its admissions, what is no longer in *)
(* it lies at least a window back, and it never holds more than Limit      *)
(* entries.  A new admission therefore comes at least a window after the   *)
(* one Limit places before it, which the pruning has just dropped.  A      *)
(* refusal leaves a full log, and its Retry-After is the time its oldest   *)
(* entry has left, rounded up to whole seconds.                            *)
(***************************************************************************)
EXTENDS RateLimiter, SequenceTheorems, WellFoundedInduction, TLAPS

(* The number of admissions of k that its log no longer holds.             *)
Dropped(k) == Len(admitted[k]) - Len(requests[k])

LogIsTail ==
    \A k \in Keys :
        /\ Dropped(k) >= 0
        /\ \A i \in 1..Len(requests[k]) : requests[k][i] = admitted[k][Dropped(k) + i]

DroppedIsOld ==
    \A k \in Keys : \A i \in 1..Dropped(k) : admitted[k][i] <= now - Window

Shape ==
    /\ now \in Nat
    /\ requests \in [Keys -> Seq(Nat)]
    /\ admitted \in [Keys -> Seq(Nat)]

IInv == Shape /\ LogBounded /\ LogIsTail /\ DroppedIsOld /\ WindowRespected

-----------------------------------------------------------------------------
(* A non-empty set of naturals has a least element.                        *)
LEMMA LeastElement ==
    ASSUME NEW T \in SUBSET Nat, T # {}
    PROVE  \E x \in T : \A y \in T : x <= y
<1>1. PICK Less : Less = OpToRel(<, Nat)
  BY Zenon
<1>2. IsWellFoundedOn(Less, Nat)
  BY <1>1, NatLessThanWellFounded, Zenon
<1>3. \A x, y \in Nat : x < y => <<x, y>> \in Less
  BY <1>1 DEF OpToRel
<1>4. PICK x \in T : \A y \in T : ~(<<y, x>> \in Less)
  BY <1>2, WFMin
<1>5. \A y \in T : x \in Nat /\ y \in Nat /\ ~(y < x)
  BY <1>3, <1>4
<1>6. \A y \in T : x <= y
  BY <1>5
<1> QED
  BY <1>4, <1>6

(* Sorted logs need no assumption here: whatever the entries are, some     *)
(* prefix of them is what the loop pops.                                   *)
LEMMA ExpiredExists ==
    ASSUME NEW log \in Seq(Nat), NEW cutoff \in Int
    PROVE  /\ Expired(log, cutoff) \in 0..Len(log)
           /\ \A i \in 1..Expired(log, cutoff) : log[i] <= cutoff
           /\ Expired(log, cutoff) < Len(log) => log[Expired(log, cutoff) + 1] > cutoff
<1> DEFINE Popped(n) == \A i \in 1..n : log[i] <= cutoff
<1> DEFINE Stops(n) == n < Len(log) => log[n + 1] > cutoff
<1>1. \E n \in 0..Len(log) : Popped(n) /\ Stops(n)
  <2>1. CASE Popped(Len(log))
    <3>1. Len(log) \in 0..Len(log) /\ Stops(Len(log))
      BY LenProperties
    <3> QED BY <2>1, <3>1
  <2>2. CASE ~Popped(Len(log))
    <3> DEFINE Late == {i \in 1..Len(log) : log[i] > cutoff}
    <3>1. Late # {} /\ Late \subseteq Nat
      BY <2>2, ElementOfSeq, LenProperties
    <3>2. PICK i \in Late : \A j \in Late : i <= j
      BY <3>1, LeastElement
    <3>3. i - 1 \in 0..Len(log) /\ Popped(i - 1) /\ Stops(i - 1)
      BY <3>2, ElementOfSeq, LenProperties
    <3> QED BY <3>3
  <2> QED BY <2>1, <2>2
<1> QED
  BY <1>1 DEF Expired

(* What is left of a log once the expired entries are popped: its tail     *)
(* after some position, everything up to which is old, and the oldest      *)
(* entry of which, if any, is not.                                         *)
LEMMA LiveFacts ==
    ASSUME NEW log \in Seq(Nat), NEW time \in Nat
    PROVE  \E n \in 0..Len(log) :
               /\ \A i \in 1..n : log[i] <= time - Window
               /\ n < Len(log) => log[n + 1] > time - Window
               /\ Live(log, time) \in Seq(Nat)
               /\ Len(Live(log, time)) = Len(log) - n
               /\ \A i \in 1..(Len(log) - n) : Live(log, time)[i] = log[n + i]
<1> DEFINE n == Expired(log, time - Window)
<1>1. time - Window \in Int
  BY LimiterAssumption
<1>2. /\ n \in 0..Len(log)
      /\ \A i \in 1..n : log[i] <= time - Window
      /\ n < Len(log) => log[n + 1] > time - Window
  BY <1>1, ExpiredExists
<1>3. n + 1 \in Int /\ Len(log) \in Nat
  BY <1>2, LenProperties
<1>4. \A i \in (n + 1)..Len(log) : log[i] \in Nat
  BY <1>2, <1>3, ElementOfSeq
<1> HIDE DEF n
<1>5. /\ SubSeq(log, n + 1, Len(log)) \in Seq(Nat)
      /\ Len(SubSeq(log, n + 1, Len(log))) = Len(log) - n
      /\ \A i \in 1..(Len(log) - n) : SubSeq(log, n + 1, Len(log))[i] = log[n + i]
  BY <1>2, <1>3, <1>4, SubSeqProperties
<1>6. Live(log, time) = SubSeq(log, n + 1, Len(log))
  BY DEF Live, n
<1> QED
  BY <1>2, <1>5, <1>6

-----------------------------------------------------------------------------
(* The invariant for one client: its log, its admissions, the time.        *)
KeyInv(log, past, time) ==
    LET dropped == Len(past) - Len(log) IN
    /\ log \in Seq(Nat)
    /\ past \in Seq(Nat)
    /\ dropped >= 0
    /\ Len(log) <= Limit
    /\ \A i \in 1..Len(log) : log[i] = past[dropped + i]
    /\ \A i \in 1..dropped : past[i] <= time - Window
    /\ \A i \in 1..(Len(past) - Limit) : past[i + Limit] - past[i] >= Window

(* The inductive invariant is that of every client, and nothing more.      *)
LEMMA IInvIsKeyInv ==
    IInv <=> /\ now \in Nat
             /\ requests = [k \in Keys |-> requests[k]]
             /\ admitted = [k \in Keys |-> admitted[k]]
             /\ \A k \in Keys : KeyInv(requests[k], admitted[k], now)
  BY DEF IInv, Shape, LogBounded, LogIsTail, DroppedIsOld, WindowRespected, Dropped, KeyInv

(* Pruning keeps the invariant of a client.                                *)
LEMMA PruneKeepsKeyInv ==
    ASSUME NEW time \in Nat, NEW log, NEW past, KeyInv(log, past, time)
    PROVE  KeyInv(Live(log, time), past, time)
<1>1. log \in Seq(Nat) /\ past \in Seq(Nat) /\ Len(log) \in Nat /\ Len(past) \in Nat
  BY LenProperties DEF KeyInv
<1>2. PICK n \in 0..Len(log) :
          /\ \A i \in 1..n : log[i] <= time - Window
          /\ Live(log, time) \in Seq(Nat)
          /\ Len(Live(log, time)) = Len(log) - n
          /\ \A i \in 1..(Len(log) - n) : Live(log, time)[i] = log[n + i]
  BY <1>1, LiveFacts
<1> DEFINE dropped == Len(past) - Len(log)
<1>3. /\ dropped \in Nat
      /\ Len(log) <= Limit
      /\ \A i \in 1..Len(log) : log[i] = past[dropped + i]
      /\ \A i \in 1..dropped : past[i] <= time - Window
      /\ \A i \in 1..(Len(past) - Limit) : past[i + Limit] - past[i] >= Window
  BY <1>1 DEF KeyInv
<1>4. Len(past) - Len(Live(log, time)) = dropped + n
  BY <1>1, <1>2
<1> HIDE DEF dropped
<1>5. \A i \in 1..(Len(log) - n) : Live(log, time)[i] = past[dropped + n + i]
  <2> SUFFICES ASSUME NEW i \in 1..(Len(log) - n)
               PROVE  Live(log, time)[i] = past[dropped + n + i]
    OBVIOUS
  <2>1. n + i \in 1..Len(log) /\ Live(log, time)[i] = log[n + i]
    BY <1>1, <1>2
  <2>2. log[n + i] = past[dropped + (n + i)]
    BY <1>3, <2>1
  <2>3. dropped + (n + i) = dropped + n + i
    BY <1>1, <1>3
  <2> QED BY <2>1, <2>2, <2>3
<1>6. \A i \in 1..(dropped + n) : past[i] <= time - Window
  <2> SUFFICES ASSUME NEW i \in 1..(dropped + n)
               PROVE  past[i] <= time - Window
    OBVIOUS
  <2>1. CASE i <= dropped
    BY <1>3, <2>1
  <2>2. CASE i > dropped
    <3>1. i - dropped \in 1..n /\ i - dropped \in 1..Len(log) /\ dropped + (i - dropped) = i
      BY <1>1, <1>3, <2>2
    <3>2. log[i - dropped] = past[dropped + (i - dropped)]
      BY <1>3, <3>1
    <3>3. log[i - dropped] <= time - Window
      BY <1>2, <3>1
    <3> QED BY <3>1, <3>2, <3>3
  <2> QED BY <1>3, <2>1, <2>2
<1> QED
  BY <1>1, <1>2, <1>3, <1>4, <1>5, <1>6, LimiterAssumption DEF KeyInv

(* Admitting into a pruned log that is not full keeps it: the admission    *)
(* Limit places before the new one is no longer in the log.                *)
LEMMA AdmitKeepsKeyInv ==
    ASSUME NEW time \in Nat, NEW log, NEW past, KeyInv(log, past, time),
           Len(log) < Limit
    PROVE  KeyInv(Append(log, time), Append(past, time), time)
<1> DEFINE dropped == Len(past) - Len(log)
<1>1. /\ log \in Seq(Nat)
      /\ past \in Seq(Nat)
      /\ Len(log) \in Nat
      /\ Len(past) \in Nat
      /\ dropped \in Nat
  BY LenProperties DEF KeyInv
<1>2. /\ Append(log, time) \in Seq(Nat)
      /\ Append(past, time) \in Seq(Nat)
      /\ Len(Append(log, time)) = Len(log) + 1
      /\ Len(Append(past, time)) = Len(past) + 1
      /\ \A i \in 1..Len(log) : Append(log, time)[i] = log[i]
      /\ \A i \in 1..Len(past) : Append(past, time)[i] = past[i]
      /\ Append(log, time)[Len(log) + 1] = time
      /\ Append(past, time)[Len(past) + 1] = time
  BY <1>1
<1>3. /\ \A i \in 1..Len(log) : log[i] = past[dropped + i]
      /\ \A i \in 1..dropped : past[i] <= time - Window
      /\ \A i \in 1..(Len(past) - Limit) : past[i + Limit] - past[i] >= Window
  BY DEF KeyInv
<1>4. \A i \in 1..(Len(log) + 1) : Append(log, time)[i] = Append(past, time)[dropped + i]
  <2> SUFFICES ASSUME NEW i \in 1..(Len(log) + 1)
               PROVE  Append(log, time)[i] = Append(past, time)[dropped + i]
    OBVIOUS
  <2>1. CASE i = Len(log) + 1
    <3>1. dropped + i = Len(past) + 1
      BY <1>1, <2>1
    <3> QED BY <1>2, <2>1, <3>1
  <2>2. CASE i <= Len(log)
    <3>1. i \in 1..Len(log) /\ dropped + i \in 1..Len(past)
      BY <1>1, <2>2
    <3> QED BY <1>2, <1>3, <3>1
  <2>3. i = Len(log) + 1 \/ i <= Len(log)
    BY <1>1
  <2> QED BY <2>1, <2>2, <2>3, Zenon
<1>5. \A i \in 1..dropped : Append(past, time)[i] <= time - Window
  BY <1>1, <1>2, <1>3
<1>6. \A i \in 1..(Len(past) + 1 - Limit) :
          Append(past, time)[i + Limit] - Append(past, time)[i] >= Window
  <2> SUFFICES ASSUME NEW i \in 1..(Len(past) + 1 - Limit)
               PROVE  Append(past, time)[i + Limit] - Append(past, time)[i] >= Window
    OBVIOUS
  <2>1. i \in 1..Len(past) /\ Append(past, time)[i] = past[i] /\ past[i] \in Nat
    BY <1>1, <1>2, LimiterAssumption, ElementOfSeq
  <2>2. CASE i + Limit = Len(past) + 1
    <3>1. i \in 1..dropped
      BY <1>1, <2>2, LimiterAssumption
    <3>2. past[i] <= time - Window
      BY <1>3, <3>1
    <3>3. Append(past, time)[i + Limit] = time
      BY <1>2, <2>2
    <3> QED
      BY <2>1, <3>2, <3>3, LimiterAssumption
  <2>3. CASE i + Limit <= Len(past)
    <3>1. i \in 1..(Len(past) - Limit) /\ i + Limit \in 1..Len(past)
      BY <1>1, <2>3, LimiterAssumption
    <3> QED
      BY <1>2, <1>3, <2>1, <3>1
  <2>4. i + Limit = Len(past) + 1 \/ i + Limit <= Len(past)
    <3> HIDE DEF dropped
    <3> QED BY <1>1, LimiterAssumption
  <2> QED
    BY <2>2, <2>3, <2>4
<1> HIDE DEF dropped
<1>7. Len(Append(past, time)) - Len(Append(log, time)) = dropped
  BY <1>1, <1>2 DEF dropped
<1>8. Len(Append(log, time)) <= Limit /\ dropped >= 0
  BY <1>1, <1>2, LimiterAssumption
<1>9. \A i \in 1..Len(Append(log, time)) :
          Append(log, time)[i] = Append(past, time)[dropped + i]
  <2> SUFFICES ASSUME NEW i \in 1..Len(Append(log, time))
               PROVE  Append(log, time)[i] = Append(past, time)[dropped + i]
    OBVIOUS
  <2>1. i \in 1..(Len(log) + 1)
    BY <1>2
  <2> QED BY <1>4, <2>1, Zenon
<1>10. \A i \in 1..(Len(Append(past, time)) - Limit) :
           Append(past, time)[i + Limit] - Append(past, time)[i] >= Window
  <2> SUFFICES ASSUME NEW i \in 1..(Len(Append(past, time)) - Limit)
               PROVE  Append(past, time)[i + Limit] - Append(past, time)[i] >= Window
    OBVIOUS
  <2>1. i \in 1..(Len(past) + 1 - Limit)
    BY <1>1, <1>2, LimiterAssumption
  <2> QED BY <1>6, <2>1, Zenon
<1> QED
  BY <1>2, <1>5, <1>7, <1>8, <1>9, <1>10, Zenon DEF KeyInv

(* So does the passing of time: what is old stays old.                     *)
LEMMA TimeKeepsKeyInv ==
    ASSUME NEW time \in Nat, NEW later \in Nat, later >= time,
           NEW log, NEW past, KeyInv(log, past, time)
    PROVE  KeyInv(log, past, later)
<1> DEFINE dropped == Len(past) - Len(log)
<1>1. /\ past \in Seq(Nat)
      /\ Len(log) \in Nat
      /\ Len(past) \in Nat
      /\ \A i \in 1..dropped : past[i] <= time - Window
  BY LenProperties DEF KeyInv
<1>2. \A i \in 1..dropped : past[i] \in Nat
  BY <1>1, ElementOfSeq, LenProperties DEF KeyInv
<1>3. \A i \in 1..dropped : past[i] <= later - Window
  <2> HIDE DEF dropped
  <2> QED BY <1>1, <1>2, LimiterAssumption
<1> QED
  BY <1>3, Zenon DEF KeyInv

-----------------------------------------------------------------------------
(* The invariant holds of the empty logs the process starts with.          *)
LEMMA InitIInv == Init => IInv
<1> SUFFICES ASSUME Init PROVE IInv
  OBVIOUS
<1>1. KeyInv(<<>>, <<>>, 0)
  BY LimiterAssumption DEF KeyInv
<1> QED
  BY <1>1, IInvIsKeyInv DEF Init

(* A check, a reset or the passing of time: each keeps every client's.     *)
LEMMA StepIInv == IInv /\ [Next]_vars => IInv'
<1> SUFFICES ASSUME IInv, [Next]_vars
             PROVE  IInv'
  OBVIOUS
<1>1. /\ now \in Nat
      /\ requests = [k \in Keys |-> requests[k]]
      /\ admitted = [k \in Keys |-> admitted[k]]
      /\ \A k \in Keys : KeyInv(requests[k], admitted[k], now)
  BY IInvIsKeyInv
<1> SUFFICES /\ now' \in Nat
             /\ requests' = [k \in Keys |-> requests'[k]]
             /\ admitted' = [k \in Keys |-> admitted'[k]]
             /\ \A k \in Keys : KeyInv(requests'[k], admitted'[k], now')
  BY DEF IInv, Shape, LogBounded, LogIsTail, DroppedIsOld, WindowRespected, Dropped, KeyInv
<1>2. ASSUME NEW k \in Keys, Check(k)
      PROVE  /\ now' = now
             /\ requests' = [j \in Keys |-> requests'[j]]
             /\ admitted' = [j \in Keys |-> admitted'[j]]
             /\ \A j \in Keys : KeyInv(requests'[j], admitted'[j], now)
  <2> DEFINE live == Live(requests[k], now)
  <2>1. KeyInv(live, admitted[k], now)
    BY <1>1, PruneKeepsKeyInv
  <2>2. Len(live) \in Nat
    BY <2>1, LenProperties DEF KeyInv
  <2>3. CASE Len(live) >= Limit
    BY <1>1, <1>2, <2>1, <2>3 DEF Check
  <2>4. CASE Len(live) < Limit
    <3>1. KeyInv(Append(live, now), Append(admitted[k], now), now)
      BY <1>1, <2>1, <2>4, AdmitKeepsKeyInv
    <3>2. ~(Len(live) >= Limit)
      BY <2>2, <2>4, LimiterAssumption
    <3> QED
      BY <1>1, <1>2, <3>1, <3>2 DEF Check
  <2> QED
    BY <2>2, <2>3, <2>4, LimiterAssumption
<1>3. CASE Reset
  <2>1. KeyInv(<<>>, <<>>, now)
    BY <1>1, LimiterAssumption DEF KeyInv
  <2> QED
    BY <1>1, <1>3, <2>1 DEF Reset
<1>4. CASE Tick
  <2>1. now + 1 \in Nat /\ now + 1 >= now
    BY <1>1
  <2>2. \A k \in Keys : KeyInv(requests[k], admitted[k], now + 1)
    BY <1>1, <2>1, TimeKeepsKeyInv
  <2> QED
    BY <1>1, <1>4, <2>1, <2>2 DEF Tick
<1>5. CASE UNCHANGED vars
  BY <1>1, <1>5 DEF vars
<1> QED
  BY <1>1, <1>2, <1>3, <1>4, <1>5 DEF Next

(* The log of each client is the tail of its admissions, and what it has   *)
(* dropped is old, in every state the limiter reaches.                     *)
THEOREM Invariance == Spec => []IInv
  BY InitIInv, StepIInv, PTL DEF Spec

(* No client is admitted more than Limit times within a window, for every  *)
(* limit, window, number of clients and timing of their requests.          *)
THEOREM RateLimited == Spec => []WindowRespected
<1>1. IInv => WindowRespected
  BY DEF IInv
<1> QED
  BY Invariance, <1>1, PTL

(* The memory a client can take is bounded by the limit.                   *)
THEOREM MemoryBounded == Spec => []LogBounded
<1>1. IInv => LogBounded
  BY DEF IInv
<1> QED
  BY Invariance, <1>1, PTL

-----------------------------------------------------------------------------
(* The decisions.  A refusal is remembered with the log that caused it: a  *)
(* full one whose oldest entry was still live, and the wait is computed    *)
(* from that entry.  Nothing but the client's next check touches its log.  *)

(* A number of ticks rounded up to whole seconds, and never to zero.       *)
LEMMA WholeSecondsFacts ==
    ASSUME NEW ticks \in Int
    PROVE  /\ WholeSeconds(ticks) \in Nat \ {0}
           /\ ticks > 0 => /\ ticks <= WholeSeconds(ticks) * Second
                           /\ (WholeSeconds(ticks) - 1) * Second < ticks
<1> DEFINE ceiling == (ticks + Second - 1) \div Second
<1>1. Second \in Nat /\ Second > 0
  BY LimiterAssumption
<1>2. ceiling \in Int
  BY <1>1
<1>3. /\ ceiling * Second <= ticks + Second - 1
      /\ ticks + Second - 1 < (ceiling + 1) * Second
  BY <1>1
<1>4. ticks > 0 => ceiling >= 1
  <2> HIDE DEF ceiling
  <2>1. ceiling < 1 => (ceiling + 1) * Second <= Second
    BY <1>1, <1>2
  <2> QED BY <1>1, <1>2, <1>3, <2>1
<1>5. WholeSeconds(ticks) = IF ceiling < 1 THEN 1 ELSE ceiling
  BY DEF WholeSeconds
<1> HIDE DEF ceiling
<1>6. (ceiling + 1) * Second = ceiling * Second + Second
      /\ (ceiling - 1) * Second = ceiling * Second - Second
  BY <1>1, <1>2
<1>7. ceiling * Second \in Int
  BY <1>1, <1>2
<1> QED
  BY <1>1, <1>2, <1>3, <1>4, <1>5, <1>6, <1>7

(* A full log admits exactly from when its oldest entry has expired.       *)
LEMMA FullUntilOldestExpires ==
    ASSUME NEW log \in Seq(Nat), NEW time \in Nat, Len(log) = Limit
    PROVE  Len(Live(log, time)) < Limit <=> log[1] <= time - Window
<1>1. Len(log) \in Nat /\ Len(log) > 0
  BY LimiterAssumption
<1>2. PICK n \in 0..Len(log) :
          /\ \A i \in 1..n : log[i] <= time - Window
          /\ n < Len(log) => log[n + 1] > time - Window
          /\ Len(Live(log, time)) = Len(log) - n
  BY LiveFacts
<1>3. log[1] \in Nat /\ Window \in Nat
  BY <1>1, ElementOfSeq, LimiterAssumption
<1>4. CASE n = 0
  BY <1>1, <1>2, <1>3, <1>4
<1>5. CASE n > 0
  BY <1>1, <1>2, <1>3, <1>5
<1> QED
  BY <1>1, <1>2, <1>4, <1>5

(* What a refusal says of the client's log.                                *)
RefusalInv(log, time, d) ==
    d # NoDecision /\ ~d.allowed =>
        /\ d.at <= time
        /\ Len(log) = Limit
        /\ log[1] > d.at - Window
        /\ d.retryAfter = WholeSeconds(log[1] + Window - d.at)

DecisionInv ==
    /\ IInv
    /\ decision \in [Keys -> DecisionType \cup {NoDecision}]
    /\ \A k \in Keys : RefusalInv(requests[k], now, decision[k])

(* A check that refuses leaves the client such a log, and one that admits  *)
(* leaves no refusal behind.                                               *)
LEMMA CheckDecides ==
    ASSUME IInv, NEW k \in Keys, Check(k), decision \in [Keys -> DecisionType \cup {NoDecision}]
    PROVE  /\ decision'[k] \in DecisionType
           /\ decision' = [decision EXCEPT ![k] = decision'[k]]
           /\ RefusalInv(requests'[k], now, decision'[k])
           /\ \A j \in Keys : j # k => requests'[j] = requests[j]
<1> DEFINE live == Live(requests[k], now)
<1>1. /\ now \in Nat
      /\ requests = [j \in Keys |-> requests[j]]
      /\ KeyInv(requests[k], admitted[k], now)
  BY IInvIsKeyInv
<1>2. live \in Seq(Nat) /\ Len(live) \in Nat /\ Len(live) <= Limit
  <2>1. KeyInv(live, admitted[k], now)
    BY <1>1, PruneKeepsKeyInv
  <2> HIDE DEF live
  <2> QED BY <2>1, LenProperties DEF KeyInv
<1>3. Limit \in Nat /\ Limit > 0 /\ Window \in Nat
  BY LimiterAssumption
<1>4. CASE Len(live) >= Limit
  <2>1. Len(live) = Limit
    BY <1>2, <1>3, <1>4
  <2>2. live[1] \in Nat /\ live[1] > now - Window
    <3>1. PICK n \in 0..Len(requests[k]) :
              /\ n < Len(requests[k]) => requests[k][n + 1] > now - Window
              /\ Len(live) = Len(requests[k]) - n
              /\ \A i \in 1..(Len(requests[k]) - n) : live[i] = requests[k][n + i]
      BY <1>1, LiveFacts DEF KeyInv
    <3>2. Len(requests[k]) \in Nat
      BY <1>1 DEF KeyInv
    <3>3. n < Len(requests[k]) /\ live[1] = requests[k][n + 1]
      BY <1>3, <2>1, <3>1, <3>2
    <3>4. live[1] > now - Window
      BY <3>1, <3>3
    <3>5. live[1] \in Nat
      BY <1>2, <1>3, <2>1, ElementOfSeq
    <3> QED BY <3>4, <3>5
  <2>3. WholeSeconds(live[1] + Window - now) \in Nat
    BY <1>1, <1>3, <2>2, WholeSecondsFacts
  <2>4. /\ requests' = [requests EXCEPT ![k] = live]
        /\ decision' = [decision EXCEPT ![k] =
             [at |-> now, allowed |-> FALSE, remaining |-> 0,
              retryAfter |-> WholeSeconds(live[1] + Window - now),
              resetAfter |-> WholeSeconds(live[1] + Window - now)]]
    BY <1>4 DEF Check, UntilOldestExpires
  <2> HIDE DEF live
  <2>5. /\ decision'[k] = [at |-> now, allowed |-> FALSE, remaining |-> 0,
                           retryAfter |-> WholeSeconds(live[1] + Window - now),
                           resetAfter |-> WholeSeconds(live[1] + Window - now)]
        /\ requests'[k] = live
    BY <1>1, <2>4
  <2>6. RefusalInv(live, now, decision'[k])
    BY <1>1, <2>1, <2>2, <2>5 DEF RefusalInv
  <2>7. decision'[k] \in DecisionType
    BY <1>1, <2>3, <2>5 DEF DecisionType
  <2> QED
    BY <1>1, <2>4, <2>5, <2>6, <2>7
<1>5. CASE Len(live) < Limit
  <2>1. ~(Len(live) >= Limit)
    BY <1>2, <1>3, <1>5
  <2> DEFINE reset == UntilOldestExpires(Append(live, now))
  <2>2. reset \in Nat
    <3>1. Append(live, now) \in Seq(Nat) /\ Len(Append(live, now)) = Len(live) + 1
      BY <1>1, <1>2
    <3>2. Append(live, now)[1] \in Nat
      BY <1>2, <3>1, ElementOfSeq
    <3> QED BY <1>1, <1>3, <3>2, WholeSecondsFacts DEF UntilOldestExpires
  <2>3. /\ requests' = [requests EXCEPT ![k] = Append(live, now)]
        /\ decision' = [decision EXCEPT ![k] =
             [at |-> now, allowed |-> TRUE, remaining |-> Limit - (Len(live) + 1),
              retryAfter |-> 0, resetAfter |-> reset]]
    BY <2>1 DEF Check
  <2> HIDE DEF live, reset
  <2>4. decision'[k] = [at |-> now, allowed |-> TRUE, remaining |-> Limit - (Len(live) + 1),
                        retryAfter |-> 0, resetAfter |-> reset]
    BY <2>3
  <2>5. decision'[k] \in DecisionType /\ decision'[k].allowed
    BY <1>1, <1>2, <1>3, <1>5, <2>2, <2>4 DEF DecisionType
  <2> QED
    BY <1>1, <2>3, <2>4, <2>5 DEF RefusalInv
<1> QED
  BY <1>2, <1>3, <1>4, <1>5

(* The process starts without decisions.                                   *)
LEMMA InitDecisionInv == Init => DecisionInv
  BY InitIInv DEF Init, DecisionInv, RefusalInv

(* A check replaces the decision on its client, a reset forgets them all,  *)
(* and time only takes a refusal further back.                             *)
LEMMA StepDecisionInv == DecisionInv /\ [Next]_vars => DecisionInv'
<1> SUFFICES ASSUME DecisionInv, [Next]_vars
             PROVE  DecisionInv'
  OBVIOUS
<1>1. IInv /\ IInv' /\ now \in Nat
  BY StepIInv DEF DecisionInv, IInv, Shape
<1>2. ASSUME NEW k \in Keys, Check(k)
      PROVE  DecisionInv'
  <2>1. /\ decision'[k] \in DecisionType
        /\ decision' = [decision EXCEPT ![k] = decision'[k]]
        /\ RefusalInv(requests'[k], now, decision'[k])
        /\ \A j \in Keys : j # k => requests'[j] = requests[j]
    BY <1>1, <1>2, CheckDecides DEF DecisionInv
  <2>2. now' = now
    BY <1>2 DEF Check
  <2>3. decision' \in [Keys -> DecisionType \cup {NoDecision}]
    BY <2>1 DEF DecisionInv
  <2>4. \A j \in Keys : RefusalInv(requests'[j], now', decision'[j])
    BY <2>1, <2>2 DEF DecisionInv
  <2> QED
    BY <1>1, <2>3, <2>4 DEF DecisionInv, RefusalInv
<1>3. CASE Reset
  BY <1>1, <1>3 DEF Reset, DecisionInv, RefusalInv
<1>4. CASE Tick
  <2>1. now' = now + 1 /\ requests' = requests /\ decision' = decision
    BY <1>4 DEF Tick
  <2>2. \A k \in Keys : decision[k] # NoDecision => decision[k].at \in Nat
    BY DEF DecisionInv, DecisionType
  <2>3. \A k \in Keys : RefusalInv(requests[k], now + 1, decision[k])
    BY <1>1, <2>2 DEF DecisionInv, RefusalInv
  <2> QED
    BY <1>1, <2>1, <2>3 DEF DecisionInv, RefusalInv
<1>5. CASE UNCHANGED vars
  BY <1>1, <1>5 DEF vars, DecisionInv, RefusalInv
<1> QED
  BY <1>2, <1>3, <1>4, <1>5 DEF Next

(* Every decision is about the log as it is, in every state.               *)
THEOREM DecisionInvariance == Spec => []DecisionInv
  BY InitDecisionInv, StepDecisionInv, PTL DEF Spec

(* The clock, the logs and the decisions keep their shape.                 *)
THEOREM TypeCorrect == Spec => []TypeOK
<1>1. DecisionInv => TypeOK
  BY DEF DecisionInv, IInv, Shape, TypeOK
<1> QED
  BY DecisionInvariance, <1>1, PTL

(* A client is refused only when Limit of its admissions lie within the    *)
(* last window: the oldest of them is still in its log.                    *)
THEOREM RefusalsJust == Spec => []NoFalseRefusal
<1>1. DecisionInv => NoFalseRefusal
  <2> SUFFICES ASSUME DecisionInv, NEW k \in Keys,
                      decision[k] # NoDecision, ~decision[k].allowed
               PROVE  /\ Len(admitted[k]) >= Limit
                      /\ admitted[k][Len(admitted[k]) - Limit + 1] > decision[k].at - Window
    BY DEF NoFalseRefusal
  <2>1. Len(requests[k]) = Limit /\ requests[k][1] > decision[k].at - Window
    BY DEF DecisionInv, RefusalInv
  <2>2. /\ Len(admitted[k]) \in Nat
        /\ Dropped(k) >= 0
        /\ \A i \in 1..Limit : requests[k][i] = admitted[k][Dropped(k) + i]
    BY <2>1 DEF DecisionInv, IInv, Shape, LogIsTail
  <2>3. Dropped(k) = Len(admitted[k]) - Limit
    BY <2>1 DEF Dropped
  <2>4. 1 \in 1..Limit
    BY LimiterAssumption
  <2>5. requests[k][1] = admitted[k][Len(admitted[k]) - Limit + 1]
    BY <2>2, <2>3, <2>4
  <2> QED
    BY <2>1, <2>2, <2>3, <2>5, LimiterAssumption
<1> QED
  BY DecisionInvariance, <1>1, PTL

(* Retry-After is exact, to the second: a refused client that waits that   *)
(* long is let in, and one that comes a whole second earlier is not.       *)
THEOREM RetryAfterExact == Spec => []RetryAfterIsExact
<1>1. DecisionInv => RetryAfterIsExact
  <2> SUFFICES ASSUME DecisionInv, NEW k \in Keys,
                      decision[k] # NoDecision, ~decision[k].allowed,
                      NEW wait, wait = decision[k].retryAfter
               PROVE  /\ now >= decision[k].at + wait * Second =>
                             Len(Live(requests[k], now)) < Limit
                      /\ wait > 1 /\ now <= decision[k].at + (wait - 1) * Second =>
                             ~(Len(Live(requests[k], now)) < Limit)
    BY DEF RetryAfterIsExact
  <2> DEFINE oldest == requests[k][1]
  <2> DEFINE at == decision[k].at
  <2>1. /\ requests[k] \in Seq(Nat)
        /\ now \in Nat
        /\ at \in Nat
        /\ Len(requests[k]) = Limit
        /\ oldest > at - Window
        /\ wait = WholeSeconds(oldest + Window - at)
    <3>1. decision[k] \in DecisionType /\ RefusalInv(requests[k], now, decision[k])
      BY DEF DecisionInv
    <3>2. requests[k] \in Seq(Nat) /\ now \in Nat
      BY DEF DecisionInv, IInv, Shape
    <3> QED BY <3>1, <3>2 DEF RefusalInv, DecisionType
  <2>2. Limit > 0 /\ Limit \in Nat /\ Window \in Nat /\ Second \in Nat
    BY LimiterAssumption
  <2>3. oldest \in Nat
    BY <2>1, <2>2, ElementOfSeq
  <2>4. Len(Live(requests[k], now)) < Limit <=> oldest <= now - Window
    BY <2>1, FullUntilOldestExpires
  <2> HIDE DEF oldest, at
  <2>5. /\ wait \in Nat
        /\ oldest + Window - at <= wait * Second
        /\ (wait - 1) * Second < oldest + Window - at
    BY <2>1, <2>2, <2>3, WholeSecondsFacts
  <2>6. wait * Second \in Int /\ (wait - 1) * Second \in Int
    BY <2>2, <2>5
  <2> DEFINE waited == wait * Second
  <2> DEFINE early == (wait - 1) * Second
  <2> HIDE DEF waited, early
  <2>7. /\ waited \in Int /\ early \in Int
        /\ oldest + Window - at <= waited
        /\ early < oldest + Window - at
    BY <2>5, <2>6 DEF waited, early
  <2>8. now >= at + waited => oldest <= now - Window
    BY <2>1, <2>2, <2>3, <2>7
  <2>9. now <= at + early => ~(oldest <= now - Window)
    BY <2>1, <2>2, <2>3, <2>7
  <2> QED
    BY <2>4, <2>8, <2>9 DEF at, waited, early
<1> QED
  BY DecisionInvariance, <1>1, PTL
=============================================================================
