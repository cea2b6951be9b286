---------------------------- MODULE LiveApiProofs ----------------------------
(***************************************************************************)
(* Proofs about the client of the live providers.                          *)
(*                                                                         *)
(* LiveApi, the requests: for every set of callers and any number of       *)
(* requests and attempts, every threshold and every limit.                 *)
(*                                                                         *)
(* ProviderReads, the listings read with them: for every finite set of     *)
(* items, every size of a page and every page limit.                       *)
(***************************************************************************)
EXTENDS LiveApi, ProviderReads, FiniteSetTheorems, TLAPS

USE LiveApiAssumption

-----------------------------------------------------------------------------
(* The inductive invariant.                                                *)

\* The requests before the one under way were carried out in this attempt or
\* an earlier one, and so was one that was answered with success.
Progress ==
  \A c \in Callers :
    /\ ~At(c, "idle") =>
         \A r \in 1..Requests : r < call[c].request => r \in applied[c]
    /\ At(c, "settle") /\ call[c].outcome = "ok" => call[c].request \in applied[c]

\* A caller that an open breaker finds on its way to the provider has sent
\* nothing since it opened.
Admitted == {"incr", "ttl", "expire", "send"}

UnderWay ==
  IsOpen => \A c \in Callers : call[c].pc \in Admitted => sent[c] = 0

\* Outages that the breaker has not heard of yet.
Pending == {c \in Callers : At(c, "settle") /\ call[c].outcome \in Counted}

\* Below the threshold every failure of the breaker, and every failure that it
\* has not heard of, is an outage of its own; the breaker is closed.
Tally ==
  /\ IsFiniteSet(Pending)
  /\ outages < Threshold =>
       breaker.state = "closed" /\ breaker.failures + Cardinality(Pending) <= outages

IInv ==
  /\ TypeOK
  /\ Progress
  /\ SuccessIsComplete
  /\ UnderWay
  /\ OpenSheds
  /\ Tally

-----------------------------------------------------------------------------
(* What the steps of a caller do.                                          *)

Breakers == [state : {"closed", "open", "half_open"}, failures : 0..Threshold,
             cooled : BOOLEAN]

Counters == [hits : 0..(Limit + 1), ttl : BOOLEAN]

Places == [pc : {"idle", "admit", "incr", "ttl", "expire", "send", "settle"},
           attempt : 1..MaxAttempts, request : 1..Requests,
           hit : 0..(Limit + 1), outcome : Outcomes]

\* Only the place of c changes.
Moves(c) == call' = [call EXCEPT ![c] = call'[c]] /\ call'[c] \in Places

\* The same request of the same attempt goes on.
SameRequest(c) == call'[c].request = call[c].request

\* A step of the rate counter: on to the next one, or to an error of the limiter.
Limits(c) ==
  /\ call[c].pc \in Admitted
  /\ Moves(c) /\ SameRequest(c)
  /\ \/ call'[c].pc \in Admitted
     \/ call'[c].pc = "settle" /\ call'[c].outcome \in {"limiter_down", "over_limit"}
  /\ counter' \in Counters
  /\ UNCHANGED <<breaker, calm, applied, outages, sent>>

LEMMA Types ==
  ASSUME TypeOK
  PROVE  /\ breaker \in Breakers /\ counter \in Counters
         /\ call \in [Callers -> Places]
         /\ Idle \in Places /\ Idle.pc = "idle" /\ Idle.outcome = "none" /\ Idle.request = 1
         /\ Closed \in Breakers /\ Closed.state = "closed" /\ Closed.failures = 0
<1>1. 1 \in 1..MaxAttempts /\ 1 \in 1..Requests /\ 0 \in 0..(Limit + 1) /\ 0 \in 0..Threshold
  OBVIOUS
<1>2. Idle \in Places /\ Idle.pc = "idle" /\ Idle.outcome = "none" /\ Idle.request = 1
  BY <1>1 DEF Idle, Places, Outcomes
<1>3. Closed \in Breakers /\ Closed.state = "closed" /\ Closed.failures = 0
  BY <1>1 DEF Closed, Breakers
<1> QED BY <1>2, <1>3 DEF TypeOK, Breakers, Counters, Places

LEMMA HitType == ASSUME TypeOK PROVE Hit \in Counters /\ Living \in Counters
<1>1. counter \in Counters
  BY Types
<1>2. AtMost(Limit + 1, counter.hits + 1) \in 0..(Limit + 1)
  BY <1>1 DEF AtMost, Counters
<1>3. Hit \in Counters
  BY <1>1, <1>2 DEF Hit, Counters
<1>4. ASSUME NEW ttl \in BOOLEAN PROVE [counter EXCEPT !.ttl = ttl] \in Counters
  BY <1>1 DEF Counters
<1>5. (counter.hits > 0) \in BOOLEAN
  OBVIOUS
<1>6. Living \in Counters
  BY <1>4, <1>5, Zenon DEF Living
<1> QED BY <1>3, <1>6

LEMMA EndsMoves ==
  ASSUME TypeOK, NEW c \in Callers, NEW outcome \in Outcomes, Ends(c, outcome)
  PROVE  /\ Moves(c) /\ SameRequest(c)
         /\ call'[c].pc = "settle" /\ call'[c].outcome = outcome
<1>1. call \in [Callers -> Places] /\ 0 \in 0..(Limit + 1)
  BY Types
<1>2. call' = [call EXCEPT ![c] = [call[c] EXCEPT !.pc = "settle", !.hit = 0,
                                                 !.outcome = outcome]]
  BY DEF Ends
<1>3. [call[c] EXCEPT !.pc = "settle", !.hit = 0, !.outcome = outcome] \in Places
  BY <1>1 DEF Places
<1> QED BY <1>1, <1>2, <1>3 DEF Moves, SameRequest, Places

LEMMA GotoMoves ==
  ASSUME TypeOK, NEW c \in Callers, NEW pc \in Admitted, Goto(c, pc)
  PROVE  Moves(c) /\ SameRequest(c) /\ call'[c].pc = pc
  BY Types DEF Goto, Moves, SameRequest, Places, Admitted

LEMMA WeighMoves ==
  ASSUME TypeOK, NEW c \in Callers, Weigh(c)
  PROVE  /\ Moves(c) /\ SameRequest(c)
         /\ \/ call'[c].pc \in Admitted
            \/ call'[c].pc = "settle" /\ call'[c].outcome = "over_limit"
<1>1. CASE call[c].hit <= Limit
  BY <1>1, Types DEF Weigh, Moves, SameRequest, Places, Admitted
<1>2. CASE ~(call[c].hit <= Limit)
  <2>1. Ends(c, "over_limit") /\ "over_limit" \in Outcomes
    BY <1>2 DEF Weigh, Outcomes
  <2> QED BY <2>1, EndsMoves
<1> QED BY <1>1, <1>2

LEMMA LimiterSteps ==
  ASSUME TypeOK, NEW c \in Callers, Incr(c) \/ Ttl(c) \/ Expire(c)
  PROVE  Limits(c)
<1>1. call[c].pc \in Admitted /\ UNCHANGED <<breaker, calm, applied, outages, sent>>
  BY DEF Incr, Ttl, Expire, At, Admitted
<1>2. counter \in Counters /\ Hit \in Counters /\ Living \in Counters
  BY Types, HitType
<1>3. ASSUME NEW done \in Counters, RedisFails(c, done) PROVE Limits(c)
  <2>1. "limiter_down" \in Outcomes
    BY DEF Outcomes
  <2> QED BY <1>1, <1>2, <1>3, <2>1, EndsMoves DEF RedisFails, Limits
<1>4. ASSUME NEW pc \in Admitted, Goto(c, pc), counter' \in Counters PROVE Limits(c)
  BY <1>1, <1>4, GotoMoves DEF Limits
<1>5. ASSUME Weigh(c), counter' \in Counters PROVE Limits(c)
  BY <1>1, <1>5, WeighMoves DEF Limits
<1>6. CASE Incr(c)
  <2>1. CASE /\ counter' = Hit
             /\ call' = [call EXCEPT ![c].hit = Hit.hits,
                                     ![c].pc = IF Hit.hits = 1 THEN "expire" ELSE "ttl"]
    <3>1. Hit.hits \in 0..(Limit + 1)
      BY <1>2 DEF Counters
    <3>2. Moves(c) /\ SameRequest(c) /\ call'[c].pc \in Admitted
      BY <2>1, <3>1, Types DEF Moves, SameRequest, Places, Admitted
    <3> QED BY <1>1, <1>2, <2>1, <3>2 DEF Limits
  <2> QED BY <1>2, <1>3, <1>6, <2>1 DEF Incr
<1>7. CASE Ttl(c)
  <2>1. "expire" \in Admitted
    BY DEF Admitted
  <2> QED BY <1>2, <1>3, <1>4, <1>5, <1>7, <2>1 DEF Ttl
<1>8. CASE Expire(c)
  BY <1>2, <1>3, <1>5, <1>8 DEF Expire
<1> QED BY <1>6, <1>7, <1>8

\* A breaker that was read lets the call through, or is open still.
LEMMA ReadKeeps ==
  ASSUME TypeOK
  PROVE  /\ Read \in Breakers /\ Read.failures = breaker.failures
         /\ Read.state = "closed" <=> breaker.state = "closed"
         /\ ~IsOpen => Read.state # "open"
  BY Types DEF Read, IsOpen, Breakers

LEMMA JudgedType ==
  ASSUME TypeOK, NEW outcome \in Outcomes
  PROVE  Judged(outcome) \in Breakers
<1>1. breaker \in Breakers /\ Closed \in Breakers
  BY Types
<1>2. breaker.failures + 1 < Threshold => breaker.failures + 1 \in 0..Threshold
  BY <1>1 DEF Breakers
<1>3. RecordFailure \in Breakers
  BY <1>1, <1>2 DEF RecordFailure, Breakers
<1> QED BY <1>1, <1>3 DEF Judged, RecordSuccess

LEMMA AfterType ==
  ASSUME NEW k \in Places
  PROVE  /\ After(k) \in Places /\ After(k).pc \in {"idle", "admit"}
         /\ After(k).pc = "idle" => After(k).outcome = k.outcome
         /\ k.outcome = "ok" /\ After(k).pc = "idle" => k.request = Requests
         /\ After(k).request > 1 => k.outcome = "ok" /\ After(k).request = k.request + 1
<1>1. CASE k.outcome = "ok" /\ k.request < Requests
  <2>1. k.request + 1 \in 1..Requests
    BY <1>1 DEF Places
  <2>2. After(k) = [pc |-> "admit", attempt |-> k.attempt, request |-> k.request + 1,
                    hit |-> 0, outcome |-> "none"]
    BY <1>1 DEF After, Idle
  <2> QED BY <1>1, <2>1, <2>2 DEF Places, Outcomes
<1>2. CASE ~(k.outcome = "ok" /\ k.request < Requests) /\ MayRetry(k)
  <2>1. k.attempt + 1 \in 1..MaxAttempts
    BY <1>2 DEF MayRetry, Places
  <2>2. After(k) = [pc |-> "admit", attempt |-> k.attempt + 1, request |-> 1,
                    hit |-> 0, outcome |-> "none"]
    BY <1>2 DEF After, NextAttempt, Idle
  <2> QED BY <2>1, <2>2 DEF Places, Outcomes
<1>3. CASE ~(k.outcome = "ok" /\ k.request < Requests) /\ ~MayRetry(k)
  <2>1. After(k) = [pc |-> "idle", attempt |-> 1, request |-> 1,
                    hit |-> 0, outcome |-> k.outcome]
    BY <1>3 DEF After, Idle
  <2> QED BY <1>3, <2>1 DEF Places
<1> QED BY <1>1, <1>2, <1>3

-----------------------------------------------------------------------------
(* The outages that the breaker has not heard of.                          *)

LEMMA PendingStays ==
  ASSUME TypeOK, NEW c \in Callers, Moves(c), c \notin Pending,
         call'[c].pc = "settle" => call'[c].outcome \notin Counted
  PROVE  Pending' = Pending
  BY Types DEF Moves, Pending, At

LEMMA PendingGrows ==
  ASSUME TypeOK, NEW c \in Callers, Moves(c), IsFiniteSet(Pending), c \notin Pending,
         call'[c].pc = "settle", call'[c].outcome \in Counted
  PROVE  IsFiniteSet(Pending') /\ Cardinality(Pending') = Cardinality(Pending) + 1
<1>1. Pending' = Pending \cup {c}
  BY Types DEF Moves, Pending, At
<1> QED BY <1>1, FS_AddElement

LEMMA PendingShrinks ==
  ASSUME TypeOK, NEW c \in Callers, Moves(c), IsFiniteSet(Pending), c \in Pending,
         call'[c].pc # "settle"
  PROVE  /\ IsFiniteSet(Pending') /\ Cardinality(Pending) \in Nat
         /\ Cardinality(Pending') = Cardinality(Pending) - 1
<1>1. Pending' = Pending \ {c}
  BY Types DEF Moves, Pending, At
<1> QED BY <1>1, FS_RemoveElement, FS_CardinalityType

-----------------------------------------------------------------------------
(* The invariant is kept by each step.                                     *)

LEMMA BeginIInv == ASSUME IInv, NEW c \in Callers, Begin(c) PROVE IInv'
<1>1. TypeOK
  BY DEF IInv
<1>2. /\ Moves(c) /\ call[c].pc = "idle" /\ call'[c].pc = "admit" /\ call'[c].request = 1
      /\ applied' = [applied EXCEPT ![c] = {}]
      /\ UNCHANGED <<breaker, counter, calm, outages, sent>>
  BY <1>1, Types DEF Begin, Moves, Places, At, vars
<1>3. TypeOK'
  BY <1>1, <1>2, Types DEF TypeOK, Moves, Places
<1>4. \A d \in Callers \ {c} : call'[d] = call[d] /\ applied'[d] = applied[d]
  BY <1>1, <1>2, Types DEF Moves, TypeOK
<1>5. Progress' /\ SuccessIsComplete'
  BY <1>2, <1>4 DEF IInv, Progress, SuccessIsComplete, At
<1>6. UnderWay' /\ OpenSheds'
  BY <1>2, <1>4 DEF IInv, UnderWay, OpenSheds, IsOpen, Admitted
<1>7. Tally'
  <2>1. Pending' = Pending
    BY <1>1, <1>2, PendingStays DEF Pending, At
  <2> QED BY <1>2, <2>1 DEF IInv, Tally
<1> QED BY <1>3, <1>5, <1>6, <1>7 DEF IInv

LEMMA AdmitIInv == ASSUME IInv, NEW c \in Callers, Admit(c) PROVE IInv'
<1>1. TypeOK
  BY DEF IInv
<1>2. /\ Moves(c) /\ call[c].pc = "admit"
      /\ \/ /\ IsOpen /\ call'[c].pc = "idle" /\ call'[c].outcome = "open"
         \/ /\ ~IsOpen /\ call'[c].pc = "incr" /\ SameRequest(c)
      /\ breaker' = Read
      /\ UNCHANGED <<counter, calm, applied, outages, sent>>
  <2>1. CASE IsOpen
    <3>1. call' = [call EXCEPT ![c] = [Idle EXCEPT !.outcome = "open"]]
      BY <2>1 DEF Admit
    <3>2. [Idle EXCEPT !.outcome = "open"] \in Places
      BY <1>1, Types DEF Places, Outcomes
    <3> QED BY <1>1, <2>1, <3>1, <3>2, Types DEF Admit, At, Moves, Places
  <2>2. CASE ~IsOpen
    <3>1. Goto(c, "incr") /\ "incr" \in Admitted
      BY <2>2 DEF Admit, Admitted
    <3> QED BY <1>1, <2>2, <3>1, GotoMoves DEF Admit, At
  <2> QED BY <2>1, <2>2
<1>3. TypeOK'
  BY <1>1, <1>2, ReadKeeps, Types DEF TypeOK, Moves, Places, Breakers
<1>4. \A d \in Callers \ {c} : call'[d] = call[d]
  BY <1>1, <1>2, Types DEF Moves
<1>5. Progress' /\ SuccessIsComplete'
  BY <1>2, <1>4 DEF IInv, Progress, SuccessIsComplete, SameRequest, At
<1>6. UnderWay' /\ OpenSheds'
  <2>1. IsOpen' => IsOpen
    BY <1>1, <1>2, ReadKeeps DEF IsOpen
  <2> QED BY <1>2, <1>4, <2>1 DEF IInv, UnderWay, OpenSheds, Admitted
<1>7. Tally'
  <2>1. Pending' = Pending
    BY <1>1, <1>2, PendingStays DEF Pending, At
  <2> QED BY <1>1, <1>2, <2>1, ReadKeeps DEF IInv, Tally
<1> QED BY <1>3, <1>5, <1>6, <1>7 DEF IInv

LEMMA LimitsIInv == ASSUME IInv, NEW c \in Callers, Limits(c) PROVE IInv'
<1>1. TypeOK
  BY DEF IInv
<1>2. TypeOK'
  BY <1>1, Types DEF TypeOK, Limits, Moves, Places, Counters
<1>3. \A d \in Callers \ {c} : call'[d] = call[d]
  BY <1>1, Types DEF Limits, Moves
<1>4. Progress' /\ SuccessIsComplete'
  BY <1>3 DEF IInv, Progress, SuccessIsComplete, Limits, SameRequest, Admitted, At
<1>5. UnderWay' /\ OpenSheds'
  BY <1>3 DEF IInv, UnderWay, OpenSheds, IsOpen, Limits, Admitted
<1>6. Tally'
  <2>1. Pending' = Pending
    BY <1>1, PendingStays DEF Pending, At, Limits, Admitted, Counted
  <2> QED BY <2>1 DEF IInv, Tally, Limits
<1> QED BY <1>2, <1>4, <1>5, <1>6 DEF IInv

\* Whatever is answered; only an outage or an unclassified error is counted.
LEMMA SendIInv == ASSUME IInv, NEW c \in Callers, Send(c) PROVE IInv'
<1>1. TypeOK
  BY DEF IInv
<1>2. PICK answer \in Answers, done \in BOOLEAN :
        /\ Carries(answer, done)
        /\ Ends(c, answer)
        /\ applied' = IF done
                        THEN [applied EXCEPT ![c] = @ \cup {call[c].request}]
                        ELSE applied
        /\ outages' = IF answer \in {"outage", "broken"}
                        THEN AtMost(Threshold, outages + 1)
                        ELSE outages
  BY DEF Send
<1>3. /\ Moves(c) /\ SameRequest(c) /\ call[c].pc = "send"
      /\ call'[c].pc = "settle" /\ call'[c].outcome = answer
      /\ UNCHANGED <<breaker, counter, calm>>
      /\ sent' = IF IsOpen THEN [sent EXCEPT ![c] = AtMost(2, @ + 1)] ELSE sent
  BY <1>1, <1>2, EndsMoves DEF Send, At, Outcomes
<1>4. \A d \in Callers \ {c} :
        call'[d] = call[d] /\ applied'[d] = applied[d] /\ sent'[d] = sent[d]
  BY <1>1, <1>2, <1>3, Types DEF Moves, TypeOK
<1>5. /\ applied[c] \subseteq applied'[c] /\ applied'[c] \subseteq 1..Requests
      /\ answer = "ok" => call[c].request \in applied'[c]
      /\ applied' \in [Callers -> SUBSET (1..Requests)]
  <2>1. call[c].request \in 1..Requests /\ applied \in [Callers -> SUBSET (1..Requests)]
    BY <1>1 DEF TypeOK
  <2>2. answer = "ok" => done
    BY <1>2 DEF Carries
  <2> QED BY <1>2, <2>1, <2>2
<1>6. /\ outages' \in 0..Threshold
      /\ outages' < Threshold => outages' = outages + (IF answer \in Counted THEN 1 ELSE 0)
  <2>1. outages \in 0..Threshold /\ Threshold \in Nat
    BY <1>1 DEF TypeOK
  <2> QED BY <1>2, <2>1 DEF AtMost, Counted
<1>7. sent' \in [Callers -> 0..2] /\ (IsOpen /\ sent[c] = 0 => sent'[c] = 1)
  <2>1. sent \in [Callers -> 0..2]
    BY <1>1 DEF TypeOK
  <2>2. AtMost(2, sent[c] + 1) \in 0..2 /\ (sent[c] = 0 => AtMost(2, sent[c] + 1) = 1)
    BY <2>1 DEF AtMost
  <2> QED BY <1>3, <2>1, <2>2
<1>8. TypeOK'
  <2>1. call' \in [Callers -> Places]
    BY <1>1, <1>3, Types DEF Moves
  <2>2. breaker' \in Breakers /\ counter' \in Counters /\ calm' \in BOOLEAN
    BY <1>1, <1>3, Types DEF TypeOK
  <2> QED BY <1>5, <1>6, <1>7, <2>1, <2>2 DEF TypeOK, Places, Breakers, Counters
<1>9. Progress' /\ SuccessIsComplete'
  BY <1>3, <1>4, <1>5 DEF IInv, Progress, SuccessIsComplete, SameRequest, At
<1>10. UnderWay' /\ OpenSheds'
  <2>1. IsOpen' <=> IsOpen
    BY <1>3 DEF IsOpen
  <2>2. IsOpen => sent[c] = 0
    BY <1>3 DEF IInv, UnderWay, Admitted
  <2> QED BY <1>3, <1>4, <1>7, <2>1, <2>2 DEF IInv, UnderWay, OpenSheds, Admitted
<1>11. Tally'
  <2>1. c \notin Pending /\ IsFiniteSet(Pending)
    BY <1>3 DEF IInv, Tally, Pending, At
  <2>2. Cardinality(Pending) \in Nat /\ breaker.failures \in Nat /\ outages \in Nat
    BY <1>1, <2>1, FS_CardinalityType DEF TypeOK
  <2>3. CASE answer \in Counted
    <3>1. IsFiniteSet(Pending') /\ Cardinality(Pending') = Cardinality(Pending) + 1
      BY <1>1, <1>3, <2>1, <2>3, PendingGrows
    <3>2. outages' < Threshold => outages' = outages + 1 /\ outages < Threshold
      BY <1>6, <2>2, <2>3
    <3> QED BY <1>3, <2>2, <3>1, <3>2 DEF IInv, Tally
  <2>4. CASE answer \notin Counted
    <3>1. Pending' = Pending
      BY <1>1, <1>3, <2>1, <2>4, PendingStays
    <3>2. outages' < Threshold => outages' = outages
      BY <1>6, <2>2, <2>4
    <3> QED BY <1>3, <3>1, <3>2 DEF IInv, Tally
  <2> QED BY <2>3, <2>4
<1> QED BY <1>8, <1>9, <1>10, <1>11 DEF IInv

\* The breaker hears of the request, and RealTool goes on, tries again or is done.
LEMMA SettleIInv == ASSUME IInv, NEW c \in Callers, Settle(c) PROVE IInv'
<1>1. TypeOK /\ call[c] \in Places /\ Threshold \in Nat \ {0}
  BY Types DEF IInv
<1> DEFINE k == call[c]
<1>2. /\ call'[c] = After(k) /\ Moves(c) /\ k.pc = "settle"
      /\ breaker' = Judged(k.outcome)
      /\ sent' = IF k.outcome \in Succeeds \cup Counted
                   THEN [d \in Callers |-> 0] ELSE sent
      /\ UNCHANGED <<counter, calm, applied, outages>>
  BY <1>1, Types, AfterType DEF Settle, Moves, At
<1>3. TypeOK'
  <2>1. breaker' \in Breakers
    BY <1>1, <1>2, JudgedType DEF Places
  <2>2. sent' \in [Callers -> 0..2]
    BY <1>1, <1>2 DEF TypeOK
  <2> QED BY <1>1, <1>2, <2>1, <2>2, Types DEF TypeOK, Moves, Places, Breakers
<1>4. \A d \in Callers \ {c} : call'[d] = call[d]
  BY <1>1, <1>2, Types DEF Moves
<1>5. Progress' /\ SuccessIsComplete'
  <2>1. ~At(c, "idle")' => \A r \in 1..Requests : r < call'[c].request => r \in applied'[c]
    <3>1. CASE After(k).request > 1
      <4>1. k.outcome = "ok" /\ call'[c].request = k.request + 1
        BY <1>1, <1>2, <3>1, AfterType
      <4>2. \A r \in 1..Requests : r <= k.request => r \in applied[c]
        BY <1>1, <1>2, <4>1 DEF IInv, Progress, At, Places
      <4> QED BY <1>1, <1>2, <4>1, <4>2 DEF Places
    <3>2. CASE ~(After(k).request > 1)
      <4>1. call'[c].request = 1
        BY <1>1, <1>2, <3>2, AfterType DEF Places
      <4> QED BY <4>1
    <3> QED BY <3>1, <3>2
  <2>2. At(c, "idle")' /\ call'[c].outcome = "ok" => applied'[c] = 1..Requests
    <3> SUFFICES ASSUME After(k).pc = "idle", After(k).outcome = "ok"
                 PROVE  applied[c] = 1..Requests
      BY <1>2 DEF At
    <3>1. k.outcome = "ok" /\ k.request = Requests
      BY <1>1, AfterType
    <3>2. \A r \in 1..Requests : r \in applied[c]
      BY <1>1, <1>2, <3>1 DEF IInv, Progress, At
    <3>3. applied[c] \subseteq 1..Requests
      BY <1>1 DEF TypeOK
    <3> QED BY <3>2, <3>3
  <2>3. call'[c].pc # "settle"
    BY <1>1, <1>2, AfterType
  <2> QED BY <1>2, <1>4, <2>1, <2>2, <2>3 DEF IInv, Progress, SuccessIsComplete, At
<1>6. UnderWay' /\ OpenSheds'
  <2>1. CASE k.outcome \in Succeeds \cup Counted
    BY <1>2, <2>1 DEF UnderWay, OpenSheds
  <2>2. CASE k.outcome \notin Succeeds \cup Counted
    <3>1. breaker' = breaker /\ sent' = sent
      BY <1>2, <2>2 DEF Judged
    <3>2. call'[c].pc \notin Admitted
      BY <1>1, <1>2, AfterType DEF Admitted
    <3> QED BY <1>4, <3>1, <3>2 DEF IInv, UnderWay, OpenSheds, IsOpen
  <2> QED BY <2>1, <2>2
<1>7. Tally'
  <2>1. call'[c].pc # "settle" /\ IsFiniteSet(Pending)
    BY <1>1, <1>2, AfterType DEF IInv, Tally
  <2>2. /\ Cardinality(Pending) \in Nat /\ breaker.failures \in Nat /\ outages \in 0..Threshold
    BY <1>1, <2>1, FS_CardinalityType DEF TypeOK
  <2>3. CASE k.outcome \in Counted
    <3>1. c \in Pending
      BY <1>2, <2>3 DEF Pending, At
    <3>2. IsFiniteSet(Pending') /\ Cardinality(Pending') = Cardinality(Pending) - 1
      BY <1>1, <1>2, <2>1, <3>1, PendingShrinks
    <3>3. breaker' = RecordFailure
      BY <1>2, <2>3 DEF Judged, Succeeds, Counted
    <3>4. Cardinality(Pending') \in Nat
      BY <3>2, FS_CardinalityType
    <3>5. outages < Threshold =>
            /\ breaker.state = "closed" /\ breaker.failures + 1 < Threshold
            /\ breaker.failures + Cardinality(Pending) <= outages
      BY <1>1, <2>2, <3>2, <3>4 DEF IInv, Tally
    <3>6. outages < Threshold =>
            breaker'.state = "closed" /\ breaker'.failures = breaker.failures + 1
      BY <1>1, <2>2, <3>3, <3>5, Types DEF RecordFailure, Breakers
    <3> QED BY <1>2, <2>2, <3>2, <3>5, <3>6 DEF Tally
  <2>4. CASE k.outcome \notin Counted
    <3>1. Pending' = Pending
      BY <1>1, <1>2, <2>1, <2>4, PendingStays DEF Pending
    <3>2. breaker' = Closed \/ breaker' = breaker
      BY <1>2, <2>4 DEF Judged, RecordSuccess
    <3>3. outages < Threshold =>
            breaker'.state = "closed" /\ breaker'.failures <= breaker.failures
      BY <1>1, <2>2, <3>2, Types DEF IInv, Tally
    <3>4. breaker'.failures \in Nat
      BY <1>3 DEF TypeOK
    <3> QED BY <1>2, <2>1, <2>2, <3>1, <3>3, <3>4 DEF IInv, Tally
  <2> QED BY <2>3, <2>4
<1> QED BY <1>3, <1>5, <1>6, <1>7 DEF IInv

\* Time, the weather and what leaves everything as it is.
LEMMA EnvironmentIInv ==
  ASSUME IInv, Cool \/ WindowEnds \/ Weather \/ UNCHANGED vars
  PROVE  IInv'
<1>1. TypeOK
  BY DEF IInv
<1>2. /\ UNCHANGED <<call, applied, outages>>
      /\ breaker'.state = breaker.state /\ breaker'.failures = breaker.failures
      /\ breaker' \in Breakers /\ counter' \in Counters /\ calm' \in BOOLEAN
      /\ \/ UNCHANGED <<breaker, sent>>
         \/ ~IsOpen' /\ sent' = [c \in Callers |-> 0]
  <2>1. breaker \in Breakers /\ counter \in Counters /\ calm \in BOOLEAN
    BY <1>1, Types DEF TypeOK
  <2>2. CASE Cool
    BY <2>1, <2>2 DEF Cool, IsOpen, Breakers
  <2>3. CASE WindowEnds
    BY <2>1, <2>3 DEF WindowEnds, Counters
  <2>4. CASE Weather \/ UNCHANGED vars
    BY <2>1, <2>4 DEF Weather, vars
  <2> QED BY <2>2, <2>3, <2>4
<1>3. TypeOK'
  BY <1>1, <1>2 DEF TypeOK, Breakers, Counters
<1>4. Progress' /\ SuccessIsComplete'
  BY <1>2 DEF IInv, Progress, SuccessIsComplete, At
<1>5. UnderWay' /\ OpenSheds'
  BY <1>2 DEF IInv, UnderWay, OpenSheds, IsOpen
<1>6. Tally'
  <2>1. Pending' = Pending
    BY <1>2 DEF Pending, At
  <2> QED BY <1>2, <2>1 DEF IInv, Tally
<1> QED BY <1>3, <1>4, <1>5, <1>6 DEF IInv

\* A process that has begun knows of no call, no failure and no outage.
LEMMA BeginningIInv ==
  ASSUME breaker = Closed, counter \in Counters, calm \in BOOLEAN,
         call = [c \in Callers |-> Idle], applied = [c \in Callers |-> {}],
         outages = 0, sent = [c \in Callers |-> 0]
  PROVE  IInv
<1>1. Idle \in Places /\ Idle.pc = "idle" /\ Idle.outcome = "none"
  <2>1. 1 \in 1..MaxAttempts /\ 1 \in 1..Requests /\ 0 \in 0..(Limit + 1)
    OBVIOUS
  <2> QED BY <2>1 DEF Idle, Places, Outcomes
<1>2. TypeOK
  BY <1>1 DEF TypeOK, Closed, Places, Counters
<1>3. Progress /\ SuccessIsComplete
  BY <1>1 DEF Progress, SuccessIsComplete, At
<1>4. UnderWay /\ OpenSheds
  BY DEF UnderWay, OpenSheds, IsOpen, Closed
<1>5. Tally
  <2>1. Pending = {}
    BY <1>1 DEF Pending, At
  <2> QED BY <2>1, FS_EmptySet DEF Tally, Closed
<1> QED BY <1>2, <1>3, <1>4, <1>5 DEF IInv

LEMMA InitIInv == Init => IInv
<1>1. [hits |-> 0, ttl |-> FALSE] \in Counters
  BY DEF Counters
<1> QED BY <1>1, BeginningIInv DEF Init

LEMMA RestartIInv == ASSUME IInv, Restart PROVE IInv'
<1>1. Idle \in Places /\ Idle.pc = "idle" /\ Idle.outcome = "none" /\ counter' \in Counters
  BY Types DEF IInv, Restart
<1>2. TypeOK'
  BY <1>1 DEF IInv, TypeOK, Restart, Closed, Places, Counters
<1>3. Progress' /\ SuccessIsComplete'
  BY <1>1 DEF Restart, Progress, SuccessIsComplete, At
<1>4. UnderWay' /\ OpenSheds'
  BY DEF Restart, UnderWay, OpenSheds, IsOpen, Closed
<1>5. Tally'
  <2>1. Pending' = {}
    BY <1>1 DEF Restart, Pending, At
  <2> QED BY <2>1, FS_EmptySet DEF Restart, Tally, Closed
<1> QED BY <1>2, <1>3, <1>4, <1>5 DEF IInv

LEMMA NextIInv == IInv /\ [Next]_vars => IInv'
<1> SUFFICES ASSUME IInv, [Next]_vars PROVE IInv'
  OBVIOUS
<1>1. ASSUME NEW c \in Callers, CallStep(c) PROVE IInv'
  <2>1. TypeOK
    BY DEF IInv
  <2> QED BY <1>1, <2>1, LimiterSteps, AdmitIInv, LimitsIInv, SendIInv, SettleIInv DEF CallStep
<1> QED BY <1>1, BeginIInv, EnvironmentIInv, RestartIInv DEF Next

\* Every state that the steps of the code reach satisfies the inductive invariant.
THEOREM Invariance == Spec => []IInv
  BY InitIInv, NextIInv, PTL DEF Spec

-----------------------------------------------------------------------------
(* What follows.                                                           *)

\* The breaker, the counter and the calls keep their types.
THEOREM TypeCorrectness == Spec => []TypeOK
<1>1. IInv => TypeOK
  BY DEF IInv
<1> QED BY <1>1, Invariance, PTL

\* A tool call that succeeds did all of its requests, whatever attempts,
\* refusals and timeouts came before.
THEOREM SuccessesAreComplete == Spec => []SuccessIsComplete
<1>1. IInv => SuccessIsComplete
  BY DEF IInv
<1> QED BY <1>1, Invariance, PTL

\* However the answers of concurrent calls reach the breaker, it is not closed
\* only after a threshold of outages.
THEOREM CircuitsOpenOnOutages == Spec => []OnlyOutagesOpen
<1>1. IInv => OnlyOutagesOpen
  BY DEF IInv, TypeOK, Tally, OnlyOutagesOpen
<1> QED BY <1>1, Invariance, PTL

\* An open breaker lets each caller finish the request it had begun, no more.
THEOREM OpenCircuitsShed == Spec => []OpenSheds
<1>1. IInv => OpenSheds
  BY DEF IInv
<1> QED BY <1>1, Invariance, PTL

-----------------------------------------------------------------------------
(* The listings read: places in a listing.                                 *)

HIDE LiveApiAssumption

\* The items before another are finitely many.
LEMMA NewerFinite ==
  ASSUME NEW S, IsFiniteSet(S), NEW i
  PROVE  /\ Newer(i, S) \in SUBSET S /\ IsFiniteSet(Newer(i, S))
         /\ Rank(i, S) \in Nat
  BY FS_Subset, FS_CardinalityType DEF Newer, Rank

\* A set of smaller items has a least one.
LEMMA HasLeast ==
  ASSUME NEW S, \A s \in S : s \in Nat, IsFiniteSet(S), S # {}
  PROVE  \E m \in S : \A k \in S : m <= k
<1> DEFINE Upto(k) == {l \in S : l <= k}
           T == {Upto(k) : k \in S}
<1>1. T \subseteq FiniteSubsetsOf(S) /\ T # {}
  <2>1. \A k \in S : Upto(k) \in SUBSET S
    OBVIOUS
  <2> HIDE DEF Upto
  <2> QED BY <2>1, FS_Subset DEF FiniteSubsetsOf
<1>2. PICK x \in T : \A y \in T : <<y, x>> \notin StrictSubsetOrdering(S)
  BY <1>1, FS_StrictSubsetOrderingWellFounded, WFMin
<1>3. PICK m \in S : x = Upto(m)
  BY <1>2
<1>4. ASSUME NEW k \in S, k < m PROVE FALSE
  <2>1. /\ Upto(k) \subseteq Upto(m) /\ m \in Upto(m) /\ m \notin Upto(k)
        /\ Upto(k) \in SUBSET S /\ Upto(m) \in SUBSET S /\ Upto(k) \in T
    BY <1>4
  <2> HIDE DEF Upto, T
  <2>2. <<Upto(k), Upto(m)>> \in StrictSubsetOrdering(S)
    BY <2>1 DEF StrictSubsetOrdering
  <2> QED BY <1>2, <1>3, <2>1, <2>2
<1> QED BY <1>4

\* The newer an item, the earlier its place.
LEMMA RankOrder ==
  ASSUME NEW S, \A s \in S : s \in Nat, IsFiniteSet(S), NEW i \in S, NEW j \in S
  PROVE  Rank(i, S) < Rank(j, S) <=> i > j
<1>1. ASSUME NEW k \in S, NEW l \in S, k > l PROVE Rank(k, S) < Rank(l, S)
  <2>1. Newer(k, S) \subseteq Newer(l, S) \ {k} /\ k \in Newer(l, S)
    BY <1>1 DEF Newer
  <2>2. /\ IsFiniteSet(Newer(l, S) \ {k})
        /\ Cardinality(Newer(l, S) \ {k}) = Cardinality(Newer(l, S)) - 1
    BY <2>1, NewerFinite, FS_RemoveElement
  <2>3. Cardinality(Newer(k, S)) <= Cardinality(Newer(l, S) \ {k})
    BY <2>1, <2>2, FS_Subset
  <2> QED BY <2>2, <2>3, NewerFinite DEF Rank
<1>2. i < j \/ i = j \/ i > j
  OBVIOUS
<1>3. Rank(i, S) \in Nat /\ Rank(j, S) \in Nat
  BY NewerFinite
<1> QED BY <1>1, <1>2, <1>3

\* If anything comes after the first n items, these are n.
LEMMA FirstFull ==
  ASSUME NEW S, \A s \in S : s \in Nat, IsFiniteSet(S), NEW n \in Nat,
         NEW i \in S, Rank(i, S) >= n
  PROVE  Cardinality(First(S, n)) = n
<1> DEFINE Later == {j \in S : Rank(j, S) >= n}
           T == {Newer(j, S) : j \in Later}
<1>1. T \subseteq FiniteSubsetsOf(S) /\ T # {}
  BY NewerFinite DEF FiniteSubsetsOf
<1>2. PICK x \in T : \A y \in T : <<y, x>> \notin StrictSubsetOrdering(S)
  BY <1>1, FS_StrictSubsetOrderingWellFounded, WFMin
<1>3. PICK j \in S : x = Newer(j, S) /\ Rank(j, S) >= n
  BY <1>2
<1>4. Rank(j, S) = n
  <2> SUFFICES ASSUME Rank(j, S) # n PROVE FALSE
    OBVIOUS
  <2>1. Rank(j, S) \in Nat /\ Rank(j, S) > n /\ IsFiniteSet(Newer(j, S))
    BY <1>3, NewerFinite
  <2>2. Newer(j, S) # {}
    BY <2>1, FS_EmptySet DEF Rank
  <2>3. \A k \in Newer(j, S) : k \in Nat
    BY DEF Newer
  <2>4. PICK k \in Newer(j, S) : \A l \in Newer(j, S) : k <= l
    BY <2>1, <2>2, <2>3, HasLeast
  <2>5. k \in S /\ Newer(k, S) = Newer(j, S) \ {k}
    BY <2>4 DEF Newer
  <2>6. Rank(k, S) = Rank(j, S) - 1
    BY <2>1, <2>4, <2>5, FS_RemoveElement DEF Rank
  <2>7. Newer(k, S) \in T
    BY <2>1, <2>5, <2>6
  <2>8. Newer(k, S) # Newer(j, S)
    BY <2>4, <2>5
  <2>9. <<Newer(k, S), Newer(j, S)>> \in StrictSubsetOrdering(S)
    BY <2>5, <2>8, NewerFinite DEF StrictSubsetOrdering
  <2> QED BY <1>2, <1>3, <2>7, <2>9
<1>5. \A k \in S : Rank(k, S) < n <=> k > j
  BY <1>4, RankOrder
<1>6. First(S, n) = Newer(j, S)
  BY <1>5 DEF First, Newer
<1> QED BY <1>4, <1>6 DEF Rank
-----------------------------------------------------------------------------
(* The tables of the clients.                                              *)

Styles == {"link", "cursor", "slack", "count", "more", "short", "newest", "single"}

\* Every read has one of the styles; deployments are paged by links.
LEMMA StylesAre ==
  /\ \A e \in Endpoints : Style[e] \in Styles
  /\ "deployments" \in Endpoints /\ Style["deployments"] = "link"
  /\ "commits" \in Endpoints
<1>1. \A e \in DOMAIN DatadogReads : DatadogReads[e] \in Styles
  BY DEF DatadogReads, Styles
<1>2. \A e \in DOMAIN PrometheusReads : PrometheusReads[e] \in Styles
  BY DEF PrometheusReads, Styles
<1>3. \A e \in DOMAIN LokiReads : LokiReads[e] \in Styles
  BY DEF LokiReads, Styles
<1>4. \A e \in DOMAIN GitHubHistoryReads : GitHubHistoryReads[e] \in Styles
  BY DEF GitHubHistoryReads, Styles
<1>5. \A e \in DOMAIN GitHubDeploymentReads : GitHubDeploymentReads[e] \in Styles
  BY DEF GitHubDeploymentReads, Styles
<1>6. \A e \in DOMAIN GitHubCheckReads : GitHubCheckReads[e] \in Styles
  BY DEF GitHubCheckReads, Styles
<1>7. \A e \in DOMAIN PagerDutyReads : PagerDutyReads[e] \in Styles
  BY DEF PagerDutyReads, Styles
<1>8. \A e \in DOMAIN SlackReads : SlackReads[e] \in Styles
  BY DEF SlackReads, Styles
<1>9. \A e \in Endpoints : Style[e] \in Styles
  BY <1>1, <1>2, <1>3, <1>4, <1>5, <1>6, <1>7, <1>8
  DEF Style, Endpoints, RepositoryReads
<1>10. /\ "deployments" \in DOMAIN GitHubDeploymentReads
       /\ GitHubDeploymentReads["deployments"] = "link"
       /\ "deployments" \notin DOMAIN DatadogReads
       /\ "deployments" \notin DOMAIN PrometheusReads
       /\ "deployments" \notin DOMAIN LokiReads
       /\ "deployments" \notin DOMAIN GitHubHistoryReads
       /\ "deployments" \notin DOMAIN GitHubCheckReads
       /\ "deployments" \notin DOMAIN PagerDutyReads
       /\ "deployments" \notin DOMAIN SlackReads
       /\ "commits" \in DOMAIN GitHubHistoryReads
  BY DEF DatadogReads, PrometheusReads, LokiReads, GitHubHistoryReads,
         GitHubDeploymentReads, GitHubCheckReads, PagerDutyReads, SlackReads
<1>11. "deployments" \in Endpoints /\ "commits" \in Endpoints
  BY <1>10 DEF Endpoints, RepositoryReads
<1>12. Style["deployments"] = "link"
  BY <1>10, <1>11 DEF Style
<1> QED BY <1>9, <1>11, <1>12

\* What each read that brings evidence refuses at least.
LEMMA RefusedAre ==
  /\ \A e \in RepositoryReads \ {"contents"} :
       e \in Endpoints /\ {"not_object", "foreign"} \subseteq Refuses[e]
  /\ \A e \in OfOneObject :
       e \in Endpoints /\ {"not_object", "other"} \subseteq Refuses[e]
  /\ \A e \in {"commits", "deployments", "logs", "spans", "incidents", "on_calls"} :
       e \in Endpoints /\ {"not_object", "no_id"} \subseteq Refuses[e]
<1> DEFINE Dated  == {"commits", "pull_request_commits", "deployments"}
           Pulls  == {"pull_request", "pull_requests", "pull_request_files"}
           States == {"deployment_statuses", "statuses"}
           Calls  == {"incident", "incidents", "on_calls"}
<1>1. RepositoryReads =
        {"commits", "pull_request", "pull_requests", "pull_request_files",
         "pull_request_commits", "deployments", "deployment_statuses", "statuses",
         "check_runs", "contents"}
  BY DEF RepositoryReads, GitHubHistoryReads, GitHubDeploymentReads, GitHubCheckReads
<1>2. RepositoryReads \subseteq Endpoints
  BY DEF Endpoints
<1>3. {"commits", "deployments", "logs", "spans", "incident", "incidents", "on_calls"}
        \subseteq Endpoints
  BY DEF Endpoints, RepositoryReads, DatadogReads, PagerDutyReads, GitHubHistoryReads,
         GitHubDeploymentReads
<1>4. /\ DOMAIN DatadogRefuses =
           {"metric", "dashboard", "monitors", "monitor_search", "logs", "spans"}
      /\ DOMAIN PrometheusRefuses = {"query_range", "query", "rules", "targets"}
      /\ DOMAIN LokiRefuses = {"loki_query_range", "labels"}
      /\ DOMAIN ContentsRefuses = {"contents"}
      /\ DOMAIN HistoryRefuses = {"commits", "pull_request_commits", "deployments"}
      /\ DOMAIN PullRequestRefuses = Pulls
      /\ DOMAIN StatusRefuses = {"deployment_statuses", "statuses"}
      /\ DOMAIN CheckRunRefuses = {"check_runs"}
      /\ DOMAIN PagerDutyRefuses = {"incident", "incidents", "on_calls"}
      /\ DOMAIN ChannelRefuses = {"channels"}
  BY DEF DatadogRefuses, PrometheusRefuses, PrometheusReads, LokiRefuses, ContentsRefuses,
         HistoryRefuses, PullRequestRefuses, StatusRefuses, CheckRunRefuses, PagerDutyRefuses,
         ChannelRefuses
<1>5. /\ \A e \in {"logs", "spans"} : Refuses[e] = DatadogRefuses[e]
      /\ \A e \in {"contents"} : Refuses[e] = ContentsRefuses[e]
      /\ \A e \in Dated : Refuses[e] = HistoryRefuses[e]
      /\ \A e \in Pulls : Refuses[e] = PullRequestRefuses[e]
      /\ \A e \in States : Refuses[e] = StatusRefuses[e]
      /\ \A e \in {"check_runs"} : Refuses[e] = CheckRunRefuses[e]
      /\ \A e \in Calls : Refuses[e] = PagerDutyRefuses[e]
  <2>1. ASSUME NEW e \in {"logs", "spans"} PROVE Refuses[e] = DatadogRefuses[e]
    <3>1. /\ e \in Endpoints /\ e \in DOMAIN DatadogRefuses
          /\ e \notin DOMAIN PrometheusRefuses /\ e \notin DOMAIN LokiRefuses
          /\ e \notin DOMAIN ContentsRefuses /\ e \notin DOMAIN HistoryRefuses
          /\ e \notin DOMAIN PullRequestRefuses /\ e \notin DOMAIN StatusRefuses
          /\ e \notin DOMAIN CheckRunRefuses /\ e \notin DOMAIN PagerDutyRefuses
          /\ e \notin DOMAIN ChannelRefuses
      BY <1>1, <1>2, <1>3, <1>4
    <3> QED BY <3>1 DEF Refuses
  <2>2. ASSUME NEW e \in {"contents"} PROVE Refuses[e] = ContentsRefuses[e]
    <3>1. /\ e \in Endpoints /\ e \in DOMAIN ContentsRefuses
          /\ e \notin DOMAIN DatadogRefuses /\ e \notin DOMAIN PrometheusRefuses
          /\ e \notin DOMAIN LokiRefuses /\ e \notin DOMAIN HistoryRefuses
          /\ e \notin DOMAIN PullRequestRefuses /\ e \notin DOMAIN StatusRefuses
          /\ e \notin DOMAIN CheckRunRefuses /\ e \notin DOMAIN PagerDutyRefuses
          /\ e \notin DOMAIN ChannelRefuses
      BY <1>1, <1>2, <1>3, <1>4
    <3> QED BY <3>1 DEF Refuses
  <2>3. ASSUME NEW e \in Dated PROVE Refuses[e] = HistoryRefuses[e]
    <3>1. /\ e \in Endpoints /\ e \in DOMAIN HistoryRefuses
          /\ e \notin DOMAIN DatadogRefuses /\ e \notin DOMAIN PrometheusRefuses
          /\ e \notin DOMAIN LokiRefuses /\ e \notin DOMAIN ContentsRefuses
          /\ e \notin DOMAIN PullRequestRefuses /\ e \notin DOMAIN StatusRefuses
          /\ e \notin DOMAIN CheckRunRefuses /\ e \notin DOMAIN PagerDutyRefuses
          /\ e \notin DOMAIN ChannelRefuses
      BY <1>1, <1>2, <1>3, <1>4
    <3> QED BY <3>1 DEF Refuses
  <2>4. ASSUME NEW e \in Pulls PROVE Refuses[e] = PullRequestRefuses[e]
    <3>1. /\ e \in Endpoints /\ e \in DOMAIN PullRequestRefuses
          /\ e \notin DOMAIN DatadogRefuses /\ e \notin DOMAIN PrometheusRefuses
          /\ e \notin DOMAIN LokiRefuses /\ e \notin DOMAIN ContentsRefuses
          /\ e \notin DOMAIN HistoryRefuses /\ e \notin DOMAIN StatusRefuses
          /\ e \notin DOMAIN CheckRunRefuses /\ e \notin DOMAIN PagerDutyRefuses
          /\ e \notin DOMAIN ChannelRefuses
      BY <1>1, <1>2, <1>3, <1>4
    <3> QED BY <3>1 DEF Refuses
  <2>5. ASSUME NEW e \in States PROVE Refuses[e] = StatusRefuses[e]
    <3>1. /\ e \in Endpoints /\ e \in DOMAIN StatusRefuses
          /\ e \notin DOMAIN DatadogRefuses /\ e \notin DOMAIN PrometheusRefuses
          /\ e \notin DOMAIN LokiRefuses /\ e \notin DOMAIN ContentsRefuses
          /\ e \notin DOMAIN HistoryRefuses /\ e \notin DOMAIN PullRequestRefuses
          /\ e \notin DOMAIN CheckRunRefuses /\ e \notin DOMAIN PagerDutyRefuses
          /\ e \notin DOMAIN ChannelRefuses
      BY <1>1, <1>2, <1>3, <1>4
    <3> QED BY <3>1 DEF Refuses
  <2>6. ASSUME NEW e \in {"check_runs"} PROVE Refuses[e] = CheckRunRefuses[e]
    <3>1. /\ e \in Endpoints /\ e \in DOMAIN CheckRunRefuses
          /\ e \notin DOMAIN DatadogRefuses /\ e \notin DOMAIN PrometheusRefuses
          /\ e \notin DOMAIN LokiRefuses /\ e \notin DOMAIN ContentsRefuses
          /\ e \notin DOMAIN HistoryRefuses /\ e \notin DOMAIN PullRequestRefuses
          /\ e \notin DOMAIN StatusRefuses /\ e \notin DOMAIN PagerDutyRefuses
          /\ e \notin DOMAIN ChannelRefuses
      BY <1>1, <1>2, <1>3, <1>4
    <3> QED BY <3>1 DEF Refuses
  <2>7. ASSUME NEW e \in Calls
        PROVE  Refuses[e] = PagerDutyRefuses[e]
    <3>1. /\ e \in Endpoints /\ e \in DOMAIN PagerDutyRefuses
          /\ e \notin DOMAIN DatadogRefuses /\ e \notin DOMAIN PrometheusRefuses
          /\ e \notin DOMAIN LokiRefuses /\ e \notin DOMAIN ContentsRefuses
          /\ e \notin DOMAIN HistoryRefuses /\ e \notin DOMAIN PullRequestRefuses
          /\ e \notin DOMAIN StatusRefuses /\ e \notin DOMAIN CheckRunRefuses
          /\ e \notin DOMAIN ChannelRefuses
      BY <1>1, <1>2, <1>3, <1>4
    <3> QED BY <3>1 DEF Refuses
  <2> QED BY <2>1, <2>2, <2>3, <2>4, <2>5, <2>6, <2>7
<1>6. /\ {"not_object", "other"} \subseteq ContentsRefuses["contents"]
      /\ \A e \in Dated :
           {"not_object", "foreign", "no_id"} \subseteq HistoryRefuses[e]
      /\ \A e \in Pulls :
           {"not_object", "foreign", "other"} \subseteq PullRequestRefuses[e]
      /\ \A e \in States :
           {"not_object", "foreign"} \subseteq StatusRefuses[e]
      /\ "other" \in StatusRefuses["deployment_statuses"]
      /\ {"not_object", "foreign"} \subseteq CheckRunRefuses["check_runs"]
      /\ \A e \in {"logs", "spans"} :
           {"not_object", "no_id"} \subseteq DatadogRefuses[e]
      /\ \A e \in {"incidents", "on_calls"} :
           {"not_object", "no_id"} \subseteq PagerDutyRefuses[e]
      /\ {"not_object", "other"} \subseteq PagerDutyRefuses["incident"]
  BY DEF DatadogRefuses, ContentsRefuses, HistoryRefuses, PullRequestRefuses, StatusRefuses,
         CheckRunRefuses, PagerDutyRefuses
<1>7. \A e \in RepositoryReads \ {"contents"} :
        e \in Endpoints /\ {"not_object", "foreign"} \subseteq Refuses[e]
  BY <1>1, <1>2, <1>5, <1>6
<1>8. \A e \in OfOneObject :
        e \in Endpoints /\ {"not_object", "other"} \subseteq Refuses[e]
  BY <1>1, <1>2, <1>3, <1>5, <1>6 DEF OfOneObject
<1>9. \A e \in {"commits", "deployments", "logs", "spans", "incidents", "on_calls"} :
        e \in Endpoints /\ {"not_object", "no_id"} \subseteq Refuses[e]
  BY <1>3, <1>5, <1>6
<1> QED BY <1>7, <1>8, <1>9

-----------------------------------------------------------------------------
(* Where an item comes when the listing grows, and after a page.           *)

\* An item never moves to an earlier place when the listing grows.
LEMMA RankGrows ==
  ASSUME NEW T, IsFiniteSet(T), NEW S \in SUBSET T, NEW i
  PROVE  Rank(i, S) <= Rank(i, T)
<1>1. Newer(i, S) \subseteq Newer(i, T)
  BY DEF Newer
<1> QED BY <1>1, NewerFinite, FS_Subset DEF Rank

\* What comes p places behind the first n comes n + p places behind the start.
LEMMA RankBehind ==
  ASSUME NEW S, \A s \in S : s \in Nat, IsFiniteSet(S), NEW n \in Nat, NEW p \in Nat,
         NEW i \in S, Rank(i, S) >= n,
         Rank(i, {j \in S : Rank(j, S) >= n}) >= p
  PROVE  Rank(i, S) >= n + p
<1> DEFINE A == {j \in S : Rank(j, S) >= n}
<1>1. \A j \in S : Rank(j, S) \in Nat
  BY NewerFinite
<1>2. First(S, n) \subseteq Newer(i, S) /\ First(S, n) \cap Newer(i, A) = {}
  BY <1>1, RankOrder DEF First, Newer
<1>3. First(S, n) \cup Newer(i, A) \subseteq Newer(i, S)
  BY <1>2 DEF Newer
<1>4. Cardinality(First(S, n)) = n
  BY FirstFull
<1>5. IsFiniteSet(First(S, n)) /\ IsFiniteSet(A)
  BY FS_Subset DEF First
<1>6. IsFiniteSet(Newer(i, A)) /\ Rank(i, A) \in Nat
  BY <1>5, NewerFinite
<1> HIDE DEF A
<1>7. Cardinality(First(S, n) \cup Newer(i, A)) = n + Rank(i, A)
  <2>1. Cardinality(First(S, n) \cup Newer(i, A)) =
          Cardinality(First(S, n)) + Cardinality(Newer(i, A))
            - Cardinality(First(S, n) \cap Newer(i, A))
    BY <1>5, <1>6, FS_Union
  <2>2. Cardinality(First(S, n) \cap Newer(i, A)) = 0
    BY <1>2, FS_EmptySet
  <2> QED BY <1>4, <1>6, <2>1, <2>2 DEF Rank
<1>8. n + Rank(i, A) <= Rank(i, S)
  BY <1>3, <1>7, NewerFinite, FS_Subset DEF Rank
<1> QED BY <1>1, <1>6, <1>8 DEF A

-----------------------------------------------------------------------------
(* The page that is asked for.                                             *)

\* The listing, what is collected, and the page are finite.
LEMMA ListingFinite ==
  ASSUME ReadTypeOK
  PROVE  /\ IsFiniteSet(listing) /\ \A i \in listing : i \in Nat
         /\ IsFiniteSet(read.got) /\ \A i \in read.got : i \in Nat
         /\ Ahead \subseteq listing /\ IsFiniteSet(Ahead)
         /\ Batch \subseteq Ahead /\ IsFiniteSet(Batch)
<1>1. listing \subseteq Items /\ read.got \subseteq Items
  BY DEF ReadTypeOK, Reads
<1>2. Ahead \subseteq listing
  BY DEF Ahead
<1>3. Batch \subseteq Ahead
  BY DEF Batch, First
<1> QED BY <1>1, <1>2, <1>3, FS_Subset, ProviderReadsAssumption

\* An item ahead that is not on the page: the page is full.
LEMMA PageFull ==
  ASSUME ReadTypeOK, MoreAhead
  PROVE  Full /\ Batch # {} /\ Style[read.endpoint] # "single"
<1>1. Style[read.endpoint] # "single" /\ Batch = First(Ahead, PageSize)
  BY DEF MoreAhead, Batch
<1>2. PICK i \in Ahead : i \notin Batch
  BY ListingFinite DEF MoreAhead
<1>3. Rank(i, Ahead) >= PageSize /\ PageSize \in Nat \ {0}
  BY <1>1, <1>2, ListingFinite, NewerFinite, ProviderReadsAssumption DEF First
<1>4. \A j \in Ahead : j \in Nat
  BY ListingFinite
<1>5. Cardinality(First(Ahead, PageSize)) = PageSize
  BY <1>3, <1>4, ListingFinite, FirstFull
<1> QED BY <1>1, <1>3, <1>5, FS_EmptySet DEF Full

\* A client that stops without cutting has everything, or its caller allowed
\* it to stop early.
LEMMA StopsAtEnd ==
  ASSUME ReadTypeOK, NEW signal \in Signals, MaySay(signal),
         Verdict(signal) = "stop", Style[read.endpoint] # "newest",
         ~read.allow \/ read.endpoint = "deployments"
  PROVE  Batch = Ahead
<1>1. Style[read.endpoint] \in Styles
  BY StylesAre DEF ReadTypeOK, Reads
<1>2. read.endpoint = "deployments" => Style[read.endpoint] = "link"
  BY StylesAre
<1>3. signal # "malformed"
  BY DEF Verdict
<1>4. signal = "last" => ~MoreAhead
  BY DEF MaySay
<1>5. CASE Style[read.endpoint] = "link"
  BY <1>3, <1>4, <1>5 DEF Verdict, LinkVerdict, MaySay, Signals, Keyset, MoreAhead
<1>6. CASE Style[read.endpoint] = "cursor"
  BY <1>2, <1>3, <1>4, <1>6
  DEF Verdict, CursorVerdict, MaySay, Signals, Keyset, MoreAhead
<1>7. CASE Style[read.endpoint] = "slack"
  BY <1>2, <1>3, <1>4, <1>7
  DEF Verdict, SlackVerdict, MaySay, Signals, Keyset, MoreAhead
<1>8. CASE Style[read.endpoint] = "count"
  BY <1>2, <1>3, <1>4, <1>8, PageFull DEF Verdict, CountVerdict, Signals, MoreAhead
<1>9. CASE Style[read.endpoint] = "more"
  BY <1>2, <1>3, <1>4, <1>9, PageFull DEF Verdict, MoreVerdict, Signals, MoreAhead
<1>10. CASE Style[read.endpoint] = "short"
  BY <1>3, <1>10, PageFull DEF Verdict, ShortVerdict, MoreAhead
<1>11. CASE Style[read.endpoint] = "single"
  BY <1>11 DEF Batch
<1> QED BY <1>1, <1>5, <1>6, <1>7, <1>8, <1>9, <1>10, <1>11 DEF Styles

-----------------------------------------------------------------------------
(* The inductive invariant.                                                *)

\* An item that was there all along is collected or still ahead, if nothing
\* moved the items behind it to earlier places.
Collecting ==
  read.pc = "reading" /\ (removed => Style[read.endpoint] \in Keyset)
    => \A i \in steady : i \in read.got \/ i \in Ahead

\* The last page was the last.
Whole ==
  (read.pc = "statuses" \/ Succeeded) /\ TakenForWhole
    /\ Style[read.endpoint] # "newest" /\ (removed => Style[read.endpoint] \in Keyset)
  => \A i \in steady : Kept(i) => i \in read.got

\* What is returned, or about to be, has been looked at.
LookedAt ==
  read.pc = "statuses" \/ Succeeded => ~Shows(read.got, Refuses[read.endpoint])

ReadIInv == ReadTypeOK /\ Collecting /\ Whole /\ LookedAt

-----------------------------------------------------------------------------
(* What a page adds.                                                       *)

\* What is not on the page is still ahead after it.
LEMMA StillAhead ==
  ASSUME ReadTypeOK, Style[read.endpoint] # "single",
         NEW i \in Ahead, i \notin Batch,
         read'.endpoint = read.endpoint, read'.page = read.page + 1,
         read'.got = read.got \cup Batch, listing' = listing
  PROVE  i \in Ahead'
<1>1. Batch = First(Ahead, PageSize) /\ PageSize \in Nat /\ read.page \in Nat
  BY ProviderReadsAssumption DEF Batch, ReadTypeOK, Reads
<1>2. \A j \in Ahead : j \in Nat /\ Rank(j, Ahead) \in Nat
  BY ListingFinite, NewerFinite
<1>3. Rank(i, Ahead) >= PageSize
  BY <1>1, <1>2 DEF First
<1>4. CASE Style[read.endpoint] \in Keyset
  <2>1. ASSUME NEW j \in Batch PROVE i < j
    <3>1. j \in Ahead /\ Rank(j, Ahead) < Rank(i, Ahead)
      BY <1>1, <1>2, <1>3 DEF First
    <3> QED BY <1>2, <3>1, ListingFinite, RankOrder
  <2> QED BY <1>4, <2>1 DEF Ahead
<1>5. CASE Style[read.endpoint] \notin Keyset
  <2>1. Ahead = {j \in listing : Rank(j, listing) >= read.page * PageSize}
    BY <1>5 DEF Ahead
  <2>2. read.page * PageSize \in Nat
    BY <1>1
  <2>3. Rank(i, listing) >= read.page * PageSize + PageSize
    BY <1>1, <1>3, <2>1, <2>2, ListingFinite, RankBehind
  <2>4. (read.page + 1) * PageSize = read.page * PageSize + PageSize
    BY <1>1
  <2> QED BY <1>5, <2>1, <2>3, <2>4 DEF Ahead
<1> QED BY <1>4, <1>5

-----------------------------------------------------------------------------
(* The steps.                                                              *)

LEMMA ReadInitOK ==
  ASSUME ReadInit
  PROVE  ReadIInv
<1>1. NoRead \in Reads /\ NoRead.page < NoRead.limit
  BY StylesAre, ProviderReadsAssumption DEF NoRead, Reads
<1>2. ReadTypeOK
  BY <1>1 DEF ReadInit, ReadTypeOK, NoFlaw, Flaws
<1>3. Collecting /\ Whole /\ LookedAt
  BY DEF ReadInit, Collecting, Whole, LookedAt, Succeeded, NoRead
<1> QED BY <1>2, <1>3 DEF ReadIInv

LEMMA BeginReadOK ==
  ASSUME ReadIInv, BeginRead
  PROVE  ReadIInv'
<1>1. PICK e \in Endpoints, allow \in BOOLEAN, limit \in 1..MaxPages,
           since \in Items \cup {0}, item \in Items, kind \in Flaws :
        /\ e # "deployments" => since = 0 /\ kind # "undated"
        /\ read' = [NoRead EXCEPT !.pc = "reading", !.endpoint = e, !.allow = allow,
                                  !.limit = limit, !.since = since]
        /\ flawed' = [item |-> item, kind |-> kind]
  BY Zenon DEF BeginRead
<1>2. /\ read' \in Reads /\ read'.page < read'.limit /\ read'.pc = "reading"
      /\ read'.page = 0 /\ read'.got = {}
  <2>1. read' = [pc |-> "reading", endpoint |-> e, allow |-> allow, limit |-> limit,
                 since |-> since, page |-> 0, got |-> {}, statuses |-> 0,
                 truncated |-> FALSE, outcome |-> "none"]
    BY <1>1 DEF NoRead
  <2>2. limit > 0
    BY ProviderReadsAssumption
  <2> QED BY <2>1, <2>2 DEF Reads
<1>3. listing' \subseteq Items /\ steady' = listing' /\ removed' = FALSE
  BY DEF BeginRead
<1>4. ReadTypeOK'
  BY <1>1, <1>2, <1>3 DEF ReadTypeOK
<1>5. \A i \in listing' : Rank(i, listing') \in Nat
  BY <1>3, FS_Subset, NewerFinite, ProviderReadsAssumption
<1>6. Ahead' = listing'
  BY <1>2, <1>5, ProviderReadsAssumption DEF Ahead
<1>7. Collecting' /\ Whole' /\ LookedAt'
  BY <1>2, <1>3, <1>6 DEF Collecting, Whole, LookedAt, Succeeded
<1> QED BY <1>4, <1>7 DEF ReadIInv

\* A read that ends without a result.
LEMMA AbandonOK ==
  ASSUME ReadIInv, NEW outcome \in {"malformed", "failed"}, Abandon(outcome),
         UNCHANGED <<listing, flawed, steady, removed>>
  PROVE  ReadIInv'
<1>1. /\ read' \in Reads /\ read'.page < read'.limit
      /\ read'.pc = "done" /\ read'.outcome # "ok"
  BY DEF Abandon, ReadIInv, ReadTypeOK, Reads
<1>2. ReadTypeOK'
  BY <1>1 DEF ReadIInv, ReadTypeOK
<1> QED BY <1>1, <1>2 DEF ReadIInv, Collecting, Whole, LookedAt, Succeeded

\* A page that is not the last.
LEMMA TurnOK ==
  ASSUME ReadIInv, read.pc = "reading", NEW signal \in Signals,
         Limited(Verdict(signal)) = "go", Turn(read.got \cup Batch),
         UNCHANGED <<listing, flawed, steady, removed>>
  PROVE  ReadIInv'
<1>1. ReadTypeOK
  BY DEF ReadIInv
<1>2. Verdict(signal) = "go" /\ ~(read.page + 1 >= read.limit)
  BY DEF Limited
<1>3. /\ read' \in Reads /\ read'.page < read'.limit /\ read'.pc = "reading"
      /\ read'.endpoint = read.endpoint /\ read'.page = read.page + 1
      /\ read'.got = read.got \cup Batch
  <2>1. read \in Reads /\ read.page \in Nat /\ read.limit \in Nat
    BY <1>1, ProviderReadsAssumption DEF ReadTypeOK, Reads
  <2>2. read.page + 1 \in Nat /\ read.page + 1 < read.limit
    BY <1>2, <2>1
  <2>3. read.got \cup Batch \in SUBSET Items
    BY <1>1, ListingFinite DEF ReadTypeOK, Reads
  <2> QED BY <2>1, <2>2, <2>3 DEF Turn, Reads
<1>4. ReadTypeOK'
  BY <1>1, <1>3 DEF ReadTypeOK
<1>5. Style[read.endpoint] # "single"
  BY <1>2 DEF Verdict
<1>6. ASSUME removed => Style[read.endpoint] \in Keyset, NEW i \in steady
      PROVE  i \in read'.got \/ i \in Ahead'
  <2>1. i \in read.got \/ i \in Ahead
    BY <1>6 DEF ReadIInv, Collecting
  <2>2. i \in Ahead /\ i \notin Batch => i \in Ahead'
    BY <1>1, <1>3, <1>5, StillAhead
  <2> QED BY <1>3, <2>1, <2>2
<1>7. Collecting'
  BY <1>3, <1>6 DEF Collecting
<1> QED BY <1>3, <1>4, <1>7 DEF ReadIInv, Whole, LookedAt, Succeeded

\* All pages are in, or as many as were allowed.
LEMMA ConcludeOK ==
  ASSUME ReadIInv, read.pc = "reading", NEW signal \in Signals, MaySay(signal),
         Limited(Verdict(signal)) \notin {"refuse", "go"},
         Conclude(read.got \cup Batch, Limited(Verdict(signal)) = "cut"),
         UNCHANGED <<listing, flawed, steady, removed>>
  PROVE  ReadIInv'
<1> DEFINE items == read.got \cup Batch
           cut == Limited(Verdict(signal)) = "cut"
<1>1. ReadTypeOK
  BY DEF ReadIInv
<1>2. items \subseteq Items /\ IsFiniteSet(items) /\ cut \in BOOLEAN
  <2>1. read.got \subseteq Items /\ Batch \subseteq Items
    BY <1>1, ListingFinite DEF ReadTypeOK, Reads
  <2> QED BY <1>1, <2>1, FS_Subset, ProviderReadsAssumption
<1>3. Verdict(signal) \in {"go", "stop", "refuse"}
  BY DEF Verdict, LinkVerdict, CursorVerdict, SlackVerdict, CountVerdict, MoreVerdict,
         ShortVerdict
<1>4. (cut => read.allow) /\ (~cut => Verdict(signal) = "stop")
  BY <1>1, <1>3 DEF Limited, ReadTypeOK, Reads
<1>5. ASSUME ~cut, ~read.allow \/ read.endpoint = "deployments",
             Style[read.endpoint] # "newest", removed => Style[read.endpoint] \in Keyset
      PROVE  steady \subseteq items
  <2>1. Batch = Ahead
    BY <1>1, <1>4, <1>5, StopsAtEnd
  <2> QED BY <1>5, <2>1 DEF ReadIInv, Collecting
<1>6. CASE Shows(items, Refuses[read.endpoint])
  <2>1. Abandon("malformed")
    BY <1>6 DEF Conclude
  <2> QED BY <2>1, AbandonOK
<1>7. CASE ~Shows(items, Refuses[read.endpoint]) /\ read.endpoint = "deployments"
  <2> DEFINE kept == {i \in items : Kept(i)}
  <2>1. read' = [read EXCEPT !.pc = "statuses", !.got = kept, !.truncated = cut,
                             !.statuses = Cardinality(First(kept, StatusLimit))]
    BY <1>7 DEF Conclude
  <2>2. kept \subseteq items /\ kept \subseteq Items
    BY <1>2
  <2>3. Cardinality(First(kept, StatusLimit)) \in Nat
    BY <1>2, <2>2, FS_Subset, FS_CardinalityType DEF First
  <2> HIDE DEF items, cut, kept
  <2>4. /\ read' \in Reads /\ read'.page < read'.limit /\ read'.pc = "statuses"
        /\ read'.endpoint = read.endpoint /\ read'.allow = read.allow
        /\ read'.since = read.since /\ read'.got = kept /\ read'.truncated = cut
    BY <1>1, <1>2, <2>1, <2>2, <2>3 DEF ReadTypeOK, Reads
  <2>5. ReadTypeOK'
    BY <1>1, <2>4 DEF ReadTypeOK
  <2>6. LookedAt'
    BY <1>7, <2>2, <2>4 DEF LookedAt, Shows
  <2>7. \A i : Kept(i)' = Kept(i)
    BY <2>4 DEF Kept
  <2>8. ASSUME TakenForWhole', Style[read.endpoint] # "newest",
               removed => Style[read.endpoint] \in Keyset,
               NEW i \in steady, Kept(i)
        PROVE  i \in kept
    <3>1. ~cut
      BY <1>4, <2>4, <2>8 DEF TakenForWhole
    <3>2. i \in items
      BY <1>5, <1>7, <2>8, <3>1
    <3> QED BY <2>8, <3>2 DEF kept
  <2>9. Whole'
    BY <2>4, <2>7, <2>8 DEF Whole
  <2> QED BY <2>4, <2>5, <2>6, <2>9 DEF ReadIInv, Collecting
<1>8. CASE ~Shows(items, Refuses[read.endpoint]) /\ read.endpoint # "deployments"
  <2>1. read' = [read EXCEPT !.pc = "done", !.got = items, !.outcome = "ok"]
    BY <1>8 DEF Conclude
  <2> HIDE DEF items, cut
  <2>2. /\ read' \in Reads /\ read'.page < read'.limit /\ read'.pc = "done"
        /\ read'.endpoint = read.endpoint /\ read'.allow = read.allow
        /\ read'.got = items
    BY <1>1, <1>2, <2>1 DEF ReadTypeOK, Reads
  <2>3. ReadTypeOK'
    BY <1>1, <2>2 DEF ReadTypeOK
  <2>4. LookedAt'
    BY <1>8, <2>2 DEF LookedAt, Shows
  <2>5. ASSUME TakenForWhole', Style[read.endpoint] # "newest",
               removed => Style[read.endpoint] \in Keyset
        PROVE  steady \subseteq items
    <3>1. ~read.allow
      BY <1>8, <2>2, <2>5 DEF TakenForWhole
    <3> QED BY <1>4, <1>5, <2>5, <3>1
  <2>6. Whole'
    BY <2>2, <2>5 DEF Whole
  <2> QED BY <2>2, <2>3, <2>4, <2>6 DEF ReadIInv, Collecting
<1> QED BY <1>6, <1>7, <1>8

LEMMA FetchOK ==
  ASSUME ReadIInv, Fetch
  PROVE  ReadIInv'
<1> DEFINE v(signal) == Limited(Verdict(signal))
<1>1. PICK signal \in Signals :
        /\ MaySay(signal)
        /\ IF Shows(Batch, RefusesOnPage(read.endpoint)) \/ v(signal) = "refuse"
             THEN Abandon("malformed")
           ELSE IF v(signal) = "go" THEN Turn(read.got \cup Batch)
           ELSE Conclude(read.got \cup Batch, v(signal) = "cut")
  BY DEF Fetch
<1>2. read.pc = "reading" /\ UNCHANGED <<listing, flawed, steady, removed>>
  BY DEF Fetch
<1>3. CASE Abandon("malformed")
  BY <1>2, <1>3, AbandonOK
<1>4. CASE v(signal) = "go" /\ Turn(read.got \cup Batch)
  BY <1>2, <1>4, TurnOK
<1>5. CASE /\ v(signal) \notin {"refuse", "go"}
           /\ Conclude(read.got \cup Batch, v(signal) = "cut")
  BY <1>1, <1>2, <1>5, ConcludeOK
<1> HIDE DEF v
<1> QED BY <1>1, <1>3, <1>4, <1>5

LEMMA FetchStatusesOK ==
  ASSUME ReadIInv, FetchStatuses
  PROVE  ReadIInv'
<1>1. /\ ReadTypeOK /\ read.pc = "statuses"
      /\ UNCHANGED <<listing, flawed, steady, removed>>
  BY DEF ReadIInv, FetchStatuses
<1>2. CASE Abandon("malformed")
  BY <1>1, <1>2, AbandonOK
<1>3. ASSUME \/ read.statuses > 0 /\ read' = [read EXCEPT !.statuses = @ - 1]
             \/ read' = [read EXCEPT !.pc = "done", !.outcome = "ok"]
      PROVE  ReadIInv'
  <2>1. /\ read' \in Reads /\ read'.page < read'.limit
        /\ read'.pc \in {"statuses", "done"} /\ read'.endpoint = read.endpoint
        /\ read'.allow = read.allow /\ read'.since = read.since
        /\ read'.got = read.got /\ read'.truncated = read.truncated
    <3>1. read \in Reads /\ read.page < read.limit /\ read.statuses \in Nat
      BY <1>1 DEF ReadTypeOK, Reads
    <3>2. CASE read.statuses > 0 /\ read' = [read EXCEPT !.statuses = @ - 1]
      <4>1. read.statuses - 1 \in Nat
        BY <3>1, <3>2
      <4> QED BY <1>1, <3>1, <3>2, <4>1 DEF Reads
    <3>3. CASE read' = [read EXCEPT !.pc = "done", !.outcome = "ok"]
      BY <1>1, <3>1, <3>3 DEF Reads
    <3> QED BY <1>3, <3>2, <3>3
  <2>2. ReadTypeOK'
    BY <1>1, <2>1 DEF ReadTypeOK
  <2>3. (TakenForWhole' <=> TakenForWhole) /\ \A i : Kept(i)' = Kept(i)
    BY <1>1, <2>1 DEF TakenForWhole, Kept
  <2>4. Whole'
    BY <1>1, <2>1, <2>3 DEF ReadIInv, Whole
  <2>5. LookedAt'
    BY <1>1, <2>1 DEF ReadIInv, LookedAt, Shows
  <2> QED BY <2>1, <2>2, <2>4, <2>5 DEF ReadIInv, Collecting
<1> QED BY <1>2, <1>3 DEF FetchStatuses

LEMMA ReturnOK ==
  ASSUME Return
  PROVE  ReadIInv'
<1>1. NoRead \in Reads /\ NoRead.page < NoRead.limit /\ NoRead.pc = "idle"
  BY StylesAre, ProviderReadsAssumption DEF NoRead, Reads
<1>2. ReadTypeOK'
  BY <1>1 DEF Return, ReadTypeOK, NoFlaw, Flaws
<1>3. Collecting' /\ Whole' /\ LookedAt'
  BY <1>1 DEF Return, Collecting, Whole, LookedAt, Succeeded
<1> QED BY <1>2, <1>3 DEF ReadIInv

LEMMA AppearsOK ==
  ASSUME ReadIInv, Appears
  PROVE  ReadIInv'
<1>1. ReadTypeOK /\ read.pc = "reading" /\ UNCHANGED <<flawed, read, steady, removed>>
  BY DEF ReadIInv, Appears
<1>2. listing \subseteq listing' /\ listing' \subseteq Items
  BY <1>1 DEF Appears, ReadTypeOK
<1>3. ReadTypeOK'
  BY <1>1, <1>2 DEF ReadTypeOK
<1>4. IsFiniteSet(listing') /\ PageSize \in Nat /\ read.page \in Nat
  BY <1>1, <1>2, FS_Subset, ProviderReadsAssumption DEF ReadTypeOK, Reads
<1>5. ASSUME NEW i \in Ahead PROVE i \in Ahead'
  <2>1. Rank(i, listing) <= Rank(i, listing') /\ Rank(i, listing) \in Nat
        /\ Rank(i, listing') \in Nat
    BY <1>1, <1>2, <1>4, RankGrows, NewerFinite, ListingFinite
  <2>2. read.page * PageSize \in Nat
    BY <1>4
  <2> QED BY <1>1, <1>2, <2>1, <2>2 DEF Ahead
<1>6. Collecting'
  BY <1>1, <1>5 DEF ReadIInv, Collecting
<1> QED BY <1>1, <1>3, <1>6 DEF ReadIInv, Whole, LookedAt, Succeeded

LEMMA DisappearsOK ==
  ASSUME ReadIInv, Disappears
  PROVE  ReadIInv'
<1>1. ReadTypeOK /\ read.pc = "reading" /\ removed' = TRUE /\ UNCHANGED <<flawed, read>>
  BY DEF ReadIInv, Disappears
<1>2. PICK i \in listing : listing' = listing \ {i} /\ steady' = steady \ {i}
  BY DEF Disappears
<1>3. ReadTypeOK'
  BY <1>1, <1>2 DEF ReadTypeOK
<1>4. ASSUME Style[read.endpoint] \in Keyset
      PROVE  Ahead' = Ahead \ {i}
  BY <1>1, <1>2, <1>4 DEF Ahead
<1>5. Collecting'
  BY <1>1, <1>2, <1>4 DEF ReadIInv, Collecting
<1> QED BY <1>1, <1>3, <1>5 DEF ReadIInv, Whole, LookedAt, Succeeded

LEMMA ReadNextOK ==
  ASSUME ReadIInv, [ReadNext]_readVars
  PROVE  ReadIInv'
<1>1. CASE BeginRead
  BY <1>1, BeginReadOK
<1>2. CASE Fetch
  BY <1>2, FetchOK
<1>3. CASE FetchStatuses
  BY <1>3, FetchStatusesOK
<1>4. CASE RequestFails
  BY <1>4, AbandonOK DEF RequestFails
<1>5. CASE Return
  BY <1>5, ReturnOK
<1>6. CASE Appears
  BY <1>6, AppearsOK
<1>7. CASE Disappears
  BY <1>7, DisappearsOK
<1>8. CASE UNCHANGED readVars
  <2>1. Ahead' = Ahead
    BY <1>8 DEF readVars, Ahead
  <2> QED BY <1>8, <2>1
      DEF readVars, ReadIInv, ReadTypeOK, Collecting, Whole, LookedAt, Succeeded, TakenForWhole,
          Kept, Shows
<1> QED BY <1>1, <1>2, <1>3, <1>4, <1>5, <1>6, <1>7, <1>8 DEF ReadNext, ReadStep

\* The invariant above is one.
THEOREM ReadInvariance == ReadSpec => []ReadIInv
<1>1. ReadInit => ReadIInv
  BY ReadInitOK
<1>2. ReadIInv /\ [ReadNext]_readVars => ReadIInv'
  BY ReadNextOK
<1> QED BY <1>1, <1>2, PTL DEF ReadSpec

\* Every read has the endpoints, pages and items that it may have; in
\* particular it never asks for a page past its limit.
THEOREM ReadTypeCorrectness == ReadSpec => []ReadTypeOK
<1>1. ReadIInv => ReadTypeOK
  BY DEF ReadIInv
<1> QED BY <1>1, ReadInvariance, PTL

\* A result that its caller takes for the whole listing has every item that
\* was there throughout, for any size of page, any page limit, and any changes
\* of the listing in between; or there is no result.
THEOREM ReadsAreComplete == ReadSpec => []CompleteOrRefused
<1>1. ReadIInv => CompleteOrRefused
  BY DEF ReadIInv, Whole, CompleteOrRefused
<1> QED BY <1>1, ReadInvariance, PTL

\* Whatever a read of the repository returns belongs to that repository, and
\* what is cited has something to be cited by, on whichever page it came and
\* however the listing changed.
THEOREM EvidenceCanBeCited == ReadSpec => []EvidenceIsNamed
<1>1. ReadIInv => EvidenceIsNamed
  BY RefusedAre DEF ReadIInv, LookedAt, EvidenceIsNamed, Shows
<1> QED BY <1>1, ReadInvariance, PTL
=============================================================================
