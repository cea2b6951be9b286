------------------------------ MODULE LiveApi ------------------------------
(***************************************************************************)
(* A call of a live tool on one provider: the attempts of RealTool, the    *)
(* requests of its handler, the circuit breaker that the runs of a process *)
(* share, and the rate counter in Redis that every process shares.         *)
(*                                                                         *)
(* A caller is the thread of a run.  The breaker's lock is held while it   *)
(* is read and while it is changed, and not during the request, so answers *)
(* reach the breaker late and in any order.  Every command to Redis is a   *)
(* step of its own, and one that fails may have been carried out.          *)
(*                                                                         *)
(* A definition whose comment starts with "Faulty" is no part of the       *)
(* model: it is the definition after it with a bug put in, kept to try     *)
(* that the properties notice.                                             *)
(***************************************************************************)
EXTENDS Naturals

CONSTANTS
  Callers,      \* runs of one process that use the provider
  Requests,     \* requests that the tool's handler makes, in order
  MaxAttempts,  \* attempts of a tool call (3 in the code)
  Threshold,    \* failures that open the breaker (3 in the code)
  Limit         \* requests per window (240 in the code)

ASSUME LiveApiAssumption ==
  /\ Requests \in Nat \ {0}
  /\ MaxAttempts \in Nat \ {0}
  /\ Threshold \in Nat \ {0}
  /\ Limit \in Nat \ {0}

VARIABLES
  breaker,   \* the shared breaker; cooled: its recovery time has passed
  counter,   \* the key in Redis (absent at 0 hits); ttl: it has a lifetime
  calm,      \* the provider and Redis answer every request
  call,      \* the tool call of each caller
  applied,   \* history: requests of the call that the provider carried out
  outages,   \* history: outages met by this process, up to Threshold
  sent       \* history: requests sent since the breaker opened, up to 2

vars == <<breaker, counter, calm, call, applied, outages, sent>>

-----------------------------------------------------------------------------
(* How a request may end, and what RealTool and the breaker make of it.    *)

\* An outage is a timeout, a transport error or a 5xx; "broken" is an error
\* that no client classifies (kubectl is not installed); an unconfirmed
\* answer is read and then rejected by the handler, outside the breaker.
Answers  == {"ok", "outage", "broken", "throttled", "refused", "malformed", "unconfirmed"}
Outcomes == Answers \cup {"over_limit", "limiter_down", "open", "none"}

Retryable == {"outage", "throttled", "over_limit", "limiter_down"}
Succeeds  == {"ok", "unconfirmed"}   \* for the breaker

\* Faulty: every error of a call counts.
CountEveryError == Outcomes \ (Succeeds \cup {"none"})

\* Outages and unclassified errors count against the circuit; what the
\* caller, its credentials or a limiter caused does not.
Counted == {"outage", "broken"}

\* What the provider may answer, and whether it has done what was asked.
Carries(answer, done) ==
  CASE answer \in {"ok", "unconfirmed", "malformed"} -> done
    [] answer = "outage" -> TRUE
    [] OTHER -> ~done

-----------------------------------------------------------------------------
(* The circuit breaker.                                                    *)

Closed == [state |-> "closed", failures |-> 0, cooled |-> FALSE]

IsOpen == breaker.state = "open" /\ ~breaker.cooled

\* Reading the state lets an open breaker whose recovery time has passed
\* become half open; its failures stay as they are.
Read == IF breaker.state = "open" /\ breaker.cooled
          THEN [breaker EXCEPT !.state = "half_open", !.cooled = FALSE]
          ELSE breaker

\* Faulty: a success forgives the failures and leaves the state.
RecordSuccessOnly == [breaker EXCEPT !.failures = 0]

RecordSuccess == Closed

AtMost(bound, n) == IF n < bound THEN n ELSE bound

\* A failure at the threshold opens the breaker, again if need be, and the
\* recovery time starts over.  Failures above the threshold are not told apart.
RecordFailure ==
  IF breaker.failures + 1 >= Threshold
    THEN [state |-> "open", failures |-> Threshold, cooled |-> FALSE]
    ELSE [breaker EXCEPT !.failures = @ + 1]

\* The recovery time passes.
Cool ==
  /\ IsOpen
  /\ breaker' = [breaker EXCEPT !.cooled = TRUE]
  /\ sent' = [c \in Callers |-> 0]
  /\ UNCHANGED <<counter, calm, call, applied, outages>>

-----------------------------------------------------------------------------
(* The tool call: attempts, and the requests of each attempt.              *)

Idle == [pc |-> "idle", attempt |-> 1, request |-> 1, hit |-> 0, outcome |-> "none"]

At(c, pc) == call[c].pc = pc
Goto(c, pc) == call' = [call EXCEPT ![c].pc = pc]

\* The request has ended; what it means is decided by Settle.
Ends(c, outcome) ==
  call' = [call EXCEPT ![c].pc = "settle", ![c].hit = 0, ![c].outcome = outcome]

Begin(c) ==
  /\ At(c, "idle")
  /\ call' = [call EXCEPT ![c] = [Idle EXCEPT !.pc = "admit"]]
  /\ applied' = [applied EXCEPT ![c] = {}]
  /\ UNCHANGED <<breaker, counter, calm, outages, sent>>

\* Faulty: only the first request of the first attempt asks the breaker.
AdmitOnce(c) ==
  /\ At(c, "admit")
  /\ breaker' = Read
  /\ IF IsOpen /\ call[c].attempt = 1 /\ call[c].request = 1
       THEN call' = [call EXCEPT ![c] = [Idle EXCEPT !.outcome = "open"]]
       ELSE Goto(c, "incr")
  /\ UNCHANGED <<counter, calm, applied, outages, sent>>

\* An open breaker refuses the request, and RealTool does not try again.
Admit(c) ==
  /\ At(c, "admit")
  /\ breaker' = Read
  /\ IF IsOpen
       THEN call' = [call EXCEPT ![c] = [Idle EXCEPT !.outcome = "open"]]
       ELSE Goto(c, "incr")
  /\ UNCHANGED <<counter, calm, applied, outages, sent>>

-----------------------------------------------------------------------------
(* The rate counter.                                                       *)

\* INCR creates the key without a lifetime.  Hits above the limit are not
\* told apart.
Hit == [counter EXCEPT !.hits = AtMost(Limit + 1, @ + 1)]

\* A command to Redis fails, with (Lost) or without having been carried out.
RedisFails(c, done) ==
  /\ ~calm
  /\ Ends(c, "limiter_down")
  /\ counter' \in {counter, done}

\* The hit is weighed after the lifetime has been seen to.
Weigh(c) ==
  IF call[c].hit <= Limit
    THEN call' = [call EXCEPT ![c].pc = "send", ![c].hit = 0]
    ELSE Ends(c, "over_limit")

Incr(c) ==
  /\ At(c, "incr")
  /\ \/ /\ counter' = Hit
        /\ call' = [call EXCEPT ![c].hit = Hit.hits,
                                ![c].pc = IF Hit.hits = 1 THEN "expire" ELSE "ttl"]
     \/ RedisFails(c, Hit)
  /\ UNCHANGED <<breaker, calm, applied, outages, sent>>

\* A key that was left without a lifetime gets one from the next hit.
Ttl(c) ==
  /\ At(c, "ttl")
  /\ \/ /\ IF counter.hits > 0 /\ ~counter.ttl
             THEN Goto(c, "expire")
             ELSE Weigh(c)
        /\ UNCHANGED counter
     \/ RedisFails(c, counter)
  /\ UNCHANGED <<breaker, calm, applied, outages, sent>>

\* EXPIRE of a key that is gone does nothing.
Living == [counter EXCEPT !.ttl = counter.hits > 0]

Expire(c) ==
  /\ At(c, "expire")
  /\ \/ counter' = Living /\ Weigh(c)
     \/ RedisFails(c, Living)
  /\ UNCHANGED <<breaker, calm, applied, outages, sent>>

WindowEnds ==
  /\ counter.ttl
  /\ counter' = [hits |-> 0, ttl |-> FALSE]
  /\ UNCHANGED <<breaker, calm, call, applied, outages, sent>>

-----------------------------------------------------------------------------
(* The request, and what follows from its answer.                          *)

Send(c) ==
  /\ At(c, "send")
  /\ \E answer \in Answers, done \in BOOLEAN :
       /\ calm => answer = "ok"
       /\ answer = "unconfirmed" => call[c].request = Requests
       /\ Carries(answer, done)
       /\ Ends(c, answer)
       /\ applied' = IF done
                       THEN [applied EXCEPT ![c] = @ \cup {call[c].request}]
                       ELSE applied
       /\ outages' = IF answer \in {"outage", "broken"}
                       THEN AtMost(Threshold, outages + 1)
                       ELSE outages
  /\ sent' = IF IsOpen THEN [sent EXCEPT ![c] = AtMost(2, @ + 1)] ELSE sent
  /\ UNCHANGED <<breaker, counter, calm>>

Judged(outcome) ==
  IF outcome \in Succeeds THEN RecordSuccess
  ELSE IF outcome \in Counted THEN RecordFailure
  ELSE breaker

\* Faulty: one attempt too many.
MayRetryOnceMore(k) == k.outcome \in Retryable /\ k.attempt <= MaxAttempts

MayRetry(k) == k.outcome \in Retryable /\ k.attempt < MaxAttempts

\* Faulty: a new attempt goes on after the request that failed.
NextAttemptResuming(k) ==
  [Idle EXCEPT !.pc = "admit", !.attempt = k.attempt + 1,
               !.request = AtMost(Requests, k.request + 1)]

\* A new attempt runs the whole handler again.
NextAttempt(k) == [Idle EXCEPT !.pc = "admit", !.attempt = k.attempt + 1]

After(k) ==
  IF k.outcome = "ok" /\ k.request < Requests
    THEN [Idle EXCEPT !.pc = "admit", !.attempt = k.attempt, !.request = k.request + 1]
  ELSE IF MayRetry(k) THEN NextAttempt(k)
  ELSE [Idle EXCEPT !.outcome = k.outcome]

Settle(c) ==
  /\ At(c, "settle")
  /\ breaker' = Judged(call[c].outcome)
  /\ call' = [call EXCEPT ![c] = After(call[c])]
  /\ sent' = IF call[c].outcome \in Succeeds \cup Counted
               THEN [d \in Callers |-> 0]
               ELSE sent
  /\ UNCHANGED <<counter, calm, applied, outages>>

-----------------------------------------------------------------------------
(* The environment.                                                        *)

\* The provider or Redis starts, or stops, answering badly.
Weather == calm' = ~calm /\ UNCHANGED <<breaker, counter, call, applied, outages, sent>>

\* The process dies in bad weather, between any two steps, and starts again.
\* The counter is not in the process.
Restart ==
  /\ ~calm
  /\ breaker' = Closed
  /\ call' = [c \in Callers |-> Idle]
  /\ applied' = [c \in Callers |-> {}]
  /\ outages' = 0
  /\ sent' = [c \in Callers |-> 0]
  /\ UNCHANGED <<counter, calm>>

-----------------------------------------------------------------------------
Init ==
  /\ breaker = Closed
  /\ counter = [hits |-> 0, ttl |-> FALSE]
  /\ calm = TRUE
  /\ call = [c \in Callers |-> Idle]
  /\ applied = [c \in Callers |-> {}]
  /\ outages = 0
  /\ sent = [c \in Callers |-> 0]

CallStep(c) ==
  Admit(c) \/ Incr(c) \/ Ttl(c) \/ Expire(c) \/ Send(c) \/ Settle(c)

Next ==
  \/ \E c \in Callers : Begin(c) \/ CallStep(c)
  \/ Cool \/ WindowEnds \/ Weather \/ Restart

Spec == Init /\ [][Next]_vars

\* A thread goes on, and time passes: nothing obliges anyone to begin a call,
\* the weather to change or the process to die.
FairSpec ==
  /\ Spec
  /\ \A c \in Callers : WF_vars(CallStep(c))
  /\ WF_vars(Cool)
  /\ WF_vars(WindowEnds)

-----------------------------------------------------------------------------
(* What must hold.                                                         *)

TypeOK ==
  /\ breaker \in [state : {"closed", "open", "half_open"}, failures : 0..Threshold,
                  cooled : BOOLEAN]
  /\ counter \in [hits : 0..(Limit + 1), ttl : BOOLEAN]
  /\ calm \in BOOLEAN
  /\ call \in [Callers -> [pc : {"idle", "admit", "incr", "ttl", "expire", "send", "settle"},
                           attempt : 1..MaxAttempts, request : 1..Requests,
                           hit : 0..(Limit + 1), outcome : Outcomes]]
  /\ applied \in [Callers -> SUBSET (1..Requests)]
  /\ outages \in 0..Threshold
  /\ sent \in [Callers -> 0..2]

\* A tool call that succeeds had every request of its handler carried out,
\* whatever attempts, refusals and timeouts lie between them.
SuccessIsComplete ==
  \A c \in Callers :
    At(c, "idle") /\ call[c].outcome = "ok" => applied[c] = 1..Requests

\* The breaker leaves the closed state only after as many outages as its
\* threshold: what the caller, its credentials, a quota or the limiter is to
\* blame for is not taken for an outage of the provider (ISSUES.md:382).
OnlyOutagesOpen == breaker.state # "closed" => outages = Threshold

\* While the breaker is open and its recovery time runs, a caller sends at
\* most the request it had under way when the breaker opened: neither its
\* next request nor its next attempt reaches the provider.
OpenSheds == IsOpen => \A c \in Callers : sent[c] <= 1

Calling == \E c \in Callers : At(c, "admit")

\* When the provider and Redis are well again for good and calls go on being
\* made, the breaker closes for good, stuck neither open nor half open, and the
\* counter always starts over, also when a death or a timeout after INCR left
\* it without a lifetime.
Recovers ==
  (<>[]calm /\ []<>Calling)
    => (<>[](breaker.state = "closed") /\ []<>(counter.hits = 0))
=============================================================================
