---------------------------- MODULE WebhookIngest ----------------------------
(***************************************************************************)
(* The live receiver: deliveries of alert webhooks, the idempotency key    *)
(* that makes one Investigation of them, the received record, and the      *)
(* background task that runs the investigation and records how it ended.   *)
(*                                                                         *)
(* A server is one process.  Its webhook handlers are coroutines that do   *)
(* not await between reading the body and returning, so a server works on  *)
(* one delivery at a time; background tasks and the operator's run are     *)
(* pool threads beside it, and other servers share the store.  What a      *)
(* server has in memory is lost when it dies.                              *)
(*                                                                         *)
(* A definition whose comment starts with "Faulty" is no part of the       *)
(* model: it is the definition after it with a bug put in, kept to try     *)
(* that the properties notice.                                             *)
(***************************************************************************)
EXTENDS FiniteSets, Naturals

CONSTANTS
  Servers,      \* processes of the receiver that share one store
  Messages,     \* webhook deliveries: [source, items]
  Incidents,    \* external incident ids
  NoIncident,   \* an event without an incident id
  Ids,          \* investigation ids that uuid4 may still produce
  NoId,         \* no investigation
  MaxRuns,      \* bound on runs that the operator starts
  MaxCrashes,   \* bound on servers that die
  MaxOutages    \* bound on failures that could not be recorded

Sources  == {"pagerduty", "generic_webhook"}
Triggers == [source : Sources, incident : Incidents]

\* An item of a PagerDuty payload, by the event type it carries.
Items == [event : {"incident.triggered", "other", "untyped"},
          incident : Incidents \cup {NoIncident}]

-----------------------------------------------------------------------------
(* Which deliveries ask for an investigation.                              *)

\* PagerDuty items count when they are trigger events, or carry an incident
\* without an event type; the generic webhook has one untyped item.
Actionable(message) ==
  {i \in message.items :
     \/ i.event = "incident.triggered"
     \/ i.event = "untyped" /\ i.incident # NoIncident}

IncidentIds(message) == {i.incident : i \in Actionable(message)} \ {NoIncident}

\* Test events, other events, a missing id and several incidents in one
\* delivery are answered without any effect.
Accepted(message) == Cardinality(IncidentIds(message)) = 1

TriggerOf(message) ==
  [source |-> message.source,
   incident |-> CHOOSE i \in IncidentIds(message) : TRUE]

Wanted == {TriggerOf(m) : m \in {m \in Messages : Accepted(m)}}

ASSUME IngestAssumption ==
  /\ Messages \subseteq [source : Sources, items : SUBSET Items]
  /\ NoId \notin Ids
  /\ NoIncident \notin Incidents
  /\ MaxRuns \in Nat /\ MaxCrashes \in Nat /\ MaxOutages \in Nat
  /\ Cardinality(Ids) >= Cardinality(Wanted) + MaxRuns

-----------------------------------------------------------------------------

VARIABLES
  keys,      \* webhook idempotency key -> investigation it was spent for
  records,   \* status of each stored investigation
  loop,      \* what the event loop of each server is doing
  run,       \* the thread that runs each investigation
  crashes, outages,
  answers,   \* history: what callers were told
  used       \* history: ids handed out

store == <<keys, records>>
vars  == <<keys, records, loop, run, crashes, outages, answers, used>>

\* A received investigation is stored as running, in the state received.  One
\* that ended by itself waits for approval, lacks confidence or has failed to
\* post its request; failed is what the receiver writes when the run raises.
Settled  == {"ended", "failed"}
Statuses == {"absent", "received", "running"} \cup Settled

Stages == {"none", "queued", "running", "closing", "raised", "over"}

Idle == [at |-> "idle", trigger |-> NoId, id |-> NoId]

NoRun == [stage |-> "none", server |-> NoId, incident |-> NoIncident, operator |-> FALSE]

TypeOK ==
  /\ keys \in [Triggers -> Ids \cup {NoId}]
  /\ records \in [Ids -> Statuses]
  /\ loop \in [Servers ->
       [at : {"idle", "lookup", "preflight", "remember", "save", "accept"},
        trigger : Triggers \cup {NoId}, id : Ids \cup {NoId}]]
  /\ run \in [Ids -> [stage : Stages, server : Servers \cup {NoId},
                      incident : Incidents \cup {NoIncident}, operator : BOOLEAN]]
  /\ crashes \in 0..MaxCrashes
  /\ outages \in 0..MaxOutages
  /\ answers \subseteq [trigger : Triggers, id : Ids, new : BOOLEAN]
  /\ used \subseteq Ids

Init ==
  /\ keys = [t \in Triggers |-> NoId]
  /\ records = [i \in Ids |-> "absent"]
  /\ loop = [s \in Servers |-> Idle]
  /\ run = [i \in Ids |-> NoRun]
  /\ crashes = 0
  /\ outages = 0
  /\ answers = {}
  /\ used = {}

-----------------------------------------------------------------------------
(* The handlers of POST /webhooks/pagerduty and POST /webhooks/generic.    *)

At(s, label) == loop[s].at = label

Goto(s, label) == loop' = [loop EXCEPT ![s].at = label]

Drop(s) == loop' = [loop EXCEPT ![s] = Idle]

Answer(s, id, new) ==
  /\ answers' = answers \cup {[trigger |-> loop[s].trigger, id |-> id, new |-> new]}
  /\ Drop(s)

\* A delivery that is turned away before the key is looked up (not ready, bad
\* signature, wrong subscription, not actionable) changes nothing.
Deliver(s) ==
  /\ At(s, "idle")
  /\ \E m \in Messages :
       /\ Accepted(m)
       /\ loop' = [loop EXCEPT ![s] =
                     [at |-> "lookup", trigger |-> TriggerOf(m), id |-> NoId]]
  /\ UNCHANGED <<store, run, crashes, outages, answers, used>>

\* A known key is answered with its investigation; a new PagerDuty incident
\* goes through the provider preflight first.
LookupTrigger(s) ==
  /\ At(s, "lookup")
  /\ LET t == loop[s].trigger
     IN  IF keys[t] # NoId
         THEN Answer(s, keys[t], FALSE)
         ELSE /\ Goto(s, IF t.source = "pagerduty" THEN "preflight" ELSE "remember")
              /\ UNCHANGED answers
  /\ UNCHANGED <<store, run, crashes, outages, used>>

\* The providers are not ready (503), no usable service (400), or go on.
Preflight(s) ==
  /\ At(s, "preflight")
  /\ Drop(s) \/ Goto(s, "remember")
  /\ UNCHANGED <<store, run, crashes, outages, answers, used>>

\* Faulty: the key is inserted even if another server has done so since the
\* lookup.
RememberTriggerBlindly(s) ==
  /\ At(s, "remember")
  /\ \E id \in Ids \ used :
       /\ keys' = [keys EXCEPT ![loop[s].trigger] = id]
       /\ used' = used \cup {id}
       /\ loop' = [loop EXCEPT ![s].at = "save", ![s].id = id]
  /\ UNCHANGED <<records, run, crashes, outages, answers>>

\* _create_received_investigation: the key is spent before anything is saved.
RememberTrigger(s) ==
  /\ At(s, "remember")
  /\ keys[loop[s].trigger] = NoId
  /\ \E id \in Ids \ used :
       /\ keys' = [keys EXCEPT ![loop[s].trigger] = id]
       /\ used' = used \cup {id}
       /\ loop' = [loop EXCEPT ![s].at = "save", ![s].id = id]
  /\ UNCHANGED <<records, run, crashes, outages, answers>>

\* Faulty: the id that was not inserted is returned.
AnswerRaceWithOwnId(s) ==
  /\ At(s, "remember")
  /\ keys[loop[s].trigger] # NoId
  /\ Answer(s, loop[s].id, FALSE)
  /\ UNCHANGED <<store, run, crashes, outages, used>>

\* Another server was first.  Its id is returned whether or not its record
\* can be loaded yet.
AnswerRace(s) ==
  /\ At(s, "remember")
  /\ keys[loop[s].trigger] # NoId
  /\ Answer(s, keys[loop[s].trigger], FALSE)
  /\ UNCHANGED <<store, run, crashes, outages, used>>

SaveReceived(s) ==
  /\ At(s, "save")
  /\ records' = [records EXCEPT ![loop[s].id] = "received"]
  /\ Goto(s, "accept")
  /\ UNCHANGED <<keys, run, crashes, outages, answers, used>>

\* The background task is added to the response.
Accept(s) ==
  /\ At(s, "accept")
  /\ run' = [run EXCEPT ![loop[s].id] =
               [stage |-> "queued", server |-> s,
                incident |-> loop[s].trigger.incident, operator |-> FALSE]]
  /\ Answer(s, loop[s].id, TRUE)
  /\ UNCHANGED <<store, crashes, outages, used>>

-----------------------------------------------------------------------------
(* The run of an investigation, as the receiver sees it.                   *)

\* POST /live/run/{incident_id}: no key is looked up.
OperatorRun(s) ==
  /\ Cardinality({i \in Ids : run[i].operator}) < MaxRuns
  /\ \E id \in Ids \ used, i \in Incidents :
       /\ used' = used \cup {id}
       /\ run' = [run EXCEPT ![id] =
                    [stage |-> "queued", server |-> s, incident |-> i, operator |-> TRUE]]
  /\ UNCHANGED <<store, loop, crashes, outages, answers>>

Stage(id, stage) == run' = [run EXCEPT ![id].stage = stage]

Finish(id) == run' = [run EXCEPT ![id].stage = "over", ![id].server = NoId]

\* run_live_incident writes the first checkpoint over the received record.  It
\* also remembers the key "<incident>:trigger" and ignores the answer.
StartRun(id) ==
  /\ run[id].stage = "queued"
  /\ records' = [records EXCEPT ![id] = "running"]
  /\ Stage(id, "running")
  /\ UNCHANGED <<keys, loop, crashes, outages, answers, used>>

\* _run_incident returns after its last checkpoint.
EndRun(id) ==
  /\ run[id].stage = "running"
  /\ records' = [records EXCEPT ![id] = "ended"]
  /\ Stage(id, "closing")
  /\ UNCHANGED <<keys, loop, crashes, outages, answers, used>>

CloseClients(id) ==
  /\ run[id].stage = "closing"
  /\ Finish(id)
  /\ UNCHANGED <<store, loop, crashes, outages, answers, used>>

\* Wiring the clients, the investigation or closing the clients raises.  The
\* operator gets an error response and the record stays as it is.
RunRaises(id) ==
  /\ run[id].stage \in {"queued", "running", "closing"}
  /\ IF run[id].operator THEN Finish(id) ELSE Stage(id, "raised")
  /\ UNCHANGED <<store, loop, crashes, outages, answers, used>>

\* Faulty: the background task swallows the exception.
IgnoreFailure(id) ==
  /\ run[id].stage = "raised"
  /\ Finish(id)
  /\ UNCHANGED <<store, loop, crashes, outages, answers, used>>

\* _run_live_investigation_safely loads the record and saves it as failed.
MarkFailed(id) ==
  /\ run[id].stage = "raised"
  /\ records' = [records EXCEPT ![id] = "failed"]
  /\ Finish(id)
  /\ UNCHANGED <<keys, loop, crashes, outages, answers, used>>

\* The store is what failed, so that saving raises as well.
LoseFailure(id) ==
  /\ run[id].stage = "raised"
  /\ outages < MaxOutages
  /\ outages' = outages + 1
  /\ Finish(id)
  /\ UNCHANGED <<store, loop, crashes, answers, used>>

Crash(s) ==
  /\ crashes < MaxCrashes
  /\ crashes' = crashes + 1
  /\ Drop(s)
  /\ run' = [i \in Ids |-> IF run[i].server = s
               THEN [run[i] EXCEPT !.stage = "over", !.server = NoId]
               ELSE run[i]]
  /\ UNCHANGED <<store, outages, answers, used>>

-----------------------------------------------------------------------------

HandlerStep(s) ==
  \/ LookupTrigger(s) \/ Preflight(s) \/ RememberTrigger(s) \/ AnswerRace(s)
  \/ SaveReceived(s) \/ Accept(s)

RunStep(id) ==
  \/ StartRun(id) \/ EndRun(id) \/ CloseClients(id) \/ RunRaises(id)
  \/ MarkFailed(id) \/ LoseFailure(id)

Next ==
  \/ \E s \in Servers : Deliver(s) \/ HandlerStep(s) \/ OperatorRun(s) \/ Crash(s)
  \/ \E id \in Ids : RunStep(id)

Spec == Init /\ [][Next]_vars

\* The event loop and the threads of the pool run what they have started.
Fairness ==
  /\ \A s \in Servers : WF_vars(HandlerStep(s))
  /\ \A id \in Ids : WF_vars(RunStep(id))

\* Senders deliver again until they are answered.
FairSpec == Spec /\ Fairness /\ \A s \in Servers : WF_vars(Deliver(s))

-----------------------------------------------------------------------------
(* Properties.                                                             *)

\* The record is saved before the task is queued and answered; a crash keeps it.
NewIsDurable == \A a \in answers : a.new => records[a.id] # "absent"

\* Whichever servers the retries of a webhook reach, and whenever servers die,
\* all are told the same investigation, at most one server creates it, and who is
\* told that it was created finds its record.
OneInvestigationPerTrigger ==
  /\ \A a, b \in answers : a.trigger = b.trigger => a.id = b.id
  /\ \A s, r \in Servers :
       {loop[s].at, loop[r].at} \subseteq {"save", "accept"}
         /\ loop[s].trigger = loop[r].trigger => s = r
  /\ NewIsDurable

\* An investigation that was accepted ends in a status that tells the operator
\* what to do, unless a server died or a failure could not be recorded.
AcceptedSettles ==
  \A id \in Ids :
    records[id] = "received" ~> (records[id] \in Settled \/ crashes > 0 \/ outages > 0)

\* CONTEXT.md: a duplicate external trigger resumes or returns the existing
\* Investigation, so there is one sooner or later.
DuplicateReturnsInvestigation ==
  \A id \in Ids :
    (\E a \in answers : a.id = id /\ ~a.new) ~> (records[id] # "absent")
=============================================================================
