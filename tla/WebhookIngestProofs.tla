-------------------------- MODULE WebhookIngestProofs --------------------------
(***************************************************************************)
(* Proofs about WebhookIngest, for every set of servers, deliveries and    *)
(* investigations and any number of deaths.                                *)
(***************************************************************************)
EXTENDS WebhookIngest, FiniteSetTheorems, TLAPS

USE IngestAssumption

-----------------------------------------------------------------------------
(* The inductive invariant.                                                *)

Creating(s) == loop[s].at \in {"save", "accept"}

\* A handler that is at work serves a trigger; one that has spent the key of
\* its trigger holds the id that the key was spent for.
KeyIsHeld ==
  \A s \in Servers :
    /\ ~At(s, "idle") => loop[s].trigger \in Triggers
    /\ Creating(s) => loop[s].id \in Ids /\ keys[loop[s].trigger] = loop[s].id

\* The key of a trigger is spent by one server only.
OneCreator ==
  \A s, r \in Servers :
    Creating(s) /\ Creating(r) /\ loop[s].trigger = loop[r].trigger => s = r

\* Whoever is told an id is told the one the key was spent for.
AnswersAreKeys == \A a \in answers : keys[a.trigger] = a.id

\* The record is saved before it is accepted.
SavedFirst == \A s \in Servers : At(s, "accept") => records[loop[s].id] # "absent"

IInv ==
  /\ TypeOK
  /\ KeyIsHeld
  /\ OneCreator
  /\ AnswersAreKeys
  /\ SavedFirst
  /\ NewIsDurable

Core == KeyIsHeld /\ OneCreator /\ AnswersAreKeys /\ SavedFirst /\ NewIsDurable

-----------------------------------------------------------------------------
(* The types of what the steps put together.                               *)

Loops ==
  [at : {"idle", "lookup", "preflight", "remember", "save", "accept"},
   trigger : Triggers \cup {NoId}, id : Ids \cup {NoId}]

Runs ==
  [stage : Stages, server : Servers \cup {NoId},
   incident : Incidents \cup {NoIncident}, operator : BOOLEAN]

Told == [trigger : Triggers, id : Ids, new : BOOLEAN]

\* An accepted delivery names one trigger.
LEMMA TriggerOfType ==
  ASSUME NEW m \in Messages, Accepted(m)
  PROVE  TriggerOf(m) \in Triggers
<1>1. IncidentIds(m) # {}
  <2>1. Cardinality(IncidentIds(m)) = 1
    BY DEF Accepted
  <2> QED BY <2>1, FS_EmptySet
<1>2. m.source \in Sources /\ m.items \subseteq Items
  OBVIOUS
<1>3. IncidentIds(m) \subseteq Incidents
  BY <1>2 DEF IncidentIds, Actionable, Items
<1>4. (CHOOSE i \in IncidentIds(m) : TRUE) \in Incidents
  BY <1>1, <1>3
<1> QED BY <1>2, <1>4 DEF TriggerOf, Triggers

\* An answer is one of the history's, and leaves the server idle.
LEMMA AnswerType ==
  ASSUME TypeOK, NEW s \in Servers, NEW id \in Ids, NEW new \in BOOLEAN,
         loop[s].trigger \in Triggers, Answer(s, id, new)
  PROVE  answers' \subseteq Told /\ loop' \in [Servers -> Loops]
<1>1. [trigger |-> loop[s].trigger, id |-> id, new |-> new] \in Told
  BY DEF Told
<1>2. answers \subseteq Told
  BY DEF TypeOK, Told
<1>3. Idle \in Loops
  BY DEF Idle, Loops
<1>4. loop \in [Servers -> Loops]
  BY DEF TypeOK, Loops
<1> QED BY <1>1, <1>2, <1>3, <1>4 DEF Answer, Drop

-----------------------------------------------------------------------------
(* The types are kept.                                                     *)

LEMMA LoopType ==
  ASSUME TypeOK, KeyIsHeld, NEW s \in Servers,
         Deliver(s) \/ HandlerStep(s) \/ Crash(s)
  PROVE  loop' \in [Servers -> Loops]
<1>1. loop \in [Servers -> Loops] /\ Idle \in Loops
  BY DEF TypeOK, Loops, Idle
<1>2. CASE Deliver(s)
  <2>1. PICK m \in Messages :
          /\ Accepted(m)
          /\ loop' = [loop EXCEPT ![s] = [at |-> "lookup", trigger |-> TriggerOf(m), id |-> NoId]]
    BY <1>2 DEF Deliver
  <2>2. [at |-> "lookup", trigger |-> TriggerOf(m), id |-> NoId] \in Loops
    BY <2>1, TriggerOfType DEF Loops
  <2> QED BY <1>1, <2>1, <2>2
<1>3. ASSUME NEW at \in {"preflight", "remember", "accept"}, Goto(s, at)
      PROVE  loop' \in [Servers -> Loops]
  BY <1>1, <1>3 DEF Goto, Loops
<1>4. ASSUME Drop(s) PROVE loop' \in [Servers -> Loops]
  BY <1>1, <1>4 DEF Drop
<1>5. CASE RememberTrigger(s)
  <2>1. PICK id \in Ids : loop' = [loop EXCEPT ![s].at = "save", ![s].id = id]
    BY <1>5 DEF RememberTrigger
  <2>2. [loop[s] EXCEPT !.at = "save", !.id = id] \in Loops
    BY <1>1 DEF Loops
  <2> QED BY <1>1, <2>1, <2>2
<1>6. CASE LookupTrigger(s)
  BY <1>3, <1>4, <1>6 DEF LookupTrigger, Answer
<1>7. CASE Preflight(s) \/ SaveReceived(s)
  BY <1>3, <1>4, <1>7 DEF Preflight, SaveReceived
<1>8. CASE AnswerRace(s) \/ Accept(s) \/ Crash(s)
  BY <1>4, <1>8 DEF AnswerRace, Accept, Crash, Answer
<1> QED BY <1>2, <1>5, <1>6, <1>7, <1>8 DEF HandlerStep

LEMMA RunType ==
  ASSUME TypeOK, KeyIsHeld, Next
  PROVE  run' \in [Ids -> Runs]
<1>1. run \in [Ids -> Runs]
  BY DEF TypeOK, Runs
<1>2. ASSUME NEW s \in Servers, Accept(s) PROVE run' \in [Ids -> Runs]
  <2>1. loop[s].trigger.incident \in Incidents
    BY <1>2 DEF KeyIsHeld, Accept, At, Triggers
  <2>2. [stage |-> "queued", server |-> s, incident |-> loop[s].trigger.incident,
         operator |-> FALSE] \in Runs
    BY <2>1 DEF Runs, Stages
  <2> QED BY <1>1, <1>2, <2>2 DEF Accept
<1>3. ASSUME NEW s \in Servers, OperatorRun(s) PROVE run' \in [Ids -> Runs]
  <2>1. PICK id \in Ids, i \in Incidents :
          run' = [run EXCEPT ![id] =
                    [stage |-> "queued", server |-> s, incident |-> i, operator |-> TRUE]]
    BY <1>3 DEF OperatorRun
  <2>2. [stage |-> "queued", server |-> s, incident |-> i, operator |-> TRUE] \in Runs
    BY DEF Runs, Stages
  <2> QED BY <1>1, <2>1, <2>2
<1>4. ASSUME NEW s \in Servers, Crash(s) PROVE run' \in [Ids -> Runs]
  <2>1. \A i \in Ids : [run[i] EXCEPT !.stage = "over", !.server = NoId] \in Runs
    BY <1>1 DEF Runs, Stages
  <2> QED BY <1>1, <1>4, <2>1 DEF Crash
<1>5. ASSUME NEW id \in Ids, NEW stage \in Stages, Stage(id, stage) PROVE run' \in [Ids -> Runs]
  BY <1>1, <1>5 DEF Stage, Runs
<1>6. ASSUME NEW id \in Ids, Finish(id) PROVE run' \in [Ids -> Runs]
  <2>1. [run[id] EXCEPT !.stage = "over", !.server = NoId] \in Runs
    BY <1>1 DEF Runs, Stages
  <2>2. run' = [run EXCEPT ![id] = [run[id] EXCEPT !.stage = "over", !.server = NoId]]
    BY <1>6 DEF Finish
  <2> QED BY <1>1, <2>1, <2>2
<1>7. ASSUME NEW id \in Ids, RunStep(id) PROVE run' \in [Ids -> Runs]
  <2>1. "running" \in Stages /\ "closing" \in Stages /\ "raised" \in Stages
    BY DEF Stages
  <2> QED BY <1>5, <1>6, <1>7, <2>1
             DEF RunStep, StartRun, EndRun, CloseClients, RunRaises, MarkFailed, LoseFailure
<1>8. ASSUME NEW s \in Servers,
             Deliver(s) \/ LookupTrigger(s) \/ Preflight(s) \/ RememberTrigger(s)
               \/ AnswerRace(s) \/ SaveReceived(s)
      PROVE  run' \in [Ids -> Runs]
  BY <1>1, <1>8 DEF Deliver, LookupTrigger, Preflight, RememberTrigger, AnswerRace, SaveReceived
<1> QED BY <1>2, <1>3, <1>4, <1>7, <1>8 DEF Next, HandlerStep

LEMMA HandlerTypeOK ==
  ASSUME TypeOK, KeyIsHeld, NEW s \in Servers,
         Deliver(s) \/ HandlerStep(s) \/ Crash(s)
  PROVE  TypeOK'
<1>1. loop' \in [Servers -> Loops] /\ run' \in [Ids -> Runs]
  BY LoopType, RunType DEF Next
<1>2. ASSUME NEW id \in Ids, NEW new \in BOOLEAN, ~At(s, "idle"), Answer(s, id, new)
      PROVE  answers' \subseteq Told
  BY <1>2, AnswerType DEF KeyIsHeld
<1>3. keys' \in [Triggers -> Ids \cup {NoId}] /\ used' \subseteq Ids
  <2>1. CASE RememberTrigger(s)
    <3>1. PICK id \in Ids : /\ keys' = [keys EXCEPT ![loop[s].trigger] = id]
                            /\ used' = used \cup {id}
      BY <2>1 DEF RememberTrigger
    <3> QED BY <3>1 DEF TypeOK
  <2>2. CASE UNCHANGED <<keys, used>>
    BY <2>2 DEF TypeOK
  <2> QED BY <2>1, <2>2
          DEF Deliver, HandlerStep, LookupTrigger, Preflight, AnswerRace, SaveReceived,
              Accept, Crash, store
<1>4. records' \in [Ids -> Statuses]
  BY DEF TypeOK, KeyIsHeld, Statuses, Creating, Deliver, HandlerStep, LookupTrigger, Preflight,
     RememberTrigger, AnswerRace, SaveReceived, Accept, Crash, store, At
<1>5. crashes' \in 0..MaxCrashes /\ outages' \in 0..MaxOutages
  <2>1. UNCHANGED outages
    BY DEF Deliver, HandlerStep, LookupTrigger, Preflight, RememberTrigger, AnswerRace,
       SaveReceived, Accept, Crash
  <2>2. UNCHANGED crashes \/ (crashes < MaxCrashes /\ crashes' = crashes + 1)
    BY DEF Deliver, HandlerStep, LookupTrigger, Preflight, RememberTrigger, AnswerRace,
       SaveReceived, Accept, Crash
  <2>3. crashes \in 0..MaxCrashes /\ MaxCrashes \in Nat /\ outages \in 0..MaxOutages
    BY DEF TypeOK
  <2>4. crashes' \in 0..MaxCrashes
    BY <2>2, <2>3
  <2> QED BY <2>1, <2>3, <2>4
<1>6. answers' \subseteq Told
  <2>1. CASE LookupTrigger(s) \/ AnswerRace(s)
    <3>1. CASE UNCHANGED answers
      BY <3>1 DEF TypeOK, Told
    <3>2. CASE keys[loop[s].trigger] # NoId /\ Answer(s, keys[loop[s].trigger], FALSE)
      <4>1. ~At(s, "idle")
        BY <2>1 DEF LookupTrigger, AnswerRace, At
      <4>2. keys[loop[s].trigger] \in Ids
        BY <3>2, <4>1 DEF KeyIsHeld, TypeOK
      <4> QED BY <1>2, <3>2, <4>1, <4>2
    <3> QED BY <2>1, <3>1, <3>2 DEF LookupTrigger, AnswerRace
  <2>2. CASE Accept(s)
    <3>1. ~At(s, "idle") /\ loop[s].id \in Ids /\ Answer(s, loop[s].id, TRUE)
      BY <2>2 DEF Accept, At, KeyIsHeld, Creating
    <3> QED BY <1>2, <3>1
  <2>3. CASE UNCHANGED answers
    BY <2>3 DEF TypeOK, Told
  <2> QED BY <2>1, <2>2, <2>3
          DEF HandlerStep, Deliver, Preflight, RememberTrigger, SaveReceived, Crash
<1> QED BY <1>1, <1>3, <1>4, <1>5, <1>6 DEF TypeOK, Loops, Runs, Told

LEMMA OthersTypeOK ==
  ASSUME TypeOK, KeyIsHeld,
         (\E s \in Servers : OperatorRun(s)) \/ (\E id \in Ids : RunStep(id))
  PROVE  TypeOK'
<1>1. run' \in [Ids -> Runs]
  BY RunType DEF Next
<1>2. UNCHANGED <<keys, loop, crashes, answers>>
  BY DEF OperatorRun, RunStep, StartRun, EndRun, CloseClients, RunRaises, MarkFailed,
     LoseFailure, store
<1>3. records' \in [Ids -> Statuses]
  BY DEF TypeOK, Statuses, Settled, OperatorRun, RunStep, StartRun, EndRun, CloseClients,
     RunRaises, MarkFailed, LoseFailure, store
<1>4. outages' \in 0..MaxOutages /\ used' \subseteq Ids
  <2>1. UNCHANGED outages \/ (outages < MaxOutages /\ outages' = outages + 1)
    BY DEF OperatorRun, RunStep, StartRun, EndRun, CloseClients, RunRaises, MarkFailed,
       LoseFailure
  <2>2. UNCHANGED used \/ \E id \in Ids : used' = used \cup {id}
    BY DEF OperatorRun, RunStep, StartRun, EndRun, CloseClients, RunRaises, MarkFailed,
       LoseFailure
  <2>3. outages \in 0..MaxOutages /\ MaxOutages \in Nat
    BY DEF TypeOK
  <2>4. outages' \in 0..MaxOutages
    BY <2>1, <2>3
  <2>5. used' \subseteq Ids
    BY <2>2 DEF TypeOK
  <2> QED BY <2>4, <2>5
<1> QED BY <1>1, <1>2, <1>3, <1>4 DEF TypeOK, Runs

-----------------------------------------------------------------------------
(* The rest of the invariant is kept by each step.                         *)

\* A server that only moves to another label, without spending a key, does not
\* disturb the others.
LEMMA MovesCore ==
  ASSUME IInv, NEW s \in Servers,
         loop' = [loop EXCEPT ![s] = loop'[s]],
         ~(loop'[s].at \in {"save", "accept"}),
         loop'[s].at # "idle" => loop'[s].trigger \in Triggers,
         UNCHANGED <<keys, records, answers>>
  PROVE  Core'
<1> USE DEF IInv, Creating, At
<1>0. loop \in [Servers -> Loops]
  BY DEF TypeOK, Loops
<1>1. \A r \in Servers : r # s => loop'[r] = loop[r]
  BY <1>0
<1>2. KeyIsHeld'
  BY <1>1 DEF KeyIsHeld
<1>3. OneCreator'
  BY <1>1 DEF OneCreator
<1>4. SavedFirst'
  BY <1>1 DEF SavedFirst
<1>5. AnswersAreKeys' /\ NewIsDurable'
  BY DEF AnswersAreKeys, NewIsDurable
<1> QED BY <1>2, <1>3, <1>4, <1>5 DEF Core

\* An answer that names what the key was spent for, of a record that exists if
\* it is said to be new.
LEMMA AnswerCore ==
  ASSUME IInv, NEW s \in Servers, NEW id \in Ids, NEW new \in BOOLEAN,
         keys[loop[s].trigger] = id, new => records[id] # "absent",
         Answer(s, id, new), UNCHANGED <<keys, records>>
  PROVE  Core'
<1> USE DEF IInv, Creating, At
<1>1. \A r \in Servers : loop'[r] = IF r = s THEN Idle ELSE loop[r]
  BY DEF Answer, Drop, TypeOK
<1>2. KeyIsHeld' /\ OneCreator' /\ SavedFirst'
  BY <1>1 DEF KeyIsHeld, OneCreator, SavedFirst, Idle
<1>3. AnswersAreKeys' /\ NewIsDurable'
  BY DEF AnswersAreKeys, NewIsDurable, Answer
<1> QED BY <1>2, <1>3 DEF Core

\* The key was not spent before, so nobody else creates for this trigger and
\* nobody was answered.
LEMMA RememberCore ==
  ASSUME IInv, NEW s \in Servers, RememberTrigger(s)
  PROVE  Core'
<1> USE DEF IInv, Creating, At
<1>1. PICK id \in Ids \ used :
        /\ keys' = [keys EXCEPT ![loop[s].trigger] = id]
        /\ loop' = [loop EXCEPT ![s].at = "save", ![s].id = id]
  BY DEF RememberTrigger
<1>2. loop[s].trigger \in Triggers /\ keys[loop[s].trigger] = NoId
  BY DEF RememberTrigger, KeyIsHeld
<1>3. /\ loop'[s].at = "save" /\ loop'[s].id = id /\ loop'[s].trigger = loop[s].trigger
      /\ \A r \in Servers : r # s => loop'[r] = loop[r]
  BY <1>1 DEF TypeOK
<1>4. \A t \in Triggers : keys'[t] = IF t = loop[s].trigger THEN id ELSE keys[t]
  BY <1>1 DEF TypeOK
<1>5. \A r \in Servers : Creating(r) => loop[r].trigger # loop[s].trigger
  BY <1>2 DEF KeyIsHeld
<1>6. KeyIsHeld'
  BY <1>2, <1>3, <1>4, <1>5 DEF KeyIsHeld
<1>7. OneCreator'
  BY <1>3, <1>5 DEF OneCreator
<1>8. SavedFirst' /\ NewIsDurable'
  BY <1>3 DEF RememberTrigger, SavedFirst, NewIsDurable
<1>9. AnswersAreKeys'
  <2>1. UNCHANGED answers /\ \A a \in answers : a.trigger \in Triggers /\ a.id \in Ids
    BY DEF RememberTrigger, TypeOK
  <2> QED BY <1>2, <1>4, <2>1 DEF AnswersAreKeys
<1> QED BY <1>6, <1>7, <1>8, <1>9 DEF Core

LEMMA SaveCore ==
  ASSUME IInv, NEW s \in Servers, SaveReceived(s)
  PROVE  Core'
<1> USE DEF IInv, Creating, At
<1>1. /\ loop'[s].at = "accept" /\ loop'[s].id = loop[s].id
      /\ loop'[s].trigger = loop[s].trigger /\ loop[s].at = "save"
      /\ \A r \in Servers : r # s => loop'[r] = loop[r]
  BY DEF SaveReceived, Goto, TypeOK
<1>2. \A id \in Ids : records'[id] = IF id = loop[s].id THEN "received" ELSE records[id]
  BY DEF SaveReceived, TypeOK
<1>3. UNCHANGED <<keys, answers>>
  BY DEF SaveReceived
<1>4. KeyIsHeld' /\ OneCreator'
  BY <1>1, <1>3 DEF KeyIsHeld, OneCreator
<1>5. SavedFirst'
  BY <1>1, <1>2 DEF SavedFirst, KeyIsHeld
<1>6. AnswersAreKeys' /\ NewIsDurable'
  BY <1>2, <1>3 DEF AnswersAreKeys, NewIsDurable, TypeOK
<1> QED BY <1>4, <1>5, <1>6 DEF Core

LEMMA HandlerCore ==
  ASSUME IInv, NEW s \in Servers, Deliver(s) \/ HandlerStep(s) \/ Crash(s)
  PROVE  Core'
<1>1. TypeOK /\ KeyIsHeld /\ SavedFirst
  BY DEF IInv
<1>2. ASSUME Drop(s), UNCHANGED <<keys, records, answers>> PROVE Core'
  <2>1. loop' = [loop EXCEPT ![s] = loop'[s]] /\ loop'[s].at = "idle"
    BY <1>1, <1>2 DEF Drop, Idle, TypeOK
  <2> QED BY <1>2, <2>1, MovesCore
<1>3. ASSUME NEW at \in {"preflight", "remember"}, Goto(s, at), ~At(s, "idle"),
             UNCHANGED <<keys, records, answers>>
      PROVE  Core'
  <2>1. /\ loop' = [loop EXCEPT ![s] = loop'[s]]
        /\ loop'[s].at = at /\ loop'[s].trigger = loop[s].trigger
    BY <1>1, <1>3 DEF Goto, TypeOK
  <2> QED BY <1>1, <1>3, <2>1, MovesCore DEF KeyIsHeld
<1>4. CASE Deliver(s)
  <2>1. PICK m \in Messages :
          /\ Accepted(m)
          /\ loop' = [loop EXCEPT ![s] = [at |-> "lookup", trigger |-> TriggerOf(m), id |-> NoId]]
    BY <1>4 DEF Deliver
  <2>2. /\ loop' = [loop EXCEPT ![s] = loop'[s]]
        /\ loop'[s].at = "lookup" /\ loop'[s].trigger \in Triggers
    BY <1>1, <2>1, TriggerOfType DEF TypeOK
  <2>3. UNCHANGED <<keys, records, answers>>
    BY <1>4 DEF Deliver, store
  <2> QED BY <2>2, <2>3, MovesCore
<1>5. ASSUME keys[loop[s].trigger] # NoId, ~At(s, "idle"), UNCHANGED store,
             Answer(s, keys[loop[s].trigger], FALSE)
      PROVE  Core'
  <2>1. keys[loop[s].trigger] \in Ids
    BY <1>1, <1>5 DEF KeyIsHeld, TypeOK
  <2> QED BY <1>5, <2>1, AnswerCore DEF store
<1>6. CASE LookupTrigger(s)
  BY <1>3, <1>5, <1>6 DEF LookupTrigger, At, store
<1>7. CASE Preflight(s)
  BY <1>2, <1>3, <1>7 DEF Preflight, At, store
<1>8. CASE AnswerRace(s)
  BY <1>5, <1>8 DEF AnswerRace, At
<1>9. CASE Accept(s)
  <2>1. loop[s].id \in Ids /\ keys[loop[s].trigger] = loop[s].id /\ records[loop[s].id] # "absent"
    BY <1>1, <1>9 DEF Accept, KeyIsHeld, SavedFirst, Creating, At
  <2> QED BY <1>9, <2>1, AnswerCore DEF Accept, store
<1>10. CASE Crash(s)
  BY <1>2, <1>10 DEF Crash, store
<1> QED BY <1>4, <1>6, <1>7, <1>8, <1>9, <1>10, RememberCore, SaveCore DEF HandlerStep

LEMMA OthersCore ==
  ASSUME IInv, (\E s \in Servers : OperatorRun(s)) \/ (\E id \in Ids : RunStep(id))
  PROVE  Core'
<1>1. UNCHANGED <<keys, loop, answers>>
  BY DEF OperatorRun, RunStep, StartRun, EndRun, CloseClients, RunRaises, MarkFailed,
     LoseFailure, store
<1>2. \A id \in Ids : records[id] # "absent" => records'[id] # "absent"
  BY DEF IInv, TypeOK, OperatorRun, RunStep, StartRun, EndRun, CloseClients, RunRaises,
     MarkFailed, LoseFailure, store
<1>3. KeyIsHeld' /\ OneCreator' /\ AnswersAreKeys'
  BY <1>1 DEF IInv, KeyIsHeld, OneCreator, AnswersAreKeys, Creating, At
<1>4. SavedFirst' /\ NewIsDurable'
  BY <1>1, <1>2 DEF IInv, TypeOK, KeyIsHeld, SavedFirst, NewIsDurable, Creating, At
<1> QED BY <1>3, <1>4 DEF Core

LEMMA InitIInv == Init => IInv
<1> SUFFICES ASSUME Init PROVE IInv
  OBVIOUS
<1>1. TypeOK
  BY DEF Init, TypeOK, Idle, NoRun, Stages, Statuses
<1>2. KeyIsHeld /\ OneCreator /\ AnswersAreKeys /\ SavedFirst /\ NewIsDurable
  BY DEF Init, Idle, KeyIsHeld, OneCreator, AnswersAreKeys, SavedFirst, NewIsDurable,
     Creating, At
<1> QED BY <1>1, <1>2 DEF IInv

LEMMA NextIInv == IInv /\ [Next]_vars => IInv'
<1> SUFFICES ASSUME IInv, [Next]_vars PROVE IInv'
  OBVIOUS
<1>1. TypeOK /\ KeyIsHeld
  BY DEF IInv
<1>2. ASSUME NEW s \in Servers, Deliver(s) \/ HandlerStep(s) \/ Crash(s) PROVE IInv'
  BY <1>1, <1>2, HandlerTypeOK, HandlerCore DEF IInv, Core
<1>3. CASE (\E s \in Servers : OperatorRun(s)) \/ (\E id \in Ids : RunStep(id))
  BY <1>1, <1>3, OthersTypeOK, OthersCore DEF IInv, Core
<1>4. CASE UNCHANGED vars
  BY <1>4 DEF IInv, TypeOK, KeyIsHeld, OneCreator, AnswersAreKeys, SavedFirst, NewIsDurable,
     Creating, At, vars
<1> QED BY <1>2, <1>3, <1>4 DEF Next

\* Every state that the steps of the code reach satisfies the inductive invariant.
THEOREM Invariance == Spec => []IInv
  BY InitIInv, NextIInv, PTL DEF Spec

-----------------------------------------------------------------------------
(* What follows.                                                           *)

\* The store, the handlers and the background runs keep their types.
THEOREM TypeCorrectness == Spec => []TypeOK
<1>1. IInv => TypeOK
  BY DEF IInv
<1> QED BY <1>1, Invariance, PTL

\* Whatever deliveries reach whichever servers, and whenever servers die, a
\* trigger has one investigation, one server that creates it, and a record of it
\* by the time that anyone is told of its creation (_create_received_investigation).
THEOREM TriggersHaveOneInvestigation == Spec => []OneInvestigationPerTrigger
<1>1. IInv => OneInvestigationPerTrigger
  <2> SUFFICES ASSUME IInv PROVE OneInvestigationPerTrigger
    OBVIOUS
  <2>1. \A a, b \in answers : a.trigger = b.trigger => a.id = b.id
    BY DEF IInv, AnswersAreKeys
  <2>2. \A s, r \in Servers :
          {loop[s].at, loop[r].at} \subseteq {"save", "accept"}
            /\ loop[s].trigger = loop[r].trigger => s = r
    BY DEF IInv, OneCreator, Creating
  <2>3. NewIsDurable
    BY DEF IInv
  <2> QED BY <2>1, <2>2, <2>3 DEF OneInvestigationPerTrigger
<1> QED BY <1>1, Invariance, PTL
===============================================================================
