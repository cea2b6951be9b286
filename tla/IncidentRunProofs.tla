--------------------------- MODULE IncidentRunProofs ---------------------------
(***************************************************************************)
(* Proofs about IncidentRun, for every choice of workflows, and any number *)
(* of services, planned tools and repeated calls.                          *)
(***************************************************************************)
EXTENDS IncidentRun, SequenceTheorems, TLAPS

USE RunAssumption

-----------------------------------------------------------------------------
(* The inductive invariant.                                                *)

AllCalls == [agent : Agents, tool : Tools]

\* The executor lets the call pass, with the approval that the run has.
Allowed(c, p) == Permitted(c.agent, c.tool, p, p = "remediation" /\ c.tool \in MutatingTools)

Planning      == {"received", "triage", "evidence_collection"}
Investigators == {"service_investigator", "remediation_readiness", "blast_radius"}

\* What is left to call in a phase belongs to that phase: plans are made at the
\* start of a run, required tools are those of the phase, and a script is one
\* that the executor allows, without traces, and the parent's own except while
\* services are investigated.
PendingFits ==
  /\ pending.free > 0 => phase \in Planning
  /\ pending.todo # {} => phase \in Planning /\ pending.todo \subseteq SlowQueryTools[phase]
  /\ \A i \in DOMAIN pending.script :
       /\ Allowed(pending.script[i], phase)
       /\ pending.script[i].tool # Traces
       /\ phase # "service_investigation" => pending.script[i].agent = "parent"
  /\ phase = "remediation" /\ pending.script # <<>> => decision = "approve"
  /\ step = "correlated" => pending.script = <<>>

\* Where the phase controller is tells the phase and the workflow.
PlaceFits ==
  /\ step \in {"created", "short"} => phase = "received"
  /\ step = "correlated" => phase = "correlation" /\ workflow # "watch"
  /\ step \in {"propose", "post", "park", "unnotified", "close"} =>
       phase = "response_proposal" /\ workflow # "watch"
  /\ step = "calls" /\ phase \in {"correlation", "response_proposal"} => workflow = "watch"
  /\ step = "raised" => phase = "received"
  /\ phase \in {"service_investigation", "remediation"} => workflow # "watch"
  /\ step \in {"park", "unnotified"} => request
  /\ status = "waiting_for_approval" =>
       request /\ step = "returned" /\ phase = "response_proposal"
  /\ phase = "remediation" => request
  /\ request =>
       /\ workflow # "watch"
       /\ \/ phase = "response_proposal" /\ step \in {"park", "unnotified", "returned"}
          \/ phase \in {"remediation", "post_mortem"} /\ step \in {"calls", "returned"}

\* What the diagnosis has looked at stays as it was.
Sound ==
  /\ confidence \notin {"none", "insufficient"}
  /\ workflow = "rollback" => facts.change
  /\ workflow = "slow_query" => facts.metric /\ (facts.logs \/ facts.db)

Untraced == workflow \in {"rollback", "replay"} => ~facts.traceFailed

Approver == IF pagerduty THEN "incident" ELSE "generic_webhook"

GroundsHold ==
  /\ facts.approver \in {"none", Approver}
  /\ phase = "service_investigation" => Untraced
  /\ step = "correlated" => Untraced /\ (confidence = "insufficient" \/ Sound)
  /\ step \in {"propose", "post", "park", "unnotified"} \/ request => Untraced /\ Sound
  /\ step \in {"post", "park", "unnotified"} \/ request =>
       /\ workflow = "rollback" => facts.target
       /\ Live => facts.approver # "none"

\* Production was changed only after an approval, and so late.
ChangedLate ==
  /\ refused = {}
  /\ changes > 0 =>
       decision = "approve" /\ request /\ phase \in {"remediation", "post_mortem"}

IInv ==
  /\ TypeOK
  /\ PendingFits
  /\ PlaceFits
  /\ GroundsHold
  /\ ChangedLate
-----------------------------------------------------------------------------
(* The contracts of the tools.                                             *)

LEMMA PhasesAre ==
  Phases = {"received", "triage", "evidence_collection", "service_investigation",
            "correlation", "response_proposal", "remediation", "post_mortem"}
  BY DEF Phases, PhaseNumber

LEMMA Allowlists ==
  /\ \A tool \in ObserveTools \cup RepoTools :
       tool \in Tools /\ PhaseAllowlist[tool] = Phases \ {"received"}
  /\ SpawnTool \in Tools /\ PhaseAllowlist[SpawnTool] = {"service_investigation"}
  /\ \A tool \in MutatingTools : tool \in Tools /\ PhaseAllowlist[tool] = {"remediation"}
  /\ \A tool \in CommsTools :
       tool \in Tools /\ PhaseAllowlist[tool] = {"received", "response_proposal", "post_mortem"}
<1>1. /\ SpawnTool \notin ObserveTools \cup RepoTools
      /\ \A tool \in MutatingTools : tool \notin ObserveTools \cup RepoTools \cup {SpawnTool}
      /\ \A tool \in CommsTools :
           tool \notin ObserveTools \cup RepoTools \cup {SpawnTool} \cup MutatingTools
  BY DEF ObserveTools, RepoTools, SpawnTool, MutatingTools, CommsTools
<1>2. \A tool \in ObserveTools \cup RepoTools :
        tool \in Tools /\ PhaseAllowlist[tool] = Phases \ {"received"}
  <2>1. \A tool \in ObserveTools \cup RepoTools :
          tool # SpawnTool /\ tool \notin MutatingTools /\ tool \notin CommsTools
    BY <1>1
  <2> QED BY <2>1 DEF Tools, PhaseAllowlist, ReadStates
<1>3. SpawnTool \in Tools /\ PhaseAllowlist[SpawnTool] = {"service_investigation"}
  BY <1>1 DEF Tools, PhaseAllowlist
<1>4. \A tool \in MutatingTools : tool \in Tools /\ PhaseAllowlist[tool] = {"remediation"}
  BY <1>1 DEF Tools, PhaseAllowlist
<1>5. \A tool \in CommsTools :
        tool \in Tools /\ PhaseAllowlist[tool] = {"received", "response_proposal", "post_mortem"}
  BY <1>1 DEF Tools, PhaseAllowlist
<1> QED BY <1>2, <1>3, <1>4, <1>5

\* The contracts allow production to be changed in remediation only.
LEMMA MutationPhase ==
  ASSUME NEW tool \in MutatingTools, NEW p, p \in PhaseAllowlist[tool]
  PROVE  p = "remediation"
  BY Allowlists

\* What the parent is allowed to call.
LEMMA ParentReads ==
  ASSUME NEW tool \in ObserveTools \cup RepoTools, NEW p \in Phases \ {"received"}
  PROVE  Call("parent", tool) \in AllCalls /\ Allowed(Call("parent", tool), p)
<1>1. tool \in Tools /\ tool \notin MutatingTools /\ p \in PhaseAllowlist[tool]
  BY Allowlists DEF ObserveTools, RepoTools, MutatingTools
<1> QED BY <1>1 DEF Call, AllCalls, Agents, Allowed, Permitted, Scope

LEMMA ParentTells ==
  ASSUME NEW tool \in CommsTools, NEW p \in {"received", "response_proposal", "post_mortem"}
  PROVE  Call("parent", tool) \in AllCalls /\ Allowed(Call("parent", tool), p)
<1>1. tool \in Tools /\ tool \notin MutatingTools /\ p \in PhaseAllowlist[tool]
  BY Allowlists DEF CommsTools, MutatingTools
<1> QED BY <1>1 DEF Call, AllCalls, Agents, Allowed, Permitted, Scope

LEMMA ParentChanges ==
  ASSUME NEW tool \in MutatingTools
  PROVE  Call("parent", tool) \in AllCalls /\ Allowed(Call("parent", tool), "remediation")
<1>1. tool \in Tools /\ "remediation" \in PhaseAllowlist[tool]
  BY Allowlists
<1> QED BY <1>1 DEF Call, AllCalls, Agents, Allowed, Permitted, Scope

\* Any tool of the phase, as a model may plan it.
LEMMA ParentPlans ==
  ASSUME NEW p \in Phases, NEW tool \in PhaseToolSet(p)
  PROVE  Call("parent", tool) \in AllCalls /\ Allowed(Call("parent", tool), p)
<1>1. tool \in Tools /\ p \in PhaseAllowlist[tool]
  BY DEF PhaseToolSet
<1>2. tool \in MutatingTools => p = "remediation"
  BY <1>1, MutationPhase
<1> QED BY <1>1, <1>2 DEF Call, AllCalls, Agents, Allowed, Permitted, Scope

LEMMA SlowQueryAllowed ==
  /\ DOMAIN SlowQueryTools = Planning
  /\ \A p \in Planning : SlowQueryTools[p] \subseteq Tools
  /\ \A p \in Planning : \A tool \in SlowQueryTools[p] :
       Call("parent", tool) \in AllCalls /\ Allowed(Call("parent", tool), p)
<1>1. DOMAIN SlowQueryTools = Planning
  BY DEF SlowQueryTools, Planning
<1>2. /\ SlowQueryTools["received"] \subseteq CommsTools
      /\ SlowQueryTools["triage"] \subseteq ObserveTools
      /\ SlowQueryTools["evidence_collection"] \subseteq ObserveTools
  BY DEF SlowQueryTools, CommsTools, ObserveTools
<1>3. \A tool \in SlowQueryTools["received"] :
        Call("parent", tool) \in AllCalls /\ Allowed(Call("parent", tool), "received")
  BY <1>2, ParentTells
<1>4. \A p \in {"triage", "evidence_collection"} : \A tool \in SlowQueryTools[p] :
        Call("parent", tool) \in AllCalls /\ Allowed(Call("parent", tool), p)
  BY <1>2, ParentReads, PhasesAre
<1>5. CommsTools \subseteq Tools /\ ObserveTools \subseteq Tools
  BY DEF Tools
<1> QED BY <1>1, <1>2, <1>3, <1>4, <1>5 DEF Planning

-----------------------------------------------------------------------------
(* What a call does to the facts.                                          *)

LEMMA LearnedFacts ==
  ASSUME facts \in Facts, NEW c \in AllCalls,
         NEW named \in BOOLEAN, NEW ok \in BOOLEAN, NEW useful \in BOOLEAN
  PROVE  LET new == Learned(c, named, ok, useful)
         IN /\ new \in Facts
            /\ facts.change => new.change
            /\ facts.approver \in {"none", Approver} => new.approver \in {"none", Approver}
            /\ facts.approver # "none" => new.approver = facts.approver
            /\ c.tool # Traces => new.traceFailed = facts.traceFailed
            /\ c.agent # "remediation_readiness" => new.target = facts.target
            /\ phase # "triage" =>
                 /\ new.metric = facts.metric
                 /\ new.logs = facts.logs /\ new.db = facts.db
<1> DEFINE good == ok /\ useful
           parent == c.agent = "parent"
<1>1. facts.change \in BOOLEAN /\ facts.approver \in Scopes /\ facts.traceFailed \in BOOLEAN
      /\ facts.gap \in BOOLEAN /\ facts.target \in BOOLEAN
      /\ facts.metric \in BOOLEAN /\ facts.logs \in BOOLEAN /\ facts.db \in BOOLEAN
  BY DEF Facts
<1>2. ScopedOnCall(named) \in {"none", Approver} /\ ScopedOnCall(named) \in Scopes
  BY DEF ScopedOnCall, Approver, Scopes
<1> DEFINE new == Learned(c, named, ok, useful)
<1>3. /\ new.change = (facts.change \/ (parent /\ good /\ c.tool \in ChangeTools))
      /\ new.approver = IF parent /\ good /\ c.tool \in OnCallTools /\ facts.approver = "none"
                        THEN ScopedOnCall(named) ELSE facts.approver
      /\ new.traceFailed = (facts.traceFailed \/ (c.tool = Traces /\ ~ok))
      /\ new.target = IF c.agent = "remediation_readiness" /\ c.tool = "repo.get_rollback_targets"
                      THEN good ELSE facts.target
  BY DEF Learned
<1>4. phase # "triage" =>
        new.metric = facts.metric /\ new.logs = facts.logs /\ new.db = facts.db
  BY DEF Learned
<1>5. new \in Facts
  BY <1>1, <1>2 DEF Learned, Facts
<1> HIDE DEF new
<1> QED BY <1>1, <1>2, <1>3, <1>4, <1>5 DEF new
-----------------------------------------------------------------------------
(* Tool calls.                                                             *)

\* What every permitted call leaves of what is known.
Keeps(c) ==
  /\ facts' \in Facts
  /\ facts.change => facts'.change
  /\ facts.approver \in {"none", Approver} => facts'.approver \in {"none", Approver}
  /\ facts.approver # "none" => facts'.approver = facts.approver
  /\ c.tool # Traces => facts'.traceFailed = facts.traceFailed
  /\ c.agent # "remediation_readiness" => facts'.target = facts.target
  /\ phase # "triage" =>
       facts'.metric = facts.metric /\ facts'.logs = facts.logs /\ facts'.db = facts.db
  /\ refused' = refused
  /\ changes' = changes + (IF c.tool \in MutatingTools THEN 1 ELSE 0)
  /\ c.tool \in MutatingTools => phase = "remediation"

LEMMA InvokeKeeps ==
  ASSUME TypeOK, NEW c \in AllCalls, NEW named \in BOOLEAN, Allowed(c, phase), Invoke(c, named)
  PROVE  Keeps(c)
<1>1. c.tool \in MutatingTools => phase = "remediation"
  BY MutationPhase DEF Allowed, Permitted
<1>2. /\ \E ok, useful \in BOOLEAN : facts' = Learned(c, named, ok, useful)
      /\ changes' = changes + (IF c.tool \in MutatingTools THEN 1 ELSE 0)
      /\ refused' = refused
  BY DEF Invoke, Allowed
<1>3. PICK ok \in BOOLEAN, useful \in BOOLEAN : facts' = Learned(c, named, ok, useful)
  BY <1>2
<1>4. facts \in Facts
  BY DEF TypeOK
<1> QED BY <1>1, <1>2, <1>3, <1>4, LearnedFacts DEF Keeps

\* The calls that are made: traces only as planned, others than the parent only
\* while services are investigated, and changes only when approved.
Fitting(c) ==
  /\ phase \notin Planning => c.tool # Traces
  /\ phase # "service_investigation" => c.agent = "parent"
  /\ phase = "remediation" => decision = "approve"

LEMMA CalledGrounds ==
  ASSUME IInv, NEW c \in AllCalls, Keeps(c), Fitting(c),
         UNCHANGED <<control, phase, step, verdict>>
  PROVE  GroundsHold'
<1>1. /\ UNCHANGED <<workflow, pagerduty, phase, step, confidence, request>>
      /\ facts \in Facts
  BY DEF control, verdict, IInv, TypeOK
<1>2. facts'.approver \in {"none", Approver'}
  BY <1>1 DEF IInv, GroundsHold, Keeps, Approver
<1>3. phase \notin Planning => (Untraced => Untraced')
  BY <1>1 DEF Untraced, Fitting, Keeps
<1>4. phase \notin Planning => (Sound => Sound')
  BY <1>1 DEF Sound, Keeps, Planning, Facts
<1>5. phase = "service_investigation" => Untraced'
  BY <1>3 DEF IInv, GroundsHold, Planning
<1>6. step = "correlated" => Untraced' /\ (confidence = "insufficient" \/ Sound')
  BY <1>3, <1>4 DEF IInv, GroundsHold, PlaceFits, Planning
<1>7. step \in {"propose", "post", "park", "unnotified"} \/ request => Untraced' /\ Sound'
  BY <1>3, <1>4 DEF IInv, GroundsHold, PlaceFits, Planning
<1>8. step \in {"post", "park", "unnotified"} \/ request =>
        /\ workflow = "rollback" => facts'.target
        /\ Live => facts'.approver # "none"
  BY <1>1 DEF IInv, GroundsHold, PlaceFits, Keeps, Fitting, Facts
<1> QED BY <1>1, <1>2, <1>5, <1>6, <1>7, <1>8 DEF GroundsHold, Live

LEMMA CallIInv ==
  ASSUME IInv, NEW c \in AllCalls, Keeps(c), Fitting(c),
         UNCHANGED <<control, phase, status, step, verdict>>,
         pending' \in Pending, PendingFits', repeats' \in 0..MaxRepeats
  PROVE  IInv'
<1>1. UNCHANGED <<workflow, services, pagerduty, phase, status, step, confidence, request, decision>>
  BY DEF control, verdict
<1>2. TypeOK'
  BY <1>1 DEF IInv, TypeOK, Keeps, Pending
<1>3. PlaceFits'
  BY <1>1 DEF IInv, PlaceFits
<1>4. GroundsHold'
  BY CalledGrounds
<1>5. ChangedLate'
  <2>1. changes' > 0 => changes > 0 \/ phase = "remediation"
    BY DEF Keeps, IInv, TypeOK
  <2> QED BY <1>1, <2>1 DEF IInv, ChangedLate, Keeps, Fitting, PlaceFits
<1> QED BY <1>2, <1>3, <1>4, <1>5 DEF IInv

\* What is typed about what is left to call.
LEMMA PendingTypes ==
  ASSUME IInv
  PROVE  /\ pending \in Pending
         /\ pending.free \in 0..MaxPlanned /\ pending.todo \in SUBSET Tools
         /\ pending.script \in Seq(AllCalls)
         /\ phase \in Phases
  BY DEF IInv, TypeOK, Pending, AllCalls

LEMMA PlannedCallIInv == IInv /\ PlannedCall => IInv'
<1> SUFFICES ASSUME IInv, PlannedCall PROVE IInv'
  OBVIOUS
<1>1. PICK tool \in PhaseToolSet(phase) : Invoke(Call("parent", tool), FALSE)
  BY DEF PlannedCall, Plannable
<1> DEFINE c == Call("parent", tool)
<1>2. c \in AllCalls /\ Allowed(c, phase) /\ c.agent = "parent"
  BY PendingTypes, ParentPlans DEF Call
<1>3. phase \in Planning /\ pending.free > 0
  BY DEF PlannedCall, IInv, PendingFits
<1>4. Keeps(c)
  BY <1>1, <1>2, InvokeKeeps DEF IInv
<1>5. Fitting(c)
  BY <1>2, <1>3 DEF Fitting, Planning
<1>6. /\ pending' \in Pending /\ pending'.free \in 0..MaxPlanned
      /\ pending'.todo = pending.todo /\ pending'.script = pending.script
  BY <1>3, PendingTypes DEF PlannedCall, Pending
<1>7. UNCHANGED <<phase, step, decision>>
  BY DEF PlannedCall, verdict
<1>8. PendingFits'
  BY <1>3, <1>6, <1>7 DEF IInv, PendingFits
<1>9. repeats' \in 0..MaxRepeats
  BY DEF PlannedCall, IInv, TypeOK
<1> HIDE DEF c
<1> QED BY <1>2, <1>4, <1>5, <1>6, <1>8, <1>9, CallIInv DEF PlannedCall

LEMMA RequiredCallIInv == IInv /\ RequiredCall => IInv'
<1> SUFFICES ASSUME IInv, RequiredCall PROVE IInv'
  OBVIOUS
<1>1. PICK tool \in pending.todo :
        /\ Invoke(Call("parent", tool), TRUE)
        /\ pending' = [pending EXCEPT !.todo = @ \ {tool}]
  BY DEF RequiredCall
<1> DEFINE c == Call("parent", tool)
<1>2. phase \in Planning /\ pending.todo \subseteq SlowQueryTools[phase]
  BY DEF IInv, PendingFits
<1>3. c \in AllCalls /\ Allowed(c, phase) /\ c.agent = "parent"
  BY <1>2, SlowQueryAllowed DEF Call
<1>4. Keeps(c)
  BY <1>1, <1>3, InvokeKeeps DEF IInv
<1>5. Fitting(c)
  BY <1>2, <1>3 DEF Fitting, Planning
<1>6. /\ pending' \in Pending /\ pending'.todo = pending.todo \ {tool}
      /\ pending'.free = pending.free /\ pending'.script = pending.script
  BY <1>1, PendingTypes DEF Pending
<1>7. UNCHANGED <<phase, step, decision>>
  BY DEF RequiredCall, verdict
<1>8. PendingFits'
  BY <1>2, <1>6, <1>7 DEF IInv, PendingFits
<1>9. repeats' \in 0..MaxRepeats
  BY DEF RequiredCall, IInv, TypeOK
<1> HIDE DEF c
<1> QED BY <1>3, <1>4, <1>5, <1>6, <1>8, <1>9, CallIInv DEF RequiredCall

LEMMA RepeatedCallIInv == IInv /\ RepeatedCall => IInv'
<1> SUFFICES ASSUME IInv, RepeatedCall PROVE IInv'
  OBVIOUS
<1>1. PICK tool \in SlowQueryTools[phase] : Invoke(Call("parent", tool), TRUE)
  BY DEF RepeatedCall
<1> DEFINE c == Call("parent", tool)
<1>2. phase \in Planning
  BY SlowQueryAllowed DEF RepeatedCall
<1>3. c \in AllCalls /\ Allowed(c, phase) /\ c.agent = "parent"
  BY <1>2, SlowQueryAllowed DEF Call
<1>4. Keeps(c)
  BY <1>1, <1>3, InvokeKeeps DEF IInv
<1>5. Fitting(c)
  BY <1>2, <1>3 DEF Fitting, Planning
<1>6. UNCHANGED <<phase, step, decision, pending>>
  BY DEF RepeatedCall, verdict
<1>7. pending' \in Pending /\ PendingFits'
  BY <1>6, PendingTypes DEF IInv, PendingFits
<1>8. repeats' \in 0..MaxRepeats
  BY DEF RepeatedCall, IInv, TypeOK
<1> HIDE DEF c
<1> QED BY <1>3, <1>4, <1>5, <1>7, <1>8, CallIInv DEF RepeatedCall

LEMMA ScriptedCallIInv == IInv /\ ScriptedCall => IInv'
<1> SUFFICES ASSUME IInv, ScriptedCall PROVE IInv'
  OBVIOUS
<1> DEFINE c == Head(pending.script)
<1>1. pending.script \in Seq(AllCalls) /\ pending.script # <<>>
  BY PendingTypes DEF ScriptedCall
<1>2. /\ 1 \in DOMAIN pending.script /\ c = pending.script[1] /\ c \in AllCalls
      /\ Tail(pending.script) \in Seq(AllCalls)
      /\ \A i \in DOMAIN Tail(pending.script) :
           i + 1 \in DOMAIN pending.script /\ Tail(pending.script)[i] = pending.script[i + 1]
  BY <1>1, HeadTailProperties
<1>3. Allowed(c, phase) /\ c.tool # Traces /\ (phase # "service_investigation" => c.agent = "parent")
  BY <1>2 DEF IInv, PendingFits
<1>4. Invoke(c, TRUE) /\ pending' = [pending EXCEPT !.script = Tail(@)]
  BY DEF ScriptedCall
<1>5. phase = "remediation" => decision = "approve"
  BY <1>1 DEF IInv, PendingFits
<1>6. Keeps(c)
  BY <1>2, <1>3, <1>4, InvokeKeeps DEF IInv
<1>7. Fitting(c)
  BY <1>3, <1>5 DEF Fitting
<1>8. /\ pending' \in Pending /\ pending'.script = Tail(pending.script)
      /\ pending'.free = pending.free /\ pending'.todo = pending.todo
  BY <1>2, <1>4, PendingTypes DEF Pending, AllCalls
<1>9. UNCHANGED <<phase, step, decision>>
  BY DEF ScriptedCall, verdict
<1>10. PendingFits'
  BY <1>2, <1>5, <1>8, <1>9 DEF ScriptedCall, IInv, PendingFits, Allowed
<1>11. repeats' \in 0..MaxRepeats
  BY DEF ScriptedCall, IInv, TypeOK
<1> HIDE DEF c
<1> QED BY <1>2, <1>6, <1>7, <1>8, <1>10, <1>11, CallIInv DEF ScriptedCall
-----------------------------------------------------------------------------
(* The scripts of the controller.                                          *)

\* A script of calls that the phase p allows.
ScriptFor(calls, p) ==
  /\ calls \in Seq(AllCalls)
  /\ \A i \in DOMAIN calls :
       /\ Allowed(calls[i], p)
       /\ calls[i].tool # Traces
       /\ p # "service_investigation" => calls[i].agent = "parent"

LEMMA ScriptedFields ==
  ASSUME NEW calls \in Seq(AllCalls)
  PROVE  /\ Scripted(calls) \in Pending
         /\ Scripted(calls).free = 0 /\ Scripted(calls).todo = {}
         /\ Scripted(calls).script = calls
  BY DEF Scripted, NothingPending, Pending, AllCalls

LEMMA EmptyFields ==
  /\ NothingPending \in Pending
  /\ NothingPending.free = 0 /\ NothingPending.todo = {} /\ NothingPending.script = <<>>
  BY DEF NothingPending, Pending

LEMMA NoScript == \A p : ScriptFor(<<>>, p)
  BY DEF ScriptFor

LEMMA ParentScript ==
  ASSUME NEW tools \in Seq(Tools), NEW p,
         \A i \in DOMAIN tools :
           /\ Call("parent", tools[i]) \in AllCalls
           /\ Allowed(Call("parent", tools[i]), p)
           /\ tools[i] # Traces
  PROVE  ScriptFor(Parent(tools), p)
<1>1. DOMAIN tools = 1..Len(tools) /\ Len(tools) \in Nat
  OBVIOUS
<1>2. Parent(tools) = [i \in 1..Len(tools) |-> Call("parent", tools[i])]
  BY <1>1 DEF Parent
<1>3. Parent(tools) \in Seq(AllCalls)
  BY <1>1, <1>2
<1>4. \A i \in DOMAIN Parent(tools) :
        i \in DOMAIN tools /\ Parent(tools)[i] = Call("parent", tools[i])
  BY DEF Parent
<1>5. \A i \in DOMAIN tools :
        Call("parent", tools[i]).tool = tools[i] /\ Call("parent", tools[i]).agent = "parent"
  BY DEF Call
<1> QED BY <1>3, <1>4, <1>5 DEF ScriptFor

\* Messages, pages and records of the parent.
LEMMA TellingScript ==
  ASSUME NEW tools \in Seq(CommsTools),
         NEW p \in {"received", "response_proposal", "post_mortem"}
  PROVE  ScriptFor(Parent(tools), p)
<1>1. CommsTools \subseteq Tools /\ Traces \notin CommsTools
  BY DEF Tools, CommsTools, Traces
<1>2. tools \in Seq(Tools) /\ \A i \in DOMAIN tools : tools[i] \in CommsTools
  BY <1>1
<1> QED BY <1>1, <1>2, ParentTells, ParentScript

LEMMA RemediationScript == ScriptFor(Parent(RemediationCalls), "remediation")
<1>1. /\ RemediationCalls \in Seq(Tools) /\ DOMAIN RemediationCalls = {1, 2}
      /\ RemediationCalls[1] \in MutatingTools /\ RemediationCalls[2] \in ObserveTools
      /\ RemediationCalls[1] # Traces /\ RemediationCalls[2] # Traces
  <2>1. \E change \in MutatingTools, check \in ObserveTools :
          /\ RemediationCalls = <<change, check>>
          /\ change # Traces /\ check # Traces
    BY DEF RemediationCalls, MutatingTools, ObserveTools, Traces
  <2>2. MutatingTools \subseteq Tools /\ ObserveTools \subseteq Tools
    BY DEF Tools
  <2> QED BY <2>1, <2>2
<1>2. "remediation" \in Phases \ {"received"}
  BY PhasesAre
<1>3. \A i \in DOMAIN RemediationCalls :
        /\ Call("parent", RemediationCalls[i]) \in AllCalls
        /\ Allowed(Call("parent", RemediationCalls[i]), "remediation")
        /\ RemediationCalls[i] # Traces
  BY <1>1, <1>2, ParentChanges, ParentReads
<1> QED BY <1>1, <1>3, ParentScript

\* What a subagent may read while services are investigated.
LEMMA SubagentReads ==
  ASSUME NEW agent \in Agents, NEW tool \in Scope(agent) \cap (ObserveTools \cup RepoTools)
  PROVE  /\ Call(agent, tool) \in AllCalls
         /\ Allowed(Call(agent, tool), "service_investigation")
<1>1. /\ tool \in Tools /\ tool \notin MutatingTools
      /\ "service_investigation" \in PhaseAllowlist[tool]
  BY Allowlists, PhasesAre DEF ObserveTools, RepoTools, MutatingTools
<1> QED BY <1>1 DEF Call, AllCalls, Allowed, Permitted

LEMMA InvestigatorCallsAllowed ==
  \A i \in 1..4 : /\ InvestigatorCalls[i] \in AllCalls
                  /\ Allowed(InvestigatorCalls[i], "service_investigation")
                  /\ InvestigatorCalls[i].tool # Traces
<1>1. /\ Call("parent", SpawnTool) \in AllCalls
      /\ Allowed(Call("parent", SpawnTool), "service_investigation")
  <2>1. SpawnTool \in PhaseToolSet("service_investigation")
    BY Allowlists DEF PhaseToolSet
  <2> QED BY <2>1, PhasesAre, ParentPlans
<1>2. \A tool \in {"observe.fetch_service_logs", "repo.get_recent_commits",
                   "repo.get_rollback_targets"} :
        /\ Call("service_investigator", tool) \in AllCalls
        /\ Allowed(Call("service_investigator", tool), "service_investigation")
  <2>1. "service_investigator" \in Agents
    BY DEF Agents
  <2>2. \A tool \in {"observe.fetch_service_logs", "repo.get_recent_commits",
                     "repo.get_rollback_targets"} :
          tool \in Scope("service_investigator") \cap (ObserveTools \cup RepoTools)
    BY DEF Scope, ObserveTools, RepoTools
  <2> QED BY <2>1, <2>2, SubagentReads
<1>3. \A agent, tool : Call(agent, tool).tool = tool
  BY DEF Call
<1>4. SpawnTool # Traces
  BY DEF SpawnTool, Traces
<1>5. \A tool \in {"observe.fetch_service_logs", "repo.get_recent_commits",
                   "repo.get_rollback_targets"} : tool # Traces
  BY DEF Traces
<1>6. /\ InvestigatorCalls[1] = Call("parent", SpawnTool)
      /\ InvestigatorCalls[2] = Call("service_investigator", "observe.fetch_service_logs")
      /\ InvestigatorCalls[3] = Call("service_investigator", "repo.get_recent_commits")
      /\ InvestigatorCalls[4] = Call("service_investigator", "repo.get_rollback_targets")
  BY DEF InvestigatorCalls
<1> QED
  <2> TAKE i \in 1..4
  <2>1. i = 1 \/ i = 2 \/ i = 3 \/ i = 4
    OBVIOUS
  <2> QED BY <2>1, <1>1, <1>2, <1>3, <1>4, <1>5, <1>6

LEMMA InvestigationScript ==
  ASSUME services \in Nat
  PROVE  ScriptFor(InvestigateServices, "service_investigation")
<1> DEFINE n == IF services > 1 THEN 4 * services ELSE 0
<1>1. n \in Nat
  OBVIOUS
<1>2. \A i \in 1..n : ((i - 1) % 4) + 1 \in 1..4
  BY <1>1
<1>3. InvestigateServices = [i \in 1..n |-> InvestigatorCalls[((i - 1) % 4) + 1]]
  BY DEF InvestigateServices
<1> HIDE DEF n
<1>4. InvestigateServices \in Seq(AllCalls)
  BY <1>1, <1>2, <1>3, InvestigatorCallsAllowed
<1> QED BY <1>2, <1>3, <1>4, InvestigatorCallsAllowed DEF ScriptFor

LEMMA ReadinessScript == ScriptFor(BlastAndReadiness, "service_investigation")
<1> DEFINE Radius == {"observe.check_uptime_history", "observe.get_error_rate_timeseries"}
           Readiness == {"repo.get_rollback_targets", "repo.read_ci_pipeline_status",
                         "repo.fetch_test_results"}
<1>1. /\ "blast_radius" \in Agents /\ "remediation_readiness" \in Agents
      /\ Radius \subseteq ObserveTools /\ Readiness \subseteq RepoTools
  BY DEF Agents, ObserveTools, RepoTools
<1>2. Radius \subseteq Scope("blast_radius") /\ Readiness \subseteq Scope("remediation_readiness")
  BY DEF Scope
<1>3. Traces \notin Radius /\ Traces \notin Readiness
  BY DEF Traces
<1> DEFINE Fit(c) == c \in AllCalls /\ Allowed(c, "service_investigation") /\ c.tool # Traces
<1>4. \A tool \in Radius : Fit(Call("blast_radius", tool))
  <2> TAKE tool \in Radius
  <2>1. Call("blast_radius", tool).tool = tool
    BY DEF Call
  <2>2. tool \in Scope("blast_radius") \cap (ObserveTools \cup RepoTools)
    BY <1>1, <1>2
  <2> HIDE DEF Radius
  <2> QED BY <1>1, <1>3, <2>1, <2>2, SubagentReads
<1>5. \A tool \in Readiness : Fit(Call("remediation_readiness", tool))
  <2> TAKE tool \in Readiness
  <2>1. Call("remediation_readiness", tool).tool = tool
    BY DEF Call
  <2>2. tool \in Scope("remediation_readiness") \cap (ObserveTools \cup RepoTools)
    BY <1>1, <1>2
  <2> HIDE DEF Readiness
  <2> QED BY <1>1, <1>3, <2>1, <2>2, SubagentReads
<1> DEFINE b1 == Call("blast_radius", "observe.check_uptime_history")
           b2 == Call("blast_radius", "observe.get_error_rate_timeseries")
           r1 == Call("remediation_readiness", "repo.get_rollback_targets")
           r2 == Call("remediation_readiness", "repo.read_ci_pipeline_status")
           r3 == Call("remediation_readiness", "repo.fetch_test_results")
<1>6. Fit(b1) /\ Fit(b2) /\ Fit(r1) /\ Fit(r2) /\ Fit(r3)
  BY <1>4, <1>5
<1>7. BlastAndReadiness = <<b1, b2, r1, r2, r3>>
  BY DEF BlastAndReadiness
<1> HIDE DEF b1, b2, r1, r2, r3
<1>8. BlastAndReadiness \in Seq(AllCalls) /\ DOMAIN BlastAndReadiness = 1..5
  BY <1>6, <1>7
<1>9. \A i \in 1..5 : Fit(BlastAndReadiness[i])
  <2> TAKE i \in 1..5
  <2>1. i = 1 \/ i = 2 \/ i = 3 \/ i = 4 \/ i = 5
    OBVIOUS
  <2> HIDE DEF Fit
  <2> QED BY <1>6, <1>7, <2>1
<1> QED BY <1>8, <1>9 DEF ScriptFor

LEMMA JoinedScript ==
  ASSUME NEW p, NEW s, NEW t, ScriptFor(s, p), ScriptFor(t, p)
  PROVE  ScriptFor(s \o t, p)
<1>1. s \in Seq(AllCalls) /\ t \in Seq(AllCalls)
  BY DEF ScriptFor
<1>2. s \o t \in Seq(AllCalls)
  BY <1>1, ConcatProperties
<1>3. \A i \in DOMAIN (s \o t) :
        \/ i \in DOMAIN s /\ (s \o t)[i] = s[i]
        \/ i - Len(s) \in DOMAIN t /\ (s \o t)[i] = t[i - Len(s)]
  BY <1>1, ConcatProperties
<1> QED BY <1>2, <1>3 DEF ScriptFor
-----------------------------------------------------------------------------
(* The phase controller.                                                   *)

\* What a step plans fits the phase that it enters.
LEMMA ScriptedFits ==
  ASSUME NEW calls, pending' = Scripted(calls), ScriptFor(calls, phase'),
         phase' # "remediation" \/ calls = <<>> \/ decision' = "approve",
         step' # "correlated"
  PROVE  pending' \in Pending /\ PendingFits'
<1>1. calls \in Seq(AllCalls)
  BY DEF ScriptFor
<1>2. /\ pending' \in Pending /\ pending'.free = 0 /\ pending'.todo = {}
      /\ pending'.script = calls
  BY <1>1, ScriptedFields
<1> QED BY <1>2 DEF PendingFits, ScriptFor

LEMMA NothingFits ==
  ASSUME pending' = NothingPending
  PROVE  pending' \in Pending /\ PendingFits'
  BY EmptyFields DEF PendingFits

LEMMA PlanFits ==
  ASSUME NEW limit \in Nat, pending' \in ModelPlan(limit), phase' \in Planning
  PROVE  pending' \in Pending /\ PendingFits'
<1>1. PICK n \in 1..MaxPlanned : pending' = [NothingPending EXCEPT !.free = n]
  BY DEF ModelPlan
<1>2. /\ pending' \in Pending /\ pending'.free = n /\ pending'.todo = {}
      /\ pending'.script = <<>>
  BY <1>1, EmptyFields DEF Pending
<1> QED BY <1>2 DEF PendingFits

LEMMA OrderedFits ==
  ASSUME NEW p \in Planning, pending' \in ModelOrderedTools(p), phase' = p
  PROVE  pending' \in Pending /\ PendingFits'
<1>1. pending' = [NothingPending EXCEPT !.todo = SlowQueryTools[p]]
  BY DEF ModelOrderedTools
<1>2. /\ pending' \in Pending /\ pending'.free = 0 /\ pending'.todo = SlowQueryTools[p]
      /\ pending'.script = <<>>
  BY <1>1, EmptyFields, SlowQueryAllowed DEF Pending
<1> QED BY <1>2 DEF PendingFits

LEMMA StartReceivedIInv == IInv /\ StartReceived => IInv'
<1> SUFFICES ASSUME IInv, StartReceived PROVE IInv'
  OBVIOUS
<1>1. /\ step = "created" /\ phase = "received" /\ phase' = "received"
      /\ step' \in {"calls", "short"}
      /\ UNCHANGED <<control, status, repeats, facts, verdict, history>>
  BY DEF StartReceived, IInv, PlaceFits
<1>2. pending' \in Pending /\ PendingFits'
  <2>1. CASE pending' \in ModelPlan(MaxPlanned)
    BY <1>1, <2>1, PlanFits DEF Planning
  <2>2. CASE pending' \in ModelOrderedTools("received")
    BY <1>1, <2>2, OrderedFits DEF Planning
  <2>3. CASE pending' = [NothingPending EXCEPT !.free = 1]
    <3>1. /\ pending' \in Pending /\ pending'.free = 1 /\ pending'.todo = {}
          /\ pending'.script = <<>>
      BY <2>3, EmptyFields DEF Pending
    <3> QED BY <1>1, <3>1 DEF PendingFits, Planning
  <2>4. CASE /\ workflow \in {"rollback", "replay"}
             /\ pending' = [free |-> 2, todo |-> {},
                            script |-> IF Live THEN Parent(<<"comms.page_oncall_engineer">>)
                                               ELSE <<>>]
    <3>1. ScriptFor(Parent(<<"comms.page_oncall_engineer">>), "received")
      <4>1. <<"comms.page_oncall_engineer">> \in Seq(CommsTools)
        BY DEF CommsTools
      <4> QED BY <4>1, TellingScript
    <3>2. ScriptFor(pending'.script, "received")
      BY <2>4, <3>1, NoScript
    <3>3. pending'.free = 2 /\ pending'.todo = {}
      BY <2>4
    <3>4. pending' \in Pending
      <4>1. pending'.script \in Seq([agent : Agents, tool : Tools])
        BY <3>2 DEF ScriptFor, AllCalls
      <4>2. pending' = [free |-> 2, todo |-> {}, script |-> pending'.script]
        BY <2>4
      <4> QED BY <4>1, <4>2 DEF Pending
    <3> QED BY <1>1, <3>2, <3>3, <3>4 DEF PendingFits, ScriptFor, Planning
  <2> QED BY <2>1, <2>2, <2>3, <2>4 DEF StartReceived
<1>3. TypeOK'
  BY <1>1, <1>2 DEF IInv, TypeOK, control, verdict, history
<1>4. PlaceFits'
  BY <1>1 DEF IInv, PlaceFits, control, verdict
<1>5. GroundsHold' /\ ChangedLate'
  BY <1>1
  DEF IInv, PlaceFits, GroundsHold, ChangedLate, Untraced, Sound, Approver, Live,
      control, verdict, history
<1> QED BY <1>2, <1>3, <1>4, <1>5 DEF IInv

LEMMA ShortPlanRaisesIInv == IInv /\ ShortPlanRaises => IInv'
<1> SUFFICES ASSUME IInv, ShortPlanRaises PROVE IInv'
  OBVIOUS
<1>1. pending' \in Pending /\ PendingFits'
  BY NothingFits DEF ShortPlanRaises
<1>2. TypeOK'
  BY <1>1
  DEF ShortPlanRaises, IInv, TypeOK, Statuses, Confidences, control, verdict, history
<1>3. PlaceFits'
  BY DEF ShortPlanRaises, IInv, PlaceFits, control, verdict
<1>4. GroundsHold' /\ ChangedLate'
  BY DEF ShortPlanRaises, IInv, PlaceFits, GroundsHold, ChangedLate, Untraced, Sound,
         Approver, Live, control, verdict, history
<1> QED BY <1>1, <1>2, <1>3, <1>4 DEF IInv

LEMMA MarkFailedIInv == IInv /\ MarkFailed => IInv'
<1> SUFFICES ASSUME IInv, MarkFailed PROVE IInv'
  OBVIOUS
<1>1. pending' \in Pending /\ PendingFits'
  BY PendingTypes DEF MarkFailed, IInv, PendingFits, verdict
<1>2. TypeOK'
  BY <1>1 DEF MarkFailed, IInv, TypeOK, Statuses, Confidences, control, verdict, history
<1>3. PlaceFits'
  BY DEF MarkFailed, IInv, PlaceFits, control, verdict
<1>4. GroundsHold' /\ ChangedLate'
  BY DEF MarkFailed, IInv, PlaceFits, GroundsHold, ChangedLate, Untraced, Sound,
         Approver, Live, control, verdict, history
<1> QED BY <1>1, <1>2, <1>3, <1>4 DEF IInv

LEMMA StartTriageIInv == IInv /\ StartTriage => IInv'
<1> SUFFICES ASSUME IInv, StartTriage PROVE IInv'
  OBVIOUS
<1>1. pending' \in Pending /\ PendingFits'
  BY PlanFits, OrderedFits DEF StartTriage, Enter, Planning
<1>2. TypeOK'
  BY <1>1, PhasesAre
  DEF StartTriage, Enter, PhaseDone, IInv, TypeOK, Statuses, Confidences, control,
      verdict, history
<1>3. PlaceFits'
  BY DEF StartTriage, Enter, PhaseDone, IInv, PlaceFits, control, verdict
<1>4. GroundsHold' /\ ChangedLate'
  BY PhasesAre
  DEF StartTriage, Enter, PhaseDone, IInv, PlaceFits, GroundsHold, ChangedLate,
      Untraced, Sound, Approver, Live, control, verdict, history
<1> QED BY <1>1, <1>2, <1>3, <1>4 DEF IInv

LEMMA StartEvidenceCollectionIInv == IInv /\ StartEvidenceCollection => IInv'
<1> SUFFICES ASSUME IInv, StartEvidenceCollection PROVE IInv'
  OBVIOUS
<1>1. pending' \in Pending /\ PendingFits'
  BY PlanFits, OrderedFits DEF StartEvidenceCollection, Enter, Planning
<1>2. TypeOK'
  BY <1>1, PhasesAre
  DEF StartEvidenceCollection, Enter, PhaseDone, IInv, TypeOK, Statuses, Confidences,
      control, verdict, history
<1>3. PlaceFits'
  BY DEF StartEvidenceCollection, Enter, PhaseDone, IInv, PlaceFits, control, verdict
<1>4. GroundsHold' /\ ChangedLate'
  BY PhasesAre
  DEF StartEvidenceCollection, Enter, PhaseDone, IInv, PlaceFits, GroundsHold,
      ChangedLate, Untraced, Sound, Approver, Live, control, verdict, history
<1> QED BY <1>1, <1>2, <1>3, <1>4 DEF IInv
LEMMA DiagnosisTypes ==
  /\ Diagnosis \in {"insufficient", "medium", "high"}
  /\ SlowQueryDiagnosis \in {"insufficient", "high"}
  /\ Reconciled \in {"insufficient", "low", "high"}
  BY DEF Diagnosis, SlowQueryDiagnosis, Reconciled

\* Without confidence there has been no request and no change, and there is none.
LEMMA FinishIInv ==
  ASSUME IInv, FinishInsufficient, ~request, workflow # "watch", confidence' \in Confidences,
         UNCHANGED <<control, repeats, facts, request, decision, history>>
  PROVE  IInv'
<1>1. pending' \in Pending /\ PendingFits'
  <2>1. <<"comms.post_to_slack">> \in Seq(CommsTools)
    BY DEF CommsTools
  <2>2. ScriptFor(Parent(<<"comms.post_to_slack">>), phase')
    BY <2>1, TellingScript DEF FinishInsufficient
  <2> QED BY <2>2, ScriptedFits DEF FinishInsufficient
<1>2. TypeOK'
  BY <1>1, PhasesAre DEF FinishInsufficient, IInv, TypeOK, Statuses, control, history
<1>3. PlaceFits'
  BY DEF FinishInsufficient, PlaceFits, control
<1>4. GroundsHold' /\ ChangedLate'
  BY DEF FinishInsufficient, IInv, GroundsHold, ChangedLate, Approver, control, history
<1> QED BY <1>1, <1>2, <1>3, <1>4 DEF IInv

LEMMA StartServiceInvestigationIInv == IInv /\ StartServiceInvestigation => IInv'
<1> SUFFICES ASSUME IInv, StartServiceInvestigation PROVE IInv'
  OBVIOUS
<1>1. /\ phase = "evidence_collection" /\ step = "calls" /\ ~request
      /\ workflow \in {"rollback", "replay"} /\ confidence' = Diagnosis
      /\ UNCHANGED <<control, repeats, facts, request, decision, history>>
  BY DEF StartServiceInvestigation, PhaseDone, IInv, PlaceFits
<1>2. confidence' \in Confidences
  BY <1>1, DiagnosisTypes DEF Confidences
<1>3. CASE Diagnosis = "insufficient"
  BY <1>1, <1>2, <1>3, FinishIInv DEF StartServiceInvestigation
<1>4. CASE Diagnosis # "insufficient"
  <2>1. /\ phase' = "service_investigation" /\ step' = "calls" /\ status' = status
        /\ pending' = Scripted(InvestigateServices \o BlastAndReadiness)
    BY <1>4 DEF StartServiceInvestigation, Enter
  <2>2. pending' \in Pending /\ PendingFits'
    <3>1. services \in Nat
      BY DEF IInv, TypeOK
    <3>2. ScriptFor(InvestigateServices \o BlastAndReadiness, phase')
      BY <2>1, <3>1, InvestigationScript, ReadinessScript, JoinedScript
    <3> QED BY <2>1, <3>2, ScriptedFits
  <2>3. TypeOK'
    BY <1>1, <1>2, <2>1, <2>2, PhasesAre DEF IInv, TypeOK, control, history
  <2>4. PlaceFits'
    BY <1>1, <2>1 DEF IInv, PlaceFits, control
  <2>5. ~facts.traceFailed
    BY <1>4 DEF Diagnosis
  <2>6. GroundsHold' /\ ChangedLate'
    BY <1>1, <2>1, <2>5
    DEF IInv, GroundsHold, ChangedLate, Untraced, Approver, control, history
  <2> QED BY <2>2, <2>3, <2>4, <2>6 DEF IInv
<1> QED BY <1>3, <1>4

LEMMA StartSlowQueryInvestigationIInv == IInv /\ StartSlowQueryInvestigation => IInv'
<1> SUFFICES ASSUME IInv, StartSlowQueryInvestigation PROVE IInv'
  OBVIOUS
<1>1. pending' \in Pending /\ PendingFits'
  <2>1. services \in Nat
    BY DEF IInv, TypeOK
  <2>2. ScriptFor(InvestigateServices, phase')
    BY <2>1, InvestigationScript DEF StartSlowQueryInvestigation, Enter
  <2> QED BY <2>2, ScriptedFits DEF StartSlowQueryInvestigation, Enter
<1>2. TypeOK'
  BY <1>1, PhasesAre
  DEF StartSlowQueryInvestigation, Enter, PhaseDone, IInv, TypeOK, Statuses,
      Confidences, control, verdict, history
<1>3. PlaceFits'
  BY DEF StartSlowQueryInvestigation, Enter, PhaseDone, IInv, PlaceFits, control,
         verdict
<1>4. GroundsHold' /\ ChangedLate'
  BY PhasesAre
  DEF StartSlowQueryInvestigation, Enter, PhaseDone, IInv, PlaceFits, GroundsHold,
      ChangedLate, Untraced, Sound, Approver, Live, control, verdict, history
<1> QED BY <1>1, <1>2, <1>3, <1>4 DEF IInv

LEMMA CorrelateIInv == IInv /\ Correlate => IInv'
<1> SUFFICES ASSUME IInv, Correlate PROVE IInv'
  OBVIOUS
<1>1. /\ phase = "service_investigation" /\ ~request /\ workflow # "watch"
      /\ pending = NothingPending
      /\ phase' = "correlation" /\ step' = "correlated"
      /\ confidence' = IF workflow = "slow_query" THEN SlowQueryDiagnosis ELSE Reconciled
      /\ UNCHANGED <<control, status, pending, repeats, facts, request, decision, history>>
  BY DEF Correlate, PhaseDone, IInv, PlaceFits
<1>2. pending' \in Pending /\ PendingFits'
  BY <1>1, NothingFits
<1>3. confidence' \in Confidences \ {"none"}
  BY <1>1, DiagnosisTypes DEF Confidences
<1>4. TypeOK'
  BY <1>1, <1>2, <1>3, PhasesAre DEF IInv, TypeOK, control, history
<1>5. PlaceFits'
  BY <1>1 DEF Correlate, PhaseDone, IInv, PlaceFits, control
<1>6. confidence' # "insufficient" =>
        /\ workflow = "rollback" => facts.change
        /\ workflow = "slow_query" => facts.metric /\ (facts.logs \/ facts.db)
  BY <1>1 DEF SlowQueryDiagnosis, Reconciled, Live
<1>7. Untraced
  BY <1>1 DEF IInv, GroundsHold
<1>8. GroundsHold' /\ ChangedLate'
  BY <1>1, <1>3, <1>6, <1>7
     DEF IInv, GroundsHold, ChangedLate, Untraced, Sound, Approver, control, history
<1> QED BY <1>2, <1>4, <1>5, <1>8 DEF IInv

LEMMA StartProposalIInv == IInv /\ StartProposal => IInv'
<1> SUFFICES ASSUME IInv, StartProposal PROVE IInv'
  OBVIOUS
<1>1. /\ step = "correlated" /\ phase = "correlation" /\ ~request /\ workflow # "watch"
      /\ UNCHANGED <<control, repeats, facts, verdict, history>>
  BY DEF StartProposal, IInv, PlaceFits
<1>2. CASE confidence = "insufficient"
  BY <1>1, <1>2, FinishIInv DEF StartProposal, verdict, IInv, TypeOK
<1>3. CASE confidence # "insufficient"
  <2>1. /\ phase' = "response_proposal" /\ step' = "propose"
        /\ UNCHANGED <<status, pending>>
    BY <1>3 DEF StartProposal
  <2>2. pending' \in Pending /\ PendingFits'
    <3>1. pending.free = 0 /\ pending.todo = {} /\ pending.script = <<>>
      BY <1>1, PendingTypes DEF IInv, PendingFits, Planning
    <3> QED BY <1>1, <2>1, <3>1, PendingTypes DEF PendingFits
  <2>3. TypeOK'
    BY <1>1, <2>1, <2>2, PhasesAre DEF IInv, TypeOK, control, verdict, history
  <2>4. PlaceFits'
    BY <1>1, <2>1 DEF IInv, PlaceFits, control, verdict
  <2>5. GroundsHold' /\ ChangedLate'
    BY <1>1, <1>3, <2>1
    DEF IInv, GroundsHold, ChangedLate, Untraced, Sound, Approver, Live, control,
        verdict, history
  <2> QED BY <2>2, <2>3, <2>4, <2>5 DEF IInv
<1> QED BY <1>2, <1>3
LEMMA ProposeIInv == IInv /\ Propose => IInv'
<1> SUFFICES ASSUME IInv, Propose PROVE IInv'
  OBVIOUS
<1>1. /\ step = "propose" /\ phase = "response_proposal" /\ ~request /\ workflow # "watch"
      /\ UNCHANGED <<control, repeats, facts, verdict, history>>
  BY DEF Propose, IInv, PlaceFits
<1>2. CASE ~(Executable /\ SomeApprover)
  BY <1>1, <1>2, FinishIInv DEF Propose, verdict, IInv, TypeOK
<1>3. CASE Executable /\ SomeApprover
  <2>1. step' = "post" /\ UNCHANGED <<phase, status, pending>>
    BY <1>3 DEF Propose
  <2>2. pending' \in Pending /\ PendingFits'
    BY <1>1, <2>1, PendingTypes DEF IInv, PendingFits
  <2>3. TypeOK'
    BY <1>1, <2>1, <2>2 DEF IInv, TypeOK, control, verdict, history
  <2>4. PlaceFits'
    BY <1>1, <2>1 DEF IInv, PlaceFits, control, verdict
  <2>5. GroundsHold' /\ ChangedLate'
    BY <1>1, <1>3, <2>1
    DEF Executable, SomeApprover, IInv, GroundsHold, ChangedLate, Untraced, Sound,
        Approver, Live, control, verdict, history
  <2> QED BY <2>2, <2>3, <2>4, <2>5 DEF IInv
<1> QED BY <1>2, <1>3

LEMMA PostApprovalRequestIInv == IInv /\ PostApprovalRequest => IInv'
<1> SUFFICES ASSUME IInv, PostApprovalRequest PROVE IInv'
  OBVIOUS
<1> DEFINE c == Call("parent", "comms.post_to_slack")
<1>1. /\ step = "post" /\ phase = "response_proposal" /\ ~request /\ workflow # "watch"
      /\ request' = TRUE /\ step' \in {"park", "unnotified"} /\ Invoke(c, TRUE)
      /\ UNCHANGED <<control, phase, status, pending, repeats, confidence, decision>>
  BY DEF PostApprovalRequest, IInv, PlaceFits
<1>2. /\ c \in AllCalls /\ Allowed(c, phase) /\ c.agent = "parent" /\ c.tool # Traces
      /\ c.tool \notin MutatingTools
  <2>1. "comms.post_to_slack" \in CommsTools
    BY DEF CommsTools
  <2>2. c.tool = "comms.post_to_slack" /\ c.agent = "parent"
    BY DEF Call
  <2> QED BY <1>1, <2>1, <2>2, ParentTells DEF Traces, MutatingTools
<1> HIDE DEF c
<1>3. Keeps(c)
  BY <1>1, <1>2, InvokeKeeps DEF IInv
<1>4. pending' \in Pending /\ PendingFits'
  BY <1>1, PendingTypes DEF IInv, PendingFits
<1>5. TypeOK'
  <2>1. changes' \in Nat /\ refused' \subseteq [agent : Agents, tool : Tools]
    BY <1>3 DEF Keeps, IInv, TypeOK
  <2> QED BY <1>1, <1>3, <1>4, <2>1 DEF Keeps, IInv, TypeOK, control
<1>6. PlaceFits'
  BY <1>1 DEF IInv, PlaceFits, control
<1>7. Untraced' /\ Sound'
  BY <1>1, <1>2, <1>3
  DEF Keeps, IInv, GroundsHold, Untraced, Sound, TypeOK, Facts, control
<1>8. facts'.approver \in {"none", Approver'} /\ (Live' => facts'.approver # "none")
  BY <1>1, <1>3 DEF Keeps, IInv, GroundsHold, Approver, Live, control
<1>9. workflow' = "rollback" => facts'.target
  BY <1>1, <1>2, <1>3 DEF Keeps, IInv, GroundsHold, TypeOK, Facts, control
<1>10. GroundsHold'
  BY <1>1, <1>7, <1>8, <1>9 DEF GroundsHold
<1>11. ChangedLate'
  <2>1. changes' = changes
    BY <1>2, <1>3 DEF Keeps, IInv, TypeOK
  <2> QED BY <1>1, <1>2, <1>3, <2>1 DEF Keeps, IInv, ChangedLate
<1> QED BY <1>4, <1>5, <1>6, <1>10, <1>11 DEF IInv

LEMMA FailUnnotifiedRequestIInv == IInv /\ FailUnnotifiedRequest => IInv'
<1> SUFFICES ASSUME IInv, FailUnnotifiedRequest PROVE IInv'
  OBVIOUS
<1>1. pending' \in Pending /\ PendingFits'
  BY PendingTypes DEF FailUnnotifiedRequest, PhaseDone, IInv, PendingFits, verdict
<1>2. TypeOK'
  BY <1>1
  DEF FailUnnotifiedRequest, IInv, TypeOK, Statuses, Confidences, control, verdict,
      history
<1>3. PlaceFits'
  BY DEF FailUnnotifiedRequest, IInv, PlaceFits, control, verdict
<1>4. GroundsHold' /\ ChangedLate'
  BY DEF FailUnnotifiedRequest, IInv, PlaceFits, GroundsHold, ChangedLate, Untraced,
         Sound, Approver, Live, control, verdict, history
<1> QED BY <1>1, <1>2, <1>3, <1>4 DEF IInv

LEMMA ParkForApprovalIInv == IInv /\ ParkForApproval => IInv'
<1> SUFFICES ASSUME IInv, ParkForApproval PROVE IInv'
  OBVIOUS
<1>1. pending' \in Pending /\ PendingFits'
  BY PendingTypes DEF ParkForApproval, PhaseDone, IInv, PendingFits, verdict
<1>2. TypeOK'
  BY <1>1
  DEF ParkForApproval, IInv, TypeOK, Statuses, Confidences, control, verdict, history
<1>3. PlaceFits'
  BY DEF ParkForApproval, IInv, PlaceFits, control, verdict
<1>4. GroundsHold' /\ ChangedLate'
  BY DEF ParkForApproval, IInv, PlaceFits, GroundsHold, ChangedLate, Untraced, Sound,
         Approver, Live, control, verdict, history
<1> QED BY <1>1, <1>2, <1>3, <1>4 DEF IInv

LEMMA DecideIInv == IInv /\ Decide => IInv'
<1> SUFFICES ASSUME IInv, Decide PROVE IInv'
  OBVIOUS
<1>1. pending' \in Pending /\ PendingFits'
  <2>1. PICK d \in {"approve", "reject"} :
          decision' = d /\ pending' = Scripted(Remediate(d))
    BY DEF Decide
  <2>2. CASE d = "approve"
    <3>1. ScriptFor(Remediate(d), phase')
      BY <2>2, RemediationScript DEF Remediate, Decide, Enter
    <3> QED BY <2>1, <2>2, <3>1, ScriptedFits DEF Decide, Enter
  <2>3. CASE d = "reject"
    <3>1. Remediate(d) = <<>>
      BY <2>3 DEF Remediate
    <3> QED BY <2>1, <3>1, NoScript, ScriptedFits DEF Decide, Enter
  <2> QED BY <2>2, <2>3
<1>2. TypeOK'
  BY <1>1, PhasesAre
  DEF Decide, Enter, IInv, TypeOK, Statuses, Confidences, control, verdict, history
<1>3. PlaceFits'
  BY DEF Decide, Enter, IInv, PlaceFits, control, verdict
<1>4. GroundsHold' /\ ChangedLate'
  BY PhasesAre
  DEF Decide, Enter, IInv, PlaceFits, GroundsHold, ChangedLate, Untraced, Sound,
      Approver, Live, control, verdict, history
<1> QED BY <1>1, <1>2, <1>3, <1>4 DEF IInv

LEMMA StartPostMortemIInv == IInv /\ StartPostMortem => IInv'
<1> SUFFICES ASSUME IInv, StartPostMortem PROVE IInv'
  OBVIOUS
<1>1. pending' \in Pending /\ PendingFits'
  <2>1. PostMortemCalls \in Seq(CommsTools)
    BY DEF CommsTools, PostMortemCalls
  <2>2. ScriptFor(Parent(PostMortemCalls), phase')
    BY <2>1, TellingScript DEF StartPostMortem, Enter
  <2> QED BY <2>2, ScriptedFits DEF StartPostMortem, Enter
<1>2. TypeOK'
  BY <1>1, PhasesAre
  DEF StartPostMortem, PhaseDone, IInv, TypeOK, Statuses, Confidences, control, verdict,
      history
<1>3. PlaceFits'
  BY DEF StartPostMortem, PhaseDone, IInv, PlaceFits, control, verdict
<1>4. GroundsHold' /\ ChangedLate'
  BY PhasesAre
  DEF StartPostMortem, PhaseDone, IInv, PlaceFits, GroundsHold, ChangedLate, Untraced,
      Sound, Approver, Live, control, verdict, history
<1> QED BY <1>1, <1>2, <1>3, <1>4 DEF IInv

LEMMA CompleteIInv == IInv /\ Complete => IInv'
<1> SUFFICES ASSUME IInv, Complete PROVE IInv'
  OBVIOUS
<1>1. pending' \in Pending /\ PendingFits'
  BY PendingTypes DEF Complete, PhaseDone, IInv, PendingFits, verdict
<1>2. TypeOK'
  BY <1>1
  DEF Complete, PhaseDone, IInv, TypeOK, Statuses, Confidences, control, verdict,
      history
<1>3. PlaceFits'
  BY DEF Complete, PhaseDone, IInv, PlaceFits, control, verdict
<1>4. GroundsHold' /\ ChangedLate'
  BY DEF Complete, PhaseDone, IInv, PlaceFits, GroundsHold, ChangedLate, Untraced,
         Sound, Approver, Live, control, verdict, history
<1> QED BY <1>1, <1>2, <1>3, <1>4 DEF IInv

LEMMA ReturnInsufficientIInv == IInv /\ ReturnInsufficient => IInv'
<1> SUFFICES ASSUME IInv, ReturnInsufficient PROVE IInv'
  OBVIOUS
<1>1. pending' \in Pending /\ PendingFits'
  BY PendingTypes DEF ReturnInsufficient, PhaseDone, IInv, PendingFits, verdict
<1>2. TypeOK'
  BY <1>1
  DEF ReturnInsufficient, IInv, TypeOK, Statuses, Confidences, control, verdict,
      history
<1>3. PlaceFits'
  BY DEF ReturnInsufficient, IInv, PlaceFits, control, verdict
<1>4. GroundsHold' /\ ChangedLate'
  BY DEF ReturnInsufficient, IInv, PlaceFits, GroundsHold, ChangedLate, Untraced, Sound,
         Approver, Live, control, verdict, history
<1> QED BY <1>1, <1>2, <1>3, <1>4 DEF IInv

LEMMA WatchCorrelatesIInv == IInv /\ WatchCorrelates => IInv'
<1> SUFFICES ASSUME IInv, WatchCorrelates PROVE IInv'
  OBVIOUS
<1>1. pending' \in Pending /\ PendingFits'
  <2>1. ScriptFor(Parent(<<"observe.check_uptime_history">>), "correlation")
    <3>1. /\ <<"observe.check_uptime_history">> \in Seq(Tools)
          /\ "observe.check_uptime_history" \in ObserveTools
          /\ "observe.check_uptime_history" # Traces
      BY DEF Tools, ObserveTools, Traces
    <3>2. "correlation" \in Phases \ {"received"}
      BY PhasesAre
    <3>3. /\ Call("parent", "observe.check_uptime_history") \in AllCalls
          /\ Allowed(Call("parent", "observe.check_uptime_history"), "correlation")
      BY <3>1, <3>2, ParentReads
    <3>4. \A i \in DOMAIN <<"observe.check_uptime_history">> :
            <<"observe.check_uptime_history">>[i] = "observe.check_uptime_history"
      OBVIOUS
    <3> QED BY <3>1, <3>3, <3>4, ParentScript
  <2> QED BY <2>1, ScriptedFits DEF WatchCorrelates, Enter
<1>2. TypeOK'
  BY <1>1, PhasesAre
  DEF WatchCorrelates, Enter, PhaseDone, IInv, TypeOK, Statuses, Confidences, control,
      verdict, history
<1>3. PlaceFits'
  BY DEF WatchCorrelates, Enter, PhaseDone, IInv, PlaceFits, control, verdict
<1>4. GroundsHold' /\ ChangedLate'
  BY PhasesAre
  DEF WatchCorrelates, Enter, PhaseDone, IInv, PlaceFits, GroundsHold, ChangedLate,
      Untraced, Sound, Approver, Live, control, verdict, history
<1> QED BY <1>1, <1>2, <1>3, <1>4 DEF IInv

LEMMA WatchUpdatesIInv == IInv /\ WatchUpdates => IInv'
<1> SUFFICES ASSUME IInv, WatchUpdates PROVE IInv'
  OBVIOUS
<1>1. pending' \in Pending /\ PendingFits'
  <2>1. <<"comms.post_to_slack">> \in Seq(CommsTools)
    BY DEF CommsTools
  <2>2. ScriptFor(Parent(<<"comms.post_to_slack">>), phase')
    BY <2>1, TellingScript DEF WatchUpdates, Enter
  <2> QED BY <2>2, ScriptedFits DEF WatchUpdates, Enter
<1>2. TypeOK'
  BY <1>1, PhasesAre
  DEF WatchUpdates, Enter, PhaseDone, IInv, TypeOK, Statuses, Confidences, control,
      verdict, history
<1>3. PlaceFits'
  BY DEF WatchUpdates, Enter, PhaseDone, IInv, PlaceFits, control, verdict
<1>4. GroundsHold' /\ ChangedLate'
  BY PhasesAre
  DEF WatchUpdates, Enter, PhaseDone, IInv, PlaceFits, GroundsHold, ChangedLate,
      Untraced, Sound, Approver, Live, control, verdict, history
<1> QED BY <1>1, <1>2, <1>3, <1>4 DEF IInv

LEMMA WatchEndsIInv == IInv /\ WatchEnds => IInv'
<1> SUFFICES ASSUME IInv, WatchEnds PROVE IInv'
  OBVIOUS
<1>1. pending' \in Pending /\ PendingFits'
  <2>1. <<"comms.update_runbook">> \in Seq(CommsTools)
    BY DEF CommsTools
  <2>2. ScriptFor(Parent(<<"comms.update_runbook">>), phase')
    BY <2>1, TellingScript DEF WatchEnds, Enter
  <2> QED BY <2>2, ScriptedFits DEF WatchEnds, Enter
<1>2. TypeOK'
  BY <1>1, PhasesAre
  DEF WatchEnds, Enter, PhaseDone, IInv, TypeOK, Statuses, Confidences, control,
      verdict, history
<1>3. PlaceFits'
  BY DEF WatchEnds, Enter, PhaseDone, IInv, PlaceFits, control, verdict
<1>4. GroundsHold' /\ ChangedLate'
  BY PhasesAre
  DEF WatchEnds, Enter, PhaseDone, IInv, PlaceFits, GroundsHold, ChangedLate, Untraced,
      Sound, Approver, Live, control, verdict, history
<1> QED BY <1>1, <1>2, <1>3, <1>4 DEF IInv
-----------------------------------------------------------------------------
(* The theorems.                                                           *)

LEMMA InitIInv == Init => IInv
<1> SUFFICES ASSUME Init PROVE IInv
  OBVIOUS
<1>1. facts \in Facts /\ facts.approver = "none"
  BY DEF Init, NoFacts, Facts, Scopes
<1>2. pending \in Pending /\ PendingFits
  BY EmptyFields DEF Init, PendingFits
<1>3. TypeOK
  <2>1. repeats \in 0..MaxRepeats
    BY DEF Init
  <2>2. changes \in Nat /\ refused \subseteq [agent : Agents, tool : Tools]
    BY DEF Init
  <2>3. /\ phase \in Phases /\ status \in Statuses /\ confidence \in Confidences
        /\ request \in BOOLEAN /\ decision \in {"none", "approve", "reject"}
    BY PhasesAre DEF Init, Statuses, Confidences
  <2> QED BY <1>1, <1>2, <2>1, <2>2, <2>3 DEF Init, TypeOK
<1>4. PlaceFits /\ GroundsHold /\ ChangedLate
  BY <1>1 DEF Init, PlaceFits, GroundsHold, ChangedLate
<1> QED BY <1>2, <1>3, <1>4 DEF IInv

LEMMA NextIInv == IInv /\ [Next]_vars => IInv'
<1> SUFFICES ASSUME IInv, [Next]_vars PROVE IInv'
  OBVIOUS
<1>1. CASE CallStep
  BY <1>1, PlannedCallIInv, RequiredCallIInv, RepeatedCallIInv, ScriptedCallIInv
  DEF CallStep
<1>2. CASE PhaseStep
  BY <1>2, StartReceivedIInv, ShortPlanRaisesIInv, MarkFailedIInv, StartTriageIInv,
     StartEvidenceCollectionIInv, StartServiceInvestigationIInv,
     StartSlowQueryInvestigationIInv, CorrelateIInv, StartProposalIInv, ProposeIInv,
     PostApprovalRequestIInv, FailUnnotifiedRequestIInv, ParkForApprovalIInv,
     StartPostMortemIInv, CompleteIInv, ReturnInsufficientIInv,
     WatchCorrelatesIInv, WatchUpdatesIInv, WatchEndsIInv DEF PhaseStep
<1>3. CASE Decide
  BY <1>3, DecideIInv
<1>4. CASE UNCHANGED vars
  BY <1>4 DEF vars, IInv, TypeOK, PendingFits, PlaceFits, GroundsHold, ChangedLate,
              Untraced, Sound, Approver, Live, Allowed
<1> QED BY <1>1, <1>2, <1>3, <1>4 DEF Next

\* Every state that the steps of the code reach satisfies the inductive invariant.
THEOREM Invariance == Spec => []IInv
<1>1. Init => IInv
  BY InitIInv
<1>2. IInv /\ [Next]_vars => IInv'
  BY NextIInv
<1> QED BY <1>1, <1>2, PTL DEF Spec

\* The variables of a run have their types, whatever is planned and returned.
THEOREM TypeCorrectness == Spec => []TypeOK
<1>1. IInv => TypeOK
  BY DEF IInv
<1> QED BY <1>1, Invariance, PTL

\* SentinelOrchestrator asks for an approval only on the evidence that the diagnosis
\* of its workflow looks at, and no later call takes that evidence away.
THEOREM RequestsAreGrounded == Spec => []RequestIsGrounded
<1>1. IInv => RequestIsGrounded
  BY DEF IInv, PlaceFits, GroundsHold, Sound, Untraced, RequestIsGrounded
<1> QED BY <1>1, Invariance, PTL

\* The first approver found for a live incident (_collect_artifacts_from_result)
\* is one of that incident, however many on-call tools a model plans.
THEOREM ApproversAreOnIncident == Spec => []ApproverIsOnIncident
<1>1. IInv => ApproverIsOnIncident
  BY DEF IInv, GroundsHold, Approver, ApproverIsOnIncident
<1> QED BY <1>1, Invariance, PTL

\* ToolExecutor.invoke never has to refuse a call of the phase controller, of a
\* model's plan or of a subagent, and a change of production follows an approval.
THEOREM NoCallIsRefused == Spec => []CallsAreAllowed
<1>1. IInv => CallsAreAllowed
  BY DEF IInv, ChangedLate, CallsAreAllowed
<1> QED BY <1>1, Invariance, PTL

-----------------------------------------------------------------------------
(* The run implements the life cycle that an investigation promises.       *)

\* A controller that is still at work has the record running, the decision comes
\* with remediation and not before, and a change that is still to be made is the
\* first call of its script and the first change of the run.
CourseFits ==
  /\ step \notin {"close", "returned"} => status = "running"
  /\ phase \notin {"remediation", "post_mortem"} => decision = "none"
  /\ phase = "remediation" =>
       \A i \in DOMAIN pending.script :
         pending.script[i].tool \in MutatingTools => i = 1 /\ changes = 0

LifeInv == IInv /\ CourseFits

LEMMA InitLifecycle == Init => Lifecycle!Init /\ CourseFits
  BY DEF Init, Lifecycle!Init, CourseFits, NothingPending

\* The phases that follow a phase.
LEMMA LaterPhases ==
  /\ phase = "received" => "triage" \in Lifecycle!Later
  /\ phase = "triage" => "evidence_collection" \in Lifecycle!Later
  /\ phase = "evidence_collection" =>
       {"service_investigation", "correlation", "response_proposal"} \subseteq Lifecycle!Later
  /\ phase = "service_investigation" => "correlation" \in Lifecycle!Later
  /\ phase = "correlation" => "response_proposal" \in Lifecycle!Later
  /\ phase = "response_proposal" => "post_mortem" \in Lifecycle!Later
<1>1. Lifecycle!Later = {p \in Phases : PhaseNumber[p] > PhaseNumber[phase]}
  BY DEF Lifecycle!Later
<1>2. /\ PhaseNumber["received"] = 1 /\ PhaseNumber["triage"] = 2
      /\ PhaseNumber["evidence_collection"] = 3 /\ PhaseNumber["service_investigation"] = 4
      /\ PhaseNumber["correlation"] = 5 /\ PhaseNumber["response_proposal"] = 6
      /\ PhaseNumber["remediation"] = 7 /\ PhaseNumber["post_mortem"] = 8
  BY DEF PhaseNumber
<1> QED BY <1>1, <1>2, PhasesAre

\* What a step of the run is to the reader of the record, and what it leaves.
CourseStep == [Lifecycle!Next]_(Lifecycle!vars) /\ CourseFits'

\* A call changes production in remediation only.
LEMMA CallChanges ==
  ASSUME TypeOK, NEW c, NEW named, Invoke(c, named)
  PROVE  \/ changes' = changes
         \/ phase = "remediation" /\ c.tool \in MutatingTools /\ changes' = changes + 1
<1>1. CASE UNCHANGED changes
  BY <1>1
<1>2. CASE /\ phase \in PhaseAllowlist[c.tool]
           /\ changes' = changes + (IF c.tool \in MutatingTools THEN 1 ELSE 0)
  <2>1. CASE c.tool \in MutatingTools
    <3>1. phase = "remediation"
      BY <1>2, <2>1, MutationPhase
    <3> QED BY <1>2, <2>1, <3>1
  <2>2. CASE c.tool \notin MutatingTools
    BY <1>2, <2>2 DEF TypeOK
  <2> QED BY <2>1, <2>2
<1> QED BY <1>1, <1>2 DEF Invoke, Permitted

\* Calls of a plan, before any remediation, are of no interest to the reader.
LEMMA PlanningCallCourse ==
  ASSUME LifeInv, NEW c, NEW named, Invoke(c, named), phase \in Planning,
         UNCHANGED <<phase, status, step, verdict>>
  PROVE  CourseStep
<1>1. changes' = changes
  BY CallChanges DEF LifeInv, IInv, Planning
<1>2. UNCHANGED <<phase, status, step, request, decision>>
  BY DEF verdict
<1>3. UNCHANGED Lifecycle!vars
  BY <1>1, <1>2 DEF Lifecycle!vars
<1>4. CourseFits'
  BY <1>1, <1>2 DEF CourseFits, LifeInv, Planning
<1> QED BY <1>3, <1>4 DEF CourseStep

LEMMA PlannedCallCourse == LifeInv /\ PlannedCall => CourseStep
<1> SUFFICES ASSUME LifeInv, PlannedCall PROVE CourseStep
  OBVIOUS
<1>1. phase \in Planning
  BY DEF PlannedCall, LifeInv, IInv, PendingFits
<1>2. PICK tool \in Plannable(phase) : Invoke(Call("parent", tool), FALSE)
  BY DEF PlannedCall
<1> QED BY <1>1, <1>2, PlanningCallCourse DEF PlannedCall

LEMMA RequiredCallCourse == LifeInv /\ RequiredCall => CourseStep
<1> SUFFICES ASSUME LifeInv, RequiredCall PROVE CourseStep
  OBVIOUS
<1>1. phase \in Planning
  BY DEF RequiredCall, LifeInv, IInv, PendingFits
<1>2. PICK tool \in pending.todo : Invoke(Call("parent", tool), TRUE)
  BY DEF RequiredCall
<1> QED BY <1>1, <1>2, PlanningCallCourse DEF RequiredCall

LEMMA RepeatedCallCourse == LifeInv /\ RepeatedCall => CourseStep
<1> SUFFICES ASSUME LifeInv, RepeatedCall PROVE CourseStep
  OBVIOUS
<1>1. phase \in Planning
  BY DEF RepeatedCall, SlowQueryTools, Planning
<1>2. PICK tool \in SlowQueryTools[phase] \ pending.todo : Invoke(Call("parent", tool), TRUE)
  BY DEF RepeatedCall
<1> QED BY <1>1, <1>2, PlanningCallCourse DEF RepeatedCall

\* The change of a remediation is the first call of its script: what is left
\* after it, or after any other call, changes nothing.
LEMMA ScriptedCallCourse == LifeInv /\ ScriptedCall => CourseStep
<1> SUFFICES ASSUME LifeInv, ScriptedCall PROVE CourseStep
  OBVIOUS
<1> DEFINE c == Head(pending.script)
<1>1. pending.script \in Seq(AllCalls) /\ pending.script # <<>>
  BY PendingTypes DEF ScriptedCall, LifeInv
<1>2. /\ 1 \in DOMAIN pending.script /\ c = pending.script[1]
      /\ Tail(pending.script) \in Seq(AllCalls)
      /\ \A i \in DOMAIN Tail(pending.script) :
           i \in Nat \ {0} /\ i + 1 \in DOMAIN pending.script
             /\ Tail(pending.script)[i] = pending.script[i + 1]
  BY <1>1, HeadTailProperties
<1>3. /\ Invoke(c, TRUE) /\ pending'.script = Tail(pending.script)
      /\ UNCHANGED <<phase, status, step, request, decision>>
  BY PendingTypes DEF ScriptedCall, verdict, LifeInv, Pending
<1>4. TypeOK
  BY DEF LifeInv, IInv
<1> HIDE DEF c
<1>5. \/ changes' = changes
      \/ phase = "remediation" /\ c.tool \in MutatingTools /\ changes' = changes + 1
  BY <1>3, <1>4, CallChanges
<1>6. phase = "remediation" =>
        \A i \in DOMAIN pending'.script : pending'.script[i].tool \notin MutatingTools
  BY <1>2, <1>3 DEF LifeInv, CourseFits
<1>7. CourseFits'
  BY <1>3, <1>6 DEF LifeInv, CourseFits
<1>8. CASE changes' = changes
  BY <1>3, <1>7, <1>8 DEF CourseStep, Lifecycle!vars
<1>9. CASE phase = "remediation" /\ c.tool \in MutatingTools /\ changes' = changes + 1
  <2>1. decision = "approve"
    BY <1>1, <1>9 DEF LifeInv, IInv, PendingFits
  <2>2. status = "running"
    BY <1>9 DEF ScriptedCall, LifeInv, IInv, PlaceFits, CourseFits
  <2>3. changes = 0
    BY <1>2, <1>9 DEF LifeInv, CourseFits
  <2>4. Lifecycle!Change
    BY <1>3, <1>9, <2>1, <2>2, <2>3 DEF Lifecycle!Change
  <2> QED BY <1>7, <2>4 DEF CourseStep, Lifecycle!Next
<1> QED BY <1>5, <1>8, <1>9

\* The controller enters a later phase, of its own accord.
LEMMA AdvanceCourse ==
  ASSUME LifeInv, step \in {"calls", "correlated"}, ~request,
         phase \notin {"remediation", "post_mortem"},
         phase' \in Lifecycle!Later \ {"remediation"},
         UNCHANGED <<status, request, decision, changes>>
  PROVE  CourseStep
<1>1. status = "running" /\ decision = "none"
  BY DEF LifeInv, CourseFits
<1>2. Lifecycle!Advance
  BY <1>1 DEF Lifecycle!Advance
<1>3. CourseFits'
  BY <1>1 DEF CourseFits
<1> QED BY <1>2, <1>3 DEF CourseStep, Lifecycle!Next

\* _finish_insufficient_confidence, from wherever it is called.
LEMMA FinishCourse ==
  ASSUME LifeInv, FinishInsufficient, step \in {"calls", "correlated", "propose"}, ~request,
         phase = "response_proposal" \/ "response_proposal" \in Lifecycle!Later,
         phase \notin {"remediation", "post_mortem"},
         UNCHANGED <<request, decision, changes>>
  PROVE  CourseStep
<1>1. status = "running" /\ decision = "none"
  BY DEF LifeInv, CourseFits
<1>2. /\ phase' = "response_proposal" /\ status' = "insufficient_confidence"
      /\ step' = "close"
  BY DEF FinishInsufficient
<1>3. Lifecycle!LackConfidence
  BY <1>1, <1>2 DEF Lifecycle!LackConfidence
<1>4. CourseFits'
  BY <1>1, <1>2 DEF CourseFits
<1> QED BY <1>3, <1>4 DEF CourseStep, Lifecycle!Next

LEMMA StartReceivedCourse == LifeInv /\ StartReceived => CourseStep
<1> SUFFICES ASSUME LifeInv, StartReceived PROVE CourseStep
  OBVIOUS
<1>1. /\ step = "created" /\ phase = "received"
      /\ UNCHANGED <<phase, status, request, decision, changes>>
  BY DEF StartReceived, verdict, history, LifeInv, IInv, PlaceFits
<1>2. CourseFits'
  BY <1>1 DEF LifeInv, CourseFits
<1> QED BY <1>1, <1>2 DEF CourseStep, Lifecycle!vars

LEMMA ShortPlanRaisesCourse == LifeInv /\ ShortPlanRaises => CourseStep
<1> SUFFICES ASSUME LifeInv, ShortPlanRaises PROVE CourseStep
  OBVIOUS
<1>1. /\ step = "short" /\ phase = "received"
      /\ UNCHANGED <<phase, status, request, decision, changes>>
  BY DEF ShortPlanRaises, verdict, history, LifeInv, IInv, PlaceFits
<1>2. CourseFits'
  BY <1>1 DEF LifeInv, CourseFits
<1> QED BY <1>1, <1>2 DEF CourseStep, Lifecycle!vars

LEMMA MarkFailedCourse == LifeInv /\ MarkFailed => CourseStep
<1> SUFFICES ASSUME LifeInv, MarkFailed PROVE CourseStep
  OBVIOUS
<1>1. /\ phase = "received" /\ status = "running" /\ ~request /\ decision = "none"
      /\ step' = "returned" /\ UNCHANGED <<phase, request, decision, changes>>
  BY DEF MarkFailed, verdict, history, LifeInv, IInv, PlaceFits, CourseFits
<1>2. CourseFits'
  BY <1>1 DEF CourseFits
<1>3. request = FALSE
  BY <1>1 DEF LifeInv, IInv, TypeOK
<1>4. CASE Live
  BY <1>1, <1>2, <1>3, <1>4
  DEF MarkFailed, CourseStep, Lifecycle!Next, Lifecycle!Fail
<1>5. CASE ~Live
  BY <1>1, <1>2, <1>5 DEF MarkFailed, CourseStep, Lifecycle!vars
<1> QED BY <1>4, <1>5

LEMMA StartTriageCourse == LifeInv /\ StartTriage => CourseStep
<1> SUFFICES ASSUME LifeInv, StartTriage PROVE CourseStep
  OBVIOUS
<1>1. /\ step = "calls" /\ phase = "received" /\ ~request
      /\ UNCHANGED <<status, request, decision, changes>>
  BY DEF StartTriage, PhaseDone, verdict, history, LifeInv, IInv, PlaceFits
<1> QED BY <1>1, LaterPhases, AdvanceCourse DEF StartTriage, Enter

LEMMA StartEvidenceCollectionCourse == LifeInv /\ StartEvidenceCollection => CourseStep
<1> SUFFICES ASSUME LifeInv, StartEvidenceCollection PROVE CourseStep
  OBVIOUS
<1>1. /\ step = "calls" /\ phase = "triage" /\ ~request
      /\ UNCHANGED <<status, request, decision, changes>>
  BY DEF StartEvidenceCollection, PhaseDone, verdict, history, LifeInv, IInv, PlaceFits
<1> QED BY <1>1, LaterPhases, AdvanceCourse DEF StartEvidenceCollection, Enter

LEMMA StartServiceInvestigationCourse == LifeInv /\ StartServiceInvestigation => CourseStep
<1> SUFFICES ASSUME LifeInv, StartServiceInvestigation PROVE CourseStep
  OBVIOUS
<1>1. /\ step = "calls" /\ phase = "evidence_collection" /\ ~request
      /\ UNCHANGED <<request, decision, changes>>
  BY DEF StartServiceInvestigation, PhaseDone, history, LifeInv, IInv, PlaceFits
<1>2. CASE Diagnosis = "insufficient"
  BY <1>1, <1>2, LaterPhases, FinishCourse DEF StartServiceInvestigation
<1>3. CASE Diagnosis # "insufficient"
  BY <1>1, <1>3, LaterPhases, AdvanceCourse DEF StartServiceInvestigation, Enter
<1> QED BY <1>2, <1>3

LEMMA StartSlowQueryInvestigationCourse == LifeInv /\ StartSlowQueryInvestigation => CourseStep
<1> SUFFICES ASSUME LifeInv, StartSlowQueryInvestigation PROVE CourseStep
  OBVIOUS
<1>1. /\ step = "calls" /\ phase = "evidence_collection" /\ ~request
      /\ UNCHANGED <<status, request, decision, changes>>
  BY DEF StartSlowQueryInvestigation, PhaseDone, verdict, history, LifeInv, IInv, PlaceFits
<1> QED BY <1>1, LaterPhases, AdvanceCourse DEF StartSlowQueryInvestigation, Enter

LEMMA CorrelateCourse == LifeInv /\ Correlate => CourseStep
<1> SUFFICES ASSUME LifeInv, Correlate PROVE CourseStep
  OBVIOUS
<1>1. /\ step = "calls" /\ phase = "service_investigation" /\ ~request
      /\ UNCHANGED <<status, request, decision, changes>>
  BY DEF Correlate, PhaseDone, history, LifeInv, IInv, PlaceFits
<1> QED BY <1>1, LaterPhases, AdvanceCourse DEF Correlate

LEMMA StartProposalCourse == LifeInv /\ StartProposal => CourseStep
<1> SUFFICES ASSUME LifeInv, StartProposal PROVE CourseStep
  OBVIOUS
<1>1. /\ step = "correlated" /\ phase = "correlation" /\ ~request
      /\ UNCHANGED <<request, decision, changes>>
  BY DEF StartProposal, verdict, history, LifeInv, IInv, PlaceFits
<1>2. CASE confidence = "insufficient"
  BY <1>1, <1>2, LaterPhases, FinishCourse DEF StartProposal
<1>3. CASE confidence # "insufficient"
  BY <1>1, <1>3, LaterPhases, AdvanceCourse DEF StartProposal
<1> QED BY <1>2, <1>3

LEMMA ProposeCourse == LifeInv /\ Propose => CourseStep
<1> SUFFICES ASSUME LifeInv, Propose PROVE CourseStep
  OBVIOUS
<1>1. /\ step = "propose" /\ phase = "response_proposal" /\ ~request
      /\ UNCHANGED <<request, decision, changes>>
  BY DEF Propose, verdict, history, LifeInv, IInv, PlaceFits
<1>2. CASE Executable /\ SomeApprover
  <2>1. step' = "post" /\ UNCHANGED <<phase, status>>
    BY <1>2 DEF Propose
  <2>2. CourseFits'
    BY <1>1, <2>1 DEF LifeInv, CourseFits
  <2> QED BY <1>1, <2>1, <2>2 DEF CourseStep, Lifecycle!vars
<1>3. CASE ~(Executable /\ SomeApprover)
  BY <1>1, <1>3, FinishCourse DEF Propose
<1> QED BY <1>2, <1>3

LEMMA PostApprovalRequestCourse == LifeInv /\ PostApprovalRequest => CourseStep
<1> SUFFICES ASSUME LifeInv, PostApprovalRequest PROVE CourseStep
  OBVIOUS
<1>1. /\ step = "post" /\ phase = "response_proposal" /\ ~request /\ status = "running"
      /\ request' = TRUE /\ Invoke(Call("parent", "comms.post_to_slack"), TRUE)
      /\ UNCHANGED <<phase, status, decision>>
  BY DEF PostApprovalRequest, LifeInv, IInv, PlaceFits, CourseFits
<1>2. TypeOK
  BY DEF LifeInv, IInv
<1>3. changes' = changes
  BY <1>1, <1>2, CallChanges
<1>4. CourseFits'
  BY <1>1 DEF LifeInv, CourseFits
<1>5. Lifecycle!Ask
  BY <1>1, <1>3 DEF Lifecycle!Ask
<1> QED BY <1>4, <1>5 DEF CourseStep, Lifecycle!Next

LEMMA FailUnnotifiedRequestCourse == LifeInv /\ FailUnnotifiedRequest => CourseStep
<1> SUFFICES ASSUME LifeInv, FailUnnotifiedRequest PROVE CourseStep
  OBVIOUS
<1>1. /\ step = "unnotified" /\ phase = "response_proposal" /\ status = "running"
      /\ decision = "none" /\ status' = "failed" /\ request' = FALSE /\ step' = "returned"
      /\ UNCHANGED <<phase, decision, changes>>
  BY DEF FailUnnotifiedRequest, history, LifeInv, IInv, PlaceFits, CourseFits
<1>2. CourseFits'
  BY <1>1 DEF CourseFits
<1> QED BY <1>1, <1>2 DEF CourseStep, Lifecycle!Next, Lifecycle!Fail

LEMMA ParkForApprovalCourse == LifeInv /\ ParkForApproval => CourseStep
<1> SUFFICES ASSUME LifeInv, ParkForApproval PROVE CourseStep
  OBVIOUS
<1>1. /\ phase = "response_proposal" /\ status = "running" /\ request /\ decision = "none"
      /\ status' = "waiting_for_approval" /\ step' = "returned"
      /\ UNCHANGED <<phase, request, decision, changes>>
  BY DEF ParkForApproval, verdict, history, LifeInv, IInv, PlaceFits, CourseFits
<1>2. CourseFits'
  BY <1>1 DEF CourseFits
<1> QED BY <1>1, <1>2 DEF CourseStep, Lifecycle!Next, Lifecycle!Wait

\* The decision brings the one script that may begin with a change, and nothing
\* was changed before it.
LEMMA DecideCourse == LifeInv /\ Decide => CourseStep
<1> SUFFICES ASSUME LifeInv, Decide PROVE CourseStep
  OBVIOUS
<1>1. /\ status = "waiting_for_approval" /\ phase = "response_proposal" /\ decision = "none"
      /\ status' = "running" /\ phase' = "remediation" /\ step' = "calls"
      /\ UNCHANGED <<request, changes>>
  BY DEF Decide, Enter, history, LifeInv, IInv, PlaceFits, CourseFits
<1>2. changes = 0
  BY <1>1 DEF LifeInv, IInv, TypeOK, ChangedLate
<1>3. PICK d \in {"approve", "reject"} : decision' = d /\ pending' = Scripted(Remediate(d))
  BY DEF Decide
<1>4. pending'.script = Remediate(d)
  BY <1>3 DEF Scripted, NothingPending
<1>5. \A i \in DOMAIN Remediate(d) : Remediate(d)[i].tool \in MutatingTools => i = 1
  <2>1. CASE d = "approve"
    <3>1. Remediate(d) = Parent(RemediationCalls)
      BY <2>1 DEF Remediate
    <3>2. /\ DOMAIN RemediationCalls = {1, 2}
          /\ RemediationCalls[2] \in {"observe.query_metrics_range",
                                      "observe.get_error_rate_timeseries"}
      BY DEF RemediationCalls
    <3>3. Remediate(d)[2].tool \notin MutatingTools /\ DOMAIN Remediate(d) = {1, 2}
      BY <3>1, <3>2 DEF Parent, Call, MutatingTools
    <3> QED BY <3>3
  <2>2. CASE d = "reject"
    BY <2>2 DEF Remediate
  <2> QED BY <2>1, <2>2
<1>6. CourseFits'
  BY <1>1, <1>2, <1>4, <1>5 DEF CourseFits
<1>7. Lifecycle!Decide
  BY <1>1, <1>3 DEF Lifecycle!Decide
<1> QED BY <1>6, <1>7 DEF CourseStep, Lifecycle!Next

LEMMA StartPostMortemCourse == LifeInv /\ StartPostMortem => CourseStep
<1> SUFFICES ASSUME LifeInv, StartPostMortem PROVE CourseStep
  OBVIOUS
<1>1. /\ status = "running" /\ phase = "remediation" /\ phase' = "post_mortem"
      /\ UNCHANGED <<status, request, decision, changes>>
  BY DEF StartPostMortem, PhaseDone, verdict, history, LifeInv, CourseFits
<1>2. CourseFits'
  BY <1>1 DEF CourseFits
<1> QED BY <1>1, <1>2 DEF CourseStep, Lifecycle!Next, Lifecycle!Close

LEMMA CompleteCourse == LifeInv /\ Complete => CourseStep
<1> SUFFICES ASSUME LifeInv, Complete PROVE CourseStep
  OBVIOUS
<1>1. /\ status = "running" /\ phase = "post_mortem" /\ status' = "completed"
      /\ step' = "returned" /\ UNCHANGED <<phase, request, decision, changes>>
  BY DEF Complete, PhaseDone, verdict, history, LifeInv, CourseFits
<1>2. CourseFits'
  BY <1>1 DEF CourseFits
<1> QED BY <1>1, <1>2 DEF CourseStep, Lifecycle!Next, Lifecycle!Complete

LEMMA ReturnInsufficientCourse == LifeInv /\ ReturnInsufficient => CourseStep
<1> SUFFICES ASSUME LifeInv, ReturnInsufficient PROVE CourseStep
  OBVIOUS
<1>1. /\ step' = "returned" /\ UNCHANGED <<phase, status, pending, request, decision, changes>>
  BY DEF ReturnInsufficient, verdict, history
<1>2. CourseFits'
  BY <1>1 DEF LifeInv, CourseFits
<1> QED BY <1>1, <1>2 DEF CourseStep, Lifecycle!vars

LEMMA WatchCorrelatesCourse == LifeInv /\ WatchCorrelates => CourseStep
<1> SUFFICES ASSUME LifeInv, WatchCorrelates PROVE CourseStep
  OBVIOUS
<1>1. /\ step = "calls" /\ phase = "evidence_collection" /\ ~request
      /\ UNCHANGED <<status, request, decision, changes>>
  BY DEF WatchCorrelates, PhaseDone, verdict, history, LifeInv, IInv, PlaceFits
<1> QED BY <1>1, LaterPhases, AdvanceCourse DEF WatchCorrelates, Enter

LEMMA WatchUpdatesCourse == LifeInv /\ WatchUpdates => CourseStep
<1> SUFFICES ASSUME LifeInv, WatchUpdates PROVE CourseStep
  OBVIOUS
<1>1. /\ step = "calls" /\ phase = "correlation" /\ ~request
      /\ UNCHANGED <<status, request, decision, changes>>
  BY DEF WatchUpdates, PhaseDone, history, LifeInv, IInv, PlaceFits
<1> QED BY <1>1, LaterPhases, AdvanceCourse DEF WatchUpdates, Enter

LEMMA WatchEndsCourse == LifeInv /\ WatchEnds => CourseStep
<1> SUFFICES ASSUME LifeInv, WatchEnds PROVE CourseStep
  OBVIOUS
<1>1. /\ step = "calls" /\ phase = "response_proposal" /\ ~request
      /\ UNCHANGED <<status, request, decision, changes>>
  BY DEF WatchEnds, PhaseDone, verdict, history, LifeInv, IInv, PlaceFits
<1> QED BY <1>1, LaterPhases, AdvanceCourse DEF WatchEnds, Enter

LEMMA NextCourse == LifeInv /\ [Next]_vars => CourseStep
<1> SUFFICES ASSUME LifeInv, [Next]_vars PROVE CourseStep
  OBVIOUS
<1>1. CASE CallStep
  BY <1>1, PlannedCallCourse, RequiredCallCourse, RepeatedCallCourse, ScriptedCallCourse
  DEF CallStep
<1>2. CASE PhaseStep
  BY <1>2, StartReceivedCourse, ShortPlanRaisesCourse, MarkFailedCourse, StartTriageCourse,
     StartEvidenceCollectionCourse, StartServiceInvestigationCourse,
     StartSlowQueryInvestigationCourse, CorrelateCourse, StartProposalCourse,
     ProposeCourse, PostApprovalRequestCourse, FailUnnotifiedRequestCourse,
     ParkForApprovalCourse, StartPostMortemCourse, CompleteCourse,
     ReturnInsufficientCourse, WatchCorrelatesCourse, WatchUpdatesCourse,
     WatchEndsCourse DEF PhaseStep
<1>3. CASE Decide
  BY <1>3, DecideCourse
<1>4. CASE UNCHANGED vars
  BY <1>4 DEF vars, LifeInv, CourseStep, CourseFits, Lifecycle!vars
<1> QED BY <1>1, <1>2, <1>3, <1>4 DEF Next

\* The phase controller (_run_incident, _run_slow_query_incident, _run_watch and
\* _continue_after_approval), whose _transition refuses no order of the phases, keeps
\* to the life cycle of an investigation for every plan, result and number of services.
THEOREM RunImplementsLifecycle == Spec => FollowsLifecycle
<1>1. Init => Lifecycle!Init /\ LifeInv
  BY InitIInv, InitLifecycle DEF LifeInv
<1>2. LifeInv /\ [Next]_vars => LifeInv' /\ [Lifecycle!Next]_(Lifecycle!vars)
  BY NextIInv, NextCourse DEF LifeInv, CourseStep
<1> QED BY <1>1, <1>2, PTL DEF Spec, FollowsLifecycle, Lifecycle!Spec
================================================================================
