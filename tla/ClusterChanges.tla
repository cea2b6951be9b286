---------------------------- MODULE ClusterChanges ----------------------------
(***************************************************************************)
(* The writes of the Kubernetes client on one deployment, and what it      *)
(* takes for their confirmation: kubectl writes, kubectl waits for the     *)
(* rollout, kubectl reads back, while other people deploy, scale and undo  *)
(* and the controller follows at its own pace.  The rollback target is     *)
(* read during the investigation and used after the approval, any number   *)
(* of rollouts later; only the rollback is offered to the tools and        *)
(* retried by them.                                                        *)
(*                                                                         *)
(* The cluster is modelled as the client uses it.  A template has the      *)
(* revision number of its replica set, 0 without one; the controller gives *)
(* the deployed template the next number, a template it has seen before    *)
(* included, and never gives a number twice.                               *)
(*                                                                         *)
(* A definition whose comment starts with "Faulty" is no part of the       *)
(* model: it is the definition after it with a bug put in, kept to try     *)
(* that the properties notice.                                             *)
(***************************************************************************)
EXTENDS Naturals

CONSTANTS
  Templates,     \* pod templates
  MaxRevision,   \* bounds the rollouts that are explored
  MaxAttempts    \* attempts of the rollback tool (3 in the code)

ASSUME ClusterChangesAssumption ==
  /\ MaxRevision \in Nat \ {0}
  /\ MaxAttempts \in Nat \ {0}

VARIABLES
  current,    \* the template of the deployment's spec
  revision,   \* the revision number of each template
  latest,     \* the highest revision number, which is never pruned
  ready,      \* the rollout of the current template has completed
  settled,    \* the controller has observed the latest generation
  stamped,    \* templates with a restartedAt annotation
  value,      \* what the other writes set, compared with what is asked for
  run,        \* the change under way
  undone,     \* history: rollbacks carried out by this command, up to 2
  overtaken   \* history: someone deployed since the tool or method was called

cluster == <<current, revision, latest, ready, settled, stamped, value>>
vars == <<cluster, run, undone, overtaken>>

Writes == {"scale", "patch", "job", "drain"}
Kinds  == Writes \cup {"undo", "restart"}
Values == {"before", "asked", "other"}

-----------------------------------------------------------------------------
(* The cluster.                                                            *)

\* A change of the deployment's spec is a new generation; its rollout, and
\* the number of its revision, come later.
Rollout(t) ==
  /\ current' = t
  /\ ready' = FALSE
  /\ settled' = FALSE

\* The controller gives the current template the next revision number.
Renumber ==
  /\ revision[current] < latest
  /\ latest < MaxRevision
  /\ latest' = latest + 1
  /\ revision' = [revision EXCEPT ![current] = latest + 1]
  /\ UNCHANGED <<current, ready, settled, stamped, value, run, undone, overtaken>>

Observe ==
  /\ ~settled
  /\ settled' = TRUE
  /\ UNCHANGED <<current, revision, latest, ready, stamped, value, run, undone, overtaken>>

RolloutCompletes ==
  /\ ~ready /\ revision[current] = latest
  /\ ready' = TRUE /\ settled' = TRUE
  /\ UNCHANGED <<current, revision, latest, stamped, value, run, undone, overtaken>>

\* Someone else deploys, or undoes, or restarts.
Deploy ==
  /\ \E t \in Templates \ {current} : Rollout(t)
  /\ overtaken' = TRUE
  /\ UNCHANGED <<revision, latest, stamped, value, run, undone>>

\* Someone else scales or patches the deployment, replaces the job, or
\* uncordons the node.
Meddle ==
  /\ value' = "other"
  /\ settled' \in {settled, FALSE}
  /\ UNCHANGED <<current, revision, latest, ready, stamped, run, undone, overtaken>>

\* Old replica sets are removed.
Prune ==
  /\ \E t \in Templates : /\ revision[t] \notin {0, latest} /\ t # current
                          /\ revision' = [revision EXCEPT ![t] = 0]
  /\ UNCHANGED <<current, latest, ready, settled, stamped, value, run, undone, overtaken>>

-----------------------------------------------------------------------------
(* The target of a rollback.                                               *)

Owned == {t \in Templates : revision[t] > 0}

\* The revision before the highest one, 0 if there is none.
Previous ==
  LET numbers == {revision[t] : t \in Owned}
      rest    == numbers \ {latest}
  IN IF rest = {} THEN 0 ELSE CHOOSE n \in rest : \A m \in rest : m <= n

NoRun == [pc |-> "idle", kind |-> "undo", target |-> 0, shown |-> {}, attempt |-> 1,
          outcome |-> "none"]

At(pc) == run.pc = pc

\* The investigation reads the revisions; what it shows to the approver is
\* the template that has that number now.
ReadTarget ==
  /\ At("idle")
  /\ run' = [NoRun EXCEPT !.pc = "approval", !.target = Previous,
                          !.shown = {t \in Owned : revision[t] = Previous}]
  /\ undone' = 0 /\ overtaken' = FALSE
  /\ UNCHANGED cluster

\* The approved command reaches the tool, which refuses a missing target.
Approved ==
  /\ At("approval")
  /\ run' = IF run.target = 0
              THEN [run EXCEPT !.pc = "done", !.outcome = "refused"]
              ELSE [run EXCEPT !.pc = "write"]
  /\ overtaken' = FALSE
  /\ UNCHANGED <<cluster, undone>>

\* The other writes are methods of the client that no tool reaches; they are
\* called with what they are to write.
BeginWrite ==
  /\ At("idle")
  /\ \E kind \in Kinds \ {"undo"} : run' = [NoRun EXCEPT !.pc = "write", !.kind = kind]
  /\ value' = "before"
  /\ undone' = 0 /\ overtaken' = FALSE
  /\ UNCHANGED <<current, revision, latest, ready, settled, stamped>>

-----------------------------------------------------------------------------
(* One kubectl command after the other.                                    *)

Finish(outcome) == run' = [run EXCEPT !.pc = "done", !.outcome = outcome]

\* Faulty: one attempt too many.
RetryPastBound ==
  IF run.kind = "undo" /\ run.attempt <= MaxAttempts
    THEN run' = [run EXCEPT !.pc = "write", !.attempt = @ + 1]
    ELSE Finish("failed")

\* RealTool runs the rollback again from its first command.
Retry ==
  IF run.kind = "undo" /\ run.attempt < MaxAttempts
    THEN run' = [run EXCEPT !.pc = "write", !.attempt = @ + 1]
    ELSE Finish("failed")

AfterWrite == IF run.kind \in {"undo", "restart"} THEN "status" ELSE "readback"

\* The command was carried out.  Its output is read and confirms it, or says
\* something else; or it does not arrive in time.
Carried ==
  \/ run' = [run EXCEPT !.pc = AfterWrite]
  \/ Finish("malformed")
  \/ Retry

Fails == Finish("failed") \/ Retry

AtMost(bound, n) == IF n < bound THEN n ELSE bound

\* Faulty: the rollback names no revision and goes to the previous one.
UndoToPrevious ==
  /\ run.kind = "undo"
  /\ LET targets == {t \in Owned : revision[t] = Previous}
     IN IF targets = {}
          THEN Finish("failed") /\ UNCHANGED <<cluster, undone>>
          ELSE /\ \E t \in targets : Rollout(t)
               /\ undone' = AtMost(2, undone + 1)
               /\ Carried
               /\ UNCHANGED <<revision, latest, stamped, value>>

\* kubectl rollout undo --to-revision: a number nobody has is an error, the
\* template that is deployed already is skipped, which confirms nothing.
Undo ==
  /\ run.kind = "undo"
  /\ LET targets == {t \in Owned : revision[t] = run.target}
     IN CASE targets = {} -> Finish("failed") /\ UNCHANGED <<cluster, undone>>
          [] current \in targets -> Finish("malformed") /\ UNCHANGED <<cluster, undone>>
          [] OTHER -> /\ \E t \in targets : Rollout(t)
                      /\ undone' = AtMost(2, undone + 1)
                      /\ Carried
                      /\ UNCHANGED <<revision, latest, stamped, value>>

\* kubectl rollout restart annotates the template, which makes it a new one.
Restart ==
  /\ run.kind = "restart"
  /\ \E t \in Templates \ {current} :
       /\ revision[t] = 0
       /\ Rollout(t)
       /\ stamped' = stamped \cup {t}
  /\ Carried
  /\ UNCHANGED <<revision, latest, value, undone>>

Change ==
  /\ run.kind \in Writes
  /\ value' = "asked"
  /\ settled' \in {settled, FALSE}
  /\ Carried
  /\ UNCHANGED <<current, revision, latest, ready, stamped, undone>>

Write ==
  /\ At("write")
  /\ \/ Undo \/ Restart \/ Change
     \/ Fails /\ UNCHANGED <<cluster, undone>>
  /\ UNCHANGED overtaken

\* Faulty: an observed generation is taken for a finished rollout.
StatusOfGeneration ==
  /\ At("status")
  /\ \/ /\ settled
        /\ IF run.kind = "undo" THEN Finish("verified")
                                ELSE run' = [run EXCEPT !.pc = "readback"]
     \/ Fails
     \/ Finish("malformed")
  /\ UNCHANGED <<cluster, undone, overtaken>>

\* kubectl rollout status returns when the rollout of what is deployed at that
\* moment has completed; waiting too long for it is retried as well.
Status ==
  /\ At("status")
  /\ \/ /\ ready /\ settled
        /\ IF run.kind = "undo" THEN Finish("verified")
                                ELSE run' = [run EXCEPT !.pc = "readback"]
     \/ Fails
     \/ Finish("malformed")
  /\ UNCHANGED <<cluster, undone, overtaken>>

\* What the object must show when it is read back.
ReplicasConfirmed   == value = "asked" /\ settled
RestartConfirmed    == current \in stamped
PatchConfirmed      == value = "asked"
JobConfirmed        == value = "asked"
DrainConfirmed      == value = "asked"

Confirmed ==
  CASE run.kind = "scale"   -> ReplicasConfirmed
    [] run.kind = "restart" -> RestartConfirmed
    [] run.kind = "patch"   -> PatchConfirmed
    [] run.kind = "job"     -> JobConfirmed
    [] run.kind = "drain"   -> DrainConfirmed

Readback ==
  /\ At("readback")
  /\ \/ Finish(IF Confirmed THEN "verified" ELSE "malformed")
     \/ Fails
  /\ UNCHANGED <<cluster, undone, overtaken>>

Return ==
  /\ At("done")
  /\ run' = NoRun
  /\ undone' = 0 /\ overtaken' = FALSE
  /\ UNCHANGED cluster

-----------------------------------------------------------------------------
Init ==
  /\ current \in Templates
  /\ revision = [t \in Templates |-> IF t = current THEN 1 ELSE 0]
  /\ latest = 1
  /\ ready = TRUE /\ settled = TRUE
  /\ stamped = {}
  /\ value = "before"
  /\ run = NoRun
  /\ undone = 0 /\ overtaken = FALSE

RunStep == ReadTarget \/ Approved \/ BeginWrite \/ Write \/ Status \/ Readback \/ Return

Others == Renumber \/ Observe \/ RolloutCompletes \/ Deploy \/ Meddle \/ Prune

Next == RunStep \/ Others

Spec == Init /\ [][Next]_vars

-----------------------------------------------------------------------------
(* What must hold.                                                         *)

TypeOK ==
  /\ current \in Templates
  /\ latest \in 1..MaxRevision
  /\ revision \in [Templates -> 0..latest]
  /\ \A t, u \in Owned : revision[t] = revision[u] => t = u
  /\ ready \in BOOLEAN /\ settled \in BOOLEAN /\ overtaken \in BOOLEAN
  /\ stamped \subseteq Templates
  /\ value \in Values
  /\ run \in [pc : {"idle", "approval", "write", "status", "readback", "done"},
              kind : Kinds, target : 0..MaxRevision,
              shown : SUBSET Templates, attempt : 1..MaxAttempts,
              outcome : {"none", "refused", "failed", "malformed", "verified"}]
  /\ undone \in 0..2

\* What a rollback deploys is what had the revision number when the approval
\* was asked for, however many rollouts came in between: "only the exact
\* approved rollback" is executed (ISSUES.md:274).
ApprovedTemplateDeployed ==
  [][undone' > undone => run.shown = {current'}]_vars

\* A timed out rollback that is retried is carried out a second time only if
\* someone else deployed since the approved command reached the tool:
\* otherwise the number of its target is gone or its template deployed already.
RetryIsHarmless == undone = 2 => overtaken

\* A rollback or restart that is reported as verified is what runs, unless
\* someone else deployed since its tool or method was called, be it before the
\* command was first sent: the status is asked of the deployment, not of the
\* command, also when the command was retried.
VerifiedIsLive ==
  run.outcome = "verified" /\ run.kind \in {"undo", "restart"} /\ ~overtaken =>
    /\ ready
    /\ IF run.kind = "undo" THEN run.shown = {current} ELSE current \in stamped
=============================================================================
