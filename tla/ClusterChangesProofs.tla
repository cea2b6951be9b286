------------------------- MODULE ClusterChangesProofs -------------------------
(***************************************************************************)
(* Proofs about ClusterChanges, for every set of templates and any number  *)
(* of rollouts and attempts.                                               *)
(***************************************************************************)
EXTENDS ClusterChanges, WellFoundedInduction, TLAPS

USE ClusterChangesAssumption

-----------------------------------------------------------------------------
(* The inductive invariant.                                                *)

\* A change that is not done has no outcome yet; one that waits for the
\* approval is a rollback that was not sent, and no rollback is read back.
UnderWay ==
  /\ ~At("done") => run.outcome = "none"
  /\ At("approval") => run.kind = "undo" /\ undone = 0
  /\ At("readback") => run.kind # "undo"

\* Until it is sent, the number of the target means the template that was
\* shown, or nothing any more: the controller only gives out higher numbers.
TargetMeansShown ==
  run.kind = "undo" /\ run.pc \in {"approval", "write", "status"} =>
    /\ run.target <= latest
    /\ \A t \in Owned : revision[t] = run.target => run.shown = {t}

\* Once the rollback was carried out, and unless someone deploys, nothing but
\* the deployed template has the number of the target.
TargetIsSpent ==
  run.kind = "undo" /\ run.pc \in {"write", "status"} /\ undone > 0 /\ ~overtaken =>
    \A t \in Owned : revision[t] = run.target => t = current

\* What was sent is deployed while its status and its object are read.
SentIsDeployed ==
  ~overtaken =>
    /\ At("status") /\ run.kind = "undo" => run.shown = {current}
    /\ run.pc \in {"status", "readback"} /\ run.kind = "restart" => current \in stamped
    /\ At("readback") /\ run.kind = "restart" => ready

IInv ==
  /\ TypeOK
  /\ UnderWay
  /\ TargetMeansShown
  /\ TargetIsSpent
  /\ SentIsDeployed
  /\ RetryIsHarmless
  /\ VerifiedIsLive

-----------------------------------------------------------------------------
(* The target of a rollback.                                               *)

\* A set of numbers that do not exceed a bound has a largest one: the smallest
\* of their distances to the bound.
LEMMA LargestExists ==
  ASSUME NEW bound \in Nat, NEW S \in SUBSET (0..bound), S # {}
  PROVE  \E n \in S : \A m \in S : m <= n
<1> DEFINE D == {bound - n : n \in S}
<1>1. D \subseteq Nat /\ D # {}
  <2>1. \A n \in S : bound - n \in Nat
    OBVIOUS
  <2>2. PICK n \in S : TRUE
    OBVIOUS
  <2>3. bound - n \in D
    BY <2>2
  <2> QED BY <2>1, <2>3
<1>2. PICK d \in D : \A e \in D : ~(<<e, d>> \in OpToRel(<, Nat))
  BY <1>1, NatLessThanWellFounded, WFMin
<1>3. \A e \in D : ~(e < d)
  BY <1>1, <1>2 DEF OpToRel
<1>4. PICK n \in S : d = bound - n
  OBVIOUS
<1>5. \A m \in S : bound - m \in D
  OBVIOUS
<1>6. ASSUME NEW m \in S PROVE m <= n
  <2>1. ~(bound - m < bound - n)
    BY <1>3, <1>4, <1>5
  <2>2. bound \in Nat /\ m \in Nat /\ n \in Nat
    OBVIOUS
  <2> QED BY <2>1, <2>2
<1> QED BY <1>6

\* The target is a number the controller has given out, or none.
LEMMA PreviousType ==
  ASSUME TypeOK
  PROVE  Previous \in 0..latest
<1> DEFINE rest == {revision[t] : t \in Owned} \ {latest}
<1>1. latest \in Nat /\ rest \subseteq 0..latest
  BY DEF TypeOK, Owned
<1>2. CASE rest = {}
  BY <1>1, <1>2 DEF Previous
<1>3. CASE rest # {}
  <2>1. \E n \in rest : \A m \in rest : m <= n
    BY <1>1, <1>3, LargestExists
  <2>2. Previous = CHOOSE n \in rest : \A m \in rest : m <= n
    BY <1>3 DEF Previous
  <2>3. Previous \in rest
    BY <2>1, <2>2
  <2> QED BY <1>1, <2>3
<1> QED BY <1>2, <1>3

-----------------------------------------------------------------------------
(* How a command may leave the change.                                     *)

Runs ==
  [pc : {"idle", "approval", "write", "status", "readback", "done"},
   kind : Kinds, target : 0..MaxRevision,
   shown : SUBSET Templates, attempt : 1..MaxAttempts,
   outcome : {"none", "refused", "failed", "malformed", "verified"}]

\* The change is the same one as before.
SameChange ==
  /\ run' \in Runs
  /\ run'.kind = run.kind /\ run'.target = run.target /\ run'.shown = run.shown

Over(outcome) == SameChange /\ run'.pc = "done" /\ run'.outcome = outcome

GoesTo(pc) == SameChange /\ run'.pc = pc /\ run'.outcome = run.outcome

\* The command did not lead further: the change has failed, or a rollback is
\* sent again.
Setback ==
  \/ Over("failed") \/ Over("malformed")
  \/ run.kind = "undo" /\ GoesTo("write")

LEMMA NoRunType ==
  NoRun \in Runs /\ NoRun.kind = "undo" /\ NoRun.attempt = 1 /\ NoRun.outcome = "none"
<1>1. 1 \in 1..MaxAttempts /\ 0 \in 0..MaxRevision /\ "undo" \in Kinds
  BY DEF Kinds
<1> QED BY <1>1 DEF NoRun, Runs

LEMMA FinishEnds ==
  ASSUME TypeOK,
         NEW outcome \in {"none", "refused", "failed", "malformed", "verified"},
         Finish(outcome)
  PROVE  Over(outcome)
  BY DEF TypeOK, Finish, Over, SameChange, Runs

LEMMA RetryEnds == ASSUME TypeOK, Retry PROVE Setback
<1>1. CASE run.kind = "undo" /\ run.attempt < MaxAttempts
  <2>1. run.attempt + 1 \in 1..MaxAttempts
    BY <1>1 DEF TypeOK
  <2> QED BY <1>1, <2>1 DEF Retry, TypeOK, Setback, GoesTo, SameChange, Runs
<1>2. CASE ~(run.kind = "undo" /\ run.attempt < MaxAttempts)
  BY <1>2, FinishEnds DEF Retry, Setback
<1> QED BY <1>1, <1>2

LEMMA FailsEnds == ASSUME TypeOK, Fails PROVE Setback
  BY FinishEnds, RetryEnds DEF Fails, Setback

LEMMA CarriedEnds == ASSUME TypeOK, Carried PROVE Setback \/ GoesTo(AfterWrite)
<1>1. CASE run' = [run EXCEPT !.pc = AfterWrite]
  BY <1>1 DEF TypeOK, AfterWrite, GoesTo, SameChange, Runs
<1> QED BY <1>1, FinishEnds, RetryEnds DEF Carried, Setback

-----------------------------------------------------------------------------
(* What each step does.                                                    *)

\* Nothing was written: the change goes on, or suffers a setback.
NothingWritten ==
  /\ UNCHANGED <<cluster, undone, overtaken>>
  /\ run.pc \in {"write", "status", "readback"}
  /\ \/ Setback
     \/ At("status") /\ ready /\ run.kind = "undo" /\ Over("verified")
     \/ At("status") /\ ready /\ run.kind # "undo" /\ GoesTo("readback")
     \/ At("readback") /\ (run.kind = "restart" => current \in stamped) /\ Over("verified")

\* The rollback deployed the template that has the number of its target.
Undid(t) ==
  /\ At("write") /\ run.kind = "undo"
  /\ t \in Owned /\ revision[t] = run.target
  /\ \A u \in Owned : revision[u] = run.target => u # current
  /\ Rollout(t)
  /\ undone' = AtMost(2, undone + 1)
  /\ Setback \/ GoesTo("status")
  /\ UNCHANGED <<revision, latest, stamped, value, overtaken>>

Restarted(t) ==
  /\ At("write") /\ run.kind = "restart"
  /\ t \in Templates /\ Rollout(t)
  /\ stamped' = stamped \cup {t}
  /\ Setback \/ GoesTo("status")
  /\ UNCHANGED <<revision, latest, value, undone, overtaken>>

Changed ==
  /\ At("write") /\ run.kind \in Writes
  /\ value' = "asked" /\ settled' \in {settled, FALSE}
  /\ Setback \/ GoesTo("readback")
  /\ UNCHANGED <<current, revision, latest, ready, stamped, undone, overtaken>>

LEMMA UndoSteps ==
  ASSUME TypeOK, At("write"), Undo, UNCHANGED overtaken
  PROVE  NothingWritten \/ \E t \in Templates : Undid(t)
<1> DEFINE targets == {t \in Owned : revision[t] = run.target}
<1>1. CASE targets = {}
  BY <1>1, FinishEnds DEF Undo, NothingWritten, Setback, At
<1>2. CASE current \in targets
  <2>1. targets # {}
    BY <1>2
  <2>2. Finish("malformed") /\ UNCHANGED <<cluster, undone>>
    BY <1>2, <2>1 DEF Undo
  <2> QED BY <2>2, FinishEnds DEF NothingWritten, Setback, At
<1>3. CASE targets # {} /\ current \notin targets
  <2>1. PICK t \in targets : Rollout(t)
    BY <1>3 DEF Undo
  <2>2. /\ run.kind = "undo" /\ undone' = AtMost(2, undone + 1) /\ Carried
        /\ UNCHANGED <<revision, latest, stamped, value>>
    BY <1>3 DEF Undo
  <2>3. Setback \/ GoesTo("status")
    BY <2>2, CarriedEnds DEF AfterWrite
  <2>4. t \in Templates
    BY DEF Owned
  <2> QED BY <1>3, <2>1, <2>2, <2>3, <2>4 DEF Undid
<1> QED BY <1>1, <1>2, <1>3

LEMMA WriteSteps ==
  ASSUME TypeOK, Write
  PROVE  \/ NothingWritten
         \/ \E t \in Templates : Undid(t) \/ Restarted(t)
         \/ Changed
<1>1. CASE Undo
  BY <1>1, UndoSteps DEF Write
<1>2. CASE Restart
  <2>1. Setback \/ GoesTo("status")
    BY <1>2, CarriedEnds DEF Restart, AfterWrite
  <2> QED BY <1>2, <2>1 DEF Write, Restart, Restarted
<1>3. CASE Change
  <2>1. Setback \/ GoesTo("readback")
    BY <1>3, CarriedEnds DEF Change, AfterWrite, Writes
  <2> QED BY <1>3, <2>1 DEF Write, Change, Changed
<1>4. CASE Fails /\ UNCHANGED <<cluster, undone>>
  BY <1>4, FailsEnds DEF Write, NothingWritten, At
<1> QED BY <1>1, <1>2, <1>3, <1>4 DEF Write

LEMMA StatusSteps == ASSUME TypeOK, Status PROVE NothingWritten
<1>1. CASE Fails \/ Finish("malformed")
  BY <1>1, FailsEnds, FinishEnds DEF Status, NothingWritten, Setback, At
<1>2. CASE ready /\ run.kind = "undo" /\ Finish("verified")
  BY <1>2, FinishEnds DEF Status, NothingWritten, At
<1>3. CASE ready /\ run.kind # "undo" /\ run' = [run EXCEPT !.pc = "readback"]
  <2>1. GoesTo("readback")
    BY <1>3 DEF TypeOK, GoesTo, SameChange, Runs
  <2> QED BY <1>3, <2>1 DEF Status, NothingWritten, At
<1> QED BY <1>1, <1>2, <1>3 DEF Status

LEMMA ReadbackSteps == ASSUME TypeOK, Readback PROVE NothingWritten
<1>1. CASE Fails
  BY <1>1, FailsEnds DEF Readback, NothingWritten, At
<1>2. CASE Finish(IF Confirmed THEN "verified" ELSE "malformed")
  <2>1. CASE Confirmed
    <3>1. run.kind = "restart" => current \in stamped
      BY <2>1 DEF Confirmed, RestartConfirmed
    <3> QED BY <1>2, <2>1, <3>1, FinishEnds DEF Readback, NothingWritten, At
  <2>2. CASE ~Confirmed
    BY <1>2, <2>2, FinishEnds DEF Readback, NothingWritten, Setback, At
  <2> QED BY <2>1, <2>2
<1> QED BY <1>1, <1>2 DEF Readback

-----------------------------------------------------------------------------
(* The invariant is kept by each step.                                     *)

Shown == TargetMeansShown /\ TargetIsSpent
Live  == SentIsDeployed /\ RetryIsHarmless /\ VerifiedIsLive

LEMMA NothingWrittenIInv == ASSUME IInv, NothingWritten PROVE IInv'
<1> USE DEF At
<1>1. TypeOK'
  BY DEF IInv, NothingWritten, Setback, Over, GoesTo, SameChange, TypeOK, Runs, cluster, Owned
<1>2. UnderWay'
  BY DEF IInv, UnderWay, NothingWritten, Setback, Over, GoesTo, SameChange
<1>3. Shown'
  BY DEF IInv, UnderWay, NothingWritten, Setback, Over, GoesTo, SameChange, Shown, cluster,
     TargetMeansShown, TargetIsSpent, Owned
<1>4. Live'
  BY DEF IInv, UnderWay, NothingWritten, Setback, Over, GoesTo, SameChange, Live, cluster,
     SentIsDeployed, RetryIsHarmless, VerifiedIsLive
<1> QED BY <1>1, <1>2, <1>3, <1>4 DEF IInv, Shown, Live

\* The rollback deploys what was shown, and what it deploys is the only template
\* with that number; a second one is only possible if someone deployed.
LEMMA UndidIInv == ASSUME IInv, NEW t \in Templates, Undid(t) PROVE IInv'
<1> USE DEF At
<1>1. /\ run.shown = {t} /\ run.target <= latest
      /\ \A u \in Owned : revision[u] = run.target => u = t
  BY DEF IInv, TargetMeansShown, Undid, TypeOK
<1>2. undone > 0 => overtaken
  BY DEF IInv, TargetIsSpent, Undid, TypeOK
<1>3. undone' \in 0..2 /\ (undone' = 2 => undone > 0)
  BY DEF IInv, TypeOK, Undid, AtMost
<1>4. TypeOK'
  BY <1>3 DEF IInv, Undid, Rollout, Setback, Over, GoesTo, SameChange, TypeOK, Runs, Owned
<1>5. UnderWay'
  BY DEF IInv, UnderWay, Undid, Setback, Over, GoesTo, SameChange
<1>6. Shown'
  BY <1>1 DEF Undid, Rollout, Setback, Over, GoesTo, SameChange, Shown,
     TargetMeansShown, TargetIsSpent, Owned
<1>7. Live'
  BY <1>1, <1>2, <1>3 DEF IInv, UnderWay, Undid, Rollout, Setback, Over, GoesTo, SameChange,
     Live, SentIsDeployed, RetryIsHarmless, VerifiedIsLive
<1> QED BY <1>4, <1>5, <1>6, <1>7 DEF IInv, Shown, Live

LEMMA RestartedIInv == ASSUME IInv, NEW t \in Templates, Restarted(t) PROVE IInv'
<1> USE DEF At
<1>1. TypeOK'
  BY DEF IInv, Restarted, Rollout, Setback, Over, GoesTo, SameChange, TypeOK, Runs, Owned
<1>2. UnderWay' /\ Shown'
  BY DEF IInv, UnderWay, Restarted, Setback, Over, GoesTo, SameChange, Shown,
     TargetMeansShown, TargetIsSpent
<1>3. Live'
  BY DEF IInv, UnderWay, Restarted, Rollout, Setback, Over, GoesTo, SameChange,
     Live, SentIsDeployed, RetryIsHarmless, VerifiedIsLive
<1> QED BY <1>1, <1>2, <1>3 DEF IInv, Shown, Live

LEMMA ChangedIInv == ASSUME IInv, Changed PROVE IInv'
<1> USE DEF At, Writes
<1>1. TypeOK'
  BY DEF IInv, Changed, Setback, Over, GoesTo, SameChange, TypeOK, Runs, Owned, Values
<1>2. UnderWay' /\ Shown'
  BY DEF IInv, UnderWay, Changed, Setback, Over, GoesTo, SameChange, Shown,
     TargetMeansShown, TargetIsSpent
<1>3. Live'
  BY DEF IInv, UnderWay, Changed, Setback, Over, GoesTo, SameChange,
     Live, SentIsDeployed, RetryIsHarmless, VerifiedIsLive
<1> QED BY <1>1, <1>2, <1>3 DEF IInv, Shown, Live

\* A change begins: what is shown is what has the number of the target.
LEMMA ReadTargetIInv == ASSUME IInv, ReadTarget PROVE IInv'
<1> USE DEF At
<1>1. Previous \in 0..latest /\ latest \in 0..MaxRevision
  BY PreviousType DEF IInv, TypeOK
<1>2. /\ run'.pc = "approval" /\ run'.kind = "undo" /\ run'.target = Previous
      /\ run'.shown = {t \in Owned : revision[t] = Previous}
      /\ run'.attempt = 1 /\ run'.outcome = "none"
      /\ run' \in Runs
  <2>1. {t \in Owned : revision[t] = Previous} \subseteq Templates
    BY DEF Owned
  <2>2. run' = [NoRun EXCEPT !.pc = "approval", !.target = Previous,
                             !.shown = {t \in Owned : revision[t] = Previous}]
    BY DEF ReadTarget
  <2>3. Previous \in 0..MaxRevision
    BY <1>1
  <2> HIDE DEF Previous
  <2>4. NoRun \in Runs /\ NoRun.kind = "undo" /\ NoRun.attempt = 1 /\ NoRun.outcome = "none"
    BY NoRunType
  <2> QED BY <2>1, <2>2, <2>3, <2>4 DEF Runs
<1>3. \A t \in Owned : revision[t] = Previous => run'.shown = {t}
  BY <1>2 DEF IInv, TypeOK
<1>4. UNCHANGED cluster /\ undone' = 0 /\ overtaken' = FALSE
  BY DEF ReadTarget
<1>5. TypeOK'
  <2>1. current' \in Templates /\ latest' \in 1..MaxRevision /\ stamped' \subseteq Templates
    BY <1>4 DEF IInv, TypeOK, cluster
  <2>2. revision' \in [Templates -> 0..latest'] /\ Owned' = Owned
    BY <1>4 DEF IInv, TypeOK, cluster, Owned
  <2>3. \A t, u \in Owned' : revision'[t] = revision'[u] => t = u
    BY <1>4, <2>2 DEF IInv, TypeOK, cluster
  <2>4. ready' \in BOOLEAN /\ settled' \in BOOLEAN /\ overtaken' \in BOOLEAN
    BY <1>4 DEF IInv, TypeOK, cluster
  <2>5. value' \in Values /\ run' \in Runs /\ undone' \in 0..2
    BY <1>2, <1>4 DEF IInv, TypeOK, cluster
  <2> QED BY <2>1, <2>2, <2>3, <2>4, <2>5 DEF TypeOK, Runs
<1>6. TargetMeansShown'
  BY <1>1, <1>2, <1>3, <1>4 DEF TargetMeansShown, cluster, Owned
<1>7. UnderWay' /\ TargetIsSpent' /\ Live'
  BY <1>2, <1>4 DEF UnderWay, TargetIsSpent, Live, SentIsDeployed, RetryIsHarmless,
     VerifiedIsLive
<1> QED BY <1>5, <1>6, <1>7 DEF IInv, Live

LEMMA ApprovedIInv == ASSUME IInv, Approved PROVE IInv'
<1> USE DEF At
<1>1. /\ run' \in Runs /\ run'.pc \in {"write", "done"}
      /\ run'.kind = run.kind /\ run'.target = run.target /\ run'.shown = run.shown
      /\ run'.outcome = IF run'.pc = "write" THEN run.outcome ELSE "refused"
  BY DEF IInv, TypeOK, Approved, Runs
<1>2. undone = 0 /\ run.outcome = "none" /\ run.kind = "undo"
  BY DEF IInv, UnderWay, Approved
<1>3. UNCHANGED <<cluster, undone>> /\ overtaken' = FALSE
  BY DEF Approved
<1>4. TypeOK'
  BY <1>1, <1>3 DEF IInv, TypeOK, Runs, cluster, Owned
<1>5. TargetMeansShown'
  BY <1>1, <1>3 DEF IInv, TargetMeansShown, Approved, cluster, Owned
<1>6. UnderWay' /\ TargetIsSpent' /\ Live'
  BY <1>1, <1>2, <1>3 DEF UnderWay, TargetIsSpent, Live, SentIsDeployed, RetryIsHarmless,
     VerifiedIsLive
<1> QED BY <1>4, <1>5, <1>6 DEF IInv, Live

LEMMA BeginReturnIInv == ASSUME IInv, BeginWrite \/ Return PROVE IInv'
<1> USE DEF At
<1>1. /\ run' \in Runs /\ run'.outcome = "none"
      /\ \/ run'.pc = "idle"
         \/ run'.pc = "write" /\ run'.kind # "undo"
  <2>1. CASE BeginWrite
    <3>1. PICK kind \in Kinds \ {"undo"} : run' = [NoRun EXCEPT !.pc = "write", !.kind = kind]
      BY <2>1 DEF BeginWrite
    <3> QED BY <3>1, NoRunType DEF Runs
  <2>2. CASE Return
    <3>1. run' = NoRun /\ NoRun.pc = "idle"
      BY <2>2 DEF Return, NoRun
    <3> QED BY <3>1, NoRunType
  <2> QED BY <2>1, <2>2
<1>2. /\ UNCHANGED <<current, revision, latest, ready, settled, stamped>>
      /\ value' \in {value, "before"}
      /\ undone' = 0 /\ overtaken' = FALSE
  BY DEF BeginWrite, Return, cluster
<1>3. TypeOK'
  <2>1. current' \in Templates /\ latest' \in 1..MaxRevision /\ stamped' \subseteq Templates
    BY <1>2 DEF IInv, TypeOK
  <2>2. revision' \in [Templates -> 0..latest'] /\ Owned' = Owned
    BY <1>2 DEF IInv, TypeOK, Owned
  <2>3. \A t, u \in Owned' : revision'[t] = revision'[u] => t = u
    BY <1>2, <2>2 DEF IInv, TypeOK
  <2>4. ready' \in BOOLEAN /\ settled' \in BOOLEAN /\ overtaken' \in BOOLEAN
    BY <1>2 DEF IInv, TypeOK
  <2>5. value' \in Values /\ run' \in Runs /\ undone' \in 0..2
    BY <1>1, <1>2 DEF IInv, TypeOK, Values
  <2> QED BY <2>1, <2>2, <2>3, <2>4, <2>5 DEF TypeOK, Runs
<1>4. UnderWay' /\ Shown' /\ Live'
  BY <1>1, <1>2 DEF UnderWay, Shown, TargetMeansShown, TargetIsSpent,
     Live, SentIsDeployed, RetryIsHarmless, VerifiedIsLive
<1> QED BY <1>3, <1>4 DEF IInv, Shown, Live

\* The controller gives out a number that no target has, and takes some away.
LEMMA RenumberIInv == ASSUME IInv, Renumber PROVE IInv'
<1> USE DEF At
<1>1. /\ latest' = latest + 1 /\ latest' \in 1..MaxRevision /\ latest \in Nat
      /\ \A t \in Templates : revision'[t] = IF t = current THEN latest + 1 ELSE revision[t]
      /\ revision' \in [Templates -> 0..latest']
  BY DEF IInv, TypeOK, Renumber
<1>2. Owned' = Owned \cup {current} /\ Owned \subseteq Templates /\ current \in Templates
  BY <1>1 DEF IInv, TypeOK, Owned
<1>3. \A t \in Owned : revision[t] \in 0..latest
  BY DEF IInv, TypeOK, Owned
<1>4. UNCHANGED <<current, ready, settled, stamped, value, run, undone, overtaken>>
  BY DEF Renumber
<1>5. TypeOK'
  <2>1. \A t, u \in Owned' : revision'[t] = revision'[u] => t = u
    BY <1>1, <1>2, <1>3 DEF IInv, TypeOK
  <2> QED BY <1>1, <1>4, <2>1 DEF IInv, TypeOK
<1>6. Shown'
  <2>1. run.target <= latest => \A t \in Owned' : revision'[t] = run.target =>
                                    t \in Owned /\ revision[t] = run.target
    BY <1>1, <1>2 DEF IInv, TypeOK
  <2>2. TargetMeansShown'
    BY <1>1, <1>4, <2>1 DEF IInv, TypeOK, TargetMeansShown
  <2>3. TargetIsSpent'
    BY <1>4, <2>1 DEF IInv, TargetMeansShown, TargetIsSpent
  <2> QED BY <2>2, <2>3 DEF Shown
<1>7. UnderWay' /\ Live'
  BY <1>4 DEF IInv, UnderWay, Live, SentIsDeployed, RetryIsHarmless, VerifiedIsLive
<1> QED BY <1>5, <1>6, <1>7 DEF IInv, Shown, Live

LEMMA PruneIInv == ASSUME IInv, Prune PROVE IInv'
<1> USE DEF At
<1>1. PICK t \in Templates : revision' = [revision EXCEPT ![t] = 0]
  BY DEF Prune
<1>2. /\ Owned' \subseteq Owned
      /\ \A u \in Owned' : revision'[u] = revision[u]
      /\ revision' \in [Templates -> 0..latest]
  BY <1>1 DEF IInv, TypeOK, Owned
<1>3. UNCHANGED <<current, latest, ready, settled, stamped, value, run, undone, overtaken>>
  BY DEF Prune
<1>4. TypeOK'
  BY <1>2, <1>3 DEF IInv, TypeOK
<1>5. UnderWay' /\ Shown' /\ Live'
  BY <1>2, <1>3 DEF IInv, UnderWay, Shown, TargetMeansShown, TargetIsSpent, Live,
     SentIsDeployed, RetryIsHarmless, VerifiedIsLive
<1> QED BY <1>4, <1>5 DEF IInv, Shown, Live

LEMMA OthersIInv ==
  ASSUME IInv, Observe \/ RolloutCompletes \/ Deploy \/ Meddle \/ UNCHANGED vars
  PROVE  IInv'
<1> USE DEF At
<1>1. /\ UNCHANGED <<revision, latest, stamped, run, undone>>
      /\ current' \in Templates /\ ready' \in BOOLEAN /\ settled' \in BOOLEAN
      /\ value' \in Values /\ overtaken' \in BOOLEAN
      /\ \/ overtaken'
         \/ UNCHANGED <<current, overtaken>> /\ (ready => ready')
  BY DEF IInv, TypeOK, Values, Observe, RolloutCompletes, Deploy, Rollout, Meddle, vars, cluster
<1>2. TypeOK'
  BY <1>1 DEF IInv, TypeOK, Owned
<1>3. UnderWay' /\ Shown'
  BY <1>1 DEF IInv, UnderWay, Shown, TargetMeansShown, TargetIsSpent, Owned
<1>4. Live'
  BY <1>1 DEF IInv, Live, SentIsDeployed, RetryIsHarmless, VerifiedIsLive
<1> QED BY <1>2, <1>3, <1>4 DEF IInv, Shown, Live

LEMMA InitIInv == Init => IInv
<1> SUFFICES ASSUME Init PROVE IInv
  OBVIOUS
<1>1. TypeOK
  <2>1. /\ \A t, u \in Owned : t = u
        /\ current \in Templates /\ latest \in 1..MaxRevision
    BY DEF Init, Owned
  <2>2. revision \in [Templates -> 0..latest]
    BY DEF Init
  <2>3. value \in Values /\ run \in Runs /\ undone \in 0..2
    BY NoRunType DEF Init, Values
  <2> QED BY <2>1, <2>2, <2>3 DEF Init, TypeOK, Runs
<1>2. UnderWay /\ Shown /\ Live
  BY DEF Init, NoRun, UnderWay, Shown, TargetMeansShown, TargetIsSpent, Live,
     SentIsDeployed, RetryIsHarmless, VerifiedIsLive, At
<1> QED BY <1>1, <1>2 DEF IInv, Shown, Live

LEMMA NextIInv == IInv /\ [Next]_vars => IInv'
<1> SUFFICES ASSUME IInv, [Next]_vars PROVE IInv'
  OBVIOUS
<1>1. TypeOK
  BY DEF IInv
<1>2. CASE Write \/ Status \/ Readback
  BY <1>1, <1>2, WriteSteps, StatusSteps, ReadbackSteps, NothingWrittenIInv, UndidIInv,
     RestartedIInv, ChangedIInv
<1>3. CASE ReadTarget \/ Approved \/ BeginWrite \/ Return
  BY <1>3, ReadTargetIInv, ApprovedIInv, BeginReturnIInv
<1>4. CASE Others \/ UNCHANGED vars
  BY <1>4, RenumberIInv, PruneIInv, OthersIInv DEF Others
<1> QED BY <1>2, <1>3, <1>4 DEF Next, RunStep

\* Every state that the steps of the code reach satisfies the inductive invariant.
THEOREM Invariance == Spec => []IInv
  BY InitIInv, NextIInv, PTL DEF Spec

-----------------------------------------------------------------------------
(* What follows.                                                           *)

\* The cluster and the change keep their types, and no two templates ever have
\* the same revision number.
THEOREM TypeCorrectness == Spec => []TypeOK
<1>1. IInv => TypeOK
  BY DEF IInv
<1> QED BY <1>1, Invariance, PTL

\* However often the rollback is retried, and whatever the controller does, it
\* is carried out twice only if someone else deployed since it was first sent.
THEOREM RetriedRollbackIsHarmless == Spec => []RetryIsHarmless
<1>1. IInv => RetryIsHarmless
  BY DEF IInv
<1> QED BY <1>1, Invariance, PTL

\* A rollback or restart that is reported as verified is live, unless someone
\* else deployed since it was sent.
THEOREM VerifiedChangesAreLive == Spec => []VerifiedIsLive
<1>1. IInv => VerifiedIsLive
  BY DEF IInv
<1> QED BY <1>1, Invariance, PTL

LEMMA NextDeploysShown ==
  IInv /\ [Next]_vars => [undone' > undone => run.shown = {current'}]_vars
<1> SUFFICES ASSUME IInv, Next, undone' > undone PROVE run.shown = {current'}
  OBVIOUS
<1>1. TypeOK /\ TargetMeansShown
  BY DEF IInv
<1>2. ASSUME NEW t \in Templates, Undid(t) PROVE run.shown = {current'}
  BY <1>1, <1>2 DEF TargetMeansShown, Undid, Rollout, At
<1>3. UNCHANGED undone \/ undone' = 0 \/ \E t \in Templates : Undid(t)
  <2>1. CASE Write \/ Status \/ Readback
    BY <1>1, <2>1, WriteSteps, StatusSteps, ReadbackSteps
       DEF NothingWritten, Restarted, Changed
  <2>2. CASE ReadTarget \/ Approved \/ BeginWrite \/ Return
    BY <2>2 DEF ReadTarget, Approved, BeginWrite, Return
  <2>3. CASE Others
    BY <2>3 DEF Others, Renumber, Observe, RolloutCompletes, Deploy, Meddle, Prune
  <2> QED BY <2>1, <2>2, <2>3 DEF Next, RunStep
<1> QED BY <1>1, <1>2, <1>3 DEF TypeOK

\* However many rollouts lie between the request and the rollback, what the
\* rollback deploys is the template that was shown to the approver.
THEOREM OnlyTheApprovedTemplate == Spec => ApprovedTemplateDeployed
  BY Invariance, NextDeploysShown, PTL DEF Spec, ApprovedTemplateDeployed
===============================================================================
