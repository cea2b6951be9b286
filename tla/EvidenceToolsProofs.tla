-------------------------- MODULE EvidenceToolsProofs --------------------------
(***************************************************************************)
(* Proofs about EvidenceTools, for any number of candidates, pull          *)
(* requests, attempts and changes of the repository.                       *)
(***************************************************************************)
EXTENDS EvidenceTools, SequenceTheorems, TLAPS

USE EvidenceToolsAssumption DEF world

-----------------------------------------------------------------------------
(* The inductive invariant.                                                *)

Labels == {"idle", "primary", "datadog", "candidate", "commits", "mentions", "recent",
           "ref", "chosen", "done"}

Parts == [from : Providers, filled : BOOLEAN]

Works ==
  [pc : Labels, kind : Kinds, attempt : 1..MaxAttempts, parts : Seq(Parts),
   provider : Providers \cup {"none"}, path : Candidates,
   todo : SUBSET (PullRequests \cup Issues), number : PullRequests \cup {0},
   outcome : {"none", "ok", "absent", "refused", "failed"},
   evidence : {"none", "live", "live_empty"}]

Typed ==
  /\ files \subseteq Candidates /\ steady \subseteq Seen
  /\ visible \in BOOLEAN
  /\ matching \subseteq PullRequests
  /\ changes \in 0..MaxChanges
  /\ work \in Works
  /\ Len(work.parts) <= 2

\* Where a call is tells what kind of call it is, and that it has no outcome.
KindOfPlace ==
  /\ work.pc # "done" => work.outcome = "none"
  /\ work.pc \in {"primary", "datadog"} => work.kind \in Observed
  /\ work.pc = "candidate" => work.kind \in Looked
  /\ work.pc \in {"commits", "mentions", "recent"} => work.kind = "diff"
  /\ work.pc = "ref" => work.kind = "status"
  /\ work.pc = "chosen" => work.kind \in {"diff", "status", "named"}

\* What was gathered so far is of the provider that is asked, and not all.
Gathered ==
  work.pc \in Providers =>
    /\ Len(work.parts) < Needed[work.kind]
    /\ \A i \in DOMAIN work.parts : work.parts[i].from = work.pc

\* The names before this one were missing at some time since the attempt began.
TriedBefore == work.pc = "candidate" => \A i \in steady : work.path <= i

IInv ==
  /\ Typed
  /\ KindOfPlace
  /\ Gathered
  /\ TriedBefore
  /\ OneProviderAnswers
  /\ AnswerIsReal

-----------------------------------------------------------------------------
(* The call and its places.                                                *)

LEMMA KindsOfCalls ==
  /\ Observed = {"samples", "dashboard", "usage"} /\ Observed \cap Looked = {}
  /\ Kinds = {"samples", "dashboard", "usage", "content", "optional", "diff", "status", "named"}
  /\ Needed["samples"] = 1 /\ Needed["dashboard"] = 1 /\ Needed["usage"] = 2
  BY DEF Observed, Needed, Looked, Kinds

LEMMA Starts ==
  ASSUME NEW kind \in Kinds, NEW n \in 1..MaxAttempts
  PROVE  LET w == Started(kind, n)
         IN /\ w \in Works /\ w.kind = kind /\ w.parts = <<>> /\ w.path = 1
            /\ w.pc = First(kind) /\ First(kind) \in Labels \ {"idle"}
            /\ w.outcome = IF First(kind) = "done" THEN "refused" ELSE "none"
<1>1. First(kind) \in Labels \ {"idle"}
  <2>1. Observers \in {"primary", "datadog", "done"}
    BY DEF Observers
  <2>2. kind \in {"samples", "dashboard", "usage", "content", "optional", "diff", "status", "named"}
    BY KindsOfCalls
  <2>3. CASE kind \in {"samples", "dashboard", "usage"}
    <3>1. First(kind) = Observers
      BY <2>3, KindsOfCalls DEF First
    <3> QED BY <2>1, <3>1 DEF Labels
  <2>4. CASE kind \in {"content", "optional"}
    <3>1. First(kind) = "candidate"
      BY <2>4, KindsOfCalls DEF First, Looked
    <3> QED BY <3>1 DEF Labels
  <2>5. CASE kind \in {"diff", "status", "named"}
    <3>1. First(kind) \in {"commits", "ref", "chosen"}
      BY <2>5, KindsOfCalls DEF First, Looked
    <3> QED BY <3>1 DEF Labels
  <2> QED BY <2>2, <2>3, <2>4, <2>5
<1>2. 1 \in Candidates /\ <<>> \in Seq(Parts)
  BY DEF Candidates
<1> DEFINE p == First(kind)
           o == IF p = "done" THEN "refused" ELSE "none"
<1>3. Started(kind, n) = [NewCall EXCEPT !.pc = p, !.kind = kind, !.attempt = n, !.outcome = o]
  BY DEF Started
<1>4. /\ NewCall \in Works /\ NewCall.parts = <<>> /\ NewCall.path = 1
  BY <1>2, KindsOfCalls DEF NewCall, Works, Labels
<1>5. p \in Labels /\ o \in {"none", "refused"}
  BY <1>1
<1> HIDE DEF p, o
<1>6. /\ Started(kind, n) \in Works
      /\ Started(kind, n).kind = kind /\ Started(kind, n).parts = NewCall.parts
      /\ Started(kind, n).path = NewCall.path
      /\ Started(kind, n).pc = p /\ Started(kind, n).outcome = o
  BY <1>3, <1>4, <1>5 DEF Works
<1> QED BY <1>1, <1>4, <1>6 DEF p, o

\* An attempt has begun: with nothing gathered, and the files as they are seen.
Fresh ==
  /\ \E kind \in Kinds, n \in 1..MaxAttempts : work' = Started(kind, n)
  /\ steady' = Seen

\* The call ends without an answer.
GivenUp(outcome) ==
  /\ work' = [work EXCEPT !.pc = "done", !.outcome = outcome]
  /\ UNCHANGED steady

LEMMA FreshIInv ==
  ASSUME IInv, Fresh, UNCHANGED world
  PROVE  IInv'
<1>1. PICK kind \in Kinds, n \in 1..MaxAttempts : work' = Started(kind, n)
  BY DEF Fresh
<1>2. /\ work' \in Works /\ work'.kind = kind /\ work'.parts = <<>> /\ work'.path = 1
      /\ work'.pc = First(kind) /\ work'.pc \in Labels \ {"idle"}
      /\ work'.outcome = IF work'.pc = "done" THEN "refused" ELSE "none"
  BY <1>1, Starts
<1>3. /\ kind \in Observed => work'.pc \in {"primary", "datadog", "done"}
      /\ kind \in Looked => work'.pc = "candidate"
      /\ kind = "diff" => work'.pc = "commits"
      /\ kind = "status" => work'.pc = "ref"
      /\ kind = "named" => work'.pc = "chosen"
  BY <1>2, KindsOfCalls DEF First, Observers, Looked
<1>4. Typed'
  BY <1>2 DEF IInv, Typed, Fresh, Seen
<1>5. KindOfPlace'
  BY <1>2, <1>3, KindsOfCalls DEF KindOfPlace, Looked
<1>6. Gathered'
  BY <1>2, <1>3, KindsOfCalls DEF Gathered, Providers, Looked
<1>7. TriedBefore'
  <2>1. \A i \in steady' : i \in Candidates
    BY DEF IInv, Typed, Fresh, Seen
  <2>2. \A i \in steady' : 1 <= i
    BY <2>1 DEF Candidates
  <2> QED BY <1>2, <2>2 DEF TriedBefore
<1>8. OneProviderAnswers' /\ AnswerIsReal'
  BY <1>2, <1>3, KindsOfCalls DEF OneProviderAnswers, AnswerIsReal, Looked
<1> QED BY <1>4, <1>5, <1>6, <1>7, <1>8 DEF IInv

LEMMA GivenUpIInv ==
  ASSUME IInv, NEW outcome \in {"refused", "failed"}, GivenUp(outcome),
         work.kind \in Looked /\ outcome = "refused" => steady = {},
         UNCHANGED world
  PROVE  IInv'
<1>1. /\ work' \in Works /\ work'.pc = "done" /\ work'.outcome = outcome
      /\ work'.kind = work.kind /\ work'.parts = work.parts
  BY DEF IInv, Typed, Works, GivenUp, Labels
<1>2. Typed'
  BY <1>1 DEF IInv, Typed, Seen, GivenUp
<1>3. KindOfPlace' /\ Gathered' /\ TriedBefore'
  BY <1>1 DEF KindOfPlace, Gathered, TriedBefore, Providers
<1>4. OneProviderAnswers' /\ AnswerIsReal'
  BY <1>1 DEF OneProviderAnswers, AnswerIsReal, GivenUp
<1> QED BY <1>2, <1>3, <1>4 DEF IInv

LEMMA RetryEnds ==
  ASSUME IInv, Retry
  PROVE  Fresh \/ GivenUp("failed")
<1>1. CASE work.attempt < MaxAttempts
  <2>1. work.attempt + 1 \in 1..MaxAttempts /\ work.kind \in Kinds
    BY <1>1 DEF IInv, Typed, Works
  <2> QED BY <1>1, <2>1 DEF Retry, Fresh
<1>2. CASE ~(work.attempt < MaxAttempts)
  BY <1>2 DEF Retry, Finish, GivenUp
<1> QED BY <1>1, <1>2

LEMMA FailsIInv ==
  ASSUME IInv, Fails, UNCHANGED world
  PROVE  IInv'
<1>1. Fresh \/ GivenUp("failed")
  BY RetryEnds DEF Fails, Finish, GivenUp
<1> QED BY <1>1, FreshIInv, GivenUpIInv

-----------------------------------------------------------------------------
(* Metrics and logs.                                                       *)

LEMMA AnsweredIInv ==
  ASSUME IInv, NEW provider \in Providers, At(provider), Answered(provider),
         UNCHANGED world
  PROVE  IInv'
<1>1. PICK filled \in BOOLEAN :
        LET parts == Append(work.parts, [from |-> provider, filled |-> filled])
        IN work' = IF Len(parts) = Needed[work.kind]
                     THEN [work EXCEPT !.pc = "done", !.parts = parts, !.provider = provider,
                                       !.outcome = "ok", !.evidence = Evidence(provider, parts)]
                     ELSE [work EXCEPT !.parts = parts]
  BY DEF Answered
<1> DEFINE part  == [from |-> provider, filled |-> filled]
           parts == Append(work.parts, part)
<1>2. /\ work.pc = provider /\ work \in Works /\ work.kind \in {"samples", "dashboard", "usage"}
      /\ work.parts \in Seq(Parts) /\ part \in Parts
      /\ Len(work.parts) < Needed[work.kind] /\ Needed[work.kind] \in 1..2
      /\ \A i \in DOMAIN work.parts : work.parts[i].from = provider
      /\ work.outcome = "none"
  BY KindsOfCalls DEF IInv, Typed, KindOfPlace, Gathered, Works, Parts, At, Providers
<1>3. /\ parts \in Seq(Parts) /\ Len(parts) = Len(work.parts) + 1
      /\ Len(parts) <= Needed[work.kind] /\ Len(parts) <= 2
      /\ \A i \in DOMAIN parts : parts[i].from = provider
  <2>1. /\ parts \in Seq(Parts) /\ Len(parts) = Len(work.parts) + 1
        /\ \A i \in 1..Len(parts) :
             parts[i] = IF i = Len(work.parts) + 1 THEN part ELSE work.parts[i]
    BY <1>2, AppendProperties
  <2>2. DOMAIN parts = 1..Len(parts) /\ DOMAIN work.parts = 1..Len(work.parts)
    BY <1>2, <2>1
  <2>3. Len(work.parts) \in Nat
    BY <1>2
  <2>4. \A i \in DOMAIN parts : parts[i].from = provider
    BY <1>2, <2>1, <2>2, <2>3
  <2> QED BY <1>2, <2>1, <2>3, <2>4
<1> HIDE DEF part, parts
<1>4. steady' = steady
  BY DEF Answered
<1>5. CASE Len(parts) = Needed[work.kind]
  <2> DEFINE evidence == Evidence(provider, parts)
  <2>1. work' = [work EXCEPT !.pc = "done", !.parts = parts, !.provider = provider,
                             !.outcome = "ok", !.evidence = evidence]
    BY <1>1, <1>5 DEF parts, part
  <2>2. /\ evidence \in {"live", "live_empty"}
        /\ evidence = "live" <=>
             \/ \E i \in DOMAIN parts : parts[i].filled
             \/ work.kind = "dashboard" /\ provider = "primary"
    BY DEF Evidence, Labelled
  <2> HIDE DEF evidence
  <2>3. /\ work' \in Works /\ work'.pc = "done" /\ work'.parts = parts
        /\ work'.provider = provider /\ work'.outcome = "ok" /\ work'.kind = work.kind
        /\ work'.evidence = evidence
    BY <1>2, <1>3, <2>1, <2>2 DEF Works, Labels
  <2>4. Typed'
    BY <1>3, <1>4, <2>3 DEF IInv, Typed, Seen
  <2>5. KindOfPlace' /\ Gathered' /\ TriedBefore'
    BY <2>3 DEF KindOfPlace, Gathered, TriedBefore, Providers
  <2>6. OneProviderAnswers' /\ AnswerIsReal'
    BY <1>2, <1>3, <1>5, <2>2, <2>3 DEF OneProviderAnswers, AnswerIsReal, Looked
  <2> QED BY <2>4, <2>5, <2>6 DEF IInv
<1>6. CASE Len(parts) # Needed[work.kind]
  <2>1. work' = [work EXCEPT !.parts = parts]
    BY <1>1, <1>6 DEF parts, part
  <2>2. /\ work' \in Works /\ work'.pc = provider /\ work'.parts = parts
        /\ work'.outcome = "none" /\ work'.kind = work.kind
    BY <1>2, <1>3, <2>1 DEF Works
  <2>3. Typed'
    BY <1>3, <1>4, <2>2 DEF IInv, Typed, Seen
  <2>4. KindOfPlace'
    BY <1>2, <2>2, KindsOfCalls DEF KindOfPlace, Providers
  <2>5. Gathered'
    BY <1>2, <1>3, <1>6, <2>2 DEF Gathered
  <2>6. TriedBefore' /\ OneProviderAnswers' /\ AnswerIsReal'
    BY <1>2, <2>2 DEF TriedBefore, OneProviderAnswers, AnswerIsReal,
       Looked, Providers
  <2> QED BY <2>3, <2>4, <2>5, <2>6 DEF IInv
<1> QED BY <1>5, <1>6

\* Datadog starts with nothing of what the primary provider had returned.
LEMMA FallbackIInv ==
  ASSUME IInv, At("primary"), Fallback, UNCHANGED world
  PROVE  IInv'
<1>1. CASE work' = [work EXCEPT !.pc = "datadog", !.parts = <<>>] /\ UNCHANGED steady
  <2>1. <<>> \in Seq(Parts) /\ work.kind \in {"samples", "dashboard", "usage"} /\ work.outcome = "none"
    BY KindsOfCalls DEF IInv, KindOfPlace, At
  <2>2. /\ work' \in Works /\ work'.pc = "datadog" /\ work'.parts = <<>>
        /\ work'.outcome = "none" /\ work'.kind = work.kind
    BY <1>1, <2>1 DEF IInv, Typed, Works, Labels
  <2>3. Typed'
    BY <1>1, <2>2 DEF IInv, Typed, Seen
  <2>4. KindOfPlace' /\ Gathered'
    BY <2>1, <2>2, KindsOfCalls DEF KindOfPlace, Gathered
  <2>5. TriedBefore' /\ OneProviderAnswers' /\ AnswerIsReal'
    BY <2>1, <2>2 DEF TriedBefore, OneProviderAnswers, AnswerIsReal, Looked
  <2> QED BY <2>3, <2>4, <2>5 DEF IInv
<1> QED BY <1>1, FailsIInv DEF Fallback

LEMMA ObserveIInv == ASSUME IInv, AskPrimary \/ AskDatadog PROVE IInv'
<1>1. UNCHANGED world
  BY DEF AskPrimary, AskDatadog
<1>2. ASSUME Finish("failed") PROVE IInv'
  BY <1>1, <1>2, GivenUpIInv DEF Finish, GivenUp
<1>3. CASE AskPrimary
  <2>1. "primary" \in Providers
    BY DEF Providers
  <2> QED BY <1>1, <1>2, <1>3, <2>1, AnsweredIInv, FallbackIInv DEF AskPrimary
<1>4. CASE AskDatadog
  <2>1. "datadog" \in Providers
    BY DEF Providers
  <2> QED BY <1>1, <1>4, <2>1, AnsweredIInv, FailsIInv DEF AskDatadog
<1> QED BY <1>3, <1>4

-----------------------------------------------------------------------------
(* Files, and what was chosen.                                             *)

\* Something is found: a file that no name before it could have been, or what
\* was chosen.
LEMMA FoundIInv ==
  ASSUME IInv, Found(work), work.pc \in {"candidate", "chosen"},
         UNCHANGED world
  PROVE  IInv'
<1>1. /\ work' \in Works /\ work'.pc = "done" /\ work'.outcome = "ok"
      /\ work'.kind = work.kind /\ work'.parts = work.parts /\ work'.path = work.path
      /\ work'.number = work.number
      /\ UNCHANGED steady
  BY DEF IInv, Typed, Works, Found, Labels
<1>2. work.kind \notin Observed
  BY KindsOfCalls DEF IInv, KindOfPlace, Looked
<1>3. Typed'
  BY <1>1 DEF IInv, Typed, Seen
<1>4. KindOfPlace' /\ Gathered' /\ TriedBefore'
  BY <1>1 DEF KindOfPlace, Gathered, TriedBefore, Providers
<1>5. OneProviderAnswers'
  BY <1>1, <1>2 DEF OneProviderAnswers
<1>6. AnswerIsReal'
  BY <1>1 DEF IInv, KindOfPlace, TriedBefore, AnswerIsReal, Looked
<1> QED BY <1>3, <1>4, <1>5, <1>6 DEF IInv

LEMMA TryCandidateIInv == ASSUME IInv, TryCandidate PROVE IInv'
<1>1. /\ work.pc = "candidate" /\ work \in Works /\ work.kind \in Looked
      /\ steady \subseteq Seen /\ Seen \subseteq Candidates
      /\ \A i \in steady : work.path <= i
      /\ UNCHANGED world
  BY DEF IInv, Typed, Seen, KindOfPlace, TriedBefore, TryCandidate, At
<1>2. CASE work.path \in Seen /\ Found(work)
  BY <1>1, <1>2, FoundIInv
<1>3. CASE Fails
  BY <1>1, <1>3, FailsIInv
<1>4. CASE work.path \notin Seen /\ NextCandidate
  <2>1. /\ work.path \in 1..LastCandidate /\ LastCandidate \in Nat
        /\ \A i \in steady : i \in 1..LastCandidate /\ work.path < i
    BY <1>1, <1>4 DEF Works, Candidates
  <2>2. CASE work.path < LastCandidate
    <3>1. work' = [work EXCEPT !.path = @ + 1] /\ UNCHANGED steady
      BY <1>4, <2>2 DEF NextCandidate
    <3>2. work.path + 1 \in Candidates
      BY <2>1, <2>2 DEF Candidates
    <3>3. /\ work' \in Works /\ work'.pc = "candidate" /\ work'.path = work.path + 1
          /\ work'.kind = work.kind /\ work'.outcome = work.outcome /\ work'.parts = work.parts
      BY <1>1, <3>1, <3>2 DEF Works
    <3>4. Typed'
      BY <1>1, <3>1, <3>3 DEF IInv, Typed, Seen
    <3>5. KindOfPlace' /\ Gathered'
      BY <1>1, <3>3 DEF IInv, KindOfPlace, Gathered, Providers
    <3>6. TriedBefore'
      BY <2>1, <3>1, <3>3 DEF TriedBefore
    <3>7. OneProviderAnswers' /\ AnswerIsReal'
      BY <1>1, <3>3 DEF IInv, KindOfPlace, OneProviderAnswers, AnswerIsReal
    <3> QED BY <3>4, <3>5, <3>6, <3>7 DEF IInv
  <2>3. CASE ~(work.path < LastCandidate)
    <3>1. steady = {} /\ NoneExisted
      BY <1>4, <2>1, <2>3 DEF NextCandidate
    <3>2. CASE Finish("refused")
      BY <1>1, <3>1, <3>2, GivenUpIInv DEF Finish, GivenUp
    <3>3. CASE /\ work' = [work EXCEPT !.pc = "done", !.outcome = "absent", !.evidence = "live"]
               /\ UNCHANGED steady
      <4>1. /\ work' \in Works /\ work'.pc = "done" /\ work'.outcome = "absent"
            /\ work'.kind = work.kind /\ work'.parts = work.parts
        BY <1>1, <3>3 DEF Works, Labels
      <4>2. Typed'
        BY <1>1, <3>3, <4>1 DEF IInv, Typed, Seen
      <4>3. KindOfPlace' /\ Gathered' /\ TriedBefore'
        BY <4>1 DEF KindOfPlace, Gathered, TriedBefore, Providers
      <4>4. OneProviderAnswers' /\ AnswerIsReal'
        BY <3>1, <3>3, <4>1 DEF OneProviderAnswers, AnswerIsReal
      <4> QED BY <4>2, <4>3, <4>4 DEF IInv
    <3> QED BY <3>1, <3>2, <3>3 DEF NoneExisted
  <2> QED BY <2>2, <2>3
<1> QED BY <1>2, <1>3, <1>4 DEF TryCandidate

-----------------------------------------------------------------------------
(* The pull request.                                                       *)

\* The call goes on.
LEMMA GoesOnIInv ==
  ASSUME IInv, UNCHANGED <<world, steady>>,
         work.pc \in {"commits", "mentions", "recent", "ref"},
         work' \in Works, work'.kind = work.kind, work'.parts = work.parts,
         work'.outcome = work.outcome,
         work'.pc \in (IF work.pc = "ref" THEN {"chosen"} ELSE {"mentions", "recent", "chosen"})
  PROVE  IInv'
<1>1. work.kind \in {"diff", "status"} /\ (work.kind = "diff" <=> work.pc # "ref")
      /\ work.outcome = "none"
  BY DEF IInv, KindOfPlace
<1>2. Typed'
  BY DEF IInv, Typed, Seen
<1>3. KindOfPlace'
  BY <1>1 DEF KindOfPlace
<1>4. Gathered' /\ TriedBefore'
  BY DEF Gathered, TriedBefore, Providers
<1>5. OneProviderAnswers' /\ AnswerIsReal'
  BY <1>1 DEF OneProviderAnswers, AnswerIsReal, Looked
<1> QED BY <1>2, <1>3, <1>4, <1>5 DEF IInv

LEMMA ChooseIInv ==
  ASSUME IInv, work.pc \in {"mentions", "recent"}, NEW n \in matching, Choose(n),
         UNCHANGED world
  PROVE  IInv'
<1>1. /\ work' = [work EXCEPT !.pc = "chosen", !.number = n] /\ UNCHANGED steady
      /\ work \in Works /\ n \in PullRequests
  BY DEF IInv, Typed, Choose
<1>2. /\ work' \in Works /\ work'.pc = "chosen" /\ work'.number = n /\ work'.kind = work.kind
      /\ work'.parts = work.parts /\ work'.outcome = work.outcome
  BY <1>1 DEF Works, Labels
<1> QED BY <1>1, <1>2, GoesOnIInv

LEMMA PullRequestIInv ==
  ASSUME IInv, ReadCommits \/ TryMention \/ TryRecent \/ InferRef \/ ReadChosen
  PROVE  IInv'
<1>1. work \in Works /\ UNCHANGED world
  BY DEF IInv, Typed, ReadCommits, TryMention, TryRecent, InferRef, ReadChosen
<1>2. ASSUME Finish("refused"), work.pc \in {"recent", "ref"} PROVE IInv'
  <2>1. work.kind \notin Looked
    BY <1>2 DEF IInv, KindOfPlace, Looked
  <2> QED BY <1>1, <1>2, <2>1, GivenUpIInv DEF Finish, GivenUp
<1>3. ASSUME NEW pc \in {"recent", "chosen"}, work.pc \in {"mentions", "ref"},
             pc = "chosen" <=> work.pc = "ref",
             work' = [work EXCEPT !.pc = pc], UNCHANGED steady
      PROVE  IInv'
  <2>1. /\ work' \in Works /\ work'.pc = pc /\ work'.kind = work.kind
        /\ work'.parts = work.parts /\ work'.outcome = work.outcome
    BY <1>1, <1>3 DEF Works, Labels
  <2> QED BY <1>1, <1>3, <2>1, GoesOnIInv
<1>4. ASSUME NEW todo \in SUBSET (PullRequests \cup Issues),
             work.pc \in {"commits", "mentions"},
             work' = [work EXCEPT !.pc = "mentions", !.todo = todo], UNCHANGED steady
      PROVE  IInv'
  <2>1. /\ work' \in Works /\ work'.pc = "mentions" /\ work'.kind = work.kind
        /\ work'.parts = work.parts /\ work'.outcome = work.outcome
    BY <1>1, <1>4 DEF Works, Labels
  <2> QED BY <1>1, <1>4, <2>1, GoesOnIInv
<1>5. CASE ReadCommits
  BY <1>1, <1>4, <1>5, FailsIInv DEF ReadCommits, At
<1>6. CASE TryMention
  <2>1. ASSUME NEW n \in work.todo, work' = [work EXCEPT !.todo = @ \ {n}], UNCHANGED steady
        PROVE  IInv'
    <3>1. work.pc = "mentions" /\ work.todo \ {n} \in SUBSET (PullRequests \cup Issues)
      BY <1>1, <1>6 DEF TryMention, At, Works
    <3>2. work' = [work EXCEPT !.pc = "mentions", !.todo = work.todo \ {n}]
      BY <1>1, <2>1, <3>1 DEF Works
    <3> QED BY <1>4, <2>1, <3>1, <3>2
  <2> QED BY <1>1, <1>3, <1>6, <2>1, ChooseIInv, FailsIInv DEF TryMention, At
<1>7. CASE TryRecent
  <2>1. Retry => Fails
    BY DEF Fails
  <2> QED BY <1>1, <1>2, <1>7, <2>1, ChooseIInv, FailsIInv DEF TryRecent, At
<1>8. CASE InferRef
  BY <1>1, <1>2, <1>3, <1>8, FailsIInv DEF InferRef, At
<1>9. CASE ReadChosen
  BY <1>1, <1>9, FoundIInv, FailsIInv DEF ReadChosen, At
<1> QED BY <1>5, <1>6, <1>7, <1>8, <1>9

-----------------------------------------------------------------------------
(* The beginning, the end, and the repository.                             *)

LEMMA NewCallType ==
  /\ NewCall \in Works /\ NewCall.pc = "idle" /\ NewCall.kind = "samples"
  /\ NewCall.outcome = "none" /\ NewCall.parts = <<>>
<1>1. 1 \in Candidates /\ <<>> \in Seq(Parts) /\ 1 \in 1..MaxAttempts /\ "samples" \in Kinds
  BY KindsOfCalls DEF Candidates
<1> QED BY <1>1 DEF NewCall, Works, Labels

\* Between two calls there is nothing to say of the call.
LEMMA IdleIInv ==
  ASSUME work = NewCall, files \subseteq Candidates, steady \subseteq Seen,
         visible \in BOOLEAN, matching \subseteq PullRequests, changes \in 0..MaxChanges
  PROVE  IInv
<1>1. Typed
  BY NewCallType DEF Typed
<1>2. KindOfPlace /\ Gathered /\ TriedBefore
  BY NewCallType DEF KindOfPlace, Gathered, TriedBefore, Providers
<1>3. OneProviderAnswers /\ AnswerIsReal
  BY NewCallType DEF OneProviderAnswers, AnswerIsReal, Looked
<1> QED BY <1>1, <1>2, <1>3 DEF IInv

LEMMA InitIInv == Init => IInv
<1>1. Init => /\ work = NewCall /\ files \subseteq Candidates /\ steady \subseteq Seen
              /\ visible \in BOOLEAN /\ matching \subseteq PullRequests
              /\ changes \in 0..MaxChanges
  BY DEF Init
<1> QED BY <1>1, IdleIInv

LEMMA ReturnIInv == ASSUME IInv, Return PROVE IInv'
<1>1. /\ work' = NewCall /\ UNCHANGED <<world, steady>>
      /\ NewCall \in Works /\ NewCall.pc = "idle" /\ NewCall.kind = "samples"
      /\ NewCall.outcome = "none" /\ NewCall.parts = <<>>
  BY NewCallType DEF Return
<1>2. Typed'
  BY <1>1 DEF IInv, Typed, Seen
<1>3. KindOfPlace' /\ Gathered' /\ TriedBefore'
  BY <1>1 DEF KindOfPlace, Gathered, TriedBefore, Providers
<1>4. OneProviderAnswers' /\ AnswerIsReal'
  BY <1>1 DEF OneProviderAnswers, AnswerIsReal, Looked
<1> QED BY <1>2, <1>3, <1>4 DEF IInv

LEMMA BeginIInv == ASSUME IInv, Begin PROVE IInv'
<1>1. PICK kind \in Kinds :
        work' \in {Started(kind, 1),
                   [Started(kind, 1) EXCEPT !.pc = "done", !.outcome = "failed"]}
  BY DEF Begin
<1>2. steady' = Seen /\ UNCHANGED world /\ 1 \in 1..MaxAttempts
  BY DEF Begin
<1>3. CASE work' = Started(kind, 1)
  BY <1>2, <1>3, FreshIInv DEF Fresh
<1>4. CASE work' = [Started(kind, 1) EXCEPT !.pc = "done", !.outcome = "failed"]
  <2>1. Started(kind, 1) \in Works /\ Started(kind, 1).parts = <<>>
    BY <1>2, Starts
  <2>2. /\ work' \in Works /\ work'.pc = "done" /\ work'.outcome = "failed"
        /\ work'.parts = <<>>
    BY <1>4, <2>1 DEF Works, Labels
  <2>3. Typed'
    BY <1>2, <2>2 DEF IInv, Typed, Seen
  <2>4. KindOfPlace' /\ Gathered' /\ TriedBefore'
    BY <2>2 DEF KindOfPlace, Gathered, TriedBefore, Providers
  <2>5. OneProviderAnswers' /\ AnswerIsReal'
    BY <2>2 DEF OneProviderAnswers, AnswerIsReal
  <2> QED BY <2>3, <2>4, <2>5 DEF IInv
<1> QED BY <1>1, <1>3, <1>4

\* The history only ever loses candidates, so what was said of it stays true.
LEMMA RepositoryIInv ==
  ASSUME IInv, Appears \/ Disappears \/ AccessChanges \/ UNCHANGED vars
  PROVE  IInv'
<1>1. UNCHANGED <<setup, matching, work>> /\ steady' \subseteq steady
  BY DEF Appears, Disappears, AccessChanges, Change, vars
<1>2. visible' \in BOOLEAN /\ files' \subseteq Candidates /\ steady' \subseteq Seen'
  BY DEF IInv, Typed, Seen, Appears, Disappears, AccessChanges, Change, vars
<1>3. changes' \in 0..MaxChanges
  <2>1. UNCHANGED changes \/ (changes < MaxChanges /\ changes' = changes + 1)
    BY DEF Appears, Disappears, AccessChanges, Change, vars
  <2>2. changes \in 0..MaxChanges /\ MaxChanges \in Nat
    BY DEF IInv, Typed, Seen
  <2> QED BY <2>1, <2>2
<1>4. Typed'
  BY <1>1, <1>2, <1>3 DEF IInv, Typed, Seen
<1>5. KindOfPlace' /\ Gathered' /\ TriedBefore'
  BY <1>1 DEF IInv, KindOfPlace, Gathered, TriedBefore
<1>6. OneProviderAnswers' /\ AnswerIsReal'
  BY <1>1 DEF IInv, OneProviderAnswers, AnswerIsReal
<1> QED BY <1>4, <1>5, <1>6 DEF IInv

LEMMA NextIInv == IInv /\ [Next]_vars => IInv'
<1> SUFFICES ASSUME IInv, [Next]_vars PROVE IInv'
  OBVIOUS
<1> QED BY ObserveIInv, TryCandidateIInv, PullRequestIInv, ReturnIInv, BeginIInv,
           RepositoryIInv DEF Next, CallStep

\* Every state that the steps of the code reach satisfies the inductive invariant.
THEOREM Invariance == Spec => []IInv
  BY InitIInv, NextIInv, PTL DEF Spec

-----------------------------------------------------------------------------
(* What follows.                                                           *)

\* The repository and the call keep their types.
THEOREM TypeCorrectness == Spec => []TypeOK
<1>1. IInv => TypeOK
  BY DEF IInv, Typed, Works, Labels, Parts, TypeOK
<1> QED BY <1>1, Invariance, PTL

\* However far one provider got before it failed, an answer is of one provider,
\* complete, and evidence only if there were records or it is a dashboard.
THEOREM AnswersAreOfOneProvider == Spec => []OneProviderAnswers
<1>1. IInv => OneProviderAnswers
  BY DEF IInv
<1> QED BY <1>1, Invariance, PTL

\* However the repository and the access to it change and the tool is repeated,
\* an absence of what could be seen, and a precedence, are real.
THEOREM AnswersAreReal == Spec => []AnswerIsReal
<1>1. IInv => AnswerIsReal
  BY DEF IInv
<1> QED BY <1>1, Invariance, PTL
===============================================================================
