----------------------------- MODULE EvidenceTools -----------------------------
(***************************************************************************)
(* The live tools that gather evidence in several requests: metrics and    *)
(* logs with their fallback to Datadog, files looked for under one name    *)
(* after the other, and the pull request that is inferred from the commits *)
(* of the incident.  The repository changes between the requests, any      *)
(* request can fail, and RealTool then runs the whole tool again.          *)
(*                                                                         *)
(* What a request returns is whether there is something in it; how a       *)
(* single request is read page by page is ProviderReads, how it fails      *)
(* LiveApi.                                                                *)
(***************************************************************************)
EXTENDS Naturals, Sequences

CONSTANTS
  LastCandidate,   \* candidate paths are 1..LastCandidate, in the order they are tried
  PullRequests,    \* numbers of pull requests
  Issues,          \* numbers of issues, which commits mention as well
  MaxAttempts,     \* attempts of RealTool (3 in the code)
  MaxChanges       \* bounds the changes of the repository

ASSUME EvidenceToolsAssumption ==
  /\ LastCandidate \in Nat \ {0}
  /\ PullRequests \cap Issues = {}
  /\ 0 \notin PullRequests
  /\ MaxAttempts \in Nat \ {0}
  /\ MaxChanges \in Nat

VARIABLES
  setup,     \* whether the primary provider and Datadog are configured
  matching,  \* pull requests that hold a commit of the incident's window, or
             \* whose base is one
  files,     \* candidates that are in the repository
  visible,   \* the token may see the repository, and it has the ref asked for
  changes,
  work,      \* where the call is
  steady     \* history: candidates that were there, and could be seen, since the
             \* attempt began

world == <<setup, matching, files, visible, changes>>

vars == <<setup, matching, files, visible, changes, work, steady>>

Candidates == 1..LastCandidate

\* One read, or one for the processor and one for the memory.
Needed == [samples |-> 1, dashboard |-> 1, usage |-> 2]

Observed   == DOMAIN Needed
Looked     == {"content", "optional"}
Kinds      == Observed \cup Looked \cup {"diff", "status", "named"}
Providers  == {"primary", "datadog"}

-----------------------------------------------------------------------------
(* The call, its end, and RealTool between its attempts.                   *)

\* GitHub answers 404 for what is in a repository that the token may not see.
Seen == IF visible THEN files ELSE {}

NewCall ==
  [pc |-> "idle", kind |-> "samples", attempt |-> 1, parts |-> <<>>, provider |-> "none",
   path |-> 1, todo |-> {}, number |-> 0, outcome |-> "none", evidence |-> "none"]

At(pc) == work.pc = pc

\* A provider that is not configured is passed over; with neither the call is
\* an authorisation error.
Observers == IF setup.primary THEN "primary" ELSE IF setup.datadog THEN "datadog" ELSE "done"

First(kind) ==
  CASE kind \in Observed -> Observers
    [] kind \in Looked   -> "candidate"
    [] kind = "diff"     -> "commits"
    [] kind = "status"   -> "ref"
    [] kind = "named"    -> "chosen"

Started(kind, attempt) ==
  [NewCall EXCEPT !.pc = First(kind), !.kind = kind, !.attempt = attempt,
                  !.outcome = IF First(kind) = "done" THEN "refused" ELSE "none"]

\* A payload without the service or the query that the tool needs is refused
\* before anything is sent; one that names a path, a ref or a number needs no
\* inference.
Begin ==
  /\ At("idle")
  /\ \E kind \in Kinds : work' \in {Started(kind, 1),
                                   [Started(kind, 1) EXCEPT !.pc = "done", !.outcome = "failed"]}
  /\ steady' = Seen
  /\ UNCHANGED world

Finish(outcome) ==
  /\ work' = [work EXCEPT !.pc = "done", !.outcome = outcome]
  /\ UNCHANGED steady

\* Faulty: one attempt too many.
RetryPastBound ==
  IF work.attempt <= MaxAttempts
    THEN work' = Started(work.kind, work.attempt + 1) /\ steady' = Seen
    ELSE Finish("failed")

\* A retryable error: the next attempt runs the handler from its start.
Retry ==
  IF work.attempt < MaxAttempts
    THEN work' = Started(work.kind, work.attempt + 1) /\ steady' = Seen
    ELSE Finish("failed")

Fails == Finish("failed") \/ Retry

\* Something was returned.
Found(result) ==
  /\ work' = [result EXCEPT !.pc = "done", !.outcome = "ok", !.evidence = "live"]
  /\ UNCHANGED steady

Return ==
  /\ At("done")
  /\ work' = NewCall
  /\ UNCHANGED <<world, steady>>

-----------------------------------------------------------------------------
(* Metrics, logs, traces, rules and dashboards.                            *)

\* The answer of Prometheus to a dashboard repeats the identifier that was
\* asked for, which is counted as a record; Datadog's does not.
Labelled(provider) == work.kind = "dashboard" /\ provider = "primary"

\* An answer in which nothing is counted is told apart from one with records.
Evidence(provider, parts) ==
  IF Labelled(provider) \/ \E i \in DOMAIN parts : parts[i].filled
    THEN "live" ELSE "live_empty"

Answered(provider) ==
  /\ \E filled \in BOOLEAN :
       LET parts == Append(work.parts, [from |-> provider, filled |-> filled])
       IN work' = IF Len(parts) = Needed[work.kind]
                    THEN [work EXCEPT !.pc = "done", !.parts = parts, !.provider = provider,
                                      !.outcome = "ok", !.evidence = Evidence(provider, parts)]
                    ELSE [work EXCEPT !.parts = parts]
  /\ UNCHANGED steady

\* Faulty: Datadog is asked only for what is missing.
FallbackForTheRest ==
  IF setup.datadog
    THEN work' = [work EXCEPT !.pc = "datadog"] /\ UNCHANGED steady
    ELSE Fails

\* Whatever classified error the primary provider made, Datadog is asked for
\* all of it; without Datadog the error stands.
Fallback ==
  IF setup.datadog
    THEN work' = [work EXCEPT !.pc = "datadog", !.parts = <<>>] /\ UNCHANGED steady
    ELSE Fails

AskPrimary ==
  /\ At("primary")
  /\ Answered("primary") \/ Fallback \/ Finish("failed")
  /\ UNCHANGED world

AskDatadog ==
  /\ At("datadog")
  /\ Answered("datadog") \/ Fails
  /\ UNCHANGED world

-----------------------------------------------------------------------------
(* Files under one of several names.                                       *)

\* None of the candidates existed: an optional file is reported as not
\* configured (which counts as a record), a required one is an error.
NoneExisted ==
  IF work.kind = "optional"
    THEN /\ work' = [work EXCEPT !.pc = "done", !.outcome = "absent", !.evidence = "live"]
         /\ UNCHANGED steady
    ELSE Finish("refused")

NextCandidate ==
  IF work.path < LastCandidate
    THEN work' = [work EXCEPT !.path = @ + 1] /\ UNCHANGED steady
    ELSE NoneExisted

\* Faulty: an outage is taken for a file that does not exist.
TryCandidateOnce ==
  /\ At("candidate")
  /\ \/ work.path \in Seen /\ Found(work)
     \/ NextCandidate
  /\ UNCHANGED world

\* Only a 404 leads to the next name, that of a hidden repository too.
TryCandidate ==
  /\ At("candidate")
  /\ \/ work.path \in Seen /\ Found(work)
     \/ work.path \notin Seen /\ NextCandidate
     \/ Fails
  /\ UNCHANGED world

-----------------------------------------------------------------------------
(* The pull request of the incident.                                       *)

\* The commits of the window are read, and the numbers that they mention.
ReadCommits ==
  /\ At("commits")
  /\ \/ /\ visible
        /\ \E mentioned \in SUBSET (PullRequests \cup Issues) :
             work' = [work EXCEPT !.pc = "mentions", !.todo = mentioned]
        /\ UNCHANGED steady
     \/ Fails
  /\ UNCHANGED world

Choose(n) == work' = [work EXCEPT !.pc = "chosen", !.number = n] /\ UNCHANGED steady

\* A mentioned number is looked up: an issue is a 404, and a pull request
\* must match the window, by a commit in it or by its base.
TryMention ==
  /\ At("mentions")
  /\ \/ \E n \in work.todo :
          IF visible /\ n \in matching
            THEN Choose(n)
            ELSE work' = [work EXCEPT !.todo = @ \ {n}] /\ UNCHANGED steady
     \/ work.todo = {} /\ work' = [work EXCEPT !.pc = "recent"] /\ UNCHANGED steady
     \/ Fails
  /\ UNCHANGED world

\* Otherwise one of the latest twenty that were closed, or none.
TryRecent ==
  /\ At("recent")
  /\ \/ visible /\ \E n \in matching : Choose(n)
     \/ visible /\ Finish("refused")
     \/ Fails
  /\ UNCHANGED world

\* The status of the incident's first commit, if there is one.
InferRef ==
  /\ At("ref")
  /\ \/ visible /\ work' = [work EXCEPT !.pc = "chosen"] /\ UNCHANGED steady
     \/ visible /\ Finish("refused")
     \/ Fails
  /\ UNCHANGED world

ReadChosen ==
  /\ At("chosen")
  /\ (visible /\ Found(work)) \/ Fails
  /\ UNCHANGED world

-----------------------------------------------------------------------------
(* The repository.                                                         *)

Change == changes < MaxChanges /\ changes' = changes + 1 /\ UNCHANGED <<setup, matching, work>>

Appears ==
  /\ Change
  /\ \E i \in Candidates \ files : files' = files \cup {i}
  /\ UNCHANGED <<visible, steady>>

Disappears ==
  /\ Change
  /\ \E i \in files : files' = files \ {i} /\ steady' = steady \ {i}
  /\ UNCHANGED visible

\* The token loses its access to the repository, or gets it back.
AccessChanges ==
  /\ Change
  /\ visible' = ~visible
  /\ steady' = IF visible THEN {} ELSE steady
  /\ UNCHANGED files

-----------------------------------------------------------------------------
Init ==
  /\ setup \in [primary : BOOLEAN, datadog : BOOLEAN]
  /\ matching \in SUBSET PullRequests
  /\ files \in SUBSET Candidates
  /\ visible \in BOOLEAN
  /\ changes = 0
  /\ work = NewCall
  /\ steady = {}

CallStep ==
  \/ AskPrimary \/ AskDatadog \/ TryCandidate
  \/ ReadCommits \/ TryMention \/ TryRecent \/ InferRef \/ ReadChosen

Next == Begin \/ CallStep \/ Return \/ Appears \/ Disappears \/ AccessChanges

Spec == Init /\ [][Next]_vars

-----------------------------------------------------------------------------
(* What must hold.                                                         *)

TypeOK ==
  /\ matching \subseteq PullRequests
  /\ files \subseteq Candidates /\ steady \subseteq Seen
  /\ visible \in BOOLEAN
  /\ changes \in 0..MaxChanges
  /\ work.pc \in {"idle", "primary", "datadog", "candidate", "commits", "mentions",
                  "recent", "ref", "chosen", "done"}
  /\ work.kind \in Kinds
  /\ work.attempt \in 1..MaxAttempts
  /\ work.parts \in Seq([from : Providers, filled : BOOLEAN]) /\ Len(work.parts) <= 2
  /\ work.provider \in Providers \cup {"none"}
  /\ work.path \in Candidates
  /\ work.todo \subseteq PullRequests \cup Issues
  /\ work.number \in PullRequests \cup {0}
  /\ work.outcome \in {"none", "ok", "absent", "refused", "failed"}
  /\ work.evidence \in {"none", "live", "live_empty"}

\* An answer is complete and comes from the one provider that it names, however
\* far another one got before it failed, in this attempt or an earlier one.  It
\* is evidence only if that provider returned records - except a dashboard of
\* Prometheus, which is evidence even if there is nothing on it.
OneProviderAnswers ==
  work.outcome = "ok" /\ work.kind \in Observed =>
    /\ Len(work.parts) = Needed[work.kind]
    /\ \A i \in DOMAIN work.parts : work.parts[i].from = work.provider
    /\ work.evidence = "live" <=>
         \/ \E i \in DOMAIN work.parts : work.parts[i].filled
         \/ work.kind = "dashboard" /\ work.provider = "primary"

\* What is reported of a file is so, however often the tool was run again: it is
\* not configured only if no candidate was there, and could be seen, all the
\* time, and it is the one found only if none with precedence was.  An outage is
\* never taken for an absence; that the token may not see the repository is.
AnswerIsReal ==
  work.kind \in Looked =>
    /\ work.outcome \in {"absent", "refused"} => steady = {}
    /\ work.outcome = "ok" => \A i \in steady : work.path <= i
===============================================================================
