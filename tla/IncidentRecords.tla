---------------------------- MODULE IncidentRecords ----------------------------
(***************************************************************************)
(* The comms tools that write: the runbook note, the issue, the message    *)
(* and the incident channel, called by the runs of several incidents at    *)
(* once on one repository and one workspace.  A request may be carried out *)
(* although its answer is lost, RealTool then runs the whole tool again,   *)
(* and nothing but the file's sha and the channel's name tells the second  *)
(* attempt of the first.                                                   *)
(*                                                                         *)
(* The file is modelled by how often it holds the note of each author: a   *)
(* note is only ever appended, so two contents with the same notes have    *)
(* the same sha.  Requests end in one of three ways: confirmed, refused    *)
(* for good (a 4xx, an open breaker, an answer that confirms nothing), or  *)
(* with an error that RealTool retries (LiveApi has them one by one).      *)
(***************************************************************************)
EXTENDS Naturals

CONSTANTS
  Calls,         \* the tool calls, of different runs
  Others,        \* everybody else who edits the runbook
  Channels,      \* the ids that the workspace has for channels
  NoChannel,
  MaxAttempts,   \* attempts of RealTool (3 in the code)
  MaxEdits       \* bounds the edits of the others

ASSUME IncidentRecordsAssumption ==
  /\ Others \notin Calls
  /\ NoChannel \notin Channels
  /\ MaxAttempts \in Nat \ {0}
  /\ MaxEdits \in Nat

VARIABLES
  setup,    \* which credentials are configured, and whether GitHub may be written
  file,     \* how often the runbook holds the note of each author
  posts,    \* how often the issue or message of each call was published
  named,    \* the name of each channel: the incident's, another, or none yet
  work,     \* where each call is
  lost,     \* history: requests of each call that were carried out unanswered
  renamed   \* history: someone took the incident's name from a channel

vars == <<setup, file, posts, named, work, lost, renamed>>

Authors  == Calls \cup {Others}
Names    == {"none", "incident", "other"}
Kinds    == {"runbook", "issue", "message", "channel"}
Labels   == {"idle", "read", "write", "post", "create", "find", "done"}
Outcomes == {"none", "ok", "skipped", "stood_in", "refused", "failed", "malformed"}

Setup == [slack : BOOLEAN, discord : BOOLEAN, writes : BOOLEAN]

-----------------------------------------------------------------------------
(* One call: its beginning, its end, and RealTool between its attempts.    *)

At(c, pc) == work[c].pc = pc

Finish(c, outcome) ==
  work' = [work EXCEPT ![c].pc = "done", ![c].outcome = outcome]

FinishWith(c, channel) ==
  work' = [work EXCEPT ![c].pc = "done", ![c].outcome = "ok", ![c].channel = channel]

First(kind) ==
  CASE kind = "runbook" -> "read"
    [] kind = "channel" -> "create"
    [] kind \in {"issue", "message"} -> "post"

\* Faulty: one attempt too many.
RetryPastBound(c) ==
  IF work[c].attempt <= MaxAttempts
    THEN work' = [work EXCEPT ![c].pc = First(work[c].kind), ![c].attempt = @ + 1]
    ELSE Finish(c, "failed")

\* A retryable error: the next attempt runs the handler from its start.
Retry(c) ==
  IF work[c].attempt < MaxAttempts
    THEN work' = [work EXCEPT ![c].pc = First(work[c].kind), ![c].attempt = @ + 1]
    ELSE Finish(c, "failed")

\* Faulty: an answer that does not confirm the write is retried.
CarriedOrRetried(c, confirmed) ==
  \/ confirmed /\ UNCHANGED lost
  \/ Retry(c) /\ UNCHANGED lost
  \/ Retry(c) /\ lost' = [lost EXCEPT ![c] = @ + 1]

\* The provider did what was asked.  It says so, or says something that does
\* not confirm it, or its answer is lost.
Carried(c, confirmed) ==
  \/ confirmed /\ UNCHANGED lost
  \/ Finish(c, "malformed") /\ UNCHANGED lost
  \/ Retry(c) /\ lost' = [lost EXCEPT ![c] = @ + 1]

\* It did not.
NotCarried(c) ==
  /\ Finish(c, "refused") \/ Retry(c)
  /\ UNCHANGED lost

\* Without SENTINEL_GITHUB_WRITE_ENABLED nothing is sent to GitHub.
Skipped(kind) == kind \in {"runbook", "issue"} /\ ~setup.writes

\* Without Slack the webhook of Discord takes the messages and stands in for
\* the channel.
Unconfigured(kind) == kind \in {"message", "channel"} /\ ~setup.slack /\ ~setup.discord
StoodIn(kind)      == kind = "channel" /\ ~setup.slack /\ setup.discord

\* A payload without title, text or name is refused as well.
Begin(c) ==
  /\ At(c, "idle")
  /\ \E kind \in Kinds, outcome \in {"none", "skipped", "stood_in", "refused"} :
       /\ Skipped(kind) => outcome \in {"skipped", "refused"}
       /\ Unconfigured(kind) => outcome = "refused"
       /\ StoodIn(kind) => outcome \in {"stood_in", "refused"}
       /\ outcome = "skipped" => Skipped(kind)
       /\ outcome = "stood_in" => StoodIn(kind)
       /\ work' = [work EXCEPT
                    ![c].kind = kind, ![c].outcome = outcome,
                    ![c].pc = IF outcome = "none" THEN First(kind) ELSE "done"]
  /\ UNCHANGED <<setup, file, posts, named, lost, renamed>>

-----------------------------------------------------------------------------
(* The runbook: read the file and its sha, append, write with that sha.    *)

\* The note comes after what was read.
Appended(c) == [work[c].read EXCEPT ![c] = @ + 1]

\* A file without a sha, or that is no text, is refused.
ReadFile(c) ==
  /\ At(c, "read")
  /\ \/ /\ work' = [work EXCEPT ![c].pc = "write", ![c].read = file]
        /\ UNCHANGED lost
     \/ NotCarried(c)
  /\ UNCHANGED <<setup, file, posts, named, renamed>>

\* Faulty: the content is written with the sha that the file has by now.
WriteLatestSha(c) ==
  /\ At(c, "write")
  /\ \/ /\ file' = Appended(c)
        /\ Carried(c, Finish(c, "ok"))
     \/ NotCarried(c) /\ UNCHANGED file
  /\ UNCHANGED <<setup, posts, named, renamed>>

\* GitHub refuses (409) an update whose sha is not the file's.
WriteFile(c) ==
  /\ At(c, "write")
  /\ \/ /\ work[c].read = file
        /\ file' = Appended(c)
        /\ Carried(c, Finish(c, "ok"))
     \/ NotCarried(c) /\ UNCHANGED file
  /\ UNCHANGED <<setup, posts, named, renamed>>

-----------------------------------------------------------------------------
(* Issues and messages: one POST.                                          *)

Publish(c) ==
  /\ \/ /\ posts' = [posts EXCEPT ![c] = @ + 1]
        /\ Carried(c, Finish(c, "ok"))
     \/ NotCarried(c) /\ UNCHANGED posts
  /\ UNCHANGED <<setup, file, named, renamed>>

CreateIssue(c) == At(c, "post") /\ work[c].kind = "issue" /\ Publish(c)

\* To Slack, now or later, or to the webhook of Discord.
PostMessage(c) == At(c, "post") /\ work[c].kind = "message" /\ Publish(c)

-----------------------------------------------------------------------------
(* The channel: create it, and reuse the one that has the name.            *)

Bearers == {d \in Channels : named[d] = "incident"}
Unused  == {d \in Channels : named[d] = "none"}

\* Faulty: when the name is taken the channel gets another one.
CreateAnother(c) ==
  /\ At(c, "create")
  /\ \/ \E d \in Unused :
          /\ named' = [named EXCEPT ![d] = IF Bearers = {} THEN "incident" ELSE "other"]
          /\ Carried(c, FinishWith(c, d))
     \/ NotCarried(c) /\ UNCHANGED named
  /\ UNCHANGED <<setup, file, posts, renamed>>

CreateChannel(c) ==
  /\ At(c, "create")
  /\ \/ /\ Bearers = {}
        /\ \E d \in Unused : /\ named' = [named EXCEPT ![d] = "incident"]
                             /\ Carried(c, FinishWith(c, d))
     \/ /\ Bearers # {}
        /\ work' = [work EXCEPT ![c].pc = "find"]
        /\ UNCHANGED <<named, lost>>
     \/ NotCarried(c) /\ UNCHANGED named
  /\ UNCHANGED <<setup, file, posts, renamed>>

\* The list of the channels is complete, or refused (ProviderReads).
FindChannel(c) ==
  /\ At(c, "find")
  /\ \/ \E d \in Bearers : FinishWith(c, d) /\ UNCHANGED lost
     \/ NotCarried(c)
  /\ UNCHANGED <<setup, file, posts, named, renamed>>

-----------------------------------------------------------------------------
(* Everybody else.                                                         *)

OthersEdit ==
  /\ file[Others] < MaxEdits
  /\ file' = [file EXCEPT ![Others] = @ + 1]
  /\ UNCHANGED <<setup, posts, named, work, lost, renamed>>

Rename ==
  /\ \E d \in Bearers : named' = [named EXCEPT ![d] = "other"]
  /\ renamed' = TRUE
  /\ UNCHANGED <<setup, file, posts, work, lost>>

-----------------------------------------------------------------------------
NewCall ==
  [pc |-> "idle", kind |-> "message", attempt |-> 1, read |-> [a \in Authors |-> 0],
   channel |-> NoChannel, outcome |-> "none"]

Init ==
  /\ setup \in Setup
  /\ file = [a \in Authors |-> 0]
  /\ posts = [c \in Calls |-> 0]
  /\ named = [d \in Channels |-> "none"]
  /\ work = [c \in Calls |-> NewCall]
  /\ lost = [c \in Calls |-> 0]
  /\ renamed = FALSE

CallStep(c) ==
  \/ Begin(c) \/ ReadFile(c) \/ WriteFile(c) \/ CreateIssue(c) \/ PostMessage(c)
  \/ CreateChannel(c) \/ FindChannel(c)

Next == (\E c \in Calls : CallStep(c)) \/ OthersEdit \/ Rename

Spec == Init /\ [][Next]_vars

-----------------------------------------------------------------------------
(* What must hold.                                                         *)

TypeOK ==
  /\ setup \in Setup
  /\ file \in [Authors -> Nat]
  /\ posts \in [Calls -> Nat]
  /\ named \in [Channels -> Names]
  /\ work \in [Calls -> [pc : Labels, kind : Kinds, attempt : 1..MaxAttempts,
                         read : [Authors -> Nat], channel : Channels \cup {NoChannel},
                         outcome : Outcomes]]
  /\ lost \in [Calls -> 0..MaxAttempts]
  /\ renamed \in BOOLEAN

\* Nobody's note is lost: whatever was written to the runbook between the read
\* and the update of a call is still in it after the update.
NotesSurvive == [][\A a \in Authors : file'[a] >= file[a]]_vars

\* What the caller is told about a note, an issue or a message is what was
\* published, but for the attempts whose answers were lost: a retry doubles
\* only what RealTool could not know to be done.
ToldWhatWasWritten ==
  \A c \in Calls :
    /\ work[c].outcome = "ok" /\ work[c].kind # "channel" =>
         file[c] + posts[c] = lost[c] + 1
    /\ work[c].outcome \in {"skipped", "refused", "failed"} /\ work[c].kind # "channel" =>
         file[c] + posts[c] = lost[c]

\* However the calls for one incident race or repeat, they are given the same
\* channel, unless somebody takes its name away.
SameChannel ==
  \A c, e \in Calls :
    /\ work[c].channel # NoChannel /\ work[e].channel # NoChannel
    /\ ~renamed
    => work[c].channel = work[e].channel
================================================================================
