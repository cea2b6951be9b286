------------------------ MODULE IncidentRecordsProofs ------------------------
(***************************************************************************)
(* Proofs about IncidentRecords, for every set of calls and channels and   *)
(* any number of attempts and edits.                                       *)
(***************************************************************************)
EXTENDS IncidentRecords, TLAPS

USE IncidentRecordsAssumption

-----------------------------------------------------------------------------
(* The inductive invariant.                                                *)

\* A call that is not done has no outcome, is about to send a request of its
\* kind, and has lost at most one answer per attempt before this one.
UnderWay ==
  \A c \in Calls : work[c].pc # "done" =>
    /\ work[c].outcome = "none"
    /\ work[c].pc \in {"create", "find"} => work[c].kind = "channel"
    /\ lost[c] < work[c].attempt

\* While a call is under way, only lost answers stand for what it published.
Tally ==
  \A c \in Calls :
    work[c].pc # "done" /\ (work[c].kind # "channel" \/ work[c].pc = "idle")
      => file[c] + posts[c] = lost[c]

\* At most one channel bears the incident's name, and every call that was
\* given a channel was given that one, unless somebody renamed a channel.
OneBearer ==
  /\ \A d, e \in Bearers : d = e
  /\ ~renamed => \A c \in Calls : work[c].channel # NoChannel => work[c].channel \in Bearers

IInv == TypeOK /\ UnderWay /\ Tally /\ ToldWhatWasWritten /\ OneBearer

-----------------------------------------------------------------------------
(* How a request may leave its call.                                       *)

Places == [pc : Labels, kind : Kinds, attempt : 1..MaxAttempts, read : [Authors -> Nat],
           channel : Channels \cup {NoChannel}, outcome : Outcomes]

\* A step of c leaves the places of the other calls alone.
Moves(c, place) == work' = [work EXCEPT ![c] = place]

\* The call is over, with this outcome and channel.
Over(c, outcome, channel) ==
  /\ Moves(c, work'[c])
  /\ work'[c] \in Places
  /\ work'[c].pc = "done"
  /\ work'[c].outcome = outcome
  /\ work'[c].kind = work[c].kind
  /\ work'[c].channel = channel

\* The call goes on: with its next attempt, or with its next request.
Again(c) ==
  /\ Moves(c, work'[c])
  /\ work'[c] \in Places
  /\ work'[c].pc = First(work[c].kind)
  /\ work'[c].outcome = work[c].outcome
  /\ work'[c].kind = work[c].kind
  /\ work'[c].channel = work[c].channel
  /\ work'[c].attempt = work[c].attempt + 1

GoesOn(c) ==
  /\ Moves(c, work'[c])
  /\ work'[c] \in Places
  /\ work'[c].pc \in {"write", "find"}
  /\ work'[c].pc = "find" => work[c].kind = "channel"
  /\ work'[c].outcome = work[c].outcome
  /\ work'[c].kind = work[c].kind
  /\ work'[c].channel = work[c].channel
  /\ work'[c].attempt = work[c].attempt

LEMMA FinishEnds ==
  ASSUME TypeOK, NEW c \in Calls, NEW outcome \in Outcomes, Finish(c, outcome)
  PROVE  Over(c, outcome, work[c].channel)
<1>1. work \in [Calls -> Places] /\ "done" \in Labels
  BY DEF TypeOK, Places, Labels
<1>2. work' = [work EXCEPT ![c] = [work[c] EXCEPT !.pc = "done", !.outcome = outcome]]
  BY DEF Finish
<1>3. [work[c] EXCEPT !.pc = "done", !.outcome = outcome] \in Places
  BY <1>1 DEF Places
<1> QED BY <1>1, <1>2, <1>3 DEF Over, Moves, Places

LEMMA FinishWithEnds ==
  ASSUME TypeOK, NEW c \in Calls, NEW d \in Channels, FinishWith(c, d)
  PROVE  Over(c, "ok", d)
<1>1. work \in [Calls -> Places] /\ "ok" \in Outcomes /\ "done" \in Labels
  BY DEF TypeOK, Places, Outcomes, Labels
<1>2. work' = [work EXCEPT ![c] = [work[c] EXCEPT !.pc = "done", !.outcome = "ok",
                                                 !.channel = d]]
  BY DEF FinishWith
<1>3. [work[c] EXCEPT !.pc = "done", !.outcome = "ok", !.channel = d] \in Places
  BY <1>1 DEF Places
<1> QED BY <1>1, <1>2, <1>3 DEF Over, Moves, Places

LEMMA RetryEnds ==
  ASSUME TypeOK, NEW c \in Calls, Retry(c)
  PROVE  Over(c, "failed", work[c].channel) \/ Again(c)
<1>1. CASE work[c].attempt < MaxAttempts
  <2>1. work[c].kind \in Kinds /\ First(work[c].kind) \in Labels
    BY DEF TypeOK, First, Labels, Kinds
  <2>2. work[c].attempt + 1 \in 1..MaxAttempts
    BY <1>1 DEF TypeOK
  <2> QED BY <1>1, <2>1, <2>2 DEF TypeOK, Retry, Again, Moves, Places
<1>2. CASE ~(work[c].attempt < MaxAttempts)
  <2>1. Finish(c, "failed")
    BY <1>2 DEF Retry
  <2> QED BY <2>1, FinishEnds DEF Outcomes
<1> QED BY <1>1, <1>2

-----------------------------------------------------------------------------
(* What each request does to the books: what was published and what was    *)
(* lost.  A channel is not counted.                                        *)

Sum(c) == file[c] + posts[c]

\* Nothing was carried out.
InVain(c) ==
  /\ UNCHANGED <<file, posts, named, lost>>
  /\ \/ Over(c, "refused", work[c].channel)
     \/ Over(c, "failed", work[c].channel)
     \/ Again(c)

\* Something was, and the caller is told so or that nobody knows.
Answered(c, channel) ==
  /\ UNCHANGED lost
  /\ Over(c, "ok", channel) \/ Over(c, "malformed", work[c].channel)

\* Something was, and the caller is not told.
Unanswered(c) ==
  /\ lost' = [lost EXCEPT ![c] = @ + 1]
  /\ Over(c, "failed", work[c].channel) \/ Again(c)

\* One note, issue or message of c was published.
Publishes(c) ==
  /\ \/ file' = [file EXCEPT ![c] = @ + 1] /\ UNCHANGED posts
     \/ posts' = [posts EXCEPT ![c] = @ + 1] /\ UNCHANGED file
  /\ UNCHANGED named
  /\ Answered(c, work[c].channel) \/ Unanswered(c)

LEMMA NotCarriedEnds ==
  ASSUME TypeOK, NEW c \in Calls, NotCarried(c), UNCHANGED <<file, posts, named>>
  PROVE  InVain(c)
  BY FinishEnds, RetryEnds DEF NotCarried, InVain, Outcomes

LEMMA CarriedEnds ==
  ASSUME TypeOK, NEW c \in Calls, Carried(c, Finish(c, "ok"))
  PROVE  Answered(c, work[c].channel) \/ Unanswered(c)
  BY FinishEnds, RetryEnds DEF Carried, Answered, Unanswered, Outcomes

LEMMA CarriedWithEnds ==
  ASSUME TypeOK, NEW c \in Calls, NEW d \in Channels, Carried(c, FinishWith(c, d))
  PROVE  Answered(c, d) \/ Unanswered(c)
  BY FinishEnds, FinishWithEnds, RetryEnds DEF Carried, Answered, Unanswered, Outcomes

\* The runbook: GitHub takes the update only if nothing came in between, so the
\* content that was read, with the note, is the file with the note.
LEMMA WriteFilePublishes ==
  ASSUME TypeOK, NEW c \in Calls, WriteFile(c)
  PROVE  Publishes(c) \/ InVain(c)
<1>1. CASE work[c].read = file /\ file' = Appended(c) /\ Carried(c, Finish(c, "ok"))
  <2>1. file' = [file EXCEPT ![c] = @ + 1]
    BY <1>1 DEF Appended
  <2> QED BY <1>1, <2>1, CarriedEnds DEF WriteFile, Publishes
<1>2. CASE NotCarried(c) /\ UNCHANGED file
  BY <1>2, NotCarriedEnds DEF WriteFile
<1> QED BY <1>1, <1>2 DEF WriteFile

LEMMA PublishPublishes ==
  ASSUME TypeOK, NEW c \in Calls, Publish(c)
  PROVE  Publishes(c) \/ InVain(c)
  BY CarriedEnds, NotCarriedEnds DEF Publish, Publishes

LEMMA ReadFileGoesOn ==
  ASSUME TypeOK, NEW c \in Calls, ReadFile(c)
  PROVE  InVain(c) \/ (GoesOn(c) /\ UNCHANGED <<file, posts, named, lost>>)
<1>1. CASE work' = [work EXCEPT ![c].pc = "write", ![c].read = file] /\ UNCHANGED lost
  <2>1. GoesOn(c)
    <3>1. work \in [Calls -> Places] /\ file \in [Authors -> Nat] /\ "write" \in Labels
      BY DEF TypeOK, Places, Labels
    <3>2. work' = [work EXCEPT ![c] = [work[c] EXCEPT !.pc = "write", !.read = file]]
      BY <1>1
    <3>3. [work[c] EXCEPT !.pc = "write", !.read = file] \in Places
      BY <3>1 DEF Places
    <3> QED BY <3>1, <3>2, <3>3 DEF GoesOn, Moves, Places
  <2> QED BY <1>1, <2>1 DEF ReadFile
<1>2. CASE NotCarried(c)
  BY <1>2, NotCarriedEnds DEF ReadFile
<1> QED BY <1>1, <1>2 DEF ReadFile

\* A channel is only created while none has the incident's name.
CreatesNamed(c, d) ==
  /\ Bearers = {} /\ d \in Unused
  /\ named' = [named EXCEPT ![d] = "incident"]
  /\ UNCHANGED <<file, posts>>
  /\ Answered(c, d) \/ Unanswered(c)

LEMMA CreateChannelNames ==
  ASSUME TypeOK, NEW c \in Calls, CreateChannel(c), work[c].kind = "channel"
  PROVE  \/ \E d \in Channels : CreatesNamed(c, d)
         \/ InVain(c)
         \/ GoesOn(c) /\ UNCHANGED <<file, posts, named, lost>>
<1>1. ASSUME Bearers = {}, NEW d \in Unused,
             named' = [named EXCEPT ![d] = "incident"], Carried(c, FinishWith(c, d))
      PROVE  d \in Channels /\ CreatesNamed(c, d)
  <2>1. d \in Channels
    BY DEF Unused
  <2> QED BY <1>1, <2>1, CarriedWithEnds DEF CreateChannel, CreatesNamed
<1>2. CASE work' = [work EXCEPT ![c].pc = "find"] /\ UNCHANGED <<named, lost>>
  <2>1. GoesOn(c)
    <3>1. /\ work' = [work EXCEPT ![c].pc = "find"] /\ work \in [Calls -> Places]
          /\ work[c] \in Places /\ "find" \in Labels
      BY <1>2 DEF TypeOK, Places, Labels
    <3>2. work'[c] = [work[c] EXCEPT !.pc = "find"]
      BY <3>1
    <3>3. /\ work'[c] \in Places /\ work'[c].pc = "find"
          /\ work'[c].outcome = work[c].outcome /\ work'[c].kind = work[c].kind
          /\ work'[c].channel = work[c].channel /\ work'[c].attempt = work[c].attempt
      BY <3>1, <3>2 DEF Places
    <3>4. Moves(c, work'[c])
      BY <3>1, <3>2 DEF Moves
    <3> QED BY <3>3, <3>4 DEF GoesOn
  <2> QED BY <1>2, <2>1 DEF CreateChannel
<1>3. CASE NotCarried(c) /\ UNCHANGED named
  BY <1>3, NotCarriedEnds DEF CreateChannel
<1> QED BY <1>1, <1>2, <1>3 DEF CreateChannel

LEMMA FindChannelFinds ==
  ASSUME TypeOK, NEW c \in Calls, FindChannel(c)
  PROVE  \/ InVain(c)
         \/ \E d \in Bearers : Answered(c, d) /\ UNCHANGED <<file, posts, named>>
<1>1. ASSUME NEW d \in Bearers, FinishWith(c, d), UNCHANGED lost
      PROVE  Answered(c, d)
  <2>1. d \in Channels
    BY DEF Bearers
  <2> QED BY <1>1, <2>1, FinishWithEnds DEF Answered
<1> QED BY <1>1, NotCarriedEnds DEF FindChannel

-----------------------------------------------------------------------------
(* The step.                                                               *)

\* What a step of c, once begun, does to the books.
Books(c) ==
  \/ InVain(c)
  \/ Publishes(c)
  \/ GoesOn(c) /\ UNCHANGED <<file, posts, named, lost>>
  \/ /\ work[c].kind = "channel"
     /\ \E d \in Channels :
          \/ CreatesNamed(c, d)
          \/ d \in Bearers /\ Answered(c, d) /\ UNCHANGED <<file, posts, named>>

Request(c) ==
  ReadFile(c) \/ WriteFile(c) \/ CreateIssue(c) \/ PostMessage(c)
    \/ CreateChannel(c) \/ FindChannel(c)

LEMMA RequestBooks ==
  ASSUME IInv, NEW c \in Calls, Request(c)
  PROVE  /\ Books(c)
         /\ work[c].pc \notin {"idle", "done"}
         /\ UNCHANGED <<setup, renamed>>
<1>1. TypeOK /\ UnderWay
  BY DEF IInv
<1>2. CASE ReadFile(c)
  BY <1>1, <1>2, ReadFileGoesOn DEF Books, ReadFile, At
<1>3. CASE WriteFile(c)
  BY <1>1, <1>3, WriteFilePublishes DEF Books, WriteFile, At
<1>4. CASE CreateIssue(c)
  BY <1>1, <1>4, PublishPublishes DEF Books, CreateIssue, Publish, At
<1>5. CASE PostMessage(c)
  BY <1>1, <1>5, PublishPublishes DEF Books, PostMessage, Publish, At
<1>6. CASE CreateChannel(c)
  <2>1. work[c].kind = "channel"
    BY <1>1, <1>6 DEF CreateChannel, At, UnderWay
  <2> QED BY <1>1, <1>6, <2>1, CreateChannelNames DEF Books, CreateChannel, At
<1>7. CASE FindChannel(c)
  <2>1. work[c].kind = "channel"
    BY <1>1, <1>7 DEF FindChannel, At, UnderWay
  <2>2. Bearers \subseteq Channels
    BY DEF Bearers
  <2> QED BY <1>1, <1>7, <2>1, <2>2, FindChannelFinds DEF Books, FindChannel, At
<1> QED BY <1>2, <1>3, <1>4, <1>5, <1>6, <1>7 DEF Request

LEMMA BooksTypeOK ==
  ASSUME IInv, NEW c \in Calls, Books(c), work[c].pc # "done", UNCHANGED <<setup, renamed>>
  PROVE  TypeOK'
<1>1. TypeOK /\ lost[c] < work[c].attempt
  BY DEF IInv, UnderWay
<1>2. work' \in [Calls -> Places]
  BY <1>1 DEF Books, InVain, Publishes, Answered, Unanswered, Over, Again, GoesOn, Moves,
     CreatesNamed, TypeOK, Places
<1>3. lost' \in [Calls -> 0..MaxAttempts]
  BY <1>1 DEF Books, InVain, Publishes, Answered, Unanswered, CreatesNamed, TypeOK
<1>4. file' \in [Authors -> Nat] /\ posts' \in [Calls -> Nat]
  BY <1>1 DEF Books, InVain, Publishes, CreatesNamed, TypeOK, Authors
<1>5. named' \in [Channels -> Names]
  BY <1>1 DEF Books, InVain, Publishes, CreatesNamed, TypeOK, Names
<1> QED BY <1>1, <1>2, <1>3, <1>4, <1>5 DEF TypeOK, Places

\* The other calls' books stay closed.
LEMMA BooksOfOthers ==
  ASSUME IInv, NEW c \in Calls, Books(c), NEW e \in Calls, e # c
  PROVE  work'[e] = work[e] /\ lost'[e] = lost[e] /\ Sum(e)' = Sum(e)
<1>1. TypeOK
  BY DEF IInv
<1>2. work' = [work EXCEPT ![c] = work'[c]]
  BY DEF Books, InVain, Publishes, Answered, Unanswered, Over, Again, GoesOn, Moves,
     CreatesNamed
<1>3. work'[e] = work[e]
  BY <1>1, <1>2 DEF TypeOK
<1>4. lost'[e] = lost[e]
  BY <1>1 DEF Books, InVain, Publishes, Answered, Unanswered, CreatesNamed, TypeOK
<1>5. file'[e] = file[e] /\ posts'[e] = posts[e]
  BY <1>1 DEF Books, InVain, Publishes, CreatesNamed, TypeOK, Authors
<1> QED BY <1>3, <1>4, <1>5 DEF Sum

LEMMA BooksUnderWay ==
  ASSUME IInv, NEW c \in Calls, Books(c), work[c].pc \notin {"idle", "done"}
  PROVE  UnderWay'
<1>1. TypeOK /\ UnderWay
  BY DEF IInv
<1>2. work[c].kind \in Kinds
  BY <1>1 DEF TypeOK
<1>3. First(work[c].kind) = "create" => work[c].kind = "channel"
  BY <1>2 DEF First, Kinds
<1>4. First(work[c].kind) # "find"
  BY <1>2 DEF First, Kinds
<1>5. lost[c] < work[c].attempt /\ work[c].outcome = "none"
  BY <1>1 DEF UnderWay
<1>6. work'[c].pc # "done" =>
        /\ work'[c].outcome = "none"
        /\ work'[c].pc \in {"create", "find"} => work'[c].kind = "channel"
        /\ lost'[c] < work'[c].attempt
  BY <1>1, <1>3, <1>4, <1>5
     DEF Books, InVain, Publishes, Answered, Unanswered, Over, Again, GoesOn,
         CreatesNamed, TypeOK
<1> QED BY <1>1, <1>6, BooksOfOthers DEF UnderWay

\* Only a lost answer adds to what was published without telling the caller.
LEMMA BooksBalance ==
  ASSUME IInv, NEW c \in Calls, Books(c), work[c].pc \notin {"idle", "done"}
  PROVE  Tally' /\ ToldWhatWasWritten'
<1>1. TypeOK /\ UnderWay /\ Tally /\ ToldWhatWasWritten
  BY DEF IInv
<1>2. /\ lost[c] \in Nat /\ file[c] \in Nat /\ posts[c] \in Nat
      /\ work[c].outcome = "none"
      /\ work[c].kind # "channel" => Sum(c) = lost[c]
  BY <1>1 DEF TypeOK, Authors, UnderWay, Tally, Sum
<1>3. CASE InVain(c)
  <2>1. Sum(c)' = Sum(c) /\ lost'[c] = lost[c]
    BY <1>3 DEF InVain, Sum
  <2>2. /\ work'[c].kind = work[c].kind
        /\ work'[c].outcome \in {"refused", "failed", "none"}
        /\ work'[c].pc # "idle"
    BY <1>1, <1>2, <1>3 DEF InVain, Over, Again, First, TypeOK, Kinds
  <2> QED BY <1>1, <1>2, <2>1, <2>2, BooksOfOthers DEF Tally, ToldWhatWasWritten, Sum
<1>4. CASE Publishes(c)
  <2>1. Sum(c)' = Sum(c) + 1
    BY <1>1, <1>2, <1>4 DEF Publishes, TypeOK, Authors, Sum
  <2>2. CASE Answered(c, work[c].channel)
    <3>1. /\ work'[c].kind = work[c].kind
          /\ work'[c].outcome \in {"ok", "malformed"}
          /\ work'[c].pc = "done" /\ lost'[c] = lost[c]
      BY <2>2 DEF Answered, Over
    <3> QED BY <1>1, <1>2, <2>1, <3>1, BooksOfOthers DEF Tally, ToldWhatWasWritten, Sum
  <2>3. CASE Unanswered(c)
    <3>1. lost'[c] = lost[c] + 1
      BY <1>1, <2>3 DEF Unanswered, TypeOK
    <3>2. /\ work'[c].kind = work[c].kind
          /\ work'[c].outcome \in {"failed", "none"}
          /\ work'[c].pc # "idle"
      BY <1>1, <1>2, <2>3 DEF Unanswered, Over, Again, First, TypeOK, Kinds
    <3> QED BY <1>1, <1>2, <2>1, <3>1, <3>2, BooksOfOthers
            DEF Tally, ToldWhatWasWritten, Sum
  <2> QED BY <1>4, <2>2, <2>3 DEF Publishes
<1>5. CASE GoesOn(c) /\ UNCHANGED <<file, posts, named, lost>>
  <2>1. /\ work'[c].kind = work[c].kind /\ work'[c].outcome = "none"
        /\ work'[c].pc # "idle"
    BY <1>2, <1>5 DEF GoesOn
  <2> QED BY <1>1, <1>2, <1>5, <2>1, BooksOfOthers DEF Tally, ToldWhatWasWritten, Sum
<1>6. ASSUME work[c].kind = "channel", NEW d \in Channels,
             CreatesNamed(c, d)
               \/ (Answered(c, d) /\ UNCHANGED <<file, posts, named>>)
      PROVE  Tally' /\ ToldWhatWasWritten'
  <2>1. work'[c].kind = "channel" /\ work'[c].pc # "idle"
    BY <1>1, <1>6 DEF CreatesNamed, Answered, Unanswered, Over, Again, First
  <2> QED BY <1>1, <2>1, BooksOfOthers DEF Tally, ToldWhatWasWritten, Sum
<1> QED BY <1>3, <1>4, <1>5, <1>6 DEF Books

\* A channel gets the name only while none has it, and a call is given only the
\* one that has it.
LEMMA BooksOneBearer ==
  ASSUME IInv, NEW c \in Calls, Books(c), UNCHANGED renamed
  PROVE  OneBearer'
<1>1. TypeOK /\ OneBearer
  BY DEF IInv
<1>2. CASE UNCHANGED named /\ work'[c].channel \in {work[c].channel} \cup Bearers
  <2>1. Bearers' = Bearers
    BY <1>2 DEF Bearers
  <2> QED BY <1>1, <1>2, <2>1, BooksOfOthers DEF OneBearer
<1>3. ASSUME NEW d \in Channels, CreatesNamed(c, d)
      PROVE  OneBearer'
  <2>1. Bearers' = {d}
    BY <1>1, <1>3 DEF CreatesNamed, Bearers, TypeOK
  <2>2. work'[c].channel \in {work[c].channel, d}
    BY <1>3 DEF CreatesNamed, Answered, Unanswered, Over, Again
  <2>3. ~renamed => \A e \in Calls : work[e].channel = NoChannel
    BY <1>1, <1>3 DEF OneBearer, CreatesNamed
  <2> QED BY <2>1, <2>2, <2>3, BooksOfOthers DEF OneBearer
<1>4. CASE InVain(c) \/ Publishes(c)
             \/ (GoesOn(c) /\ UNCHANGED <<file, posts, named, lost>>)
  <2>1. UNCHANGED named /\ work'[c].channel = work[c].channel
    BY <1>4 DEF InVain, Publishes, Answered, Unanswered, Over, Again, GoesOn
  <2> QED BY <1>2, <2>1
<1>5. ASSUME NEW d \in Bearers, Answered(c, d), UNCHANGED named
      PROVE  OneBearer'
  <2>1. work'[c].channel \in {work[c].channel, d}
    BY <1>5 DEF Answered, Over
  <2> QED BY <1>2, <1>5, <2>1
<1> QED BY <1>3, <1>4, <1>5 DEF Books

LEMMA RequestIInv ==
  ASSUME IInv, NEW c \in Calls, Request(c)
  PROVE  IInv'
  BY RequestBooks, BooksTypeOK, BooksUnderWay, BooksBalance, BooksOneBearer DEF IInv

LEMMA BeginIInv ==
  ASSUME IInv, NEW c \in Calls, Begin(c)
  PROVE  IInv'
<1>1. TypeOK /\ UnderWay /\ Tally /\ ToldWhatWasWritten /\ OneBearer
  BY DEF IInv
<1>2. PICK kind \in Kinds, outcome \in {"none", "skipped", "stood_in", "refused"} :
        work' = [work EXCEPT ![c].kind = kind, ![c].outcome = outcome,
                             ![c].pc = IF outcome = "none" THEN First(kind) ELSE "done"]
  BY DEF Begin
<1>3. First(kind) \in Labels \ {"idle", "done", "find"}
      /\ (First(kind) = "create" => kind = "channel")
  BY DEF First, Kinds, Labels
<1>4. /\ Moves(c, work'[c])
      /\ work'[c] \in Places
      /\ work'[c].kind = kind /\ work'[c].outcome = outcome
      /\ work'[c].pc = IF outcome = "none" THEN First(kind) ELSE "done"
      /\ work'[c].attempt = work[c].attempt /\ work'[c].channel = work[c].channel
  <2> DEFINE next == IF outcome = "none" THEN First(kind) ELSE "done"
  <2>1. next \in Labels /\ outcome \in Outcomes
    BY <1>3 DEF Labels, Outcomes
  <2>2. work' = [work EXCEPT ![c].kind = kind, ![c].outcome = outcome, ![c].pc = next]
    BY <1>2
  <2> HIDE DEF next
  <2>3. /\ Moves(c, work'[c])
        /\ work'[c] \in Places
        /\ work'[c].kind = kind /\ work'[c].outcome = outcome
        /\ work'[c].pc = next
        /\ work'[c].attempt = work[c].attempt /\ work'[c].channel = work[c].channel
    <3>1. work \in [Calls -> Places]
      BY <1>1 DEF TypeOK, Places
    <3>2. work' = [work EXCEPT ![c] = [work[c] EXCEPT !.kind = kind, !.outcome = outcome,
                                                     !.pc = next]]
      BY <2>2
    <3>3. [work[c] EXCEPT !.kind = kind, !.outcome = outcome, !.pc = next] \in Places
      BY <2>1, <3>1 DEF Places
    <3> QED BY <3>1, <3>2, <3>3 DEF Moves, Places
  <2> QED BY <2>3 DEF next
<1>5. UNCHANGED <<setup, file, posts, named, lost, renamed>> /\ work[c].pc = "idle"
  BY DEF Begin, At
<1>6. \A e \in Calls : e # c => work'[e] = work[e]
  BY <1>1, <1>4 DEF Moves, TypeOK
<1>7. TypeOK'
  <2>1. work' \in [Calls -> Places]
    BY <1>1, <1>4 DEF TypeOK, Moves, Places
  <2> QED BY <1>1, <1>5, <2>1 DEF TypeOK, Places
<1>8. UnderWay'
  BY <1>1, <1>3, <1>4, <1>5, <1>6 DEF UnderWay
<1>9. Tally' /\ ToldWhatWasWritten'
  BY <1>1, <1>3, <1>4, <1>5, <1>6 DEF Tally, ToldWhatWasWritten
<1>10. OneBearer'
  BY <1>1, <1>4, <1>5, <1>6 DEF OneBearer, Bearers
<1> QED BY <1>7, <1>8, <1>9, <1>10 DEF IInv

LEMMA OthersIInv ==
  ASSUME IInv, OthersEdit \/ Rename \/ UNCHANGED vars
  PROVE  IInv'
<1>1. TypeOK /\ UnderWay /\ Tally /\ ToldWhatWasWritten /\ OneBearer
  BY DEF IInv
<1>2. CASE OthersEdit
  <2>1. file' \in [Authors -> Nat] /\ \A c \in Calls : file'[c] = file[c]
    BY <1>1, <1>2 DEF OthersEdit, TypeOK, Authors
  <2>2. TypeOK' /\ UnderWay'
    BY <1>1, <1>2, <2>1 DEF OthersEdit, TypeOK, UnderWay
  <2>3. Tally' /\ ToldWhatWasWritten' /\ OneBearer'
    BY <1>1, <1>2, <2>1 DEF OthersEdit, Tally, ToldWhatWasWritten, OneBearer, Bearers
  <2> QED BY <2>2, <2>3 DEF IInv
<1>3. CASE Rename
  <2>1. named' \in [Channels -> Names] /\ Bearers' \subseteq Bearers
    BY <1>1, <1>3 DEF Rename, TypeOK, Names, Bearers
  <2>2. TypeOK' /\ UnderWay' /\ Tally' /\ ToldWhatWasWritten'
    BY <1>1, <1>3, <2>1 DEF Rename, TypeOK, UnderWay, Tally, ToldWhatWasWritten
  <2>3. OneBearer'
    BY <1>1, <1>3, <2>1 DEF Rename, OneBearer
  <2> QED BY <2>2, <2>3 DEF IInv
<1>4. CASE UNCHANGED vars
  BY <1>1, <1>4 DEF vars, IInv, TypeOK, UnderWay, Tally, ToldWhatWasWritten, OneBearer, Bearers
<1> QED BY <1>2, <1>3, <1>4

LEMMA InitIInv == Init => IInv
<1> SUFFICES ASSUME Init PROVE IInv
  OBVIOUS
<1>1. NewCall \in Places
  BY DEF NewCall, Places, Labels, Kinds, Outcomes
<1>2. TypeOK
  <2>1. setup \in Setup /\ renamed \in BOOLEAN
    BY DEF Init
  <2>2. /\ file \in [Authors -> Nat] /\ posts \in [Calls -> Nat]
        /\ lost \in [Calls -> 0..MaxAttempts]
    BY DEF Init
  <2>3. named \in [Channels -> Names]
    BY DEF Init, Names
  <2>4. work \in [Calls -> Places]
    BY <1>1 DEF Init
  <2> QED BY <2>1, <2>2, <2>3, <2>4 DEF TypeOK, Places
<1>3. UnderWay
  BY DEF Init, NewCall, UnderWay
<1>4. Tally /\ ToldWhatWasWritten
  BY DEF Init, NewCall, Tally, ToldWhatWasWritten, Authors
<1>5. OneBearer
  BY DEF Init, NewCall, OneBearer, Bearers
<1> QED BY <1>2, <1>3, <1>4, <1>5 DEF IInv

LEMMA NextIInv == IInv /\ [Next]_vars => IInv'
  BY RequestIInv, BeginIInv, OthersIInv DEF Next, CallStep, Request

\* Every state that the steps of the code reach satisfies the inductive invariant.
THEOREM Invariance == Spec => []IInv
  BY InitIInv, NextIInv, PTL DEF Spec

-----------------------------------------------------------------------------
(* What follows.                                                           *)

\* The books of any number of calls keep their types.
THEOREM TypeCorrectness == Spec => []TypeOK
<1>1. IInv => TypeOK
  BY DEF IInv
<1> QED BY <1>1, Invariance, PTL

\* However many attempts a call may make, a note, an issue or a message is
\* published once more than answers were lost if the caller is told so, and
\* exactly as often as answers were lost if it is told that it was not.
THEOREM CallersAreToldWhatWasWritten == Spec => []ToldWhatWasWritten
<1>1. IInv => ToldWhatWasWritten
  BY DEF IInv
<1> QED BY <1>1, Invariance, PTL

\* However many calls race, and however many channels the workspace has, those
\* that are given a channel are given the same one until somebody renames it.
THEOREM RacingCallsShareTheChannel == Spec => []SameChannel
<1>1. IInv => SameChannel
  BY DEF IInv, OneBearer, SameChannel
<1> QED BY <1>1, Invariance, PTL

LEMMA NextKeepsNotes == IInv /\ [Next]_vars => [\A a \in Authors : file'[a] >= file[a]]_vars
<1> SUFFICES ASSUME IInv, Next PROVE \A a \in Authors : file'[a] >= file[a]
  OBVIOUS
<1>1. TypeOK
  BY DEF IInv
<1>2. CASE UNCHANGED file
  BY <1>1, <1>2 DEF TypeOK
<1>3. ASSUME NEW b \in Authors, file' = [file EXCEPT ![b] = @ + 1]
      PROVE  \A a \in Authors : file'[a] >= file[a]
  BY <1>1, <1>3 DEF TypeOK
<1>4. ASSUME NEW c \in Calls, Request(c)
      PROVE  UNCHANGED file \/ file' = [file EXCEPT ![c] = @ + 1]
  BY <1>4, RequestBooks DEF Books, InVain, Publishes, CreatesNamed
<1>5. Next => OthersEdit \/ Rename \/ \E c \in Calls : Begin(c) \/ Request(c)
  BY DEF Next, CallStep, Request
<1> QED BY <1>2, <1>3, <1>4, <1>5 DEF OthersEdit, Rename, Begin, Authors

\* No step, whoever takes it, removes a note from the runbook.
THEOREM NotesAreKept == Spec => NotesSurvive
  BY Invariance, NextKeepsNotes, PTL DEF Spec, NotesSurvive
==============================================================================
