---------------------------- MODULE ProviderReads ----------------------------
(***************************************************************************)
(* A read of a provider's listing: the pages it is fetched in while the    *)
(* listing changes, how each client recognises the last page, what it does *)
(* at the page limit, and which answers it refuses to use as evidence.     *)
(*                                                                         *)
(* An item is a number, newer items have larger ones, and listings come    *)
(* newest first; of what a read has collected the model keeps the items,   *)
(* not their order, nor that one is collected twice if the listing grows   *)
(* between two pages.  An item may have a flaw.  The provider tells the    *)
(* truth about further pages when it tells anything; it may also leave the *)
(* field out or send something malformed, and any request may fail.        *)
(*                                                                         *)
(* A definition whose comment starts with "Faulty" is no part of the       *)
(* model: it is the definition after it with a bug put in, kept to try     *)
(* that the properties notice.                                             *)
(***************************************************************************)
EXTENDS Naturals, FiniteSets

CONSTANTS
  Items,      \* the numbers of the items a listing may hold
  PageSize,   \* items on a page (10 to 200 in the code)
  MaxPages    \* the largest page limit of a read (25 by default)

ASSUME ProviderReadsAssumption ==
  /\ Items \subseteq Nat \ {0} /\ IsFiniteSet(Items)
  /\ PageSize \in Nat \ {0}
  /\ MaxPages \in Nat \ {0}

VARIABLES
  listing,   \* the items the provider holds
  flawed,    \* the item whose answer is flawed, and how
  read,      \* the read under way, or the last one
  steady,    \* history: items the provider held throughout the read
  removed    \* history: an item was removed during the read

readVars == <<listing, flawed, read, steady, removed>>

-----------------------------------------------------------------------------
(* How each client pages its reads.                                        *)
(*   link    a Link header names the next page                             *)
(*   cursor  a cursor names the next page; a full page needs one           *)
(*   slack   the same, if the field that holds the cursor is missing       *)
(*   count   the answer tells the number of pages                          *)
(*   more    the answer tells whether there is more after this offset      *)
(*   short   a page that is not full is the last one                       *)
(*   newest  one answer with at most a page of the newest items: a query    *)
(*           with a limit, and the combined status of a commit, of which    *)
(*           only the first page is asked for and no count is looked at     *)
(*   single  one answer with everything                                    *)

DatadogReads ==
  [logs |-> "cursor", metric |-> "single", spans |-> "cursor",
   monitor_search |-> "count", monitors |-> "short", dashboard |-> "single"]

PrometheusReads ==
  [query_range |-> "single", query |-> "single", rules |-> "single", targets |-> "single"]

LokiReads == [loki_query_range |-> "newest", labels |-> "single"]

GitHubHistoryReads ==
  [commits |-> "link", pull_request |-> "single", pull_requests |-> "link",
   pull_request_files |-> "link", pull_request_commits |-> "link"]

GitHubDeploymentReads ==
  [deployments |-> "link", deployment_statuses |-> "link", statuses |-> "newest"]

GitHubCheckReads == [check_runs |-> "link", contents |-> "single"]

PagerDutyReads == [incident |-> "single", incidents |-> "more", on_calls |-> "more"]

SlackReads == [channels |-> "slack"]

RepositoryReads ==
  DOMAIN GitHubHistoryReads \cup DOMAIN GitHubDeploymentReads \cup DOMAIN GitHubCheckReads

Endpoints ==
  DOMAIN DatadogReads \cup DOMAIN PrometheusReads \cup DOMAIN LokiReads
    \cup RepositoryReads \cup DOMAIN PagerDutyReads \cup DOMAIN SlackReads

Style ==
  [e \in Endpoints |->
     CASE e \in DOMAIN DatadogReads          -> DatadogReads[e]
       [] e \in DOMAIN PrometheusReads       -> PrometheusReads[e]
       [] e \in DOMAIN LokiReads             -> LokiReads[e]
       [] e \in DOMAIN GitHubHistoryReads    -> GitHubHistoryReads[e]
       [] e \in DOMAIN GitHubDeploymentReads -> GitHubDeploymentReads[e]
       [] e \in DOMAIN GitHubCheckReads      -> GitHubCheckReads[e]
       [] e \in DOMAIN PagerDutyReads        -> PagerDutyReads[e]
       [] e \in DOMAIN SlackReads            -> SlackReads[e]]

\* The reads whose next page starts after the last item of this one; the
\* others count items from the start of the listing.
Keyset == {"cursor", "slack"}

-----------------------------------------------------------------------------
(* What each client refuses in an item of an answer.                       *)
(*   not_object  it is not an object (or, of labels, not a string)         *)
(*   no_id       nothing identifies it: no id, sha, number, path, filename *)
(*               or user, no labels of a series or stream                  *)
(*   no_link     no URL or name says what repository it belongs to         *)
(*   foreign     what says so names another repository                     *)
(*   other       it is not the object that was asked for, or its URL names *)
(*               another object than its id does                           *)
(*   no_content  no state, value, line or name that the caller uses        *)
(*   undated     it has no date; nobody refuses that                       *)

Flaws ==
  {"not_object", "no_id", "no_link", "foreign", "other", "no_content", "undated"}

DatadogRefuses ==
  [metric |-> {"not_object", "no_content"}, dashboard |-> {},
   monitors |-> {"not_object", "no_id"}, monitor_search |-> {"not_object", "no_id"},
   logs |-> {"not_object", "no_id"}, spans |-> {"not_object", "no_id"}]

PrometheusRefuses ==
  [q \in DOMAIN PrometheusReads |->
     IF q \in {"rules", "targets"} THEN {"not_object"}
                                   ELSE {"not_object", "no_id", "no_content"}]

LokiRefuses ==
  [loki_query_range |-> {"not_object", "no_id", "no_content"}, labels |-> {"not_object"}]

\* Of a file only the path is checked, never the repository.
ContentsRefuses == [contents |-> {"not_object", "no_id", "other"}]

\* Faulty: the deployments of another repository are accepted.
HistoryRefusesLess ==
  [e \in {"commits", "pull_request_commits", "deployments"} |->
     {"not_object", "no_id", "no_link", "other"}
       \cup (IF e = "deployments" THEN {} ELSE {"foreign"})]

\* A commit's URL must name the repository and its own sha, a deployment's
\* URL the repository and its own id.
HistoryRefuses ==
  [e \in {"commits", "pull_request_commits", "deployments"} |->
     {"not_object", "no_id", "no_link", "foreign", "other"}]

PullRequestRefuses ==
  [e \in {"pull_request", "pull_requests", "pull_request_files"} |->
     {"not_object", "no_id", "no_link", "foreign", "other"}]

\* A combined status has no id of its own, and of which commit it is the
\* status is not checked.
StatusRefuses ==
  [deployment_statuses |->
     {"not_object", "no_id", "no_link", "foreign", "other", "no_content"},
   statuses |-> {"not_object", "no_link", "foreign", "no_content"}]

CheckRunRefuses ==
  [check_runs |-> {"not_object", "no_id", "no_link", "foreign", "other", "no_content"}]

PagerDutyRefuses ==
  [incident |-> {"not_object", "no_id", "other", "no_content"},
   incidents |-> {"not_object", "no_id", "no_content"},
   on_calls |-> {"not_object", "no_id"}]

ChannelRefuses == [channels |-> {"not_object", "no_id", "no_content"}]

Refuses ==
  [e \in Endpoints |->
     CASE e \in DOMAIN DatadogRefuses     -> DatadogRefuses[e]
       [] e \in DOMAIN PrometheusRefuses  -> PrometheusRefuses[e]
       [] e \in DOMAIN LokiRefuses        -> LokiRefuses[e]
       [] e \in DOMAIN ContentsRefuses    -> ContentsRefuses[e]
       [] e \in DOMAIN HistoryRefuses     -> HistoryRefuses[e]
       [] e \in DOMAIN PullRequestRefuses -> PullRequestRefuses[e]
       [] e \in DOMAIN StatusRefuses      -> StatusRefuses[e]
       [] e \in DOMAIN CheckRunRefuses    -> CheckRunRefuses[e]
       [] e \in DOMAIN PagerDutyRefuses   -> PagerDutyRefuses[e]
       [] e \in DOMAIN ChannelRefuses     -> ChannelRefuses[e]]

\* What is looked at page by page; the rest when all pages are in.
RefusesOnPage(e) ==
  CASE Style[e] = "link" -> {}
    [] Style[e] = "cursor" -> {"not_object"}
    [] OTHER -> Refuses[e]

-----------------------------------------------------------------------------
(* The page that is asked for, and what the provider says about the next.  *)

\* How many items of a listing come before i.
Newer(i, items) == {j \in items : j > i}
Rank(i, items)  == Cardinality(Newer(i, items))

\* The items from the first one of the page on.
Ahead ==
  IF Style[read.endpoint] \in Keyset
    THEN {i \in listing : \A j \in read.got : i < j}
    ELSE {i \in listing : Rank(i, listing) >= read.page * PageSize}

\* The first items of a listing, and the page.
First(items, n) == {i \in items : Rank(i, items) < n}

Batch == IF Style[read.endpoint] = "single" THEN Ahead ELSE First(Ahead, PageSize)

Full      == Cardinality(Batch) = PageSize
MoreAhead == Batch # Ahead

Signals == {"more", "last", "absent", "malformed"}

\* A Link header or a count is never left out silently, and a cursor only
\* where a full page makes the client doubt that it is the last.
MaySay(signal) ==
  CASE signal = "more" -> MoreAhead
    [] signal = "last" -> ~MoreAhead
    [] signal = "absent" ->
         \/ Style[read.endpoint] \in {"more", "count"}
         \/ Style[read.endpoint] \in Keyset /\ (MoreAhead => Full)
    [] OTHER -> TRUE

-----------------------------------------------------------------------------
(* Whether a client stops, goes on or refuses after a page.                *)

LinkVerdict(signal) == IF signal = "more" THEN "go" ELSE "stop"

\* Faulty: a full page without a cursor is the last one.
CursorVerdictTrusting(signal) == IF signal = "more" THEN "go" ELSE "stop"

CursorVerdict(signal) ==
  IF signal = "more" THEN "go"
  ELSE IF Full /\ ~read.allow THEN "refuse"
  ELSE "stop"

SlackVerdict(signal) ==
  IF signal = "more" THEN "go"
  ELSE IF signal = "absent" /\ Full /\ ~read.allow THEN "refuse"
  ELSE "stop"

CountVerdict(signal) ==
  CASE signal = "absent" -> IF Batch = {} THEN "stop" ELSE IF read.allow THEN "go" ELSE "refuse"
    [] signal = "last" -> "stop"
    [] OTHER -> "go"

MoreVerdict(signal) ==
  CASE signal = "absent" -> IF Batch = {} THEN "stop" ELSE IF read.allow THEN "go" ELSE "refuse"
    [] signal = "last" -> "stop"
    [] OTHER -> "go"

ShortVerdict == IF Full THEN "go" ELSE "stop"

Verdict(signal) ==
  IF signal = "malformed" THEN "refuse" ELSE
  CASE Style[read.endpoint] = "link" -> LinkVerdict(signal)
    [] Style[read.endpoint] = "cursor" -> CursorVerdict(signal)
    [] Style[read.endpoint] = "slack" -> SlackVerdict(signal)
    [] Style[read.endpoint] = "count" -> CountVerdict(signal)
    [] Style[read.endpoint] = "more" -> MoreVerdict(signal)
    [] Style[read.endpoint] = "short" -> ShortVerdict
    [] OTHER -> "stop"

\* Faulty: the page limit is not looked at.
LimitedNever(verdict) == verdict

\* At the page limit a read is refused unless its caller allows it to be cut.
Limited(verdict) ==
  IF verdict = "go" /\ read.page + 1 >= read.limit
    THEN IF read.allow THEN "cut" ELSE "refuse"
    ELSE verdict

-----------------------------------------------------------------------------
(* The read.                                                               *)

Shows(items, flaws) == flawed.item \in items /\ flawed.kind \in flaws

NoFlaw == [item |-> 0, kind |-> "undated"]

NoRead ==
  [pc |-> "idle", endpoint |-> "commits", allow |-> FALSE, limit |-> 1, since |-> 0,
   page |-> 0, got |-> {}, statuses |-> 0, truncated |-> FALSE, outcome |-> "none"]

\* Only deployments are filtered by their date here; for the other reads the
\* window is a part of the query.
BeginRead ==
  /\ read.pc = "idle"
  /\ listing' \in SUBSET Items
  /\ steady' = listing'
  /\ removed' = FALSE
  /\ \E e \in Endpoints, allow \in BOOLEAN, limit \in 1..MaxPages, since \in Items \cup {0},
        item \in Items, kind \in Flaws :
       /\ e # "deployments" => since = 0 /\ kind # "undated"
       /\ read' = [NoRead EXCEPT !.pc = "reading", !.endpoint = e, !.allow = allow,
                                 !.limit = limit, !.since = since]
       /\ flawed' = [item |-> item, kind |-> kind]

\* The read ends without a result; the pages it had are dropped.
Abandon(outcome) ==
  read' = [read EXCEPT !.pc = "done", !.got = {}, !.outcome = outcome]

\* A deployment without a date is in every window.
Kept(i) == i >= read.since \/ (flawed.item = i /\ flawed.kind = "undated")

StatusLimit == PageSize

\* All pages are in: what is left to check is checked, deployments are
\* filtered, and the statuses of the first few are to be read.
Conclude(items, truncated) ==
  IF Shows(items, Refuses[read.endpoint]) THEN Abandon("malformed")
  ELSE IF read.endpoint = "deployments" THEN
    LET kept == {i \in items : Kept(i)}
    IN read' = [read EXCEPT !.pc = "statuses", !.got = kept, !.truncated = truncated,
                            !.statuses = Cardinality(First(kept, StatusLimit))]
  ELSE read' = [read EXCEPT !.pc = "done", !.got = items, !.outcome = "ok"]

Turn(items) == read' = [read EXCEPT !.page = @ + 1, !.got = items]

Fetch ==
  /\ read.pc = "reading"
  /\ \E signal \in Signals :
       /\ MaySay(signal)
       /\ LET verdict == Limited(Verdict(signal))
              items   == read.got \cup Batch
          IN IF Shows(Batch, RefusesOnPage(read.endpoint)) \/ verdict = "refuse"
               THEN Abandon("malformed")
             ELSE IF verdict = "go" THEN Turn(items)
             ELSE Conclude(items, verdict = "cut")
  /\ UNCHANGED <<listing, flawed, steady, removed>>

\* The statuses of one deployment are read, itself a read of the kind above.
FetchStatuses ==
  /\ read.pc = "statuses"
  /\ \/ /\ read.statuses > 0
        /\ \/ read' = [read EXCEPT !.statuses = @ - 1]
           \/ Abandon("malformed")
     \/ /\ read.statuses = 0
        /\ read' = [read EXCEPT !.pc = "done", !.outcome = "ok"]
  /\ UNCHANGED <<listing, flawed, steady, removed>>

\* A request fails: an outage, a limit, a refusal.
RequestFails ==
  /\ read.pc \in {"reading", "statuses"}
  /\ Abandon("failed")
  /\ UNCHANGED <<listing, flawed, steady, removed>>

\* The caller has its result; nothing is kept for the next read.
Return ==
  /\ read.pc = "done"
  /\ read' = NoRead
  /\ listing' = {} /\ steady' = {} /\ removed' = FALSE
  /\ flawed' = NoFlaw

-----------------------------------------------------------------------------
(* The listing changes while it is read.                                   *)

Appears ==
  /\ read.pc = "reading"
  /\ \E i \in Items \ listing : listing' = listing \cup {i}
  /\ UNCHANGED <<flawed, read, steady, removed>>

Disappears ==
  /\ read.pc = "reading"
  /\ \E i \in listing : listing' = listing \ {i} /\ steady' = steady \ {i}
  /\ removed' = TRUE
  /\ UNCHANGED <<flawed, read>>

-----------------------------------------------------------------------------
ReadInit ==
  /\ listing = {}
  /\ flawed = NoFlaw
  /\ read = NoRead
  /\ steady = {}
  /\ removed = FALSE

ReadStep == Fetch \/ FetchStatuses \/ RequestFails

ReadNext == BeginRead \/ ReadStep \/ Return \/ Appears \/ Disappears

ReadSpec == ReadInit /\ [][ReadNext]_readVars

-----------------------------------------------------------------------------
(* What must hold.                                                         *)

Reads ==
  [pc : {"idle", "reading", "statuses", "done"}, endpoint : Endpoints, allow : BOOLEAN,
   limit : 1..MaxPages, since : Items \cup {0}, page : Nat, got : SUBSET Items,
   statuses : Nat, truncated : BOOLEAN, outcome : {"none", "ok", "malformed", "failed"}]

ReadTypeOK ==
  /\ listing \subseteq Items
  /\ steady \subseteq listing
  /\ removed \in BOOLEAN
  /\ flawed \in [item : Items \cup {0}, kind : Flaws]
  /\ read \in Reads
  /\ read.page < read.limit

Succeeded == read.pc = "done" /\ read.outcome = "ok"

\* The caller may take the result for the whole listing: it did not allow a
\* cut, or is told that there was none, as for deployments.
TakenForWhole == ~read.allow \/ (read.endpoint = "deployments" /\ ~read.truncated)

\* A read that is taken for the whole listing has every item that was there
\* from its start to its end, however the listing grew, and, of reads with a
\* cursor, shrank: bounded pagination refuses "rather than silently truncating
\* evidence" (ISSUES.md:381).  Loki's query and the combined status, which are
\* not read in pages, are left out.
CompleteOrRefused ==
  Succeeded /\ TakenForWhole /\ Style[read.endpoint] # "newest"
    /\ (removed => Style[read.endpoint] \in Keyset)
  => \A i \in steady : Kept(i) => i \in read.got

\* The reads of what belongs to one object that the caller names.
OfOneObject == {"pull_request", "deployment_statuses", "contents", "incident"}

\* What a read returns from the repository belongs to that repository, on
\* whichever page it came - except a file, of which only the path is checked.
\* What is asked for by its number, id or path is that, and what is cited has
\* something to be cited by.
EvidenceIsNamed ==
  Succeeded =>
    /\ read.endpoint \in RepositoryReads \ {"contents"}
         => ~Shows(read.got, {"not_object", "foreign"})
    /\ read.endpoint \in OfOneObject => ~Shows(read.got, {"not_object", "other"})
    /\ read.endpoint \in {"commits", "deployments", "logs", "spans", "incidents", "on_calls"}
         => ~Shows(read.got, {"not_object", "no_id"})
=============================================================================
