---------------------------- MODULE OAuthInstall ----------------------------
(***************************************************************************)
(* The installation of an OAuth provider and the use of its token: one-    *)
(* time states, the exchange of the code, the stored token, and the        *)
(* refresh that a run makes when the token is about to expire.  The        *)
(* provider is Datadog; Slack and GitHub take the same steps, without the  *)
(* verifier and without refresh tokens.                                    *)
(*                                                                         *)
(* The requests and the background runs are threads over ManagedStore.     *)
(***************************************************************************)
EXTENDS ManagedStore

CONSTANTS
  OAuthStates,  \* states that this process may issue
  MaxGrants     \* bound: refresh tokens the provider grants

ASSUME OAuthInstallAssumption == MaxGrants \in Nat

VARIABLES
  states,     \* what the store remembers of each state, and its age
  redeemed,   \* provider: states whose code has been exchanged
  rotates,    \* provider: a refresh replaces the refresh token
  granted,    \* provider: refresh tokens granted so far
  valid,      \* provider: refresh tokens it accepts
  stored,     \* the Datadog record of the store
  exchanges,  \* history: exchanges asked for with each state, up to 2
  lost,       \* history: a new token did not reach the store
  bare        \* history: the last installation came without a refresh token

oauthVars == <<states, redeemed, rotates, granted, valid, stored, exchanges, lost, bare>>
vars      == <<storeVars, oauthVars>>

-----------------------------------------------------------------------------
(* Tokens.                                                                 *)

NoRefresh == 0
Refreshes == 1..MaxGrants

\* due: less than five minutes before it expires, or after.
Tokens == [held : BOOLEAN, refresh : {NoRefresh} \cup Refreshes, due : BOOLEAN]

NoToken == [held |-> FALSE, refresh |-> NoRefresh, due |-> FALSE]

Fresh(refresh) == [held |-> TRUE, refresh |-> refresh, due |-> FALSE]

\* A due token without a refresh token is used as it is.
RefreshDue(token) == token.due /\ token.refresh # NoRefresh

\* What missing_live_credentials says of the stored token.
Present(token) == token.held /\ (token.due => token.refresh # NoRefresh)

Idle == [pc |-> "idle", job |-> "none", state |-> "none", token |-> NoToken,
         store |-> Unavailable, fresh |-> Unavailable]

\* The request is answered, or the background task ends.
Ends(t) == thread' = [thread EXCEPT ![t] = Idle]

\* The first step of a job once it has a store.
FirstStep(t) ==
  [health |-> "leave", install |-> "issue", callback |-> "lookup", run |-> "check"][thread[t].job]

Begin(t, job, state) ==
  /\ At(t, "idle")
  /\ thread' = [thread EXCEPT ![t] = [Idle EXCEPT !.pc = "read", !.job = job, !.state = state]]
  /\ UNCHANGED <<up, conn, current, faults, oauthVars>>

\* save_oauth_token and load_oauth_token.
Save(t, token) == Carried(t) /\ stored' = token
Load(t)        == Carried(t) /\ UNCHANGED oauthVars

-----------------------------------------------------------------------------
(* The install endpoint: a state and a verifier, then the redirect.        *)

Installing(state) == \E t \in Threads : thread[t].job = "install" /\ thread[t].state = state

BeginInstall(t, state) ==
  /\ ~states[state].issued /\ ~Installing(state)
  /\ Begin(t, "install", state)

\* A command of the store fails, and the request with it (503).
Fails(t, pc, rollsBack) ==
  /\ At(t, pc)
  /\ Raises(t, rollsBack)
  /\ Ends(t)
  /\ UNCHANGED oauthVars

RememberState(t) ==
  \/ /\ At(t, "issue")
     /\ Carried(t)
     /\ states' = [states EXCEPT ![thread[t].state].issued = TRUE]
     /\ Goto(t, "verifier")
     /\ UNCHANGED <<redeemed, rotates, granted, valid, stored, exchanges, lost, bare>>
  \/ Fails(t, "issue", TRUE)

RememberVerifier(t) ==
  \/ /\ At(t, "verifier")
     /\ Carried(t)
     /\ states' = [states EXCEPT ![thread[t].state].verifier = TRUE]
     /\ Ends(t)
     /\ UNCHANGED <<redeemed, rotates, granted, valid, stored, exchanges, lost, bare>>
  \/ Fails(t, "verifier", TRUE)

\* Ten minutes pass.
StateExpires(state) ==
  /\ states[state].issued /\ ~states[state].expired
  /\ states' = [states EXCEPT ![state].expired = TRUE]
  /\ UNCHANGED <<storeVars, redeemed, rotates, granted, valid, stored, exchanges, lost, bare>>

-----------------------------------------------------------------------------
(* The callback: spend the state, exchange the code, save the token.       *)

\* Also for a state whose redirect was never sent (another receiver with
\* the same secret may have issued it), and again for one already used.
BeginCallback(t, state) == Begin(t, "callback", state)

\* verify_state, and the lookup of the issued key.
LookupState(t) ==
  /\ At(t, "lookup")
  /\ \/ /\ states[thread[t].state].expired
        /\ Ends(t)
        /\ UNCHANGED <<up, conn, current, faults, oauthVars>>
     \/ /\ ~states[thread[t].state].expired
        /\ Carried(t)
        /\ IF states[thread[t].state].issued THEN Goto(t, "spend") ELSE Ends(t)
        /\ UNCHANGED oauthVars
     \/ ~states[thread[t].state].expired /\ Fails(t, "lookup", FALSE)

\* Faulty: the key of the state is written whether or not it was there.
OverwriteUsed(t) ==
  \/ /\ At(t, "spend")
     /\ Carried(t)
     /\ states' = [states EXCEPT ![thread[t].state].used = TRUE]
     /\ Goto(t, "fetch")
     /\ UNCHANGED <<redeemed, rotates, granted, valid, stored, exchanges, lost, bare>>
  \/ Fails(t, "spend", TRUE)

\* The first to write the key goes on; the others get a conflict (409).
SpendState(t) ==
  \/ /\ At(t, "spend")
     /\ Carried(t)
     /\ states' = [states EXCEPT ![thread[t].state].used = TRUE]
     /\ IF states[thread[t].state].used THEN Ends(t) ELSE Goto(t, "fetch")
     /\ UNCHANGED <<redeemed, rotates, granted, valid, stored, exchanges, lost, bare>>
  \/ Fails(t, "spend", TRUE)

FetchVerifier(t) ==
  \/ /\ At(t, "fetch")
     /\ Carried(t)
     /\ IF states[thread[t].state].verifier THEN Goto(t, "exchange") ELSE Ends(t)
     /\ UNCHANGED oauthVars
  \/ Fails(t, "fetch", FALSE)

NewRefresh == granted + 1

\* The answer to a code may come without a refresh token.
Grant(refresh) ==
  \/ refresh = NoRefresh /\ UNCHANGED <<granted, valid>>
  \/ refresh = NewRefresh /\ refresh \in Refreshes
       /\ granted' = refresh /\ valid' = valid \cup {refresh}

\* The exchange verifies the state again, then sends the code, which the
\* provider takes once.  A token that it granted may not be answered, or not
\* be of use: no access token, too few scopes.
Exchange(t) ==
  LET state == thread[t].state
  IN /\ At(t, "exchange")
     /\ exchanges' = [exchanges EXCEPT ![state] = IF states[state].expired THEN @
                                                  ELSE IF @ = 0 THEN 1 ELSE 2]
     /\ \/ /\ ~states[state].expired /\ state \notin redeemed
           /\ redeemed' = redeemed \cup {state}
           /\ \E refresh \in {NoRefresh, NewRefresh} :
                /\ Grant(refresh)
                /\ \/ thread' = [thread EXCEPT ![t].pc = "save", ![t].token = Fresh(refresh)]
                   \/ Ends(t)
        \/ Ends(t) /\ UNCHANGED <<granted, valid, redeemed>>
     /\ UNCHANGED <<up, conn, current, faults, states, rotates, stored, lost, bare>>

SaveToken(t) ==
  \/ /\ At(t, "save")
     /\ Save(t, thread[t].token)
     /\ bare' = (thread[t].token.refresh = NoRefresh)
     /\ Ends(t)
     /\ UNCHANGED <<states, redeemed, rotates, granted, valid, exchanges, lost>>
  \/ Fails(t, "save", FALSE)

-----------------------------------------------------------------------------
(* A run of an investigation: check readiness, then resolve the settings.  *)

BeginRun(t) == Begin(t, "run", "none")

\* The request is answered with 503 if the store cannot be read or the
\* token is missing, and started in the background otherwise.
CheckReady(t) ==
  \/ /\ At(t, "check")
     /\ Load(t)
     /\ IF Present(stored) THEN Goto(t, "load") ELSE Ends(t)
  \/ Fails(t, "check", FALSE)

LoadToken(t) ==
  \/ /\ At(t, "load")
     /\ Load(t)
     /\ IF RefreshDue(stored)
          THEN thread' = [thread EXCEPT ![t].pc = "refresh", ![t].token = stored]
          ELSE Goto(t, "use")
  \/ Fails(t, "load", FALSE)

\* Faulty: a refresh token that the answer leaves out is not kept.
RefreshDropsOld(t) ==
  LET old == thread[t].token.refresh
  IN /\ At(t, "refresh")
     /\ \/ /\ old \in valid
           /\ thread' = [thread EXCEPT ![t].pc = "resave", ![t].token = Fresh(NoRefresh)]
           /\ UNCHANGED <<granted, valid, lost>>
        \/ Ends(t) /\ UNCHANGED <<granted, valid, lost>>
     /\ UNCHANGED <<up, conn, current, faults, states, redeemed, rotates, stored, exchanges, bare>>

\* The provider keeps the refresh token, which its answer then leaves out,
\* or replaces it and accepts the old one no more; that answer as well may
\* not arrive, or not be of use.
Refresh(t) ==
  LET old == thread[t].token.refresh
      Replaced == granted' = NewRefresh /\ valid' = (valid \ {old}) \cup {NewRefresh}
  IN /\ At(t, "refresh")
     /\ \/ /\ old \in valid /\ ~rotates
           /\ thread' = [thread EXCEPT ![t].pc = "resave", ![t].token = Fresh(old)]
           /\ UNCHANGED <<granted, valid, lost>>
        \/ /\ old \in valid /\ rotates /\ NewRefresh \in Refreshes
           /\ Replaced
           /\ \/ /\ thread' = [thread EXCEPT ![t].pc = "resave", ![t].token = Fresh(NewRefresh)]
                 /\ UNCHANGED lost
              \/ Ends(t) /\ lost' = TRUE
        \/ Ends(t) /\ UNCHANGED <<granted, valid, lost>>
     /\ UNCHANGED <<up, conn, current, faults, states, redeemed, rotates, stored, exchanges, bare>>

SaveRefreshed(t) ==
  /\ At(t, "resave")
  /\ \/ /\ Save(t, thread[t].token)
        /\ Goto(t, "reload")
        /\ UNCHANGED lost
     \/ /\ Raises(t, FALSE)
        /\ Ends(t)
        /\ lost' = TRUE
        /\ UNCHANGED stored
  /\ UNCHANGED <<states, redeemed, rotates, granted, valid, exchanges, bare>>

\* The run takes what the store holds now, not what it saved, and keeps
\* it to its end.
ReloadToken(t) ==
  \/ /\ At(t, "reload")
     /\ Load(t)
     /\ thread' = [thread EXCEPT ![t].pc = "use", ![t].token = NoToken]
  \/ Fails(t, "reload", FALSE)

\* The investigation saves its state through the store it was given, as
\* often as it likes.  When that fails, so does the handler that would mark
\* the record as failed.
Checkpoint(t) ==
  \/ /\ At(t, "use")
     /\ Carried(t)
     /\ UNCHANGED <<thread, oauthVars>>
  \/ Fails(t, "use", FALSE)

Leave(t) ==
  /\ \/ At(t, "leave")
     \/ At(t, "use") /\ Usable(thread[t].store)
  /\ Ends(t)
  /\ UNCHANGED <<up, conn, current, faults, oauthVars>>

\* The stored token comes within five minutes of its end.
TokenDue ==
  /\ stored.held /\ ~stored.due
  /\ stored' = [stored EXCEPT !.due = TRUE]
  /\ UNCHANGED <<storeVars, states, redeemed, rotates, granted, valid, exchanges, lost, bare>>

-----------------------------------------------------------------------------
Init ==
  /\ up = TRUE
  /\ conn = [store \in Stores |-> IF store = 1 THEN "ready" ELSE "closed"]
  /\ current = 1
  /\ thread = [t \in Threads |-> Idle]
  /\ faults = 0
  /\ states = [state \in OAuthStates |->
                 [issued |-> FALSE, verifier |-> FALSE, used |-> FALSE, expired |-> FALSE]]
  /\ redeemed = {} /\ rotates \in BOOLEAN /\ granted = 0 /\ valid = {}
  /\ stored = NoToken
  /\ exchanges = [state \in OAuthStates |-> 0]
  /\ lost = FALSE
  /\ bare = FALSE

GetStore(t) ==
  /\ \/ ReadCurrent(t)
     \/ Ping(t, FirstStep(t))
     \/ Build(t)
     \/ CloseOld(t)
     \/ Swap(t, FirstStep(t))
  /\ UNCHANGED oauthVars

Step(t) ==
  \/ GetStore(t)
  \/ RememberState(t) \/ RememberVerifier(t)
  \/ LookupState(t) \/ SpendState(t) \/ FetchVerifier(t) \/ Exchange(t) \/ SaveToken(t)
  \/ CheckReady(t) \/ LoadToken(t) \/ Refresh(t) \/ SaveRefreshed(t) \/ ReloadToken(t)
  \/ Checkpoint(t) \/ Leave(t)

BeginHealth(t) == Begin(t, "health", "none")

Next ==
  \/ \E t \in Threads : Step(t) \/ BeginHealth(t) \/ BeginRun(t)
  \/ \E t \in Threads, state \in OAuthStates : BeginInstall(t, state) \/ BeginCallback(t, state)
  \/ \E state \in OAuthStates : StateExpires(state)
  \/ TokenDue
  \/ (DatabaseDown \/ DatabaseUp) /\ UNCHANGED oauthVars

\* Threads do not stop in the middle, the database comes back, and the
\* container's health check asks again and again.
Fairness ==
  /\ \A t \in Threads : WF_vars(Step(t)) /\ WF_vars(BeginHealth(t))
  /\ WF_vars(DatabaseUp /\ UNCHANGED oauthVars)

Spec == Init /\ [][Next]_vars /\ Fairness

-----------------------------------------------------------------------------
(* Properties.                                                             *)

Jobs == {"none", "health", "install", "callback", "run"}
Pcs  == {"idle", "read", "ping", "build", "close", "swap", "leave", "issue", "verifier",
         "lookup", "spend", "fetch", "exchange", "save",
         "check", "load", "refresh", "resave", "reload", "use"}

\* Every variable has its type.
TypeOK ==
  /\ up \in BOOLEAN
  /\ conn \in [Stores -> ConnStates]
  /\ current \in {Unavailable} \cup Stores
  /\ thread \in [Threads -> [pc : Pcs, job : Jobs, state : OAuthStates \cup {"none"},
                             token : Tokens,
                             store : {Unavailable} \cup Stores,
                             fresh : {Unavailable} \cup Stores]]
  /\ faults \in 0..MaxFaults
  /\ states \in [OAuthStates -> [issued : BOOLEAN, verifier : BOOLEAN,
                                 used : BOOLEAN, expired : BOOLEAN]]
  /\ redeemed \subseteq OAuthStates
  /\ rotates \in BOOLEAN
  /\ granted \in 0..MaxGrants
  /\ valid \subseteq Refreshes
  /\ stored \in Tokens
  /\ exchanges \in [OAuthStates -> 0..2]
  /\ lost \in BOOLEAN
  /\ bare \in BOOLEAN

\* However often and by however many threads a callback is made, a code is
\* sent to the provider at most once per state, and only for a state whose
\* install has finished: _consume_issued_oauth_state and the PKCE verifier.
StateSpentOnce ==
  \A state \in OAuthStates :
    /\ exchanges[state] <= 1
    /\ exchanges[state] = 1 => states[state].issued /\ states[state].verifier

\* A new refresh token is on its way to the store.
Arriving(refresh) ==
  \E t \in Threads : thread[t].pc \in {"save", "resave"} /\ thread[t].token.refresh = refresh

\* Unless a new token was lost between the provider and the store, the
\* stored token can be refreshed, its successor is about to be stored, or it
\* is as an installation without a refresh token left it (the callback answers
\* refresh_token_received: false).  So refresh_datadog_token and
\* _refresh_datadog_oauth_if_needed keep it, for any number of refreshes and
\* installs at once, and a provider that replaces refresh tokens or keeps them.
StaysRefreshable ==
  stored.held /\ ~lost =>
    \/ stored.refresh = NoRefresh /\ bare
    \/ stored.refresh \in valid
    \/ \E refresh \in valid : Arriving(refresh)

\* Once the faults are over the application's store works, and keeps
\* working: _get_app_store, whatever the threads that replace it do.
StoreHeals == <>[]Usable(current)
=============================================================================
