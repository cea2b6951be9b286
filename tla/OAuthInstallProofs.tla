-------------------------- MODULE OAuthInstallProofs --------------------------
(***************************************************************************)
(* Proofs about OAuthInstall, and the ManagedStore it extends, for every   *)
(* finite set of threads, every set of states, and any number of grants.   *)
(***************************************************************************)
EXTENDS OAuthInstall, FiniteSetTheorems, TLAPS

USE ManagedStoreAssumption, OAuthInstallAssumption

-----------------------------------------------------------------------------
(* The inductive invariant.                                                *)

\* A thread has a job until it is idle, the jobs that concern a state have
\* one, and what a thread has built it puts in place at once.
Fits(slot) ==
  /\ slot.pc # "idle" => slot.job # "none"
  /\ slot.job \in {"install", "callback"} => slot.state \in OAuthStates
  /\ slot.pc \in {"issue", "verifier", "lookup", "spend", "fetch", "exchange", "save"}
       => slot.job \in {"install", "callback"}
  /\ slot.fresh # Unavailable => slot.pc \in {"close", "swap"}

JobOfPlace == \A t \in Threads : Fits(thread[t])

\* Threads that have spent their state and not yet sent the code.
Spender(t) == thread[t].pc \in {"fetch", "exchange"}

\* The thread that spends a state is the only one, nothing was sent with the
\* state before, and its install was finished when the verifier was read.
SpentByOne ==
  \A t \in Threads :
    /\ thread[t].pc = "spend" => states[thread[t].state].issued
    /\ Spender(t) =>
         /\ states[thread[t].state].issued /\ states[thread[t].state].used
         /\ exchanges[thread[t].state] = 0
         /\ \A u \in Threads : Spender(u) /\ thread[u].state = thread[t].state => u = t
    /\ thread[t].pc = "exchange" => states[thread[t].state].verifier

SentOnce ==
  \A state \in OAuthStates :
    /\ exchanges[state] <= 1
    /\ exchanges[state] = 1 =>
         states[state].issued /\ states[state].verifier /\ states[state].used

\* Threads whose new refresh token is on its way to the store, and those that
\* hold a token they are about to refresh as well.
Carrier(t) == thread[t].pc \in {"save", "resave"} /\ thread[t].token.refresh # NoRefresh
Holder(t)  == thread[t].pc \in {"refresh", "save", "resave"}

\* What an answer may say of the refresh token, given those that were granted.
Known == {NoRefresh} \cup 1..granted

\* Every refresh token there is was granted, and what is refreshed has one.
WasGranted ==
  /\ valid \subseteq 1..granted
  /\ stored.refresh \in Known
  /\ stored.refresh # NoRefresh => stored.held
  /\ \A t \in Threads :
       /\ Holder(t) => thread[t].token.held /\ thread[t].token.refresh \in Known
       /\ thread[t].pc \in {"refresh", "resave"} => thread[t].token.refresh # NoRefresh

\* A token on its way to the store is accepted, and where refreshing replaces
\* tokens nobody else has got it.
CarriedAlone ==
  /\ ~rotates => valid = 1..granted
  /\ rotates => \A t \in Threads : Carrier(t) =>
       /\ thread[t].token.refresh \in valid
       /\ thread[t].token.refresh # stored.refresh
       /\ \A u \in Threads \ {t} : Holder(u) => thread[u].token.refresh # thread[t].token.refresh

\* The successor of a stored token that is accepted no more is carried by the
\* thread that refreshed it: should an installation fail to save its token,
\* that one still arrives.
SuccessorArrives ==
  stored.held /\ ~lost =>
    \/ stored.refresh = NoRefresh /\ bare
    \/ stored.refresh \in valid
    \/ \E t \in Threads : thread[t].pc = "resave" /\ thread[t].token.refresh \in valid

IInv ==
  /\ TypeOK
  /\ JobOfPlace
  /\ SpentByOne
  /\ SentOnce
  /\ WasGranted
  /\ CarriedAlone
  /\ SuccessorArrives

-----------------------------------------------------------------------------
(* The places of the threads.                                              *)

Slots == [pc : Pcs, job : Jobs, state : OAuthStates \cup {"none"}, token : Tokens,
          store : {Unavailable} \cup Stores, fresh : {Unavailable} \cup Stores]

\* Only the place of t changes.
Moves(t) == thread' = [thread EXCEPT ![t] = thread'[t]] /\ thread'[t] \in Slots

LEMMA Types ==
  ASSUME TypeOK
  PROVE  /\ thread \in [Threads -> Slots]
         /\ Idle \in Slots /\ Fits(Idle) /\ Idle.pc = "idle" /\ NoToken \in Tokens
         /\ NoToken.refresh = 0 /\ ~NoToken.held /\ ~NoToken.due
<1>1. thread \in [Threads -> Slots]
  BY DEF TypeOK, Slots
<1>2. NoToken \in Tokens /\ NoToken.refresh = 0 /\ ~NoToken.held /\ ~NoToken.due
  BY DEF NoToken, Tokens, NoRefresh
<1>3. Idle \in Slots
  BY <1>2 DEF Idle, Slots, Pcs, Jobs
<1> QED BY <1>1, <1>2, <1>3 DEF Idle, Fits

LEMMA Going ==
  ASSUME TypeOK, NEW t \in Threads, NEW pc \in Pcs, Goto(t, pc)
  PROVE  /\ Moves(t)
         /\ thread'[t].pc = pc /\ thread'[t].job = thread[t].job
         /\ thread'[t].state = thread[t].state /\ thread'[t].token = thread[t].token
         /\ thread'[t].store = thread[t].store /\ thread'[t].fresh = thread[t].fresh
<1>1. thread \in [Threads -> Slots]
  BY Types
<1> QED BY <1>1 DEF Goto, Moves, Slots

LEMMA Ending ==
  ASSUME TypeOK, NEW t \in Threads, Ends(t)
  PROVE  Moves(t) /\ thread'[t] = Idle /\ thread'[t].pc = "idle" /\ Fits(thread'[t])
<1>1. thread \in [Threads -> Slots] /\ Idle \in Slots /\ Fits(Idle) /\ Idle.pc = "idle"
  BY Types
<1> QED BY <1>1 DEF Ends, Moves

LEMMA Fitting ==
  ASSUME TypeOK, JobOfPlace, NEW t \in Threads, Moves(t), Fits(thread'[t])
  PROVE  JobOfPlace' /\ thread' \in [Threads -> Slots]
         /\ \A u \in Threads \ {t} : thread'[u] = thread[u]
<1>1. thread \in [Threads -> Slots]
  BY Types
<1>2. /\ thread' \in [Threads -> Slots]
      /\ \A u \in Threads \ {t} : thread'[u] = thread[u]
  BY <1>1 DEF Moves
<1>3. Fits(thread[t])'
  BY DEF Fits
<1>4. ASSUME NEW u \in Threads \ {t} PROVE Fits(thread[u])'
  BY <1>2, <1>4 DEF JobOfPlace, Fits
<1> QED BY <1>2, <1>3, <1>4 DEF JobOfPlace

-----------------------------------------------------------------------------
(* There is always another store to build: every thread holds at most one  *)
(* of them and has built at most another, and the one that builds has none *)
(* yet.                                                                    *)

LEMMA Counted ==
  ASSUME NEW S, IsFiniteSet(S), NEW f, NEW image, f \in [S -> image],
         \A y \in image : \E x \in S : f[x] = y
  PROVE  IsFiniteSet(image) /\ Cardinality(image) <= Cardinality(S)
<1>1. f \in Surjection(S, image)
  BY DEF Surjection
<1> QED BY <1>1, FS_Surjection

LEMMA AnotherStore ==
  ASSUME TypeOK, JobOfPlace, NEW t \in Threads, At(t, "build")
  PROVE  NewStore \in Stores /\ ~Held(NewStore)
<1> DEFINE held  == [u \in Threads |-> thread[u].store]
           fresh == [u \in Threads \ {t} |-> thread[u].fresh]
           H == {held[u] : u \in Threads}
           F == {fresh[u] : u \in Threads \ {t}}
           n == Cardinality(Threads)
<1>1. n \in Nat /\ IsFiniteSet(Threads \ {t}) /\ Cardinality(Threads \ {t}) = n - 1
  BY FS_CardinalityType, FS_RemoveElement
<1>2. IsFiniteSet(H) /\ Cardinality(H) <= n
  <2>1. /\ held \in [Threads -> H] /\ \A s \in H : \E u \in Threads : held[u] = s
        /\ IsFiniteSet(Threads)
    BY ManagedStoreAssumption
  <2> HIDE DEF held, H
  <2> QED BY <2>1, Counted
<1>3. IsFiniteSet(F) /\ Cardinality(F) <= n - 1
  <2> DEFINE others == Threads \ {t}
  <2>1. /\ fresh \in [others -> F] /\ \A s \in F : \E u \in others : fresh[u] = s
        /\ IsFiniteSet(others)
    BY <1>1
  <2> HIDE DEF fresh, n, others, F
  <2>2. IsFiniteSet(F) /\ Cardinality(F) <= Cardinality(others)
    BY <2>1, Counted
  <2> USE DEF others
  <2> QED BY <1>1, <2>2
<1>4. IsFiniteSet(H \cup F) /\ Cardinality(H \cup F) <= 2 * n - 1
  <2>1. Cardinality(H) \in Nat /\ Cardinality(F) \in Nat /\ Cardinality(H \cap F) \in Nat
    <3>1. IsFiniteSet(H \cap F)
      BY <1>2, FS_Subset
    <3> QED BY <1>2, <1>3, <3>1, FS_CardinalityType
  <2>2. /\ IsFiniteSet(H \cup F)
        /\ Cardinality(H \cup F) = Cardinality(H) + Cardinality(F) - Cardinality(H \cap F)
    BY <1>2, <1>3, FS_Union
  <2> HIDE DEF H, F, n
  <2> QED BY <1>1, <1>2, <1>3, <2>1, <2>2
<1> DEFINE U == (H \cup F) \cup {current}
<1>5. IsFiniteSet(U) /\ Cardinality(U) <= 2 * n
  <2> HIDE DEF H, F, n
  <2>1. Cardinality(H \cup F) \in Nat
    BY <1>4, FS_CardinalityType
  <2>2. IsFiniteSet(U) /\ Cardinality(U) <= Cardinality(H \cup F) + 1
    <3> DEFINE HF == H \cup F
    <3> HIDE DEF HF
    <3>1. IsFiniteSet(HF) /\ Cardinality(HF) \in Nat
      BY <1>4, <2>1 DEF HF
    <3>2. /\ IsFiniteSet(HF \cup {current})
          /\ Cardinality(HF \cup {current}) =
               IF current \in HF THEN Cardinality(HF) ELSE Cardinality(HF) + 1
      BY <3>1, FS_AddElement, Zenon
    <3>3. Cardinality(HF \cup {current}) <= Cardinality(HF) + 1
      BY <3>1, <3>2
    <3> QED BY <3>2, <3>3 DEF HF
  <2>3. Cardinality(U) \in Nat
    BY <2>2, FS_CardinalityType
  <2> HIDE DEF U
  <2> QED BY <1>1, <1>4, <2>1, <2>2, <2>3
<1>6. IsFiniteSet(Stores) /\ Cardinality(Stores) = 2 * n + 1
  <2> HIDE DEF n
  <2>1. Stores = 1..(2 * n + 1)
    BY DEF Stores, n
  <2> QED BY <1>1, <2>1, FS_Interval
<1>7. \E store \in Stores : ~Held(store)
  <2> SUFFICES ASSUME \A store \in Stores : Held(store) PROVE FALSE
    OBVIOUS
  <2>1. Stores \subseteq U
    <3> SUFFICES ASSUME NEW store \in Stores PROVE store \in U
      OBVIOUS
    <3>1. store # Unavailable
      BY <1>1 DEF Stores, Unavailable
    <3>2. thread[t].fresh = Unavailable
      BY DEF JobOfPlace, Fits, At
    <3>3. CASE current = store
      BY <3>3
    <3>4. CASE \E u \in Threads : store = thread[u].store
      BY <3>4
    <3>5. CASE \E u \in Threads : store = thread[u].fresh
      BY <3>1, <3>2, <3>5
    <3> QED BY <3>3, <3>4, <3>5 DEF Held
  <2>2. Cardinality(Stores) <= Cardinality(U)
    BY <1>5, <2>1, FS_Subset
  <2>3. Cardinality(U) \in Nat
    BY <1>5, FS_CardinalityType
  <2> HIDE DEF U, n
  <2> QED BY <1>1, <1>5, <1>6, <2>2, <2>3
<1> QED BY <1>7 DEF NewStore
-----------------------------------------------------------------------------
(* Steps that concern no state and no token.                               *)

StoreTypes ==
  /\ up \in BOOLEAN /\ conn \in [Stores -> ConnStates]
  /\ current \in {Unavailable} \cup Stores /\ faults \in 0..MaxFaults

LEMMA StoreTyped == TypeOK => StoreTypes
  BY DEF TypeOK, StoreTypes

OAuthTypes ==
  /\ states \in [OAuthStates -> [issued : BOOLEAN, verifier : BOOLEAN,
                                 used : BOOLEAN, expired : BOOLEAN]]
  /\ redeemed \subseteq OAuthStates
  /\ rotates \in BOOLEAN
  /\ granted \in 0..MaxGrants
  /\ valid \subseteq Refreshes
  /\ stored \in Tokens
  /\ exchanges \in [OAuthStates -> 0..2]
  /\ lost \in BOOLEAN
  /\ bare \in BOOLEAN

LEMMA OAuthTyped == TypeOK => OAuthTypes
  BY DEF TypeOK, OAuthTypes

LEMMA TypedAgain ==
  ASSUME StoreTypes', OAuthTypes', thread' \in [Threads -> Slots]
  PROVE  TypeOK'
<1>1. Slots' = Slots
  OBVIOUS
<1> QED BY <1>1 DEF TypeOK, StoreTypes, OAuthTypes, Slots

\* A step of t that only moves it, to a place where it has not spent a state.
StateQuiet(t) ==
  /\ Moves(t) /\ Fits(thread'[t])
  /\ thread'[t].pc \notin {"spend", "fetch", "exchange"}
  /\ UNCHANGED <<states, exchanges>>

\* The same for a place where it holds no token.
TokenQuiet(t) ==
  /\ Moves(t) /\ Fits(thread'[t])
  /\ thread[t].pc # "resave"
  /\ thread'[t].pc \notin {"refresh", "save", "resave"}
  /\ UNCHANGED <<rotates, granted, valid, stored, lost, bare>>

LEMMA StateQuietInv ==
  ASSUME IInv, NEW t \in Threads, StateQuiet(t)
  PROVE  SpentByOne' /\ SentOnce'
<1>1. \A u \in Threads \ {t} : thread'[u] = thread[u]
  BY Fitting DEF IInv, StateQuiet
<1>2. UNCHANGED <<states, exchanges>> /\ thread'[t].pc \notin {"spend", "fetch", "exchange"}
  BY DEF StateQuiet
<1>3. SpentByOne'
  BY <1>1, <1>2 DEF IInv, SpentByOne, Spender
<1>4. SentOnce'
  BY <1>2 DEF IInv, SentOnce
<1> QED BY <1>3, <1>4

LEMMA TokenQuietInv ==
  ASSUME IInv, NEW t \in Threads, TokenQuiet(t)
  PROVE  WasGranted' /\ CarriedAlone' /\ SuccessorArrives'
<1>1. \A u \in Threads \ {t} : thread'[u] = thread[u]
  BY Fitting DEF IInv, TokenQuiet
<1>2. /\ UNCHANGED <<rotates, granted, valid, stored, lost, bare>>
      /\ thread[t].pc # "resave" /\ thread'[t].pc \notin {"refresh", "save", "resave"}
  BY DEF TokenQuiet
<1>3. WasGranted'
  BY <1>1, <1>2 DEF IInv, WasGranted, Known, Holder
<1>4. CarriedAlone'
  BY <1>1, <1>2 DEF IInv, CarriedAlone, Carrier, Holder
<1>5. SuccessorArrives'
  BY <1>1, <1>2 DEF IInv, SuccessorArrives
<1> QED BY <1>3, <1>4, <1>5

\* A step of the store, or one that ends a job.
Quiet(t) ==
  /\ Moves(t) /\ Fits(thread'[t])
  /\ thread[t].pc # "resave"
  /\ thread'[t].pc \notin {"spend", "fetch", "exchange", "refresh", "save", "resave"}
  /\ UNCHANGED oauthVars

LEMMA QuietIInv ==
  ASSUME IInv, NEW t \in Threads, Quiet(t), StoreTypes'
  PROVE  IInv'
<1>1. JobOfPlace' /\ thread' \in [Threads -> Slots]
  BY Fitting DEF IInv, Quiet
<1>2. OAuthTypes'
  BY OAuthTyped DEF IInv, OAuthTypes, Quiet, oauthVars
<1>3. TypeOK'
  BY <1>1, <1>2, TypedAgain
<1>4. SpentByOne' /\ SentOnce'
  BY StateQuietInv DEF Quiet, StateQuiet, oauthVars
<1>5. WasGranted' /\ CarriedAlone' /\ SuccessorArrives'
  BY TokenQuietInv DEF Quiet, TokenQuiet, oauthVars
<1> QED BY <1>1, <1>3, <1>4, <1>5 DEF IInv

LEMMA RaisedTypes ==
  ASSUME TypeOK, NEW t \in Threads, NEW rollsBack \in BOOLEAN, Raises(t, rollsBack)
  PROVE  StoreTypes'
<1> DEFINE store == thread[t].store
<1>1. store \in {Unavailable} \cup Stores
  BY Types DEF Slots
<1>2. faults' \in 0..MaxFaults
  BY DEF TypeOK, Raises, Fault
<1>3. conn' = conn \/ (store \in Stores /\ \E c \in ConnStates : conn' = [conn EXCEPT ![store] = c])
  BY <1>1 DEF Raises, Usable, ConnStates
<1>4. conn' \in [Stores -> ConnStates]
  BY <1>3 DEF TypeOK
<1> QED BY <1>2, <1>4 DEF TypeOK, StoreTypes, Raises

LEMMA FailsIInv ==
  ASSUME IInv, NEW t \in Threads, NEW pc \in Pcs \ {"resave"}, NEW rollsBack \in BOOLEAN,
         Fails(t, pc, rollsBack)
  PROVE  IInv'
<1>1. Moves(t) /\ Fits(thread'[t]) /\ thread'[t].pc = "idle"
  BY Ending DEF IInv, Fails
<1>2. StoreTypes'
  BY RaisedTypes DEF IInv, Fails
<1> QED BY <1>1, <1>2, QuietIInv DEF Quiet, Fails, At

LEMMA CarriedTypes ==
  ASSUME TypeOK, NEW t \in Threads, Carried(t)
  PROVE  StoreTypes'
  BY StoreTyped DEF StoreTypes, Carried

\* What follows from a job for its first step.
LEMMA FirstSteps ==
  ASSUME TypeOK, NEW t \in Threads, thread[t].job # "none", Fits(thread[t])
  PROVE  /\ FirstStep(t) \in {"leave", "issue", "lookup", "check"}
         /\ FirstStep(t) \in {"issue", "lookup"} => thread[t].job \in {"install", "callback"}
<1>1. thread[t].job \in {"health", "install", "callback", "run"}
  BY Types DEF Slots, Jobs
<1> QED BY <1>1 DEF FirstStep

LEMMA GetStoreIInv ==
  ASSUME IInv, NEW t \in Threads, GetStore(t)
  PROVE  IInv'
<1>0. /\ TypeOK /\ StoreTypes /\ thread \in [Threads -> Slots] /\ thread[t] \in Slots
      /\ Fits(thread[t])
  BY StoreTyped, Types DEF IInv, JobOfPlace
<1>1. UNCHANGED oauthVars
  BY DEF GetStore
<1>2. CASE ReadCurrent(t)
  <2>1. /\ Moves(t) /\ thread'[t].pc = "ping" /\ thread'[t].job = thread[t].job
        /\ thread'[t].state = thread[t].state /\ thread'[t].fresh = thread[t].fresh
    BY <1>0, <1>2 DEF ReadCurrent, Moves, Slots, Pcs, StoreTypes
  <2>2. Fits(thread'[t])
    BY <1>0, <1>2, <2>1 DEF Fits, ReadCurrent, At
  <2>3. StoreTypes'
    BY <1>0, <1>2 DEF StoreTypes, ReadCurrent
  <2> QED BY <1>1, <1>2, <2>1, <2>2, <2>3, QuietIInv DEF Quiet, ReadCurrent, At
<1>3. CASE Ping(t, FirstStep(t))
  <2>1. thread[t].job # "none" /\ thread[t].pc = "ping"
    BY <1>0, <1>3 DEF Fits, Ping, At
  <2>2. /\ FirstStep(t) \in {"leave", "issue", "lookup", "check"}
        /\ FirstStep(t) \in {"issue", "lookup"} => thread[t].job \in {"install", "callback"}
    BY <1>0, <2>1, FirstSteps
  <2>3. PICK pc \in {FirstStep(t), "build"} : Goto(t, pc)
    BY <1>3 DEF Ping
  <2>4. pc \in {"leave", "issue", "lookup", "check", "build"} /\ pc \in Pcs
    BY <2>2, <2>3 DEF Pcs
  <2>5. /\ Moves(t) /\ thread'[t].pc = pc /\ thread'[t].job = thread[t].job
        /\ thread'[t].state = thread[t].state /\ thread'[t].fresh = thread[t].fresh
    BY <1>0, <2>3, <2>4, Going
  <2>6. Fits(thread'[t])
    BY <1>0, <2>1, <2>2, <2>3, <2>4, <2>5 DEF Fits
  <2>7. conn' \in [Stores -> ConnStates]
    <3>1. thread[t].store \in {Unavailable} \cup Stores
      BY <1>0 DEF Slots
    <3>2. CASE conn' = conn
      BY <1>0, <3>2 DEF StoreTypes
    <3>3. CASE thread[t].store # Unavailable /\ conn' = [conn EXCEPT ![thread[t].store] = "ready"]
      BY <1>0, <3>1, <3>3 DEF StoreTypes, ConnStates
    <3> QED BY <1>3, <3>2, <3>3 DEF Ping
  <2>8. StoreTypes'
    BY <1>0, <1>3, <2>7 DEF StoreTypes, Ping
  <2> QED BY <1>1, <2>1, <2>4, <2>5, <2>6, <2>8, QuietIInv DEF Quiet
<1>4. CASE Build(t)
  <2>1. NewStore \in Stores /\ thread[t].pc = "build"
    BY <1>4, AnotherStore DEF IInv, Build, At
  <2>2. PICK fresh \in {Unavailable, NewStore} :
          thread' = [thread EXCEPT ![t].pc = "close", ![t].fresh = fresh]
    BY <1>4 DEF Build
  <2>3. /\ Moves(t) /\ thread'[t].pc = "close" /\ thread'[t].job = thread[t].job
        /\ thread'[t].state = thread[t].state
    BY <1>0, <2>1, <2>2 DEF Moves, Slots, Pcs
  <2>4. Fits(thread'[t])
    BY <1>0, <2>1, <2>3 DEF Fits
  <2>5. StoreTypes'
    BY <1>0, <1>4, <2>1 DEF StoreTypes, Build, ConnStates
  <2> QED BY <1>1, <2>1, <2>3, <2>4, <2>5, QuietIInv DEF Quiet
<1>5. CASE CloseOld(t)
  <2>1. thread[t].pc = "close" /\ "swap" \in Pcs /\ Goto(t, "swap")
    BY <1>5 DEF CloseOld, At, Pcs
  <2>2. /\ Moves(t) /\ thread'[t].pc = "swap" /\ thread'[t].job = thread[t].job
        /\ thread'[t].state = thread[t].state
    BY <1>0, <2>1, Going
  <2>3. Fits(thread'[t])
    BY <1>0, <2>1, <2>2 DEF Fits
  <2>4. thread[t].store \in {Unavailable} \cup Stores
    BY <1>0 DEF Slots
  <2>5. StoreTypes'
    BY <1>0, <1>5, <2>4 DEF StoreTypes, CloseOld, ConnStates
  <2> QED BY <1>1, <2>1, <2>2, <2>3, <2>5, QuietIInv DEF Quiet
<1>6. CASE Swap(t, FirstStep(t))
  <2>1. thread[t].job # "none" /\ thread[t].pc = "swap"
    BY <1>0, <1>6 DEF Fits, Swap, At
  <2>2. /\ FirstStep(t) \in {"leave", "issue", "lookup", "check"}
        /\ FirstStep(t) \in {"issue", "lookup"} => thread[t].job \in {"install", "callback"}
    BY <1>0, <2>1, FirstSteps
  <2> DEFINE first == FirstStep(t)
  <2>3. /\ first \in Pcs
        /\ thread' = [thread EXCEPT ![t].pc = first, ![t].store = thread[t].fresh,
                                    ![t].fresh = Unavailable]
    BY <1>6, <2>2 DEF Swap, Pcs
  <2> HIDE DEF first
  <2>4. /\ Moves(t) /\ thread'[t].pc = first /\ thread'[t].job = thread[t].job
        /\ thread'[t].state = thread[t].state /\ thread'[t].fresh = Unavailable
    BY <1>0, <2>3 DEF Moves, Slots
  <2>5. Fits(thread'[t])
    BY <1>0, <2>1, <2>2, <2>4 DEF Fits, first
  <2>6. StoreTypes'
    BY <1>0, <1>6 DEF StoreTypes, Swap, Slots
  <2> QED BY <1>1, <2>1, <2>2, <2>4, <2>5, <2>6, QuietIInv DEF Quiet, first
<1> QED BY <1>2, <1>3, <1>4, <1>5, <1>6 DEF GetStore
-----------------------------------------------------------------------------
(* Jobs begin and end.                                                     *)

LEMMA BeginIInv ==
  ASSUME IInv, NEW t \in Threads, NEW job \in Jobs \ {"none"},
         NEW state \in OAuthStates \cup {"none"},
         job \in {"install", "callback"} => state \in OAuthStates,
         Begin(t, job, state)
  PROVE  IInv'
<1>0. TypeOK /\ StoreTypes /\ thread \in [Threads -> Slots] /\ Idle \in Slots
  BY StoreTyped, Types DEF IInv
<1> DEFINE slot == [Idle EXCEPT !.pc = "read", !.job = job, !.state = state]
<1>1. /\ slot \in Slots /\ slot.pc = "read" /\ slot.job = job /\ slot.state = state
      /\ slot.fresh = Unavailable
  BY <1>0 DEF Slots, Pcs, Idle
<1>2. thread' = [thread EXCEPT ![t] = slot] /\ thread[t].pc = "idle"
  BY DEF Begin, At
<1> HIDE DEF slot
<1>3. Moves(t) /\ thread'[t] = slot
  BY <1>0, <1>1, <1>2 DEF Moves
<1>4. Fits(thread'[t])
  BY <1>1, <1>3 DEF Fits
<1>5. StoreTypes' /\ UNCHANGED oauthVars
  BY <1>0 DEF StoreTypes, Begin
<1> QED BY <1>1, <1>2, <1>3, <1>4, <1>5, QuietIInv DEF Quiet

LEMMA EndIInv ==
  ASSUME IInv, NEW t \in Threads, Ends(t), thread[t].pc # "resave",
         StoreTypes', UNCHANGED oauthVars
  PROVE  IInv'
<1>1. Moves(t) /\ Fits(thread'[t]) /\ thread'[t].pc = "idle"
  BY Ending DEF IInv
<1> QED BY <1>1, QuietIInv DEF Quiet

\* A step to a place that needs neither a state nor a token.
LEMMA GoIInv ==
  ASSUME IInv, NEW t \in Threads, NEW pc \in {"load", "use"}, Goto(t, pc),
         thread[t].pc \notin {"idle", "close", "swap", "resave"},
         StoreTypes', UNCHANGED oauthVars
  PROVE  IInv'
<1>0. TypeOK /\ Fits(thread[t]) /\ pc \in Pcs
  BY DEF IInv, JobOfPlace, Pcs
<1>1. /\ Moves(t) /\ thread'[t].pc = pc /\ thread'[t].job = thread[t].job
      /\ thread'[t].state = thread[t].state /\ thread'[t].fresh = thread[t].fresh
  BY <1>0, Going
<1>2. Fits(thread'[t])
  BY <1>0, <1>1 DEF Fits
<1> QED BY <1>1, <1>2, QuietIInv DEF Quiet

LEMMA LeaveIInv == ASSUME IInv, NEW t \in Threads, Leave(t) PROVE IInv'
<1>1. StoreTypes' /\ UNCHANGED oauthVars /\ thread[t].pc # "resave" /\ Ends(t)
  BY StoreTyped DEF IInv, StoreTypes, Leave, At
<1> QED BY <1>1, EndIInv

-----------------------------------------------------------------------------
(* The states.                                                             *)

\* Only the states of the install change, and they keep what they have.
Remembered ==
  /\ states' \in [OAuthStates -> [issued : BOOLEAN, verifier : BOOLEAN,
                                  used : BOOLEAN, expired : BOOLEAN]]
  /\ \A state \in OAuthStates :
       /\ states[state].issued => states'[state].issued
       /\ states[state].verifier => states'[state].verifier
       /\ states'[state].used = states[state].used
  /\ UNCHANGED <<redeemed, rotates, granted, valid, stored, exchanges, lost, bare>>

LEMMA RememberedIInv ==
  ASSUME IInv, Remembered, StoreTypes',
         \/ UNCHANGED thread
         \/ \E t \in Threads :
              /\ Moves(t) /\ Fits(thread'[t])
              /\ thread[t].pc # "resave"
              /\ thread'[t].pc \notin {"spend", "fetch", "exchange", "refresh", "save", "resave"}
  PROVE  IInv'
<1>1. /\ JobOfPlace' /\ thread' \in [Threads -> Slots]
      /\ \A u \in Threads : thread'[u].pc \in {"spend", "fetch", "exchange", "refresh", "save", "resave"}
                              => thread'[u] = thread[u]
      /\ \A u \in Threads : thread[u].pc = "resave" => thread'[u] = thread[u]
  <2>1. CASE UNCHANGED thread
    BY <2>1, Types DEF IInv, JobOfPlace, Fits
  <2>2. CASE ~UNCHANGED thread
    <3>1. PICK t \in Threads :
            /\ Moves(t) /\ Fits(thread'[t]) /\ thread[t].pc # "resave"
            /\ thread'[t].pc \notin {"spend", "fetch", "exchange", "refresh", "save", "resave"}
      BY <2>2
    <3>2. /\ JobOfPlace' /\ thread' \in [Threads -> Slots]
          /\ \A u \in Threads \ {t} : thread'[u] = thread[u]
      BY <3>1, Fitting DEF IInv
    <3> QED BY <3>1, <3>2
  <2> QED BY <2>1, <2>2
<1>2. TypeOK'
  <2>1. OAuthTypes'
    BY OAuthTyped DEF IInv, OAuthTypes, Remembered
  <2> QED BY <1>1, <2>1, TypedAgain
<1>3. \A u \in Threads : thread'[u].pc \in {"spend", "fetch", "exchange"}
        => thread'[u] = thread[u] /\ thread[u].state \in OAuthStates
  BY <1>1 DEF IInv, JobOfPlace, Fits
<1>4. SpentByOne'
  BY <1>3 DEF IInv, SpentByOne, Spender, Remembered
<1>5. SentOnce'
  BY DEF IInv, SentOnce, Remembered
<1>6. WasGranted'
  BY <1>1 DEF IInv, WasGranted, Known, Holder, Remembered
<1>7. CarriedAlone'
  BY <1>1 DEF IInv, CarriedAlone, Carrier, Holder, Remembered
<1>8. SuccessorArrives'
  BY <1>1 DEF IInv, SuccessorArrives, Remembered
<1> QED BY <1>1, <1>2, <1>4, <1>5, <1>6, <1>7, <1>8 DEF IInv
LEMMA InstallIInv ==
  ASSUME IInv, NEW t \in Threads, RememberState(t) \/ RememberVerifier(t)
  PROVE  IInv'
<1>0. TypeOK /\ OAuthTypes /\ Fits(thread[t]) /\ thread[t] \in Slots
  BY OAuthTyped, Types DEF IInv, JobOfPlace
<1>1. CASE Fails(t, "issue", TRUE) \/ Fails(t, "verifier", TRUE)
  BY <1>1, FailsIInv DEF Pcs
<1>2. CASE RememberState(t) /\ ~Fails(t, "issue", TRUE)
  <2> DEFINE state == thread[t].state
  <2>1. /\ thread[t].pc = "issue" /\ Carried(t) /\ Goto(t, "verifier")
        /\ states' = [states EXCEPT ![state].issued = TRUE]
        /\ UNCHANGED <<redeemed, rotates, granted, valid, stored, exchanges, lost, bare>>
    BY <1>2 DEF RememberState, At
  <2>2. state \in OAuthStates
    BY <1>0, <2>1 DEF Fits
  <2> HIDE DEF state
  <2>3. Remembered
    BY <1>0, <2>1, <2>2 DEF Remembered, OAuthTypes
  <2>4. /\ Moves(t) /\ thread'[t].pc = "verifier" /\ thread'[t].job = thread[t].job
        /\ thread'[t].state = thread[t].state /\ thread'[t].fresh = thread[t].fresh
    BY <1>0, <2>1, Going DEF Pcs
  <2>5. Fits(thread'[t])
    BY <1>0, <2>1, <2>4 DEF Fits
  <2>6. StoreTypes'
    BY <1>0, <2>1, CarriedTypes
  <2> QED BY <2>1, <2>3, <2>4, <2>5, <2>6, RememberedIInv
<1>3. CASE RememberVerifier(t) /\ ~Fails(t, "verifier", TRUE)
  <2> DEFINE state == thread[t].state
  <2>1. /\ thread[t].pc = "verifier" /\ Carried(t) /\ Ends(t)
        /\ states' = [states EXCEPT ![state].verifier = TRUE]
        /\ UNCHANGED <<redeemed, rotates, granted, valid, stored, exchanges, lost, bare>>
    BY <1>3 DEF RememberVerifier, At
  <2>2. state \in OAuthStates
    BY <1>0, <2>1 DEF Fits
  <2> HIDE DEF state
  <2>3. Remembered
    BY <1>0, <2>1, <2>2 DEF Remembered, OAuthTypes
  <2>4. Moves(t) /\ Fits(thread'[t]) /\ thread'[t].pc = "idle"
    BY <1>0, <2>1, Ending
  <2>5. StoreTypes'
    BY <1>0, <2>1, CarriedTypes
  <2> QED BY <2>1, <2>3, <2>4, <2>5, RememberedIInv
<1> QED BY <1>1, <1>2, <1>3

LEMMA StateExpiresIInv ==
  ASSUME IInv, NEW state \in OAuthStates, StateExpires(state)
  PROVE  IInv'
<1>1. Remembered
  BY OAuthTyped DEF IInv, StateExpires, OAuthTypes, Remembered
<1>2. StoreTypes' /\ UNCHANGED thread
  BY StoreTyped DEF IInv, StateExpires, StoreTypes, storeVars
<1> QED BY <1>1, <1>2, RememberedIInv

\* A step of a callback through the places before the exchange.
LEMMA CallbackMoves ==
  ASSUME IInv, NEW t \in Threads, NEW pc \in {"spend", "fetch", "exchange"}, Goto(t, pc),
         thread[t].pc \in {"lookup", "spend", "fetch"}
  PROVE  /\ Moves(t) /\ Fits(thread'[t]) /\ thread'[t].pc = pc
         /\ thread'[t].state = thread[t].state /\ thread[t].state \in OAuthStates
<1>1. TypeOK /\ Fits(thread[t]) /\ pc \in Pcs
  BY DEF IInv, JobOfPlace, Pcs
<1>2. /\ Moves(t) /\ thread'[t].pc = pc /\ thread'[t].job = thread[t].job
      /\ thread'[t].state = thread[t].state /\ thread'[t].fresh = thread[t].fresh
  BY <1>1, Going
<1> QED BY <1>1, <1>2 DEF Fits

LEMMA LookupIInv == ASSUME IInv, NEW t \in Threads, LookupState(t) PROVE IInv'
<1>0. TypeOK
  BY DEF IInv
<1>1. CASE Fails(t, "lookup", FALSE)
  BY <1>1, FailsIInv DEF Pcs
<1>2. CASE Ends(t) /\ UNCHANGED oauthVars /\ (Carried(t) \/ UNCHANGED <<up, conn, current, faults>>)
  <2>1. StoreTypes'
    BY <1>0, <1>2, StoreTyped, CarriedTypes DEF StoreTypes
  <2> QED BY <1>2, <2>1, EndIInv DEF LookupState, At
<1>3. CASE Carried(t) /\ UNCHANGED oauthVars /\ Goto(t, "spend") /\ states[thread[t].state].issued
  <2>1. /\ Moves(t) /\ Fits(thread'[t]) /\ thread'[t].pc = "spend" /\ thread[t].pc = "lookup"
        /\ thread'[t].state = thread[t].state
    BY <1>3, CallbackMoves DEF LookupState, At
  <2>2. /\ JobOfPlace' /\ thread' \in [Threads -> Slots]
        /\ \A u \in Threads \ {t} : thread'[u] = thread[u]
    BY <1>0, <2>1, Fitting DEF IInv
  <2>3. TypeOK'
    <3>1. OAuthTypes'
      BY <1>0, <1>3, OAuthTyped DEF OAuthTypes, oauthVars
    <3>2. StoreTypes'
      BY <1>0, <1>3, CarriedTypes
    <3> QED BY <2>2, <3>1, <3>2, TypedAgain
  <2>4. SpentByOne'
    BY <1>3, <2>1, <2>2 DEF IInv, SpentByOne, Spender, oauthVars
  <2>5. SentOnce'
    BY <1>3 DEF IInv, SentOnce, oauthVars
  <2>6. WasGranted' /\ CarriedAlone' /\ SuccessorArrives'
    BY <1>3, <2>1, TokenQuietInv DEF TokenQuiet, oauthVars
  <2> QED BY <2>2, <2>3, <2>4, <2>5, <2>6 DEF IInv
<1> QED BY <1>1, <1>2, <1>3 DEF LookupState

LEMMA SpendIInv == ASSUME IInv, NEW t \in Threads, SpendState(t) PROVE IInv'
<1> DEFINE state == thread[t].state
<1>0. /\ TypeOK /\ OAuthTypes /\ Fits(thread[t]) /\ thread[t].pc = "spend"
      /\ state \in OAuthStates /\ states[state].issued
  BY OAuthTyped DEF IInv, JobOfPlace, Fits, SpendState, At, SpentByOne, Fails
<1>1. CASE Fails(t, "spend", TRUE)
  BY <1>1, FailsIInv DEF Pcs
<1>2. CASE ~Fails(t, "spend", TRUE)
  <2>1. /\ Carried(t)
        /\ states' = [states EXCEPT ![state].used = TRUE]
        /\ UNCHANGED <<redeemed, rotates, granted, valid, stored, exchanges, lost, bare>>
        /\ IF states[state].used THEN Ends(t) ELSE Goto(t, "fetch")
    BY <1>2 DEF SpendState
  <2> HIDE DEF state
  <2>2. /\ states' \in [OAuthStates -> [issued : BOOLEAN, verifier : BOOLEAN,
                                        used : BOOLEAN, expired : BOOLEAN]]
        /\ \A s \in OAuthStates :
             /\ states'[s].issued = states[s].issued
             /\ states'[s].verifier = states[s].verifier
             /\ states'[s].used = (states[s].used \/ s = state)
    BY <1>0, <2>1 DEF OAuthTypes
  <2>3. OAuthTypes' /\ StoreTypes'
    BY <1>0, <2>1, <2>2, CarriedTypes DEF OAuthTypes
  <2>4. SentOnce'
    BY <2>1, <2>2 DEF IInv, SentOnce
  <2>5. CASE states[state].used
    <3>1. Moves(t) /\ Fits(thread'[t]) /\ thread'[t].pc = "idle"
      BY <1>0, <2>1, <2>5, Ending
    <3>2. Remembered
      <4>1. ASSUME NEW s \in OAuthStates PROVE states'[s].used = states[s].used
        <5>1. states[s].used \in BOOLEAN /\ states'[s].used \in BOOLEAN
          BY <1>0, <2>2 DEF OAuthTypes
        <5>2. CASE s = state
          BY <2>2, <2>5, <5>1, <5>2, Zenon
        <5>3. CASE s # state
          BY <2>2, <5>1, <5>3, Zenon
        <5> QED BY <5>2, <5>3
      <4> QED BY <2>1, <2>2, <4>1 DEF Remembered
    <3> QED BY <1>0, <2>3, <3>1, <3>2, RememberedIInv
  <2>6. CASE ~states[state].used
    <3>1. /\ Moves(t) /\ Fits(thread'[t]) /\ thread'[t].pc = "fetch" /\ thread'[t].state = state
      BY <1>0, <2>1, <2>6, CallbackMoves DEF state
    <3>2. /\ JobOfPlace' /\ thread' \in [Threads -> Slots]
          /\ \A u \in Threads \ {t} : thread'[u] = thread[u]
      BY <1>0, <3>1, Fitting DEF IInv
    <3>3. TypeOK'
      BY <2>3, <3>2, TypedAgain
    <3>4. exchanges[state] = 0
      BY <1>0, <2>6 DEF IInv, SentOnce, OAuthTypes
    <3>5. \A u \in Threads : Spender(u) => thread[u].state # state
      BY <2>6 DEF IInv, SpentByOne
    <3>6. \A u \in Threads : thread[u].pc \in {"spend", "fetch", "exchange"} =>
            thread[u].state \in OAuthStates
      BY DEF IInv, JobOfPlace, Fits
    <3>7. SpentByOne'
      BY <1>0, <2>1, <2>2, <3>1, <3>2, <3>4, <3>5, <3>6 DEF IInv, SpentByOne, Spender
    <3>8. WasGranted' /\ CarriedAlone' /\ SuccessorArrives'
      BY <1>0, <2>1, <3>1, TokenQuietInv DEF TokenQuiet
    <3> QED BY <2>4, <3>2, <3>3, <3>7, <3>8 DEF IInv
  <2> QED BY <2>5, <2>6
<1> QED BY <1>1, <1>2

LEMMA FetchIInv == ASSUME IInv, NEW t \in Threads, FetchVerifier(t) PROVE IInv'
<1>0. TypeOK
  BY DEF IInv
<1>1. CASE Fails(t, "fetch", FALSE)
  BY <1>1, FailsIInv DEF Pcs
<1>2. CASE Carried(t) /\ UNCHANGED oauthVars /\ Ends(t) /\ thread[t].pc = "fetch"
  BY <1>0, <1>2, EndIInv, CarriedTypes
<1>3. CASE /\ Carried(t) /\ UNCHANGED oauthVars /\ Goto(t, "exchange") /\ thread[t].pc = "fetch"
           /\ states[thread[t].state].verifier
  <2>1. /\ Moves(t) /\ Fits(thread'[t]) /\ thread'[t].pc = "exchange"
        /\ thread'[t].state = thread[t].state
    BY <1>3, CallbackMoves
  <2>2. /\ JobOfPlace' /\ thread' \in [Threads -> Slots]
        /\ \A u \in Threads \ {t} : thread'[u] = thread[u]
    BY <1>0, <2>1, Fitting DEF IInv
  <2>3. TypeOK'
    <3>1. OAuthTypes'
      BY <1>0, <1>3, OAuthTyped DEF OAuthTypes, oauthVars
    <3>2. StoreTypes'
      BY <1>0, <1>3, CarriedTypes
    <3> QED BY <2>2, <3>1, <3>2, TypedAgain
  <2>4. SpentByOne'
    BY <1>3, <2>1, <2>2 DEF IInv, SpentByOne, Spender, oauthVars
  <2>5. SentOnce'
    BY <1>3 DEF IInv, SentOnce, oauthVars
  <2>6. WasGranted' /\ CarriedAlone' /\ SuccessorArrives'
    BY <1>3, <2>1, TokenQuietInv DEF TokenQuiet, oauthVars
  <2> QED BY <2>2, <2>3, <2>4, <2>5, <2>6 DEF IInv
<1> QED BY <1>1, <1>2, <1>3 DEF FetchVerifier, At
-----------------------------------------------------------------------------
(* The tokens.                                                             *)

LEMMA FreshToken ==
  ASSUME NEW refresh \in {NoRefresh} \cup Refreshes
  PROVE  /\ Fresh(refresh) \in Tokens /\ Fresh(refresh).held
         /\ Fresh(refresh).refresh = refresh /\ Fresh(refresh) # NoToken
  BY DEF Fresh, Tokens, NoToken

\* What the exchange does to the states: its own was not used before.
LEMMA ExchangeStates ==
  ASSUME IInv, NEW t \in Threads, Exchange(t), Moves(t), Fits(thread'[t]),
         thread'[t].pc \in {"save", "idle"}
  PROVE  SpentByOne' /\ SentOnce' /\ exchanges' \in [OAuthStates -> 0..2]
<1> DEFINE state == thread[t].state
<1>1. /\ TypeOK /\ OAuthTypes /\ thread[t].pc = "exchange" /\ state \in OAuthStates
  BY OAuthTyped DEF IInv, JobOfPlace, Fits, Exchange, At
<1>2. /\ exchanges[state] = 0 /\ states[state].issued /\ states[state].used
      /\ states[state].verifier
      /\ \A u \in Threads : Spender(u) /\ thread[u].state = state => u = t
  BY <1>1 DEF IInv, SpentByOne, Spender
<1>3. /\ exchanges' = [exchanges EXCEPT ![state] = IF states[state].expired THEN @
                                                   ELSE IF @ = 0 THEN 1 ELSE 2]
      /\ states' = states
  BY DEF Exchange
<1> HIDE DEF state
<1>4. /\ exchanges' \in [OAuthStates -> 0..2] /\ exchanges'[state] \in 0..1
      /\ \A s \in OAuthStates \ {state} : exchanges'[s] = exchanges[s]
  BY <1>1, <1>2, <1>3 DEF OAuthTypes
<1>5. SentOnce'
  BY <1>2, <1>3, <1>4 DEF IInv, SentOnce
<1>6. \A u \in Threads \ {t} : thread'[u] = thread[u]
  BY Fitting DEF IInv
<1>7. \A u \in Threads : thread[u].pc \in {"spend", "fetch", "exchange"} =>
        thread[u].state \in OAuthStates
  BY DEF IInv, JobOfPlace, Fits
<1>8. SpentByOne'
  BY <1>2, <1>3, <1>4, <1>6, <1>7 DEF IInv, SpentByOne, Spender, state
<1> QED BY <1>4, <1>5, <1>8

\* The provider answers t without a refresh token.
GrantsNone(t) ==
  /\ thread'[t].pc = "save" /\ thread'[t].token = Fresh(NoRefresh)
  /\ UNCHANGED <<rotates, granted, valid, stored, lost, bare>>

LEMMA GrantsNoTokens ==
  ASSUME IInv, NEW t \in Threads, Moves(t), Fits(thread'[t]), ~Holder(t), GrantsNone(t)
  PROVE  WasGranted' /\ CarriedAlone' /\ SuccessorArrives'
<1>1. \A u \in Threads \ {t} : thread'[u] = thread[u]
  BY Fitting DEF IInv
<1>2. /\ thread'[t].pc = "save" /\ thread'[t].token.held
      /\ thread'[t].token.refresh = NoRefresh
  BY FreshToken DEF GrantsNone
<1>3. /\ UNCHANGED <<rotates, granted, valid, stored, lost, bare>>
      /\ thread[t].pc \notin {"refresh", "save", "resave"}
  BY DEF GrantsNone, Holder
<1>4. WasGranted'
  BY <1>1, <1>2, <1>3 DEF IInv, WasGranted, Known, Holder
<1>5. CarriedAlone'
  <2>1. ~rotates' => valid' = 1..granted'
    BY <1>3 DEF IInv, CarriedAlone
  <2>2. ASSUME rotates', NEW u \in Threads, Carrier(u)'
        PROVE  /\ thread'[u].token.refresh \in valid'
               /\ thread'[u].token.refresh # stored'.refresh
               /\ \A v \in Threads \ {u} : Holder(v)' =>
                    thread'[v].token.refresh # thread'[u].token.refresh
    <3>1. u # t /\ Carrier(u) /\ rotates /\ thread'[u] = thread[u]
          /\ thread[u].token.refresh # NoRefresh
      BY <1>1, <1>2, <1>3, <2>2 DEF Carrier
    <3> QED BY <1>1, <1>2, <1>3, <3>1 DEF IInv, CarriedAlone, Holder
  <2> QED BY <2>1, <2>2 DEF CarriedAlone
<1>6. SuccessorArrives'
  BY <1>1, <1>3 DEF IInv, SuccessorArrives
<1> QED BY <1>4, <1>5, <1>6

\* The provider grants one more token, to t alone or to nobody.
GrantsOne(t) ==
  /\ granted' = granted + 1 /\ granted' \in Refreshes
  /\ valid' = valid \cup {granted + 1}
  /\ \/ thread'[t].pc = "save" /\ thread'[t].token = Fresh(granted + 1)
     \/ thread'[t].pc = "idle"
  /\ UNCHANGED <<rotates, stored, lost, bare>>

LEMMA GrantsOneTokens ==
  ASSUME IInv, NEW t \in Threads, Moves(t), Fits(thread'[t]), ~Holder(t), GrantsOne(t)
  PROVE  WasGranted' /\ CarriedAlone' /\ SuccessorArrives'
<1> DEFINE new == granted + 1
<1>1. /\ granted \in Nat /\ new \in Refreshes /\ new \notin 1..granted /\ new # 0
      /\ 1..new = (1..granted) \cup {new} /\ granted' = new
  BY OAuthTyped DEF IInv, OAuthTypes, GrantsOne, Refreshes
<1>2. \A u \in Threads \ {t} : thread'[u] = thread[u]
  BY Fitting DEF IInv
<1>3. thread'[t].pc # "idle" => /\ thread'[t].pc = "save" /\ thread'[t].token.held
                                /\ thread'[t].token.refresh = new
  BY <1>1, FreshToken DEF GrantsOne
<1>4. stored.refresh # new
  BY <1>1 DEF IInv, WasGranted, Known, NoRefresh
<1>5. \A u \in Threads \ {t} : Holder(u) => thread[u].token.refresh # new
  BY <1>1 DEF IInv, WasGranted, Known, NoRefresh
<1> HIDE DEF new
<1>6. valid' = valid \cup {new} /\ UNCHANGED <<rotates, stored, lost, bare>>
      /\ thread'[t].pc \in {"save", "idle"} /\ thread[t].pc \notin {"refresh", "save", "resave"}
  BY DEF GrantsOne, new, Holder
<1>7. WasGranted'
  BY <1>1, <1>2, <1>3, <1>6 DEF IInv, WasGranted, Known, Holder
<1>8. CarriedAlone'
  BY <1>1, <1>2, <1>3, <1>4, <1>5, <1>6 DEF IInv, CarriedAlone, Carrier, Holder
<1>9. SuccessorArrives'
  BY <1>2, <1>6 DEF IInv, SuccessorArrives
<1> QED BY <1>7, <1>8, <1>9

LEMMA ExchangeIInv == ASSUME IInv, NEW t \in Threads, Exchange(t) PROVE IInv'
<1>0. /\ TypeOK /\ OAuthTypes /\ Fits(thread[t]) /\ thread[t].pc = "exchange"
      /\ thread \in [Threads -> Slots] /\ thread[t] \in Slots
  BY OAuthTyped, Types DEF IInv, JobOfPlace, Exchange, At
<1>1. StoreTypes'
  BY <1>0, StoreTyped DEF Exchange, StoreTypes
<1>2. UNCHANGED <<rotates, stored, states, lost, bare>>
  BY DEF Exchange
<1>6. redeemed \cup {thread[t].state} \subseteq OAuthStates
  BY <1>0 DEF Fits, OAuthTypes
<1>3. CASE Ends(t) /\ UNCHANGED <<granted, valid>> /\ redeemed' \subseteq OAuthStates
  <2>1. Moves(t) /\ Fits(thread'[t]) /\ thread'[t].pc = "idle"
    BY <1>0, <1>3, Ending
  <2>2. SpentByOne' /\ SentOnce' /\ exchanges' \in [OAuthStates -> 0..2]
    BY <2>1, ExchangeStates
  <2>3. WasGranted' /\ CarriedAlone' /\ SuccessorArrives'
    BY <1>0, <1>2, <1>3, <2>1, TokenQuietInv DEF TokenQuiet
  <2>4. JobOfPlace' /\ thread' \in [Threads -> Slots]
    BY <2>1, Fitting DEF IInv
  <2>5. OAuthTypes'
    BY <1>0, <1>2, <1>3, <2>2 DEF OAuthTypes
  <2> QED BY <1>1, <2>2, <2>3, <2>4, <2>5, TypedAgain DEF IInv
<1>4. CASE /\ NewRefresh \in Refreshes
           /\ granted' = NewRefresh
           /\ valid' = valid \cup {NewRefresh}
           /\ redeemed' = redeemed \cup {thread[t].state}
           /\ \/ thread' = [thread EXCEPT ![t].pc = "save", ![t].token = Fresh(NewRefresh)]
              \/ Ends(t)
  <2>1. /\ Moves(t) /\ Fits(thread'[t])
        /\ \/ thread'[t].pc = "save" /\ thread'[t].token = Fresh(NewRefresh)
           \/ thread'[t].pc = "idle"
    <3>1. CASE Ends(t)
      BY <1>0, <3>1, Ending
    <3>2. CASE thread' = [thread EXCEPT ![t].pc = "save", ![t].token = Fresh(NewRefresh)]
      <4>1. Fresh(NewRefresh) \in Tokens
        BY <1>4, FreshToken
      <4>2. /\ Moves(t) /\ thread'[t].pc = "save" /\ thread'[t].token = Fresh(NewRefresh)
            /\ thread'[t].job = thread[t].job /\ thread'[t].state = thread[t].state
            /\ thread'[t].fresh = thread[t].fresh
        BY <1>0, <3>2, <4>1 DEF Moves, Slots, Pcs
      <4> QED BY <1>0, <4>2 DEF Fits
    <3> QED BY <1>4, <3>1, <3>2
  <2>2. SpentByOne' /\ SentOnce' /\ exchanges' \in [OAuthStates -> 0..2]
    BY <2>1, ExchangeStates
  <2>3. GrantsOne(t) /\ ~Holder(t)
    BY <1>0, <1>2, <1>4, <2>1 DEF GrantsOne, NewRefresh, Holder
  <2>4. WasGranted' /\ CarriedAlone' /\ SuccessorArrives'
    BY <2>1, <2>3, GrantsOneTokens
  <2>5. JobOfPlace' /\ thread' \in [Threads -> Slots]
    BY <2>1, Fitting DEF IInv
  <2>6. OAuthTypes'
    BY <1>0, <1>2, <1>4, <1>6, <2>2 DEF OAuthTypes, Refreshes
  <2> QED BY <1>1, <2>2, <2>4, <2>5, <2>6, TypedAgain DEF IInv
<1>5. CASE /\ redeemed' = redeemed \cup {thread[t].state} /\ UNCHANGED <<granted, valid>>
           /\ thread' = [thread EXCEPT ![t].pc = "save", ![t].token = Fresh(NoRefresh)]
  <2>1. /\ Moves(t) /\ thread'[t].pc = "save" /\ thread'[t].token = Fresh(NoRefresh)
        /\ thread'[t].job = thread[t].job /\ thread'[t].state = thread[t].state
        /\ thread'[t].fresh = thread[t].fresh
    BY <1>0, <1>5, FreshToken DEF Moves, Slots, Pcs
  <2>2. Fits(thread'[t])
    BY <1>0, <2>1 DEF Fits
  <2>3. SpentByOne' /\ SentOnce' /\ exchanges' \in [OAuthStates -> 0..2]
    BY <2>1, <2>2, ExchangeStates
  <2>4. WasGranted' /\ CarriedAlone' /\ SuccessorArrives'
    BY <1>0, <1>2, <1>5, <2>1, <2>2, GrantsNoTokens DEF GrantsNone, Holder
  <2>5. JobOfPlace' /\ thread' \in [Threads -> Slots]
    BY <2>1, <2>2, Fitting DEF IInv
  <2>6. OAuthTypes'
    BY <1>0, <1>2, <1>5, <1>6, <2>3 DEF OAuthTypes
  <2> QED BY <1>1, <2>3, <2>4, <2>5, <2>6, TypedAgain DEF IInv
<1>7. CASE Ends(t) /\ UNCHANGED <<granted, valid, redeemed>>
  BY <1>0, <1>3, <1>7 DEF OAuthTypes
<1>8. CASE \E refresh \in {NoRefresh, NewRefresh} :
             /\ Grant(refresh)
             /\ redeemed' = redeemed \cup {thread[t].state}
             /\ \/ thread' = [thread EXCEPT ![t].pc = "save", ![t].token = Fresh(refresh)]
                \/ Ends(t)
  <2>1. PICK refresh \in {NoRefresh, NewRefresh} :
             /\ Grant(refresh)
             /\ redeemed' = redeemed \cup {thread[t].state}
             /\ \/ thread' = [thread EXCEPT ![t].pc = "save", ![t].token = Fresh(refresh)]
                \/ Ends(t)
    BY <1>8
  <2>2. CASE refresh = NoRefresh /\ UNCHANGED <<granted, valid>>
    BY <1>3, <1>5, <1>6, <2>1, <2>2
  <2>3. CASE /\ refresh = NewRefresh /\ refresh \in Refreshes
             /\ granted' = refresh /\ valid' = valid \cup {refresh}
    BY <1>4, <2>1, <2>3
  <2> QED BY <2>1, <2>2, <2>3 DEF Grant
<1> QED BY <1>7, <1>8 DEF Exchange

LEMMA SaveTokenIInv == ASSUME IInv, NEW t \in Threads, SaveToken(t) PROVE IInv'
<1>0. TypeOK /\ OAuthTypes /\ thread[t].pc = "save" /\ thread[t] \in Slots
  BY OAuthTyped, Types DEF IInv, SaveToken, Fails, At
<1>1. CASE Fails(t, "save", FALSE)
  BY <1>1, FailsIInv DEF Pcs
<1>2. CASE /\ Save(t, thread[t].token) /\ Ends(t)
           /\ bare' = (thread[t].token.refresh = NoRefresh)
           /\ UNCHANGED <<states, redeemed, rotates, granted, valid, exchanges, lost>>
  <2>1. Moves(t) /\ Fits(thread'[t]) /\ thread'[t].pc = "idle"
    BY <1>0, <1>2, Ending
  <2>2. /\ JobOfPlace' /\ thread' \in [Threads -> Slots]
        /\ \A u \in Threads \ {t} : thread'[u] = thread[u]
    BY <2>1, Fitting DEF IInv
  <2>3. /\ stored' = thread[t].token /\ thread[t].token \in Tokens
        /\ stored'.refresh \in Known /\ stored'.held
    BY <1>0, <1>2 DEF Save, Slots, IInv, WasGranted, Holder
  <2>4. TypeOK'
    <3>1. OAuthTypes'
      BY <1>0, <1>2, <2>3 DEF OAuthTypes
    <3>2. StoreTypes'
      BY <1>0, <1>2, CarriedTypes DEF Save
    <3> QED BY <2>2, <3>1, <3>2, TypedAgain
  <2>5. SpentByOne' /\ SentOnce'
    BY <1>2, <2>1, StateQuietInv DEF StateQuiet
  <2>6. WasGranted'
    BY <1>2, <2>1, <2>2, <2>3 DEF IInv, WasGranted, Known, Holder
  <2>7. CarriedAlone'
    BY <1>0, <1>2, <2>1, <2>2, <2>3 DEF IInv, CarriedAlone, Carrier, Holder
  <2>8. stored'.refresh \in valid' \/ stored'.refresh = NoRefresh
    <3>1. CASE rotates
      BY <1>0, <1>2, <2>3, <3>1 DEF IInv, CarriedAlone, Carrier
    <3>2. CASE ~rotates
      BY <1>2, <2>3, <3>2 DEF IInv, CarriedAlone, Known
    <3> QED BY <3>1, <3>2
  <2>9. SuccessorArrives'
    BY <1>2, <2>3, <2>8 DEF SuccessorArrives
  <2> QED BY <2>2, <2>4, <2>5, <2>6, <2>7, <2>9 DEF IInv
<1> QED BY <1>1, <1>2 DEF SaveToken
LEMMA LoadTokenIInv == ASSUME IInv, NEW t \in Threads, LoadToken(t) PROVE IInv'
<1>0. /\ TypeOK /\ OAuthTypes /\ thread[t].pc = "load" /\ Fits(thread[t])
      /\ thread \in [Threads -> Slots] /\ thread[t] \in Slots
  BY OAuthTyped, Types DEF IInv, JobOfPlace, LoadToken, Fails, At
<1>1. CASE Fails(t, "load", FALSE)
  BY <1>1, FailsIInv DEF Pcs
<1>2. CASE Load(t) /\ Goto(t, "use")
  BY <1>0, <1>2, CarriedTypes, GoIInv DEF Load
<1>3. CASE /\ Load(t) /\ RefreshDue(stored)
           /\ thread' = [thread EXCEPT ![t].pc = "refresh", ![t].token = stored]
  <2>1. /\ Moves(t) /\ thread'[t].pc = "refresh" /\ thread'[t].token = stored
        /\ thread'[t].job = thread[t].job /\ thread'[t].state = thread[t].state
        /\ thread'[t].fresh = thread[t].fresh
    BY <1>0, <1>3 DEF Moves, Slots, Pcs, OAuthTypes
  <2>2. Fits(thread'[t])
    BY <1>0, <2>1 DEF Fits
  <2>3. /\ JobOfPlace' /\ thread' \in [Threads -> Slots]
        /\ \A u \in Threads \ {t} : thread'[u] = thread[u]
    BY <2>1, <2>2, Fitting DEF IInv
  <2>4. UNCHANGED oauthVars /\ StoreTypes'
    BY <1>0, <1>3, CarriedTypes DEF Load
  <2>5. UNCHANGED <<states, redeemed, rotates, granted, valid, stored, exchanges, lost, bare>>
    BY <2>4 DEF oauthVars
  <2>6. TypeOK'
    <3>1. OAuthTypes'
      BY <1>0, <2>5 DEF OAuthTypes
    <3> QED BY <2>3, <2>4, <3>1, TypedAgain
  <2>7. SpentByOne' /\ SentOnce'
    BY <2>1, <2>2, <2>5, StateQuietInv DEF StateQuiet
  <2>8. stored.held /\ stored.refresh \in Known /\ stored.refresh # NoRefresh
    BY <1>3 DEF IInv, WasGranted, RefreshDue
  <2>9. WasGranted'
    BY <2>1, <2>3, <2>5, <2>8 DEF IInv, WasGranted, Known, Holder
  <2>10. CarriedAlone'
    BY <1>0, <2>1, <2>3, <2>5 DEF IInv, CarriedAlone, Carrier, Holder
  <2>11. SuccessorArrives'
    BY <1>0, <2>1, <2>3, <2>5 DEF IInv, SuccessorArrives
  <2> QED BY <2>3, <2>6, <2>7, <2>9, <2>10, <2>11 DEF IInv
<1> QED BY <1>1, <1>2, <1>3 DEF LoadToken

\* A thread goes elsewhere with another token.
LEMMA Redirected ==
  ASSUME NEW t \in Threads, NEW pc \in Pcs, NEW token \in Tokens,
         thread \in [Threads -> Slots],
         thread' = [thread EXCEPT ![t].pc = pc, ![t].token = token]
  PROVE  /\ Moves(t) /\ thread'[t].pc = pc /\ thread'[t].token = token
         /\ thread'[t].job = thread[t].job /\ thread'[t].state = thread[t].state
         /\ thread'[t].fresh = thread[t].fresh
<1>1. thread[t] \in Slots /\ thread'[t] = [thread[t] EXCEPT !.pc = pc, !.token = token]
  OBVIOUS
<1>2. thread'[t] \in Slots
  BY <1>1 DEF Slots
<1>3. /\ thread'[t].pc = pc /\ thread'[t].token = token
      /\ thread'[t].job = thread[t].job /\ thread'[t].state = thread[t].state
      /\ thread'[t].fresh = thread[t].fresh
  BY <1>1 DEF Slots
<1>4. thread' \in [Threads -> Slots] /\ \A u \in Threads \ {t} : thread'[u] = thread[u]
  BY <1>2
<1> QED BY <1>3, <1>4 DEF Moves

\* A step of t to the place where it saves what it refreshed.
LEMMA ResaveMoves ==
  ASSUME IInv, NEW t \in Threads, NEW refresh \in Refreshes, thread[t].pc = "refresh",
         thread' = [thread EXCEPT ![t].pc = "resave", ![t].token = Fresh(refresh)]
  PROVE  /\ Moves(t) /\ Fits(thread'[t]) /\ thread'[t].pc = "resave"
         /\ thread'[t].token.held /\ thread'[t].token.refresh = refresh
<1>1. thread \in [Threads -> Slots] /\ Fits(thread[t])
  BY Types DEF IInv, JobOfPlace
<1>2. Fresh(refresh) \in Tokens /\ Fresh(refresh).held /\ Fresh(refresh).refresh = refresh
  BY FreshToken
<1>3. /\ Moves(t) /\ thread'[t].pc = "resave" /\ thread'[t].token = Fresh(refresh)
      /\ thread'[t].job = thread[t].job /\ thread'[t].state = thread[t].state
      /\ thread'[t].fresh = thread[t].fresh
  <2>1. "resave" \in Pcs
    BY DEF Pcs
  <2> QED BY <1>1, <1>2, <2>1, Redirected
<1> QED BY <1>1, <1>2, <1>3 DEF Fits

\* The provider keeps the token that t refreshes.
KeepsRefresh(t) ==
  /\ ~rotates
  /\ thread'[t].pc = "resave" /\ thread'[t].token.held
  /\ thread'[t].token.refresh = thread[t].token.refresh
  /\ UNCHANGED <<rotates, granted, valid, stored, lost, bare>>

LEMMA KeepsRefreshTokens ==
  ASSUME IInv, NEW t \in Threads, Moves(t), Fits(thread'[t]), thread[t].pc = "refresh",
         KeepsRefresh(t)
  PROVE  WasGranted' /\ CarriedAlone' /\ SuccessorArrives'
<1>1. \A u \in Threads \ {t} : thread'[u] = thread[u]
  BY Fitting DEF IInv
<1>2. WasGranted'
  BY <1>1 DEF IInv, WasGranted, Known, Holder, KeepsRefresh
<1>3. CarriedAlone'
  BY DEF IInv, CarriedAlone, KeepsRefresh
<1>4. SuccessorArrives'
  BY <1>1 DEF IInv, SuccessorArrives, KeepsRefresh
<1> QED BY <1>2, <1>3, <1>4

\* The provider replaces the token that t refreshes; the answer may be lost.
ReplacesRefresh(t) ==
  /\ rotates
  /\ granted' = granted + 1 /\ granted' \in Refreshes
  /\ valid' = (valid \ {thread[t].token.refresh}) \cup {granted + 1}
  /\ \/ /\ thread'[t].pc = "resave" /\ thread'[t].token.held
        /\ thread'[t].token.refresh = granted + 1
     \/ thread'[t].pc = "idle" /\ lost'
  /\ lost => lost'
  /\ UNCHANGED <<rotates, stored, bare>>

LEMMA ReplacesRefreshTokens ==
  ASSUME IInv, NEW t \in Threads, Moves(t), Fits(thread'[t]), thread[t].pc = "refresh",
         ReplacesRefresh(t)
  PROVE  WasGranted' /\ CarriedAlone' /\ SuccessorArrives'
<1> DEFINE new == granted + 1
           old == thread[t].token.refresh
<1>1. /\ granted \in Nat /\ new \in Refreshes /\ new \notin 1..granted /\ new # 0
      /\ 1..new = (1..granted) \cup {new} /\ granted' = new
  BY OAuthTyped DEF IInv, OAuthTypes, ReplacesRefresh, Refreshes
<1>2. \A u \in Threads \ {t} : thread'[u] = thread[u]
  BY Fitting DEF IInv
<1>3. /\ stored.refresh # new
      /\ \A u \in Threads \ {t} : Holder(u) => thread[u].token.refresh # new
  BY <1>1 DEF IInv, WasGranted, Known, NoRefresh
<1>4. /\ rotates /\ UNCHANGED <<rotates, stored, bare>>
      /\ valid' = (valid \ {old}) \cup {new}
      /\ thread'[t].pc \in {"resave", "idle"}
      /\ thread'[t].pc = "resave" => thread'[t].token.held /\ thread'[t].token.refresh = new
      /\ ~lost' => ~lost /\ thread'[t].pc = "resave"
  BY DEF ReplacesRefresh
<1> HIDE DEF new
\* What others carry is not the token that is replaced.
<1>5. \A u \in Threads \ {t} : Carrier(u) =>
        thread[u].token.refresh \in valid /\ thread[u].token.refresh # old
  BY <1>4 DEF IInv, CarriedAlone, Carrier, Holder
<1> HIDE DEF old
<1>6. WasGranted'
  BY <1>1, <1>2, <1>4 DEF IInv, WasGranted, Known, Holder, NoRefresh
<1>7. CarriedAlone'
  BY <1>2, <1>3, <1>4, <1>5 DEF IInv, CarriedAlone, Carrier, Holder
<1>8. SuccessorArrives'
  BY <1>4 DEF SuccessorArrives
<1> QED BY <1>6, <1>7, <1>8

LEMMA RefreshIInv == ASSUME IInv, NEW t \in Threads, Refresh(t) PROVE IInv'
<1>0. /\ TypeOK /\ OAuthTypes /\ thread[t].pc = "refresh" /\ thread[t].token.refresh \in Refreshes
  <2>1. TypeOK /\ OAuthTypes /\ thread[t].pc = "refresh"
    BY OAuthTyped DEF IInv, Refresh, At
  <2> QED BY <2>1 DEF IInv, WasGranted, Known, Holder, OAuthTypes, Refreshes
<1>1. StoreTypes' /\ UNCHANGED <<states, redeemed, rotates, stored, exchanges, bare>>
  BY <1>0, StoreTyped DEF Refresh, StoreTypes
<1>2. CASE Ends(t) /\ UNCHANGED <<granted, valid, lost>>
  BY <1>0, <1>1, <1>2, EndIInv DEF oauthVars
<1>3. CASE /\ ~rotates
           /\ thread' = [thread EXCEPT ![t].pc = "resave", ![t].token = Fresh(thread[t].token.refresh)]
           /\ UNCHANGED <<granted, valid, lost>>
  <2>1. /\ Moves(t) /\ Fits(thread'[t]) /\ thread'[t].pc = "resave"
        /\ thread'[t].token.held /\ thread'[t].token.refresh = thread[t].token.refresh
    BY <1>0, <1>3, ResaveMoves
  <2>2. JobOfPlace' /\ thread' \in [Threads -> Slots]
    BY <2>1, Fitting DEF IInv
  <2>3. WasGranted' /\ CarriedAlone' /\ SuccessorArrives'
    BY <1>0, <1>1, <1>3, <2>1, KeepsRefreshTokens DEF KeepsRefresh
  <2>4. SpentByOne' /\ SentOnce'
    BY <1>1, <2>1, StateQuietInv DEF StateQuiet
  <2>5. OAuthTypes'
    BY <1>0, <1>1, <1>3 DEF OAuthTypes
  <2> QED BY <1>1, <2>2, <2>3, <2>4, <2>5, TypedAgain DEF IInv
<1>4. CASE /\ rotates /\ NewRefresh \in Refreshes
           /\ granted' = NewRefresh
           /\ valid' = (valid \ {thread[t].token.refresh}) \cup {NewRefresh}
           /\ \/ /\ thread' = [thread EXCEPT ![t].pc = "resave", ![t].token = Fresh(NewRefresh)]
                 /\ UNCHANGED lost
              \/ Ends(t) /\ lost' = TRUE
  <2>1. /\ Moves(t) /\ Fits(thread'[t])
        /\ \/ /\ thread'[t].pc = "resave" /\ thread'[t].token.held
              /\ thread'[t].token.refresh = NewRefresh /\ lost' = lost
           \/ thread'[t].pc = "idle" /\ lost' = TRUE
    <3>1. CASE Ends(t) /\ lost' = TRUE
      BY <1>0, <3>1, Ending
    <3>2. CASE /\ thread' = [thread EXCEPT ![t].pc = "resave", ![t].token = Fresh(NewRefresh)]
               /\ UNCHANGED lost
      BY <1>0, <1>4, <3>2, ResaveMoves
    <3> QED BY <1>4, <3>1, <3>2
  <2>2. JobOfPlace' /\ thread' \in [Threads -> Slots]
    BY <2>1, Fitting DEF IInv
  <2>3. ReplacesRefresh(t)
    BY <1>1, <1>4, <2>1 DEF ReplacesRefresh, NewRefresh
  <2>4. WasGranted' /\ CarriedAlone' /\ SuccessorArrives'
    BY <1>0, <2>1, <2>3, ReplacesRefreshTokens
  <2>5. SpentByOne' /\ SentOnce'
    BY <1>1, <2>1, StateQuietInv DEF StateQuiet
  <2>6. lost' \in BOOLEAN
    BY <1>0, <2>1 DEF OAuthTypes
  <2>7. valid' \subseteq Refreshes /\ granted' \in 0..MaxGrants
    BY <1>0, <1>4 DEF OAuthTypes, Refreshes
  <2>8. OAuthTypes'
    BY <1>0, <1>1, <2>6, <2>7 DEF OAuthTypes
  <2> QED BY <1>1, <2>2, <2>4, <2>5, <2>8, TypedAgain DEF IInv
<1> QED BY <1>2, <1>3, <1>4 DEF Refresh

LEMMA SaveRefreshedIInv == ASSUME IInv, NEW t \in Threads, SaveRefreshed(t) PROVE IInv'
<1>0. /\ TypeOK /\ OAuthTypes /\ thread[t].pc = "resave" /\ thread[t] \in Slots
      /\ Fits(thread[t])
      /\ UNCHANGED <<states, redeemed, rotates, granted, valid, exchanges, bare>>
  BY OAuthTyped, Types DEF IInv, JobOfPlace, SaveRefreshed, At
<1>1. CASE Raises(t, FALSE) /\ Ends(t) /\ lost' = TRUE /\ UNCHANGED stored
  <2>1. Moves(t) /\ Fits(thread'[t]) /\ thread'[t].pc = "idle"
    BY <1>0, <1>1, Ending
  <2>2. /\ JobOfPlace' /\ thread' \in [Threads -> Slots]
        /\ \A u \in Threads \ {t} : thread'[u] = thread[u]
    BY <2>1, Fitting DEF IInv
  <2>3. TypeOK'
    <3>1. OAuthTypes'
      BY <1>0, <1>1 DEF OAuthTypes
    <3>2. StoreTypes'
      BY <1>0, <1>1, RaisedTypes
    <3> QED BY <2>2, <3>1, <3>2, TypedAgain
  <2>4. SpentByOne' /\ SentOnce'
    BY <1>0, <2>1, StateQuietInv DEF StateQuiet
  <2>5. WasGranted'
    BY <1>0, <1>1, <2>1, <2>2 DEF IInv, WasGranted, Known, Holder
  <2>6. CarriedAlone'
    BY <1>0, <1>1, <2>1, <2>2 DEF IInv, CarriedAlone, Carrier, Holder
  <2>7. SuccessorArrives'
    BY <1>1 DEF SuccessorArrives
  <2> QED BY <2>2, <2>3, <2>4, <2>5, <2>6, <2>7 DEF IInv
<1>2. CASE Save(t, thread[t].token) /\ Goto(t, "reload") /\ UNCHANGED lost
  <2>1. /\ Moves(t) /\ thread'[t].pc = "reload" /\ thread'[t].job = thread[t].job
        /\ thread'[t].state = thread[t].state /\ thread'[t].fresh = thread[t].fresh
    BY <1>0, <1>2, Going DEF Pcs
  <2>2. Fits(thread'[t])
    BY <1>0, <2>1 DEF Fits
  <2>3. /\ JobOfPlace' /\ thread' \in [Threads -> Slots]
        /\ \A u \in Threads \ {t} : thread'[u] = thread[u]
    BY <2>1, <2>2, Fitting DEF IInv
  <2>4. /\ stored' = thread[t].token /\ thread[t].token \in Tokens
        /\ stored'.refresh \in Known /\ stored'.refresh # NoRefresh /\ stored'.held
    BY <1>0, <1>2 DEF Save, Slots, IInv, WasGranted, Holder
  <2>5. TypeOK'
    <3>1. OAuthTypes'
      BY <1>0, <1>2, <2>4 DEF OAuthTypes
    <3>2. StoreTypes'
      BY <1>0, <1>2, CarriedTypes DEF Save
    <3> QED BY <2>3, <3>1, <3>2, TypedAgain
  <2>6. SpentByOne' /\ SentOnce'
    BY <1>0, <2>1, <2>2, StateQuietInv DEF StateQuiet
  <2>7. WasGranted'
    BY <1>0, <2>1, <2>3, <2>4 DEF IInv, WasGranted, Known, Holder
  <2>8. CarriedAlone'
    BY <1>0, <2>1, <2>3, <2>4 DEF IInv, CarriedAlone, Carrier, Holder
  <2>9. stored'.refresh \in valid'
    <3>1. CASE rotates
      BY <1>0, <2>4, <3>1 DEF IInv, CarriedAlone, Carrier
    <3>2. CASE ~rotates
      BY <1>0, <2>4, <3>2 DEF IInv, CarriedAlone, Known
    <3> QED BY <3>1, <3>2
  <2>10. SuccessorArrives'
    BY <2>9 DEF SuccessorArrives
  <2> QED BY <2>3, <2>5, <2>6, <2>7, <2>8, <2>10 DEF IInv
<1> QED BY <1>1, <1>2 DEF SaveRefreshed

LEMMA ReloadIInv == ASSUME IInv, NEW t \in Threads, ReloadToken(t) PROVE IInv'
<1>0. /\ TypeOK /\ thread[t].pc = "reload" /\ Fits(thread[t])
      /\ thread \in [Threads -> Slots] /\ NoToken \in Tokens
  BY Types DEF IInv, JobOfPlace, ReloadToken, Fails, At
<1>1. CASE Fails(t, "reload", FALSE)
  BY <1>1, FailsIInv DEF Pcs
<1>2. CASE Load(t) /\ thread' = [thread EXCEPT ![t].pc = "use", ![t].token = NoToken]
  <2>1. /\ Moves(t) /\ thread'[t].pc = "use" /\ thread'[t].job = thread[t].job
        /\ thread'[t].state = thread[t].state /\ thread'[t].fresh = thread[t].fresh
    <3>1. "use" \in Pcs
      BY DEF Pcs
    <3> QED BY <1>0, <1>2, <3>1, Redirected
  <2>2. Fits(thread'[t])
    BY <1>0, <2>1 DEF Fits
  <2>3. StoreTypes' /\ UNCHANGED oauthVars
    BY <1>0, <1>2, CarriedTypes DEF Load
  <2> QED BY <1>0, <2>1, <2>2, <2>3, QuietIInv DEF Quiet
<1> QED BY <1>1, <1>2 DEF ReloadToken

LEMMA CheckReadyIInv == ASSUME IInv, NEW t \in Threads, CheckReady(t) PROVE IInv'
<1>0. TypeOK /\ thread[t].pc = "check"
  BY DEF IInv, CheckReady, Fails, At
<1>1. CASE Fails(t, "check", FALSE)
  BY <1>1, FailsIInv DEF Pcs
<1>2. CASE Load(t) /\ (Goto(t, "load") \/ Ends(t))
  BY <1>0, <1>2, CarriedTypes, GoIInv, EndIInv DEF Load
<1> QED BY <1>1, <1>2 DEF CheckReady

\* Nothing happens but to the store.
LEMMA StoreOnlyIInv ==
  ASSUME IInv, StoreTypes', UNCHANGED <<thread, oauthVars>>
  PROVE  IInv'
<1>1. /\ UNCHANGED <<states, redeemed, rotates, granted, valid, stored, exchanges, lost, bare>>
      /\ thread' = thread /\ thread' \in [Threads -> Slots]
  BY Types DEF IInv, oauthVars
<1>2. TypeOK'
  <2>1. OAuthTypes'
    BY <1>1, OAuthTyped DEF IInv, OAuthTypes
  <2> QED BY <1>1, <2>1, TypedAgain
<1>3. JobOfPlace' /\ SpentByOne' /\ SentOnce'
  BY <1>1 DEF IInv, JobOfPlace, Fits, SpentByOne, Spender, SentOnce
<1>4. WasGranted' /\ CarriedAlone' /\ SuccessorArrives'
  BY <1>1 DEF IInv, WasGranted, Known, CarriedAlone, SuccessorArrives, Carrier, Holder
<1> QED BY <1>2, <1>3, <1>4 DEF IInv

LEMMA CheckpointIInv == ASSUME IInv, NEW t \in Threads, Checkpoint(t) PROVE IInv'
<1>1. CASE Fails(t, "use", FALSE)
  BY <1>1, FailsIInv DEF Pcs
<1>2. CASE Carried(t) /\ UNCHANGED <<thread, oauthVars>>
  BY <1>2, CarriedTypes, StoreOnlyIInv DEF IInv
<1> QED BY <1>1, <1>2 DEF Checkpoint

LEMMA DatabaseIInv ==
  ASSUME IInv, DatabaseDown \/ DatabaseUp, UNCHANGED oauthVars
  PROVE  IInv'
<1>1. StoreTypes'
  <2>1. StoreTypes
    BY StoreTyped DEF IInv
  <2>2. CASE DatabaseDown
    <3>1. conn' \in [Stores -> ConnStates]
      BY <2>2 DEF DatabaseDown, ConnStates
    <3>2. faults' \in 0..MaxFaults
      BY <2>1, <2>2 DEF DatabaseDown, Fault, StoreTypes
    <3> QED BY <2>1, <2>2, <3>1, <3>2 DEF DatabaseDown, StoreTypes
  <2>3. CASE DatabaseUp
    BY <2>1, <2>3 DEF DatabaseUp, StoreTypes
  <2> QED BY <2>2, <2>3
<1> QED BY <1>1, StoreOnlyIInv DEF DatabaseDown, DatabaseUp

LEMMA TokenDueIInv == ASSUME IInv, TokenDue PROVE IInv'
<1>0. /\ TypeOK /\ OAuthTypes /\ thread \in [Threads -> Slots] /\ StoreTypes
      /\ UNCHANGED <<states, redeemed, rotates, granted, valid, exchanges, lost, bare, thread>>
      /\ UNCHANGED <<up, conn, current, faults>>
  BY OAuthTyped, StoreTyped, Types DEF IInv, TokenDue, storeVars
<1>1. /\ stored' \in Tokens /\ stored'.refresh = stored.refresh
      /\ stored'.held = stored.held /\ stored.held
  BY <1>0 DEF TokenDue, OAuthTypes, Tokens
<1>2. TypeOK'
  <2>1. OAuthTypes'
    BY <1>0, <1>1 DEF OAuthTypes
  <2>2. StoreTypes'
    BY <1>0 DEF StoreTypes
  <2> QED BY <1>0, <2>1, <2>2, TypedAgain
<1>3. JobOfPlace' /\ SpentByOne' /\ SentOnce'
  BY <1>0 DEF IInv, JobOfPlace, Fits, SpentByOne, Spender, SentOnce
<1>4. stored.refresh \in Known
  BY DEF IInv, WasGranted
<1>5. WasGranted'
  BY <1>0, <1>1, <1>4 DEF IInv, WasGranted, Known, Holder
<1>6. CarriedAlone' /\ SuccessorArrives'
  BY <1>0, <1>1 DEF IInv, CarriedAlone, SuccessorArrives, Carrier, Holder
<1> QED BY <1>2, <1>3, <1>5, <1>6 DEF IInv

-----------------------------------------------------------------------------
(* The theorems.                                                           *)

LEMMA InitIInv == Init => IInv
<1> SUFFICES ASSUME Init PROVE IInv
  OBVIOUS
<1>1. Idle \in Slots /\ NoToken \in Tokens
  <2>1. NoToken \in Tokens
    BY DEF NoToken, Tokens, NoRefresh
  <2> QED BY <2>1 DEF Idle, Slots, Pcs, Jobs
<1>2. 1 \in Stores
  BY FS_CardinalityType DEF Stores
<1>3. TypeOK
  <2>1. StoreTypes
    BY <1>2 DEF Init, StoreTypes, ConnStates
  <2>2. OAuthTypes
    <3>1. states \in [OAuthStates -> [issued : BOOLEAN, verifier : BOOLEAN,
                                      used : BOOLEAN, expired : BOOLEAN]]
      BY DEF Init
    <3>2. exchanges \in [OAuthStates -> 0..2]
      BY DEF Init
    <3>3. granted \in 0..MaxGrants /\ stored \in Tokens
      BY <1>1 DEF Init
    <3> QED BY <3>1, <3>2, <3>3 DEF Init, OAuthTypes
  <2>3. thread \in [Threads -> Slots]
    BY <1>1 DEF Init
  <2> QED BY <2>1, <2>2, <2>3 DEF TypeOK, StoreTypes, OAuthTypes, Slots
<1>4. \A t \in Threads : thread[t] = Idle
  BY DEF Init
<1>5. JobOfPlace
  BY <1>4 DEF JobOfPlace, Fits, Idle
<1>6. SpentByOne /\ SentOnce
  BY <1>4 DEF Init, SpentByOne, Spender, SentOnce, Idle
<1>7. WasGranted /\ CarriedAlone /\ SuccessorArrives
  BY <1>4 DEF Init, WasGranted, Known, CarriedAlone, SuccessorArrives, Carrier, Holder, Idle, NoToken
<1> QED BY <1>3, <1>5, <1>6, <1>7 DEF IInv

LEMMA StepIInv == ASSUME IInv, NEW t \in Threads, Step(t) PROVE IInv'
  BY GetStoreIInv, InstallIInv, LookupIInv, SpendIInv, FetchIInv, ExchangeIInv, SaveTokenIInv,
     CheckReadyIInv, LoadTokenIInv, RefreshIInv, SaveRefreshedIInv, ReloadIInv, CheckpointIInv,
     LeaveIInv DEF Step

LEMMA NextIInv == IInv /\ [Next]_vars => IInv'
<1> SUFFICES ASSUME IInv, [Next]_vars PROVE IInv'
  OBVIOUS
<1>1. ASSUME NEW t \in Threads, Step(t) PROVE IInv'
  BY <1>1, StepIInv
<1>2. ASSUME NEW t \in Threads, BeginHealth(t) \/ BeginRun(t) PROVE IInv'
  BY <1>2, BeginIInv DEF BeginHealth, BeginRun, Jobs
<1>3. ASSUME NEW t \in Threads, NEW state \in OAuthStates,
             BeginInstall(t, state) \/ BeginCallback(t, state)
      PROVE  IInv'
  BY <1>3, BeginIInv DEF BeginInstall, BeginCallback, Jobs
<1>4. ASSUME NEW state \in OAuthStates, StateExpires(state) PROVE IInv'
  BY <1>4, StateExpiresIInv
<1>5. CASE TokenDue
  BY <1>5, TokenDueIInv
<1>6. CASE (DatabaseDown \/ DatabaseUp) /\ UNCHANGED oauthVars
  BY <1>6, DatabaseIInv
<1>7. CASE UNCHANGED vars
  <2>1. StoreTypes' /\ UNCHANGED <<thread, oauthVars>>
    BY <1>7, StoreTyped DEF IInv, vars, storeVars, StoreTypes
  <2> QED BY <2>1, StoreOnlyIInv
<1> QED BY <1>1, <1>2, <1>3, <1>4, <1>5, <1>6, <1>7 DEF Next

\* Every state that the steps of the code reach satisfies the inductive invariant.
THEOREM Invariance == Spec => []IInv
  BY InitIInv, NextIInv, PTL DEF Spec

\* The store, the threads, the states and the tokens keep their types; among
\* them, there is always another store to build.
THEOREM TypeCorrectness == Spec => []TypeOK
<1>1. IInv => TypeOK
  BY DEF IInv
<1> QED BY <1>1, Invariance, PTL

\* However many threads make the callback of a state, however often, and
\* whatever fails in between, its code is sent to the provider at most once.
THEOREM StatesAreSpentOnce == Spec => []StateSpentOnce
<1>1. IInv => StateSpentOnce
  BY DEF IInv, SentOnce, StateSpentOnce
<1> QED BY <1>1, Invariance, PTL

\* However many runs refresh the token at once, with a provider that replaces
\* refresh tokens or keeps them, the stored one can be refreshed or its
\* successor arrives, unless a new token was lost on its way or the last
\* installation came without a refresh token.
THEOREM TokensStayRefreshable == Spec => []StaysRefreshable
<1>1. IInv => StaysRefreshable
  BY DEF IInv, SuccessorArrives, StaysRefreshable, Arriving
<1> QED BY <1>1, Invariance, PTL
=============================================================================
