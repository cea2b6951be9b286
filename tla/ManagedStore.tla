---------------------------- MODULE ManagedStore ----------------------------
(***************************************************************************)
(* The investigation store that the threads of the web application share:  *)
(* one connection to PostgreSQL behind a lock, replaced when it cannot be  *)
(* reached, while other threads still hold the one it replaces.            *)
(*                                                                         *)
(* A command of the store is one step, since it runs under the lock; what  *)
(* a failed command leaves behind (an aborted transaction) is not: the     *)
(* next command of any thread meets it.                                    *)
(*                                                                         *)
(* A definition whose comment starts with "Faulty" is no part of the       *)
(* model: it is the definition after it with a bug put in, kept to try     *)
(* that the properties notice.                                             *)
(***************************************************************************)
EXTENDS Naturals, FiniteSets

CONSTANTS
  Threads,    \* threads of the web application
  MaxFaults   \* bound: faults of the database and of single statements

ASSUME ManagedStoreAssumption == IsFiniteSet(Threads) /\ MaxFaults \in Nat

VARIABLES
  up,        \* the database accepts connections
  conn,      \* the state of each store's connection
  current,   \* app.state.store
  thread,    \* what each thread does
  faults     \* faults so far

storeVars == <<up, conn, current, thread, faults>>

\* Every thread may hold one store and have built another.  0 is the store
\* that stands in when none can be built, _UnavailableInvestigationStore.
Unavailable == 0
Stores      == 1..(2 * Cardinality(Threads) + 1)

\* aborted: a statement has failed and its transaction was not rolled back.
ConnStates == {"ready", "aborted", "broken", "closed"}

Usable(store) == store # Unavailable /\ conn[store] = "ready"

\* A store that nobody holds any more; its connection goes with it.
Held(store) ==
  \/ current = store
  \/ \E t \in Threads : store \in {thread[t].store, thread[t].fresh}

\* Another store for the application to build.
NewStore == CHOOSE store \in Stores : ~Held(store)

Fault == faults < MaxFaults /\ faults' = faults + 1

At(t, pc) == thread[t].pc = pc
Goto(t, pc) == thread' = [thread EXCEPT ![t].pc = pc]

-----------------------------------------------------------------------------
(* The database.                                                           *)

\* An outage breaks every open connection, for good.
DatabaseDown ==
  /\ up
  /\ Fault
  /\ up' = FALSE
  /\ conn' = [store \in Stores |-> IF conn[store] = "closed" THEN "closed" ELSE "broken"]
  /\ UNCHANGED <<current, thread>>

DatabaseUp ==
  /\ ~up
  /\ up' = TRUE
  /\ UNCHANGED <<conn, current, thread, faults>>

-----------------------------------------------------------------------------
(* _get_app_store: ping the shared store, and replace it if it is no use.  *)

ReadCurrent(t) ==
  /\ At(t, "read")
  /\ thread' = [thread EXCEPT ![t].pc = "ping", ![t].store = current]
  /\ UNCHANGED <<up, conn, current, faults>>

\* Faulty: only a store that was built is asked, so the stand-in stays.
PingBuilt(t, next) ==
  /\ At(t, "ping")
  /\ IF thread[t].store = Unavailable \/ Usable(thread[t].store)
       THEN Goto(t, next) /\ UNCHANGED conn
       ELSE /\ Goto(t, "build")
            /\ conn' = [conn EXCEPT ![thread[t].store] = IF @ = "aborted" THEN "ready" ELSE @]
  /\ UNCHANGED <<up, current, faults>>

\* A ping that fails rolls the connection back, which leaves an aborted one
\* ready, and still answers that the store cannot be reached.
Ping(t, next) ==
  LET store == thread[t].store
  IN /\ At(t, "ping")
     /\ IF Usable(store)
          THEN Goto(t, next) /\ UNCHANGED conn
          ELSE /\ Goto(t, "build")
               /\ conn' = IF store # Unavailable /\ conn[store] = "aborted"
                            THEN [conn EXCEPT ![store] = "ready"]
                            ELSE conn
     /\ UNCHANGED <<up, current, faults>>

\* Faulty: a connection that could not be opened is kept.
BuildUnopened(t) ==
  /\ At(t, "build")
  /\ thread' = [thread EXCEPT ![t].pc = "close", ![t].fresh = NewStore]
  /\ conn' = [conn EXCEPT ![NewStore] = IF up THEN "ready" ELSE "unopened"]
  /\ UNCHANGED <<up, current, faults>>

Build(t) ==
  /\ At(t, "build")
  /\ IF up
       THEN /\ thread' = [thread EXCEPT ![t].pc = "close", ![t].fresh = NewStore]
            /\ conn' = [conn EXCEPT ![NewStore] = "ready"]
       ELSE /\ thread' = [thread EXCEPT ![t].pc = "close", ![t].fresh = Unavailable]
            /\ UNCHANGED conn
  /\ UNCHANGED <<up, current, faults>>

\* The store that did not answer is closed, whoever still uses it.
CloseOld(t) ==
  /\ At(t, "close")
  /\ conn' = IF thread[t].store = Unavailable
               THEN conn
               ELSE [conn EXCEPT ![thread[t].store] = "closed"]
  /\ Goto(t, "swap")
  /\ UNCHANGED <<up, current, faults>>

Swap(t, next) ==
  /\ At(t, "swap")
  /\ current' = thread[t].fresh
  /\ thread' = [thread EXCEPT ![t].pc = next, ![t].store = thread[t].fresh,
                              ![t].fresh = Unavailable]
  /\ UNCHANGED <<up, conn, faults>>

-----------------------------------------------------------------------------
(* A command of the store that the thread holds.                           *)

\* It is carried out and committed.
Carried(t) == Usable(thread[t].store) /\ UNCHANGED <<up, conn, current, faults>>

\* It raises: the connection is no use, or the statement fails.  Only
\* remember_idempotency_key rolls back.
Raises(t, rollsBack) ==
  LET store == thread[t].store
  IN /\ \/ ~Usable(store) /\ UNCHANGED faults
        \/ Usable(store) /\ Fault
     /\ conn' = CASE Usable(store) /\ ~rollsBack -> [conn EXCEPT ![store] = "aborted"]
                  [] store # Unavailable /\ conn[store] = "aborted" /\ rollsBack
                       -> [conn EXCEPT ![store] = "ready"]
                  [] OTHER -> conn
     /\ UNCHANGED <<up, current>>
=============================================================================
