-------------------------------- MODULE Pool --------------------------------
(***************************************************************************)
(* The database connections the handlers of the API share.  Every         *)
(* repository call outside a transaction borrows a connection of the      *)
(* driver's pool for its own duration; dataSource.transaction keeps one   *)
(* until it commits or rolls back.  The approval of a direct manager asks *)
(* AccessControlService.findProcurementManager from inside its            *)
(* transaction, through a repository that is not the transaction's: it    *)
(* then needs a second connection while it keeps the first, and with it   *)
(* the locks on the rows of the request it has written.  app.module.ts    *)
(* configures neither the size of the pool nor a time limit, so a handler *)
(* waits for a connection for as long as it takes.                        *)
(*                                                                         *)
(* The approval of a loan writes the row of an asset as well, in the same  *)
(* transaction, and whoever saves that asset meanwhile waits for it with a *)
(* connection in hand.                                                     *)
(*                                                                         *)
(* One "read" stands for a call's run of separate queries: each borrows   *)
(* and returns a connection in the same way.                              *)
(***************************************************************************)
EXTENDS Naturals, Sequences, FiniteSets

CONSTANTS Connections,   \* the connections the pool may open
          Handlers,      \* the calls that can be in flight together
          Writers,       \* those that write rows of requests or of assets
          Requests,      \* the requests whose rows they write
          Assets,        \* the assets
          None           \* no connection, no handler

ASSUME PoolAssumption == /\ IsFiniteSet(Connections) /\ Connections # {}
                         /\ IsFiniteSet(Handlers)
                         /\ Writers \subseteq Handlers
                         /\ Requests \cap Assets = {}
                         /\ None \notin Connections \cup Handlers
                                         \cup Requests \cup Assets

VARIABLES pc,       \* what each handler is doing, or waits to do
          target,   \* the request or asset it is about to write, or has written
          conn,     \* the connection it has borrowed
          extra,    \* the one it has borrowed for the nested query
          lock,     \* the transaction that has written a request's rows, an asset's
          queue     \* the pool's queue of waiting handlers

vars == <<pc, target, conn, extra, lock, queue>>

\* What each wait becomes when the pool serves it.
Granted == [wantRead |-> "read", wantTx |-> "tx", wantSave |-> "save",
            wantManager |-> "manager", wantNotify |-> "notify"]

Wants   == {"wantRead", "wantTx", "wantSave", "wantManager", "wantNotify"}
States  == Wants \cup {"idle", "read", "tx", "lock", "locked", "manager",
                       "answered", "save", "notify"}

Rows == Requests \cup Assets

\* The queue holds handlers that wait, each once.
QueueOK ==
  /\ \A i \in 1 .. Len(queue) : pc[queue[i]] \in Wants
  /\ \A i, j \in 1 .. Len(queue) : queue[i] = queue[j] => i = j

\* Every variable is of its type, and whoever is served does wait.
PoolTypeOK ==
  /\ pc \in [Handlers -> States]
  /\ target \in [Handlers -> Rows \cup {None}]
  /\ conn \in [Handlers -> Connections \cup {None}]
  /\ extra \in [Handlers -> Connections \cup {None}]
  /\ lock \in [Rows -> Handlers \cup {None}]
  /\ queue \in Seq(Handlers)
  /\ QueueOK

Idle(c) == \A h \in Handlers : conn[h] # c /\ extra[h] # c

\* The handler needs a row lock that another transaction holds.
AwaitsLock(h) == /\ pc[h] \in {"lock", "save"}
                 /\ lock[target[h]] # None

\* It keeps a connection and cannot go on.
Blocked(h) == /\ conn[h] # None
              /\ AwaitsLock(h) \/ pc[h] = "wantManager"

-----------------------------------------------------------------------------
PoolInit ==
  /\ pc = [h \in Handlers |-> "idle"]
  /\ target = [h \in Handlers |-> None]
  /\ conn = [h \in Handlers |-> None]
  /\ extra = [h \in Handlers |-> None]
  /\ lock = [r \in Rows |-> None]
  /\ queue = <<>>

\* Variant for mutation: the last to come is served first.
ConnectFirst(h, want) ==
  /\ pc' = [pc EXCEPT ![h] = want]
  /\ queue' = <<h>> \o queue

\* pool.connect: the handler goes to the end of the queue.
Connect(h, want) ==
  /\ pc' = [pc EXCEPT ![h] = want]
  /\ queue' = Append(queue, h)

\* Variant for mutation: the connection goes back with its transaction open.
ReleaseOpen(h) == /\ conn' = [conn EXCEPT ![h] = None]
                  /\ extra' = [extra EXCEPT ![h] = None]
                  /\ UNCHANGED lock

\* A handler that is done with a connection gives it back, and its transaction,
\* if it has one, releases its row locks.
Release(h) == /\ conn' = [conn EXCEPT ![h] = None]
              /\ extra' = [extra EXCEPT ![h] = None]
              /\ lock' = [r \in Rows |-> IF lock[r] = h THEN None ELSE lock[r]]

\* A call arrives: its first query looks up the account of the token.
Call(h) ==
  /\ pc[h] = "idle"
  /\ Connect(h, "wantRead")
  /\ UNCHANGED <<target, conn, extra, lock>>

\* The pool gives an idle connection to the head of its queue.
Serve ==
  /\ queue # <<>>
  /\ \E c \in Connections : LET h == Head(queue) IN
       /\ Idle(c)
       /\ queue' = Tail(queue)
       /\ pc' = [pc EXCEPT ![h] = Granted[pc[h]]]
       /\ IF pc[h] = "wantManager"
            THEN extra' = [extra EXCEPT ![h] = c] /\ UNCHANGED conn
            ELSE conn' = [conn EXCEPT ![h] = c] /\ UNCHANGED extra
  /\ UNCHANGED <<target, lock>>

\* Variant for mutation: whoever reads may write.
AnswerAnyone(h) ==
  /\ pc[h] = "read"
  /\ Release(h)
  /\ \/ /\ pc' = [pc EXCEPT ![h] = "idle"]
        /\ UNCHANGED <<target, queue>>
     \/ \E r \in Rows, want \in {"wantTx", "wantSave"} :
          /\ want = "wantTx" => r \in Requests
          /\ target' = [target EXCEPT ![h] = r]
          /\ Connect(h, want)

\* A query outside a transaction is answered: the connection goes back, and
\* the call ends or, in a writer, opens a transaction (processAction) or saves
\* a row by itself: of a request (cancel) or of an asset (the inventory).
Answer(h) ==
  /\ pc[h] = "read"
  /\ Release(h)
  /\ \/ /\ pc' = [pc EXCEPT ![h] = "idle"]
        /\ UNCHANGED <<target, queue>>
     \/ /\ h \in Writers
        /\ \E r \in Rows, want \in {"wantTx", "wantSave"} :
             /\ want = "wantTx" => r \in Requests
             /\ target' = [target EXCEPT ![h] = r]
             /\ Connect(h, want)

\* The transaction has read the step anew and goes on to write it.
ReadStep(h) ==
  /\ pc[h] = "tx"
  /\ pc' = [pc EXCEPT ![h] = "lock"]
  /\ UNCHANGED <<target, conn, extra, lock, queue>>

\* The UPDATE goes through when no other transaction has written the row.
WriteRows(h) ==
  /\ pc[h] = "lock"
  /\ lock[target[h]] = None
  /\ lock' = [lock EXCEPT ![target[h]] = h]
  /\ pc' = [pc EXCEPT ![h] = "locked"]
  /\ UNCHANGED <<target, conn, extra, queue>>

\* fulfillLoanRequest: the transaction, the request's rows in hand, has found an
\* available asset and goes on to write it.
FindAsset(h) ==
  /\ pc[h] = "locked"
  /\ target[h] \in Requests
  /\ \E a \in Assets : target' = [target EXCEPT ![h] = a]
  /\ pc' = [pc EXCEPT ![h] = "lock"]
  /\ UNCHANGED <<conn, extra, lock, queue>>

\* handleManagerApproval: findProcurementManager inside the transaction.
AskManager(h) ==
  /\ pc[h] = "locked"
  /\ target[h] \in Requests
  /\ Connect(h, "wantManager")
  /\ UNCHANGED <<target, conn, extra, lock>>

ManagerFound(h) ==
  /\ pc[h] = "manager"
  /\ extra' = [extra EXCEPT ![h] = None]
  /\ pc' = [pc EXCEPT ![h] = "answered"]
  /\ UNCHANGED <<target, conn, lock, queue>>

\* The transaction commits (a rejection or a procurement approval without the
\* nested query); the recipients are then notified by separate queries.
Commit(h) ==
  /\ pc[h] \in {"locked", "answered"}
  /\ Release(h)
  /\ target' = [target EXCEPT ![h] = None]
  /\ Connect(h, "wantNotify")

\* The recipients' notifications are stored, and the call ends.
Notified(h) ==
  /\ pc[h] = "notify"
  /\ Release(h)
  /\ pc' = [pc EXCEPT ![h] = "idle"]
  /\ UNCHANGED <<target, queue>>

\* repository.save of one row: written and committed once the lock is free.
Save(h) ==
  /\ pc[h] = "save"
  /\ lock[target[h]] = None
  /\ Release(h)
  /\ target' = [target EXCEPT ![h] = None]
  /\ pc' = [pc EXCEPT ![h] = "idle"]
  /\ UNCHANGED queue

\* Variant for mutation: a handler gives up waiting and stays in the queue.
FailWaiting(h) ==
  /\ conn[h] # None
  /\ Release(h)
  /\ target' = [target EXCEPT ![h] = None]
  /\ pc' = [pc EXCEPT ![h] = "idle"]
  /\ UNCHANGED queue

\* A query or a check fails: the transaction rolls back, and everything the
\* handler has borrowed is released with it.
Fail(h) ==
  /\ conn[h] # None
  /\ ~Blocked(h)
  /\ Release(h)
  /\ target' = [target EXCEPT ![h] = None]
  /\ pc' = [pc EXCEPT ![h] = "idle"]
  /\ UNCHANGED queue

Progress(h) == \/ Answer(h) \/ ReadStep(h) \/ FindAsset(h) \/ AskManager(h)
               \/ ManagerFound(h) \/ Commit(h) \/ Notified(h)
Lock(h)     == WriteRows(h) \/ Save(h)

PoolNext ==
  \/ Serve
  \/ \E h \in Handlers : \/ Call(h)
                         \/ Answer(h)
                         \/ ReadStep(h)
                         \/ WriteRows(h)
                         \/ FindAsset(h)
                         \/ AskManager(h)
                         \/ ManagerFound(h)
                         \/ Commit(h)
                         \/ Notified(h)
                         \/ Save(h)
                         \/ Fail(h)

PoolSpec == PoolInit /\ [][PoolNext]_vars

\* The event loop and the database finish every query that can run; the pool
\* hands out idle connections; the database's lock queue does not pass over a
\* waiting transaction for ever.  Nothing makes a call arrive or fail.
FairPoolSpec == /\ PoolSpec
                /\ WF_vars(Serve)
                /\ \A h \in Handlers : WF_vars(Progress(h)) /\ SF_vars(Lock(h))

-----------------------------------------------------------------------------
\* Nothing that holds a connection can run, and somebody waits for one.
Starved == /\ queue # <<>>
           /\ \A c \in Connections : \E h \in Handlers :
                Blocked(h) /\ c \in {conn[h], extra[h]}

\* A connection lent is in use: an ended call keeps neither a connection nor
\* any rows, and no connection is lent twice (what TypeORM's
\* transaction wrapper must guarantee on every path out of processAction).
NothingLeaks ==
  /\ \A h \in Handlers : pc[h] = "idle" =>
       /\ conn[h] = None /\ extra[h] = None
       /\ \A r \in Rows : lock[r] # h
  /\ \A g, h \in Handlers : conn[g] # None =>
       conn[g] # extra[h] /\ (conn[g] = conn[h] => g = h)

\* Whoever waits for a row waits for a transaction that can go on, for a
\* manager's approval that itself waits for the pool, or for a loan's approval
\* that waits for an asset whose writer can go on.  So the pool starves only
\* through the nested query of handleManagerApproval: without such an approval
\* among the waiting, some holder of a connection can always run.
OnlyNestedQueryStarves ==
  Starved => \E h \in Handlers : /\ pc[h] = "wantManager"
                                 /\ \E r \in Requests : lock[r] = h

\* Starving takes as many writers in flight as the pool has connections, each
\* keeping one: reads, however many, cannot do it.
StarvingTakesAPoolOfWriters ==
  Starved => Cardinality({h \in Writers : Blocked(h)}) >= Cardinality(Connections)

\* Unless the pool starves for good, every call that arrives ends, however
\* calls compete for connections and for the rows of one request.
EveryCallEnds ==
  []<>~Starved => \A h \in Handlers : pc[h] # "idle" ~> pc[h] = "idle"
=============================================================================
