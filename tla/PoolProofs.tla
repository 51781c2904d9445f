----------------------------- MODULE PoolProofs -----------------------------
(***************************************************************************)
(* Proofs about Pool for every number of connections, handlers and        *)
(* requests.  The inductive invariant PoolInv says what each place of a   *)
(* handler keeps: a connection exactly from where the pool has served it  *)
(* to where it gives it back, the second one exactly during the nested    *)
(* query, the rows of its request while its transaction has written them, *)
(* and those of an asset only in the last place before the commit.        *)
(***************************************************************************)
EXTENDS Pool, FiniteSetTheorems, TLAPS

Asking  == {"wantManager", "manager", "answered"}
Writing == Asking \cup {"locked"}
Holding == Writing \cup {"read", "tx", "lock", "save", "notify"}
Working == Writing \cup {"wantTx", "wantSave", "tx", "lock", "save"}

PlaceInv ==
  \A h \in Handlers : /\ conn[h] # None <=> pc[h] \in Holding
                      /\ extra[h] # None <=> pc[h] = "manager"
                      /\ pc[h] \in Working => target[h] \in Rows /\ h \in Writers
                      /\ pc[h] \in Asking \cup {"wantTx", "tx"} =>
                           target[h] \in Requests

LockInv ==
  \A h \in Handlers, r \in Rows :
    /\ pc[h] \in Writing /\ target[h] = r => lock[r] = h
    /\ lock[r] = h => \/ pc[h] \in Writing
                      \/ pc[h] = "lock" /\ target[h] \in Assets
    /\ lock[r] = h /\ r \in Assets => pc[h] = "locked" /\ target[h] = r

ExclusiveInv ==
  \A g, h \in Handlers : conn[g] # None =>
    conn[g] # extra[h] /\ (conn[g] = conn[h] => g = h)

PoolInv == PoolTypeOK /\ PlaceInv /\ LockInv /\ ExclusiveInv

\* Every waiting place is followed by the place with the connection it waits for.
LEMMA GrantedPlaces ==
  /\ Granted["wantRead"] = "read"       /\ Granted["wantTx"] = "tx"
  /\ Granted["wantSave"] = "save"       /\ Granted["wantManager"] = "manager"
  /\ Granted["wantNotify"] = "notify"
  BY DEF Granted, Wants

\* What joins the queue joins it at the end, and the rest keeps its place.
LEMMA AppendEntries ==
  ASSUME NEW q \in Seq(Handlers), NEW h \in Handlers
  PROVE  /\ Append(q, h) \in Seq(Handlers)
         /\ Len(Append(q, h)) = Len(q) + 1
         /\ \A i \in 1 .. Len(q) : Append(q, h)[i] = q[i]
         /\ Append(q, h)[Len(q) + 1] = h
  OBVIOUS

LEMMA TailEntries ==
  ASSUME NEW q \in Seq(Handlers), q # <<>>
  PROVE  /\ Tail(q) \in Seq(Handlers) /\ Head(q) \in Handlers
         /\ Head(q) = q[1] /\ 1 \in 1 .. Len(q)
         /\ Len(Tail(q)) = Len(q) - 1
         /\ \A i \in 1 .. Len(Tail(q)) : Tail(q)[i] = q[i + 1] /\ i + 1 \in 1 .. Len(q)
  OBVIOUS

LEMMA InitInv == PoolInit => PoolInv
  BY PoolAssumption DEF PoolInit, PoolInv, PoolTypeOK, QueueOK, PlaceInv, LockInv,
     ExclusiveInv, States, Wants, Holding, Writing, Asking, Working, Rows, QueueOK

-----------------------------------------------------------------------------
\* Going to the end of the queue keeps it sound, if the handler was not waiting.
LEMMA ConnectQueue ==
  ASSUME PoolTypeOK, NEW h \in Handlers, NEW want \in Wants,
         pc[h] \notin Wants, Connect(h, want)
  PROVE  QueueOK' /\ pc' \in [Handlers -> States] /\ queue' \in Seq(Handlers)
<1>1. /\ queue \in Seq(Handlers) /\ queue' = Append(queue, h)
      /\ pc' = [pc EXCEPT ![h] = want] /\ pc \in [Handlers -> States]
  BY DEF Connect, PoolTypeOK
<1>2. /\ queue' \in Seq(Handlers) /\ Len(queue') = Len(queue) + 1
      /\ \A i \in 1 .. Len(queue) : queue'[i] = queue[i]
      /\ queue'[Len(queue) + 1] = h
  BY <1>1, AppendEntries
<1>3. Len(queue) \in Nat /\ \A i \in 1 .. Len(queue) : queue[i] \in Handlers
  BY <1>1
<1>4. \A i \in 1 .. Len(queue) : queue[i] # h
  BY DEF QueueOK, PoolTypeOK
<1>5. \A i \in 1 .. Len(queue') : i \in 1 .. Len(queue) \/ i = Len(queue) + 1
  BY <1>2, <1>3
<1>6. \A i \in 1 .. Len(queue') : pc'[queue'[i]] \in Wants
  BY <1>1, <1>2, <1>3, <1>4, <1>5 DEF QueueOK, PoolTypeOK
<1>7. \A i, j \in 1 .. Len(queue') : queue'[i] = queue'[j] => i = j
  BY <1>2, <1>4, <1>5 DEF QueueOK, PoolTypeOK
<1> QED
  BY <1>1, <1>2, <1>6, <1>7 DEF QueueOK, States

\* A handler that was not waiting goes on without queueing.
LEMMA StayQueue ==
  ASSUME PoolTypeOK, NEW h \in Handlers, NEW s \in States,
         pc[h] \notin Wants, pc' = [pc EXCEPT ![h] = s], UNCHANGED queue
  PROVE  QueueOK' /\ pc' \in [Handlers -> States] /\ queue' \in Seq(Handlers)
<1>1. \A i \in 1 .. Len(queue) : queue[i] # h /\ queue[i] \in Handlers
  BY DEF QueueOK, PoolTypeOK
<1> QED
  BY <1>1 DEF QueueOK, PoolTypeOK

\* Serving the head leaves the others queued.
LEMMA ServeQueue ==
  ASSUME PoolTypeOK, Serve
  PROVE  QueueOK' /\ pc' \in [Handlers -> States] /\ queue' \in Seq(Handlers)
<1> DEFINE h == Head(queue)
<1>1. /\ Tail(queue) \in Seq(Handlers) /\ h \in Handlers
      /\ h = queue[1] /\ 1 \in 1 .. Len(queue)
      /\ Len(Tail(queue)) = Len(queue) - 1
      /\ \A i \in 1 .. Len(Tail(queue)) : /\ Tail(queue)[i] = queue[i + 1]
                                          /\ i + 1 \in 1 .. Len(queue)
  BY TailEntries DEF Serve, PoolTypeOK
<1>2. queue' = Tail(queue) /\ pc' = [pc EXCEPT ![h] = Granted[pc[h]]]
  BY DEF Serve
<1>3. pc[h] \in Wants
  BY <1>1 DEF QueueOK, PoolTypeOK
<1>4. Granted[pc[h]] \in States
  BY <1>3, GrantedPlaces DEF Wants, States
<1>5. \A i \in 1 .. Len(queue') :
        /\ queue'[i] = queue[i + 1] /\ i + 1 \in 1 .. Len(queue)
        /\ queue'[i] # h /\ queue'[i] \in Handlers
  <2> SUFFICES ASSUME NEW i \in 1 .. Len(queue')
               PROVE  /\ queue'[i] = queue[i + 1] /\ i + 1 \in 1 .. Len(queue)
                      /\ queue'[i] # h /\ queue'[i] \in Handlers
    OBVIOUS
  <2>1. queue'[i] = queue[i + 1] /\ i + 1 \in 1 .. Len(queue) /\ i + 1 # 1
    BY <1>1, <1>2
  <2>2. queue[i + 1] # queue[1]
    BY <2>1, <1>1 DEF QueueOK, PoolTypeOK
  <2> QED
    BY <2>1, <2>2, <1>1 DEF PoolTypeOK
<1>6. \A i \in 1 .. Len(queue') : pc'[queue'[i]] \in Wants
  BY <1>2, <1>5 DEF QueueOK, PoolTypeOK
<1>7. \A i, j \in 1 .. Len(queue') : queue'[i] = queue'[j] => i = j
  <2> SUFFICES ASSUME NEW i \in 1 .. Len(queue'), NEW j \in 1 .. Len(queue'),
                      queue'[i] = queue'[j]
               PROVE  i = j
    OBVIOUS
  <2>1. i + 1 = j + 1
    BY <1>5 DEF QueueOK, PoolTypeOK
  <2> QED
    BY <2>1
<1> QED
  BY <1>1, <1>2, <1>4, <1>6, <1>7 DEF QueueOK, PoolTypeOK
-----------------------------------------------------------------------------
\* The queue stays sound whichever step a handler takes.
LEMMA HandlerQueue ==
  ASSUME PoolInv, NEW h \in Handlers,
         \/ Call(h) \/ Answer(h) \/ ReadStep(h) \/ WriteRows(h) \/ FindAsset(h)
         \/ AskManager(h)
         \/ ManagerFound(h) \/ Commit(h) \/ Notified(h) \/ Save(h) \/ Fail(h)
  PROVE  QueueOK' /\ pc' \in [Handlers -> States] /\ queue' \in Seq(Handlers)
<1> USE DEF PoolInv
<1>1. CASE Call(h)
  BY <1>1, ConnectQueue DEF Call, Wants
<1>2. CASE Answer(h)
  BY <1>2, ConnectQueue, StayQueue DEF Answer, Wants, States
<1>3. CASE ReadStep(h)
  BY <1>3, StayQueue DEF ReadStep, Wants, States
<1>4. CASE WriteRows(h)
  BY <1>4, StayQueue DEF WriteRows, Wants, States
<1>5. CASE AskManager(h)
  BY <1>5, ConnectQueue DEF AskManager, Wants
<1>6. CASE ManagerFound(h)
  BY <1>6, StayQueue DEF ManagerFound, Wants, States
<1>7. CASE Commit(h)
  BY <1>7, ConnectQueue DEF Commit, Wants
<1>8. CASE Notified(h)
  BY <1>8, StayQueue DEF Notified, Wants, States
<1>9. CASE Save(h)
  BY <1>9, StayQueue DEF Save, Wants, States
<1>10. CASE Fail(h)
  <2>1. pc[h] \notin Wants
    BY <1>10 DEF Fail, Blocked, PlaceInv, Holding, Writing, Asking, Wants
  <2> QED
    BY <1>10, <2>1, StayQueue DEF Fail, States
<1>11. CASE FindAsset(h)
  BY <1>11, StayQueue DEF FindAsset, Wants, States
<1> QED
  BY <1>1, <1>2, <1>3, <1>4, <1>5, <1>6, <1>7, <1>8, <1>9, <1>10, <1>11

\* Every step keeps the invariant.
LEMMA InvStep == PoolInv /\ [PoolNext]_vars => PoolInv'
<1> SUFFICES ASSUME PoolInv, [PoolNext]_vars PROVE PoolInv'
  OBVIOUS
<1> USE PoolAssumption DEF PoolInv, PoolTypeOK, PlaceInv, LockInv, ExclusiveInv
<1> USE DEF Holding, Writing, Asking, Working, States, Wants, Connect, Release, Rows
<1>1. CASE Serve
  <2> DEFINE h == Head(queue)
  <2>1. QueueOK' /\ pc' \in [Handlers -> States] /\ queue' \in Seq(Handlers)
    BY <1>1, ServeQueue
  <2>2. h \in Handlers /\ pc[h] \in Wants
    BY <1>1, TailEntries DEF Serve, QueueOK
  <2>3. PICK c \in Connections :
          /\ Idle(c)
          /\ IF pc[h] = "wantManager"
               THEN extra' = [extra EXCEPT ![h] = c] /\ UNCHANGED conn
               ELSE conn' = [conn EXCEPT ![h] = c] /\ UNCHANGED extra
    BY <1>1 DEF Serve
  <2>4. pc' = [pc EXCEPT ![h] = Granted[pc[h]]] /\ UNCHANGED <<target, lock>>
    BY <1>1 DEF Serve
  <2>5. PoolTypeOK'
    BY <2>1, <2>2, <2>3, <2>4
  <2>6. PlaceInv'
    BY <2>2, <2>3, <2>4, GrantedPlaces
  <2>7. LockInv'
    BY <2>2, <2>4, GrantedPlaces
  <2>8. ExclusiveInv'
    BY <2>2, <2>3 DEF Idle
  <2> QED
    BY <2>1, <2>5, <2>6, <2>7, <2>8
<1>2. ASSUME NEW h \in Handlers, Call(h) PROVE PoolInv'
  <2>1. QueueOK' /\ pc' \in [Handlers -> States] /\ queue' \in Seq(Handlers)
    BY <1>2, HandlerQueue
  <2>2. PoolTypeOK'
    BY <1>2, <2>1 DEF Call
  <2>3. PlaceInv'
    BY <1>2 DEF Call, Blocked
  <2>4. LockInv'
    BY <1>2 DEF Call, Blocked
  <2>5. ExclusiveInv'
    BY <1>2 DEF Call
  <2> QED
    BY <2>1, <2>2, <2>3, <2>4, <2>5
<1>3. ASSUME NEW h \in Handlers, Answer(h) PROVE PoolInv'
  <2>1. QueueOK' /\ pc' \in [Handlers -> States] /\ queue' \in Seq(Handlers)
    BY <1>3, HandlerQueue
  <2>2. PoolTypeOK'
    <3>1. /\ conn' = [conn EXCEPT ![h] = None] /\ extra' = [extra EXCEPT ![h] = None]
          /\ lock' = [r \in Rows |-> IF lock[r] = h THEN None ELSE lock[r]]
      BY <1>3 DEF Answer
    <3>2. target' = target \/ \E r \in Rows : target' = [target EXCEPT ![h] = r]
      BY <1>3 DEF Answer
    <3> QED
      BY <2>1, <3>1, <3>2
  <2>3. PlaceInv'
    BY <1>3 DEF Answer, Blocked
  <2>4. LockInv'
    BY <1>3 DEF Answer, Blocked
  <2>5. ExclusiveInv'
    BY <1>3 DEF Answer
  <2> QED
    BY <2>1, <2>2, <2>3, <2>4, <2>5
<1>4. ASSUME NEW h \in Handlers, ReadStep(h) PROVE PoolInv'
  <2>1. QueueOK' /\ pc' \in [Handlers -> States] /\ queue' \in Seq(Handlers)
    BY <1>4, HandlerQueue
  <2>2. PoolTypeOK'
    BY <1>4, <2>1 DEF ReadStep
  <2>3. PlaceInv'
    BY <1>4 DEF ReadStep, Blocked
  <2>4. LockInv'
    BY <1>4 DEF ReadStep, Blocked
  <2>5. ExclusiveInv'
    BY <1>4 DEF ReadStep
  <2> QED
    BY <2>1, <2>2, <2>3, <2>4, <2>5
<1>5. ASSUME NEW h \in Handlers, WriteRows(h) PROVE PoolInv'
  <2>1. QueueOK' /\ pc' \in [Handlers -> States] /\ queue' \in Seq(Handlers)
    BY <1>5, HandlerQueue
  <2>2. PoolTypeOK'
    BY <1>5, <2>1 DEF WriteRows
  <2>3. PlaceInv'
    BY <1>5 DEF WriteRows, Blocked
  <2>4. LockInv'
    BY <1>5 DEF WriteRows, Blocked
  <2>5. ExclusiveInv'
    BY <1>5 DEF WriteRows
  <2> QED
    BY <2>1, <2>2, <2>3, <2>4, <2>5
<1>6. ASSUME NEW h \in Handlers, AskManager(h) PROVE PoolInv'
  <2>1. QueueOK' /\ pc' \in [Handlers -> States] /\ queue' \in Seq(Handlers)
    BY <1>6, HandlerQueue
  <2>2. PoolTypeOK'
    BY <1>6, <2>1 DEF AskManager
  <2>3. PlaceInv'
    BY <1>6 DEF AskManager, Blocked
  <2>4. LockInv'
    BY <1>6 DEF AskManager, Blocked
  <2>5. ExclusiveInv'
    BY <1>6 DEF AskManager
  <2> QED
    BY <2>1, <2>2, <2>3, <2>4, <2>5
<1>7. ASSUME NEW h \in Handlers, ManagerFound(h) PROVE PoolInv'
  <2>1. QueueOK' /\ pc' \in [Handlers -> States] /\ queue' \in Seq(Handlers)
    BY <1>7, HandlerQueue
  <2>2. PoolTypeOK'
    BY <1>7, <2>1 DEF ManagerFound
  <2>3. PlaceInv'
    BY <1>7 DEF ManagerFound, Blocked
  <2>4. LockInv'
    BY <1>7 DEF ManagerFound, Blocked
  <2>5. ExclusiveInv'
    BY <1>7 DEF ManagerFound
  <2> QED
    BY <2>1, <2>2, <2>3, <2>4, <2>5
<1>8. ASSUME NEW h \in Handlers, Commit(h) PROVE PoolInv'
  <2>1. QueueOK' /\ pc' \in [Handlers -> States] /\ queue' \in Seq(Handlers)
    BY <1>8, HandlerQueue
  <2>2. PoolTypeOK'
    BY <1>8, <2>1 DEF Commit
  <2>3. PlaceInv'
    BY <1>8 DEF Commit, Blocked
  <2>4. LockInv'
    BY <1>8 DEF Commit, Blocked
  <2>5. ExclusiveInv'
    BY <1>8 DEF Commit
  <2> QED
    BY <2>1, <2>2, <2>3, <2>4, <2>5
<1>9. ASSUME NEW h \in Handlers, Notified(h) PROVE PoolInv'
  <2>1. QueueOK' /\ pc' \in [Handlers -> States] /\ queue' \in Seq(Handlers)
    BY <1>9, HandlerQueue
  <2>2. PoolTypeOK'
    BY <1>9, <2>1 DEF Notified
  <2>3. PlaceInv'
    BY <1>9 DEF Notified, Blocked
  <2>4. LockInv'
    BY <1>9 DEF Notified, Blocked
  <2>5. ExclusiveInv'
    BY <1>9 DEF Notified
  <2> QED
    BY <2>1, <2>2, <2>3, <2>4, <2>5
<1>10. ASSUME NEW h \in Handlers, Save(h) PROVE PoolInv'
  <2>1. QueueOK' /\ pc' \in [Handlers -> States] /\ queue' \in Seq(Handlers)
    BY <1>10, HandlerQueue
  <2>2. PoolTypeOK'
    BY <1>10, <2>1 DEF Save
  <2>3. PlaceInv'
    BY <1>10 DEF Save, Blocked
  <2>4. LockInv'
    BY <1>10 DEF Save, Blocked
  <2>5. ExclusiveInv'
    BY <1>10 DEF Save
  <2> QED
    BY <2>1, <2>2, <2>3, <2>4, <2>5
<1>11. ASSUME NEW h \in Handlers, Fail(h) PROVE PoolInv'
  <2>1. QueueOK' /\ pc' \in [Handlers -> States] /\ queue' \in Seq(Handlers)
    BY <1>11, HandlerQueue
  <2>2. PoolTypeOK'
    BY <1>11, <2>1 DEF Fail
  <2>3. PlaceInv'
    BY <1>11 DEF Fail, Blocked
  <2>4. LockInv'
    BY <1>11 DEF Fail, Blocked
  <2>5. ExclusiveInv'
    BY <1>11 DEF Fail
  <2> QED
    BY <2>1, <2>2, <2>3, <2>4, <2>5
<1>12. ASSUME NEW h \in Handlers, FindAsset(h) PROVE PoolInv'
  <2>1. QueueOK' /\ pc' \in [Handlers -> States] /\ queue' \in Seq(Handlers)
    BY <1>12, HandlerQueue
  <2>2. PoolTypeOK'
    BY <1>12, <2>1 DEF FindAsset
  <2>3. PlaceInv'
    BY <1>12 DEF FindAsset
  <2>4. LockInv'
    BY <1>12 DEF FindAsset
  <2>5. ExclusiveInv'
    BY <1>12 DEF FindAsset
  <2> QED
    BY <2>1, <2>2, <2>3, <2>4, <2>5
<1>13. CASE UNCHANGED vars
  BY <1>13 DEF vars, QueueOK
<1> QED
  BY <1>1, <1>2, <1>3, <1>4, <1>5, <1>6, <1>7, <1>8, <1>9, <1>10, <1>11, <1>12, <1>13 DEF PoolNext

\* The invariant holds in every reachable state.
THEOREM PoolInvariant == PoolSpec => []PoolInv
<1>1. PoolInit => PoolInv
  BY InitInv
<1>2. PoolInv /\ [PoolNext]_vars => PoolInv'
  BY InvStep
<1> QED
  BY <1>1, <1>2, PTL DEF PoolSpec

-----------------------------------------------------------------------------
\* Type correctness of the pool and its handlers.
THEOREM PoolTypeCorrect == PoolSpec => []PoolTypeOK
<1>1. PoolInv => PoolTypeOK
  BY DEF PoolInv
<1> QED
  BY <1>1, PoolInvariant, PTL

\* A call that has ended keeps neither a connection nor the rows of a request,
\* and no connection is lent twice, on every path out of a transaction.
THEOREM ConnectionsComeBack == PoolSpec => []NothingLeaks
<1>1. PoolInv => NothingLeaks
  BY DEF PoolInv, PlaceInv, LockInv, ExclusiveInv, NothingLeaks, Holding, Writing, Asking
<1> QED
  BY <1>1, PoolInvariant, PTL

\* The pool starves only with an approval that waits for its second connection
\* while it keeps the rows of a request.
THEOREM StarvationNeedsNestedQuery == PoolSpec => []OnlyNestedQueryStarves
<1>1. PoolInv => OnlyNestedQueryStarves
  <2> SUFFICES ASSUME PoolInv, Starved
               PROVE  \E h \in Handlers : /\ pc[h] = "wantManager"
                                          /\ \E r \in Requests : lock[r] = h
    BY DEF OnlyNestedQueryStarves
  <2> USE DEF PoolInv, PoolTypeOK, PlaceInv, LockInv, Holding, Writing, Asking, Working, Rows
  <2>1. PICK c \in Connections : TRUE
    BY PoolAssumption
  <2>2. PICK h \in Handlers : Blocked(h)
    BY <2>1 DEF Starved
  <2>3. CASE pc[h] = "wantManager"
    BY <2>3
  <2>5. ASSUME NEW g \in Handlers, conn[g] \in Connections
        PROVE  Blocked(g)
    <3>1. PICK k \in Handlers : Blocked(k) /\ conn[g] \in {conn[k], extra[k]}
      BY <2>5 DEF Starved
    <3>2. k = g
      BY <2>5, <3>1, PoolAssumption DEF ExclusiveInv
    <3> QED
      BY <3>1, <3>2
  <2>4. CASE AwaitsLock(h)
    <3>1. target[h] \in Rows
      BY <2>4 DEF AwaitsLock
    <3>2. PICK g \in Handlers : lock[target[h]] = g
      BY <2>4, <3>1 DEF AwaitsLock
    <3>3. conn[g] \in Connections /\ pc[g] \in Writing \cup {"lock"}
      BY <3>1, <3>2
    <3>4. Blocked(g)
      BY <3>3, <2>5
    <3>5. CASE pc[g] = "wantManager"
      BY <3>1, <3>2, <3>5
    <3>6. CASE AwaitsLock(g)
      <4>1. pc[g] = "lock" /\ target[g] \in Assets
        BY <3>1, <3>2, <3>3, <3>6 DEF AwaitsLock
      <4>2. PICK k \in Handlers : lock[target[g]] = k
        BY <3>6, <4>1 DEF AwaitsLock
      <4>3. pc[k] = "locked" /\ conn[k] \in Connections
        BY <4>1, <4>2
      <4> QED
        BY <4>3, <2>5 DEF Blocked, AwaitsLock
    <3> QED
      BY <3>4, <3>5, <3>6 DEF Blocked
  <2> QED
    BY <2>2, <2>3, <2>4 DEF Blocked
<1> QED
  BY <1>1, PoolInvariant, PTL

\* In a starved pool the blocked writers keep all the connections, one each.
LEMMA BlockedWritersFillThePool == PoolInv => StarvingTakesAPoolOfWriters
<1> SUFFICES ASSUME PoolInv, Starved
             PROVE  Cardinality({h \in Writers : Blocked(h)}) >= Cardinality(Connections)
  BY DEF StarvingTakesAPoolOfWriters
<1> DEFINE B == {h \in Writers : Blocked(h)}
           keeps == [h \in B |-> conn[h]]
<1> USE DEF PoolInv, PoolTypeOK, PlaceInv, Holding, Writing, Working
<1>1. IsFiniteSet(B)
  BY PoolAssumption, FS_Subset
<1>2. keeps \in [B -> Connections]
  BY PoolAssumption DEF Blocked
<1>3. ASSUME NEW c \in Connections PROVE \E h \in B : keeps[h] = c
  <2>1. PICK h \in Handlers : Blocked(h) /\ c \in {conn[h], extra[h]}
    BY DEF Starved
  <2>2. h \in Writers /\ extra[h] = None
    BY <2>1 DEF Blocked, AwaitsLock
  <2>3. conn[h] = c
    BY <2>1, <2>2, PoolAssumption
  <2> QED
    BY <2>1, <2>2, <2>3
<1>4. keeps \in Surjection(B, Connections)
  BY <1>2, <1>3 DEF Surjection
<1>5. Cardinality(Connections) <= Cardinality(B)
  BY <1>1, <1>4, FS_Surjection
<1> QED
  BY <1>5, <1>1, FS_CardinalityType, PoolAssumption

\* It takes as many blocked writers as the pool has connections to starve it.
THEOREM StarvationNeedsAPoolOfWriters == PoolSpec => []StarvingTakesAPoolOfWriters
  BY BlockedWritersFillThePool, PoolInvariant, PTL

\* A pool larger than the number of writers that can be in flight never starves.
THEOREM LargePoolNeverStarves ==
  ASSUME Cardinality(Writers) < Cardinality(Connections)
  PROVE  PoolSpec => []~Starved
<1>1. PoolInv => ~Starved
  <2> SUFFICES ASSUME PoolInv, Starved PROVE FALSE
    OBVIOUS
  <2> DEFINE B == {h \in Writers : Blocked(h)}
  <2>1. Cardinality(B) >= Cardinality(Connections)
    BY BlockedWritersFillThePool DEF StarvingTakesAPoolOfWriters
  <2>2. IsFiniteSet(Writers)
    BY PoolAssumption, FS_Subset
  <2>3. IsFiniteSet(B) /\ Cardinality(B) <= Cardinality(Writers)
    BY <2>2, FS_Subset
  <2> QED
    BY <2>1, <2>2, <2>3, FS_CardinalityType, PoolAssumption
<1> QED
  BY <1>1, PoolInvariant, PTL
=============================================================================
