------------------------- MODULE BackupClientProofs -------------------------
(***************************************************************************)
(* Safety of BackupClient for every set of paths and digests, every number *)
(* of edits, faults and pending requests, and any delay of the thread pool.*)
(* The inductive invariant IInv is the conjunction of TypeOK, Control,     *)
(* Awaited, PresentKept, UnchangedStored and BodiesSeen, each of which is  *)
(* preserved by the step lemma of its section.  The last section proves    *)
(* that the client implements Mirror.                                      *)
(***************************************************************************)
EXTENDS BackupClient, SequenceTheorems, TLAPS

-----------------------------------------------------------------------------
\* The bags and the queue of requests.

\* Put adds one copy of each member of S.
LEMMA PutCounts ==
  ASSUME NEW I, NEW bag \in Bag(I), NEW S
  PROVE  /\ Put(bag, S) \in Bag(I)
         /\ \A t \in I : /\ Put(bag, S)[t] >= bag[t]
                         /\ t \in S => Put(bag, S)[t] > 0
                         /\ t \notin S => Put(bag, S)[t] = bag[t]
  BY DEF Bag, Put

\* Take removes one copy of t.
LEMMA TakeCounts ==
  ASSUME NEW I, NEW bag \in Bag(I), NEW t \in I, bag[t] > 0
  PROVE  /\ Take(bag, t) \in Bag(I)
         /\ \A u \in I : /\ Take(bag, t)[u] <= bag[u]
                         /\ u # t => Take(bag, t)[u] = bag[u]
  BY DEF Bag, Take

\* The same of a bag of closures.
LEMMA BagCounts == \A bag \in Bag(Task) : \A t \in Task : bag[t] \in Nat
  BY DEF Bag

LEMMA PutType ==
  ASSUME NEW bag \in Bag(Task), NEW S
  PROVE  /\ Put(bag, S) \in Bag(Task)
         /\ \A t \in Task : /\ Put(bag, S)[t] >= bag[t]
                            /\ t \in S => Put(bag, S)[t] > 0
                            /\ t \notin S => Put(bag, S)[t] = bag[t]
  BY PutCounts

LEMMA TakeType ==
  ASSUME NEW bag \in Bag(Task), NEW t \in Task, bag[t] > 0
  PROVE  /\ Take(bag, t) \in Bag(Task)
         /\ \A u \in Task : /\ Take(bag, t)[u] <= bag[u]
                            /\ u # t => Take(bag, t)[u] = bag[u]
  BY TakeCounts

\* Head and tail of the strand's queue.
LEMMA QueueHead ==
  ASSUME NEW q \in Seq(Job), q # <<>>
  PROVE  /\ Head(q) \in Job
         /\ Head(q) \in Range(q)
         /\ Tail(q) \in Seq(Job)
         /\ Range(q) = Range(Tail(q)) \cup {Head(q)}
<1>1. /\ Head(q) \in Job /\ Head(q) = q[1] /\ Len(q) \in Nat \ {0}
      /\ Tail(q) \in Seq(Job) /\ Len(Tail(q)) = Len(q) - 1
      /\ \A i \in 1..Len(Tail(q)) : Tail(q)[i] = q[i + 1]
  BY HeadTailProperties
<1>2. /\ Range(q) = {q[i] : i \in 1..Len(q)}
      /\ Range(Tail(q)) = {Tail(q)[i] : i \in 1..Len(Tail(q))}
  BY <1>1, RangeEquality
<1>3. \A i \in 1..Len(q) : i = 1 \/ (i - 1 \in 1..Len(Tail(q))
                                     /\ Tail(q)[i - 1] = q[i])
  BY <1>1
<1>4. 1 \in 1..Len(q) /\ \A i \in 1..Len(Tail(q)) : i + 1 \in 1..Len(q)
  BY <1>1
<1>5. Head(q) \in Range(q)
  BY <1>1, <1>2, <1>4
<1>6. Range(Tail(q)) \subseteq Range(q)
  BY <1>1, <1>2, <1>4
<1>7. \A j \in Range(q) : j = Head(q) \/ j \in Range(Tail(q))
  BY <1>1, <1>2, <1>3
<1> QED
  BY <1>1, <1>5, <1>6, <1>7

\* A request posted to the strand's queue.
LEMMA QueueAppend ==
  ASSUME NEW q \in Seq(Job), NEW j \in Job
  PROVE  /\ Append(q, j) \in Seq(Job) /\ Append(q, j) # <<>>
         /\ Range(Append(q, j)) = Range(q) \cup {j}
         /\ Head(Append(q, j)) = IF q = <<>> THEN j ELSE Head(q)
<1>1. /\ Append(q, j) \in Seq(Job) /\ Append(q, j) # <<>>
      /\ Len(q) \in Nat /\ Len(Append(q, j)) = Len(q) + 1
      /\ \A i \in 1..Len(q) : Append(q, j)[i] = q[i]
      /\ Append(q, j)[Len(q) + 1] = j
  BY AppendProperties
<1>2. /\ Range(q) = {q[i] : i \in 1..Len(q)}
      /\ Range(Append(q, j)) = {Append(q, j)[i] : i \in 1..Len(q) + 1}
  BY <1>1, RangeEquality
<1>3. \A i \in 1..Len(q) + 1 : i \in 1..Len(q) \/ i = Len(q) + 1
  BY <1>1
<1>4. Range(Append(q, j)) = Range(q) \cup {j}
  BY <1>1, <1>2, <1>3
<1>5. Head(Append(q, j)) = IF q = <<>> THEN j ELSE Head(q)
  BY <1>1
<1> QED
  BY <1>1, <1>4, <1>5

\* What a closure, async_post and the end of a request do to Queued, the set
\* of the requests built and not yet done with.
LEMMA QueuedKept == UNCHANGED <<opened, strand>> => Queued' = Queued
  BY DEF Queued

LEMMA QueuedHead ==
  ASSUME strand \in Seq(Job), strand # <<>>
  PROVE  Head(strand) \in Queued
  BY QueueHead DEF Queued

LEMMA QueuedOpen ==
  ASSUME opened \in Bag(Job), NEW j \in Job, opened' = Put(opened, {j}),
         UNCHANGED strand
  PROVE  /\ opened' \in Bag(Job)
         /\ Queued' = Queued \cup {j}
<1>1. /\ opened' \in Bag(Job) /\ opened'[j] > 0
      /\ \A k \in Job : k # j => opened'[k] = opened[k]
  BY PutCounts
<1> QED
  BY <1>1 DEF Queued

LEMMA QueuedPost ==
  ASSUME opened \in Bag(Job), strand \in Seq(Job), NEW j \in Job,
         opened[j] > 0, opened' = Take(opened, j), strand' = Append(strand, j)
  PROVE  /\ opened' \in Bag(Job) /\ strand' \in Seq(Job)
         /\ j \in Queued /\ Queued' = Queued
<1>1. /\ opened' \in Bag(Job)
      /\ \A k \in Job : k # j => opened'[k] = opened[k]
  BY TakeCounts
<1>2. strand' \in Seq(Job) /\ Range(strand') = Range(strand) \cup {j}
  BY QueueAppend
<1> QED
  BY <1>1, <1>2 DEF Queued

LEMMA QueuedDone ==
  ASSUME strand \in Seq(Job), strand # <<>>, strand' = Tail(strand),
         UNCHANGED opened
  PROVE  Queued = Queued' \cup {Head(strand)}
  BY QueueHead DEF Queued


-----------------------------------------------------------------------------
\* The records.

\* The fields of closures and requests.
LEMMA TaskFields ==
  /\ \A t \in Task : t.op \in Op /\ t.path \in Path /\ t.digest \in Digest
  /\ \A j \in Job : /\ j.op \in Op /\ j.path \in Path /\ j.digest \in Digest
                    /\ j.body \in Digest \cup {None}
  BY DEF Task, Job

\* The fields of a resource, which is never None.
LEMMA ResourceFields ==
  \A r \in Resource : /\ r.synced \in Synced /\ r.exist_on_server \in BOOLEAN
                      /\ r.digest \in Digest /\ r # None
  BY NoneIsNotAResource DEF Resource

\* The request a closure builds.
LEMMA RequestType ==
  ASSUME NEW t \in Task, NEW b \in Digest \cup {None}
  PROVE  /\ request(t, b) \in Job
         /\ request(t, b).op = t.op /\ request(t, b).path = t.path
         /\ request(t, b).digest = t.digest /\ request(t, b).body = b
  BY TaskFields DEF request, Job

\* What a closure assigns.
LEMMA ScheduledType ==
  ASSUME NEW t \in Task
  PROVE  /\ Scheduled(t) \in Resource
         /\ Scheduled(t).synced = "indeterminate"
         /\ Scheduled(t).exist_on_server = (t.op # "CREATE")
         /\ Scheduled(t).digest = t.digest
  BY TaskFields DEF Scheduled, Resource, Synced

\* What sync assigns to a confirmed entry.
LEMMA ConfirmedType ==
  ASSUME NEW r \in Resource
  PROVE  /\ Confirmed(r) \in Resource
         /\ Confirmed(r).synced = "true"
         /\ Confirmed(r).digest = r.digest
  BY DEF Confirmed, Resource, Synced

\* What a handler assigns: never an indeterminate entry, and a synced one only
\* for an OK, stale or not.
LEMMA HandledType ==
  ASSUME NEW r \in Resource, NEW op, NEW answer
  PROVE  /\ Handled(op, r, answer) \in Resource
         /\ Handled(op, r, answer).synced # "indeterminate"
         /\ Handled(op, r, answer).synced = "true" => answer \in Positive
         /\ Handled(op, r, answer).digest = r.digest
<1>1. CASE answer \in Positive /\ op = "CREATE"
  BY <1>1 DEF Handled, Resource, Synced
<1>2. CASE answer \in Positive /\ op = "ERASE"
  BY <1>2 DEF Handled, Resource, Synced
<1>3. CASE /\ ~(answer \in Positive /\ op = "CREATE")
           /\ ~(answer \in Positive /\ op = "ERASE")
  BY <1>3 DEF Handled, Resource, Synced
<1> QED
  BY <1>1, <1>2, <1>3

-----------------------------------------------------------------------------
\* The inductive invariant.

\* Where each thread can be, and what it then holds.
Control ==
  /\ pc["main"] \notin {"post", "handle", "assign"}
  /\ pc["strand"] \notin {"sleep", "purge", "scan", "hash", "read",
                       "decide"}
  /\ pc["strand"] # "post" => strand # <<>>
  /\ pc["strand"] = "post" => reply = "nullopt"
  /\ \A th \in Thread :
       /\ pc[th] \in {"value", "confirm"} => item[th] \in Path
       /\ pc[th] = "confirm" => /\ rsrc[th] \in Resource
                                /\ s_dir[th][item[th]] = rsrc[th].digest
  /\ pc["strand"] = "assign" => rsrc["strand"] \in Resource
  /\ pc["main"] \in {"hash", "read", "decide"} => item["main"] \in Path
  /\ pc["main"] \in {"read", "decide"} => digest \in Digest

\* IndeterminateIsAwaited, with the entries that the loops of the first
\* synchronisation have still to settle.
Unsettled(p) ==
  /\ contains(dir, p)
  /\ dir[p].synced = "indeterminate" /\ ~dir[p].exist_on_server

ToBeSettled(p) ==
  \/ pc["main"] \in {"reconnect", "sync"}
  \/ /\ pc["main"] \in {"items", "value", "confirm"}
     /\ \/ s_dir["main"][p] = None
        \/ p \in todo["main"]
        \/ pc["main"] # "items" /\ item["main"] = p

Awaited == \A p \in Path : Unsettled(p) => ToBeSettled(p) \/ UploadPending(p)

\* PresentFileIsKept, with what makes the watcher see the file.
PresentKept == (\A p \in Path : fs[p] \in seen[p]) /\ PresentFileIsKept

\* UnchangedSyncedIsStored, with every place that carries a digest of a file
\* which has only ever had content d, and every belief that it is stored.
TasksCarry(p, d) ==
  \A t \in Task : t.path = p /\ io[t] + staged[t] > 0 => t.digest = d

JobsCarry(p, d) ==
  \A j \in Queued : j.path = p => j.digest = d /\ j.body = d

CopiesCarry(p, d) ==
  /\ pc["main"] \in {"read", "decide"} /\ item["main"] = p => digest = d
  /\ \A th \in Thread : pc[th] = "confirm" /\ item[th] = p
                          => rsrc[th].digest = d
  /\ pc["strand"] = "assign" /\ Head(strand).path = p
       => rsrc["strand"].digest = d

OnlyDigest(p, d) == /\ dir[p].digest = d
                    /\ TasksCarry(p, d) /\ JobsCarry(p, d) /\ CopiesCarry(p, d)

BelievedStored(p, d) ==
  \/ dir[p].synced = "true" /\ p \notin misled
  \/ \E th \in Thread : s_dir[th][p] = d
  \/ strand # <<>> /\ Head(strand).path = p /\ reply = "OK"

Stored(p, d) == /\ OnlyDigest(p, d)
                /\ BelievedStored(p, d) => server[p] = d

UnchangedStored ==
  \A p \in Path : \A d \in Digest : seen[p] = {d} => Stored(p, d)

\* What a request was built from is something its path has been.
BodiesSeen ==
  \A j \in Queued : j.op # "ERASE" => j.body \in seen[j.path]

IInv == /\ TypeOK /\ Control /\ Awaited /\ PresentKept /\ UnchangedStored
        /\ BodiesSeen

-----------------------------------------------------------------------------
\* Types.

\* Every action preserves the types.
LEMMA TypeStep ==
  ASSUME TypeOK, Control, [Next]_vars
  PROVE  TypeOK'
<1>1. ASSUME NEW p \in Path, Edit(p) PROVE TypeOK'
  BY <1>1, BoundsAssumption DEF Edit, TypeOK, thread_vars, Store, Content
<1>2. ASSUME NEW th \in Thread, Reconnect(th) PROVE TypeOK'
  <2>1. faults' \in 0..MaxFaults
    BY <1>2, BoundsAssumption DEF Reconnect, Fault, TypeOK
  <2> QED
    BY <1>2, <2>1
    DEF Reconnect, TypeOK, user_vars, thread_vars, Goto, Exit, Store, Content
<1>3. ASSUME NEW th \in Thread, SyncRequest(th) PROVE TypeOK'
  <2>1. CASE /\ s_dir' = [s_dir EXCEPT ![th] = server]
             /\ todo' = [todo EXCEPT ![th] = Listed(server)]
             /\ Goto(th, "items")
             /\ UNCHANGED <<status, faults>>
    BY <1>3, <2>1
    DEF SyncRequest, Listed, TypeOK, user_vars, Goto, Exit, Fault, Store,
        Content
  <2>2. CASE /\ Fault /\ Goto(th, "reconnect")
             /\ UNCHANGED <<s_dir, todo, status>>
    BY <1>3, <2>2, BoundsAssumption
    DEF SyncRequest, TypeOK, user_vars, Goto, Exit, Fault, Store, Content
  <2>3. CASE Fault /\ Exit("sync") /\ UNCHANGED <<s_dir, todo>>
    BY <1>3, <2>3, BoundsAssumption
    DEF SyncRequest, TypeOK, user_vars, Goto, Exit, Fault, Store, Content
  <2> QED
    BY <1>3, <2>1, <2>2, <2>3 DEF SyncRequest
<1>4. ASSUME NEW th \in Thread, SyncItem(th) PROVE TypeOK'
  <2>1. PICK p \in todo[th] :
          /\ todo' = [todo EXCEPT ![th] = @ \ {p}]
          /\ IF contains(dir, p)
             THEN /\ item' = [item EXCEPT ![th] = p]
                  /\ Goto(th, "value")
                  /\ UNCHANGED io
             ELSE /\ io' = Put(io, {task("ERASE", p, s_dir[th][p])})
                  /\ UNCHANGED <<item, pc>>
    BY <1>4 DEF SyncItem
  <2>2. p \in Path
    BY <2>1 DEF TypeOK
  <2>3. io' \in Bag(Task)
    BY <2>1, PutType DEF TypeOK
  <2> QED
    BY <1>4, <2>1, <2>2, <2>3
    DEF SyncItem, TypeOK, user_vars, Goto, Store, Content, contains
<1>5. ASSUME NEW th \in Thread, SyncCompare(th) PROVE TypeOK'
  <2>1. io' \in Bag(Task)
    BY <1>5, PutType DEF SyncCompare, TypeOK
  <2>2. rsrc' \in [Thread -> Resource \cup {None}]
    BY <1>5 DEF SyncCompare, Control, TypeOK, Content
  <2> QED
    BY <1>5, <2>1, <2>2
    DEF SyncCompare, TypeOK, user_vars, Goto, Store, Content, contains
<1>6. ASSUME NEW th \in Thread, SyncThrow(th) PROVE TypeOK'
  <2>1. CASE /\ Exit("bad_optional_access")
             /\ UNCHANGED <<todo, item, s_dir, reply>>
    BY <1>6, <2>1
    DEF SyncThrow, TypeOK, user_vars, Goto, Exit, Store, Content, contains
  <2>2. CASE /\ Goto(th, "handle")
             /\ reply' = "nullopt"
             /\ todo' = [todo EXCEPT ![th] = {}]
             /\ item' = [item EXCEPT ![th] = None]
             /\ s_dir' = [s_dir EXCEPT ![th] = [p \in Path |-> None]]
             /\ UNCHANGED status
    BY <1>6, <2>2
    DEF SyncThrow, TypeOK, user_vars, Goto, Store, Content, contains, Reply
  <2> QED
    BY <1>6, <2>1, <2>2 DEF SyncThrow
<1>7. ASSUME NEW th \in Thread, SyncConfirm(th) PROVE TypeOK'
  BY <1>7, ConfirmedType
  DEF SyncConfirm, TypeOK, user_vars, Goto, Store, Content, insert_or_assign,
      Control, Thread
<1>8. ASSUME NEW th \in Thread, SyncCreate(th) PROVE TypeOK'
  BY <1>8, PutType
  DEF SyncCreate, TypeOK, user_vars, Goto, Store, Content, contains
<1>9. CASE BeginPurge
  BY <1>9 DEF BeginPurge, TypeOK, user_vars, Goto, Store, Content, contains
<1>10. CASE PurgeEntry
  <2>1. /\ io' \in Bag(Task)
        /\ dir' \in Content
        /\ todo' \in [Thread -> SUBSET Path]
    BY <1>10, PutType DEF PurgeEntry, TypeOK, Thread, Content, erase
  <2> QED
    BY <1>10, <2>1 DEF PurgeEntry, TypeOK, user_vars, Store, Content
<1>11. CASE BeginScan
  BY <1>11 DEF BeginScan, TypeOK, user_vars, Goto, Store, Content
<1>12. CASE ScanFile
  <2>1. /\ todo' \in [Thread -> SUBSET Path]
        /\ item' \in [Thread -> Path \cup {None}]
    BY <1>12 DEF ScanFile, TypeOK, Thread
  <2> QED
    BY <1>12, <2>1 DEF ScanFile, TypeOK, user_vars, Goto, Store, Content
<1>13. CASE HashFile
  BY <1>13 DEF HashFile, TypeOK, user_vars, Goto, Exit, Store, Content, Control
<1>26. CASE WalkFails
  BY <1>26, BoundsAssumption
  DEF WalkFails, TypeOK, user_vars, thread_vars, Exit, Fault, Store, Content
<1>27. CASE OpenFile
  <2>1. digest' \in Digest \cup {None} /\ faults' \in 0..MaxFaults
    BY <1>27, BoundsAssumption DEF OpenFile, TypeOK, Fault, Store, Control
  <2> QED
    BY <1>27, <2>1
    DEF OpenFile, TypeOK, user_vars, Goto, Exit, Store, Content
<1>14. CASE Decide
  BY <1>14, PutType DEF Decide, TypeOK, user_vars, Goto, Store, Content
<1>15. CASE EndScan
  BY <1>15 DEF EndScan, TypeOK, user_vars, thread_vars, Goto, Store, Content
<1>16. ASSUME NEW t \in Task, RunTask(t) PROVE TypeOK'
  BY <1>16, PutType, TakeType, TaskFields, ScheduledType
  DEF RunTask, TypeOK, user_vars, thread_vars, Store, Content,
      insert_or_assign
<1>17. ASSUME NEW t \in Task, PostRequest(t) PROVE TypeOK'
  <2>1. PICK b \in Digest \cup {None} :
          /\ opened[request(t, b)] > 0
          /\ opened' = Take(opened, request(t, b))
          /\ strand' = Append(strand, request(t, b))
    BY <1>17 DEF PostRequest
  <2>2. opened' \in Bag(Job) /\ strand' \in Seq(Job)
    BY <2>1, RequestType, QueuedPost DEF TypeOK
  <2> QED
    BY <1>17, <2>2
    DEF PostRequest, TypeOK, user_vars, thread_vars, Store, Content
<1>28. ASSUME NEW t \in Task, OpenRequest(t) PROVE TypeOK'
  <2>1. PICK b \in Digest \cup {None} : opened' = Put(opened, {request(t, b)})
    BY <1>28, TaskFields DEF OpenRequest, TypeOK, Store
  <2>2. opened' \in Bag(Job)
    BY <1>28, <2>1, RequestType, QueuedOpen DEF OpenRequest, TypeOK
  <2>3. staged' \in Bag(Task)
    BY <1>28, TakeType DEF OpenRequest, TypeOK
  <2> QED
    BY <1>28, <2>2, <2>3
    DEF OpenRequest, TypeOK, user_vars, thread_vars, Store, Content
<1>18. CASE Answered
  BY <1>18, QueueHead, TaskFields
  DEF Answered, TypeOK, user_vars, thread_vars, Goto, Store, Content, Idle,
      Control, Processed, Payload, Reply
<1>19. CASE Unreadable
  BY <1>19, QueueHead, TaskFields
  DEF Unreadable, TypeOK, user_vars, thread_vars, Goto, Store, Content, Idle,
      Control
<1>20. CASE EraseAnswered
  BY <1>20, QueueHead, TaskFields
  DEF EraseAnswered, TypeOK, user_vars, thread_vars, Store, Content, Idle,
      Control, Processed
<1>21. CASE Refused
  <2>1. strand' \in Seq(Job)
    BY <1>21, QueueHead DEF Refused, Idle, TypeOK
  <2>2. faults' \in 0..MaxFaults
    BY <1>21, BoundsAssumption DEF Refused, Fault, TypeOK
  <2> QED
    BY <1>21, <2>1, <2>2
    DEF Refused, Reply, TypeOK, user_vars, thread_vars, Goto, Fault, Store,
        Content
<1>22. CASE Interrupted
  <2>1. PICK b : server' \in {server, Processed(server, Head(strand), b)}
    BY <1>22 DEF Interrupted
  <2>2. server' \in Store
    BY <1>22, <2>1, QueueHead, TaskFields
    DEF Interrupted, Idle, Processed, Store, TypeOK
  <2>3. faults' \in 0..MaxFaults
    BY <1>22, BoundsAssumption DEF Interrupted, Fault, TypeOK
  <2>4. reply' \in Reply
    BY <1>22 DEF Interrupted, LostAnswer, Reply, TypeOK
  <2> QED
    BY <1>22, <2>2, <2>3, <2>4
    DEF Interrupted, TypeOK, user_vars, thread_vars, Goto, Store, Content
<1>23. CASE HandleLookup
  BY <1>23, QueueHead, TaskFields
  DEF HandleLookup, TypeOK, user_vars, Goto, Exit, Store, Content, contains,
      Control
<1>24. CASE HandleAssign
  <2>1. Head(strand).path \in Path /\ strand' \in Seq(Job)
    BY <1>24, QueueHead, TaskFields DEF HandleAssign, Control, TypeOK
  <2>2. dir' \in Content
    BY <1>24, <2>1, HandledType
    DEF HandleAssign, insert_or_assign, Control, Content, TypeOK
  <2> QED
    BY <1>24, <2>1, <2>2
    DEF HandleAssign, Reply, TypeOK, user_vars, Goto, Store, Content
<1>25. CASE UNCHANGED vars
  BY <1>25 DEF TypeOK, vars
<1> QED
  BY <1>1, <1>2, <1>3, <1>4, <1>5, <1>6, <1>7, <1>8, <1>9, <1>10, <1>11,
     <1>12, <1>13, <1>14, <1>15, <1>16, <1>17, <1>18, <1>19, <1>20, <1>21,
     <1>22, <1>23, <1>24, <1>25, <1>26, <1>27, <1>28
     DEF Next, Main, Pool, Connection, Sync, Ended, Thread

-----------------------------------------------------------------------------
\* Control.

\* Every action preserves Control.
LEMMA ControlStep ==
  ASSUME TypeOK, Control, [Next]_vars
  PROVE  Control'
<1>1. ASSUME NEW p \in Path, Edit(p) PROVE Control'
  BY <1>1 DEF Edit, Control, TypeOK, Thread, thread_vars
<1>2. ASSUME NEW th \in Thread, Reconnect(th) PROVE Control'
  BY <1>2
  DEF Reconnect, Control, TypeOK, Thread, user_vars, thread_vars, Goto, Exit
<1>3. ASSUME NEW th \in Thread, SyncRequest(th) PROVE Control'
  BY <1>3 DEF SyncRequest, Control, TypeOK, Thread, user_vars, Goto, Exit
<1>4. ASSUME NEW th \in Thread, SyncItem(th) PROVE Control'
  BY <1>4 DEF SyncItem, Control, TypeOK, Thread, user_vars, Goto
<1>5. ASSUME NEW th \in Thread, SyncCompare(th) PROVE Control'
  BY <1>5, ResourceFields
  DEF SyncCompare, Control, TypeOK, Thread, user_vars, Goto, contains, Content
<1>6. ASSUME NEW th \in Thread, SyncThrow(th) PROVE Control'
  BY <1>6 DEF SyncThrow, Control, TypeOK, Thread, user_vars, Goto, Exit
<1>7. ASSUME NEW th \in Thread, SyncConfirm(th) PROVE Control'
  BY <1>7 DEF SyncConfirm, Control, TypeOK, Thread, user_vars, Goto
<1>8. ASSUME NEW th \in Thread, SyncCreate(th) PROVE Control'
  BY <1>8 DEF SyncCreate, Control, TypeOK, Thread, user_vars, Goto
<1>9. CASE BeginPurge
  BY <1>9 DEF BeginPurge, Control, TypeOK, Thread, user_vars, Goto
<1>10. CASE PurgeEntry
  BY <1>10 DEF PurgeEntry, Control, TypeOK, Thread, user_vars
<1>11. CASE BeginScan
  BY <1>11 DEF BeginScan, Control, TypeOK, Thread, user_vars, Goto
<1>12. CASE ScanFile
  BY <1>12 DEF ScanFile, Control, TypeOK, Thread, user_vars, Goto
<1>13. CASE HashFile
  BY <1>13
  DEF HashFile, Control, TypeOK, Thread, user_vars, Goto, Exit, Store, Store
<1>26. CASE WalkFails
  BY <1>26
  DEF WalkFails, Control, TypeOK, Thread, user_vars, thread_vars, Exit
<1>27. CASE OpenFile
  BY <1>27 DEF OpenFile, Control, TypeOK, Thread, user_vars, Goto, Exit, Store
<1>14. CASE Decide
  BY <1>14 DEF Decide, Control, TypeOK, Thread, user_vars, Goto, Store
<1>15. CASE EndScan
  BY <1>15 DEF EndScan, Control, TypeOK, Thread, user_vars, thread_vars, Goto
<1>16. ASSUME NEW t \in Task, RunTask(t) PROVE Control'
  BY <1>16 DEF RunTask, Control, TypeOK, Thread, user_vars, thread_vars, Store
<1>17. ASSUME NEW t \in Task, PostRequest(t) PROVE Control'
  <2>1. strand' # <<>>
    BY <1>17, RequestType, QueueAppend DEF PostRequest, TypeOK
  <2> QED
    BY <1>17, <2>1
    DEF PostRequest, Control, TypeOK, Thread, user_vars, thread_vars
<1>28. ASSUME NEW t \in Task, OpenRequest(t) PROVE Control'
  BY <1>28 DEF OpenRequest, Control, TypeOK, Thread, user_vars, thread_vars
<1>18. CASE Answered
  BY <1>18
  DEF Answered, Control, TypeOK, Thread, user_vars, thread_vars, Goto, Idle
<1>19. CASE Unreadable
  BY <1>19
  DEF Unreadable, Control, TypeOK, Thread, user_vars, thread_vars, Goto, Idle
<1>20. CASE EraseAnswered
  BY <1>20
  DEF EraseAnswered, Control, TypeOK, Thread, user_vars, thread_vars, Idle
<1>21. CASE Refused
  BY <1>21
  DEF Refused, Control, TypeOK, Thread, user_vars, thread_vars, Goto, Idle
<1>22. CASE Interrupted
  BY <1>22
  DEF Interrupted, Control, TypeOK, Thread, user_vars, thread_vars, Goto, Idle
<1>23. CASE HandleLookup
  BY <1>23, ResourceFields, QueueHead, TaskFields
  DEF HandleLookup, Control, TypeOK, Thread, user_vars, Goto, Exit, contains,
      Content, Store
<1>24. CASE HandleAssign
  BY <1>24 DEF HandleAssign, Control, TypeOK, Thread, user_vars, Goto
<1>25. CASE UNCHANGED vars
  BY <1>25 DEF Control, vars
<1> QED
  BY <1>1, <1>2, <1>3, <1>4, <1>5, <1>6, <1>7, <1>8, <1>9, <1>10, <1>11,
     <1>12, <1>13, <1>14, <1>15, <1>16, <1>17, <1>18, <1>19, <1>20, <1>21,
     <1>22, <1>23, <1>24, <1>25, <1>26, <1>27, <1>28
     DEF Next, Main, Pool, Connection, Sync, Ended, Thread

-----------------------------------------------------------------------------
\* Waiting entries.

\* Posting further closures leaves an upload under way.
LEMMA UploadKept ==
  ASSUME TypeOK, io' \in Bag(Task), \A t \in Task : io'[t] >= io[t],
         UNCHANGED <<staged, opened, strand>>
  PROVE  \A q \in Path : UploadPending(q) => UploadPending(q)'
<1>1. \A t \in Task : io[t] + staged[t] > 0 => io'[t] + staged'[t] > 0
  BY DEF TypeOK, Bag
<1> QED
  BY <1>1, QueuedKept DEF UploadPending

\* Every action leaves no unsettled entry without an upload under way: an
\* UPDATE or ERASE makes the entry exist_on_server, a CREATE is itself such an
\* upload, and a handler or a confirmation makes the entry determinate.
LEMMA AwaitedStep ==
  ASSUME TypeOK, Control, Awaited, [Next]_vars
  PROVE  Awaited'
<1>1. ASSUME NEW p \in Path, Edit(p) PROVE Awaited'
  BY <1>1, QueuedKept
  DEF Edit, Awaited, Unsettled, ToBeSettled, UploadPending, contains,
      thread_vars, TypeOK, Control, Thread
<1>2. ASSUME NEW th \in Thread, Reconnect(th) PROVE Awaited'
  BY <1>2, QueuedKept
  DEF Reconnect, Awaited, Unsettled, ToBeSettled, UploadPending, contains,
      Goto, Exit, Fault, user_vars, thread_vars, TypeOK, Control, Thread
<1>3. ASSUME NEW th \in Thread, SyncRequest(th) PROVE Awaited'
  <2>1. \A p \in Path : UploadPending(p)' = UploadPending(p)
    BY <1>3, QueuedKept
    DEF SyncRequest, UploadPending
  <2>2. \A p \in Path : Unsettled(p)' = Unsettled(p)
    BY <1>3 DEF SyncRequest, Unsettled, contains
  <2>3. \A p \in Path : ToBeSettled(p) => ToBeSettled(p)'
    BY <1>3
    DEF SyncRequest, ToBeSettled, Listed, Goto, Exit, Thread, TypeOK, Store
  <2> QED
    BY <2>1, <2>2, <2>3 DEF Awaited
<1>4. ASSUME NEW th \in Thread, SyncItem(th) PROVE Awaited'
  <2>1. \A q \in Path : UploadPending(q) => UploadPending(q)'
    <3>1. io' \in Bag(Task) /\ \A t \in Task : io'[t] >= io[t]
      <4>1. io' = io \/ \E S : io' = Put(io, S)
        BY <1>4 DEF SyncItem
      <4>2. io \in Bag(Task)
        BY DEF TypeOK
      <4>3. CASE io' = io
        BY <4>2, <4>3, BagCounts
      <4>4. ASSUME NEW S, io' = Put(io, S)
            PROVE  io' \in Bag(Task) /\ \A t \in Task : io'[t] >= io[t]
        BY <4>2, <4>4, PutType
      <4> QED
        BY <4>1, <4>3, <4>4
    <3> QED
      BY <1>4, <3>1, UploadKept DEF SyncItem
  <2>2. \A q \in Path : Unsettled(q)' = Unsettled(q)
    BY <1>4 DEF SyncItem, Unsettled, contains
  <2>3. \A q \in Path : Unsettled(q) /\ ToBeSettled(q) => ToBeSettled(q)'
    BY <1>4
    DEF SyncItem, Unsettled, ToBeSettled, contains, Goto, Thread, TypeOK,
        Store
  <2> QED
    BY <2>1, <2>2, <2>3 DEF Awaited
<1>5. ASSUME NEW th \in Thread, SyncCompare(th) PROVE Awaited'
  <2>1. \A q \in Path : UploadPending(q) => UploadPending(q)'
    <3>1. io' \in Bag(Task) /\ \A t \in Task : io'[t] >= io[t]
      BY <1>5, PutType, BagCounts DEF SyncCompare, TypeOK
    <3> QED
      BY <1>5, <3>1, UploadKept DEF SyncCompare
  <2>2. \A q \in Path : Unsettled(q)' = Unsettled(q)
    BY <1>5 DEF SyncCompare, Unsettled, contains
  <2>3. PICK p \in Path : p = item[th] /\ dir[p] \in Resource
    BY <1>5 DEF SyncCompare, contains, Control, TypeOK, Content
  <2>4. CASE dir[p].digest # s_dir[th][p]
    <3> DEFINE t == task("UPDATE", p, dir[p].digest)
    <3>1. t \in Task /\ t.path = p /\ t.op = "UPDATE"
      BY <2>3, ResourceFields DEF task, Task, Op
    <3>2. io' = Put(io, {t})
      BY <1>5, <2>3, <2>4 DEF SyncCompare
    <3> HIDE DEF t
    <3>3. io'[t] + staged'[t] > 0
      <4>1. staged' \in Bag(Task) /\ io \in Bag(Task)
        BY <1>5 DEF SyncCompare, TypeOK
      <4>2. io'[t] > 0 /\ io' \in Bag(Task)
        BY <3>1, <3>2, <4>1, PutType
      <4> QED
        BY <3>1, <4>1, <4>2, BagCounts
    <3>4. UploadPending(p)'
      BY <3>1, <3>3, QueuedKept
      DEF UploadPending
    <3>5. \A q \in Path : ToBeSettled(q) => ToBeSettled(q)' \/ q = p
      BY <1>5, <2>3, <2>4 DEF SyncCompare, ToBeSettled, Goto, Thread, TypeOK
    <3> QED
      BY <2>1, <2>2, <3>4, <3>5 DEF Awaited
  <2>5. CASE dir[p].digest = s_dir[th][p]
    <3>1. \A q \in Path : ToBeSettled(q) => ToBeSettled(q)'
      BY <1>5, <2>3, <2>5 DEF SyncCompare, ToBeSettled, Goto, Thread, TypeOK
    <3> QED
      BY <2>1, <2>2, <3>1 DEF Awaited
  <2> QED
    BY <2>4, <2>5
<1>6. ASSUME NEW th \in Thread, SyncThrow(th) PROVE Awaited'
  BY <1>6, QueuedKept
  DEF SyncThrow, Awaited, Unsettled, ToBeSettled, UploadPending, contains,
      Goto, Exit, user_vars, TypeOK, Control, Thread
<1>7. ASSUME NEW th \in Thread, SyncConfirm(th) PROVE Awaited'
  <2>1. \A q \in Path : UploadPending(q)' = UploadPending(q)
    BY <1>7, QueuedKept
    DEF SyncConfirm, UploadPending
  <2>2. \A q \in Path : Unsettled(q)' => Unsettled(q) /\ q # item[th]
    BY <1>7, ConfirmedType
    DEF SyncConfirm, Unsettled, contains, insert_or_assign, Control, TypeOK,
        Content
  <2>3. \A q \in Path : ToBeSettled(q) => ToBeSettled(q)' \/ q = item[th]
    BY <1>7 DEF SyncConfirm, ToBeSettled, Goto, Thread, TypeOK
  <2> QED
    BY <2>1, <2>2, <2>3 DEF Awaited
<1>8. ASSUME NEW th \in Thread, SyncCreate(th) PROVE Awaited'
  <2>1. \A q \in Path : UploadPending(q) => UploadPending(q)'
    <3>1. PICK S : io' = Put(io, S)
      BY <1>8 DEF SyncCreate
    <3>2. io' \in Bag(Task) /\ \A t \in Task : io'[t] >= io[t]
      BY <3>1, PutType DEF TypeOK
    <3> QED
      BY <1>8, <3>2, UploadKept DEF SyncCreate
  <2>2. \A q \in Path : Unsettled(q)' = Unsettled(q)
    BY <1>8 DEF SyncCreate, Unsettled, contains
  <2>3. CASE th = "strand"
    <3>1. \A q \in Path : ToBeSettled(q)' = ToBeSettled(q)
      BY <1>8, <2>3 DEF SyncCreate, ToBeSettled, Goto, Thread, TypeOK
    <3> QED
      BY <2>1, <2>2, <3>1 DEF Awaited
  <2>4. CASE th = "main"
    <3>1. ASSUME NEW q \in Path, Unsettled(q), ToBeSettled(q)
          PROVE  UploadPending(q)'
      <4>1. s_dir["main"][q] = None
        BY <1>8, <2>4, <3>1 DEF SyncCreate, ToBeSettled
      <4> DEFINE t == task("CREATE", q, dir[q].digest)
      <4>2. dir[q] \in Resource
        BY <3>1 DEF Unsettled, contains, TypeOK, Content
      <4>3. /\ t \in Task /\ t.path = q /\ t.op = "CREATE"
            /\ t.digest = dir[q].digest
        BY <4>2, ResourceFields DEF task, Task, Op
      <4> HIDE DEF t
      <4>4. t \in {u \in Task : /\ u.op = "CREATE"
                             /\ contains(dir, u.path)
                             /\ s_dir[th][u.path] = None
                             /\ u.digest = dir[u.path].digest}
        BY <2>4, <3>1, <4>1, <4>3 DEF Unsettled
      <4>5. io'[t] > 0 /\ io' \in Bag(Task)
        BY <1>8, <4>3, <4>4, PutType DEF SyncCreate, TypeOK
      <4>6. io'[t] + staged'[t] > 0
        <5>1. staged' \in Bag(Task)
          BY <1>8 DEF SyncCreate, TypeOK
        <5> QED
          BY <4>3, <4>5, <5>1, BagCounts
      <4> QED
        BY <4>3, <4>6, QueuedKept
        DEF UploadPending
    <3> QED
      BY <2>1, <2>2, <3>1 DEF Awaited
  <2> QED
    BY <2>3, <2>4 DEF Thread
<1>9. CASE BeginPurge
  BY <1>9, QueuedKept
  DEF BeginPurge, Awaited, Unsettled, ToBeSettled, UploadPending, contains,
      Goto, user_vars, TypeOK, Control, Thread
<1>10. CASE PurgeEntry
  <2>1. \A q \in Path : UploadPending(q) => UploadPending(q)'
    <3>1. io' \in Bag(Task) /\ \A t \in Task : io'[t] >= io[t]
      BY <1>10, PutType, BagCounts DEF PurgeEntry, TypeOK
    <3> QED
      BY <1>10, <3>1, UploadKept DEF PurgeEntry
  <2>2. \A q \in Path : Unsettled(q)' => Unsettled(q)
    BY <1>10 DEF PurgeEntry, Unsettled, contains, erase, TypeOK, Content
  <2>3. \A q \in Path : ~ToBeSettled(q)
    BY <1>10 DEF PurgeEntry, ToBeSettled
  <2> QED
    BY <2>1, <2>2, <2>3 DEF Awaited
<1>11. CASE BeginScan
  BY <1>11, QueuedKept
  DEF BeginScan, Awaited, Unsettled, ToBeSettled, UploadPending, contains,
      Goto, user_vars, TypeOK, Control, Thread
<1>12. CASE ScanFile
  BY <1>12, QueuedKept
  DEF ScanFile, Awaited, Unsettled, ToBeSettled, UploadPending, contains,
      Goto, user_vars, TypeOK, Control, Thread
<1>13. CASE HashFile
  BY <1>13, QueuedKept
  DEF HashFile, Awaited, Unsettled, ToBeSettled, UploadPending, contains,
      Goto, Exit, user_vars, TypeOK, Control, Thread
<1>26. CASE WalkFails
  BY <1>26, QueuedKept
  DEF WalkFails, Awaited, Unsettled, ToBeSettled, UploadPending, contains,
      Exit, user_vars, thread_vars, TypeOK, Control, Thread
<1>27. CASE OpenFile
  BY <1>27, QueuedKept
  DEF OpenFile, Awaited, Unsettled, ToBeSettled, UploadPending, contains,
      Goto, Exit, user_vars, TypeOK, Control, Thread
<1>14. CASE Decide
  <2>1. \A q \in Path : UploadPending(q) => UploadPending(q)'
    BY <1>14, PutType, QueuedKept
    DEF Decide, UploadPending, TypeOK, Bag
  <2>2. \A q \in Path : Unsettled(q)' = Unsettled(q)
    BY <1>14 DEF Decide, Unsettled, contains
  <2>3. \A q \in Path : ~ToBeSettled(q)
    BY <1>14 DEF Decide, ToBeSettled
  <2> QED
    BY <2>1, <2>2, <2>3 DEF Awaited
<1>15. CASE EndScan
  BY <1>15, QueuedKept
  DEF EndScan, Awaited, Unsettled, ToBeSettled, UploadPending, contains, Goto,
      user_vars, thread_vars, TypeOK, Control, Thread
<1>16. ASSUME NEW t \in Task, RunTask(t) PROVE Awaited'
  <2>1. staged' = Put(staged, {t}) /\ io' = Take(io, t) /\ strand' = strand
    BY <1>16 DEF RunTask
  <2>2. /\ staged' \in Bag(Task) /\ io' \in Bag(Task) /\ staged'[t] > 0
        /\ \A u \in Task : u # t => io'[u] = io[u] /\ staged'[u] = staged[u]
    BY <1>16, <2>1, PutType, TakeType DEF RunTask, TypeOK
  <2>3. \A q \in Path : UploadPending(q) => UploadPending(q)'
    <3>1. \A u \in Task : io[u] + staged[u] > 0 => io'[u] + staged'[u] > 0
      <4>1. io \in Bag(Task) /\ staged \in Bag(Task)
        BY DEF TypeOK
      <4> QED
        BY <2>2, <4>1, BagCounts
    <3> QED
      BY <1>16, <2>1, <3>1, QueuedKept DEF RunTask, UploadPending
  <2>4. t.op # "ERASE" => UploadPending(t.path)'
    BY <2>2 DEF UploadPending, Bag
  <2>5. \A q \in Path : Unsettled(q)' =>
          Unsettled(q) \/ (q = t.path /\ t.op # "ERASE")
    BY <1>16, ScheduledType, TaskFields
    DEF RunTask, Unsettled, contains, insert_or_assign, TypeOK, Content
  <2>6. \A q \in Path : ToBeSettled(q)' = ToBeSettled(q)
    BY <1>16 DEF RunTask, ToBeSettled, thread_vars
  <2> QED
    BY <2>3, <2>4, <2>5, <2>6 DEF Awaited
<1>17. ASSUME NEW t \in Task, PostRequest(t) PROVE Awaited'
  <2>1. Queued' = Queued
    BY <1>17, RequestType, QueuedPost DEF PostRequest, TypeOK
  <2> QED
    BY <1>17, <2>1, QueuedKept
    DEF PostRequest, Awaited, Unsettled, ToBeSettled, UploadPending, contains,
        thread_vars
<1>28. ASSUME NEW t \in Task, OpenRequest(t) PROVE Awaited'
  <2>1. PICK b \in Digest \cup {None} : opened' = Put(opened, {request(t, b)})
    BY <1>28, TaskFields DEF OpenRequest, TypeOK, Store
  <2> DEFINE j == request(t, b)
  <2>2. j \in Job /\ j.path = t.path /\ j.op = t.op
    BY RequestType
  <2> HIDE DEF j
  <2>3. Queued' = Queued \cup {j}
    BY <1>28, <2>1, <2>2, QueuedOpen DEF OpenRequest, TypeOK, j
  <2>4. io' = io /\ \A u \in Task : u # t => staged'[u] = staged[u]
    BY <1>28, TakeType DEF OpenRequest, TypeOK
  <2>5. \A q \in Path : UploadPending(q) => UploadPending(q)'
    BY <2>2, <2>3, <2>4 DEF UploadPending
  <2>6. \A q \in Path : /\ Unsettled(q)' = Unsettled(q)
                       /\ ToBeSettled(q)' = ToBeSettled(q)
    BY <1>28 DEF OpenRequest, Unsettled, contains, ToBeSettled, thread_vars
  <2> QED
    BY <2>5, <2>6 DEF Awaited
<1>18. CASE Answered
  BY <1>18, QueuedKept
  DEF Answered, Awaited, Unsettled, ToBeSettled, UploadPending, contains,
      Goto, user_vars, thread_vars, TypeOK, Control, Thread
<1>19. CASE Unreadable
  BY <1>19, QueuedKept
  DEF Unreadable, Awaited, Unsettled, ToBeSettled, UploadPending, contains,
      Goto, user_vars, thread_vars, TypeOK, Control, Thread
<1>20. CASE EraseAnswered
  <2>1. /\ Queued = Queued' \cup {Head(strand)}
        /\ Head(strand).op = "ERASE"
    BY <1>20, QueuedDone DEF EraseAnswered, Idle, TypeOK
  <2>2. \A q \in Path : UploadPending(q) => UploadPending(q)'
    BY <1>20, <2>1, QueuedKept
    DEF EraseAnswered, UploadPending
  <2>3. \A q \in Path : /\ Unsettled(q)' = Unsettled(q)
                       /\ ToBeSettled(q)' = ToBeSettled(q)
    BY <1>20 DEF EraseAnswered, Unsettled, contains, ToBeSettled, thread_vars
  <2> QED
    BY <2>2, <2>3 DEF Awaited
<1>21. CASE Refused
  <2>1. \A q \in Path : UploadPending(q) => UploadPending(q)'
    <3>1. CASE Head(strand).op = "ERASE"
      BY <1>21, <3>1, QueuedDone DEF Refused, Idle, UploadPending, TypeOK
    <3>2. CASE Head(strand).op # "ERASE"
      BY <1>21, <3>2, QueuedKept DEF Refused, UploadPending
    <3> QED
      BY <3>1, <3>2
  <2>2. \A q \in Path : /\ Unsettled(q)' = Unsettled(q)
                       /\ ToBeSettled(q)' = ToBeSettled(q)
    BY <1>21
    DEF Refused, Unsettled, contains, ToBeSettled, Goto, Thread, TypeOK,
        thread_vars
  <2> QED
    BY <2>1, <2>2 DEF Awaited
<1>22. CASE Interrupted
  BY <1>22, QueuedKept
  DEF Interrupted, Awaited, Unsettled, ToBeSettled, UploadPending, contains,
      Goto, Fault, user_vars, thread_vars, TypeOK, Control, Thread
<1>23. CASE HandleLookup
  BY <1>23, QueuedKept
  DEF HandleLookup, Awaited, Unsettled, ToBeSettled, UploadPending, contains,
      Goto, Exit, user_vars, TypeOK, Control, Thread
<1>24. CASE HandleAssign
  <2>1. /\ Queued = Queued' \cup {Head(strand)}
        /\ Head(strand).path \in Path
        /\ rsrc["strand"] \in Resource
    BY <1>24, QueueHead, QueuedDone, TaskFields DEF HandleAssign, Control, TypeOK
  <2>2. \A q \in Path \ {Head(strand).path} :
          UploadPending(q) => UploadPending(q)'
    BY <1>24, <2>1, QueuedKept
    DEF HandleAssign, UploadPending
  <2>3. \A q \in Path : Unsettled(q)' => Unsettled(q) /\ q # Head(strand).path
    BY <1>24, <2>1, HandledType
    DEF HandleAssign, Unsettled, contains, insert_or_assign, TypeOK, Content
  <2>4. \A q \in Path : ToBeSettled(q)' = ToBeSettled(q)
    BY <1>24 DEF HandleAssign, ToBeSettled, Goto, Thread, TypeOK
  <2> QED
    BY <2>2, <2>3, <2>4 DEF Awaited
<1>25. CASE UNCHANGED vars
  BY <1>25, QueuedKept
  DEF Awaited, Unsettled, ToBeSettled, UploadPending, contains, vars
<1> QED
  BY <1>1, <1>2, <1>3, <1>4, <1>5, <1>6, <1>7, <1>8, <1>9, <1>10, <1>11,
     <1>12, <1>13, <1>14, <1>15, <1>16, <1>17, <1>18, <1>19, <1>20, <1>21,
     <1>22, <1>23, <1>24, <1>25, <1>26, <1>27, <1>28
     DEF Next, Main, Pool, Connection, Sync, Ended, Thread

-----------------------------------------------------------------------------
\* Files that are present.

\* No ERASE for path p is under way.
EraseFree(p) ==
  /\ \A t \in Task : t.path = p /\ t.op = "ERASE" => io[t] + staged[t] = 0
  /\ \A j \in Queued : j.path = p => j.op # "ERASE"

KeptParts(p) == /\ fs[p] \in seen[p]
                /\ None \notin seen[p] => contains(dir, p) /\ EraseFree(p)

\* PresentKept, path by path, in a state and in its successor.
LEMMA KeptByParts ==
  /\ PresentKept <=> \A p \in Path : KeptParts(p)
  /\ PresentKept' <=> \A p \in Path : KeptParts(p)'
  BY DEF PresentKept, PresentFileIsKept, EraseFree, KeptParts

\* Posting closures other than an ERASE for p keeps p free of ERASEs.
LEMMA PostKeepsEraseFree ==
  ASSUME TypeOK, NEW p \in Path, EraseFree(p), NEW S, io' = Put(io, S),
         \A t \in S : ~(t.path = p /\ t.op = "ERASE"),
         UNCHANGED <<staged, opened, strand>>
  PROVE  EraseFree(p)'
<1>1. \A t \in Task : t \notin S => io'[t] = io[t]
  BY PutType DEF TypeOK
<1> QED
  BY <1>1, QueuedKept DEF EraseFree

\* Every action keeps the files that have always been present: purge erases
\* only what is not on disk, sync only what has no entry.
LEMMA PresentStep ==
  ASSUME TypeOK, Control, PresentKept, [Next]_vars
  PROVE  PresentKept'
<1>1. ASSUME NEW p \in Path, Edit(p) PROVE PresentKept'
  BY <1>1, QueuedKept
  DEF Edit, PresentKept, PresentFileIsKept, contains, TypeOK, Store
<1>2. ASSUME NEW th \in Thread, Reconnect(th) PROVE PresentKept'
  BY <1>2, QueuedKept
  DEF Reconnect, PresentKept, PresentFileIsKept, contains, user_vars,
      thread_vars
<1>3. ASSUME NEW th \in Thread, SyncRequest(th) PROVE PresentKept'
  BY <1>3, QueuedKept
  DEF SyncRequest, PresentKept, PresentFileIsKept, contains, user_vars
<1>4. ASSUME NEW th \in Thread, SyncItem(th) PROVE PresentKept'
  <2>1. ASSUME NEW q \in Path, None \notin seen[q]
        PROVE  EraseFree(q)'
    <3>1. contains(dir, q) /\ EraseFree(q)
      BY <2>1, KeptByParts DEF KeptParts
    <3>2. CASE UNCHANGED io
      BY <1>4, <3>1, <3>2, QueuedKept
      DEF SyncItem, EraseFree
    <3>3. ASSUME NEW p \in Path, ~contains(dir, p),
                 io' = Put(io, {task("ERASE", p, s_dir[th][p])})
          PROVE  EraseFree(q)'
      BY <1>4, <3>1, <3>3, PostKeepsEraseFree DEF SyncItem, task
    <3> QED
      BY <1>4, <3>2, <3>3 DEF SyncItem, TypeOK
  <2> QED
    BY <1>4, <2>1, KeptByParts DEF SyncItem, user_vars, contains, KeptParts
<1>5. ASSUME NEW th \in Thread, SyncCompare(th) PROVE PresentKept'
  <2>1. ASSUME NEW q \in Path, EraseFree(q)
        PROVE  EraseFree(q)'
    <3>1. CASE UNCHANGED io
      BY <1>5, <2>1, <3>1, QueuedKept
      DEF SyncCompare, EraseFree
    <3>2. CASE io' = Put(io, {task("UPDATE", item[th], dir[item[th]].digest)})
      BY <1>5, <2>1, <3>2, PostKeepsEraseFree DEF SyncCompare, task
    <3> QED
      BY <1>5, <3>1, <3>2 DEF SyncCompare
  <2> QED
    BY <1>5, <2>1, KeptByParts DEF SyncCompare, user_vars, contains, KeptParts
<1>6. ASSUME NEW th \in Thread, SyncThrow(th) PROVE PresentKept'
  BY <1>6, QueuedKept
  DEF SyncThrow, PresentKept, PresentFileIsKept, contains, user_vars
<1>7. ASSUME NEW th \in Thread, SyncConfirm(th) PROVE PresentKept'
  <2>1. \A q \in Path : contains(dir, q) => contains(dir, q)'
    BY <1>7, ConfirmedType, ResourceFields
    DEF SyncConfirm, contains, insert_or_assign, Control, TypeOK, Content
  <2> QED
    BY <1>7, <2>1, QueuedKept
    DEF SyncConfirm, PresentKept, PresentFileIsKept, user_vars
<1>8. ASSUME NEW th \in Thread, SyncCreate(th) PROVE PresentKept'
  <2>1. ASSUME NEW q \in Path, EraseFree(q)
        PROVE  EraseFree(q)'
    <3>1. PICK S : io' = Put(io, S) /\ \A t \in S : t.op = "CREATE"
      BY <1>8 DEF SyncCreate
    <3> QED
      BY <1>8, <2>1, <3>1, PostKeepsEraseFree DEF SyncCreate
  <2> QED
    BY <1>8, <2>1, KeptByParts DEF SyncCreate, user_vars, contains, KeptParts
<1>9. CASE BeginPurge
  BY <1>9, QueuedKept
  DEF BeginPurge, PresentKept, PresentFileIsKept, contains, user_vars
<1>10. CASE PurgeEntry
  <2>1. PICK p \in Path :
          \/ UNCHANGED <<io, dir>>
          \/ /\ fs[p] = None
             /\ \/ /\ io' = Put(io, {task("ERASE", p, dir[p].digest)})
                   /\ UNCHANGED dir
                \/ dir' = erase(dir, p) /\ UNCHANGED io
    BY <1>10 DEF PurgeEntry, Kept, TypeOK, Thread
  <2>2. ASSUME NEW q \in Path, None \notin seen[q]
        PROVE  contains(dir, q)' /\ EraseFree(q)'
    <3>1. contains(dir, q) /\ EraseFree(q) /\ fs[q] # None
      BY <2>2, KeptByParts DEF KeptParts
    <3>2. CASE UNCHANGED <<io, dir>>
      BY <1>10, <3>1, <3>2, QueuedKept
      DEF PurgeEntry, EraseFree, contains
    <3>3. CASE /\ fs[p] = None /\ UNCHANGED dir
               /\ io' = Put(io, {task("ERASE", p, dir[p].digest)})
      BY <1>10, <3>1, <3>3, PostKeepsEraseFree DEF PurgeEntry, contains, task
    <3>4. CASE fs[p] = None /\ dir' = erase(dir, p) /\ UNCHANGED io
      BY <1>10, <3>1, <3>4, QueuedKept
      DEF PurgeEntry, EraseFree, contains, erase
    <3> QED
      BY <2>1, <3>2, <3>3, <3>4
  <2> QED
    BY <1>10, <2>2, KeptByParts DEF PurgeEntry, user_vars, KeptParts
<1>11. CASE BeginScan
  BY <1>11, QueuedKept
  DEF BeginScan, PresentKept, PresentFileIsKept, contains, user_vars
<1>12. CASE ScanFile
  BY <1>12, QueuedKept
  DEF ScanFile, PresentKept, PresentFileIsKept, contains, user_vars
<1>13. CASE HashFile
  BY <1>13, QueuedKept
  DEF HashFile, PresentKept, PresentFileIsKept, contains, user_vars
<1>26. CASE WalkFails
  BY <1>26, QueuedKept
  DEF WalkFails, PresentKept, PresentFileIsKept, contains, user_vars
<1>27. CASE OpenFile
  BY <1>27, QueuedKept
  DEF OpenFile, PresentKept, PresentFileIsKept, contains, user_vars
<1>14. CASE Decide
  <2>1. ASSUME NEW q \in Path, EraseFree(q)
        PROVE  EraseFree(q)'
    <3>1. PICK S : io' = Put(io, S) /\ \A t \in S : t.op # "ERASE"
      BY <1>14 DEF Decide, WatcherTask, Upload, task
    <3> QED
      BY <1>14, <2>1, <3>1, PostKeepsEraseFree DEF Decide
  <2> QED
    BY <1>14, <2>1, KeptByParts DEF Decide, user_vars, contains, KeptParts
<1>15. CASE EndScan
  BY <1>15, QueuedKept
  DEF EndScan, PresentKept, PresentFileIsKept, contains, user_vars,
      thread_vars
<1>16. ASSUME NEW t \in Task, RunTask(t) PROVE PresentKept'
  <2>1. \A q \in Path : contains(dir, q) => contains(dir, q)'
    BY <1>16, ScheduledType, ResourceFields
    DEF RunTask, contains, insert_or_assign, TypeOK, Content
  <2>2. ASSUME NEW q \in Path, EraseFree(q)
        PROVE  EraseFree(q)'
    <3>1. io \in Bag(Task) /\ staged \in Bag(Task) /\ io[t] > 0
      BY <1>16 DEF RunTask, TypeOK
    <3>2. ~(t.path = q /\ t.op = "ERASE")
      BY <2>2, <3>1, BagCounts, QueuedKept
      DEF EraseFree
    <3>3. \A u \in Task : u # t => io'[u] = io[u] /\ staged'[u] = staged[u]
      BY <1>16, <3>1, PutType, TakeType DEF RunTask
    <3> QED
      BY <1>16, <2>2, <3>2, <3>3, QueuedKept
      DEF RunTask, EraseFree
  <2> QED
    BY <1>16, <2>1, <2>2, KeptByParts DEF RunTask, user_vars, KeptParts
<1>17. ASSUME NEW t \in Task, PostRequest(t) PROVE PresentKept'
  <2>1. Queued' = Queued
    BY <1>17, RequestType, QueuedPost DEF PostRequest, TypeOK
  <2> QED
    BY <1>17, <2>1, QueuedKept
    DEF PostRequest, PresentKept, PresentFileIsKept, contains, user_vars
<1>28. ASSUME NEW t \in Task, OpenRequest(t) PROVE PresentKept'
  <2>1. PICK b \in Digest \cup {None} : opened' = Put(opened, {request(t, b)})
    BY <1>28, TaskFields DEF OpenRequest, TypeOK, Store
  <2>2. ASSUME NEW q \in Path, EraseFree(q)
        PROVE  EraseFree(q)'
    <3> DEFINE j == request(t, b)
    <3>1. j \in Job /\ j.path = t.path /\ j.op = t.op
      BY RequestType
    <3>2. Queued' = Queued \cup {j}
      BY <1>28, <2>1, <3>1, QueuedOpen DEF OpenRequest, TypeOK
    <3> HIDE DEF j
    <3>3. io \in Bag(Task) /\ staged \in Bag(Task) /\ staged[t] > 0
      BY <1>28 DEF OpenRequest, TypeOK
    <3>4. ~(t.path = q /\ t.op = "ERASE")
      BY <2>2, <3>3, BagCounts DEF EraseFree
    <3>5. io' = io /\ \A u \in Task : u # t => staged'[u] = staged[u]
      BY <1>28, <3>3, TakeType DEF OpenRequest
    <3>6. staged'[t] = 0 \/ ~(t.path = q /\ t.op = "ERASE")
      BY <3>4
    <3> QED
      BY <2>2, <3>1, <3>2, <3>4, <3>5 DEF EraseFree
  <2> QED
    BY <1>28, <2>2, KeptByParts DEF OpenRequest, user_vars, contains, KeptParts
<1>18. CASE Answered
  BY <1>18, QueuedKept
  DEF Answered, PresentKept, PresentFileIsKept, contains, user_vars,
      thread_vars
<1>19. CASE Unreadable
  BY <1>19, QueuedKept
  DEF Unreadable, PresentKept, PresentFileIsKept, contains, user_vars,
      thread_vars
<1>20. CASE EraseAnswered
  <2>1. ASSUME NEW q \in Path, EraseFree(q)
        PROVE  EraseFree(q)'
    <3>1. Queued' \subseteq Queued
      BY <1>20, QueuedDone DEF EraseAnswered, Idle, Control, TypeOK
    <3> QED
      BY <1>20, <2>1, <3>1, QueuedKept
      DEF EraseAnswered, EraseFree
  <2> QED
    BY <1>20, <2>1, KeptByParts
    DEF EraseAnswered, user_vars, contains, KeptParts
<1>21. CASE Refused
  <2>1. ASSUME NEW q \in Path, EraseFree(q)
        PROVE  EraseFree(q)'
    <3>1. Queued' \subseteq Queued
      BY <1>21, QueuedDone, QueuedKept DEF Refused, Idle, Control, TypeOK
    <3> QED
      BY <1>21, <2>1, <3>1, QueuedKept
      DEF Refused, EraseFree
  <2> QED
    BY <1>21, <2>1, KeptByParts DEF Refused, user_vars, contains, KeptParts
<1>22. CASE Interrupted
  BY <1>22, QueuedKept
  DEF Interrupted, PresentKept, PresentFileIsKept, contains, user_vars,
      thread_vars
<1>23. CASE HandleLookup
  BY <1>23, QueuedKept
  DEF HandleLookup, PresentKept, PresentFileIsKept, contains, user_vars
<1>24. CASE HandleAssign
  <2>1. ASSUME NEW q \in Path, EraseFree(q)
        PROVE  EraseFree(q)'
    <3>1. Queued' \subseteq Queued
      BY <1>24, QueuedDone DEF HandleAssign, Control, TypeOK
    <3> QED
      BY <1>24, <2>1, <3>1, QueuedKept
      DEF HandleAssign, EraseFree
  <2>2. \A q \in Path : contains(dir, q) => contains(dir, q)'
    BY <1>24, HandledType, ResourceFields
    DEF HandleAssign, contains, insert_or_assign, Control, TypeOK, Content
  <2> QED
    BY <1>24, <2>1, <2>2, KeptByParts DEF HandleAssign, user_vars, KeptParts
<1>25. CASE UNCHANGED vars
  BY <1>25, QueuedKept
  DEF PresentKept, PresentFileIsKept, contains, vars
<1> QED
  BY <1>1, <1>2, <1>3, <1>4, <1>5, <1>6, <1>7, <1>8, <1>9, <1>10, <1>11,
     <1>12, <1>13, <1>14, <1>15, <1>16, <1>17, <1>18, <1>19, <1>20, <1>21,
     <1>22, <1>23, <1>24, <1>25, <1>26, <1>27, <1>28
     DEF Next, Main, Pool, Connection, Sync, Ended, Thread

-----------------------------------------------------------------------------
\* Files that do not change.

\* A path's history of contents only grows.
LEMMA SeenGrows ==
  ASSUME TypeOK, [Next]_vars
  PROVE  \A p \in Path : seen[p] \subseteq seen'[p]
<1>1. ASSUME NEW p \in Path, Edit(p)
      PROVE \A q \in Path : seen[q] \subseteq seen'[q]
  BY <1>1 DEF Edit, TypeOK
<1>2. CASE UNCHANGED seen
  BY <1>2
<1>3. CASE Main
  BY <1>2, <1>3 DEF Main, Sync, Reconnect, SyncRequest, SyncItem, SyncCompare,
     SyncThrow, SyncConfirm, SyncCreate, BeginPurge, PurgeEntry, BeginScan,
     ScanFile, WalkFails, OpenFile, HashFile, Decide, EndScan, user_vars
<1>4. CASE Connection
  BY <1>2, <1>4 DEF Connection, Sync, Reconnect, SyncRequest, SyncItem,
     SyncCompare, SyncThrow, SyncConfirm, SyncCreate, Answered, Unreadable,
     EraseAnswered, Refused, Interrupted, HandleLookup, HandleAssign, user_vars
<1>5. ASSUME NEW t \in Task, Pool(t) PROVE UNCHANGED seen
  BY <1>5 DEF Pool, RunTask, OpenRequest, PostRequest, user_vars
<1> QED
  BY <1>1, <1>2, <1>3, <1>4, <1>5 DEF Next, Ended, vars

\* Posting closures that carry d for q preserves TasksCarry.
LEMMA PostKeepsDigest ==
  ASSUME TypeOK, NEW q \in Path, NEW d \in Digest, TasksCarry(q, d),
         NEW S, io' = Put(io, S), \A t \in S : t.path = q => t.digest = d,
         UNCHANGED staged
  PROVE  TasksCarry(q, d)'
<1>1. \A t \in Task : t \notin S => io'[t] = io[t]
  BY PutType DEF TypeOK
<1> QED
  BY <1>1 DEF TasksCarry

\* The server keeps content d of q, or comes to store it, when it processes a
\* request for q that is an upload of d.
LEMMA ProcessedKeeps ==
  ASSUME server \in Store, NEW q \in Path, NEW d \in Digest, NEW body,
         NEW t, t.path \in Path, t.op \in Op,
         t.path = q => t.op # "ERASE" /\ t.digest = d
  PROVE  /\ server[q] = d => Processed(server, t, body)[q] = d
         /\ t.path = q /\ Accepts(server, t, body)
              => Processed(server, t, body)[q] = d
  BY DEF Processed, Store

\* Every action preserves Stored for a file that has only had content d.
LEMMA UnchangedStep ==
  ASSUME TypeOK, Control, NEW q \in Path, NEW d \in Digest,
         seen'[q] = {d}, fs[q] = d, contains(dir, q), EraseFree(q),
         Stored(q, d), [Next]_vars
  PROVE  Stored(q, d)'
<1>1. ASSUME NEW p \in Path, Edit(p) PROVE Stored(q, d)'
  BY <1>1, QueuedKept
  DEF Edit, Stored, OnlyDigest, TasksCarry, JobsCarry, CopiesCarry,
      BelievedStored, TypeOK, Store, thread_vars
<1>2. ASSUME NEW th \in Thread, Reconnect(th) PROVE Stored(q, d)'
  BY <1>2, QueuedKept
  DEF Reconnect, Stored, OnlyDigest, TasksCarry, JobsCarry, CopiesCarry,
      BelievedStored, user_vars, thread_vars, Goto, Exit, TypeOK, Control,
      Thread
<1>3. ASSUME NEW th \in Thread, SyncRequest(th) PROVE Stored(q, d)'
  BY <1>3, QueuedKept
  DEF SyncRequest, Stored, OnlyDigest, TasksCarry, JobsCarry, CopiesCarry,
      BelievedStored, user_vars, Goto, Exit, TypeOK, Control, Thread
<1>4. ASSUME NEW th \in Thread, SyncItem(th) PROVE Stored(q, d)'
  <2>1. TasksCarry(q, d) /\ dir[q].digest = d
    BY DEF Stored, OnlyDigest
  <2>2. TasksCarry(q, d)'
    <3>1. CASE UNCHANGED io
      BY <1>4, <2>1, <3>1 DEF SyncItem, TasksCarry
    <3>2. ASSUME NEW p, ~contains(dir, p),
                 io' = Put(io, {task("ERASE", p, s_dir[th][p])})
          PROVE  TasksCarry(q, d)'
      BY <1>4, <2>1, <3>2, PostKeepsDigest DEF SyncItem, task
    <3> QED
      BY <1>4, <3>1, <3>2 DEF SyncItem
  <2> QED
    BY <1>4, <2>2, QueuedKept
    DEF SyncItem, Stored, OnlyDigest, JobsCarry, CopiesCarry, BelievedStored,
        user_vars, Goto, TypeOK, Control, Thread
<1>5. ASSUME NEW th \in Thread, SyncCompare(th) PROVE Stored(q, d)'
  <2>1. TasksCarry(q, d) /\ dir[q].digest = d
    BY DEF Stored, OnlyDigest
  <2>2. TasksCarry(q, d)'
    <3>1. CASE UNCHANGED io
      BY <1>5, <2>1, <3>1 DEF SyncCompare, TasksCarry
    <3>2. CASE io' = Put(io, {task("UPDATE", item[th], dir[item[th]].digest)})
      BY <1>5, <2>1, <3>2, PostKeepsDigest DEF SyncCompare, task
    <3> QED
      BY <1>5, <3>1, <3>2 DEF SyncCompare
  <2> QED
    BY <1>5, <2>2, QueuedKept
    DEF SyncCompare, Stored, OnlyDigest, JobsCarry, CopiesCarry,
        BelievedStored, user_vars, Goto, TypeOK, Control, Thread
<1>6. ASSUME NEW th \in Thread, SyncThrow(th) PROVE Stored(q, d)'
  <2>1. \A x \in Thread : s_dir'[x][q] = d => s_dir[x][q] = d
    BY <1>6, NoneIsNotADigest DEF SyncThrow, TypeOK, Thread
  <2>2. BelievedStored(q, d)' => BelievedStored(q, d)
    BY <1>6, <2>1 DEF SyncThrow, BelievedStored
  <2>3. OnlyDigest(q, d)'
    BY <1>6, QueuedKept
    DEF SyncThrow, Stored, OnlyDigest, JobsCarry, CopiesCarry, BelievedStored,
        user_vars, Goto, Exit, TypeOK, Control, Thread, TasksCarry
  <2> QED
    BY <1>6, <2>2, <2>3 DEF SyncThrow, Stored
<1>7. ASSUME NEW th \in Thread, SyncConfirm(th) PROVE Stored(q, d)'
  <2>1. PICK p \in Path : p = item[th] /\ rsrc[th] \in Resource
    BY <1>7 DEF SyncConfirm, Control
  <2>2. /\ p = q => rsrc[th].digest = d /\ s_dir[th][q] = d
        /\ server[q] = d \/ ~BelievedStored(q, d)
    BY <1>7, <2>1 DEF SyncConfirm, Control, Stored, OnlyDigest, CopiesCarry
  <2>3. dir'[q] = IF p = q THEN Confirmed(rsrc[th]) ELSE dir[q]
    BY <1>7, <2>1 DEF SyncConfirm, insert_or_assign, TypeOK, Content
  <2>4. dir'[q].digest = d
    BY <2>1, <2>2, <2>3, ConfirmedType DEF Stored, OnlyDigest
  <2>5. p = q => BelievedStored(q, d)
    BY <2>2 DEF BelievedStored
  <2>6. BelievedStored(q, d)' => BelievedStored(q, d)
    BY <1>7, <2>1, <2>3, <2>5 DEF SyncConfirm, BelievedStored
  <2> QED
    BY <1>7, <2>4, <2>6, QueuedKept
    DEF SyncConfirm, Stored, OnlyDigest, TasksCarry, JobsCarry, CopiesCarry,
        Goto,
        TypeOK, Thread, user_vars
<1>8. ASSUME NEW th \in Thread, SyncCreate(th) PROVE Stored(q, d)'
  <2>1. TasksCarry(q, d) /\ dir[q].digest = d
    BY DEF Stored, OnlyDigest
  <2>2. TasksCarry(q, d)'
    <3>1. PICK S : /\ io' = Put(io, S)
                   /\ \A t \in S : t.digest = dir[t.path].digest
      BY <1>8 DEF SyncCreate
    <3> QED
      BY <1>8, <2>1, <3>1, PostKeepsDigest DEF SyncCreate
  <2>3. \A x \in Thread : s_dir'[x][q] = d => s_dir[x][q] = d
    BY <1>8, NoneIsNotADigest DEF SyncCreate, TypeOK, Thread
  <2>4. BelievedStored(q, d)' => BelievedStored(q, d)
    BY <1>8, <2>3 DEF SyncCreate, BelievedStored
  <2>5. JobsCarry(q, d)' /\ CopiesCarry(q, d)'
    BY <1>8, QueuedKept
    DEF SyncCreate, Stored, OnlyDigest, JobsCarry, CopiesCarry, Goto, TypeOK,
        Thread
  <2> QED
    BY <1>8, <2>1, <2>2, <2>4, <2>5 DEF SyncCreate, Stored, OnlyDigest
<1>9. CASE BeginPurge
  BY <1>9, QueuedKept
  DEF BeginPurge, Stored, OnlyDigest, TasksCarry, JobsCarry, CopiesCarry,
      BelievedStored, user_vars, Goto, TypeOK, Control, Thread
<1>10. CASE PurgeEntry
  <2>1. TasksCarry(q, d) /\ dir[q].digest = d
    BY DEF Stored, OnlyDigest
  <2>2. PICK p \in Path :
          \/ UNCHANGED <<io, dir>>
          \/ /\ fs[p] = None
             /\ \/ /\ io' = Put(io, {task("ERASE", p, dir[p].digest)})
                   /\ UNCHANGED dir
                \/ dir' = erase(dir, p) /\ UNCHANGED io
    BY <1>10 DEF PurgeEntry, Kept, TypeOK, Thread
  <2>3. fs[p] = None => p # q
    BY NoneIsNotADigest
  <2>4. TasksCarry(q, d)'
    <3>1. CASE UNCHANGED io
      BY <1>10, <2>1, <3>1 DEF PurgeEntry, TasksCarry
    <3>2. CASE fs[p] = None /\ io' = Put(io, {task("ERASE", p, dir[p].digest)})
      BY <1>10, <2>1, <2>3, <3>2, PostKeepsDigest DEF PurgeEntry, task
    <3> QED
      BY <2>2, <3>1, <3>2
  <2>5. dir'[q] = dir[q]
    BY <1>10, <2>2, <2>3 DEF PurgeEntry, erase, TypeOK, Content
  <2> QED
    BY <1>10, <2>4, <2>5, QueuedKept
    DEF PurgeEntry, Stored, OnlyDigest, JobsCarry, CopiesCarry,
        BelievedStored, user_vars, TypeOK, Control, Thread
<1>11. CASE BeginScan
  BY <1>11, QueuedKept
  DEF BeginScan, Stored, OnlyDigest, TasksCarry, JobsCarry, CopiesCarry,
      BelievedStored, user_vars, Goto, TypeOK, Control, Thread
<1>12. CASE ScanFile
  BY <1>12, QueuedKept
  DEF ScanFile, Stored, OnlyDigest, TasksCarry, JobsCarry, CopiesCarry,
      BelievedStored, user_vars, Goto, TypeOK, Control, Thread
<1>13. CASE HashFile
  BY <1>13, QueuedKept
  DEF HashFile, Stored, OnlyDigest, TasksCarry, JobsCarry, CopiesCarry,
      BelievedStored, user_vars, Goto, Exit, TypeOK, Control, Thread
<1>26. CASE WalkFails
  BY <1>26, QueuedKept
  DEF WalkFails, Stored, OnlyDigest, TasksCarry, JobsCarry, CopiesCarry,
      BelievedStored, user_vars, thread_vars, Exit, TypeOK, Control, Thread
<1>27. CASE OpenFile
  BY <1>27, QueuedKept
  DEF OpenFile, Stored, OnlyDigest, TasksCarry, JobsCarry, CopiesCarry,
      BelievedStored, user_vars, Goto, Exit, TypeOK, Control, Thread
<1>14. CASE Decide
  <2>1. TasksCarry(q, d) /\ dir[q].digest = d
    BY DEF Stored, OnlyDigest
  <2>2. TasksCarry(q, d)'
    <3>1. PICK S : io' = Put(io, S)
                   /\ \A t \in S : t.path = item["main"] /\ t.digest = digest
      BY <1>14 DEF Decide, WatcherTask, task
    <3>2. \A t \in S : t.path = q => t.digest = d
      BY <1>14, <3>1 DEF Decide, Stored, OnlyDigest, CopiesCarry
    <3> QED
      BY <1>14, <2>1, <3>1, <3>2, PostKeepsDigest DEF Decide
  <2> QED
    BY <1>14, <2>2, QueuedKept
    DEF Decide, Stored, OnlyDigest, JobsCarry, CopiesCarry, BelievedStored,
        user_vars, Goto, TypeOK, Control, Thread
<1>15. CASE EndScan
  BY <1>15, QueuedKept
  DEF EndScan, Stored, OnlyDigest, TasksCarry, JobsCarry, CopiesCarry,
      BelievedStored, user_vars, thread_vars, Goto, TypeOK, Control, Thread
<1>16. ASSUME NEW t \in Task, RunTask(t) PROVE Stored(q, d)'
  <2>1. TasksCarry(q, d) /\ dir[q].digest = d
    BY DEF Stored, OnlyDigest
  <2>2. io \in Bag(Task) /\ staged \in Bag(Task) /\ io[t] > 0
    BY <1>16 DEF RunTask, TypeOK
  <2>3. t.path = q => t.digest = d
    BY <2>1, <2>2, BagCounts DEF TasksCarry
  <2>4. \A u \in Task : u # t => io'[u] = io[u] /\ staged'[u] = staged[u]
    BY <1>16, <2>2, PutType, TakeType DEF RunTask
  <2>5. TasksCarry(q, d)'
    BY <2>1, <2>3, <2>4 DEF TasksCarry
  <2>6. dir'[q] = IF t.path = q THEN Scheduled(t) ELSE dir[q]
    BY <1>16, TaskFields DEF RunTask, insert_or_assign, TypeOK, Content
  <2>7. /\ dir'[q].digest = d
        /\ dir'[q].synced = "true" => dir[q].synced = "true"
    BY <2>1, <2>3, <2>6, ScheduledType
  <2>8. BelievedStored(q, d)' => BelievedStored(q, d)
    BY <1>16, <2>7 DEF RunTask, BelievedStored, thread_vars
  <2> QED
    BY <1>16, <2>5, <2>7, <2>8, QueuedKept
    DEF RunTask, Stored, OnlyDigest, JobsCarry, CopiesCarry, thread_vars
<1>17. ASSUME NEW t \in Task, PostRequest(t) PROVE Stored(q, d)'
  <2>1. PICK b \in Digest \cup {None} :
          /\ opened[request(t, b)] > 0
          /\ opened' = Take(opened, request(t, b))
          /\ strand' = Append(strand, request(t, b))
    BY <1>17 DEF PostRequest
  <2>2. /\ Queued' = Queued
        /\ strand # <<>> => Head(strand') = Head(strand)
    BY <2>1, RequestType, QueuedPost, QueueAppend DEF TypeOK
  <2>3. BelievedStored(q, d)' => BelievedStored(q, d)
    BY <1>17, <2>2 DEF PostRequest, BelievedStored, Control, thread_vars
  <2>4. CopiesCarry(q, d)'
    BY <1>17, <2>2
    DEF PostRequest, Stored, OnlyDigest, CopiesCarry, Control, thread_vars
  <2> QED
    BY <1>17, <2>2, <2>3, <2>4, QueuedKept
    DEF PostRequest, Stored, OnlyDigest, TasksCarry, JobsCarry
<1>28. ASSUME NEW t \in Task, OpenRequest(t) PROVE Stored(q, d)'
  <2>1. TasksCarry(q, d) /\ dir[q].digest = d
    BY DEF Stored, OnlyDigest
  <2>2. io \in Bag(Task) /\ staged \in Bag(Task) /\ staged[t] > 0
    BY <1>28 DEF OpenRequest, TypeOK
  <2>3. t.path = q => t.digest = d /\ t.op # "ERASE"
    BY <2>1, <2>2, BagCounts DEF TasksCarry, EraseFree
  <2>4. PICK b \in Digest \cup {None} :
          /\ opened' = Put(opened, {request(t, b)})
          /\ t.op # "ERASE" => b = fs[t.path]
    BY <1>28, TaskFields DEF OpenRequest, TypeOK, Store
  <2> DEFINE j == request(t, b)
  <2>5. /\ j \in Job /\ j.path = t.path
        /\ t.path = q => j.digest = d /\ j.body = d
    BY <2>3, <2>4, RequestType
  <2>6. Queued' = Queued \cup {j}
    BY <1>28, <2>4, <2>5, QueuedOpen DEF OpenRequest, TypeOK
  <2> HIDE DEF j
  <2>7. JobsCarry(q, d)'
    BY <2>5, <2>6 DEF Stored, OnlyDigest, JobsCarry
  <2>8. TasksCarry(q, d)'
    <3>1. /\ staged' \in Bag(Task) /\ io' = io
          /\ \A u \in Task : u # t => staged'[u] = staged[u]
      BY <1>28, <2>2, TakeType DEF OpenRequest
    <3>2. \A u \in Task : io'[u] + staged'[u] > 0 => io[u] + staged[u] > 0
      BY <2>2, <3>1, BagCounts
    <3> QED
      BY <2>1, <3>2 DEF TasksCarry
  <2>9. CopiesCarry(q, d)'
    BY <1>28 DEF OpenRequest, Stored, OnlyDigest, CopiesCarry, thread_vars
  <2>10. BelievedStored(q, d)' => BelievedStored(q, d)
    BY <1>28 DEF OpenRequest, BelievedStored, thread_vars
  <2> QED
    BY <1>28, <2>7, <2>8, <2>9, <2>10 DEF OpenRequest, Stored, OnlyDigest
<1>18. CASE Answered
  <2>1. TasksCarry(q, d) /\ dir[q].digest = d
    BY DEF Stored, OnlyDigest
  <2>2. /\ strand # <<>> /\ pc["strand"] = "post" /\ reply = "nullopt"
        /\ Head(strand) \in Job /\ Head(strand) \in Queued
        /\ Queued' \subseteq Queued
    BY <1>18, QueueHead, QueuedHead, QueuedKept DEF Answered, Idle, Control, TypeOK
  <2>3. /\ Head(strand).path \in Path /\ Head(strand).op \in Op
        /\ Head(strand).path = q => /\ Head(strand).op # "ERASE"
                                   /\ Head(strand).digest = d
    BY <2>2, TaskFields, QueuedKept
    DEF EraseFree, Stored, OnlyDigest, JobsCarry
  <2>4. PICK b : /\ reply' = IF Accepts(server, Head(strand), b)
                           THEN "OK" ELSE "ERROR"
                 /\ server' = Processed(server, Head(strand), b)
    BY <1>18 DEF Answered
  <2>5. /\ server[q] = d => server'[q] = d
        /\ Head(strand).path = q /\ reply' = "OK" => server'[q] = d
    BY <2>3, <2>4, ProcessedKeeps DEF TypeOK
  <2>6. OnlyDigest(q, d)'
    BY <1>18, <2>2, QueuedKept
    DEF Answered, Stored, OnlyDigest, TasksCarry, JobsCarry, CopiesCarry,
        Goto, TypeOK,
        Thread, thread_vars
  <2>7. BelievedStored(q, d)' => server'[q] = d
    BY <1>18, <2>5 DEF Answered, Stored, BelievedStored, thread_vars
  <2> QED
    BY <2>6, <2>7 DEF Stored
<1>19. CASE Unreadable
  BY <1>19, QueuedKept
  DEF Unreadable, Stored, OnlyDigest, TasksCarry, JobsCarry, CopiesCarry,
      BelievedStored, user_vars, thread_vars, Goto, TypeOK, Control, Thread
<1>20. CASE EraseAnswered
  <2>1. TasksCarry(q, d) /\ dir[q].digest = d
    BY DEF Stored, OnlyDigest
  <2>2. /\ strand # <<>> /\ pc["strand"] = "post" /\ reply = "nullopt"
        /\ Head(strand) \in Job /\ Head(strand) \in Queued
        /\ Queued' \subseteq Queued
    BY <1>20, QueueHead, QueuedHead, QueuedDone DEF EraseAnswered, Idle, Control, TypeOK
  <2>3. /\ Head(strand).path \in Path /\ Head(strand).op \in Op
        /\ Head(strand).path = q => /\ Head(strand).op # "ERASE"
                                   /\ Head(strand).digest = d
    BY <2>2, TaskFields, QueuedKept
    DEF EraseFree, Stored, OnlyDigest, JobsCarry
  <2>4. server[q] = d => server'[q] = d
    BY <1>20, <2>3, ProcessedKeeps DEF EraseAnswered, TypeOK
  <2>5. OnlyDigest(q, d)'
    BY <1>20, <2>2, QueuedKept
    DEF EraseAnswered, Stored, OnlyDigest, TasksCarry, JobsCarry, CopiesCarry,
        TypeOK, Thread, thread_vars
  <2>6. BelievedStored(q, d)' => server'[q] = d
    BY <1>20, <2>2, <2>4 DEF EraseAnswered, Stored, BelievedStored, thread_vars
  <2> QED
    BY <2>5, <2>6 DEF Stored
<1>21. CASE Refused
  <2>1. TasksCarry(q, d) /\ dir[q].digest = d
    BY DEF Stored, OnlyDigest
  <2>2. /\ strand # <<>> /\ pc["strand"] = "post" /\ reply = "nullopt"
        /\ Head(strand) \in Job /\ Head(strand) \in Queued
        /\ Queued' \subseteq Queued
    BY <1>21, QueueHead, QueuedHead, QueuedDone, QueuedKept
    DEF Refused, Idle, Control, TypeOK
  <2>3. /\ Head(strand).path \in Path /\ Head(strand).op \in Op
        /\ Head(strand).path = q => /\ Head(strand).op # "ERASE"
                                   /\ Head(strand).digest = d
    BY <2>2, TaskFields, QueuedKept
    DEF EraseFree, Stored, OnlyDigest, JobsCarry
  <2>4. OnlyDigest(q, d)'
    BY <1>21, <2>2, QueuedKept
    DEF Refused, Stored, OnlyDigest, TasksCarry, JobsCarry, CopiesCarry, Goto,
        TypeOK,
        Thread, thread_vars
  <2>5. BelievedStored(q, d)' => BelievedStored(q, d)
    BY <1>21, <2>2 DEF Refused, BelievedStored, thread_vars
  <2> QED
    BY <1>21, <2>4, <2>5 DEF Refused, Stored
<1>22. CASE Interrupted
  <2>1. TasksCarry(q, d) /\ dir[q].digest = d
    BY DEF Stored, OnlyDigest
  <2>2. /\ strand # <<>> /\ pc["strand"] = "post" /\ reply = "nullopt"
        /\ Head(strand) \in Job /\ Head(strand) \in Queued
        /\ Queued' \subseteq Queued
    BY <1>22, QueueHead, QueuedHead, QueuedKept DEF Interrupted, Idle, Control, TypeOK
  <2>3. /\ Head(strand).path \in Path /\ Head(strand).op \in Op
        /\ Head(strand).path = q => /\ Head(strand).op # "ERASE"
                                   /\ Head(strand).digest = d
    BY <2>2, TaskFields, QueuedKept
    DEF EraseFree, Stored, OnlyDigest, JobsCarry
  <2>4. PICK b : server' \in {server, Processed(server, Head(strand), b)}
    BY <1>22 DEF Interrupted
  <2>5. server[q] = d => server'[q] = d
    BY <2>3, <2>4, ProcessedKeeps DEF TypeOK
  <2>6. OnlyDigest(q, d)'
    BY <1>22, <2>2, QueuedKept
    DEF Interrupted, Stored, OnlyDigest, TasksCarry, JobsCarry, CopiesCarry,
        Goto, TypeOK,
        Thread, thread_vars
  <2>7. reply' # "OK"
    BY <1>22, <2>2 DEF Interrupted, LostAnswer
  <2>8. BelievedStored(q, d)' => BelievedStored(q, d)
    BY <1>22, <2>7 DEF Interrupted, BelievedStored, thread_vars
  <2> QED
    BY <2>5, <2>6, <2>8 DEF Stored
<1>23. CASE HandleLookup
  BY <1>23, QueuedKept
  DEF HandleLookup, Stored, OnlyDigest, TasksCarry, JobsCarry, CopiesCarry,
      BelievedStored, user_vars, Goto, Exit, TypeOK, Control, Thread
<1>24. CASE HandleAssign
  <2>1. TasksCarry(q, d) /\ dir[q].digest = d
    BY DEF Stored, OnlyDigest
  <2>2. /\ strand # <<>> /\ strand' = Tail(strand) /\ reply' = "nullopt"
        /\ Head(strand).path \in Path /\ rsrc["strand"] \in Resource
        /\ Queued' \subseteq Queued
    BY <1>24, QueueHead, QueuedDone, TaskFields DEF HandleAssign, Control, TypeOK
  <2>3. dir'[q] = IF Head(strand).path = q
                  THEN Handled(Head(strand).op, rsrc["strand"], reply)
                  ELSE dir[q]
    BY <1>24, <2>2 DEF HandleAssign, insert_or_assign, TypeOK, Content
  <2>4. Head(strand).path = q => rsrc["strand"].digest = d
    BY <1>24 DEF HandleAssign, Stored, OnlyDigest, CopiesCarry
  <2>5. dir'[q].digest = d
    BY <2>1, <2>2, <2>3, <2>4, HandledType
  <2>6. dir'[q].synced = "true" /\ q \notin misled' =>
          \/ dir[q].synced = "true" /\ q \notin misled
          \/ Head(strand).path = q /\ reply = "OK"
    BY <1>24, <2>2, <2>3, HandledType DEF HandleAssign, Positive
  <2>7. BelievedStored(q, d)' => BelievedStored(q, d)
    BY <1>24, <2>2, <2>6 DEF HandleAssign, BelievedStored
  <2>8. TasksCarry(q, d)' /\ JobsCarry(q, d)' /\ CopiesCarry(q, d)'
    BY <1>24, <2>2, QueuedKept
    DEF HandleAssign, Stored, OnlyDigest, TasksCarry, JobsCarry, CopiesCarry,
        Goto,
        TypeOK, Thread
  <2> QED
    BY <1>24, <2>5, <2>7, <2>8 DEF HandleAssign, Stored, OnlyDigest
<1>25. CASE UNCHANGED vars
  BY <1>25, QueuedKept
  DEF Stored, OnlyDigest, TasksCarry, JobsCarry, CopiesCarry, BelievedStored,
      vars
<1> QED
  BY <1>1, <1>2, <1>3, <1>4, <1>5, <1>6, <1>7, <1>8, <1>9, <1>10, <1>11,
     <1>12, <1>13, <1>14, <1>15, <1>16, <1>17, <1>18, <1>19, <1>20, <1>21,
     <1>22, <1>23, <1>24, <1>25, <1>26, <1>27, <1>28
     DEF Next, Main, Pool, Connection, Sync, Ended, Thread

-----------------------------------------------------------------------------
\* What the requests carry.

\* A request that a step builds carries the file as it now is.
LEMMA QueueStep ==
  ASSUME TypeOK, Control, [Next]_vars, NEW j \in Queued'
  PROVE  \/ j \in Queued
         \/ j \in Job /\ (j.op # "ERASE" => j.body = fs[j.path])
<1> DEFINE Goal == \/ j \in Queued
                   \/ j \in Job /\ (j.op # "ERASE" => j.body = fs[j.path])
<1>1. CASE UNCHANGED <<opened, strand>>
  BY <1>1, QueuedKept
<1>2. ASSUME strand # <<>>, strand' = Tail(strand), UNCHANGED opened PROVE Goal
  BY <1>2, QueuedDone DEF TypeOK
<1>3. ASSUME NEW t \in Task, OpenRequest(t) PROVE Goal
  <2> DEFINE k == request(t, IF t.op = "ERASE" THEN None ELSE fs[t.path])
  <2>1. k \in Job /\ (k.op # "ERASE" => k.body = fs[k.path])
    BY TaskFields, RequestType DEF TypeOK, Store
  <2>2. opened' = Put(opened, {k}) /\ strand' = strand
    BY <1>3 DEF OpenRequest
  <2> HIDE DEF k
  <2> QED
    BY <2>1, <2>2, QueuedOpen DEF TypeOK
<1>4. ASSUME NEW t \in Task, PostRequest(t) PROVE Goal
  BY <1>4, RequestType, QueuedPost DEF PostRequest, TypeOK
<1>5. CASE EraseAnswered
  BY <1>2, <1>5 DEF EraseAnswered, Idle
<1>6. CASE Refused
  BY <1>1, <1>2, <1>6 DEF Refused, Idle
<1>7. CASE HandleAssign
  BY <1>2, <1>7 DEF HandleAssign, Control
<1>8. Main \/ Connection =>
        \/ UNCHANGED <<opened, strand>>
        \/ EraseAnswered \/ Refused \/ HandleAssign
  BY DEF Main, Connection, Sync, Reconnect, SyncRequest, SyncItem, SyncCompare,
     SyncThrow, SyncConfirm, SyncCreate, BeginPurge, PurgeEntry, BeginScan,
     ScanFile, WalkFails, OpenFile, HashFile, Decide, EndScan, Answered,
     Unreadable, Interrupted, HandleLookup
<1>9. \A p \in Path : Edit(p) => UNCHANGED <<opened, strand>>
  BY DEF Edit
<1>10. \A t \in Task : RunTask(t) => UNCHANGED <<opened, strand>>
  BY DEF RunTask
<1> QED
  BY <1>1, <1>3, <1>4, <1>5, <1>6, <1>7, <1>8, <1>9, <1>10
  DEF Next, Pool, Ended, vars

\* Every action preserves BodiesSeen.
LEMMA BodiesSeenStep ==
  ASSUME IInv, [Next]_vars
  PROVE  BodiesSeen'
<1> USE DEF IInv
<1> SUFFICES ASSUME NEW j \in Queued', j.op # "ERASE"
             PROVE  j.body \in seen'[j.path]
  BY DEF BodiesSeen
<1>1. CASE j \in Queued
  <2>1. j \in Job
    BY <1>1, RangeEquality DEF Queued, TypeOK
  <2> QED
    BY <1>1, <2>1, TaskFields, SeenGrows DEF BodiesSeen
<1>2. CASE j \in Job /\ j.body = fs[j.path]
  BY <1>2, TaskFields, SeenGrows DEF PresentKept
<1> QED
  BY <1>1, <1>2, QueueStep

-----------------------------------------------------------------------------
\* The theorems.

\* The invariant holds when file_watcher has been constructed.
LEMMA InitIInv == Init => IInv
<1> SUFFICES ASSUME Init PROVE IInv
  OBVIOUS
<1>1. TypeOK
  BY BoundsAssumption
  DEF Init, TypeOK, Store, Content, Resource, Synced, Bag, Thread, Reply
<1>2. Control
  BY DEF Init, Control, Thread
<1>3. Awaited
  BY DEF Init, Awaited, ToBeSettled, Thread
<1>4. Queued = {}
  BY DEF Init, Queued, Range
<1>5. ASSUME NEW p \in Path
      PROVE  KeptParts(p)
  <2>1. fs[p] \in Digest \cup {None} /\ seen[p] = {fs[p]}
    BY DEF Init
  <2>2. EraseFree(p)
    BY <1>4 DEF Init, EraseFree
  <2>3. ASSUME fs[p] # None
        PROVE  contains(dir, p)
    <3> DEFINE r == [synced |-> "indeterminate", exist_on_server |-> FALSE,
                     digest |-> fs[p]]
    <3>1. r \in Resource
      BY <2>1, <2>3 DEF Resource, Synced
    <3>2. dir[p] = r
      BY <2>3 DEF Init
    <3> QED
      BY <3>1, <3>2, ResourceFields DEF contains
  <2> QED
    BY <2>1, <2>2, <2>3 DEF KeptParts
<1>6. ASSUME NEW p \in Path, NEW d \in Digest, seen[p] = {d}
      PROVE  Stored(p, d)
  <2>1. fs[p] = d /\ dir[p].digest = d /\ dir[p].synced = "indeterminate"
    BY <1>6, NoneIsNotADigest DEF Init
  <2>2. OnlyDigest(p, d)
    BY <1>4, <2>1
    DEF Init, OnlyDigest, TasksCarry, JobsCarry, CopiesCarry, Thread
  <2>3. ~BelievedStored(p, d)
    BY <2>1, NoneIsNotADigest DEF Init, BelievedStored
  <2> QED
    BY <2>2, <2>3 DEF Stored
<1> QED
  BY <1>1, <1>2, <1>3, <1>4, <1>5, <1>6, KeptByParts
  DEF IInv, UnchangedStored, BodiesSeen

\* Every action preserves UnchangedStored: the file's history had to be {d}.
LEMMA UnchangedStoredStep ==
  ASSUME IInv, [Next]_vars
  PROVE  UnchangedStored'
<1> USE DEF IInv
<1>1. ASSUME NEW q \in Path, NEW d \in Digest, seen'[q] = {d}
      PROVE  Stored(q, d)'
  <2>1. KeptParts(q)
    BY KeptByParts
  <2>2. seen[q] = {d} /\ fs[q] = d
    BY <1>1, <2>1, SeenGrows DEF KeptParts
  <2>3. contains(dir, q) /\ EraseFree(q)
    BY <2>1, <2>2, NoneIsNotADigest DEF KeptParts
  <2>4. Stored(q, d)
    BY <2>2 DEF UnchangedStored
  <2> QED
    BY <1>1, <2>2, <2>3, <2>4, UnchangedStep
<1> QED
  BY <1>1 DEF UnchangedStored

\* IInv is an invariant.
THEOREM Invariance == Spec => []IInv
<1>1. IInv /\ [Next]_vars => IInv'
  BY TypeStep, ControlStep, AwaitedStep, PresentStep, UnchangedStoredStep,
     BodiesSeenStep
  DEF IInv
<1> QED
  BY InitIInv, <1>1, PTL DEF Spec

\* The state of the client stays within its types: none of the copies, bags,
\* queues and captured values that the closures and handlers of scheduler.cpp
\* pass on is ever missing when it is used.
THEOREM TypeCorrect == Spec => []TypeOK
  BY Invariance, PTL DEF IInv

\* Whatever the interleaving of watcher, pool and strand, and whatever fails:
\* an entry the watcher skips because it is indeterminate and not known to be
\* on the server has an upload under way that will settle it.
THEOREM WaitingEntriesAreSettled == Spec => []IndeterminateIsAwaited
<1>1. IInv => IndeterminateIsAwaited
  BY
  DEF IInv, Awaited, Unsettled, ToBeSettled, IndeterminateIsAwaited, Starting
<1> QED
  BY <1>1, Invariance, PTL

\* The client never asks the server to erase a file that has been on disk since
\* it started, and never drops its entry.
THEOREM PresentFilesAreKept == Spec => []PresentFileIsKept
<1>1. IInv => PresentFileIsKept
  BY DEF IInv, PresentKept
<1> QED
  BY <1>1, Invariance, PTL

\* A file that has not changed since the client started and is marked as synced
\* is stored by the server.
THEOREM SyncedUnchangedFilesAreStored == Spec => []UnchangedSyncedIsStored
<1>1. IInv => UnchangedSyncedIsStored
  BY DEF IInv, UnchangedStored, Stored, BelievedStored, UnchangedSyncedIsStored
<1> QED
  BY <1>1, Invariance, PTL

\* Only the head of the queue changes what the server stores, and it empties a
\* path only by an ERASE.
LEMMA ServerStep ==
  ASSUME TypeOK, Control, [Next]_vars, NEW q \in Path, server'[q] # server[q]
  PROVE  \/ server'[q] # None
         \/ \E j \in Queued : j.path = q /\ j.op = "ERASE"
<1> DEFINE Goal == \/ server'[q] # None
                   \/ \E j \in Queued : j.path = q /\ j.op = "ERASE"
<1>1. ASSUME Idle, NEW b, server' = Processed(server, Head(strand), b)
      PROVE  Goal
  <2>1. /\ Head(strand) \in Queued
        /\ Head(strand).path \in Path /\ Head(strand).digest # None
    BY <1>1, QueueHead, QueuedHead, TaskFields, NoneIsNotADigest DEF Idle, TypeOK
  <2> QED
    BY <1>1, <2>1 DEF Processed, TypeOK, Store
<1>2. CASE Answered
  BY <1>1, <1>2 DEF Answered
<1>3. CASE EraseAnswered
  BY <1>1, <1>3 DEF EraseAnswered
<1>4. CASE Interrupted
  BY <1>1, <1>4 DEF Interrupted
<1>5. CASE UNCHANGED server
  BY <1>5
<1>6. Main \/ Connection =>
        UNCHANGED server \/ Answered \/ EraseAnswered \/ Interrupted
  BY DEF Main, Connection, Sync, Reconnect, SyncRequest, SyncItem, SyncCompare,
     SyncThrow, SyncConfirm, SyncCreate, BeginPurge, PurgeEntry, BeginScan,
     ScanFile, WalkFails, OpenFile, HashFile, Decide, EndScan, Unreadable,
     Refused, HandleLookup, HandleAssign
<1>7. \A p \in Path : Edit(p) => UNCHANGED server
  BY DEF Edit
<1>8. \A t \in Task : Pool(t) => UNCHANGED server
  BY DEF Pool, RunTask, OpenRequest, PostRequest
<1> QED
  BY <1>2, <1>3, <1>4, <1>5, <1>6, <1>7, <1>8 DEF Next, Ended, vars

\* No step removes the backup of a file that has been on disk since the start.
THEOREM PresentBackupsAreKept == Spec => PresentBackupIsKept
<1> DEFINE Keeps == \A p \in Path : None \notin seen[p] /\ server[p] # None
                                      => server'[p] # None
<1>1. IInv /\ [Next]_vars => Keeps
  <2> SUFFICES ASSUME IInv, [Next]_vars, NEW p \in Path, None \notin seen[p],
                      server[p] # None, server'[p] = None
               PROVE  FALSE
    OBVIOUS
  <2>1. \A j \in Queued : j.path = p => j.op # "ERASE"
    BY DEF IInv, PresentKept, PresentFileIsKept
  <2> QED
    BY <2>1, ServerStep DEF IInv
<1>2. IInv /\ [Next]_vars => [Keeps]_vars
  BY <1>1
<1> QED
  BY <1>2, Invariance, PTL DEF Spec, PresentBackupIsKept

\* A process that has ended changes nothing more.
LEMMA EndedStep ==
  ASSUME ~Running, [Next]_vars
  PROVE  UNCHANGED vars
BY DEF Next, Edit, Main, Pool, Connection, Ended, Sync, Reconnect, SyncRequest,
   SyncItem, SyncCompare, SyncThrow, SyncConfirm, SyncCreate, BeginPurge,
   PurgeEntry, BeginScan, ScanFile, WalkFails, OpenFile, HashFile, Decide,
   EndScan, RunTask, OpenRequest, PostRequest, Answered, Unreadable,
   EraseAnswered, Refused, Interrupted, HandleLookup, HandleAssign

\* A step after which the process has ended for the want of an entry was sync's
\* value() or a handler's lookup.
LEMMA LossStep ==
  ASSUME Running, [Next]_vars, status' \in {"handler", "bad_optional_access"}
  PROVE  \/ HandleLookup /\ status' = "handler"
         \/ /\ \E th \in Thread : SyncThrow(th)
            /\ status' = "bad_optional_access"
<1>1. CASE UNCHANGED status
  BY <1>1 DEF Running
<1>2. HandleLookup => UNCHANGED status \/ status' = "handler"
  BY DEF HandleLookup, Exit
<1>3. \A th \in Thread : SyncThrow(th) =>
        UNCHANGED status \/ status' = "bad_optional_access"
  BY DEF SyncThrow, Exit
<1>4. \A th \in Thread : Reconnect(th) \/ SyncRequest(th) =>
        UNCHANGED status \/ status' \in {"auth", "sync"}
  BY DEF Reconnect, SyncRequest, Exit
<1>5. OpenFile \/ WalkFails =>
        UNCHANGED status \/ status' \in {"length_error", "filesystem_error"}
  BY DEF OpenFile, WalkFails, Exit
<1>6. Main \/ Connection =>
        \/ UNCHANGED status \/ OpenFile \/ WalkFails \/ HandleLookup
        \/ \E th \in Thread : SyncThrow(th) \/ Reconnect(th) \/ SyncRequest(th)
  BY DEF Main, Connection, Sync, SyncItem, SyncCompare, SyncConfirm,
     SyncCreate, BeginPurge, PurgeEntry, BeginScan, ScanFile, WalkFails,
     OpenFile, HashFile, Decide,
     EndScan, Answered, Unreadable, EraseAnswered, Refused, Interrupted,
     HandleAssign, Thread
<1>7. /\ \A p \in Path : Edit(p) => UNCHANGED status
      /\ \A t \in Task : Pool(t) => UNCHANGED status
  BY DEF Edit, Pool, RunTask, OpenRequest, PostRequest
<1> QED
  BY <1>1, <1>2, <1>3, <1>4, <1>5, <1>6, <1>7 DEF Next, Ended, vars

\* The process ends for the want of an entry only at a path that has been
\* absent since it started.
THEOREM LostEntriesWereRemoved == Spec => []LostEntryWasRemoved
<1>1. Init => LostEntryWasRemoved
  BY DEF Init, LostEntryWasRemoved
<1>2. IInv /\ LostEntryWasRemoved /\ [Next]_vars => LostEntryWasRemoved'
  <2> SUFFICES ASSUME IInv, LostEntryWasRemoved, [Next]_vars
               PROVE  LostEntryWasRemoved'
    OBVIOUS
  <2> USE DEF IInv
  <2>1. CASE ~Running
    BY <2>1, EndedStep DEF LostEntryWasRemoved, vars, contains
  <2>2. CASE Running /\ status' \notin {"handler", "bad_optional_access"}
    BY <2>2 DEF LostEntryWasRemoved
  <2>3. CASE Running /\ HandleLookup /\ status' = "handler"
    <3>1. Head(strand).path \in Path
      BY <2>3, QueueHead, TaskFields DEF HandleLookup, Control, TypeOK
    <3>2. /\ ~contains(dir, Head(strand).path)
          /\ UNCHANGED <<seen, strand>>
      BY <2>3 DEF HandleLookup, Running, user_vars
    <3>3. None \in seen[Head(strand).path]
      BY <3>1, <3>2 DEF PresentKept, PresentFileIsKept
    <3> QED
      BY <2>3, <3>2, <3>3 DEF LostEntryWasRemoved
  <2>4. ASSUME Running, NEW th \in Thread, SyncThrow(th),
               status' = "bad_optional_access"
        PROVE  LostEntryWasRemoved'
    <3>1. /\ pc[th] = "value" /\ ~contains(dir, item[th])
          /\ UNCHANGED <<pc, dir, item, seen>>
      BY <2>4 DEF SyncThrow, Exit, Running, user_vars
    <3>2. None \in seen[item[th]]
      BY <3>1 DEF Control, PresentKept, PresentFileIsKept
    <3> QED
      BY <2>4, <3>1, <3>2 DEF LostEntryWasRemoved, contains
  <2> QED
    BY <2>1, <2>2, <2>3, <2>4, LossStep
<1> QED
  BY <1>1, <1>2, Invariance, PTL DEF Spec

-----------------------------------------------------------------------------
\* The client implements Mirror.

\* What the server may come to store for the path of a request.
LEMMA UploadOfSeen ==
  ASSUME IInv, Idle, NEW b,
         Head(strand).op = "ERASE" \/ b \in Payload(Head(strand)),
         server' \in {server, Processed(server, Head(strand), b)}
  PROVE  \/ server' = server
         \/ \E p \in Path : \E c \in seen[p] :
              server' = [server EXCEPT ![p] = c]
<1> USE DEF IInv
<1> DEFINE j == Head(strand)
<1>1. j \in Job /\ j \in Queued
  BY QueueHead, QueuedHead DEF Idle, TypeOK
<1>2. j.path \in Path /\ j.digest \in Digest /\ j.op \in Op
  BY <1>1, TaskFields
<1>3. CASE j.op = "ERASE"
  <2>1. None \in seen[j.path]
    BY <1>1, <1>2, <1>3 DEF PresentKept, PresentFileIsKept
  <2> QED
    BY <1>2, <1>3, <2>1 DEF Processed
<1>4. CASE j.op # "ERASE" /\ Accepts(server, j, b)
  <2>1. b = j.digest /\ b # None
    BY <1>2, <1>4, NoneIsNotADigest DEF Accepts, Op
  <2>2. b \in {j.body, fs[j.path]}
    BY <1>4, <2>1 DEF Payload, Readable
  <2>3. b \in seen[j.path]
    BY <1>1, <1>2, <1>4, <2>2 DEF BodiesSeen, PresentKept
  <2> QED
    BY <1>2, <1>4, <2>1, <2>3 DEF Processed
<1>5. CASE ~Accepts(server, j, b)
  BY <1>5 DEF Processed
<1> QED
  BY <1>3, <1>4, <1>5

\* Every step of the client is a step of Mirror, or leaves its state unchanged.
LEMMA MirrorStep ==
  ASSUME IInv, [Next]_vars
  PROVE  [Mirrored!Next]_(Mirrored!vars)
<1> DEFINE Goal == [Mirrored!Next]_(Mirrored!vars)
<1>1. ASSUME NEW p \in Path, Edit(p) PROVE Goal
  <2>1. Mirrored!Change(p)
    BY <1>1 DEF Edit, Mirrored!Change
  <2> QED
    BY <2>1 DEF Mirrored!Next
<1>2. ASSUME Idle, UNCHANGED <<fs, seen>>, NEW b,
             Head(strand).op = "ERASE" \/ b \in Payload(Head(strand)),
             server' \in {server, Processed(server, Head(strand), b)}
      PROVE  Goal
  BY <1>2, UploadOfSeen DEF Mirrored!Next, Mirrored!BackUp, Mirrored!vars
<1>3. CASE UNCHANGED <<fs, seen, server>>
  BY <1>3 DEF Mirrored!vars
<1>4. CASE Answered
  BY <1>2, <1>4 DEF Answered, user_vars
<1>5. CASE EraseAnswered
  BY <1>2, <1>5 DEF EraseAnswered, user_vars
<1>6. CASE Interrupted
  BY <1>2, <1>6 DEF Interrupted, user_vars
<1>7. Main \/ Connection =>
        \/ UNCHANGED <<fs, seen, server>>
        \/ Answered \/ EraseAnswered \/ Interrupted
  BY DEF Main, Connection, Sync, Reconnect, SyncRequest, SyncItem, SyncCompare,
     SyncThrow, SyncConfirm, SyncCreate, BeginPurge, PurgeEntry, BeginScan,
     ScanFile, WalkFails, OpenFile, HashFile, Decide, EndScan, Unreadable,
     Refused, HandleLookup, HandleAssign, user_vars
<1>8. \A t \in Task : Pool(t) => UNCHANGED <<fs, seen, server>>
  BY DEF Pool, RunTask, OpenRequest, PostRequest, user_vars
<1> QED
  BY <1>1, <1>3, <1>4, <1>5, <1>6, <1>7, <1>8 DEF Next, Ended, vars

\* The client implements Mirror: the server only comes to store, or stops
\* storing, what the path has been since the client started.
THEOREM ClientImplementsMirror == Spec => ImplementsMirror
<1>1. Init => Mirrored!Init
  BY DEF Init, Mirrored!Init, Mirrored!State, Store
<1>2. IInv /\ [Next]_vars => [Mirrored!Next]_(Mirrored!vars)
  BY MirrorStep
<1> QED
  BY <1>1, <1>2, Invariance, PTL DEF Spec, ImplementsMirror, Mirrored!Spec
=============================================================================
