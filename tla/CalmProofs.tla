----------------------------- MODULE CalmProofs -----------------------------
(***************************************************************************)
(* What holds of BackupClient when the network and the server are free of  *)
(* faults (MaxFaults = 0) and the pool keeps up with the watcher           *)
(* (PoolKeepsUp), for every set of paths and digests and every number of   *)
(* edits: an entry that is not indeterminate describes what the server     *)
(* stores, and an indeterminate one is a lock on its path.                 *)
(***************************************************************************)
EXTENDS BackupClientProofs

Calm == PoolKeepsUp = TRUE /\ MaxFaults = 0

-----------------------------------------------------------------------------
\* The inductive invariant.

\* No connection is lost: the strand never runs sync, and what it hands to a
\* handler is the answer to an upload.
Faultless ==
  /\ pc["main"] # "reconnect"
  /\ pc["strand"] \in {"post", "handle", "assign"}
  /\ pc["strand"] # "post" => Head(strand).op # "ERASE"
  /\ reply # "STALE"

\* Copies of closure t that have not built their request yet.
Copies(t) == io[t] + staged[t]

\* Closures and requests for path p that have not been answered.
OnStrand(p) == \E j \in Range(strand) : j.path = p
Built(p) == \E j \in Queued : j.path = p
Pending(p) == InBag(io, p) \/ InBag(staged, p) \/ Built(p)

\* OneRequestPerPath: a path has one closure that has not built its request,
\* or one request that waits for async_post, or one on the strand.
AloneInQueue(q, p) ==
  \A i, k \in 1..Len(q) : q[i].path = p /\ q[k].path = p => i = k

AloneInBag(p) ==
  \A j \in Job : j.path = p /\ opened[j] > 0 =>
    /\ opened[j] = 1 /\ ~OnStrand(p)
    /\ \A k \in Job : k.path = p /\ opened[k] > 0 => j = k

Alone(p) ==
  /\ \A t \in Task : t.path = p => Copies(t) <= 1
  /\ \A t, u \in Task :
       t.path = p /\ u.path = p /\ Copies(t) > 0 /\ Copies(u) > 0 => t = u
  /\ AloneInBag(p) /\ AloneInQueue(strand, p)
  /\ \A t \in Task : t.path = p /\ Copies(t) > 0 => ~Built(p)

\* From the moment its closure has run until it is handled, the entry of a
\* path is the one its request has assigned.
Locked(p) ==
  /\ \A t \in Task : t.path = p /\ staged[t] > 0 => dir[p] = Scheduled(t)
  /\ \A j \in Queued : j.path = p => dir[p] = Scheduled(j)
  /\ pc["strand"] = "assign" /\ Head(strand).path = p
       => rsrc["strand"] = dir[p]

\* The operation of a request fits what the server holds, until the server has
\* accepted it.
Fits(r) == /\ r.op = "CREATE" => server[r.path] = None
           /\ r.op = "UPDATE" => server[r.path] # None

Fitting(p) ==
  /\ \A t \in Task : t.path = p /\ Copies(t) > 0 => Fits(t)
  /\ \A j \in Queued :
       j.path = p => IF reply = "OK" /\ j = Head(strand)
                     THEN server[p] = j.digest
                     ELSE Fits(j)

\* SyncedIsStored and ExistOnServerIsAccurate.
Accurate(p) ==
  contains(dir, p) /\ dir[p].synced # "indeterminate"
  => /\ dir[p].exist_on_server = (server[p] # None)
     /\ dir[p].synced = "true" => server[p] = dir[p].digest

\* What the server holds for a path without an entry is about to be erased, or
\* the first synchronisation has still to come to it.
Dropped(p) ==
  ~contains(dir, p) /\ server[p] # None
  => \/ ToBeSettled(p)
     \/ \E t \in Task : t.path = p /\ t.op = "ERASE" /\ io[t] > 0

\* The first synchronisation visits an item of the listing once, and finds the
\* server as the listing describes it.
Syncing == pc["main"] \in {"items", "value", "confirm"}
AtItem(p) == pc["main"] \in {"value", "confirm"} /\ item["main"] = p

Visited(p) ==
  /\ ToBeSettled(p) => ~Pending(p)
  /\ ToBeSettled(p) /\ Syncing => s_dir["main"][p] = server[p]
  /\ Syncing /\ p \in todo["main"] => s_dir["main"][p] # None
  /\ AtItem(p) => s_dir["main"][p] # None /\ p \notin todo["main"]

\* No closure waits for an entry that for_each has still to visit.
Purged(p) == pc["main"] = "purge" /\ p \in todo["main"] => ~InBag(io, p)

Consistent(p) == /\ Alone(p) /\ Locked(p) /\ Fitting(p) /\ Accurate(p)
                 /\ Dropped(p) /\ Visited(p) /\ Purged(p)

CalmInv == /\ TypeOK /\ Control /\ Faultless /\ HandlerFindsEntry
           /\ \A p \in Path : Consistent(p)

-----------------------------------------------------------------------------
\* The bags and the queue of requests.

\* Nothing is pending for a path without closures and jobs.
LEMMA NotPending ==
  ASSUME TypeOK, NEW p \in Path
  PROVE  /\ ~Pending(p) <=>
              /\ \A t \in Task : t.path = p => io[t] = 0 /\ staged[t] = 0
              /\ \A j \in Queued : j.path # p
         /\ ~InBag(io, p) <=> \A t \in Task : t.path = p => io[t] = 0
<1>1. \A t \in Task : io[t] \in Nat /\ staged[t] \in Nat
  BY DEF TypeOK, Bag
<1> QED
  BY <1>1 DEF Pending, InBag, Built

\* Requests that have been built are requests.
LEMMA QueuedJobs == TypeOK => Queued \subseteq Job
  BY RangeEquality DEF Queued, TypeOK

\* The rest of the queue has nothing for the path of a head that is alone.
LEMMA TailAlone ==
  ASSUME NEW q \in Seq(Job), q # <<>>, NEW p, AloneInQueue(q, p)
  PROVE  /\ AloneInQueue(Tail(q), p)
         /\ Head(q).path = p => \A j \in Range(Tail(q)) : j.path # p
<1>1. /\ Head(q) = q[1] /\ Len(q) \in Nat \ {0}
      /\ Tail(q) \in Seq(Job) /\ Len(Tail(q)) = Len(q) - 1
      /\ \A i \in 1..Len(Tail(q)) : Tail(q)[i] = q[i + 1]
  BY HeadTailProperties
<1>2. Range(Tail(q)) = {Tail(q)[i] : i \in 1..Len(Tail(q))}
  BY <1>1, RangeEquality
<1>3. /\ 1 \in 1..Len(q)
      /\ \A i \in 1..Len(Tail(q)) : i + 1 \in 1..Len(q) /\ i + 1 # 1
  BY <1>1
<1>4. AloneInQueue(Tail(q), p)
  BY <1>1, <1>3 DEF AloneInQueue
<1>5. ASSUME Head(q).path = p, NEW i \in 1..Len(Tail(q))
      PROVE  Tail(q)[i].path # p
  BY <1>1, <1>3, <1>5 DEF AloneInQueue
<1> QED
  BY <1>2, <1>4, <1>5

\* A request is alone in the queue when there was none for its path.
LEMMA AppendAlone ==
  ASSUME NEW q \in Seq(Job), NEW j \in Job, NEW p, AloneInQueue(q, p),
         j.path = p => \A k \in Range(q) : k.path # p
  PROVE  AloneInQueue(Append(q, j), p)
<1>1. /\ Len(q) \in Nat /\ Len(Append(q, j)) = Len(q) + 1
      /\ \A i \in 1..Len(q) : Append(q, j)[i] = q[i]
      /\ Append(q, j)[Len(q) + 1] = j
  BY AppendProperties
<1>2. Range(q) = {q[i] : i \in 1..Len(q)}
  BY RangeEquality
<1>3. \A i \in 1..Len(q) + 1 : i \in 1..Len(q) \/ i = Len(q) + 1
  BY <1>1
<1> QED
  BY <1>1, <1>2, <1>3 DEF AloneInQueue

\* Closures are equal when their fields are.
LEMMA TaskEquality ==
  \A t, u \in Task :
    t.op = u.op /\ t.path = u.path /\ t.digest = u.digest => t = u
  BY DEF Task

\* What a request has assigned to its entry, and what its handler makes of it.
LEMMA ScheduledJob ==
  ASSUME NEW j \in Job
  PROVE  /\ Scheduled(j) \in Resource
         /\ Scheduled(j).synced = "indeterminate"
         /\ Scheduled(j).exist_on_server = (j.op # "CREATE")
         /\ Scheduled(j).digest = j.digest
  BY TaskFields DEF Scheduled, Resource, Synced

LEMMA HandledJob ==
  ASSUME NEW j \in Job, j.op # "ERASE", NEW answer \in Reply \ {"STALE"}
  PROVE  LET r == Handled(j.op, Scheduled(j), answer) IN
         /\ r \in Resource /\ r.synced # "indeterminate"
         /\ r.synced = "true" => answer = "OK"
         /\ r.exist_on_server = (answer = "OK" \/ j.op = "UPDATE")
         /\ r.digest = j.digest
<1> DEFINE r == Handled(j.op, Scheduled(j), answer)
<1>1. /\ r \in Resource /\ r.synced # "indeterminate"
      /\ r.synced = "true" => answer = "OK"
      /\ r.digest = j.digest
  BY ScheduledJob, HandledType DEF Positive, Reply
<1>2. j.op \in {"CREATE", "UPDATE"}
  BY TaskFields DEF Op
<1>3. r.exist_on_server = (answer = "OK" \/ j.op = "UPDATE")
  BY <1>2, ScheduledJob DEF Handled, Resource, Positive, Reply
<1> QED
  BY <1>1, <1>3

\* Every job for the path of a head that is alone is the head.
LEMMA HeadAlone ==
  ASSUME NEW q \in Seq(Job), q # <<>>, AloneInQueue(q, Head(q).path)
  PROVE  \A j \in Range(q) : j.path = Head(q).path => j = Head(q)
  BY QueueHead, TailAlone

-----------------------------------------------------------------------------
\* Steps that post closures, or none.

\* What a step of the main thread that posts closures leaves alone.
Others == /\ UNCHANGED <<staged, opened, strand, dir, server, reply>>
          /\ pc'["strand"] = pc["strand"]
          /\ rsrc'["strand"] = rsrc["strand"]

\* A closure that fits, posted for a path for which nothing is pending, leaves
\* all as it should be.
LEMMA Posting ==
  ASSUME TypeOK, TypeOK', Others,
         NEW q \in Path, Alone(q), Locked(q), Fitting(q), Accurate(q),
         \A t \in Task : t.path = q =>
            io'[t] = io[t] \/ (io'[t] = io[t] + 1 /\ ~Pending(q) /\ Fits(t)),
         \A t, u \in Task :
            t.path = q /\ u.path = q /\ io'[t] # io[t] /\ io'[u] # io[u]
            => t = u
  PROVE  Alone(q)' /\ Locked(q)' /\ Fitting(q)' /\ Accurate(q)'
<1>1. \A t \in Task : io[t] \in Nat /\ staged[t] \in Nat /\ io'[t] \in Nat
  BY DEF TypeOK, Bag
<1>2. \A t \in Task : t.path = q =>
         \/ Copies(t)' = Copies(t)
         \/ /\ Copies(t)' = 1 /\ ~Pending(q) /\ Fits(t)
            /\ io'[t] # io[t]
  BY <1>1, NotPending DEF Copies, Others
<1>3. ~Pending(q) => /\ \A t \in Task : t.path = q => Copies(t) = 0
                     /\ ~Built(q)
  BY <1>1, NotPending DEF Copies, Pending
<1>4. \A t \in Task : Copies(t) \in Nat
  BY <1>1 DEF Copies
<1>5. Alone(q)'
  <2>1. \A t \in Task : t.path = q => Copies(t)' <= 1
    BY <1>2 DEF Alone
  <2>2. ASSUME NEW t \in Task, NEW u \in Task, t.path = q, u.path = q,
               Copies(t)' > 0, Copies(u)' > 0
        PROVE  t = u
    BY <1>2, <1>3, <1>4, <2>2 DEF Alone
  <2>3. Built(q)' = Built(q) /\ AloneInQueue(strand, q)'
    BY QueuedKept
    DEF Built, Others, Alone, AloneInQueue
  <2>4. ASSUME NEW t \in Task, t.path = q, Copies(t)' > 0
        PROVE  ~Built(q)'
    BY <1>2, <1>3, <2>3, <2>4 DEF Alone
  <2>5. AloneInBag(q)'
    BY DEF Others, Alone, AloneInBag, OnStrand
  <2> QED
    BY <2>1, <2>2, <2>3, <2>4, <2>5 DEF Alone
<1>6. Locked(q)'
  BY QueuedKept
  DEF Locked, Others
<1>7. Fitting(q)'
  <2>1. \A t \in Task : Fits(t)' = Fits(t)
    BY DEF Fits, Others
  <2>2. ASSUME NEW t \in Task, t.path = q, Copies(t)' > 0
        PROVE  Fits(t)'
    BY <1>2, <2>1, <2>2, QueuedKept
    DEF Fitting
  <2>3. ASSUME NEW j \in Queued, j.path = q
        PROVE  (IF reply = "OK" /\ j = Head(strand)
                THEN server[q] = j.digest
                ELSE Fits(j))'
    BY <2>3, QueuedKept
    DEF Fitting, Fits, Others
  <2> QED
    BY <2>2, <2>3, QueuedKept
    DEF Fitting, Others
<1>8. Accurate(q)'
  BY DEF Accurate, Others, contains
<1> QED
  BY <1>5, <1>6, <1>7, <1>8

\* Without a closure posted.
LEMMA NoPosting ==
  ASSUME TypeOK, TypeOK', Others, UNCHANGED io,
         NEW q \in Path, Alone(q), Locked(q), Fitting(q), Accurate(q)
  PROVE  Alone(q)' /\ Locked(q)' /\ Fitting(q)' /\ Accurate(q)'
  BY Posting

\* With the closures of S posted.
LEMMA PostingSet ==
  ASSUME TypeOK, TypeOK', Others, NEW S, io' = Put(io, S),
         NEW q \in Path, Alone(q), Locked(q), Fitting(q), Accurate(q),
         \A t \in Task : t \in S /\ t.path = q => ~Pending(q) /\ Fits(t),
         \A t, u \in Task :
           t \in S /\ u \in S /\ t.path = q /\ u.path = q => t = u
  PROVE  Alone(q)' /\ Locked(q)' /\ Fitting(q)' /\ Accurate(q)'
<1>1. \A t \in Task : io'[t] = IF t \in S THEN io[t] + 1 ELSE io[t]
  BY DEF Put, TypeOK, Bag
<1> QED
  BY <1>1, Posting

-----------------------------------------------------------------------------
\* The first synchronisation.

\* The listing.
LEMMA CalmSyncRequest ==
  ASSUME TypeOK, TypeOK', Faultless, MaxFaults = 0, SyncRequest("main"),
         NEW q \in Path, Consistent(q)
  PROVE  Consistent(q)'
<1> USE DEF Consistent
<1>1. ~Fault
  BY DEF Fault, TypeOK
<1>2. /\ pc["main"] = "sync" /\ Goto("main", "items")
      /\ s_dir' = [s_dir EXCEPT !["main"] = server]
      /\ todo' = [todo EXCEPT !["main"] = Listed(server)]
      /\ UNCHANGED <<status, io, rsrc, item>> /\ Others
  BY <1>1 DEF SyncRequest, Others, Goto, TypeOK, Thread
<1>3. Alone(q)' /\ Locked(q)' /\ Fitting(q)' /\ Accurate(q)'
  BY <1>2, NoPosting
<1>4. ToBeSettled(q) /\ ToBeSettled(q)'
  BY <1>2 DEF ToBeSettled, Listed, Goto, TypeOK, Thread, Store
<1>5. Dropped(q)'
  BY <1>4 DEF Dropped
<1>6. Visited(q)'
  BY <1>2, <1>4, QueuedKept
  DEF Visited, Pending, InBag, Built, Others, Syncing, AtItem, Listed, Goto,
      TypeOK, Thread
<1>7. Purged(q)'
  BY <1>2 DEF Purged, Goto, TypeOK, Thread
<1> QED
  BY <1>3, <1>5, <1>6, <1>7

\* An item of the listing: without an entry, it is erased.
LEMMA CalmSyncItem ==
  ASSUME TypeOK, TypeOK', SyncItem("main"), NEW q \in Path, Consistent(q)
  PROVE  Consistent(q)'
<1> USE DEF Consistent
<1>1. PICK p \in todo["main"] :
        /\ todo' = [todo EXCEPT !["main"] = @ \ {p}]
        /\ IF contains(dir, p)
           THEN /\ item' = [item EXCEPT !["main"] = p]
                /\ Goto("main", "value")
                /\ UNCHANGED io
           ELSE /\ io' = Put(io, {task("ERASE", p, s_dir["main"][p])})
                /\ UNCHANGED <<item, pc>>
  BY DEF SyncItem
<1>2. /\ p \in Path /\ pc["main"] = "items" /\ UNCHANGED <<s_dir, rsrc>>
      /\ Others /\ todo'["main"] = todo["main"] \ {p}
  BY <1>1 DEF SyncItem, Others, Goto, TypeOK, Thread
<1>3. CASE contains(dir, p)
  <2>1. /\ pc'["main"] = "value" /\ item'["main"] = p /\ UNCHANGED io
    BY <1>1, <1>3 DEF Goto, TypeOK, Thread
  <2>2. Alone(q)' /\ Locked(q)' /\ Fitting(q)' /\ Accurate(q)'
    BY <1>2, <2>1, NoPosting
  <2>3. ToBeSettled(q)' = ToBeSettled(q)
    BY <1>1, <1>2, <2>1 DEF ToBeSettled
  <2>4. Dropped(q)'
    BY <1>2, <2>1, <2>3 DEF Dropped, Others
  <2>5. Visited(q)'
    BY <1>1, <1>2, <2>1, <2>3, QueuedKept
    DEF Visited, Pending, InBag, Built, Others, Syncing, AtItem
  <2>6. Purged(q)'
    BY <2>1 DEF Purged
  <2> QED
    BY <2>2, <2>4, <2>5, <2>6
<1>4. CASE ~contains(dir, p)
  <2> DEFINE t == task("ERASE", p, s_dir["main"][p])
  <2>1. /\ io' = Put(io, {t}) /\ t.path = p /\ t.op = "ERASE"
        /\ UNCHANGED <<item, pc>>
    BY <1>1, <1>4 DEF task
  <2>2. t \in Task \/ q # p
    BY <1>1, <1>2, <2>1 DEF Visited, Syncing, task, Task, Op, TypeOK, Store,
       Thread
  <2> HIDE DEF t
  <2>3. q = p => ToBeSettled(q) /\ ~Pending(q)
    BY <1>1, <1>2 DEF Visited, ToBeSettled
  <2>4. Alone(q)' /\ Locked(q)' /\ Fitting(q)' /\ Accurate(q)'
    BY <1>2, <2>1, <2>3, PostingSet DEF Fits
  <2>5. /\ t \in Task => io'[t] > 0
        /\ \A u \in Task : u # t => io'[u] = io[u]
        /\ \A u \in Task : io'[u] >= io[u] /\ io[u] \in Nat
    BY <2>1, PutType, BagCounts DEF TypeOK
  <2>6. ToBeSettled(q)' => ToBeSettled(q) /\ q # p
    BY <1>1, <1>2, <2>1 DEF ToBeSettled, Visited, Syncing
  <2>7. ToBeSettled(q) => ToBeSettled(q)' \/ q = p
    BY <1>1, <1>2, <2>1 DEF ToBeSettled
  <2>8. Dropped(q)'
    <3>1. CASE q = p
      BY <2>1, <2>2, <2>5, <3>1 DEF Dropped
    <3>2. CASE q # p
      BY <1>2, <2>5, <2>7, <3>2 DEF Dropped, Others
    <3> QED
      BY <3>1, <3>2
  <2>9. Visited(q)'
    <3>1. q # p => Pending(q)' = Pending(q)
      BY <1>2, <2>1, <2>5, QueuedKept
      DEF Pending, InBag, Built, Others
    <3> QED
      BY <1>1, <1>2, <2>1, <2>6, <3>1 DEF Visited, Others, Syncing, AtItem
  <2>10. Purged(q)'
    BY <1>2, <2>1 DEF Purged
  <2> QED
    BY <2>4, <2>8, <2>9, <2>10
<1> QED
  BY <1>3, <1>4

\* The comparison: a file that differs is updated.
LEMMA CalmSyncCompare ==
  ASSUME TypeOK, TypeOK', Control, SyncCompare("main"),
         NEW q \in Path, Consistent(q)
  PROVE  Consistent(q)'
<1> USE DEF Consistent
<1>1. PICK p \in Path : p = item["main"] /\ dir[p] \in Resource
  BY DEF SyncCompare, contains, Control, TypeOK, Content, Thread
<1>2. /\ pc["main"] = "value"
      /\ UNCHANGED <<s_dir, todo, staged, opened, strand>>
      /\ AtItem(p) /\ contains(dir, p)
      /\ pc'["main"] \in {"items", "confirm"}
  BY <1>1 DEF SyncCompare, AtItem, Goto, TypeOK, Thread
<1>3. Others
  BY DEF SyncCompare, Others, Goto, TypeOK, Thread
<1>4. q = p => /\ ToBeSettled(q) /\ ~Pending(q) /\ server[q] # None
               /\ s_dir["main"][q] = server[q] /\ q \notin todo["main"]
  BY <1>1, <1>2 DEF Visited, ToBeSettled, Syncing, AtItem
<1>5. CASE dir[p].digest # s_dir["main"][p]
  <2> DEFINE t == task("UPDATE", p, dir[p].digest)
  <2>1. /\ io' = Put(io, {t}) /\ t.path = p /\ t.op = "UPDATE"
        /\ pc'["main"] = "items"
    BY <1>1, <1>5 DEF SyncCompare, task, Goto, TypeOK, Thread
  <2> HIDE DEF t
  <2>2. Alone(q)' /\ Locked(q)' /\ Fitting(q)' /\ Accurate(q)'
    BY <1>3, <1>4, <2>1, PostingSet DEF Fits
  <2>3. /\ \A u \in Task : u # t => io'[u] = io[u]
        /\ \A u \in Task : io[u] > 0 => io'[u] > 0
    BY <2>1, PutType, BagCounts DEF TypeOK
  <2>4. ToBeSettled(q)' => ToBeSettled(q) /\ q # p
    BY <1>1, <1>2, <1>4, <2>1 DEF ToBeSettled
  <2>5. ToBeSettled(q) => ToBeSettled(q)' \/ q = p
    BY <1>1, <1>2, <2>1 DEF ToBeSettled
  <2>6. Dropped(q)'
    BY <1>2, <1>3, <2>3, <2>5 DEF Dropped, Others, contains
  <2>7. Visited(q)'
    <3>1. q # p => Pending(q)' = Pending(q)
      BY <1>2, <2>1, <2>3, QueuedKept
      DEF Pending, InBag, Built
    <3> QED
      BY <1>2, <1>3, <2>1, <2>4, <3>1 DEF Visited, Others, Syncing, AtItem
  <2>8. Purged(q)'
    BY <2>1 DEF Purged
  <2> QED
    BY <2>2, <2>6, <2>7, <2>8
<1>6. CASE dir[p].digest = s_dir["main"][p]
  <2>1. pc'["main"] = "confirm" /\ UNCHANGED <<io, item>>
    BY <1>1, <1>6 DEF SyncCompare, Goto, TypeOK, Thread
  <2>2. Alone(q)' /\ Locked(q)' /\ Fitting(q)' /\ Accurate(q)'
    BY <1>3, <2>1, NoPosting
  <2>3. ToBeSettled(q)' = ToBeSettled(q)
    BY <1>2, <2>1 DEF ToBeSettled
  <2>4. Dropped(q)'
    BY <1>3, <2>1, <2>3 DEF Dropped, Others
  <2>5. Visited(q)'
    BY <1>2, <1>3, <2>1, <2>3, QueuedKept
    DEF Visited, Pending, InBag, Built, Others, Syncing, AtItem
  <2>6. Purged(q)'
    BY <2>1 DEF Purged
  <2> QED
    BY <2>2, <2>4, <2>5, <2>6
<1> QED
  BY <1>5, <1>6

\* The confirmation: the listing still describes the server.
LEMMA CalmSyncConfirm ==
  ASSUME TypeOK, TypeOK', Control, Faultless, SyncConfirm("main"),
         NEW q \in Path, Consistent(q)
  PROVE  Consistent(q)'
<1> USE DEF Consistent
<1> DEFINE p == item["main"]
<1>1. /\ p \in Path /\ rsrc["main"] \in Resource
      /\ s_dir["main"][p] = rsrc["main"].digest
      /\ dir' = [dir EXCEPT ![p] = Confirmed(rsrc["main"])]
      /\ pc["main"] = "confirm" /\ pc'["main"] = "items"
      /\ pc'["strand"] = pc["strand"] /\ rsrc'["strand"] = rsrc["strand"]
      /\ UNCHANGED <<server, io, staged, opened, strand, todo, s_dir, reply>>
  BY DEF SyncConfirm, Control, Goto, insert_or_assign, TypeOK, Thread
<1>2. /\ Confirmed(rsrc["main"]).synced = "true"
      /\ Confirmed(rsrc["main"]).exist_on_server = TRUE
      /\ Confirmed(rsrc["main"]).digest = rsrc["main"].digest
      /\ Confirmed(rsrc["main"]) # None
  BY <1>1, ConfirmedType, ResourceFields DEF Confirmed, Resource
<1>3. ToBeSettled(p) /\ Syncing /\ AtItem(p)
  BY <1>1 DEF ToBeSettled, Syncing, AtItem
<1>4. /\ ToBeSettled(q)' => ToBeSettled(q)
      /\ ToBeSettled(q) => ToBeSettled(q)' \/ q = p
  BY <1>1 DEF ToBeSettled
<1>5. CASE q = p
  <2>1. /\ dir'[q] = Confirmed(rsrc["main"]) /\ ~Pending(q)
        /\ server[q] = rsrc["main"].digest /\ server[q] # None
        /\ s_dir["main"][q] # None /\ q \notin todo["main"]
    BY <1>1, <1>3, <1>5 DEF Visited, TypeOK, Content
  <2>2. /\ \A t \in Task : t.path = q => staged[t] = 0
        /\ \A j \in Queued : j.path # q
    BY <2>1, NotPending
  <2>3. Alone(q)'
    BY <1>1, QueuedKept
    DEF Alone, AloneInBag, AloneInQueue, Copies, OnStrand, Built
  <2>4. Locked(q)'
    <3>1. pc["strand"] = "assign" => Head(strand) \in Queued
      BY QueuedHead DEF Control, TypeOK
    <3> QED
      BY <1>1, <2>2, <3>1, QueuedKept
      DEF Locked
  <2>5. Fitting(q)'
    BY <1>1, QueuedKept
    DEF Fitting, Fits, Copies
  <2>6. Accurate(q)' /\ Dropped(q)'
    <3>1. server'[q] # None /\ dir'[q].synced = "true"
          /\ dir'[q].exist_on_server = TRUE /\ server'[q] = dir'[q].digest
          /\ dir'[q] # None
      BY <1>1, <1>2, <2>1
    <3> QED
      BY <3>1 DEF Accurate, Dropped, contains
  <2>7. ~ToBeSettled(q)'
    BY <1>1, <2>1 DEF ToBeSettled
  <2>8. Visited(q)' /\ Purged(q)'
    BY <1>1, <2>1, <2>7 DEF Visited, Purged, AtItem
  <2> QED
    BY <2>3, <2>4, <2>5, <2>6, <2>8
<1>6. CASE q # p
  <2>1. dir'[q] = dir[q]
    BY <1>1, <1>6 DEF TypeOK, Content
  <2>2. Alone(q)'
    BY <1>1, QueuedKept
    DEF Alone, AloneInBag, AloneInQueue, Copies, OnStrand, Built
  <2>3. Locked(q)' /\ Fitting(q)' /\ Accurate(q)'
    BY <1>1, <2>1, QueuedKept
    DEF Locked, Fitting, Fits, Copies, Accurate, contains
  <2>4. Dropped(q)'
    BY <1>1, <1>4, <1>6, <2>1 DEF Dropped, contains
  <2>5. Visited(q)' /\ Purged(q)'
    BY <1>1, <1>4, QueuedKept
    DEF Visited, Purged, Pending, InBag, Built, Syncing, AtItem
  <2> QED
    BY <2>2, <2>3, <2>4, <2>5
<1> QED
  BY <1>5, <1>6

\* The end of the first synchronisation: what is not listed is created.
LEMMA CalmSyncCreate ==
  ASSUME TypeOK, TypeOK', SyncCreate("main"), NEW q \in Path, Consistent(q)
  PROVE  Consistent(q)'
<1> USE DEF Consistent
<1> DEFINE S == {t \in Task : /\ t.op = "CREATE"
                              /\ contains(dir, t.path)
                              /\ s_dir["main"][t.path] = None
                              /\ t.digest = dir[t.path].digest}
<1>1. /\ io' = Put(io, S) /\ pc["main"] = "items" /\ pc'["main"] = "sleep"
      /\ todo["main"] = {} /\ Others
  BY DEF SyncCreate, Others, Goto, TypeOK, Thread
<1>2. \A t \in Task : t \in S /\ t.path = q =>
         /\ ~Pending(q) /\ server[q] = None /\ t.op = "CREATE"
         /\ t.digest = dir[q].digest /\ contains(dir, q)
  BY <1>1 DEF Visited, ToBeSettled, Syncing
<1>3. \A t, u \in Task :
         t \in S /\ u \in S /\ t.path = q /\ u.path = q => t = u
  BY TaskEquality
<1> HIDE DEF S
<1>4. Alone(q)' /\ Locked(q)' /\ Fitting(q)' /\ Accurate(q)'
  <2>1. \A t \in Task : t \in S /\ t.path = q => ~Pending(q) /\ Fits(t)
    BY <1>2 DEF Fits
  <2> QED
    BY <1>1, <1>3, <2>1, PostingSet
<1>5. Dropped(q)'
  <2>1. ToBeSettled(q) => server[q] = None
    BY <1>1 DEF ToBeSettled, Visited, Syncing
  <2>2. \A u \in Task : io'[u] > 0 \/ io[u] = 0
    BY <1>1, PutType, BagCounts DEF TypeOK
  <2>3. \A u \in Task : io[u] \in Nat
    BY BagCounts DEF TypeOK
  <2> QED
    BY <1>1, <2>1, <2>2, <2>3 DEF Dropped, Others, contains
<1>6. Visited(q)' /\ Purged(q)'
  BY <1>1 DEF Visited, ToBeSettled, Syncing, AtItem, Purged
<1> QED
  BY <1>4, <1>5, <1>6

-----------------------------------------------------------------------------
\* The watcher.

\* Nothing is pending for a path whose entry is not the mark of a request,
\* when no closure waits to set one.
LEMMA OpenEntry ==
  ASSUME TypeOK, NEW q \in Path, Locked(q), ~InBag(io, q),
         ~contains(dir, q) \/ dir[q].synced # "indeterminate"
  PROVE  ~Pending(q)
<1>1. \A t \in Task : /\ Scheduled(t) # None
                      /\ Scheduled(t).synced = "indeterminate"
  BY ScheduledType, ResourceFields
<1>2. \A j \in Queued : /\ Scheduled(j) # None
                               /\ Scheduled(j).synced = "indeterminate"
  BY ScheduledJob, QueuedJobs, ResourceFields
<1>3. \A t \in Task : t.path = q => staged[t] = 0
  BY <1>1, BagCounts, QueuedKept
  DEF Locked, TypeOK, contains
<1>4. \A j \in Queued : j.path # q
  BY <1>2, QueuedKept
  DEF Locked, contains
<1> QED
  BY <1>3, <1>4, NotPending

\* Steps that only move the main thread, after the first synchronisation.
LEMMA CalmWalk ==
  ASSUME TypeOK, TypeOK', Others, UNCHANGED io,
         pc["main"] \in {"sleep", "purge", "scan", "hash", "read", "decide"},
         pc'["main"] \in {"sleep", "scan", "hash", "read", "decide"},
         NEW q \in Path, Consistent(q)
  PROVE  Consistent(q)'
<1> USE DEF Consistent
<1>1. Alone(q)' /\ Locked(q)' /\ Fitting(q)' /\ Accurate(q)'
  BY NoPosting
<1>2. ~ToBeSettled(q) /\ ~ToBeSettled(q)'
  BY DEF ToBeSettled
<1>3. Dropped(q)' /\ Visited(q)' /\ Purged(q)'
  BY <1>2
  DEF Dropped, Others, contains, Visited, ToBeSettled, Syncing, AtItem, Purged
<1> QED
  BY <1>1, <1>3

\* A cycle begins when no closure is waiting.
LEMMA CalmBeginPurge ==
  ASSUME TypeOK, TypeOK', PoolKeepsUp, BeginPurge, NEW q \in Path,
         Consistent(q)
  PROVE  Consistent(q)'
<1> USE DEF Consistent
<1>1. /\ pc["main"] = "sleep" /\ pc'["main"] = "purge" /\ ~InBag(io, q)
      /\ Others /\ UNCHANGED io
  BY DEF BeginPurge, Settled, Others, Goto, TypeOK, Thread
<1>2. Alone(q)' /\ Locked(q)' /\ Fitting(q)' /\ Accurate(q)'
  BY <1>1, NoPosting
<1>3. Dropped(q)' /\ Visited(q)' /\ Purged(q)'
  BY <1>1
  DEF Dropped, Others, contains, Visited, ToBeSettled, Syncing, AtItem,
      Purged, InBag
<1> QED
  BY <1>2, <1>3

\* A file that is gone: nothing is pending for an entry that is known, so its
\* ERASE is alone; what the server does not hold may be forgotten.
LEMMA CalmPurgeEntry ==
  ASSUME TypeOK, TypeOK', Control, PurgeEntry, NEW q \in Path,
         Consistent(q)
  PROVE  Consistent(q)'
<1> USE DEF Consistent
<1>1. PICK p \in todo["main"] :
        /\ todo' = [todo EXCEPT !["main"] = @ \ {p}]
        /\ IF Kept(p)
           THEN UNCHANGED <<io, dir>>
           ELSE IF dir[p].exist_on_server
           THEN /\ io' = Put(io, {task("ERASE", p, dir[p].digest)})
                /\ UNCHANGED dir
           ELSE /\ dir' = erase(dir, p)
                /\ UNCHANGED io
  BY DEF PurgeEntry
<1>2. /\ p \in Path /\ pc["main"] = "purge" /\ UNCHANGED pc
      /\ UNCHANGED <<staged, opened, strand, server, reply, rsrc>>
      /\ todo'["main"] = todo["main"] \ {p}
  BY <1>1 DEF PurgeEntry, TypeOK, Thread
<1>3. ~Kept(p) /\ q = p => ~Pending(q)
  BY <1>2, OpenEntry DEF Kept, Purged
<1>4. CASE UNCHANGED dir /\ (UNCHANGED io \/ q # p)
  <2>1. \A t \in Task : t.path = q => io'[t] = io[t]
    BY <1>1, <1>4 DEF Put, task, TypeOK, Bag
  <2>2. Alone(q)' /\ Locked(q)' /\ Fitting(q)' /\ Accurate(q)'
    BY <1>2, <1>4, <2>1, Posting DEF Others
  <2>3. Dropped(q)' /\ Visited(q)' /\ Purged(q)'
    BY <1>2, <1>4, <2>1
    DEF Dropped, contains, Visited, ToBeSettled, Syncing, AtItem, Purged,
        InBag
  <2> QED
    BY <2>2, <2>3
<1>5. CASE q = p /\ ~Kept(p) /\ UNCHANGED dir
           /\ io' = Put(io, {task("ERASE", p, dir[p].digest)})
  <2> DEFINE t == task("ERASE", p, dir[p].digest)
  <2>1. io' = Put(io, {t}) /\ t.path = p /\ t.op = "ERASE"
    BY <1>5 DEF task
  <2> HIDE DEF t
  <2>2. Others /\ ~Pending(q)
    BY <1>2, <1>3, <1>5 DEF Others
  <2>3. Alone(q)' /\ Locked(q)' /\ Fitting(q)' /\ Accurate(q)'
    <3>1. \A u \in Task : u \in {t} /\ u.path = q => ~Pending(q) /\ Fits(u)
      BY <2>1, <2>2 DEF Fits
    <3> QED
      BY <2>1, <2>2, <3>1, PostingSet
  <2>4. \A u \in Task : io[u] > 0 => io'[u] > 0
    BY <2>1, PutType, BagCounts DEF TypeOK
  <2>5. Dropped(q)' /\ Visited(q)' /\ Purged(q)'
    BY <1>2, <1>5, <2>4
    DEF Dropped, contains, Visited, ToBeSettled, Syncing, AtItem, Purged
  <2> QED
    BY <2>3, <2>5
<1>6. CASE ~Kept(p) /\ ~dir[p].exist_on_server /\ UNCHANGED io
           /\ dir' = erase(dir, p)
  <2>1. CASE q = p
    <3>1. dir'[q] = None
      BY <1>6, <2>1 DEF erase, TypeOK, Content
    <3>2. server[q] = None \/ dir[q] = None
      BY <1>3, <1>6, <2>1 DEF Accurate, contains, Kept
    <3>3. /\ \A t \in Task : t.path = q => io[t] = 0 /\ staged[t] = 0
          /\ \A j \in Queued : j.path # q
      BY <1>3, <1>6, <2>1, NotPending
    <3>4. Alone(q)' /\ Fitting(q)'
      BY <1>2, <1>6, QueuedKept
      DEF Alone, AloneInBag, AloneInQueue, Copies, OnStrand, Built, Fitting, Fits
    <3>5. Locked(q)'
      <4>1. pc["strand"] = "assign" => Head(strand) \in Queued
        BY QueuedHead DEF Control, TypeOK
      <4> QED
        BY <1>2, <3>3, <4>1, QueuedKept
        DEF Locked
    <3>6. Accurate(q)' /\ Visited(q)' /\ Purged(q)'
      BY <1>2, <1>6, <2>1, <3>1
      DEF Accurate, contains, Visited, ToBeSettled, Syncing, AtItem, Purged
    <3>7. Dropped(q)'
      BY <1>2, <1>6, <3>1, <3>2 DEF Dropped, contains, ToBeSettled
    <3> QED
      BY <3>4, <3>5, <3>6, <3>7
  <2>2. CASE q # p
    <3>1. dir'[q] = dir[q]
      BY <1>6, <2>2 DEF erase, TypeOK, Content
    <3>2. Alone(q)' /\ Fitting(q)'
      BY <1>2, <1>6, QueuedKept
      DEF Alone, AloneInBag, AloneInQueue, Copies, OnStrand, Built, Fitting, Fits
    <3>3. Locked(q)' /\ Accurate(q)' /\ Dropped(q)' /\ Visited(q)'
          /\ Purged(q)'
      BY <1>2, <1>6, <3>1, QueuedKept
      DEF Locked, Accurate, Dropped, contains, Visited, ToBeSettled, Syncing,
          AtItem, Purged, InBag
    <3> QED
      BY <3>2, <3>3
  <2> QED
    BY <2>1, <2>2
<1> QED
  BY <1>1, <1>4, <1>5, <1>6

\* The watcher's decision: it posts a request only where nothing is pending,
\* and the entry tells it what the server holds.
LEMMA CalmDecide ==
  ASSUME TypeOK, TypeOK', Control, PoolKeepsUp, Decide, NEW q \in Path,
         Consistent(q)
  PROVE  Consistent(q)'
<1> USE DEF Consistent
<1> DEFINE p == item["main"]
           T == WatcherTask(p, dir[p], digest)
<1>1. /\ ~InBag(io, p) /\ io' = Put(io, T) /\ Others /\ p \in Path
      /\ pc["main"] = "decide" /\ pc'["main"] = "scan"
  BY DEF Decide, Settled, Others, Goto, Control, TypeOK, Thread
<1>2. ~ToBeSettled(q) /\ ~ToBeSettled(q)'
  BY <1>1 DEF ToBeSettled
<1>3. ASSUME NEW t \in T, t.path = q
      PROVE  ~Pending(q) /\ Fits(t)
  <2>1. /\ q = p
        /\ \/ dir[q] = None /\ t.op = "CREATE"
           \/ /\ dir[q] # None /\ dir[q].synced = "true" /\ t.op = "UPDATE"
           \/ /\ dir[q] # None /\ dir[q].synced = "false"
              /\ t.op = IF dir[q].exist_on_server THEN "UPDATE" ELSE "CREATE"
    BY <1>3 DEF WatcherTask, task, Upload
  <2>2. ~Pending(q)
    BY <1>1, <2>1, OpenEntry DEF contains
  <2>3. CASE dir[q] = None
    <3>1. server[q] = None
      BY <1>1, <1>2, <2>1, <2>3 DEF Dropped, contains, InBag
    <3> QED
      BY <1>3, <2>1, <2>2, <2>3, <3>1 DEF Fits
  <2>4. CASE dir[q] # None /\ dir[q].synced = "true"
    <3>1. server[q] = dir[q].digest /\ dir[q].digest # None
      BY <2>4, ResourceFields, NoneIsNotADigest
      DEF Accurate, contains, TypeOK, Content
    <3> QED
      BY <1>3, <2>1, <2>2, <2>4, <3>1 DEF Fits
  <2>5. CASE dir[q] # None /\ dir[q].synced = "false"
    <3>1. dir[q].exist_on_server <=> server[q] # None
      BY <2>5 DEF Accurate, contains
    <3> QED
      BY <1>3, <2>1, <2>2, <2>5, <3>1 DEF Fits
  <2> QED
    BY <2>1, <2>3, <2>4, <2>5
<1>4. \A t, u \in T : t = u
  BY DEF WatcherTask
<1> HIDE DEF T
<1>5. Alone(q)' /\ Locked(q)' /\ Fitting(q)' /\ Accurate(q)'
  BY <1>1, <1>3, <1>4, PostingSet
<1>6. \A u \in Task : io[u] > 0 => io'[u] > 0
  BY <1>1, PutType, BagCounts DEF TypeOK
<1>7. Dropped(q)' /\ Visited(q)' /\ Purged(q)'
  BY <1>1, <1>2, <1>6
  DEF Dropped, Others, contains, Visited, Syncing, AtItem, Purged
<1> QED
  BY <1>5, <1>7

-----------------------------------------------------------------------------
\* The pool.

\* A closure starts: its entry becomes the mark of the request.
LEMMA CalmRunTask ==
  ASSUME TypeOK, TypeOK', Control, NEW t \in Task, RunTask(t),
         NEW q \in Path, Consistent(q)
  PROVE  Consistent(q)'
<1> USE DEF Consistent
<1>1. /\ io[t] > 0 /\ io' = Take(io, t) /\ staged' = Put(staged, {t})
      /\ dir' = [dir EXCEPT ![t.path] = Scheduled(t)]
      /\ UNCHANGED <<server, opened, strand, pc, todo, item, rsrc, s_dir,
                     reply>>
      /\ t.path \in Path /\ pc["main"] # "purge"
  BY TaskFields DEF RunTask, Unlocked, thread_vars, insert_or_assign
<1>2. \A u \in Task : io[u] \in Nat /\ staged[u] \in Nat
  BY BagCounts DEF TypeOK
<1>3. \A u \in Task : Copies(u)' = Copies(u)
  BY <1>1, <1>2 DEF Copies, Take, Put, TypeOK, Bag
<1>4. \A u \in Task : u # t => io'[u] = io[u] /\ staged'[u] = staged[u]
  BY <1>1, TakeType, PutType DEF TypeOK
<1>5. Alone(q)'
  BY <1>1, <1>3, QueuedKept
  DEF Alone, AloneInBag, OnStrand, AloneInQueue, Built
<1>6. Fitting(q)'
  BY <1>1, <1>3, QueuedKept
  DEF Fitting, Fits
<1>7. ToBeSettled(q)' = ToBeSettled(q) /\ Purged(q)'
  BY <1>1 DEF ToBeSettled, Purged
<1>8. CASE q = t.path
  <2>1. dir'[q] = Scheduled(t)
    BY <1>1, <1>8 DEF TypeOK, Content
  <2>2. Copies(t) > 0 /\ ~Built(q) /\ Pending(q)
    BY <1>1, <1>2, <1>8 DEF Copies, Alone, Pending, InBag
  <2>3. Locked(q)'
    <3>1. ASSUME NEW u \in Task, u.path = q, staged'[u] > 0
          PROVE  u = t
      <4>1. Copies(u)' > 0
        BY <3>1, BagCounts DEF Copies, TypeOK
      <4> QED
        BY <1>3, <1>8, <2>2, <3>1, <4>1 DEF Alone
    <3>2. pc["strand"] = "assign" => Head(strand).path # q
      BY <2>2, QueuedHead DEF Built, Control, TypeOK
    <3> QED
      BY <1>1, <2>1, <2>2, <3>1, <3>2, QueuedKept
      DEF Locked, Built
  <2>4. Accurate(q)' /\ Dropped(q)'
    BY <2>1, ScheduledType, ResourceFields DEF Accurate, Dropped, contains
  <2>5. Visited(q)'
    BY <1>1, <1>7, <2>2 DEF Visited, Syncing, AtItem
  <2> QED
    BY <1>5, <1>6, <1>7, <2>3, <2>4, <2>5
<1>9. CASE q # t.path
  <2>1. dir'[q] = dir[q]
    BY <1>1, <1>9 DEF TypeOK, Content
  <2>2. \A u \in Task : u.path = q => io'[u] = io[u] /\ staged'[u] = staged[u]
    BY <1>4, <1>9
  <2>3. Locked(q)' /\ Accurate(q)'
    BY <1>1, <2>1, <2>2, QueuedKept
    DEF Locked, Accurate, contains
  <2>4. Dropped(q)'
    BY <1>1, <1>7, <2>1, <2>2 DEF Dropped, contains
  <2>5. Visited(q)'
    BY <1>1, <1>7, <2>2, QueuedKept
    DEF Visited, Syncing, AtItem, Pending, InBag, Built
  <2> QED
    BY <1>5, <1>6, <1>7, <2>3, <2>4, <2>5
<1> QED
  BY <1>8, <1>9

\* A closure builds its request, which becomes the path's only one.
LEMMA CalmOpenRequest ==
  ASSUME TypeOK, TypeOK', Control, NEW t \in Task, OpenRequest(t),
         NEW q \in Path, Consistent(q)
  PROVE  Consistent(q)'
<1> USE DEF Consistent
<1>1. PICK j \in Job :
        /\ j.op = t.op /\ j.path = t.path /\ j.digest = t.digest
        /\ opened' = Put(opened, {j})
  <2> DEFINE k == request(t, IF t.op = "ERASE" THEN None ELSE fs[t.path])
  <2>1. /\ k \in Job /\ k.op = t.op /\ k.path = t.path
        /\ k.digest = t.digest
    BY TaskFields, RequestType DEF TypeOK, Store
  <2>2. opened' = Put(opened, {k})
    BY DEF OpenRequest
  <2> HIDE DEF k
  <2> QED
    BY <2>1, <2>2
<1>2. /\ staged[t] > 0 /\ staged' = Take(staged, t) /\ t.path \in Path
      /\ UNCHANGED <<server, dir, io, strand, pc, todo, item, rsrc, s_dir,
                     reply>>
  BY TaskFields DEF OpenRequest, thread_vars
<1>3. Queued' = Queued \cup {j}
  BY <1>1, <1>2, QueuedOpen DEF TypeOK
<1>4. \A k \in Job : /\ opened[k] \in Nat
                     /\ opened'[k] = IF k = j THEN opened[j] + 1 ELSE opened[k]
  BY <1>1 DEF Put, TypeOK, Bag
<1>5. /\ strand # <<>> => Head(strand) \in Queued
      /\ pc["strand"] = "assign" \/ reply = "OK" => strand # <<>>
  BY QueuedHead DEF Control, TypeOK
<1>6. \A k \in Job : opened[k] > 0 => k \in Queued
  BY DEF Queued
<1>7. \A u \in Task : /\ io[u] \in Nat /\ staged[u] \in Nat
                      /\ u # t => Copies(u)' = Copies(u)
                                  /\ staged'[u] = staged[u]
                      /\ staged'[u] \in Nat /\ staged'[u] <= staged[u]
  BY <1>2, TakeType, BagCounts DEF Copies, TypeOK
<1>8. /\ ToBeSettled(q)' = ToBeSettled(q) /\ Purged(q)' /\ Accurate(q)'
      /\ Dropped(q)'
  BY <1>2 DEF ToBeSettled, Purged, InBag, Accurate, Dropped, contains
<1>9. /\ AloneInQueue(strand, q)' = AloneInQueue(strand, q)
      /\ OnStrand(q)' = OnStrand(q)
      /\ OnStrand(q) => Built(q)
  BY <1>2 DEF AloneInQueue, OnStrand, Built, Queued
<1>10. CASE q = t.path
  <2>1. /\ Copies(t) = 1 /\ ~Built(q) /\ Pending(q)
        /\ dir[q] = Scheduled(t) /\ Fits(t)
    BY <1>2, <1>7, <1>10
    DEF Copies, Alone, Locked, Fitting, Pending, InBag
  <2>2. \A u \in Task : u.path = q => Copies(u)' = 0
    <3>1. Copies(t)' = 0
      BY <1>2, <1>7, <2>1 DEF Copies, Take, TypeOK, Bag
    <3>2. \A u \in Task : u.path = q /\ u # t => Copies(u) = 0
      BY <1>7, <1>10, <2>1 DEF Alone, Copies
    <3> QED
      BY <1>7, <3>1, <3>2
  <2>3. Alone(q)'
    <3>1. \A k \in Job : k.path = q => opened[k] = 0
      BY <1>4, <1>6, <2>1 DEF Built
    <3>2. AloneInBag(q)'
      BY <1>4, <1>9, <2>1, <3>1 DEF AloneInBag
    <3> QED
      BY <1>9, <2>2, <3>2 DEF Alone
  <2>4. Locked(q)'
    <3>1. Scheduled(j) = Scheduled(t)
      BY <1>1 DEF Scheduled
    <3>2. \A u \in Task : u.path = q => staged'[u] = 0
      BY <1>7, <1>2, <2>2 DEF Copies
    <3>3. pc["strand"] = "assign" => Head(strand).path # q
      BY <1>5, <2>1 DEF Built
    <3> QED
      BY <1>2, <1>3, <2>1, <3>1, <3>2, <3>3 DEF Locked, Built
  <2>5. Fitting(q)'
    <3>1. reply = "OK" => j # Head(strand)
      BY <1>1, <1>5, <1>10, <2>1 DEF Built
    <3>2. Fits(j)'
      BY <1>1, <1>2, <1>10, <2>1 DEF Fits
    <3> QED
      BY <1>2, <1>3, <2>1, <2>2, <3>1, <3>2 DEF Fitting, Built
  <2>6. Visited(q)'
    BY <1>2, <1>8, <2>1 DEF Visited, Syncing, AtItem
  <2> QED
    BY <1>8, <2>3, <2>4, <2>5, <2>6
<1>11. CASE q # t.path
  <2>1. /\ \A k \in Queued' : k.path = q => k \in Queued
        /\ \A k \in Queued : k \in Queued'
        /\ Built(q)' = Built(q)
    BY <1>1, <1>3, <1>11 DEF Built
  <2>2. Alone(q)'
    <3>1. AloneInBag(q)'
      BY <1>1, <1>4, <1>9, <1>11 DEF Alone, AloneInBag
    <3> QED
      BY <1>7, <1>9, <1>11, <2>1, <3>1 DEF Alone
  <2>3. Locked(q)'
    BY <1>2, <1>7, <1>11, <2>1 DEF Locked
  <2>4. Fitting(q)'
    BY <1>2, <1>7, <1>11, <2>1 DEF Fitting, Fits
  <2>5. Visited(q)'
    BY <1>2, <1>7, <1>8, <1>11, <2>1
    DEF Visited, Syncing, AtItem, Pending, InBag
  <2> QED
    BY <1>8, <2>2, <2>3, <2>4, <2>5
<1> QED
  BY <1>10, <1>11

\* async_post puts it on the strand.
LEMMA CalmPostRequest ==
  ASSUME TypeOK, TypeOK', Control, NEW t \in Task, PostRequest(t),
         NEW q \in Path, Consistent(q)
  PROVE  Consistent(q)'
<1> USE DEF Consistent
<1>1. PICK j \in Job : /\ opened[j] > 0 /\ opened' = Take(opened, j)
                       /\ strand' = Append(strand, j)
  BY RequestType DEF PostRequest
<1>2. /\ UNCHANGED <<server, dir, io, staged, pc, todo, item, rsrc, s_dir,
                     reply>>
      /\ Queued' = Queued
  BY <1>1, QueuedPost DEF PostRequest, thread_vars, TypeOK
<1>3. /\ strand # <<>> => Head(strand') = Head(strand)
      /\ Range(strand') = Range(strand) \cup {j}
      /\ pc["strand"] = "assign" \/ reply = "OK" => strand # <<>>
  BY <1>1, QueueAppend DEF Control, TypeOK
<1>4. Alone(q)'
  <2>1. \A k \in Job : /\ opened[k] \in Nat
                       /\ opened'[k] = IF k = j THEN opened[j] - 1
                                                ELSE opened[k]
    BY <1>1 DEF Take, TypeOK, Bag
  <2>2. j.path = q => /\ ~OnStrand(q)
                      /\ \A k \in Job : k.path = q => opened'[k] = 0
    BY <1>1, <2>1 DEF Alone, AloneInBag
  <2>3. AloneInBag(q)'
    <3>1. j.path # q => OnStrand(q)' = OnStrand(q)
      BY <1>3 DEF OnStrand
    <3> QED
      BY <2>1, <2>2, <3>1 DEF Alone, AloneInBag
  <2>4. AloneInQueue(strand', q)
    BY <1>1, <2>2, AppendAlone DEF Alone, OnStrand, TypeOK
  <2>5. AloneInQueue(strand, q)'
    BY <2>4 DEF AloneInQueue
  <2> QED
    BY <1>2, <2>3, <2>5 DEF Alone, Copies, Built
<1>5. Locked(q)' /\ Fitting(q)'
  BY <1>2, <1>3 DEF Locked, Fitting, Fits, Copies
<1>6. Accurate(q)' /\ Dropped(q)' /\ Visited(q)' /\ Purged(q)'
  BY <1>2
  DEF Accurate, Dropped, contains, ToBeSettled, Visited, Syncing, AtItem,
      Pending, InBag, Built, Purged
<1> QED
  BY <1>4, <1>5, <1>6

-----------------------------------------------------------------------------
\* The strand.

\* The request being executed is the only one for its path: its entry carries
\* the mark of the request.
LEMMA HeadOfStrand ==
  ASSUME TypeOK, strand # <<>>, \A p \in Path : Consistent(p)
  PROVE  LET j == Head(strand) IN
         /\ j \in Job /\ j \in Queued /\ j.path \in Path
         /\ dir[j.path] = Scheduled(j) /\ dir[j.path] # None
         /\ dir[j.path].synced = "indeterminate"
         /\ Pending(j.path) /\ ~ToBeSettled(j.path)
         /\ \A t \in Task : t.path = j.path => io[t] = 0 /\ staged[t] = 0
         /\ \A k \in Queued : k.path = j.path => k = j
<1> DEFINE j == Head(strand)
<1>1. j \in Job /\ j \in Queued /\ j \in Range(strand) /\ j.path \in Path
  BY QueueHead, QueuedHead, TaskFields DEF TypeOK
<1> HIDE DEF j
<1>2. Consistent(j.path) /\ Built(j.path) /\ OnStrand(j.path)
  BY <1>1 DEF Built, OnStrand
<1>3. dir[j.path] = Scheduled(j)
  BY <1>1, <1>2 DEF Consistent, Locked
<1>4. Pending(j.path) /\ ~ToBeSettled(j.path)
  BY <1>2 DEF Pending, Consistent, Visited
<1>5. \A t \in Task : t.path = j.path => io[t] = 0 /\ staged[t] = 0
  BY <1>2, BagCounts DEF Consistent, Alone, Copies, TypeOK
<1>6. \A k \in Queued : k.path = j.path => k = j
  <2>1. \A k \in Range(strand) : k.path = j.path => k = j
    BY <1>2, HeadAlone DEF j, Consistent, Alone, TypeOK
  <2> QED
    BY <1>2, <2>1 DEF Queued, Consistent, Alone, AloneInBag
<1> QED
  BY <1>1, <1>3, <1>4, <1>5, <1>6, ScheduledJob, ResourceFields DEF j

\* The answer to an upload: a path that the server has accepted it for is now
\* what the request has asked for.
LEMMA CalmAnswered ==
  ASSUME TypeOK, TypeOK', Control, Answered, NEW q \in Path,
         \A p \in Path : Consistent(p)
  PROVE  Consistent(q)'
<1> USE DEF Consistent
<1>1. PICK j, b :
        /\ j = Head(strand) /\ j.op # "ERASE"
        /\ reply' = IF Accepts(server, j, b) THEN "OK" ELSE "ERROR"
        /\ server' = Processed(server, j, b)
  BY DEF Answered
<1>2. /\ strand # <<>> /\ reply = "nullopt" /\ pc["strand"] = "post"
      /\ pc'["strand"] = "handle" /\ pc'["main"] = pc["main"]
      /\ UNCHANGED <<dir, io, staged, opened, strand, todo, item, rsrc, s_dir>>
  BY DEF Answered, Idle, Goto, Control, TypeOK, thread_vars, Thread
<1>3. /\ j \in Queued /\ j.path \in Path /\ j.digest \in Digest
      /\ dir[j.path] # None /\ dir[j.path].synced = "indeterminate"
      /\ ~ToBeSettled(j.path)
      /\ \A t \in Task : t.path = j.path => io[t] = 0 /\ staged[t] = 0
      /\ \A k \in Queued : k.path = j.path => k = j
  BY <1>1, <1>2, HeadOfStrand, TaskFields
<1>4. /\ ToBeSettled(q)' = ToBeSettled(q)
      /\ Alone(q)' /\ Locked(q)' /\ Purged(q)'
  BY <1>2, QueuedKept
  DEF ToBeSettled, Alone, AloneInBag, AloneInQueue, Copies, OnStrand, Built, Locked, Purged, InBag
<1>5. CASE q = j.path
  <2>1. /\ reply' = "OK" => server'[q] = j.digest
        /\ reply' # "OK" => server' = server
    BY <1>1, <1>3, <1>5 DEF Processed, TypeOK, Store
  <2>2. Fits(j)
    BY <1>2, <1>3, <1>5, QueuedKept
    DEF Fitting
  <2>3. Fitting(q)'
    <3>1. ASSUME NEW k \in Queued, k.path = q
          PROVE  (IF k = Head(strand) /\ reply = "OK"
                  THEN server[q] = k.digest
                  ELSE Fits(k))'
      BY <1>1, <1>2, <1>3, <1>5, <2>1, <2>2, <3>1 DEF Fits
    <3>2. \A t \in Task : t.path = q => Copies(t)' = 0
      BY <1>2, <1>3, <1>5 DEF Copies
    <3> QED
      BY <1>2, <3>1, <3>2, QueuedKept
      DEF Fitting
  <2>4. Accurate(q)' /\ Dropped(q)' /\ Visited(q)'
    BY <1>2, <1>3, <1>4, <1>5
    DEF Accurate, Dropped, contains, Visited, Syncing, AtItem
  <2> QED
    BY <1>4, <2>3, <2>4
<1>6. CASE q # j.path
  <2>1. server'[q] = server[q]
    BY <1>1, <1>6 DEF Processed, TypeOK, Store
  <2>2. Fitting(q)'
    BY <1>1, <1>2, <1>6, <2>1, QueuedKept
    DEF Fitting, Fits, Copies
  <2>3. Accurate(q)' /\ Dropped(q)' /\ Visited(q)'
    BY <1>2, <1>4, <2>1, QueuedKept
    DEF Accurate, Dropped, contains, Visited, Syncing, AtItem, Pending, InBag,
        Built
  <2> QED
    BY <1>4, <2>2, <2>3
<1> QED
  BY <1>5, <1>6

\* A file that cannot be read is handled as unanswered.
LEMMA CalmUnreadable ==
  ASSUME TypeOK, TypeOK', Control, Unreadable, NEW q \in Path, Consistent(q)
  PROVE  Consistent(q)'
<1>1. /\ pc'["strand"] = "handle" /\ pc'["main"] = pc["main"]
      /\ UNCHANGED <<server, dir, io, staged, opened, strand, todo, item, rsrc, s_dir,
                     reply>>
  BY DEF Unreadable, Goto, TypeOK, thread_vars, Thread
<1> QED
  BY <1>1, QueuedKept
  DEF Consistent, ToBeSettled, Alone, AloneInBag, AloneInQueue, Copies, OnStrand, Built, Locked,
      Fitting, Fits, Accurate, Dropped, contains, Visited, Syncing, AtItem,
      Pending, InBag, Purged

\* What taking the head off the queue leaves for the other paths, and for its
\* own.
LEMMA QueueTaken ==
  ASSUME TypeOK, strand # <<>>, strand' = Tail(strand),
         UNCHANGED <<io, staged, opened>>,
         NEW q \in Path, \A p \in Path : Consistent(p)
  PROVE  /\ Alone(q)'
         /\ \A k \in Queued' : k \in Queued
         /\ \A k \in Queued' : k.path # Head(strand).path
         /\ Head(strand).path # q => Pending(q)' = Pending(q)
<1> DEFINE j == Head(strand)
<1>1. /\ AloneInQueue(strand, q) /\ AloneInQueue(strand, j.path)
      /\ \A k \in Queued : k.path = j.path => k = j
      /\ AloneInBag(q) /\ AloneInBag(j.path) /\ OnStrand(j.path)
      /\ j \in Job
  BY HeadOfStrand, QueueHead, QueuedKept
  DEF Consistent, Alone, OnStrand, TypeOK
<1>2. /\ Range(strand) = Range(strand') \cup {j}
      /\ AloneInQueue(strand', q)
      /\ \A k \in Range(strand') : k.path # j.path
      /\ Queued = Queued' \cup {j}
  BY <1>1, QueueHead, TailAlone, QueuedDone DEF TypeOK
<1> HIDE DEF j
<1>3. \A k \in Queued' : k.path # j.path
  BY <1>1, <1>2 DEF Queued, AloneInBag
<1>4. /\ Built(q)' => Built(q)
      /\ j.path # q => Built(q)' = Built(q)
  BY <1>2, QueuedKept
  DEF Built
<1>5. AloneInBag(q)'
  BY <1>1, <1>2 DEF AloneInBag, OnStrand
<1>6. Alone(q)'
  <2>1. AloneInQueue(strand, q)'
    BY <1>2 DEF AloneInQueue
  <2> QED
    BY <1>4, <1>5, <2>1, QueuedKept
    DEF Consistent, Alone, Copies
<1> QED
  BY <1>2, <1>3, <1>4, <1>6 DEF j, Pending, InBag

\* The answer to an ERASE: the entry keeps the mark of the request.
LEMMA CalmEraseAnswered ==
  ASSUME TypeOK, TypeOK', Control, EraseAnswered, NEW q \in Path,
         \A p \in Path : Consistent(p)
  PROVE  Consistent(q)'
<1> USE DEF Consistent
<1>1. PICK j :
        /\ j = Head(strand)
        /\ server' = Processed(server, j, None)
  BY DEF EraseAnswered
<1>2. /\ strand # <<>> /\ reply = "nullopt" /\ pc["strand"] = "post"
      /\ strand' = Tail(strand)
      /\ UNCHANGED <<pc, dir, io, staged, opened, todo, item, rsrc, s_dir,
                     reply>>
  BY DEF EraseAnswered, Idle, Control, thread_vars
<1>3. /\ j.path \in Path
      /\ dir[j.path] # None /\ dir[j.path].synced = "indeterminate"
      /\ ~ToBeSettled(j.path)
      /\ \A t \in Task : t.path = j.path => io[t] = 0 /\ staged[t] = 0
  BY <1>1, <1>2, HeadOfStrand
<1>4. /\ Alone(q)'
      /\ \A k \in Queued' : k \in Queued
      /\ \A k \in Queued' : k.path # j.path
      /\ j.path # q => Pending(q)' = Pending(q)
  BY <1>1, <1>2, QueueTaken
<1>5. /\ ToBeSettled(q)' = ToBeSettled(q) /\ Locked(q)' /\ Purged(q)'
  BY <1>2, <1>4, QueuedKept
  DEF ToBeSettled, Locked, Purged, InBag
<1>6. CASE q = j.path
  <2>1. Fitting(q)'
    <3>1. \A t \in Task : t.path = q => Copies(t)' = 0
      BY <1>2, <1>3, <1>6 DEF Copies
    <3> QED
      BY <1>4, <1>6, <3>1, QueuedKept
      DEF Fitting
  <2>2. Accurate(q)' /\ Dropped(q)' /\ Visited(q)'
    BY <1>2, <1>3, <1>5, <1>6
    DEF Accurate, Dropped, contains, Visited, Syncing, AtItem
  <2> QED
    BY <1>4, <1>5, <2>1, <2>2
<1>7. CASE q # j.path
  <2>1. server'[q] = server[q]
    BY <1>1, <1>7 DEF Processed, TypeOK, Store
  <2>2. Fitting(q)'
    BY <1>2, <1>4, <2>1, QueuedKept
    DEF Fitting, Fits, Copies
  <2>3. Accurate(q)' /\ Dropped(q)' /\ Visited(q)'
    BY <1>2, <1>4, <1>5, <1>7, <2>1
    DEF Accurate, Dropped, contains, Visited, Syncing, AtItem
  <2> QED
    BY <1>4, <1>5, <2>2, <2>3
<1> QED
  BY <1>6, <1>7

\* A handler reads the entry of its request, which is there.
LEMMA CalmHandleLookup ==
  ASSUME TypeOK, TypeOK', Control, HandleLookup, NEW q \in Path,
         \A p \in Path : Consistent(p)
  PROVE  Consistent(q)' /\ UNCHANGED status
<1>1. strand # <<>> /\ dir[Head(strand).path] # None
  BY HeadOfStrand DEF HandleLookup, Control
<1>2. /\ pc'["strand"] = "assign" /\ pc'["main"] = pc["main"]
      /\ rsrc'["strand"] = dir[Head(strand).path]
      /\ UNCHANGED <<server, dir, io, staged, opened, strand, todo, item, s_dir, reply,
                     status>>
  BY <1>1 DEF HandleLookup, contains, Goto, TypeOK, Thread
<1> QED
  BY <1>2, QueuedKept
  DEF Consistent, ToBeSettled, Alone, AloneInBag, AloneInQueue, Copies, OnStrand, Built, Locked,
      Fitting, Fits, Accurate, Dropped, contains, Visited, Syncing, AtItem,
      Pending, InBag, Purged

\* A handler replaces the mark of its request: the new entry describes what the
\* server holds, whether it has accepted the request or not.
LEMMA CalmHandleAssign ==
  ASSUME TypeOK, TypeOK', Control, Faultless, HandleAssign, NEW q \in Path,
         \A p \in Path : Consistent(p)
  PROVE  Consistent(q)'
<1> USE DEF Consistent
<1>1. PICK j : j = Head(strand)
  OBVIOUS
<1>2. /\ strand # <<>> /\ pc["strand"] = "assign" /\ j.op # "ERASE"
      /\ dir' = [dir EXCEPT ![j.path] = Handled(j.op, rsrc["strand"], reply)]
      /\ strand' = Tail(strand)
      /\ reply' = "nullopt" /\ reply \in Reply \ {"STALE"}
      /\ pc'["strand"] = "post" /\ pc'["main"] = pc["main"]
      /\ UNCHANGED <<server, io, staged, opened, todo, item, s_dir>>
  BY <1>1
  DEF HandleAssign, Control, Faultless, insert_or_assign, Goto, TypeOK, Thread
<1>3. /\ j \in Job /\ j \in Queued /\ j.path \in Path
      /\ dir[j.path] = Scheduled(j) /\ ~ToBeSettled(j.path)
      /\ \A t \in Task : t.path = j.path => io[t] = 0 /\ staged[t] = 0
  BY <1>1, <1>2, HeadOfStrand
<1>4. /\ Alone(q)'
      /\ \A k \in Queued' : k \in Queued
      /\ \A k \in Queued' : k.path # j.path
      /\ j.path # q => Pending(q)' = Pending(q)
  BY <1>1, <1>2, QueueTaken
<1>5. ToBeSettled(q)' = ToBeSettled(q) /\ Purged(q)'
  BY <1>2 DEF ToBeSettled, Purged, InBag
<1>6. CASE q = j.path
  <2> DEFINE r == Handled(j.op, Scheduled(j), reply)
  <2>1. /\ r \in Resource /\ r.synced # "indeterminate"
        /\ r.synced = "true" => reply = "OK"
        /\ r.exist_on_server = (reply = "OK" \/ j.op = "UPDATE")
        /\ r.digest = j.digest
    BY <1>2, <1>3, HandledJob
  <2>2. dir'[q] = r
    <3>1. rsrc["strand"] = Scheduled(j)
      BY <1>1, <1>2, <1>3, QueuedKept
      DEF Locked
    <3> QED
      BY <1>2, <1>6, <3>1 DEF TypeOK, Content
  <2> HIDE DEF r
  <2>3. /\ reply = "OK" => server[q] = j.digest
        /\ reply # "OK" => Fits(j)
    BY <1>1, <1>3, <1>6, QueuedKept
    DEF Fitting
  <2>4. j.digest # None /\ j.op \in {"CREATE", "UPDATE"}
    BY <1>2, <1>3, TaskFields, NoneIsNotADigest DEF Op
  <2>5. r.exist_on_server <=> server[q] # None
    BY <1>6, <2>1, <2>3, <2>4 DEF Fits
  <2>6. Accurate(q)'
    <3>1. r.exist_on_server = (server[q] # None)
      BY <2>1, <2>5, ResourceFields
    <3>2. r.synced = "true" => server[q] = r.digest
      BY <2>1, <2>3
    <3> QED
      BY <1>2, <2>2, <3>1, <3>2 DEF Accurate
  <2>7. Dropped(q)'
    BY <2>1, <2>2, ResourceFields DEF Dropped, contains
  <2>8. Locked(q)'
    BY <1>2, <1>3, <1>4, <1>6, BagCounts, QueuedKept
    DEF Locked, TypeOK
  <2>9. Fitting(q)'
    <3>1. \A t \in Task : t.path = q => Copies(t)' = 0
      BY <1>2, <1>3, <1>6 DEF Copies
    <3> QED
      BY <1>4, <1>6, <3>1, QueuedKept
      DEF Fitting
  <2>10. Visited(q)'
    BY <1>2, <1>3, <1>5, <1>6 DEF Visited, Syncing, AtItem
  <2> QED
    BY <1>4, <1>5, <2>6, <2>7, <2>8, <2>9, <2>10
<1>7. CASE q # j.path
  <2>1. dir'[q] = dir[q]
    BY <1>2, <1>7 DEF TypeOK, Content
  <2>2. Locked(q)' /\ Accurate(q)' /\ Dropped(q)'
    BY <1>2, <1>4, <1>5, <2>1, QueuedKept
    DEF Locked, Accurate, Dropped, contains
  <2>3. Fitting(q)'
    BY <1>1, <1>2, <1>4, <1>7, QueuedKept
    DEF Fitting, Fits, Copies
  <2>4. Visited(q)'
    BY <1>2, <1>4, <1>5, <1>7 DEF Visited, Syncing, AtItem
  <2> QED
    BY <1>4, <1>5, <2>2, <2>3, <2>4
<1> QED
  BY <1>6, <1>7

-----------------------------------------------------------------------------
\* The theorems.

\* The steps that the absence of faults leaves to the two threads.
CalmMain == \/ SyncRequest("main") \/ SyncItem("main") \/ SyncCompare("main")
            \/ SyncThrow("main") \/ SyncConfirm("main") \/ SyncCreate("main")
            \/ BeginPurge \/ PurgeEntry \/ BeginScan
            \/ ScanFile \/ OpenFile \/ HashFile \/ Decide \/ EndScan

CalmConnection == \/ Answered \/ Unreadable \/ EraseAnswered
                  \/ HandleLookup \/ HandleAssign

LEMMA CalmSteps ==
  ASSUME Calm, TypeOK, Faultless, [Next]_vars
  PROVE  \/ \E p \in Path : Edit(p)
         \/ CalmMain
         \/ \E t \in Task : RunTask(t) \/ OpenRequest(t) \/ PostRequest(t)
         \/ CalmConnection
         \/ UNCHANGED vars
<1>1. ~Fault
  BY DEF Fault, TypeOK, Calm
<1>2. Main => CalmMain
  BY <1>1 DEF Main, Sync, Reconnect, Faultless, WalkFails, CalmMain
<1>3. Connection => CalmConnection
  BY <1>1
  DEF Connection, Sync, Reconnect, SyncRequest, SyncItem, SyncCompare,
      SyncThrow, SyncConfirm, SyncCreate, Refused, Interrupted, Faultless,
      CalmConnection
<1> QED
  BY <1>2, <1>3 DEF Next, Pool, Ended

\* Every step leaves the paths consistent.
LEMMA ConsistentStep ==
  ASSUME Calm, CalmInv, TypeOK', [Next]_vars, NEW q \in Path
  PROVE  Consistent(q)'
<1> USE DEF CalmInv
<1>1. /\ TypeOK /\ Control /\ Faultless /\ PoolKeepsUp /\ MaxFaults = 0
      /\ Consistent(q)
  BY DEF Calm
<1>2. ASSUME UNCHANGED <<server, dir, io, staged, opened, strand, pc, todo, item,
                         rsrc, s_dir, reply>>
      PROVE  Consistent(q)'
  BY <1>1, <1>2, QueuedKept
  DEF Consistent, ToBeSettled, Alone, AloneInBag, AloneInQueue, Copies, OnStrand, Built, Locked,
      Fitting, Fits, Accurate, Dropped, contains, Visited, Syncing, AtItem,
      Pending, InBag, Purged
<1>3. ASSUME NEW p \in Path, Edit(p) PROVE Consistent(q)'
  BY <1>2, <1>3 DEF Edit, thread_vars
<1>4. CASE SyncRequest("main")
  BY <1>1, <1>4, CalmSyncRequest
<1>5. CASE SyncItem("main")
  BY <1>1, <1>5, CalmSyncItem
<1>6. CASE SyncCompare("main")
  BY <1>1, <1>6, CalmSyncCompare
<1>7. CASE SyncThrow("main")
  BY <1>2, <1>7 DEF SyncThrow, Exit
<1>8. CASE SyncConfirm("main")
  BY <1>1, <1>8, CalmSyncConfirm
<1>9. CASE SyncCreate("main")
  BY <1>1, <1>9, CalmSyncCreate
<1>10. CASE BeginPurge
  BY <1>1, <1>10, CalmBeginPurge
<1>11. CASE PurgeEntry
  BY <1>1, <1>11, CalmPurgeEntry
<1>12. CASE BeginScan
  <2>1. /\ Others /\ UNCHANGED io /\ pc["main"] = "purge"
        /\ pc'["main"] = "scan"
    BY <1>1, <1>12 DEF BeginScan, Others, Goto, TypeOK, Thread
  <2> QED
    BY <1>1, <2>1, CalmWalk
<1>13. CASE ScanFile
  <2>1. /\ Others /\ UNCHANGED io /\ pc["main"] = "scan"
        /\ pc'["main"] \in {"scan", "hash"}
    BY <1>1, <1>13 DEF ScanFile, Others, Goto, TypeOK, Thread
  <2> QED
    BY <1>1, <2>1, CalmWalk
<1>14. CASE OpenFile \/ HashFile
  <2>1. /\ Others /\ UNCHANGED io /\ pc["main"] \in {"hash", "read"}
        /\ pc'["main"] \in {"hash", "read", "decide"}
    BY <1>1, <1>14
    DEF OpenFile, HashFile, Others, Goto, Exit, TypeOK, Thread
  <2> QED
    BY <1>1, <2>1, CalmWalk
<1>15. CASE Decide
  BY <1>1, <1>15, CalmDecide
<1>16. CASE EndScan
  <2>1. /\ Others /\ UNCHANGED io /\ pc["main"] = "scan"
        /\ pc'["main"] = "sleep"
    BY <1>1, <1>16 DEF EndScan, Others, Goto, TypeOK, Thread, thread_vars
  <2> QED
    BY <1>1, <2>1, CalmWalk
<1>17. ASSUME NEW t \in Task, RunTask(t) PROVE Consistent(q)'
  BY <1>1, <1>17, CalmRunTask
<1>18. ASSUME NEW t \in Task, PostRequest(t) PROVE Consistent(q)'
  BY <1>1, <1>18, CalmPostRequest
<1>25. ASSUME NEW t \in Task, OpenRequest(t) PROVE Consistent(q)'
  BY <1>1, <1>25, CalmOpenRequest
<1>19. CASE Answered
  BY <1>1, <1>19, CalmAnswered
<1>20. CASE Unreadable
  BY <1>1, <1>20, CalmUnreadable
<1>21. CASE EraseAnswered
  BY <1>1, <1>21, CalmEraseAnswered
<1>22. CASE HandleLookup
  BY <1>1, <1>22, CalmHandleLookup
<1>23. CASE HandleAssign
  BY <1>1, <1>23, CalmHandleAssign
<1>24. CASE UNCHANGED vars
  BY <1>2, <1>24 DEF vars
<1> QED
  BY <1>1, <1>3, <1>4, <1>5, <1>6, <1>7, <1>8, <1>9, <1>10, <1>11, <1>12,
     <1>13, <1>14, <1>15, <1>16, <1>17, <1>18, <1>19, <1>20, <1>21, <1>22,
     <1>23, <1>24, <1>25, CalmSteps
  DEF CalmMain, CalmConnection

\* No thread ever reconnects, and no handler ends the process.
LEMMA FaultlessStep ==
  ASSUME Calm, CalmInv, [Next]_vars
  PROVE  Faultless' /\ HandlerFindsEntry'
<1> USE DEF CalmInv
<1> DEFINE Goal == Faultless' /\ HandlerFindsEntry'
<1>1. ASSUME UNCHANGED <<strand, status, reply>>, pc'["main"] # "reconnect",
             pc'["strand"] = pc["strand"]
      PROVE  Goal
  BY <1>1 DEF Faultless, HandlerFindsEntry
<1>2. ASSUME NEW p \in Path, Edit(p) PROVE Goal
  BY <1>1, <1>2 DEF Edit, Faultless
<1>3. CASE CalmMain
  <2>1. ~Fault
    BY DEF Fault, TypeOK, Calm
  <2>2. UNCHANGED <<strand, reply>> /\ pc'["main"] # "reconnect"
        /\ pc'["strand"] = pc["strand"]
    BY <1>3, <2>1
    DEF CalmMain, SyncRequest, SyncItem, SyncCompare, SyncThrow, SyncConfirm,
        SyncCreate, BeginPurge, PurgeEntry, BeginScan, ScanFile, OpenFile,
        HashFile, Decide, EndScan, Goto, Exit, Faultless, TypeOK, Thread, thread_vars
  <2>3. status' = status \/ status' # "handler"
    BY <1>3
    DEF CalmMain, SyncRequest, SyncItem, SyncCompare, SyncThrow, SyncConfirm,
        SyncCreate, BeginPurge, PurgeEntry, BeginScan, ScanFile, OpenFile,
        HashFile, Decide, EndScan, Exit
  <2> QED
    BY <2>2, <2>3 DEF Faultless, HandlerFindsEntry
<1>4. ASSUME NEW t \in Task, RunTask(t) PROVE Goal
  BY <1>1, <1>4 DEF RunTask, Faultless
<1>5. ASSUME NEW t \in Task, PostRequest(t) PROVE Goal
  <2>1. PICK j \in Job : strand' = Append(strand, j)
    BY <1>5, RequestType DEF PostRequest
  <2>2. strand # <<>> => Head(strand') = Head(strand)
    BY <2>1, QueueAppend DEF TypeOK
  <2> QED
    BY <1>5, <2>2 DEF PostRequest, Faultless, HandlerFindsEntry, Control
<1>12. ASSUME NEW t \in Task, OpenRequest(t) PROVE Goal
  BY <1>1, <1>12 DEF OpenRequest, Faultless
<1>6. CASE Answered
  BY <1>6
  DEF Answered, Goto, Faultless, HandlerFindsEntry, TypeOK, Thread
<1>7. CASE Unreadable
  BY <1>7
  DEF Unreadable, Goto, Faultless, HandlerFindsEntry, TypeOK, Thread
<1>8. CASE EraseAnswered
  BY <1>8 DEF EraseAnswered, Idle, Faultless, HandlerFindsEntry
<1>9. CASE HandleLookup
  <2>1. contains(dir, Head(strand).path)
    BY <1>9, HeadOfStrand DEF HandleLookup, Control, contains
  <2> QED
    BY <1>9, <2>1
    DEF HandleLookup, Goto, Faultless, HandlerFindsEntry, TypeOK, Thread
<1>10. CASE HandleAssign
  BY <1>10
  DEF HandleAssign, Goto, Faultless, HandlerFindsEntry, TypeOK, Thread
<1>11. CASE UNCHANGED vars
  BY <1>1, <1>11 DEF vars, Faultless
<1> QED
  BY <1>2, <1>3, <1>4, <1>5, <1>6, <1>7, <1>8, <1>9, <1>10, <1>11,
     <1>12, CalmSteps
  DEF CalmConnection

\* The invariant holds when file_watcher has been constructed.
LEMMA InitCalmInv == Init => CalmInv
<1> SUFFICES ASSUME Init PROVE CalmInv
  OBVIOUS
<1>1. TypeOK /\ Control
  BY InitIInv DEF IInv
<1>2. Faultless /\ HandlerFindsEntry
  BY DEF Init, Faultless, HandlerFindsEntry, Thread
<1>3. ASSUME NEW q \in Path PROVE Consistent(q)
  <2>1. /\ \A t \in Task : io[t] = 0 /\ staged[t] = 0 /\ Copies(t) = 0
        /\ strand = <<>> /\ Len(strand) = 0 /\ Queued = {}
        /\ \A j \in Job : opened[j] = 0
        /\ pc["main"] = "sync" /\ pc["strand"] = "post"
        /\ contains(dir, q) => dir[q].synced = "indeterminate"
    BY DEF Init, Copies, Queued, Range, Thread, contains
  <2>2. Alone(q) /\ Locked(q) /\ Fitting(q) /\ Accurate(q)
    BY <2>1, QueuedKept
    DEF Alone, AloneInBag, AloneInQueue, Locked, Fitting, Accurate
  <2>3. Dropped(q) /\ Visited(q) /\ Purged(q)
    BY <2>1, QueuedKept
    DEF Dropped, Visited, Purged, ToBeSettled, Syncing, AtItem, Pending,
        InBag, Built
  <2> QED
    BY <2>2, <2>3 DEF Consistent
<1> QED
  BY <1>1, <1>2, <1>3 DEF CalmInv

\* CalmInv is an invariant of a client whose pool keeps up with the watcher,
\* on a network and with a server free of faults.
THEOREM CalmInvariance == ASSUME Calm PROVE Spec => []CalmInv
<1>1. CalmInv /\ [Next]_vars => CalmInv'
  <2> SUFFICES ASSUME CalmInv, [Next]_vars PROVE CalmInv'
    OBVIOUS
  <2>1. TypeOK' /\ Control'
    BY TypeStep, ControlStep DEF CalmInv
  <2>2. Faultless' /\ HandlerFindsEntry'
    BY FaultlessStep
  <2>3. \A q \in Path : Consistent(q)'
    BY <2>1, ConsistentStep
  <2> QED
    BY <2>1, <2>2, <2>3 DEF CalmInv
<1> QED
  BY InitCalmInv, <1>1, PTL DEF Spec

\* The tribool is a lock: however the watcher, the pool and the strand are
\* interleaved, no path ever has two requests under way.
THEOREM RequestsAreAlone == ASSUME Calm PROVE Spec => []OneRequestPerPath
<1>1. CalmInv => OneRequestPerPath
  <2> SUFFICES ASSUME CalmInv, NEW p \in Path, NEW r \in Requests(p),
                      NEW s \in Requests(p)
               PROVE  r = s
    BY DEF OneRequestPerPath
  <2>1. Alone(p)
    BY DEF CalmInv, Consistent
  <2>2. \A t \in Task : io[t] \in Nat /\ staged[t] \in Nat
    BY BagCounts DEF CalmInv, TypeOK
  <2>3. \A x \in Requests(p) :
          \/ \E t \in Task : /\ t.path = p /\ io[t] = 1 /\ staged[t] = 0
                            /\ x = <<"io", t, 1>>
          \/ \E t \in Task : /\ t.path = p /\ io[t] = 0 /\ staged[t] = 1
                            /\ x = <<"staged", t, 1>>
          \/ \E j \in Job : /\ j.path = p /\ opened[j] > 0
                           /\ x = <<"opened", j, 1>>
          \/ \E i \in 1..Len(strand) : /\ strand[i].path = p
                                       /\ x = <<"strand", strand[i], i>>
    <3>1. \A j \in Job : opened[j] \in Nat
      BY DEF CalmInv, TypeOK, Bag
    <3> QED
      BY <2>1, <2>2, <3>1 DEF Requests, Alone, AloneInBag, Copies
  <2>4. /\ \A i \in 1..Len(strand) :
             strand[i].path = p => OnStrand(p) /\ Built(p)
        /\ \A j \in Job : j.path = p /\ opened[j] > 0
             => /\ Built(p) /\ ~OnStrand(p)
                /\ \A k \in Job : k.path = p /\ opened[k] > 0 => j = k
    BY <2>1, RangeEquality, QueuedKept
    DEF Alone, AloneInBag, OnStrand, Built, Queued, CalmInv, TypeOK
  <2>5. \A t, u \in Task :
          t.path = p /\ u.path = p /\ Copies(t) > 0 /\ Copies(u) > 0 => t = u
    BY <2>1 DEF Alone
  <2>6. \A t \in Task : t.path = p /\ Copies(t) > 0 => ~Built(p)
    BY <2>1 DEF Alone
  <2>7. \A i, k \in 1..Len(strand) :
          strand[i].path = p /\ strand[k].path = p => i = k
    BY <2>1 DEF Alone, AloneInQueue
  <2> QED
    BY <2>3, <2>4, <2>5, <2>6, <2>7 DEF Copies
<1> QED
  BY <1>1, CalmInvariance, PTL

\* What the map says is synced is what the server stores.
THEOREM SyncedEntriesAreStored == ASSUME Calm PROVE Spec => []SyncedIsStored
<1>1. ASSUME CalmInv, NEW p \in Path, contains(dir, p),
             dir[p].synced = "true"
      PROVE  server[p] = dir[p].digest
  BY <1>1 DEF CalmInv, Consistent, Accurate
<1>2. CalmInv => SyncedIsStored
  BY <1>1 DEF SyncedIsStored
<1> QED
  BY <1>2, CalmInvariance, PTL

\* The watcher chooses CREATE, UPDATE or ERASE, or drops an entry, by a flag
\* that tells what the server holds.
THEOREM ExistenceIsKnown ==
  ASSUME Calm PROVE Spec => []ExistOnServerIsAccurate
<1>1. ASSUME CalmInv, NEW p \in Path, contains(dir, p),
             dir[p].synced # "indeterminate"
      PROVE  dir[p].exist_on_server <=> server[p] # None
  BY <1>1 DEF CalmInv, Consistent, Accurate
<1>2. CalmInv => ExistOnServerIsAccurate
  BY <1>1 DEF ExistOnServerIsAccurate
<1> QED
  BY <1>2, CalmInvariance, PTL

\* No handler ends the process because its entry is gone.
THEOREM HandlersFindEntries == ASSUME Calm PROVE Spec => []HandlerFindsEntry
<1>1. CalmInv => HandlerFindsEntry
  BY DEF CalmInv
<1> QED
  BY <1>1, CalmInvariance, PTL
=============================================================================
