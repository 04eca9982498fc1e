---------------------------- MODULE BackupClient ----------------------------
(***************************************************************************)
(* The running backup client: the main thread (the file_watcher loop), the *)
(* io_context thread pool that executes the closures of scheduler::create, *)
(* update and erase, and the strand of the connection, on which one        *)
(* request at a time is exchanged with the server.  They share the watched *)
(* directory's map (directory::dir), each access to which takes its mutex. *)
(*                                                                         *)
(*    file_watcher / sync --post--> io --insert_or_assign--> staged        *)
(*         ^                                                    |          *)
(*         | reads                                         async_post      *)
(*         |                                                    v          *)
(*        dir <-------------- handle_* <---- server <------- strand        *)
(*                                                                         *)
(* A lost connection is repaired on the thread that noticed it, by         *)
(* scheduler::reconnect, which runs scheduler::sync again; sync may thus   *)
(* run on the main thread and on the strand.                               *)
(***************************************************************************)
EXTENDS BackupServer, Sequences, FiniteSets, Functions

CONSTANTS Unsendable,   \* contents whose last chunk leaves no room for the
                        \* END segment: f_message throws (see FMessage)
          MaxEdits,     \* bound: changes the user makes to the files
          MaxFaults,    \* bound: failures of network, server, file system
          MaxPending,   \* bound: the watcher posts only below this backlog
          PoolKeepsUp   \* TRUE: a closure posted for a path has assigned its
                        \* entry before the watcher looks at that path again

ASSUME UnsendableAssumption == Unsendable \subseteq Digest

ASSUME BoundsAssumption ==
  /\ MaxEdits \in Nat /\ MaxFaults \in Nat /\ MaxPending \in Nat \ {0}
  /\ PoolKeepsUp \in BOOLEAN

VARIABLES
  fs,        \* [Path -> Digest or None]: the files on disk
  seen,      \* history: every content (None: no file) a path has had since
             \* the client scanned the directory at startup
  server,    \* [Path -> Digest or None]: what the server stores
  dir,       \* content_ of the watched directory::dir
  io,        \* bag of closures posted to the io_context and not yet started
  staged,    \* bag of closures that have assigned the entry and have not yet
             \* built the request
  opened,    \* bag of requests built (the f_message has opened its file) and
             \* not yet passed to async_post
  strand,    \* queue of requests posted to the strand; the head is the one
             \* being executed when pc["strand"] # "post"
  pc,        \* what the main thread and the strand are about to do
  todo,      \* per thread: paths the loop it is in has still to visit
  item,      \* per thread: the path the loop body is at
  rsrc,      \* per thread: the local copy of a directory entry
  s_dir,     \* per thread: the server's directory, as listed by SYNC
  digest,    \* main: the MD5 of the file it is at, while it is computed
  reply,     \* strand: the answer to the request at the head
  misled,    \* history: paths whose entry was last marked as synced by a
             \* stale answer
  status,    \* "running", or why the process has ended
  edits, faults

user_vars   == <<fs, seen, edits>>
thread_vars == <<todo, item, rsrc, s_dir, digest>>
vars == <<fs, seen, server, dir, io, staged, opened, strand, pc, todo, item,
          rsrc, s_dir, digest, reply, misled, status, edits, faults>>

Thread == {"main", "strand"}

\* A request on the strand: the closure's data and the content of the file
\* when f_message opened it (None: no such file, or an ERASE).
Job == [op : Op, path : Path, digest : Digest, body : Digest \cup {None}]

request(t, b) ==
  [op |-> t.op, path |-> t.path, digest |-> t.digest, body |-> b]

\* Bags of closures and of requests.
Bag(S) == [S -> Nat]
Put(bag, S) == [t \in DOMAIN bag |-> IF t \in S THEN bag[t] + 1 ELSE bag[t]]
Take(bag, t) == [bag EXCEPT ![t] = @ - 1]

\* The requests that have been built, in no order.
Queued == {j \in Job : opened[j] > 0} \cup Range(strand)

Running == status = "running"
Goto(th, l) == pc' = [pc EXCEPT ![th] = l]
Exit(reason) == status' = reason /\ UNCHANGED pc

\* A fault is one of the bounded number of things the network, the server or
\* the file system does wrong.
Fault == faults < MaxFaults /\ faults' = faults + 1

\* dir::for_each holds the directory's mutex while the watcher purges.
Unlocked == pc["main"] # "purge"

\* A closure for path p waits in the bag.
InBag(bag, p) == \E t \in Task : t.path = p /\ bag[t] > 0

Backlog == Len(strand)
  + Cardinality(UNION {{<<t, i>> : i \in 1..io[t]} : t \in Task})
  + Cardinality(UNION {{<<t, i>> : i \in 1..staged[t]} : t \in Task})
  + Cardinality(UNION {{<<t, i>> : i \in 1..opened[t]} : t \in Job})

-----------------------------------------------------------------------------
\* Operators named M_... are faulty variants of the definition they precede;
\* the specification does not use them.

\* The constructor of file_watcher: every file on disk gets an entry.
Init ==
  /\ fs \in [Path -> Digest \cup {None}]
  /\ seen = [p \in Path |-> {fs[p]}]
  /\ server \in Store
  /\ dir = [p \in Path |->
              IF fs[p] = None THEN None
              ELSE [synced |-> "indeterminate", exist_on_server |-> FALSE,
                    digest |-> fs[p]]]
  /\ io = [t \in Task |-> 0]
  /\ staged = [t \in Task |-> 0]
  /\ opened = [j \in Job |-> 0]
  /\ strand = <<>>
  /\ pc = [th \in Thread |-> IF th = "main" THEN "sync" ELSE "post"]
  /\ todo = [th \in Thread |-> {}]
  /\ item = [th \in Thread |-> None]
  /\ rsrc = [th \in Thread |-> None]
  /\ s_dir = [th \in Thread |-> [p \in Path |-> None]]
  /\ digest = None
  /\ reply = "nullopt"
  /\ misled = {}
  /\ status = "running"
  /\ edits = 0
  /\ faults = 0

-----------------------------------------------------------------------------
\* The user creates, changes or removes a file.
Edit(p) ==
  /\ Running
  /\ edits < MaxEdits
  /\ \E d \in (Digest \cup {None}) \ {fs[p]} :
       /\ fs' = [fs EXCEPT ![p] = d]
       /\ seen' = [seen EXCEPT ![p] = @ \cup {d}]
  /\ edits' = edits + 1
  /\ UNCHANGED <<server, dir, io, staged, opened, strand, pc, thread_vars,
                 reply, misled, status, faults>>

-----------------------------------------------------------------------------
\* scheduler::reconnect up to its call of sync: connect until the server
\* accepts, then authenticate again; the process exits when the handshake
\* fails, the connection is lost again, or neither auth nor login succeeds.
Reconnect(th) ==
  /\ Running
  /\ pc[th] = "reconnect"
  /\ \/ Goto(th, "sync") /\ UNCHANGED <<status, faults>>
     \/ Exit("auth") /\ Fault
  /\ UNCHANGED <<user_vars, server, dir, io, staged, opened, strand,
                 thread_vars, reply, misled>>

\* scheduler::sync, the exchange: the listing, a lost connection, or an exit.
SyncRequest(th) ==
  /\ Running
  /\ pc[th] = "sync"
  /\ \/ /\ s_dir' = [s_dir EXCEPT ![th] = server]
        /\ todo' = [todo EXCEPT ![th] = Listed(server)]
        /\ Goto(th, "items")
        /\ UNCHANGED <<status, faults>>
     \/ Fault /\ Goto(th, "reconnect") /\ UNCHANGED <<s_dir, todo, status>>
     \/ Fault /\ Exit("sync") /\ UNCHANGED <<s_dir, todo>>
  /\ UNCHANGED <<user_vars, server, dir, io, staged, opened, strand, item,
                 rsrc, digest, reply, misled>>

\* The loop over the listing, at an item: contains(), then erase or go on.
SyncItem(th) ==
  /\ Running
  /\ pc[th] = "items"
  /\ th = "strand" => Unlocked
  /\ \E p \in todo[th] :
       /\ todo' = [todo EXCEPT ![th] = @ \ {p}]
       /\ IF contains(dir, p)
          THEN /\ item' = [item EXCEPT ![th] = p]
               /\ Goto(th, "value")
               /\ UNCHANGED io
          ELSE /\ io' = Put(io, {task("ERASE", p, s_dir[th][p])})
               /\ UNCHANGED <<item, pc>>
  /\ UNCHANGED <<user_vars, server, dir, staged, opened, strand, rsrc, s_dir,
                 digest, reply, misled, status, faults>>

\* rsrc(path).value() and the comparison of the digests.
SyncCompare(th) ==
  /\ Running
  /\ pc[th] = "value"
  /\ th = "strand" => Unlocked
  /\ contains(dir, item[th])
  /\ LET p == item[th] IN
     IF dir[p].digest # s_dir[th][p]
     THEN /\ io' = Put(io, {task("UPDATE", p, dir[p].digest)})
          /\ item' = [item EXCEPT ![th] = None]
          /\ Goto(th, "items")
          /\ UNCHANGED rsrc
     ELSE /\ rsrc' = [rsrc EXCEPT ![th] = dir[p]]
          /\ Goto(th, "confirm")
          /\ UNCHANGED <<io, item>>
  /\ UNCHANGED <<user_vars, server, dir, staged, opened, strand, todo, s_dir,
                 digest, reply, misled, status, faults>>

\* value() on an entry erased since contains(): std::bad_optional_access.  On
\* the strand, async_post of an f_message catches it and calls the handler
\* with no response; nothing catches it in async_post of a message (ERASE).
SyncThrow(th) ==
  /\ Running
  /\ pc[th] = "value"
  /\ th = "strand" => Unlocked
  /\ ~contains(dir, item[th])
  /\ IF th = "main" \/ Head(strand).op = "ERASE"
     THEN /\ Exit("bad_optional_access")
          /\ UNCHANGED <<todo, item, s_dir, reply>>
     ELSE /\ Goto(th, "handle")
          /\ reply' = "nullopt"
          /\ todo' = [todo EXCEPT ![th] = {}]
          /\ item' = [item EXCEPT ![th] = None]
          /\ s_dir' = [s_dir EXCEPT ![th] = [p \in Path |-> None]]
          /\ UNCHANGED status
  /\ UNCHANGED <<user_vars, server, dir, io, staged, opened, strand, rsrc,
                 digest, misled, faults>>

\* insert_or_assign of the copy, marked as synced.
SyncConfirm(th) ==
  /\ Running
  /\ pc[th] = "confirm"
  /\ th = "strand" => Unlocked
  /\ dir' = insert_or_assign(dir, item[th], Confirmed(rsrc[th]))
  /\ misled' = misled \ {item[th]}
  /\ item' = [item EXCEPT ![th] = None]
  /\ rsrc' = [rsrc EXCEPT ![th] = None]
  /\ Goto(th, "items")
  /\ UNCHANGED <<user_vars, server, io, staged, opened, strand, todo, s_dir,
                 digest, reply, status, faults>>

\* After the listing: create every entry the server does not hold, then
\* return, to the watcher's loop or to async_post, which calls the handler.
SyncCreate(th) ==
  /\ Running
  /\ pc[th] = "items"
  /\ todo[th] = {}
  /\ th = "strand" => Unlocked
  /\ io' = Put(io, {t \in Task : /\ t.op = "CREATE"
                                 /\ contains(dir, t.path)
                                 /\ s_dir[th][t.path] = None
                                 /\ t.digest = dir[t.path].digest})
  /\ s_dir' = [s_dir EXCEPT ![th] = [p \in Path |-> None]]
  /\ Goto(th, IF th = "main" THEN "sleep" ELSE "handle")
  /\ UNCHANGED <<user_vars, server, dir, staged, opened, strand, todo, item,
                 rsrc, digest, reply, misled, status, faults>>

Sync(th) == \/ Reconnect(th) \/ SyncRequest(th) \/ SyncItem(th)
            \/ SyncCompare(th) \/ SyncThrow(th) \/ SyncConfirm(th)
            \/ SyncCreate(th)

-----------------------------------------------------------------------------
\* The assumption PoolKeepsUp, where the watcher is about to look at p's
\* entry, and the bound on the backlog, where it is about to go on.
Settled(p) == PoolKeepsUp => ~InBag(io, p)
Room == Backlog < MaxPending

\* file_watcher::start, the loop.  A cycle begins after the sleep, with
\* for_each over the entries present, under the directory's mutex.
BeginPurge ==
  /\ Running
  /\ pc["main"] = "sleep"
  /\ Room /\ \A p \in Path : Settled(p)
  /\ todo' = [todo EXCEPT !["main"] = {p \in Path : contains(dir, p)}]
  /\ Goto("main", "purge")
  /\ UNCHANGED <<user_vars, server, dir, io, staged, opened, strand, item,
                 rsrc, s_dir, digest, reply, misled, status, faults>>

M_KeepIndeterminate(p) == dir[p].synced = "indeterminate"
M_KeepKnown(p) ==
  fs[p] # None \/ (dir[p].synced = "indeterminate" /\ dir[p].exist_on_server)

\* What the purge leaves alone.
Kept(p) == fs[p] # None \/ dir[p].synced = "indeterminate"

\* The callback of for_each, at one entry: a file that is gone is erased from
\* the server, or dropped from the map when the server does not have it.
PurgeEntry ==
  /\ Running
  /\ pc["main"] = "purge"
  /\ \E p \in todo["main"] :
       /\ todo' = [todo EXCEPT !["main"] = @ \ {p}]
       /\ IF Kept(p)
          THEN UNCHANGED <<io, dir>>
          ELSE IF dir[p].exist_on_server
          THEN /\ io' = Put(io, {task("ERASE", p, dir[p].digest)})
               /\ UNCHANGED dir
          ELSE /\ dir' = erase(dir, p)
               /\ UNCHANGED io
  /\ UNCHANGED <<user_vars, server, staged, opened, strand, pc, item, rsrc,
                 s_dir, digest, reply, misled, status, faults>>

\* for_each returns and the walk over the files on disk begins.
BeginScan ==
  /\ Running
  /\ pc["main"] = "purge"
  /\ todo["main"] = {}
  /\ todo' = [todo EXCEPT !["main"] = Path]
  /\ Goto("main", "scan")
  /\ UNCHANGED <<user_vars, server, dir, io, staged, opened, strand, item,
                 rsrc, s_dir, digest, reply, misled, status, faults>>

\* The directory iterator is at path p; is_regular_file() may say no.
ScanFile ==
  /\ Running
  /\ pc["main"] = "scan"
  /\ Room
  /\ \E p \in todo["main"] :
       /\ todo' = [todo EXCEPT !["main"] = @ \ {p}]
       /\ IF fs[p] = None
          THEN UNCHANGED <<item, pc>>
          ELSE item' = [item EXCEPT !["main"] = p] /\ Goto("main", "hash")
  /\ UNCHANGED <<user_vars, server, dir, io, staged, opened, strand, rsrc,
                 s_dir, digest, reply, misled, status, faults>>

\* The walk fails: exists(), the directory iterator or is_regular_file() throws
\* a filesystem_error, which main catches, and exits.
WalkFails ==
  /\ Running
  /\ pc["main"] \in {"purge", "scan"}
  /\ Fault
  /\ Exit("filesystem_error")
  /\ UNCHANGED <<user_vars, server, dir, io, staged, opened, strand,
                 thread_vars, reply, misled>>

\* tools::MD5_hash opens the file.  When it is gone since is_regular_file() or
\* cannot be opened, tellg() is -1 and the buffer's constructor throws; main
\* catches it and exits.
OpenFile ==
  /\ Running
  /\ pc["main"] = "hash"
  /\ \/ /\ fs[item["main"]] # None
        /\ digest' = fs[item["main"]]
        /\ Goto("main", "read")
        /\ UNCHANGED <<status, faults>>
     \/ fs[item["main"]] = None /\ Exit("length_error")
          /\ UNCHANGED <<digest, faults>>
     \/ Fault /\ Exit("length_error") /\ UNCHANGED digest
  /\ UNCHANGED <<user_vars, server, dir, io, staged, opened, strand, todo,
                 item, rsrc, s_dir, reply, misled>>

\* It reads the file and computes the digest: of what it has opened, or, when
\* the file has changed since, of some mixture of contents.
HashFile ==
  /\ Running
  /\ pc["main"] = "read"
  /\ digest' \in IF fs[item["main"]] = digest THEN {digest} ELSE Digest
  /\ Goto("main", "decide")
  /\ UNCHANGED <<user_vars, server, dir, io, staged, opened, strand, todo,
                 item, rsrc, s_dir, reply, misled, status, faults>>

Upload(e) == IF e # None /\ e.exist_on_server THEN "UPDATE" ELSE "CREATE"

M_WatcherTaskWhileWaiting(p, e, d) ==
  IF e # None /\ e.synced = "true" /\ e.digest = d THEN {}
  ELSE {task(Upload(e), p, d)}
M_WatcherTaskNoUpdate(p, e, d) ==
  IF e # None /\ e.synced # "false" THEN {} ELSE {task(Upload(e), p, d)}
M_WatcherTaskNoRetry(p, e, d) ==
  IF e # None /\ (e.synced # "true" \/ e.digest = d) THEN {}
  ELSE {task(IF e = None THEN "CREATE" ELSE "UPDATE", p, d)}

\* What the loop body posts for a file with digest d whose entry is e.
WatcherTask(p, e, d) ==
  CASE e = None                     -> {task("CREATE", p, d)}
    [] e # None /\ e.synced = "true"  -> IF e.digest = d THEN {}
                                        ELSE {task("UPDATE", p, d)}
    [] e # None /\ e.synced = "false" -> {task(Upload(e), p, d)}
    [] OTHER                        -> {}

\* contains() and rsrc() of the file's entry, and the operation they call for.
\* Only the main thread erases entries, so the two reads agree.
Decide ==
  /\ Running
  /\ pc["main"] = "decide"
  /\ LET p == item["main"]
         T == WatcherTask(p, dir[p], digest)
     IN /\ Settled(p)
        /\ io' = Put(io, T)
  /\ item' = [item EXCEPT !["main"] = None]
  /\ digest' = None
  /\ Goto("main", "scan")
  /\ UNCHANGED <<user_vars, server, dir, staged, opened, strand, todo, rsrc,
                 s_dir, reply, misled, status, faults>>

\* The walk is over: sleep for the refresh interval.
EndScan ==
  /\ Running
  /\ pc["main"] = "scan"
  /\ todo["main"] = {}
  /\ Goto("main", "sleep")
  /\ UNCHANGED <<user_vars, server, dir, io, staged, opened, strand,
                 thread_vars, reply, misled, status, faults>>

Main == \/ Sync("main")
        \/ BeginPurge \/ PurgeEntry \/ BeginScan
        \/ ScanFile \/ WalkFails \/ OpenFile \/ HashFile \/ Decide \/ EndScan

-----------------------------------------------------------------------------
\* A pool thread runs a closure of create, update or erase: first
\* insert_or_assign of the scheduled resource ...
RunTask(t) ==
  /\ Running
  /\ io[t] > 0
  /\ Unlocked
  /\ io' = Take(io, t)
  /\ staged' = Put(staged, {t})
  /\ dir' = insert_or_assign(dir, t.path, Scheduled(t))
  /\ UNCHANGED <<user_vars, server, opened, strand, pc, thread_vars, reply,
                 misled, status, faults>>

\* ... then it builds the request: the constructor of f_message opens the file
\* (the message of an ERASE has none) ...
OpenRequest(t) ==
  /\ Running
  /\ staged[t] > 0
  /\ staged' = Take(staged, t)
  /\ opened' = Put(opened, {request(t, IF t.op = "ERASE" THEN None
                                      ELSE fs[t.path])})
  /\ UNCHANGED <<user_vars, server, dir, io, strand, pc, thread_vars, reply,
                 misled, status, faults>>

\* ... and async_post queues it.
PostRequest(t) ==
  /\ Running
  /\ \E b \in Digest \cup {None} :
       /\ opened[request(t, b)] > 0
       /\ opened' = Take(opened, request(t, b))
       /\ strand' = Append(strand, request(t, b))
  /\ UNCHANGED <<user_vars, server, dir, io, staged, pc, thread_vars, reply,
                 misled, status, faults>>

Pool(t) == RunTask(t) \/ OpenRequest(t) \/ PostRequest(t)

-----------------------------------------------------------------------------
\* No f_message gets to the end of a content it was opened with that is
\* unsendable, nor of a file it could not open.
Readable(j) == j.body \notin Unsendable \cup {None}

\* The bytes f_message::next_chunk reads for job j: those of the file it has
\* opened; when that has changed since, also those of the new content, a mixture
\* of both (None) or, None again, a stream that ends early and makes it throw.
Payload(j) ==
  IF ~Readable(j) THEN {None}
  ELSE IF j.body = fs[j.path] THEN {j.body}
  ELSE {j.body, None} \cup ({fs[j.path]} \ Unsendable)

Idle == pc["strand"] = "post" /\ strand # <<>>

\* async_post of an f_message: all chunks written, the last one answered.
Answered ==
  /\ Running /\ Idle
  /\ LET j == Head(strand) IN
     /\ j.op # "ERASE"
     /\ Readable(j)
     /\ \E b \in Payload(j) :
          /\ reply' = IF Accepts(server, j, b) THEN "OK" ELSE "ERROR"
          /\ server' = Processed(server, j, b)
  /\ Goto("strand", "handle")
  /\ UNCHANGED <<user_vars, dir, io, staged, opened, strand, thread_vars,
                 misled, status, faults>>

M_UnreadableSwallowed ==
  /\ Running /\ Idle
  /\ Head(strand).op # "ERASE"
  /\ None \in Payload(Head(strand))
  /\ strand' = Tail(strand)
  /\ UNCHANGED <<user_vars, server, dir, io, staged, opened, pc, thread_vars,
                 reply, misled, status, faults>>

\* next_chunk throws; async_post catches it and calls fn(std::nullopt).
Unreadable ==
  /\ Running /\ Idle
  /\ Head(strand).op # "ERASE"
  /\ None \in Payload(Head(strand))
  /\ Goto("strand", "handle")
  /\ UNCHANGED <<user_vars, server, dir, io, staged, opened, strand,
                 thread_vars, reply, misled, status, faults>>

\* async_post of a message: once the response is read, fn is not called.
EraseAnswered ==
  /\ Running /\ Idle
  /\ Head(strand).op = "ERASE"
  /\ server' = Processed(server, Head(strand), None)
  /\ strand' = Tail(strand)
  /\ UNCHANGED <<user_vars, dir, io, staged, opened, pc, thread_vars, reply,
                 misled, status, faults>>

\* The server refuses the request for a reason of its own (ERR_*_FAILED).
Refused ==
  /\ Running /\ Idle
  /\ Fault
  /\ Head(strand).op = "ERASE" \/ Readable(Head(strand))
  /\ IF Head(strand).op = "ERASE"
     THEN strand' = Tail(strand) /\ UNCHANGED <<pc, reply>>
     ELSE reply' = "ERROR" /\ Goto("strand", "handle") /\ UNCHANGED strand
  /\ UNCHANGED <<user_vars, server, dir, io, staged, opened, thread_vars,
                 misled, status>>

\* What the handler of an upload is given when the connection fails: nothing,
\* or, when a later chunk could not be written, the answer to the chunk before
\* it, which may have the request's sign and an OK (any other answer has the
\* effect of none).
LostAnswer == {"nullopt", "STALE"}

\* write or read fails, before or after the server has processed the request:
\* with eof, connection_reset or broken_pipe the handler first reconnects,
\* with any other error it is called at once.
Interrupted ==
  /\ Running /\ Idle
  /\ Fault
  /\ IF Head(strand).op = "ERASE"
     THEN UNCHANGED reply
     ELSE Head(strand).body # None /\ reply' \in LostAnswer
  /\ \E b \in Payload(Head(strand)) :
       server' \in {server, Processed(server, Head(strand), b)}
  /\ \/ Goto("strand", "reconnect")
     \/ Goto("strand", "handle")
  /\ UNCHANGED <<user_vars, dir, io, staged, opened, strand, thread_vars,
                 misled, status>>

\* handle_create, handle_update, handle_erase: rsrc(), or exit without entry.
HandleLookup ==
  /\ Running
  /\ pc["strand"] = "handle"
  /\ Unlocked
  /\ LET p == Head(strand).path IN
     IF contains(dir, p)
     THEN /\ rsrc' = [rsrc EXCEPT !["strand"] = dir[p]]
          /\ Goto("strand", "assign")
          /\ UNCHANGED status
     ELSE Exit("handler") /\ UNCHANGED rsrc
  /\ UNCHANGED <<user_vars, server, dir, io, staged, opened, strand, todo,
                 item, s_dir, digest, reply, misled, faults>>

\* ... then insert_or_assign of the copy, and the strand is free again.
HandleAssign ==
  /\ Running
  /\ pc["strand"] = "assign"
  /\ Unlocked
  /\ LET j == Head(strand) IN
     dir' = insert_or_assign(dir, j.path,
                             Handled(j.op, rsrc["strand"], reply))
  /\ strand' = Tail(strand)
  /\ rsrc' = [rsrc EXCEPT !["strand"] = None]
  /\ reply' = "nullopt"
  /\ misled' = IF reply = "STALE" THEN misled \cup {Head(strand).path}
                                 ELSE misled \ {Head(strand).path}
  /\ Goto("strand", "post")
  /\ UNCHANGED <<user_vars, server, io, staged, opened, todo, item, s_dir,
                 digest, status, faults>>

Connection == \/ Sync("strand")
              \/ Answered \/ Unreadable \/ EraseAnswered
              \/ Refused \/ Interrupted
              \/ HandleLookup \/ HandleAssign

-----------------------------------------------------------------------------
\* The process has exited: nothing happens any more.
Ended == ~Running /\ UNCHANGED vars

Next == \/ \E p \in Path : Edit(p)
        \/ Main
        \/ \E t \in Task : Pool(t)
        \/ Connection
        \/ Ended

Spec == Init /\ [][Next]_vars

(***************************************************************************)
(* Every thread keeps running.  RunTask and the strand wait for the        *)
(* directory's mutex, which the watcher holds only in between two sleeps   *)
(* of several seconds: strong fairness.  The pool goes on running closures *)
(* and a thread that has started one finishes it.                          *)
(***************************************************************************)
FairSpec == /\ Spec
            /\ WF_vars(Main)
            /\ SF_vars(Connection)
            /\ SF_vars(\E t \in Task : RunTask(t))
            /\ \A t \in Task : WF_vars(OpenRequest(t) \/ PostRequest(t))

-----------------------------------------------------------------------------
\* Type invariant of the client's state.
TypeOK ==
  /\ fs \in Store /\ seen \in [Path -> SUBSET (Digest \cup {None})]
  /\ server \in Store /\ dir \in Content
  /\ io \in Bag(Task) /\ staged \in Bag(Task)
  /\ opened \in Bag(Job) /\ strand \in Seq(Job)
  /\ pc \in [Thread -> {"reconnect", "sync", "items", "value", "confirm",
                        "sleep", "purge", "scan", "hash", "read", "decide",
                        "post", "handle", "assign"}]
  /\ todo \in [Thread -> SUBSET Path]
  /\ item \in [Thread -> Path \cup {None}]
  /\ rsrc \in [Thread -> Resource \cup {None}]
  /\ s_dir \in [Thread -> Store]
  /\ digest \in Digest \cup {None} /\ reply \in Reply
  /\ misled \subseteq Path
  /\ status \in {"running", "auth", "sync", "bad_optional_access",
                 "filesystem_error", "length_error", "handler"}
  /\ edits \in 0..MaxEdits /\ faults \in 0..MaxFaults

(***************************************************************************)
(* Properties that hold whatever the pool's delays, the user's edits and   *)
(* the network's faults.                                                   *)
(***************************************************************************)
\* The main thread has not finished the first synchronisation.
Starting == pc["main"] \in {"reconnect", "sync", "items", "value", "confirm"}

\* A CREATE or UPDATE for path p has been posted and not been handled.
UploadPending(p) ==
  \/ \E t \in Task : t.path = p /\ t.op # "ERASE" /\ io[t] + staged[t] > 0
  \/ \E j \in Queued : j.path = p /\ j.op # "ERASE"

\* An entry that is indeterminate and not known to be on the server, which the
\* watcher therefore skips for good, has an upload under way whose handler
\* will settle it (or the first synchronisation is still to come).  This is
\* what the unlocked read-modify-write of handle_create, handle_update and
\* sync, and every failure path of async_post, must preserve.
IndeterminateIsAwaited ==
  \A p \in Path :
    contains(dir, p) /\ dir[p].synced = "indeterminate"
      /\ ~dir[p].exist_on_server
    => Starting \/ UploadPending(p)

\* A file that has been on disk, whatever its content, ever since the client
\* started keeps its entry and no erasure of its backup is ever under way:
\* neither the watcher, nor a sync racing with it, nor a dropped entry makes
\* the client ask for one.
PresentFileIsKept ==
  \A p \in Path :
    None \notin seen[p] =>
      /\ contains(dir, p)
      /\ \A t \in Task : t.path = p /\ t.op = "ERASE" => io[t] + staged[t] = 0
      /\ \A j \in Queued : j.path = p => j.op # "ERASE"

\* Hence a step never removes the backup of such a file from the server.
PresentBackupIsKept ==
  [][\A p \in Path :
       None \notin seen[p] /\ server[p] # None => server'[p] # None]_vars

\* When the watcher or sync believes a file synced that has not changed since
\* startup, the server does hold its content, unless it was a stale answer that
\* said so: async_post gives the handler the answer to an earlier chunk when a
\* later one cannot be written.
UnchangedSyncedIsStored ==
  \A p \in Path : \A d \in Digest :
    seen[p] = {d} /\ contains(dir, p) /\ dir[p].synced = "true"
      /\ p \notin misled
    => server[p] = d

\* The process ends for the want of an entry (the value() of sync that nothing
\* catches, the lookup of a handler) only at a path that has been absent at
\* some time since it started: contains() and value() in two critical sections,
\* a purge between a request and its answer, and requests answered twice never
\* lose the entry of a file that only changes.
LostEntryWasRemoved ==
  /\ status = "handler" => None \in seen[Head(strand).path]
  /\ status = "bad_optional_access" =>
       \E th \in Thread : /\ pc[th] = "value" /\ ~contains(dir, item[th])
                          /\ None \in seen[item[th]]

\* The client implements Mirror: whatever is delayed, lost, retried or
\* answered late, the server only comes to store, or stops storing, what the
\* path has been.
Mirrored == INSTANCE Mirror WITH Content <- Digest, files <- fs,
                                 past <- seen, backup <- server
ImplementsMirror == Mirrored!Spec

\* A file that does not change is eventually stored, unless it cannot be sent,
\* the process ends or a stale answer says that it is: lost connections, failed
\* calls, refusals and requests posted twice only delay it.
UnchangedIsStored ==
  \A p \in Path : \A d \in Digest \ Unsendable :
    (seen[p] = {d})
    ~> (seen[p] # {d} \/ server[p] = d \/ p \in misled \/ ~Running)

\* An upload that is under way, of a new file or a changed one, is answered,
\* also when its file cannot be read or sent: its entry does not remain
\* indeterminate.
UploadIsSettled ==
  \A p \in Path :
    (contains(dir, p) /\ dir[p].synced = "indeterminate" /\ UploadPending(p))
    ~> ((contains(dir, p) /\ dir[p].synced # "indeterminate") \/ ~Running)

(***************************************************************************)
(* Properties that need the pool to keep up and the network and the server *)
(* to be free of faults.                                                   *)
(***************************************************************************)
\* The requests for path p that are under way, each copy by itself.
Requests(p) ==
  LET T == {t \in Task : t.path = p} IN
  (UNION {{<<"io", t, i>> : i \in 1..io[t]} : t \in T})
    \cup (UNION {{<<"staged", t, i>> : i \in 1..staged[t]} : t \in T})
    \cup (UNION {{<<"opened", j, i>> : i \in 1..opened[j]} :
                  j \in {k \in Job : k.path = p}})
    \cup {<<"strand", strand[i], i>> :
             i \in {k \in 1..Len(strand) : strand[k].path = p}}

\* The indeterminate state acts as a lock on the path: there is never more
\* than one request for it under way.
OneRequestPerPath == \A p \in Path : \A r, s \in Requests(p) : r = s

\* An entry that is synced describes what the server stores, even while a
\* request that will replace it waits for a thread of the pool.
SyncedIsStored ==
  \A p \in Path :
    contains(dir, p) /\ dir[p].synced = "true" => server[p] = dir[p].digest

\* exist_on_server is accurate for every entry that is not indeterminate: the
\* watcher relies on it to choose CREATE or UPDATE, and to drop an entry.
ExistOnServerIsAccurate ==
  \A p \in Path :
    contains(dir, p) /\ dir[p].synced # "indeterminate"
    => (dir[p].exist_on_server <=> server[p] # None)

\* A response never finds its entry gone, which would end the process.
HandlerFindsEntry == status # "handler"

\* A file that is never removed is eventually stored as it then is, unless it
\* cannot be sent as it is or the process ends.
KeptFileConverges ==
  \A p \in Path : \/ <>(None \in seen[p]) \/ <>~Running
                  \/ <>[](server[p] = fs[p]) \/ <>[](fs[p] \in Unsendable)

(***************************************************************************)
(* Properties the comments of the code state, which it does not have.      *)
(***************************************************************************)
\* file_watcher.cpp: watching the directory keeps it in sync with the server.
ServerConverges ==
  \A p \in Path : <>[](server[p] = fs[p]) \/ <>~Running
=============================================================================
