# Formal model of remote-backup-m1-client

TLA+ modules, TLC configurations and TLAPS proofs for the backup client in this
repository. The client watches a directory and keeps a copy of it on a backup
server: it polls the directory, compares MD5 digests with an in-memory map, and
sends CREATE, UPDATE and ERASE requests over one TLS connection.

## The system

| part | state | operations | interacts with |
|---|---|---|---|
| `file_watcher` (main thread) | none of its own | startup scan; `start()`: sync, then for ever sleep, purge vanished files, walk the directory | reads and erases entries of `dir`, posts through `scheduler` |
| `scheduler` | `io_context` queue, pool of threads | `create`, `update`, `erase` post closures; `handle_*` process responses; `sync`; `reconnect`; `login`, `auth` | writes `dir`, posts to `connection` |
| `connection` | strand, socket, keepalive timer | `async_post` (message, f_message), `sync_post`, `write`, `read`, `connect` | server; calls `handle_*` and the reconnection handler |
| `directory::dir` | map from path to `resource`, a recursive mutex | `insert_or_assign`, `erase`, `contains`, `rsrc`, `for_each` | shared by all threads |
| `directory::resource` | `synced` (true, false, indeterminate), `exist_on_server`, `digest` | setters | |
| `f_message` | stream, `remaining_`, `completed_`, buffer | `next_chunk()` | read by `async_post` |
| `message`, `tlv_view` | byte buffer, position | `add_TLV`, `next_tlv`, `verify_end` | |
| `tools`, `user`, `main` | | digests, signs, credentials, startup | |

What is hard:

* **Three kinds of threads share the map.** Each operation on `dir` takes its
  mutex, but `handle_create`, `handle_update` and `sync` read an entry, change
  the copy and assign it back; anything may happen in between.
* **The tribool is the only lock on a path.** An indeterminate entry makes the
  watcher skip the path. It is set when a closure *starts*, not when it is
  posted, so a second request may be posted meanwhile.
* **A lost connection re-enters the scheduler.** `async_post` calls `reconnect`
  on the strand, which runs `sync`, which posts requests for everything the
  server lacks, also what is still queued.
* **Requests fail after they have been processed.** A response that is lost
  leaves the client's belief behind the server's state; a later chunk that
  cannot be written hands the handler the response to the chunk before
  (connection.cpp:197).
* **Files change at any moment**: between the digest, the opening of the
  `f_message` and the last chunk.
* **Two threads use one socket and one timer.** `sync_post` runs on the thread
  that calls it; the main thread's login and first sync, the strand's requests
  and the keepalive exclude each other only by the order in which the program
  starts and cancels them.
* **Nothing announces the end of an answer.** `read()` decides by the last five
  bytes it has, while the server cuts the answer where it likes.

What makes each part correct: the watcher never loses a file and never asks to
erase the backup of a file that is there; an entry that waits is waiting for
something; what is believed synced is stored; a file is eventually stored; a
file sent in chunks is sent whole, in well-formed messages; exchanges do not mix
and nothing is requested before authentication; an answer is read whole and
understood as it was meant. For the user all this comes to one promise
(`Mirror`): a backup only ever becomes what its path is or has been.

## Modules

| module | models | |
|---|---|---|
| `Resources` | `directory::resource`, `dir`, what the closures and handlers write | data only |
| `BackupServer` | the server, external: what it stores, accepts and lists | from `scheduler.cpp`'s requests and the codes in `types.h` |
| `BackupClient` | watcher, pool, strand and user | composes the two above |
| `Mirror` | the promise to the user, as an abstract specification; `BackupClient` implements it | `files`, `past`, `backup` |
| `BackupClientMC` | symmetry for TLC; extends the proofs so that their invariants are checked too | |
| `BackupClientProofs` | inductive invariant and theorems | any faults, any delay of the pool |
| `CalmProofs` | a second inductive invariant and its theorems | no faults, a pool that keeps up |
| `FMessage` | `f_message` and its file | |
| `FMessageProofs` | inductive invariant and theorems | |
| `Session` | `login`, `auth`, `reconnect`, `resolve`, `connect`, the keepalive: two threads on one socket | what a JOB does is in `BackupClient` |
| `SessionProofs` | inductive invariant and theorems | |
| `Response` | `connection::read`, `message`, `tlv_view`, signs, and how the handlers, `auth` and `sync` read an answer | bytes |
| `CodecProofs` | lemmas about the bytes of an answer | |
| `ResponseProofs` | inductive invariant and theorems | |
| `ResponseMC` | the exchanges TLC tries | |

Operators named `M_...` are faulty variants of the definition they precede. The
specification does not use them; they record which bug each property detects
(`mutants` in `PROJECT.json`).

### BackupClient: state and actions

`pc["main"]` and `pc["strand"]` say what the main thread and the strand are
about to do; `todo`, `item`, `rsrc`, `s_dir` are the loop and local variables of
each, `digest` is what `MD5_hash` is computing. A closure is a `Task`
(operation, path, digest). It is in the bag `io` until it starts, in `staged`
after its `insert_or_assign`, a `Job` of the bag `opened` once its `f_message`
has opened the file, and after `async_post` one of the queue `strand` (`Queued`:
either). The first three are bags because a pool of threads takes and finishes
closures in any order; the strand is first-in, first-out.

| code | actions |
|---|---|
| `file_watcher` constructor | `Init` |
| `start()`: `for_each` | `BeginPurge`, `PurgeEntry`, `BeginScan`; the mutex is held (`Unlocked`) |
| `start()`: walk | `ScanFile` (`is_regular_file`), `OpenFile` and `HashFile` (`MD5_hash`), `Decide`, `EndScan` |
| `filesystem_error` of the purge or the walk, caught in `main` | `WalkFails` |
| `sync` | `SyncRequest`, per item `SyncItem` (`contains`), `SyncCompare` (`rsrc().value()`), `SyncConfirm` (`insert_or_assign`) or `SyncThrow`, then `SyncCreate` |
| `reconnect` | `Reconnect`, on the thread that lost the connection, then `sync` |
| closures of `create`, `update`, `erase` | `RunTask` (`insert_or_assign`), `OpenRequest` (`f_message`), `PostRequest` (`async_post`) |
| `async_post(f_message)` | `Answered`, `Unreadable`, `Refused`, `Interrupted` |
| `async_post(message)` | `EraseAnswered`, `Refused`, `Interrupted` |
| `handle_*` | `HandleLookup`, `HandleAssign` |
| the user | `Edit` |

A step is as large as what no other thread can see the inside of: `for_each` of
`SyncCreate` holds the mutex and only posts, so it is one step; a handler is
two. `s_dir` is local to a `sync`. Each `std::exit` and each exception nothing
catches sets `status`; the process then stops (`Ended`). `MD5_hash` throws for
every file it cannot open, a file that is gone or one the process may not read:
the second is a fault, as is a walk that fails.

Some actions cannot occur in full: the main thread never meets `SyncThrow` (only
it erases entries), and `handle_erase` never sees a response (see the findings),
though the model would let it.

Abstractions.

* A digest stands for the content (no collisions), a path for a file
  (directories and renames are sequences of edits). The digest of a file that
  changes while it is computed may be any.
* The server holds at most one file per path and decides as the error codes
  suggest.
* A whole `f_message` is one exchange, whose bytes are those of one moment or a
  mixture (`Payload`); `FMessage` has the chunks. Any upload may have several.
  `Unsendable` are the contents whose last chunk leaves no room for END: an
  `f_message` that has opened one always throws (`Readable`), whether the file
  changes or not.
* When an upload fails its handler is given nothing, or, as connection.cpp:197
  has it, the answer to the chunk before (`LostAnswer`), which the server may
  have given with the sign and an OK: the reply `STALE`, which the handler takes
  for a success.
* After an exchange that has failed without a lost connection the answers are
  taken to stay in step with the requests: a response that comes late is not
  read as the answer to the next request. One that is has another sign, mostly,
  and the effect of a refusal, which is one of the faults.
* Login and authentication are `Reconnect`'s two outcomes, and the keepalive is
  left out; both are in `Session`. That a handler recognises the server's
  answer, and that `sync` sees its listing, is in `Response`.

`misled` is not in the code. It is the set of paths whose entry a `STALE` reply
was the last to mark: `UnchangedSyncedIsStored` and `UnchangedIsStored` except
them, because the code violates them there: an entry counts as synced of whose
file the server has only a beginning, and the watcher never looks at it again.
Without the exception TLC prints such a behaviour. A synced entry of a path that
is not in `misled` was marked by an answer to the whole file or by a listing.

`PurgeEntry` receives the copy `for_each` makes of an entry and the entry in one
step: nothing can change it while the mutex is held.

### FMessage: state and actions

`file` is the length on disk (-1: missing), `opened` that length when the
`f_message` was constructed, `shortest` and `longest` its range since. `Chunk`,
`Throw`, `Overrun` and `Finish` are the outcomes of `next_chunk()`, chosen by
what `ifstream::read` may deliver (`CanRead`, `CanFail`: a truncated file may
still be in the stream's buffer). `Wrap` makes the difference of two `size_t` of
that of two integers; `Edit` changes the length.

`header` is `header_size_`, any of `Headers`: it grows with the path, and
nothing in the code keeps it below `CHUNK_SIZE`. Where it leaves no room for a
CONTENT and an END segment (`HeaderFits` is false) the subtraction in the test
for the last chunk wraps around, the whole file counts as its last chunk, and a
longer file than the buffer has room for is read behind its end. That is the
state `overrun`, of which the model says no more, the C++ standard leaving it
open. `BufferIsKept` is therefore about headers that fit; the other properties
are about all.

### Mirror, and how BackupClient implements it

`Mirror` has the user's files, everything each path has been (`past`, where
`None` means no file) and the backup. `Change` is the user, `BackUp` makes the
backup of a path something from its past. `ImplementsMirror` instantiates it
with `fs`, `seen`, `server`: every step of the client is a `Change`, a `BackUp`
or leaves all three alone. What could break it are the many ways in which the
client's operations go stale: an ERASE posted from an entry that no longer
describes the directory, an upload that overtakes another, a request processed
although it has been reported as failed.

### Session: state and actions

`pc[th]` is what a thread is about to do: the main thread starts at `resolve`,
the strand `idle`. `req[th]` is the kind of the request it is exchanging.

| code | actions |
|---|---|
| `main()`: `resolve`, `connect` | `Resolve`, `Connect` |
| `reconnect` after `connect`, `main()` calling `login` | `Connected` |
| `login`: prompts and `field_attempts` | `Prompt`, `Field` |
| `auth` failing: `general_attempts`, `cancel_keepalive`, exits | `AuthFailed`, `NextAttempt`, `Relogin` |
| `connection::write` | `Write` |
| `connection::read` returning, and what its caller does with the answer | `Answered` |
| `read` throwing | `Interrupted`; both with `Lost` (indeterminate) and `Failed` (false) |
| `async_post` | `StartJob` |
| `schedule_keepalive` | `Expire` (30 s pass), `Keepalive` (the handler on the strand) |

`session` (the server has accepted an AUTH on this connection), `refused`,
`silent` and `muted` are not in the code: they say what the properties are
about. A write and a read are two steps, because the timer is cancelled, armed
and cancelled again around them. After an exchange that has failed without a
lost connection (`Failed`: `write()` and `read()` return false) the socket stays
in use: `conn` is as it was, or broken.

Abstractions. The 30 seconds pass only where every thread waits (`Waiting`): at
a prompt, in `connect`'s retries, in a read, or at rest. A JOB is one exchange
(a file's chunks are a sequence of them). The SSL handshake fails or not. The
credentials match their regular expressions or not: one choice per attempt,
which stands for the end of the input as well.

`ExchangesAreAlone` and `RequestsAreAuthenticated` except the case that
`auth(user_)` has been refused on the main thread (`refused`), because the code
violates them there: `login` cancels the keepalive after each refused attempt
(scheduler.cpp:213) but `reconnect` goes from `auth(user_)` to `login()` without
doing so (scheduler.cpp:71), the timer expires under the prompt, and the strand
writes a KEEP_ALIVE to a socket on which the main thread is about to
authenticate. Dropping `refused` from either property makes TLC print such a
behaviour. The exception lasts for the rest of that behaviour. Refusals within
`login`, and everything on the strand, are not excepted: the mutant
`M_AuthFailedForgets`, a `login` that forgets to cancel, violates both.

`RestIsKeptAlive` and `RestEnds` except a connection whose last exchange has
returned false with the keepalive cancelled (`muted`), because the code violates
them there: `write()` and `read()` schedule one after every other exception, but
not after a `system_error` (connection.cpp:244, 300), of which only three kinds
tell a lost connection. A working connection then rests without a keepalive
until some file changes. Dropping `muted` from either property makes TLC print
such a behaviour. The exception ends with the next exchange. An exchange that is
answered, or fails otherwise, or another thread's, is not excepted.

### Response: state and actions

A response is a sequence of bytes: the type of the message, to which `add_TLV`
adds the segments the receivers in `scheduler.cpp` expect of each kind of
request (`Stages`, whose last is `Encoded`). `Send` cuts it anywhere; `left` is
the number of bytes it has not sent yet. Each `Fragment` after the first repeats
the byte of the type, as `read()` assumes (the server's part is external).
`Read` is one turn of `read()`'s loop, with `verify_end`; `NextTLV` one call of
`next_tlv()`; `Take` the receiver's decision, its `Outcome` (`Accepted`,
`Authenticated`, `Listing`, `SyncFailed`). The getters of `tlv_view` are the
fields of `got`. A read in front of the buffer or behind it is the phase
`overrun`. `Turns` exchanges follow each other on the connection.

`Base` is the number of values of a byte. The code's is 256; with 8, lengths of
8 and more already need a second byte, so that long segments, lengths that end
in zeros and carries happen within a few bytes. `Base > 6` keeps the types
distinct from each other. `ExchangesAssumption` says what the client exchanges:
a CREATE, UPDATE or ERASE is about one item; paths and digests have no NUL,
because POSIX file names and hexadecimal digits have none; a relative path is
not empty; and the length of a sign leaves the sign bit of `tlv_view`'s `int`
clear (paths are at most a few thousand bytes long). How the server writes the
code of an ERROR is not in this repository: `code` may be any value of up to
four bytes, the three digits of the codes in `types.h`, an integer in either
order of its bytes, and also one with the byte of an END and zeros. No receiver
reads it, but `read()` looks for the end of the answer in it.

## Runs

Configurations of `BackupClient` use one or two paths, two or three digests,
and:

* `MaxEdits`: changes by the user (0 to 2). Two on one path give every sequence
  present, changed, removed and re-created that matters for the stale copies.
* `MaxFaults`: lost connections, failed calls, stale answers, refusals, files
  that cannot be opened, walks that fail. One fault already triggers a nested
  sync, a duplicated request and a stale copy together.
* `MaxPending`: the watcher looks at the next file, or begins a cycle, only
  below this backlog (`Room`). Syncs and closures are not bounded by it. Without
  it the watcher may outrun the pool by any number of requests; with 2 it may
  post a request for a path that has one already. It is 1 in `client_two_paths`,
  where the sync after a lost connection is what posts them twice.
* `Unsendable`: one of the contents in `client_faults`, `client_progress` and
  `client_converges`; none elsewhere, where contents are interchangeable.
* `PoolKeepsUp`: when true, a closure posted for a path has started before the
  watcher looks at that path again (a cycle takes five seconds by default).

| run | instance | shows |
|---|---|---|
| `client_faults` | 1 path, 2 edits, 1 fault, any delay | types; `IInv`, the inductive invariant of the proofs; `IndeterminateIsAwaited`, `PresentFileIsKept`, `UnchangedSyncedIsStored`, `LostEntryWasRemoved`, `PresentBackupIsKept`, `ImplementsMirror` |
| `client_two_paths` | 2 paths, 1 edit, 1 fault, any delay | the same safety with files that share the strand and a sync |
| `client_calm` | 2 paths, 2 edits, no fault, pool keeps up | one request per path; entries describe the server; no handler without entry; `CalmInv`, the inductive invariant of `CalmProofs` |
| `client_progress` | 1 path, 1 edit, 1 fault, any delay | `UnchangedIsStored`, `UploadIsSettled` (liveness) |
| `client_converges` | 1 path, 3 digests, 2 edits, no fault, pool keeps up | `KeptFileConverges` (liveness) |
| `f_message` | chunks of 13 or 5 bytes, and headers that leave no room for END, for CONTENT or for anything, files of 0 to 32, 2 edits | `MessageIsWellFormed`, `BufferIsKept`, `CompletedIsWhole`, `ThrowsAtBoundary`, `IInv` of its proofs, `SendingEnds` (liveness) |
| `session` | 3 attempts, 3 failing exchanges | `ExchangesAreAlone`, `RequestsAreAuthenticated`, `RestIsKeptAlive`, `IInv` of its proofs, `ConnectingEnds`, `RestEnds` (liveness) |
| `response` | 2 exchanges out of 10 kinds, every cut into fragments, 2 fragments in flight | `ReadIsWhole`, `WithinBuffer`, `Understood`, `IInv` of its proofs, `AnswersAreTaken` (liveness) |

`Attempts = 3` is the code's value; three failures let a login fail after a
reconnection that itself followed a loss. The exchanges of `response` have paths
short and long enough for lengths of one and of two bytes, values that end in
the byte of an END segment, empty listings, and refusals with three sorts of
codes; two in a row show that reading stops exactly between them.

Runs expected to find a violation, each a disagreement between the code and what
its comments say (`findings` in `PROJECT.json`):

| run | shows |
|---|---|
| `recreated_file` | `async_post` of a message never calls its callback after a response, so erased entries wait for ever: a file that appears at a path whose ERASE has been decided is never backed up. In the behaviour TLC prints sync decides it and the file appears before the ERASE is posted; one that appears later meets the same entry |
| `faulty_convergence` | a CREATE processed but not confirmed leaves `exist_on_server` wrong, and is repeated for ever |
| `silent_loss` | a keepalive that finds the connection lost prints that it tries to reconnect; its result is ignored and nothing does until a file changes |
| `f_message_boundary` | files whose last chunk leaves no room for END cannot be sent |

The properties of `client_calm` say how much the code's protocol relies on a
faultless network. With `MaxFaults = 1` in `ClientCalm.cfg` and one of them at a
time, TLC finds each violated. Two of these behaviours end badly:

* `SyncedIsStored`: after a lost connection sync runs on the strand while
  requests for the same paths are queued; an entry is then believed synced
  although the last request processed has stored something else, against
  resource.h:11 ("client is synced with server on this resource").
* `HandlerFindsEntry`: a request posted twice is answered twice; the watcher
  drops the entry in between and `handle_create` ends the process.

### Symmetry and deadlock

`SYMMETRY` (paths and digests are interchangeable) is used for safety only,
never with liveness. Deadlock is checked in every run but `response`, which ends
with the last answer; an ended process stutters explicitly (`Ended`).

### Fairness

`FairSpec` of `BackupClient`: the main thread keeps going (`WF`): with faults
bounded this includes that `connect()`, which retries for ever, succeeds, that
is, that the server becomes reachable. The strand and the closures wait for the
directory's mutex, which the watcher holds during each purge and releases for
the seconds of its sleep; they are therefore enabled again and again, not
continuously, and fairness for them is strong. Some closure is started again and
again; one that has started opens its file and posts its request without waiting
for anything. That a write, a read and a connect end is assumed here (of connect
this is that the server becomes reachable). The user and the faults are not
fair. `FairSpec` of `FMessage`: the loop in `async_post` calls `next_chunk()`
again.

`FairSpec` of `Session`: each thread keeps going (`WF` of its `Step`), which
includes that the user answers a prompt, that the server accepts a connection
some time, and that a blocked read ends, if only by TCP's own keepalive
(`connect()` sets the option). Time passes (`WF` of `Expire`). The handler of
the timer waits for the strand among other jobs, so it is enabled again and
again, not continuously: `SF`. Nothing obliges a file to change (`StartJob` is
not fair), which is why a silent loss is not repaired. `Spec` of `Response`: the
server sends its answer and the client reads what has arrived.

## Proofs

Checked by TLAPS for any set of paths and digests, any bounds, and any length of
the run, from the assumptions the modules state: `None` is neither a digest nor
a resource, the bounds are natural numbers, and what cannot be sent are contents
(`NoneIsNotADigest`, `NoneIsNotAResource`, `BoundsAssumption`,
`UnsendableAssumption`).

`BackupClientProofs`. None of the safety properties is inductive alone. `IInv`
adds to `TypeOK`:

* `Control`: the strand is busy only with a request at its head; a thread that
  has copied an entry holds one, with the digest it has compared it with.
* `Awaited`: `IndeterminateIsAwaited`, where for the first synchronisation the
  loop in progress is named that will still settle the entry (`ToBeSettled`):
  the entry is yet to be visited, is being visited, or is not listed and will be
  created.
* `PresentKept`: `PresentFileIsKept` and that the history `seen` contains the
  present content. An ERASE is only posted by the purge for a path that is
  missing, or by sync for a path with no entry; the entry of a present file is
  never dropped.
* `UnchangedStored`: for a file that has had one content only, every closure,
  request, entry and copy carries its digest (`OnlyDigest`), and if anything but
  a stale answer says that it is stored - a synced entry not in `misled`, a
  listing, an OK the handler has yet to process (`BelievedStored`) - the server
  stores it.

* `BodiesSeen`: whatever a request carries or is about to be read for it is
  something its path has been.

Each conjunct has its step lemma, by the actions; `Invariance` joins them, and
the theorems `TypeCorrect`, `WaitingEntriesAreSettled`, `PresentFilesAreKept`,
`SyncedUnchangedFilesAreStored` and the action property `PresentBackupsAreKept`
follow.

`ClientImplementsMirror` is the refinement. Its step (`MirrorStep`) goes through
the actions: `Edit` is a `Change`; of the strand's steps only those that process
a request touch the server, an upload with a content from the past of its path
by `BodiesSeen`, an ERASE only for a path that has been absent by `PresentKept`;
the rest leave the three mapped variables alone. `LostEntriesWereRemoved` is the
invariant that a process that has ended for the want of an entry, in a handler
or at the `value()` of a sync (`LossStep`), has seen its path without a file:
that the entry is gone implies it by `PresentKept`. The other exits (a refused
login, a failed sync, a file that cannot be opened, a walk that fails) need no
such history, and no property is about them.

`CalmProofs`, under the hypothesis `Calm`: `MaxFaults = 0` and `PoolKeepsUp`,
the instance of `client_calm`. Both are needed: with one fault, or a pool that
may lag, TLC finds each of the four properties violated (see Runs). Nothing is
assumed of the paths, the digests, the number of edits or the backlog. `CalmInv`
says of every path that

* it has at most one closure or job (`Alone`), and from the moment its closure
  has run until the answer is handled its entry is the indeterminate one that
  closure has assigned (`Locked`): the tribool is a lock;
* a pending CREATE is for a path the server does not have, an UPDATE for one it
  has, until the server has accepted it (`Fitting`), so that nothing is refused;
* an entry that is not indeterminate describes the server (`Accurate`), and what
  the server has of a path without an entry is about to be erased or the first
  synchronisation has still to come to it (`Dropped`);
* the first synchronisation finds the server as the listing describes it and
  meets no request (`Visited`), and `for_each` finds no closure for an entry it
  has still to visit (`Purged`).

Each action disturbs one path only, so its step lemma is about that path; the
rest is `ConsistentStep`. The theorems are `RequestsAreAlone`,
`SyncedEntriesAreStored`, `ExistenceIsKnown`, `HandlersFindEntries`.

`SessionProofs`, from `AttemptsAssumption` (at least one attempt). `Quiet`:
until the main thread watches the directory the strand has nothing to do, no
expired timer waits for it, and the timer is armed only between the answer to an
AUTH and the next write. So it cannot expire in an exchange of the main thread.
`Authentic`: on a connection without a session some thread is at a prompt or in
an AUTH; with `Quiet` it is the only one that exchanges anything.
`RestIsKeptAlive`, with `muted` set and reset by the exchanges, is inductive
with the types. The theorems are `TypeCorrect`, `ExchangesDoNotMix`,
`NoRequestIsUnauthenticated`, `RestingConnectionsAreKeptAlive`.

`FMessageProofs`, from `SizesAssumption` (no file has anything like 2^64 bytes;
nothing is assumed of the header but that it has a byte). `Accounted` says that
`sent + remaining` is the length opened, or exceeds it by `SizeT` after a
wrap-around, and that a header without room for END allows one message only;
`Buffered` what the buffer holds; `Boundary` that a wrap-around of `remaining`
happens only where the last chunk has no room for END. The last chunk is then
never sent after a wrap-around (`LastIsExact`), and a read past the end of a
file that was not truncated is at the boundary (`OverreadIsUnlucky`). The
theorems are `TypeCorrect`, `MessagesAreWellFormed`, `BuffersAreKept`,
`CompletedFilesAreWhole`, `RefusalsAreAtTheBoundary`.

`CodecProofs`, from `ExchangesAssumption`, for any `Base` above 6 and any number
of segments of any length. The prover cannot instantiate the library's induction
theorems, which are about predicates, but the least element of a set of numbers
exists by `NatLessThanWellFounded`; `SetInduction` is induction for a set, and
the lemmas about `Stages` use it. `Layout` says where each segment stands in the
answer. A length reads back to itself (`LengthOfBigEndian`), and so does a sign
(`Signs`). The key to `read()` is `NoEarlyEnd`: four zeros after the byte of an
END segment stand only at the end of an answer. A position before it lies in
some segment; in the first four bytes of one, the zeros would include its type;
in the fifth, the type would be END, and only the last segment's is; in the
value, two zeros would be adjacent, or the first byte be zero, and a sign has
one NUL between a path that is not empty and a digest. The value of an ERROR may
have any bytes, but its length, of four bytes of which three are zero
(`SmallLength`), leaves no place for an END before four of them (`Plain`).

`ResponseProofs`. `IInv` adds to `TypeOK` and `Understood`, per phase: what
`read()` has is a beginning of the answer, the fragments in flight are what
follows it up to what has been sent (`Framed`; `Cut` names the places of the
cuts), so that an answer is complete for `verify_end` only when it is, and
nothing of it is then left in the wire for the next `read()`; the view stands at
the end of a segment and has shown those before it (`Walked`), so `next_tlv`
stops at the end of the buffer. `OutcomeIsMeant` reads the segments as the
receivers do. The theorems are `TypeCorrect`, `AnswersAreReadWhole`,
`BufferIsNotLeft`, `AnswersAreUnderstood`.

With these, every invariant and action property of the passing runs is a theorem
(those of `client_calm` under its two hypotheses), and so is the refinement of
`Mirror`'s steps.

Only model-checked: the liveness properties (`UnchangedIsStored`,
`UploadIsSettled`, `KeptFileConverges`, `SendingEnds`, `ConnectingEnds`,
`RestEnds`, `AnswersAreTaken`); fairness and `ENABLED` are out of the prover's
reach.

## Not modelled

* option parsing, logging, the certificates: input and output only
* the computation of MD5 digests, the copying and printing of messages
* the numbers of the error codes: no code of the client reads them
* `dir::clear` and the unused accessors: never called

## Plan

Done: every component above, its invariants, liveness properties and the proofs
of its safety; `Mirror` and the refinement, by TLC and TLAPS. Left:

1. What the liveness properties need of safety, as theorems: for each of them
   that the action which must follow is there to be taken (an entry that waits
   has its request queued, a connection that is lost has a thread that repairs
   it), which the prover can state without `ENABLED`.
2. An abstract exchange (a request, one outcome) that `Response` implements.
3. A composition of `Session` with the jobs of `BackupClient`, if a property is
   found that needs both.
