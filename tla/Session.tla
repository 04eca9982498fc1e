------------------------------ MODULE Session ------------------------------
(***************************************************************************)
(* The session with the server: how the main thread and the strand share   *)
(* one socket and one keepalive timer while they connect, authenticate,    *)
(* synchronise, transfer files (requests of kind JOB, whose contents       *)
(* BackupClient models) and keep the connection alive.                     *)
(*                                                                         *)
(*   connect --> [login: username --> password -->] AUTH --> SYNC --> done *)
(*      ^                    ^                        |                    *)
(*      |                    +------- refused --------+                    *)
(*      +------- connection lost in a SYNC or a JOB                        *)
(*                                                                         *)
(* sync_post runs on the thread that calls it: the main thread's exchanges *)
(* are not serialised with those of the strand by anything but the order   *)
(* in which the program starts them.                                       *)
(***************************************************************************)
EXTENDS Naturals

CONSTANTS Attempts,   \* general_attempts and field_attempts of login()
          MaxFaults   \* bound: exchanges that fail on a working connection

ASSUME AttemptsAssumption == Attempts \in Nat \ {0} /\ MaxFaults \in Nat

VARIABLES
  pc,        \* what the main thread and the strand are about to do
  req,       \* per thread: the kind of request it is at
  general,   \* per thread: general_attempts of the login() it is in, or 0
  field,     \* per thread: field_attempts of the prompt it is at
  user,      \* user_.authenticated()
  conn,      \* "up", or "broken": to be established, or no longer usable
  session,   \* whether the server has accepted an AUTH on this connection
  timer,     \* keepalive_timer_: "off" or "armed"
  fired,     \* handlers of the expired timer that wait for the strand
  refused,   \* history: auth(user_) has failed on the main thread
  silent,    \* history: a keepalive has found the connection lost and
             \* nothing has used or repaired it since
  muted,     \* history: the last exchange failed without scheduling a
             \* keepalive and without telling that the connection is lost
  status,    \* "running", or why the process has ended
  faults

vars == <<pc, req, general, field, user, conn, session, timer, fired, refused,
          silent, muted, status, faults>>

Thread == {"main", "strand"}
Kind == {"AUTH", "SYNC", "JOB", "KEEP_ALIVE"}

Place == {"resolve", "connect", "username", "password", "write", "read",
          "watch", "idle"}
Status == {"running", "resolve", "handshake", "login", "auth", "sync"}

Running == status = "running"
Goto(th, l) == pc' = [pc EXCEPT ![th] = l]
Post(th, kind) == req' = [req EXCEPT ![th] = kind] /\ Goto(th, "write")

\* A fault needs a working connection; a broken one fails for free.
Fault == \/ conn = "broken" /\ UNCHANGED faults
         \/ conn = "up" /\ faults < MaxFaults /\ faults' = faults + 1

Exchanging(th) == pc[th] \in {"write", "read"}

\* user::authenticated
authenticated(b) == user' = b

\* The main thread returns to the watcher, the strand to its queue.
Return(th) == /\ Goto(th, IF th = "main" THEN "watch" ELSE "idle")
              /\ UNCHANGED req

-----------------------------------------------------------------------------
\* Operators named M_... are faulty variants of the definition they precede;
\* the specification does not use them.

\* main(): everything is constructed, the io_context's threads run.
Init ==
  /\ pc = [th \in Thread |-> IF th = "main" THEN "resolve" ELSE "idle"]
  /\ req = [th \in Thread |-> "KEEP_ALIVE"]
  /\ general = [th \in Thread |-> 0] /\ field = [th \in Thread |-> 0]
  /\ user = FALSE /\ conn = "broken" /\ session = FALSE
  /\ timer = "off" /\ fired = 0
  /\ refused = FALSE /\ silent = FALSE /\ muted = FALSE
  /\ status = "running" /\ faults = 0

Exit(reason) == /\ status' = reason
                /\ UNCHANGED <<pc, req, general, field>>

\* login(), from its first prompt with n general attempts left.
Prompt(th, n) == /\ general' = [general EXCEPT ![th] = n]
                 /\ field' = [field EXCEPT ![th] = Attempts]
                 /\ Goto(th, "username")
                 /\ UNCHANGED <<req, status>>

\* connection::resolve.
Resolve ==
  /\ Running /\ pc["main"] = "resolve"
  /\ \/ Goto("main", "connect") /\ UNCHANGED <<req, general, field, status>>
     \/ Exit("resolve")
  /\ UNCHANGED <<user, conn, session, timer, fired, refused, silent, muted,
                 faults>>

M_ConnectedNoAuth(th) ==
  /\ Post(th, IF user THEN "SYNC" ELSE "AUTH")
  /\ UNCHANGED <<general, field, status>>

\* What scheduler::reconnect and, at startup, main() do after connect(): send
\* the credentials of an authenticated user again, or ask for credentials.
Connected(th) ==
  IF user THEN Post(th, "AUTH") /\ UNCHANGED <<general, field, status>>
          ELSE Prompt(th, Attempts)

\* connection::connect retries until a connection is accepted; a handshake
\* that fails ends the process.
Connect(th) ==
  /\ Running /\ pc[th] = "connect"
  /\ \/ /\ conn' = "up" /\ session' = FALSE /\ silent' = FALSE
        /\ Connected(th)
     \/ Exit("handshake") /\ UNCHANGED <<conn, session, silent>>
  /\ UNCHANGED <<user, timer, fired, refused, muted, faults>>

M_FieldLateTest(th) ==
  /\ Running /\ pc[th] \in {"username", "password"}
  /\ \/ field' = [field EXCEPT ![th] = @ - 1] /\ UNCHANGED <<pc, status>>
     \/ field[th] = 0 /\ status' = "login" /\ UNCHANGED <<pc, field>>
  /\ UNCHANGED <<req, general, user, conn, session, timer, fired, refused,
                 silent, muted, faults>>

\* login(), at a prompt: the field matches its regular expression, or another
\* attempt is spent (also at the end of the input); login() fails with the
\* last one, and then its callers exit.
Field(th) ==
  /\ Running /\ pc[th] \in {"username", "password"}
  /\ \/ /\ pc[th] = "username"
        /\ field' = [field EXCEPT ![th] = Attempts]
        /\ Goto(th, "password")
        /\ UNCHANGED <<req, general, status>>
     \/ /\ pc[th] = "password"
        /\ Post(th, "AUTH")
        /\ UNCHANGED <<general, field, status>>
     \/ /\ field[th] > 1
        /\ field' = [field EXCEPT ![th] = @ - 1]
        /\ UNCHANGED <<pc, req, general, status>>
     \/ field[th] = 1 /\ Exit("login")
  /\ UNCHANGED <<user, conn, session, timer, fired, refused, silent, muted,
                 faults>>

-----------------------------------------------------------------------------
\* login() spends a general attempt.
NextAttempt(th) == IF general[th] > 1 THEN Prompt(th, general[th] - 1)
                                      ELSE Exit("login")

\* reconnect() turns from auth(user_) to login(), with the timer as it is.
Relogin(th, t) == /\ Prompt(th, Attempts)
                  /\ timer' = t
                  /\ refused' = (refused \/ th = "main")

M_AuthFailedForgets(th, t) ==
  IF general[th] = 0 THEN Relogin(th, t)
  ELSE NextAttempt(th) /\ timer' = t /\ UNCHANGED refused

M_AuthFailedEndless(th, t) ==
  IF general[th] = 0 THEN Relogin(th, t)
  ELSE Prompt(th, general[th]) /\ timer' = "off" /\ UNCHANGED refused

\* auth() returns false, its exchange having left the timer as t; login()
\* cancels it.
AuthFailed(th, t) ==
  IF general[th] = 0 THEN Relogin(th, t)
  ELSE NextAttempt(th) /\ timer' = "off" /\ UNCHANGED refused

\* sync_post (or async_post) returns indeterminate: connection lost.
Lost(th) ==
  /\ CASE req[th] = "AUTH" -> Exit("auth")
       [] req[th] \in {"SYNC", "JOB"} ->
            Goto(th, "connect") /\ UNCHANGED <<req, general, field, status>>
       [] req[th] = "KEEP_ALIVE" ->
            Return(th) /\ UNCHANGED <<general, field, status>>
  /\ silent' = (req[th] = "KEEP_ALIVE")
  /\ conn' = "broken" /\ timer' = "off" /\ muted' = FALSE
  /\ UNCHANGED refused

\* It returns false.  After a system_error other than those that tell a lost
\* connection no keepalive is scheduled, after any other exception one is.
\* The socket stays in use: what is exchanged over it may go well or not.
Failed(th) ==
  /\ \E t \in {"off", "armed"} :
       /\ CASE req[th] = "AUTH" -> AuthFailed(th, t)
            [] req[th] = "SYNC" ->
                 Exit("sync") /\ timer' = t /\ UNCHANGED refused
            [] req[th] \in {"JOB", "KEEP_ALIVE"} ->
                 /\ Return(th) /\ timer' = t
                 /\ UNCHANGED <<general, field, status, refused>>
       /\ muted' = (t = "off")
  /\ conn' \in {conn, "broken"}
  /\ UNCHANGED silent

\* connection::write cancels the keepalive, sends the request and schedules a
\* keepalive, which connection::read cancels before it blocks.
Write(th) ==
  /\ Running /\ pc[th] = "write"
  /\ \/ /\ conn = "up" /\ timer' = "off"
        /\ Goto(th, "read")
        /\ UNCHANGED <<req, general, field, conn, refused, silent, muted,
                       status, faults>>
     \/ Fault /\ Lost(th)
     \/ Fault /\ Failed(th)
  /\ UNCHANGED <<user, session, fired>>

M_RescheduleNot == "off"

\* What read() leaves the timer as when it returns a response.
Rescheduled == "armed"

\* connection::read returns the response, and its receiver takes it: auth and
\* sync branch on it, the handlers of a JOB record it, a keepalive ignores it.
Answered(th) ==
  /\ Running /\ pc[th] = "read"
  /\ conn = "up"
  /\ \/ /\ req[th] = "AUTH"   \* OK
        /\ session' = TRUE /\ authenticated(TRUE)
        /\ general' = [general EXCEPT ![th] = 0]
        /\ Post(th, "SYNC")
        /\ timer' = Rescheduled /\ UNCHANGED <<field, status, refused>>
     \/ /\ req[th] = "AUTH"   \* ERROR
        /\ AuthFailed(th, Rescheduled) /\ UNCHANGED <<session, user>>
     \/ /\ req[th] = "SYNC"   \* ERROR
        /\ Exit("sync") /\ timer' = Rescheduled
        /\ UNCHANGED <<session, user, refused>>
     \/ /\ req[th] # "AUTH"
        /\ Return(th) /\ timer' = Rescheduled
        /\ UNCHANGED <<general, field, session, user, status, refused>>
  /\ muted' = FALSE
  /\ UNCHANGED <<conn, fired, silent, faults>>

\* connection::read throws.
Interrupted(th) ==
  /\ Running /\ pc[th] = "read"
  /\ Fault /\ (Lost(th) \/ Failed(th))
  /\ UNCHANGED <<user, session, fired>>

-----------------------------------------------------------------------------
\* The watcher's requests reach the strand once it watches the directory.
StartJob ==
  /\ Running /\ pc["main"] = "watch" /\ pc["strand"] = "idle"
  /\ Post("strand", "JOB")
  /\ silent' = FALSE
  /\ UNCHANGED <<general, field, user, conn, session, timer, fired, refused,
                 muted, status, faults>>

\* 30 seconds pass.  They do only where every thread waits: at a prompt, in
\* connect's retries, in a blocked read, or with nothing to do.
Waiting(th) ==
  \/ pc[th] \in {"username", "password", "connect", "read", "watch"}
  \/ pc[th] = "idle" /\ fired = 0

Expire ==
  /\ Running /\ timer = "armed"
  /\ \A th \in Thread : Waiting(th)
  /\ timer' = "off" /\ fired' = fired + 1
  /\ UNCHANGED <<pc, req, general, field, user, conn, session, refused, silent,
                 muted, status, faults>>

\* The timer's handler runs on the strand.
Keepalive ==
  /\ Running /\ fired > 0 /\ pc["strand"] = "idle"
  /\ fired' = fired - 1
  /\ Post("strand", "KEEP_ALIVE")
  /\ UNCHANGED <<general, field, user, conn, session, timer, refused, silent,
                 muted, status, faults>>

-----------------------------------------------------------------------------
\* The process has exited: nothing happens any more.
Ended == ~Running /\ UNCHANGED vars

Step(th) == \/ Connect(th) \/ Field(th)
            \/ Write(th) \/ Answered(th) \/ Interrupted(th)

Next == \/ \E th \in Thread : Step(th)
        \/ Resolve \/ StartJob \/ Expire \/ Keepalive
        \/ Ended

Spec == Init /\ [][Next]_vars

(***************************************************************************)
(* The user answers the prompts, the server accepts a connection some time *)
(* and an exchange ends, if only by TCP's own keepalive (connect sets the  *)
(* option).  The strand's queue is FIFO.  Nothing obliges a file to change.*)
(***************************************************************************)
FairSpec == /\ Spec
            /\ WF_vars(Resolve)
            /\ \A th \in Thread : WF_vars(Step(th))
            /\ WF_vars(Expire) /\ SF_vars(Keepalive)

-----------------------------------------------------------------------------
\* Type invariant of the session's state.
TypeOK ==
  /\ pc \in [Thread -> Place]
  /\ req \in [Thread -> Kind]
  /\ general \in [Thread -> 0..Attempts] /\ field \in [Thread -> 0..Attempts]
  /\ user \in BOOLEAN /\ session \in BOOLEAN
  /\ conn \in {"up", "broken"} /\ timer \in {"off", "armed"} /\ fired \in Nat
  /\ refused \in BOOLEAN /\ silent \in BOOLEAN /\ muted \in BOOLEAN
  /\ status \in Status
  /\ faults \in 0..MaxFaults

\* The main thread and the strand are never both in an exchange, so no two
\* requests or responses mix on the socket, unless auth(user_) has failed on
\* the main thread: reconnect, unlike login, then leaves the keepalive running
\* while the user is asked for credentials.
ExchangesAreAlone ==
  ~refused => ~(Exchanging("main") /\ Exchanging("strand"))

\* Whatever is lost and reconnected, by whichever thread: on a connection on
\* which the server has not yet accepted an AUTH nothing else is requested, no
\* job that was queued before the loss and no keepalive of the connection
\* before (with the same exception).
RequestsAreAuthenticated ==
  \A th \in Thread :
    ~refused /\ Exchanging(th) /\ req[th] # "AUTH" /\ conn = "up" => session

\* Nothing is being exchanged on a connection that has not been found lost.
AtRest == /\ Running /\ conn = "up"
          /\ pc["main"] = "watch" /\ pc["strand"] = "idle"

\* A connection at rest is kept alive: the timer is armed or its handler waits
\* for the strand, through all the cancelling and scheduling of the exchanges
\* of two threads, unless the last of them failed by a system_error that does
\* not tell a lost connection: write() and read() then return false with the
\* keepalive cancelled, and leave a connection they do not call closed silent.
RestIsKeptAlive == AtRest /\ ~muted => timer = "armed" \/ fired > 0

\* Startup, and every reconnection, comes to an end: the thread gets back to
\* its work or the process exits, neither the login's attempts nor lost
\* connections keep it for ever (with the same exception).
ConnectingEnds ==
  \A th \in Thread :
    (pc[th] \in {"resolve", "connect"})
    ~> (pc[th] \in {"watch", "idle"} \/ ~Running \/ refused)

\* A connection at rest does not stay silent for ever (with the exception of
\* RestIsKeptAlive): the strand makes a request, if only a keepalive.
RestEnds == (AtRest /\ ~muted) ~> pc["strand"] = "write"

(***************************************************************************)
(* What the code's messages state, which it does not do.                   *)
(***************************************************************************)
\* connection.cpp: "Connection to the server has been lost. Trying to
\* reconnect...": a loss that an exchange notices is repaired.
LossIsRepaired == silent ~> (~silent \/ ~Running)
=============================================================================
