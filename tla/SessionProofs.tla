--------------------------- MODULE SessionProofs ---------------------------
(***************************************************************************)
(* Safety of Session for every number of login attempts and of faults.     *)
(* The inductive invariant IInv adds to the properties why they hold: until*)
(* the main thread watches the directory the strand has nothing to do and  *)
(* the timer is armed only in between two exchanges (Quiet), and on a new  *)
(* connection some thread is busy authenticating (Authentic).              *)
(***************************************************************************)
EXTENDS Session, TLAPS

-----------------------------------------------------------------------------
\* The inductive invariant.

\* The main thread is alone until it watches the directory.
Quiet ==
  /\ pc["main"] # "idle" /\ pc["strand"] # "watch"
  /\ ~refused /\ pc["main"] # "watch" =>
       /\ pc["strand"] = "idle" /\ fired = 0
       /\ Running /\ timer = "armed" => pc["main"] = "write"

Authenticating(th) == \/ pc[th] \in {"username", "password"}
                      \/ Exchanging(th) /\ req[th] = "AUTH"

\* A connection without a session is being authenticated.
Authentic ==
  ~refused /\ conn = "up" /\ ~session => \E th \in Thread : Authenticating(th)

IInv == TypeOK /\ Quiet /\ Authentic /\ RestIsKeptAlive

-----------------------------------------------------------------------------
\* Types.

\* The types of what the ends of an exchange assign.
LEMMA AuthFailedType ==
  ASSUME TypeOK, NEW th \in Thread, NEW t \in {"off", "armed"},
         AuthFailed(th, t)
  PROVE  /\ (pc \in [Thread -> Place])'
         /\ (req \in [Thread -> Kind])'
         /\ (general \in [Thread -> 0..Attempts])'
         /\ (field \in [Thread -> 0..Attempts])'
         /\ timer' \in {"off", "armed"} /\ refused' \in BOOLEAN
         /\ status' \in Status
<1>1. general[th] \in 0..Attempts
  BY DEF TypeOK
<1>2. CASE general[th] = 0
  BY <1>2, AttemptsAssumption
  DEF AuthFailed, Relogin, Prompt, Goto, Place, TypeOK
<1>3. CASE general[th] = 1
  BY <1>3 DEF AuthFailed, NextAttempt, Exit, Status, TypeOK
<1>4. CASE general[th] > 1
  BY <1>1, <1>4, AttemptsAssumption
  DEF AuthFailed, NextAttempt, Prompt, Goto, Place, TypeOK
<1> QED
  BY <1>1, <1>2, <1>3, <1>4

\* A failed exchange respects the types.
LEMMA FailedType ==
  ASSUME TypeOK, NEW th \in Thread, Fault /\ (Lost(th) \/ Failed(th)),
         UNCHANGED <<user, session, fired>>
  PROVE  TypeOK'
<1>1. faults' \in 0..MaxFaults
  BY AttemptsAssumption DEF Fault, TypeOK
<1>2. CASE Lost(th)
  <2>1. CASE req[th] = "AUTH"
    BY <1>1, <1>2, <2>1 DEF Lost, Exit, Status, TypeOK
  <2>2. CASE req[th] \in {"SYNC", "JOB"}
    BY <1>1, <1>2, <2>2 DEF Lost, Goto, Place, TypeOK
  <2>3. CASE req[th] = "KEEP_ALIVE"
    BY <1>1, <1>2, <2>3 DEF Lost, Return, Goto, Place, Thread, TypeOK
  <2> QED
    BY <2>1, <2>2, <2>3 DEF TypeOK, Kind
<1>3. CASE Failed(th)
  <2>1. PICK t \in {"off", "armed"} :
          /\ CASE req[th] = "AUTH" -> AuthFailed(th, t)
               [] req[th] = "SYNC" ->
                    Exit("sync") /\ timer' = t /\ UNCHANGED refused
               [] req[th] \in {"JOB", "KEEP_ALIVE"} ->
                    /\ Return(th) /\ timer' = t
                    /\ UNCHANGED <<general, field, status, refused>>
          /\ muted' = (t = "off")
    BY <1>3 DEF Failed
  <2>2. CASE req[th] = "AUTH"
    <3>1. AuthFailed(th, t) /\ muted' \in BOOLEAN
      BY <2>1, <2>2
    <3> QED
      BY <1>1, <1>3, <3>1, AuthFailedType DEF Failed, TypeOK
  <2>3. CASE req[th] = "SYNC"
    BY <1>1, <1>3, <2>1, <2>3 DEF Failed, Exit, Status, TypeOK
  <2>4. CASE req[th] \in {"JOB", "KEEP_ALIVE"}
    BY <1>1, <1>3, <2>1, <2>4 DEF Failed, Return, Goto, Place, Thread, TypeOK
  <2> QED
    BY <2>2, <2>3, <2>4 DEF TypeOK, Kind
<1> QED
  BY <1>2, <1>3

\* Every action preserves the types.
LEMMA TypeStep ==
  ASSUME TypeOK, [Next]_vars
  PROVE  TypeOK'
<1>1. ASSUME NEW th \in Thread, Connect(th) PROVE TypeOK'
  <2>1. CASE Post(th, "AUTH") /\ UNCHANGED <<general, field, status>>
    BY <1>1, <2>1
    DEF Connect, Connected, Post, Goto, Exit, Kind, Place, Status, TypeOK
  <2>2. CASE Prompt(th, Attempts)
    <3>1. Attempts \in 0..Attempts
      BY AttemptsAssumption
    <3>2. /\ general' \in [Thread -> 0..Attempts]
          /\ field' \in [Thread -> 0..Attempts]
      BY <2>2, <3>1 DEF Prompt, TypeOK
    <3>3. /\ (conn' = "up" /\ session' = FALSE /\ silent' = FALSE)
             \/ UNCHANGED <<conn, session, silent>>
          /\ UNCHANGED <<user, timer, fired, refused, muted, faults>>
      BY <1>1 DEF Connect
    <3> QED
      BY <2>2, <3>2, <3>3 DEF Prompt, Goto, Place, TypeOK
  <2>3. CASE Exit("handshake")
    BY <1>1, <2>3
    DEF Connect, Connected, Exit, Post, Goto, Prompt, Place, Status, TypeOK
  <2> QED
    BY <1>1, <2>1, <2>2, <2>3 DEF Connect, Connected
<1>2. ASSUME NEW th \in Thread, Field(th) PROVE TypeOK'
  <2>1. field' \in [Thread -> 0..Attempts]
    <3>1. field[th] \in 0..Attempts /\ Attempts \in 0..Attempts
      BY AttemptsAssumption DEF TypeOK
    <3>2. field[th] > 1 => field[th] - 1 \in 0..Attempts
      BY <3>1
    <3> QED
      BY <1>2, <3>1, <3>2 DEF Field, Exit, Status, TypeOK
  <2>2. /\ pc' \in [Thread -> Place]
        /\ req' \in [Thread -> Kind]
        /\ general' \in [Thread -> 0..Attempts]
        /\ status' \in Status
    BY <1>2 DEF Field, Post, Exit, Goto, Kind, Place, Status, TypeOK
  <2> QED
    BY <1>2, <2>1, <2>2 DEF Field, TypeOK
<1>3. ASSUME NEW th \in Thread, Write(th) PROVE TypeOK'
  BY <1>3, FailedType DEF Write, Goto, Place, TypeOK
<1>4. ASSUME NEW th \in Thread, Answered(th) PROVE TypeOK'
  <2>1. CASE /\ session' = TRUE /\ authenticated(TRUE)
             /\ general' = [general EXCEPT ![th] = 0]
             /\ Post(th, "SYNC")
             /\ timer' = Rescheduled /\ UNCHANGED <<field, status, refused>>
    <3>1. general' \in [Thread -> 0..Attempts]
      BY <2>1, AttemptsAssumption DEF TypeOK
    <3> QED
      BY <1>4, <2>1, <3>1
      DEF Answered, Rescheduled, Post, Goto, Kind, Place, authenticated, TypeOK
  <2>2. CASE AuthFailed(th, Rescheduled) /\ UNCHANGED <<session, user>>
    BY <1>4, <2>2, AuthFailedType DEF Answered, Rescheduled, TypeOK
  <2>3. CASE /\ Exit("sync") /\ timer' = Rescheduled
             /\ UNCHANGED <<session, user, refused>>
    BY <1>4, <2>3 DEF Answered, Rescheduled, Exit, Status, TypeOK
  <2>4. CASE /\ Return(th) /\ timer' = Rescheduled
             /\ UNCHANGED <<general, field, session, user, status, refused>>
    BY <1>4, <2>4
    DEF Answered, Rescheduled, Return, Goto, Place, Thread, TypeOK
  <2> QED
    BY <1>4, <2>1, <2>2, <2>3, <2>4 DEF Answered
<1>5. ASSUME NEW th \in Thread, Interrupted(th) PROVE TypeOK'
  BY <1>5, FailedType DEF Interrupted
<1>6. CASE StartJob
  BY <1>6 DEF StartJob, Post, Goto, Kind, Place, TypeOK
<1>7. CASE Expire
  BY <1>7 DEF Expire, TypeOK
<1>8. CASE Keepalive
  <2>1. fired' \in Nat
    BY <1>8 DEF Keepalive, TypeOK
  <2> QED
    BY <1>8, <2>1 DEF Keepalive, Post, Goto, Kind, Place, TypeOK
<1>9. CASE UNCHANGED vars
  BY <1>9 DEF vars, TypeOK
<1>10. CASE Resolve
  BY <1>10 DEF Resolve, Goto, Exit, Place, Status, Thread, TypeOK
<1> QED
  BY <1>1, <1>2, <1>3, <1>4, <1>5, <1>6, <1>7, <1>8, <1>9, <1>10
  DEF Next, Step, Ended

-----------------------------------------------------------------------------
\* The main thread is alone until it watches the directory.

\* How a failed authentication leaves the thread and the timer.
LEMMA AuthFailedEffect ==
  ASSUME TypeOK, NEW th \in Thread, NEW t, AuthFailed(th, t)
  PROVE  /\ \/ pc' = [pc EXCEPT ![th] = "username"]
            \/ pc' = pc /\ ~Running'
         /\ req' = req
         /\ th = "main" /\ ~refused' => timer' = "off"
         /\ refused => refused'
  BY DEF AuthFailed, Relogin, NextAttempt, Prompt, Exit, Goto, Running, TypeOK

\* How a failed exchange does.
LEMMA FailureEffect ==
  ASSUME TypeOK, NEW th \in Thread, Running, Lost(th) \/ Failed(th)
  PROVE  /\ \E l \in {"connect", "username",
                      IF th = "main" THEN "watch" ELSE "idle"} :
              pc' = [pc EXCEPT ![th] = l] \/ (pc' = pc /\ ~Running')
         /\ th = "main" /\ ~refused' /\ Running' /\ pc'["main"] # "watch"
              => timer' = "off"
         /\ refused => refused'
         /\ conn' \in {conn, "broken"} /\ req' = req
         /\ conn' = "up" /\ req[th] = "AUTH"
              => pc' \in {pc, [pc EXCEPT ![th] = "username"]}
         /\ AtRest' /\ ~muted' => timer' = "armed"
<1>1. CASE Lost(th)
  <2>1. CASE req[th] = "AUTH"
    BY <1>1, <2>1 DEF Lost, Exit, Running, AtRest
  <2>2. CASE req[th] \in {"SYNC", "JOB"}
    BY <1>1, <2>2 DEF Lost, Goto, AtRest
  <2>3. CASE req[th] = "KEEP_ALIVE"
    BY <1>1, <2>3 DEF Lost, Return, Goto, Thread, AtRest
  <2> QED
    BY <2>1, <2>2, <2>3 DEF TypeOK, Kind
<1>2. CASE Failed(th)
  <2>1. PICK t \in {"off", "armed"} :
          /\ CASE req[th] = "AUTH" -> AuthFailed(th, t)
               [] req[th] = "SYNC" ->
                    Exit("sync") /\ timer' = t /\ UNCHANGED refused
               [] req[th] \in {"JOB", "KEEP_ALIVE"} ->
                    /\ Return(th) /\ timer' = t
                    /\ UNCHANGED <<general, field, status, refused>>
          /\ muted' = (t = "off")
    BY <1>2 DEF Failed
  <2>2. CASE req[th] = "AUTH"
    <3>1. AuthFailed(th, t)
      BY <2>1, <2>2
    <3>2. ~AtRest'
      BY <3>1, AuthFailedEffect DEF AtRest, TypeOK, Thread
    <3> QED
      BY <1>2, <3>1, <3>2, AuthFailedEffect DEF Failed
  <2>3. CASE req[th] = "SYNC"
    BY <1>2, <2>1, <2>3 DEF Failed, Exit, Running, AtRest
  <2>4. CASE req[th] \in {"JOB", "KEEP_ALIVE"}
    BY <1>2, <2>1, <2>4 DEF Failed, Return, Goto, TypeOK, Thread
  <2> QED
    BY <2>2, <2>3, <2>4 DEF TypeOK, Kind
<1> QED
  BY <1>1, <1>2

\* Every action preserves Quiet.
LEMMA QuietStep ==
  ASSUME TypeOK, Quiet, [Next]_vars
  PROVE  Quiet'
<1>1. ASSUME NEW th \in Thread, Connect(th) PROVE Quiet'
  BY <1>1
  DEF Connect, Connected, Post, Prompt, Exit, Goto, Quiet, TypeOK, Thread,
      Running
<1>2. ASSUME NEW th \in Thread, Field(th) PROVE Quiet'
  BY <1>2 DEF Field, Post, Exit, Goto, Quiet, TypeOK, Thread, Running
<1>3. ASSUME NEW th \in Thread, Running, pc[th] \in {"write", "read"},
             Lost(th) \/ Failed(th), UNCHANGED fired
      PROVE  Quiet'
  BY <1>3, FailureEffect DEF Quiet, TypeOK, Thread
<1>4. ASSUME NEW th \in Thread, Write(th) PROVE Quiet'
  <2>1. CASE timer' = "off" /\ Goto(th, "read") /\ UNCHANGED refused
    BY <1>4, <2>1 DEF Write, Goto, Quiet, TypeOK, Thread, Running
  <2> QED
    BY <1>3, <1>4, <2>1 DEF Write
<1>5. ASSUME NEW th \in Thread, Answered(th) PROVE Quiet'
  <2>1. CASE Post(th, "SYNC") /\ UNCHANGED <<status, refused>>
    BY <1>5, <2>1 DEF Answered, Post, Goto, Quiet, TypeOK, Thread, Running
  <2>2. CASE AuthFailed(th, Rescheduled)
    BY <1>5, <2>2, AuthFailedEffect
    DEF Answered, Quiet, TypeOK, Thread
  <2>3. CASE Exit("sync") /\ UNCHANGED refused
    BY <1>5, <2>3 DEF Answered, Exit, Quiet, Running
  <2>4. CASE Return(th) /\ UNCHANGED <<status, refused>>
    BY <1>5, <2>4 DEF Answered, Return, Goto, Quiet, TypeOK, Thread, Running
  <2> QED
    BY <1>5, <2>1, <2>2, <2>3, <2>4 DEF Answered
<1>6. ASSUME NEW th \in Thread, Interrupted(th) PROVE Quiet'
  BY <1>3, <1>6 DEF Interrupted
<1>7. CASE StartJob
  BY <1>7 DEF StartJob, Post, Goto, Quiet, TypeOK, Thread, Running
<1>8. CASE Expire
  <2>1. pc["main"] \in {"username", "password", "connect", "read", "watch"}
    BY <1>8 DEF Expire, Waiting, Quiet, Thread
  <2> QED
    BY <1>8, <2>1 DEF Expire, Quiet, Running
<1>9. CASE Keepalive
  <2>1. refused \/ pc["main"] = "watch"
    BY <1>9 DEF Keepalive, Quiet
  <2> QED
    BY <1>9, <2>1 DEF Keepalive, Post, Goto, Quiet, TypeOK, Thread
<1>10. CASE UNCHANGED vars
  BY <1>10 DEF vars, Quiet, Running
<1>11. CASE Resolve
  BY <1>11 DEF Resolve, Goto, Exit, Quiet, TypeOK, Thread, Running
<1> QED
  BY <1>1, <1>2, <1>4, <1>5, <1>6, <1>7, <1>8, <1>9, <1>10, <1>11
  DEF Next, Step, Ended

-----------------------------------------------------------------------------
\* A connection without a session is being authenticated.

\* Every action preserves Authentic.
LEMMA AuthenticStep ==
  ASSUME TypeOK, Quiet, Authentic, [Next]_vars
  PROVE  Authentic'
<1>1. ASSUME NEW th \in Thread, Connect(th) PROVE Authentic'
  <2>1. CASE Exit("handshake") /\ UNCHANGED <<conn, session, silent>>
    BY <1>1, <2>1
    DEF Connect, Connected, Exit, Authentic, Authenticating, Exchanging
  <2>2. CASE Post(th, "AUTH")
    BY <1>1, <2>2
    DEF Connect, Connected, Post, Goto, Authentic, Authenticating,
        Exchanging, TypeOK
  <2>3. CASE Prompt(th, Attempts)
    BY <1>1, <2>3
    DEF Connect, Connected, Prompt, Goto, Authentic, Authenticating, TypeOK
  <2> QED
    BY <1>1, <2>1, <2>2, <2>3 DEF Connect, Connected
<1>2. ASSUME NEW th \in Thread, Field(th) PROVE Authentic'
  BY <1>2
  DEF Field, Post, Exit, Goto, Authentic, Authenticating, Exchanging, TypeOK
<1>3. ASSUME NEW th \in Thread, Running, Exchanging(th),
             Lost(th) \/ Failed(th), UNCHANGED session
      PROVE  Authentic'
  <2> SUFFICES ASSUME ~refused', conn' = "up", ~session
               PROVE  \E other \in Thread : Authenticating(other)'
    BY <1>3 DEF Authentic
  <2>1. PICK other \in Thread : Authenticating(other)
    BY <1>3, FailureEffect DEF Authentic
  <2>2. CASE other # th
    BY <1>3, <2>1, <2>2, FailureEffect DEF Authenticating, Exchanging, TypeOK
  <2>3. CASE other = th
    BY <1>3, <2>1, <2>3, FailureEffect DEF Authenticating, Exchanging, TypeOK
  <2> QED
    BY <2>2, <2>3
<1>4. ASSUME NEW th \in Thread, Write(th) PROVE Authentic'
  <2>1. CASE /\ Goto(th, "read")
             /\ UNCHANGED <<req, general, field, conn, refused, silent, muted,
                            status, faults>>
    BY <1>4, <2>1
    DEF Write, Goto, Authentic, Authenticating, Exchanging, TypeOK
  <2> QED
    BY <1>3, <1>4, <2>1 DEF Write, Exchanging
<1>5. ASSUME NEW th \in Thread, Answered(th) PROVE Authentic'
  <2>1. CASE session' = TRUE
    BY <2>1 DEF Authentic
  <2>2. CASE req[th] = "AUTH" /\ AuthFailed(th, Rescheduled)
    BY <1>5, <2>2, AuthFailedEffect
    DEF Answered, Authentic, Authenticating, Exchanging, TypeOK
  <2>3. CASE req[th] = "SYNC" /\ Exit("sync") /\ UNCHANGED <<session, refused>>
    BY <1>5, <2>3
    DEF Answered, Exit, Authentic, Authenticating, Exchanging
  <2>4. CASE /\ req[th] # "AUTH" /\ Return(th)
             /\ UNCHANGED <<session, refused>>
    BY <1>5, <2>4
    DEF Answered, Return, Goto, Authentic, Authenticating, Exchanging, TypeOK
  <2> QED
    BY <1>5, <2>1, <2>2, <2>3, <2>4 DEF Answered
<1>6. ASSUME NEW th \in Thread, Interrupted(th) PROVE Authentic'
  BY <1>3, <1>6 DEF Interrupted, Exchanging
<1>7. ASSUME NEW kind, Post("strand", kind), pc["strand"] = "idle",
             UNCHANGED <<conn, session, refused>>
      PROVE  Authentic'
  BY <1>7
  DEF Post, Goto, Authentic, Authenticating, Exchanging, TypeOK, Thread
<1>8. CASE StartJob
  BY <1>7, <1>8 DEF StartJob
<1>9. CASE Expire
  BY <1>9 DEF Expire, Authentic, Authenticating, Exchanging
<1>10. CASE Keepalive
  BY <1>7, <1>10 DEF Keepalive
<1>11. CASE UNCHANGED vars
  BY <1>11 DEF vars, Authentic, Authenticating, Exchanging
<1>12. CASE Resolve
  BY <1>12
  DEF Resolve, Goto, Exit, Authentic, Authenticating, Exchanging, TypeOK,
      Thread
<1> QED
  BY <1>1, <1>2, <1>4, <1>5, <1>6, <1>8, <1>9, <1>10, <1>11, <1>12
  DEF Next, Step, Ended

-----------------------------------------------------------------------------
\* A connection at rest.

\* Every action preserves RestIsKeptAlive.
LEMMA RestStep ==
  ASSUME TypeOK, RestIsKeptAlive, [Next]_vars
  PROVE  RestIsKeptAlive'
<1>1. ASSUME NEW th \in Thread, Connect(th) PROVE RestIsKeptAlive'
  BY <1>1
  DEF Connect, Connected, Post, Prompt, Exit, Goto, RestIsKeptAlive, AtRest,
      Running, TypeOK, Thread
<1>2. ASSUME NEW th \in Thread, Field(th) PROVE RestIsKeptAlive'
  BY <1>2
  DEF Field, Post, Exit, Goto, RestIsKeptAlive, AtRest, Running, TypeOK, Thread
<1>3. ASSUME NEW th \in Thread, Running, Lost(th) \/ Failed(th)
      PROVE  RestIsKeptAlive'
  BY <1>3, FailureEffect DEF RestIsKeptAlive
<1>4. ASSUME NEW th \in Thread, Write(th) PROVE RestIsKeptAlive'
  <2>1. CASE Goto(th, "read")
    BY <1>4, <2>1 DEF Goto, RestIsKeptAlive, AtRest, TypeOK, Thread
  <2> QED
    BY <1>3, <1>4, <2>1 DEF Write
<1>5. ASSUME NEW th \in Thread, Answered(th) PROVE RestIsKeptAlive'
  <2>1. CASE timer' = Rescheduled
    BY <2>1 DEF Rescheduled, RestIsKeptAlive
  <2>2. CASE AuthFailed(th, Rescheduled)
    BY <2>2, AuthFailedEffect DEF RestIsKeptAlive, AtRest, TypeOK, Thread
  <2> QED
    BY <1>5, <2>1, <2>2 DEF Answered
<1>6. ASSUME NEW th \in Thread, Interrupted(th) PROVE RestIsKeptAlive'
  BY <1>3, <1>6 DEF Interrupted
<1>7. CASE StartJob
  BY <1>7 DEF StartJob, Post, Goto, RestIsKeptAlive, AtRest, TypeOK, Thread
<1>8. CASE Expire
  <2>1. fired' > 0
    BY <1>8 DEF Expire, TypeOK
  <2> QED
    BY <2>1 DEF RestIsKeptAlive
<1>9. CASE Keepalive
  BY <1>9 DEF Keepalive, Post, Goto, RestIsKeptAlive, AtRest, TypeOK, Thread
<1>10. CASE UNCHANGED vars
  BY <1>10 DEF vars, RestIsKeptAlive, AtRest, Running
<1>11. CASE Resolve
  BY <1>11
  DEF Resolve, Goto, Exit, RestIsKeptAlive, AtRest, Running, TypeOK, Thread
<1> QED
  BY <1>1, <1>2, <1>4, <1>5, <1>6, <1>7, <1>8, <1>9, <1>10, <1>11
  DEF Next, Step, Ended

-----------------------------------------------------------------------------
\* The theorems.

\* The invariant holds when main() is about to connect.
LEMMA InitIInv == Init => IInv
<1> SUFFICES ASSUME Init PROVE IInv
  OBVIOUS
<1>1. TypeOK
  <2>1. 0 \in 0..Attempts /\ 0 \in 0..MaxFaults
    BY AttemptsAssumption
  <2>2. /\ general \in [Thread -> 0..Attempts]
        /\ field \in [Thread -> 0..Attempts]
    BY <2>1 DEF Init
  <2>3. /\ pc \in [Thread -> Place]
        /\ req \in [Thread -> Kind]
    BY DEF Init, Kind, Place
  <2> QED
    BY <2>1, <2>2, <2>3 DEF Init, TypeOK, Status
<1>2. Quiet /\ Authentic /\ RestIsKeptAlive
  BY DEF Init, Quiet, Authentic, RestIsKeptAlive, AtRest, Thread
<1> QED
  BY <1>1, <1>2 DEF IInv

\* IInv is an invariant.
THEOREM Invariance == Spec => []IInv
<1>1. IInv /\ [Next]_vars => IInv'
  BY TypeStep, QuietStep, AuthenticStep, RestStep DEF IInv
<1> QED
  BY InitIInv, <1>1, PTL DEF Spec

\* The threads stay at the places the program has, with attempts left in
\* every login() and a count of expired timers that is never negative.
THEOREM TypeCorrect == Spec => []TypeOK
  BY Invariance, PTL DEF IInv

\* The keepalive that reconnect leaves running under a prompt is the only way
\* in which two exchanges come to share the socket.
THEOREM ExchangesDoNotMix == Spec => []ExchangesAreAlone
<1>1. IInv => ExchangesAreAlone
  BY DEF IInv, Quiet, ExchangesAreAlone, Exchanging
<1> QED
  BY <1>1, Invariance, PTL

\* Nothing but an AUTH is requested on a connection that has no session.
THEOREM NoRequestIsUnauthenticated == Spec => []RequestsAreAuthenticated
<1>1. IInv => RequestsAreAuthenticated
  <2> SUFFICES ASSUME IInv, NEW th \in Thread, ~refused, Exchanging(th),
                      req[th] # "AUTH", conn = "up", ~session
               PROVE  FALSE
    BY DEF RequestsAreAuthenticated
  <2>1. PICK other \in Thread : Authenticating(other)
    BY DEF IInv, Authentic
  <2> QED
    BY <2>1 DEF IInv, Quiet, Authenticating, Exchanging, Thread
<1> QED
  BY <1>1, Invariance, PTL

\* A connection at rest always has a keepalive coming, unless the last exchange
\* has failed without scheduling one: whatever the two threads have cancelled
\* and scheduled, a failed exchange, and no other event, leaves it silent.
THEOREM RestingConnectionsAreKeptAlive == Spec => []RestIsKeptAlive
  BY Invariance, PTL DEF IInv
=============================================================================
