---------------------------- MODULE BackupServer ----------------------------
(***************************************************************************)
(* The backup server, which is not part of this repository.  It is modelled*)
(* from what the client relies on: the requests scheduler.cpp builds, the  *)
(* responses its handlers accept and the error codes of                    *)
(* communication/types.h (ERR_CREATE_ALREADY_EXIST, ERR_UPDATE_NOT_EXIST,  *)
(* ERR_UPDATE_ALREADY_UPDATED, ERR_ERASE_NO_MATCH, ERR_*_NO_MATCH).  For   *)
(* each path the server stores the digest of one file, or nothing.         *)
(***************************************************************************)
EXTENDS Resources

Store == [Path -> Digest \cup {None}]

\* Whether the server answers request t, whose transferred bytes have digest
\* body, with OK.  An ERASE transfers no bytes: it names the file by its sign.
Accepts(server, t, body) ==
  LET held == server[t.path] IN
  CASE t.op = "CREATE" -> held = None /\ body = t.digest
    [] t.op = "UPDATE" -> held \notin {None, t.digest} /\ body = t.digest
    [] t.op = "ERASE"  -> held = t.digest

\* What the server stores once it has processed the request.
Processed(server, t, body) ==
  IF Accepts(server, t, body)
  THEN [server EXCEPT ![t.path] = IF t.op = "ERASE" THEN None ELSE t.digest]
  ELSE server

\* The paths the ITEM segments of a SYNC response list.
Listed(server) == {p \in Path : server[p] # None}
=============================================================================
