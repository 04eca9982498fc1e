------------------------------- MODULE Mirror -------------------------------
(***************************************************************************)
(* What the backup client promises its user: the backup of a path is at    *)
(* any time what was backed up before, or something that path has been     *)
(* since the client started (None: no file, so no backup).  The client     *)
(* never stores under a path a content which that path has not had, and it *)
(* never removes the backup of a path that has been a file all the time.   *)
(***************************************************************************)
CONSTANTS Path, Content, None

VARIABLES files,   \* [Path -> Content or None]: the user's files
          past,    \* per path, everything it has been since the start
          backup   \* [Path -> Content or None]

vars == <<files, past, backup>>

State == [Path -> Content \cup {None}]

Init == /\ files \in State
        /\ past = [p \in Path |-> {files[p]}]
        /\ backup \in State

\* The user changes, creates or removes a file.
Change(p) == /\ \E c \in Content \cup {None} :
                  /\ files' = [files EXCEPT ![p] = c]
                  /\ past' = [past EXCEPT ![p] = @ \cup {c}]
             /\ UNCHANGED backup

\* The backup of p becomes what p is or was.
BackUp(p) == /\ \E c \in past[p] : backup' = [backup EXCEPT ![p] = c]
             /\ UNCHANGED <<files, past>>

Next == \E p \in Path : Change(p) \/ BackUp(p)

Spec == Init /\ [][Next]_vars
=============================================================================
