------------------------------ MODULE Resources ------------------------------
(***************************************************************************)
(* The data the backup client works on: directory::resource, the content   *)
(* map of directory::dir, and the operations (CREATE, UPDATE, ERASE) that  *)
(* the scheduler turns into requests.                                      *)
(*                                                                         *)
(* Paths and MD5 digests are abstract values.  A digest stands for the     *)
(* content it is the digest of: MD5 is taken to be collision free, so two  *)
(* contents are equal exactly when their digests are.                      *)
(***************************************************************************)
EXTENDS Naturals

CONSTANTS Path,      \* relative paths of files under the watched directory
          Digest,    \* digests (equivalently: contents) of files
          None       \* no file, no map entry, no response

ASSUME NoneIsNotADigest == None \notin Digest

-----------------------------------------------------------------------------
\* directory::resource.  The tribool synced_ has three values.
Synced == {"true", "false", "indeterminate"}

Resource == [synced : Synced, exist_on_server : BOOLEAN, digest : Digest]

ASSUME NoneIsNotAResource == None \notin Resource

\* directory::dir, the unordered_map content_: None where there is no entry.
Content == [Path -> Resource \cup {None}]

contains(content, p) == content[p] # None
insert_or_assign(content, p, rsrc) == [content EXCEPT ![p] = rsrc]
erase(content, p) == [content EXCEPT ![p] = None]

-----------------------------------------------------------------------------
Op == {"CREATE", "UPDATE", "ERASE"}

\* What a closure posted by scheduler::create, update or erase captures.
Task == [op : Op, path : Path, digest : Digest]

task(op, p, d) == [op |-> op, path |-> p, digest |-> d]

\* Operators named M_... are faulty variants of the definition they precede;
\* the specification does not use them.
M_ScheduledNoDigest(t) ==
  [synced |-> "indeterminate", exist_on_server |-> t.op # "CREATE",
   digest |-> None]

\* The resource such a closure assigns to the entry before it builds the
\* request: CREATE believes the file is not on the server, the others do.
Scheduled(t) == [synced          |-> "indeterminate",
                 exist_on_server |-> t.op # "CREATE",
                 digest          |-> t.digest]

\* An answer that handle_create, handle_update or handle_erase can be given:
\* a response carrying the sign of the request and OK (which is stale when the
\* server gave it to an earlier chunk of the file), any other response, or no
\* response at all (std::nullopt).
Reply == {"OK", "STALE", "ERROR", "nullopt"}
Positive == {"OK", "STALE"}

M_HandledAnyReply(op, rsrc, reply) ==
  [rsrc EXCEPT !.synced = IF reply = "nullopt" THEN "false" ELSE "true",
               !.exist_on_server = IF op = "CREATE" THEN TRUE ELSE @]

\* The resource those handlers store, computed from their copy of the entry.
Handled(op, rsrc, reply) ==
  [rsrc EXCEPT !.synced = IF reply \in Positive THEN "true" ELSE "false",
               !.exist_on_server =
                  CASE reply \in Positive /\ op = "CREATE" -> TRUE
                    [] reply \in Positive /\ op = "ERASE"  -> FALSE
                    [] OTHER -> @]

M_ConfirmedSyncedOnly(rsrc) == [rsrc EXCEPT !.synced = "true"]

\* The resource scheduler::sync stores for a file the server already holds.
Confirmed(rsrc) == [rsrc EXCEPT !.synced = "true", !.exist_on_server = TRUE]
=============================================================================
