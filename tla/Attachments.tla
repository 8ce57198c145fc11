---------------------------- MODULE Attachments ----------------------------
(***************************************************************************)
(* Attachment rows and the blobs they point at: src/mypa/attachments.py,   *)
(* called by POST and DELETE of src/mypa/routes/attachments.py and by the  *)
(* MCP tool pa_attach_image.  A row names its content by sha256 and its    *)
(* file by a path made of the month of the upload and the sha256, so one   *)
(* content has one file per month, shared by all users' rows.              *)
(*                                                                         *)
(* Uploads run on the event loop of mypa-api and in mypa-mcp (Uploaders),  *)
(* deletions on thread-pool threads (Deleters).  Each is a sequence of     *)
(* separate file and database accesses.  Content is abstracted to its      *)
(* sha256, with one unit of quota each; item links and alt_text are left   *)
(* out, and so are the refusals of validate_upload that look at the bytes  *)
(* alone (size, type, free disk), which write nothing.                     *)
(***************************************************************************)
EXTENDS Naturals, FiniteSets

CONSTANTS
  Users, Shas,
  Uploaders, Deleters,
  MaxMonth,  \* the clock stops after this many months (a bound)
  MaxId,     \* rows ever present at once (a bound)
  Quota,     \* max_user_bytes, in units of one attachment
  None

ASSUME AttachmentsAssumption ==
  /\ MaxMonth \in Nat \ {0} /\ MaxId \in Nat \ {0} /\ Quota \in Nat \ {0}
  /\ Uploaders \cap Deleters = {}
  /\ IsFiniteSet(Uploaders)

VARIABLES
  month,     \* the current month
  file,      \* what is at each path of BLOB_DIR
  row,       \* the attachments table, by id; None where there is no row
  job,       \* the request each worker is in the middle of
  disturbed  \* history: contents on which two requests overlapped, or whose
             \* write was cut short

vars == <<month, file, row, job, disturbed>>

Months == 1 .. MaxMonth
Ids == 1 .. MaxId
Workers == Uploaders \cup Deleters
Row == [user : Users, sha : Shas, month : Months]

\* Where an upload can be: validated, at the open of a missing file, writing,
\* stored, inserting.  Where a deletion can be: deleting, counting, unlinking.
PCs == {"idle", "validated", "opening", "writing", "stored", "inserting",
        "deleting", "counting", "unlinking"}

Job == [pc : PCs, user : Users \cup {None}, sha : Shas \cup {None},
        month : Months \cup {None}, id : Ids \cup {None}]

ASSUME AttachmentsNoneAssumption == None \notin Users \cup Shas \cup Months \cup Ids \cup Row

Idle == [pc |-> "idle", user |-> None, sha |-> None, month |-> None, id |-> None]

TypeOK ==
  /\ month \in Months
  /\ file \in [Months \X Shas -> {"absent", "partial", "whole"}]
  /\ row \in [Ids -> Row \cup {None}]
  /\ job \in [Workers -> Job]
  /\ disturbed \subseteq Shas

Init ==
  /\ month = 1
  /\ file = [p \in Months \X Shas |-> "absent"]
  /\ row = [i \in Ids |-> None]
  /\ job = [w \in Workers |-> Idle]
  /\ disturbed = {}

IsIdle(w) == job[w].pc = "idle"
Rows == {i \in Ids : row[i] # None}
RowsOf(u) == {i \in Rows : row[i].user = u}
RowsAt(s) == {i \in Rows : row[i].sha = s}
Path(w) == <<job[w].month, job[w].sha>>

\* SQLite gives a new row the largest id plus one: the id of a deleted last
\* row is given again.
NextId == 1 + (IF Rows = {} THEN 0 ELSE CHOOSE i \in Rows : \A j \in Rows : j <= i)

\* Bookkeeping of the history variable when w starts on content s.
Overlap(w, s) ==
  IF \E v \in Workers \ {w} : ~IsIdle(v) /\ job[v].sha = s
  THEN disturbed \cup {s} ELSE disturbed

-----------------------------------------------------------------------------
(* create_attachment.                                                      *)

\* validate_upload: the sum of the user's rows is within the quota.
BeginUploadAtQuota(w, u, s) == \* mutant: an off-by-one in the comparison
  /\ w \in Uploaders /\ IsIdle(w)
  /\ Cardinality(RowsOf(u)) <= Quota
  /\ job' = [job EXCEPT ![w] = [Idle EXCEPT !.pc = "validated",
                                            !.user = u, !.sha = s]]
  /\ disturbed' = Overlap(w, s)
  /\ UNCHANGED <<month, file, row>>

BeginUpload(w, u, s) ==
  /\ w \in Uploaders /\ IsIdle(w)
  /\ Cardinality(RowsOf(u)) < Quota
  /\ job' = [job EXCEPT ![w] = [Idle EXCEPT !.pc = "validated",
                                            !.user = u, !.sha = s]]
  /\ disturbed' = Overlap(w, s)
  /\ UNCHANGED <<month, file, row>>

\* store_blob computes the path for the current month and asks if it exists.
ProbeBlob(w) ==
  /\ job[w].pc = "validated"
  /\ job' = [job EXCEPT
       ![w].month = month,
       ![w].pc = IF file[<<month, job[w].sha>>] = "absent" THEN "opening" ELSE "stored"]
  /\ UNCHANGED <<month, file, row, disturbed>>

\* write_bytes: the file is opened and truncated, ...
OpenBlob(w) ==
  /\ job[w].pc = "opening"
  /\ file' = [file EXCEPT ![Path(w)] = "partial"]
  /\ job' = [job EXCEPT ![w].pc = "writing"]
  /\ UNCHANGED <<month, row, disturbed>>

\* ... then written.  A file unlinked meanwhile stays unlinked.
WriteBlob(w) ==
  /\ job[w].pc = "writing"
  /\ file' = [file EXCEPT ![Path(w)] = IF @ = "absent" THEN "absent" ELSE "whole"]
  /\ job' = [job EXCEPT ![w].pc = "stored"]
  /\ UNCHANGED <<month, row, disturbed>>

\* The user's row with this content, if any, is the answer.
FindRow(w) ==
  /\ job[w].pc = "stored"
  /\ job' = [job EXCEPT ![w] =
       IF RowsAt(job[w].sha) \cap RowsOf(job[w].user) # {}
       THEN Idle ELSE [@ EXCEPT !.pc = "inserting"]]
  /\ UNCHANGED <<month, file, row, disturbed>>

\* INSERT, commit; UNIQUE(user_id, sha256) makes it fail on a second row.
InsertOwnerless(w) == \* mutant: user_id is not passed on
  /\ job[w].pc = "inserting" /\ NextId \in Ids
  /\ row' = [row EXCEPT ![NextId] = [user |-> None, sha |-> job[w].sha,
                                     month |-> job[w].month]]
  /\ job' = [job EXCEPT ![w] = Idle]
  /\ UNCHANGED <<month, file, disturbed>>

InsertRow(w) ==
  /\ job[w].pc = "inserting"
  /\ NextId \in Ids
  /\ row' = IF RowsAt(job[w].sha) \cap RowsOf(job[w].user) # {} THEN row
            ELSE [row EXCEPT ![NextId] = [user |-> job[w].user,
                    sha |-> job[w].sha, month |-> job[w].month]]
  /\ job' = [job EXCEPT ![w] = Idle]
  /\ UNCHANGED <<month, file, disturbed>>

-----------------------------------------------------------------------------
(* delete_attachment.                                                      *)

\* get_attachment finds the requester's own row.
BeginDelete(w, i) ==
  /\ w \in Deleters /\ IsIdle(w)
  /\ i \in Rows
  /\ job' = [job EXCEPT ![w] = [pc |-> "deleting", user |-> row[i].user,
                sha |-> row[i].sha, month |-> row[i].month, id |-> i]]
  /\ disturbed' = Overlap(w, row[i].sha)
  /\ UNCHANGED <<month, file, row>>

\* DELETE ... WHERE id, commit: whichever row has the id now, or none.
DeleteRow(w) ==
  /\ job[w].pc = "deleting"
  /\ row' = [row EXCEPT ![job[w].id] = None]
  /\ job' = [job EXCEPT ![w].pc = "counting", ![w].id = None]
  /\ UNCHANGED <<month, file, disturbed>>

\* Is the content still referenced by any user's row, under any path?
CountOwnReferences(w) == \* mutant: only the requester's rows are counted
  /\ job[w].pc = "counting"
  /\ job' = [job EXCEPT ![w] =
       IF RowsAt(job[w].sha) \cap RowsOf(job[w].user) # {} THEN Idle
       ELSE [@ EXCEPT !.pc = "unlinking"]]
  /\ UNCHANGED <<month, file, row, disturbed>>

CountReferences(w) ==
  /\ job[w].pc = "counting"
  /\ job' = [job EXCEPT ![w] = IF RowsAt(job[w].sha) # {} THEN Idle
                               ELSE [@ EXCEPT !.pc = "unlinking"]]
  /\ UNCHANGED <<month, file, row, disturbed>>

\* unlink the deleted row's own path, if it is there.
UnlinkBlob(w) ==
  /\ job[w].pc = "unlinking"
  /\ file' = [file EXCEPT ![Path(w)] = "absent"]
  /\ job' = [job EXCEPT ![w] = Idle]
  /\ UNCHANGED <<month, row, disturbed>>

-----------------------------------------------------------------------------
\* A request stops half-way: its process dies, the disk is full, or the
\* database is locked.  A file being written is left as it is.
Abort(w) ==
  /\ ~IsIdle(w)
  /\ job' = [job EXCEPT ![w] = Idle]
  /\ disturbed' = IF job[w].pc = "writing" THEN disturbed \cup {job[w].sha}
                  ELSE disturbed
  /\ UNCHANGED <<month, file, row>>

NextMonth ==
  /\ month < MaxMonth
  /\ month' = month + 1
  /\ UNCHANGED <<file, row, job, disturbed>>

Next ==
  \/ \E w \in Workers :
       \/ \E u \in Users, s \in Shas : BeginUpload(w, u, s)
       \/ ProbeBlob(w) \/ OpenBlob(w) \/ WriteBlob(w) \/ FindRow(w) \/ InsertRow(w)
       \/ \E i \in Ids : BeginDelete(w, i)
       \/ DeleteRow(w) \/ CountReferences(w) \/ UnlinkBlob(w)
       \/ Abort(w)
  \/ NextMonth

Spec == Init /\ [][Next]_vars

-----------------------------------------------------------------------------
(* What the code promises.                                                 *)

BlobOf(i) == file[<<row[i].month, row[i].sha>>]

\* Across users, months, deduplications and lone crashes, a row points at a
\* whole blob, except for contents on which two requests overlapped or whose
\* write was cut short.
LossNeedsOverlap ==
  \A i \in Rows : BlobOf(i) # "whole" => row[i].sha \in disturbed

\* The quota is read long before the INSERT: concurrent uploads overrun it,
\* each other uploader by one attachment at most.  (What is on its way counts:
\* validate_upload refuses a user at the quota, attachments.py:240-249.)
QuotaOverrunBounded ==
  \A u \in Users :
    Cardinality(RowsOf(u)) + Cardinality({w \in Uploaders : job[w].user = u})
      <= Quota + (Cardinality(Uploaders) - 1)
=============================================================================
