------------------------- MODULE AttachmentsProofs -------------------------
(***************************************************************************)
(* Proofs about Attachments for any sets of users, contents and requests,  *)
(* any number of months and ids and any quota.  IInv says what a request   *)
(* holds at each place (Shape), that no two requests are on one            *)
(* undisturbed content (Single), and for an undisturbed content what the   *)
(* rows, the files and the one request on it agree on (SettledAt).         *)
(***************************************************************************)
EXTENDS Attachments, FiniteSetTheorems, TLAPS

Shape ==
  \A w \in Workers :
    /\ IsIdle(w) => job[w] = Idle
    /\ ~IsIdle(w) => job[w].sha \in Shas /\ job[w].user \in Users
    /\ job[w].pc \notin {"idle", "validated"} => job[w].month \in Months

Single ==
  \A v, w \in Workers :
    v # w /\ ~IsIdle(v) /\ ~IsIdle(w) /\ job[v].sha = job[w].sha => job[w].sha \in disturbed

\* The rows of a content point at whole files.
WholeRows(s) == \A i \in RowsAt(s) : BlobOf(i) = "whole"

\* A file of a content is partial only while it is written.
Written(s) ==
  \A m \in Months : file[<<m, s>>] = "partial" =>
    \E w \in Workers : job[w].pc = "writing" /\ Path(w) = <<m, s>>

\* What a request on a content has found or done is still so.
Current(s) ==
  \A w \in Workers : job[w].sha = s =>
    /\ job[w].pc = "opening" => file[Path(w)] = "absent"
    /\ job[w].pc = "writing" => file[Path(w)] = "partial"
    /\ job[w].pc \in {"stored", "inserting"} => file[Path(w)] = "whole"
    /\ job[w].pc = "unlinking" => RowsAt(s) = {}

SettledAt(s) == WholeRows(s) /\ Written(s) /\ Current(s)

Settled == \A s \in Shas \ disturbed : SettledAt(s)

Safe == TypeOK /\ Shape /\ Single /\ Settled

\* Only uploaders upload.
Roles ==
  \A w \in Workers :
    job[w].pc \in {"validated", "opening", "writing", "stored", "inserting"} => w \in Uploaders

IInv == Safe /\ Roles /\ QuotaOverrunBounded

-----------------------------------------------------------------------------
USE AttachmentsAssumption, AttachmentsNoneAssumption

(* What the steps have in common.                                          *)

\* No request moves but w's, and what is disturbed stays so.
OnlyMoves(w) ==
  /\ \A v \in Workers : v # w => job'[v] = job[v]
  /\ job' = [v \in Workers |-> job'[v]]
  /\ disturbed \subseteq disturbed'

\* A worker's request, and what is idle.
LEMMA JobTyped ==
  ASSUME Safe, NEW w \in Workers
  PROVE  /\ job[w] \in Job /\ job[w].pc \in PCs
         /\ ~IsIdle(w) => job[w].sha \in Shas /\ job[w].user \in Users
         /\ IsIdle(w) => job[w].sha = None /\ job[w].user = None
  BY DEF Safe, TypeOK, Shape, Job, Idle

\* No other request is on an undisturbed content.
LEMMA Alone ==
  ASSUME Safe, NEW w \in Workers, ~IsIdle(w), job[w].sha \notin disturbed,
         NEW v \in Workers, v # w
  PROVE  job[v].sha # job[w].sha
  BY JobTyped DEF Safe, Single

\* A content that no changed row, file or request is of stays settled.
LEMMA Frame ==
  ASSUME Safe, NEW w \in Workers, OnlyMoves(w),
         NEW s \in Shas \ disturbed, job[w].sha # s, job'[w].sha # s,
         \A m \in Months : file'[<<m, s>>] = file[<<m, s>>],
         RowsAt(s)' \subseteq RowsAt(s), \A i \in RowsAt(s)' : row'[i] = row[i]
  PROVE  SettledAt(s)'
<1>1. WholeRows(s) /\ Written(s) /\ Current(s)
  BY DEF Safe, Settled, SettledAt
<1>2. WholeRows(s)'
  <2> SUFFICES ASSUME NEW i \in RowsAt(s)' PROVE file'[<<row'[i].month, row'[i].sha>>] = "whole"
    BY DEF WholeRows, BlobOf
  <2>1. i \in RowsAt(s) /\ row'[i] = row[i] /\ row[i].sha = s /\ row[i].month \in Months
    BY DEF RowsAt, Rows, Safe, TypeOK, Row
  <2> QED BY <1>1, <2>1 DEF WholeRows, BlobOf
<1>3. Written(s)'
  <2> SUFFICES ASSUME NEW m \in Months, file[<<m, s>>] = "partial"
               PROVE  \E v \in Workers : job'[v].pc = "writing" /\ Path(v)' = <<m, s>>
    BY DEF Written
  <2>1. PICK v \in Workers : job[v].pc = "writing" /\ Path(v) = <<m, s>>
    BY <1>1 DEF Written
  <2>2. v # w
    BY <2>1 DEF Path
  <2> QED BY <2>1, <2>2 DEF OnlyMoves, Path
<1>4. Current(s)'
  <2> SUFFICES ASSUME NEW v \in Workers, job'[v].sha = s
               PROVE  /\ job'[v].pc = "opening" => file'[Path(v)'] = "absent"
                      /\ job'[v].pc = "writing" => file'[Path(v)'] = "partial"
                      /\ job'[v].pc \in {"stored", "inserting"} => file'[Path(v)'] = "whole"
                      /\ job'[v].pc = "unlinking" => RowsAt(s)' = {}
    BY DEF Current
  <2>1. v # w /\ job'[v] = job[v]
    BY DEF OnlyMoves
  <2>2. Path(v)' = Path(v) /\ Path(v) = <<job[v].month, s>>
    BY <2>1 DEF Path
  <2>3. job[v].pc \notin {"idle", "validated"} => job[v].month \in Months
    BY DEF Safe, Shape
  <2> QED BY <1>1, <2>1, <2>2, <2>3 DEF Current
<1> QED BY <1>2, <1>3, <1>4 DEF SettledAt

\* As long as w stays on its content or ends, no two requests get onto one.
LEMMA StaysSingle ==
  ASSUME Safe, NEW w \in Workers, OnlyMoves(w), ~IsIdle(w),
         job'[w].pc = "idle" \/ job'[w].sha = job[w].sha
  PROVE  Single'
  BY DEF Safe, Single, OnlyMoves, IsIdle

\* The same for types and shapes.
LEMMA StaysShaped ==
  ASSUME Safe, NEW w \in Workers, OnlyMoves(w), job'[w] \in Job,
         job'[w].pc = "idle" => job'[w] = Idle,
         job'[w].pc # "idle" => job'[w].sha \in Shas /\ job'[w].user \in Users,
         job'[w].pc \notin {"idle", "validated"} => job'[w].month \in Months
  PROVE  Shape' /\ job' \in [Workers -> Job]
<1>1. Shape'
  BY DEF Safe, Shape, OnlyMoves, IsIdle
<1>2. job' \in [Workers -> Job]
  BY DEF Safe, TypeOK, OnlyMoves
<1> QED BY <1>1, <1>2

(* The steps of uploads.                                                   *)

\* A request begins: on content s, for user u.
LEMMA BeginStep ==
  ASSUME Safe, NEW w \in Workers, IsIdle(w), NEW s \in Shas,
         OnlyMoves(w), job'[w] \in Job, job'[w].sha = s, job'[w].user \in Users,
         job'[w].pc \in {"validated", "deleting"},
         job'[w].pc = "deleting" => job'[w].month \in Months,
         disturbed' = Overlap(w, s), UNCHANGED <<month, file, row>>
  PROVE  Safe'
<1>1. /\ RowsAt(s)' = RowsAt(s) /\ \A x : RowsAt(x)' = RowsAt(x)
      /\ disturbed' \in {disturbed, disturbed \cup {s}}
  BY DEF RowsAt, Rows, Overlap
<1>2. Shape' /\ job' \in [Workers -> Job]
  BY StaysShaped
<1>3. TypeOK'
  BY <1>1, <1>2 DEF Safe, TypeOK
<1>4. s \notin disturbed' => \A v \in Workers : v # w => job[v].sha # s
  BY JobTyped DEF Overlap
<1>5. Single'
  BY <1>1, <1>4, JobTyped DEF Safe, Single, OnlyMoves, IsIdle
<1>6. ASSUME NEW x \in Shas \ disturbed' PROVE SettledAt(x)'
  <2>1. x \notin disturbed
    BY <1>1, <1>6
  <2>2. CASE x # s
    <3>1. job[w].sha # x
      BY JobTyped
    <3> QED BY <1>1, <2>1, <2>2, <3>1, Frame
  <2>3. CASE x = s
    <3>1. \A v \in Workers : v # w => job'[v].sha # s
      BY <1>4, <1>6, <2>3 DEF OnlyMoves
    <3>2. Current(s)'
      BY <3>1 DEF Current
    <3>3. \A m \in Months : file[<<m, s>>] # "partial"
      BY <1>4, <1>6, <2>1, <2>3 DEF Safe, Settled, SettledAt, Written, Path, IsIdle
    <3>4. Written(s)'
      BY <3>3 DEF Written
    <3>5. WholeRows(s)'
      BY <1>1, <2>1, <2>3 DEF Safe, Settled, SettledAt, WholeRows, BlobOf
    <3> QED BY <2>3, <3>2, <3>4, <3>5 DEF SettledAt
  <2> QED BY <2>2, <2>3
<1>7. Settled'
  BY <1>6 DEF Settled
<1> QED BY <1>2, <1>3, <1>5, <1>7 DEF Safe

LEMMA BeginUploadStep ==
  ASSUME Safe, NEW w \in Workers, NEW u \in Users, NEW s \in Shas, BeginUpload(w, u, s)
  PROVE  Safe'
<1>1. /\ job'[w] = [Idle EXCEPT !.pc = "validated", !.user = u, !.sha = s]
      /\ IsIdle(w) /\ OnlyMoves(w)
      /\ disturbed' = Overlap(w, s) /\ UNCHANGED <<month, file, row>>
  BY DEF BeginUpload, OnlyMoves, Overlap, Safe, TypeOK
<1>2. /\ job'[w] \in Job /\ job'[w].sha = s /\ job'[w].pc = "validated"
      /\ job'[w].user \in Users
  BY <1>1 DEF Idle, Job, PCs
<1> QED BY <1>1, <1>2, BeginStep

LEMMA BeginDeleteStep ==
  ASSUME Safe, NEW w \in Workers, NEW i \in Ids, BeginDelete(w, i)
  PROVE  Safe'
<1>1. row[i] \in Row /\ i \in Ids
  BY DEF BeginDelete, Rows, Safe, TypeOK
<1>2. /\ job'[w] = [pc |-> "deleting", user |-> row[i].user, sha |-> row[i].sha,
                    month |-> row[i].month, id |-> i]
      /\ IsIdle(w) /\ OnlyMoves(w)
  BY DEF BeginDelete, OnlyMoves, Overlap, Safe, TypeOK
<1>3. /\ job'[w] \in Job /\ job'[w].sha = row[i].sha /\ row[i].sha \in Shas
      /\ job'[w].user \in Users /\ job'[w].pc = "deleting" /\ job'[w].month \in Months
  BY <1>1, <1>2 DEF Row, Job, PCs
<1> QED BY <1>2, <1>3, BeginStep DEF BeginDelete

\* A request of one content goes on or ends; what it found or did holds.
LEMMA GoesOn ==
  ASSUME Safe, NEW w \in Workers, NEW s \in Shas, s = job[w].sha, ~IsIdle(w),
         OnlyMoves(w), TypeOK', Shape',
         job'[w].pc = "idle" \/ job'[w].sha = s,
         \A x \in Shas : x # s =>
           /\ \A m \in Months : file'[<<m, x>>] = file[<<m, x>>]
           /\ RowsAt(x)' \subseteq RowsAt(x) /\ \A i \in RowsAt(x)' : row'[i] = row[i],
         s \notin disturbed' => SettledAt(s)'
  PROVE  Safe'
<1>1. Single'
  BY StaysSingle
<1>2. ASSUME NEW x \in Shas \ disturbed', x # s PROVE SettledAt(x)'
  <2>1. job'[w].sha # x
    BY <1>2 DEF Shape, IsIdle, Idle
  <2> QED BY <1>2, <2>1, Frame DEF OnlyMoves
<1>3. Settled'
  BY <1>2 DEF Settled
<1> QED BY <1>1, <1>3 DEF Safe

\* The request of an undisturbed content is the only one on it.
LEMMA OnlyCurrent ==
  ASSUME Safe, NEW w \in Workers, OnlyMoves(w), ~IsIdle(w), NEW s \in Shas, s = job[w].sha,
         s \notin disturbed,
         job'[w].sha = s =>
           /\ job'[w].pc = "opening" => file'[<<job'[w].month, s>>] = "absent"
           /\ job'[w].pc = "writing" => file'[<<job'[w].month, s>>] = "partial"
           /\ job'[w].pc \in {"stored", "inserting"} => file'[<<job'[w].month, s>>] = "whole"
           /\ job'[w].pc = "unlinking" => RowsAt(s)' = {}
  PROVE  /\ Current(s)'
         /\ (\A m \in Months : file'[<<m, s>>] = "partial" =>
               job'[w].pc = "writing" /\ job'[w].month = m /\ job'[w].sha = s) => Written(s)'
<1>1. \A v \in Workers : v # w => job'[v].sha # s
  BY Alone DEF OnlyMoves
<1>2. Current(s)'
  BY <1>1 DEF Current, Path
<1> QED BY <1>2 DEF Written, Path

\* A file of an undisturbed content is partial only while w writes it.
LEMMA PartialIsWritten ==
  ASSUME Safe, NEW w \in Workers, ~IsIdle(w), NEW s \in Shas, s = job[w].sha,
         s \notin disturbed, NEW m \in Months, file[<<m, s>>] = "partial"
  PROVE  job[w].pc = "writing" /\ job[w].month = m
<1>1. SettledAt(s)
  BY DEF Safe, Settled
<1>2. PICK v \in Workers : job[v].pc = "writing" /\ <<job[v].month, job[v].sha>> = <<m, s>>
  BY <1>1 DEF SettledAt, Written, Path
<1>3. v = w
  BY <1>2, Alone
<1> QED BY <1>2, <1>3

\* What is known of the content of w's request, if it is undisturbed.
LEMMA OwnContent ==
  ASSUME Safe, NEW w \in Workers, ~IsIdle(w), NEW s \in Shas, s = job[w].sha, s \notin disturbed
  PROVE  /\ job[w].pc = "opening" => file[<<job[w].month, s>>] = "absent"
         /\ job[w].pc = "writing" => file[<<job[w].month, s>>] = "partial"
         /\ job[w].pc \in {"stored", "inserting"} => file[<<job[w].month, s>>] = "whole"
         /\ job[w].pc = "unlinking" => RowsAt(s) = {}
         /\ \A m \in Months :
              file[<<m, s>>] = "partial" => job[w].pc = "writing" /\ job[w].month = m
         /\ \A i \in RowsAt(s) : row[i] \in Row /\ row[i].sha = s
                                 /\ file[<<row[i].month, s>>] = "whole"
<1>1. SettledAt(s)
  BY DEF Safe, Settled
<1>2. \A m \in Months : file[<<m, s>>] = "partial" => job[w].pc = "writing" /\ job[w].month = m
  BY PartialIsWritten
<1>3. \A i \in RowsAt(s) : row[i] \in Row /\ row[i].sha = s /\ file[<<row[i].month, s>>] = "whole"
  BY <1>1 DEF SettledAt, WholeRows, BlobOf, RowsAt, Rows, Safe, TypeOK
<1> QED BY <1>1, <1>2, <1>3 DEF SettledAt, Current, Path

\* It has no partial file while it is not written.
LEMMA NothingPartial ==
  ASSUME Safe, NEW w \in Workers, ~IsIdle(w), NEW s \in Shas, s = job[w].sha,
         s \notin disturbed, job[w].pc # "writing"
  PROVE  \A m \in Months : file[<<m, s>>] \in {"absent", "whole"}
<1>1. \A m \in Months : file[<<m, s>>] # "partial"
  BY PartialIsWritten
<1> QED BY <1>1 DEF Safe, TypeOK

\* A step that touches no file and no row, to a place where what is claimed is so.
LEMMA LookStep ==
  ASSUME Safe, NEW w \in Workers, NEW s \in Shas, s = job[w].sha, ~IsIdle(w), OnlyMoves(w),
         disturbed' = disturbed, UNCHANGED <<month, file, row>>, job'[w] \in Job,
         \/ job'[w] = Idle
         \/ /\ job'[w].pc # "idle" /\ job'[w].sha = s /\ job'[w].user = job[w].user
            /\ job'[w].pc # "validated" => job'[w].month \in Months,
         s \notin disturbed =>
           /\ job'[w].pc = "opening" => file[<<job'[w].month, s>>] = "absent"
           /\ job'[w].pc \in {"stored", "inserting"} => file[<<job'[w].month, s>>] # "absent"
           /\ job'[w].pc = "unlinking" => RowsAt(s) = {},
         job[w].pc # "writing", job'[w].pc # "writing"
  PROVE  Safe'
<1>1. job[w].user \in Users
  BY JobTyped
<1>2. \A x : RowsAt(x)' = RowsAt(x)
  BY DEF RowsAt, Rows
<1>3. Shape' /\ job' \in [Workers -> Job]
  BY <1>1, StaysShaped DEF Idle
<1>4. TypeOK'
  BY <1>3 DEF Safe, TypeOK
<1>5. ASSUME s \notin disturbed PROVE SettledAt(s)'
  <2>2. \A m \in Months : file[<<m, s>>] \in {"absent", "whole"}
    BY <1>5, NothingPartial
  <2>3. job'[w].sha = s /\ job'[w].pc \in {"stored", "inserting"} =>
          file[<<job'[w].month, s>>] = "whole"
    BY <1>5, <2>2 DEF Idle
  <2>4. Current(s)'
    BY <1>2, <1>5, <2>3, OnlyCurrent
  <2>5. Written(s)'
    BY <2>2 DEF Written
  <2>6. WholeRows(s)'
    BY <1>2, <1>5 DEF Safe, Settled, SettledAt, WholeRows, BlobOf
  <2> QED BY <2>4, <2>5, <2>6 DEF SettledAt
<1> QED
  <2>1. job'[w].pc = "idle" \/ job'[w].sha = s
    BY DEF Idle
  <2> QED BY <1>2, <1>3, <1>4, <1>5, <2>1, GoesOn

LEMMA ProbeBlobStep == ASSUME Safe, NEW w \in Workers, ProbeBlob(w) PROVE Safe'
<1>1. PICK s : s = job[w].sha
  OBVIOUS
<1>2. /\ job[w] \in Job /\ ~IsIdle(w) /\ month \in Months /\ job[w].pc = "validated"
      /\ s \in Shas
  BY <1>1, JobTyped DEF ProbeBlob, IsIdle, Safe, TypeOK
<1> DEFINE next == IF file[<<month, s>>] = "absent" THEN "opening" ELSE "stored"
<1>3. /\ job'[w] = [job[w] EXCEPT !.month = month, !.pc = next]
      /\ OnlyMoves(w) /\ disturbed' = disturbed /\ UNCHANGED <<month, file, row>>
  BY <1>1, <1>2 DEF ProbeBlob, OnlyMoves, Safe, TypeOK
<1>4. /\ job'[w] \in Job /\ job'[w].month = month /\ job'[w].sha = s
      /\ job'[w].user = job[w].user /\ job'[w].pc = next
  BY <1>1, <1>2, <1>3 DEF Job, PCs
<1>5. /\ next \notin {"idle", "validated", "writing", "inserting", "unlinking"}
      /\ next = "opening" => file[<<month, s>>] = "absent"
      /\ next = "stored" => file[<<month, s>>] # "absent"
  OBVIOUS
<1> HIDE DEF next
<1> QED BY <1>1, <1>2, <1>3, <1>4, <1>5, LookStep

LEMMA FindRowStep == ASSUME Safe, NEW w \in Workers, FindRow(w) PROVE Safe'
<1>1. PICK s : s = job[w].sha
  OBVIOUS
<1>2. /\ job[w] \in Job /\ ~IsIdle(w) /\ job[w].pc = "stored" /\ s \in Shas
      /\ job[w].month \in Months
  BY <1>1, JobTyped DEF FindRow, IsIdle, Safe, Shape
<1>3. /\ OnlyMoves(w) /\ disturbed' = disturbed /\ UNCHANGED <<month, file, row>>
      /\ job'[w] = Idle \/ job'[w] = [job[w] EXCEPT !.pc = "inserting"]
  BY DEF FindRow, OnlyMoves, Safe, TypeOK
<1>4. /\ job'[w] \in Job
      /\ \/ job'[w] = Idle
         \/ /\ job'[w].pc = "inserting" /\ job'[w].sha = s /\ job'[w].user = job[w].user
            /\ job'[w].month = job[w].month
  BY <1>1, <1>2, <1>3 DEF Job, PCs, Idle
<1>5. s \notin disturbed => file[<<job[w].month, s>>] = "whole"
  BY <1>1, <1>2, OwnContent
<1>6. Idle.pc = "idle"
  BY DEF Idle
<1> QED BY <1>1, <1>2, <1>3, <1>4, <1>5, <1>6, LookStep

LEMMA CountReferencesStep == ASSUME Safe, NEW w \in Workers, CountReferences(w) PROVE Safe'
<1>1. PICK s : s = job[w].sha
  OBVIOUS
<1>2. /\ job[w] \in Job /\ ~IsIdle(w) /\ job[w].pc = "counting" /\ s \in Shas
      /\ job[w].month \in Months
  BY <1>1, JobTyped DEF CountReferences, IsIdle, Safe, Shape
<1>3. /\ OnlyMoves(w) /\ disturbed' = disturbed /\ UNCHANGED <<month, file, row>>
      /\ \/ job'[w] = Idle
         \/ RowsAt(s) = {} /\ job'[w] = [job[w] EXCEPT !.pc = "unlinking"]
  BY <1>1 DEF CountReferences, OnlyMoves, Safe, TypeOK
<1>4. /\ job'[w] \in Job
      /\ \/ job'[w] = Idle
         \/ /\ job'[w].pc = "unlinking" /\ job'[w].sha = s /\ job'[w].user = job[w].user
            /\ job'[w].month = job[w].month /\ RowsAt(s) = {}
  BY <1>1, <1>2, <1>3 DEF Job, PCs, Idle
<1>5. Idle.pc = "idle"
  BY DEF Idle
<1> QED BY <1>1, <1>2, <1>3, <1>4, <1>5, LookStep

\* A request that opens, writes or unlinks its file.
LEMMA FileStep ==
  ASSUME Safe, NEW w \in Workers, NEW s \in Shas, s = job[w].sha, ~IsIdle(w),
         NEW m \in Months, m = job[w].month, NEW found \in {"absent", "partial", "whole"},
         OnlyMoves(w), disturbed' = disturbed, UNCHANGED <<month, row>>,
         file' = [file EXCEPT ![<<m, s>>] = found], job'[w] \in Job,
         \/ job'[w] = Idle
         \/ /\ job'[w].pc \in {"writing", "stored"} /\ job'[w].sha = s
            /\ job'[w].user = job[w].user /\ job'[w].month = m,
         s \notin disturbed =>
           /\ \/ found = "partial" /\ job'[w].pc = "writing"
              \/ found = "whole" /\ job'[w].pc = "stored"
              \/ found = "absent" /\ job'[w] = Idle
           /\ found # "whole" => \A i \in RowsAt(s) : row[i].month # m
  PROVE  Safe'
<1>1. job[w].user \in Users
  BY JobTyped
<1>2. \A x : RowsAt(x)' = RowsAt(x)
  BY DEF RowsAt, Rows
<1>3. Shape' /\ job' \in [Workers -> Job]
  BY <1>1, StaysShaped DEF Idle
<1>4. TypeOK'
  BY <1>3 DEF Safe, TypeOK
<1>5. \A x \in Shas, n \in Months : <<n, x>> # <<m, s>> => file'[<<n, x>>] = file[<<n, x>>]
  BY DEF Safe, TypeOK
<1>6. file'[<<m, s>>] = found
  BY DEF Safe, TypeOK
<1>7. ASSUME s \notin disturbed PROVE SettledAt(s)'
  <2>1. /\ \A n \in Months : file[<<n, s>>] = "partial" => job[w].month = n
        /\ \A i \in RowsAt(s) : row[i] \in Row /\ row[i].sha = s
                                /\ file[<<row[i].month, s>>] = "whole"
    BY <1>7, OwnContent
  <2>2. \A n \in Months : file'[<<n, s>>] = "partial" =>
          job'[w].pc = "writing" /\ job'[w].month = n /\ job'[w].sha = s
    BY <1>5, <1>6, <1>7, <2>1 DEF Idle
  <2>3. job'[w].sha = s =>
          /\ job'[w].month = m /\ file'[<<job'[w].month, s>>] = found
          /\ \/ found = "partial" /\ job'[w].pc = "writing"
             \/ found = "whole" /\ job'[w].pc = "stored"
    BY <1>6, <1>7 DEF Idle
  <2>4. Current(s)' /\ Written(s)'
    BY <1>7, <2>2, <2>3, OnlyCurrent
  <2>5. WholeRows(s)'
    <3> SUFFICES ASSUME NEW i \in RowsAt(s) PROVE file'[<<row[i].month, row[i].sha>>] = "whole"
      BY <1>2 DEF WholeRows, BlobOf
    <3>1. row[i].sha = s /\ row[i].month \in Months /\ file[<<row[i].month, s>>] = "whole"
      BY <2>1 DEF Row
    <3>2. CASE row[i].month = m
      BY <1>6, <1>7, <3>1, <3>2
    <3>3. CASE row[i].month # m
      BY <1>5, <3>1, <3>3
    <3> QED BY <3>2, <3>3
  <2> QED BY <2>4, <2>5 DEF SettledAt
<1>8. job'[w].pc = "idle" \/ job'[w].sha = s
  BY DEF Idle
<1>9. \A x \in Shas : x # s =>
        /\ \A n \in Months : file'[<<n, x>>] = file[<<n, x>>]
        /\ RowsAt(x)' \subseteq RowsAt(x) /\ \A i \in RowsAt(x)' : row'[i] = row[i]
  BY <1>2, <1>5
<1> QED BY <1>3, <1>4, <1>7, <1>8, <1>9, GoesOn

LEMMA OpenBlobStep == ASSUME Safe, NEW w \in Workers, OpenBlob(w) PROVE Safe'
<1>1. PICK s, m : s = job[w].sha /\ m = job[w].month
  OBVIOUS
<1>2. /\ job[w] \in Job /\ ~IsIdle(w) /\ job[w].pc = "opening" /\ s \in Shas /\ m \in Months
  BY <1>1, JobTyped DEF OpenBlob, IsIdle, Safe, Shape
<1>3. /\ OnlyMoves(w) /\ disturbed' = disturbed /\ UNCHANGED <<month, row>>
      /\ job'[w] = [job[w] EXCEPT !.pc = "writing"]
      /\ file' = [file EXCEPT ![<<m, s>>] = "partial"]
  BY <1>1 DEF OpenBlob, OnlyMoves, Path, Safe, TypeOK
<1>4. /\ job'[w] \in Job /\ job'[w].pc = "writing" /\ job'[w].sha = s
      /\ job'[w].user = job[w].user /\ job'[w].month = m
  BY <1>1, <1>2, <1>3 DEF Job, PCs
<1>5. s \notin disturbed => \A i \in RowsAt(s) : row[i].month # m
  <2> SUFFICES ASSUME s \notin disturbed PROVE \A i \in RowsAt(s) : row[i].month # m
    OBVIOUS
  <2>1. /\ file[<<job[w].month, s>>] = "absent"
        /\ \A i \in RowsAt(s) : file[<<row[i].month, s>>] = "whole"
    BY <1>1, <1>2, OwnContent
  <2> QED BY <1>1, <2>1
<1> QED BY <1>1, <1>2, <1>3, <1>4, <1>5, FileStep

LEMMA WriteBlobStep == ASSUME Safe, NEW w \in Workers, WriteBlob(w) PROVE Safe'
<1>1. PICK s, m : s = job[w].sha /\ m = job[w].month
  OBVIOUS
<1>2. /\ job[w] \in Job /\ ~IsIdle(w) /\ job[w].pc = "writing" /\ s \in Shas /\ m \in Months
  BY <1>1, JobTyped DEF WriteBlob, IsIdle, Safe, Shape
<1>3. PICK found : found = IF file[<<m, s>>] = "absent" THEN "absent" ELSE "whole"
  OBVIOUS
<1>4. /\ OnlyMoves(w) /\ disturbed' = disturbed /\ UNCHANGED <<month, row>>
      /\ job'[w] = [job[w] EXCEPT !.pc = "stored"]
      /\ file' = [file EXCEPT ![<<m, s>>] = found]
  BY <1>1, <1>2, <1>3 DEF WriteBlob, OnlyMoves, Path, Safe, TypeOK
<1>5. /\ job'[w] \in Job /\ job'[w].pc = "stored" /\ job'[w].sha = s
      /\ job'[w].user = job[w].user /\ job'[w].month = m
  BY <1>1, <1>2, <1>4 DEF Job, PCs
<1>6. s \notin disturbed => found = "whole"
  <2> SUFFICES ASSUME s \notin disturbed PROVE file[<<job[w].month, s>>] = "partial"
    BY <1>1, <1>3
  <2> QED BY <1>1, <1>2, OwnContent
<1> QED BY <1>1, <1>2, <1>3, <1>4, <1>5, <1>6, FileStep

LEMMA UnlinkBlobStep == ASSUME Safe, NEW w \in Workers, UnlinkBlob(w) PROVE Safe'
<1>1. PICK s, m : s = job[w].sha /\ m = job[w].month
  OBVIOUS
<1>2. /\ job[w] \in Job /\ ~IsIdle(w) /\ job[w].pc = "unlinking" /\ s \in Shas /\ m \in Months
  BY <1>1, JobTyped DEF UnlinkBlob, IsIdle, Safe, Shape
<1>3. /\ OnlyMoves(w) /\ disturbed' = disturbed /\ UNCHANGED <<month, row>>
      /\ job'[w] = Idle /\ Idle \in Job
      /\ file' = [file EXCEPT ![<<m, s>>] = "absent"]
  BY <1>1 DEF UnlinkBlob, OnlyMoves, Path, Safe, TypeOK, Idle, Job, PCs
<1>4. s \notin disturbed => RowsAt(s) = {}
  <2> SUFFICES ASSUME s \notin disturbed PROVE RowsAt(s) = {}
    OBVIOUS
  <2> QED BY <1>1, <1>2, OwnContent
<1> QED BY <1>1, <1>2, <1>3, <1>4, FileStep

\* A request that changes rows of its content only, or only removes rows.
LEMMA RowStep ==
  ASSUME Safe, NEW w \in Workers, NEW s \in Shas, s = job[w].sha, ~IsIdle(w), OnlyMoves(w),
         disturbed' = disturbed, UNCHANGED <<month, file>>, row' \in [Ids -> Row \cup {None}],
         job'[w] \in Job,
         \/ job'[w] = Idle
         \/ /\ job'[w].pc = "counting" /\ job'[w].sha = s /\ job'[w].user = job[w].user
            /\ job'[w].month \in Months,
         \A i \in Ids : \/ row'[i] \in {None, row[i]}
                        \/ /\ row'[i].sha = s
                           /\ s \notin disturbed => file[<<row'[i].month, s>>] = "whole",
         job[w].pc # "writing"
  PROVE  Safe'
<1>1. job[w].user \in Users
  BY JobTyped
<1>2. \A x, i : i \in RowsAt(x)' <=> i \in Ids /\ row'[i] # None /\ row'[i].sha = x
  BY DEF RowsAt, Rows
<1>3. \A x, i : i \in RowsAt(x) <=> i \in Ids /\ row[i] # None /\ row[i].sha = x
  BY DEF RowsAt, Rows
<1>4. Shape' /\ job' \in [Workers -> Job]
  BY <1>1, StaysShaped DEF Idle
<1>5. TypeOK'
  BY <1>4 DEF Safe, TypeOK
<1>6. ASSUME NEW x \in Shas, x # s
      PROVE  RowsAt(x)' \subseteq RowsAt(x) /\ \A i \in RowsAt(x)' : row'[i] = row[i]
  <2> SUFFICES ASSUME NEW i \in RowsAt(x)' PROVE i \in RowsAt(x) /\ row'[i] = row[i]
    OBVIOUS
  <2>1. i \in Ids /\ row'[i] # None /\ row'[i].sha = x
    BY <1>2
  <2>2. row'[i] = row[i]
    BY <1>6, <2>1
  <2> QED BY <1>3, <2>1, <2>2
<1>7. ASSUME s \notin disturbed PROVE SettledAt(s)'
  <2>1. \A m \in Months : file[<<m, s>>] \in {"absent", "whole"}
    BY <1>7, NothingPartial
  <2>2. Current(s)'
    <3>1. job'[w].sha = s => job'[w].pc = "counting"
      BY DEF Idle
    <3> QED BY <1>7, <3>1, OnlyCurrent
  <2>3. Written(s)'
    BY <2>1 DEF Written
  <2>4. WholeRows(s)'
    <3> SUFFICES ASSUME NEW i \in Ids, row'[i] # None, row'[i].sha = s
                 PROVE  file[<<row'[i].month, s>>] = "whole"
      BY <1>2 DEF WholeRows, BlobOf
    <3>1. CASE row'[i] = row[i]
      <4>1. i \in RowsAt(s)
        BY <1>3, <3>1
      <4>2. \A j \in RowsAt(s) : file[<<row[j].month, s>>] = "whole"
        BY <1>7, OwnContent
      <4> QED BY <3>1, <4>1, <4>2
    <3>2. CASE row'[i] # row[i]
      BY <1>7, <3>2
    <3> QED BY <3>1, <3>2
  <2> QED BY <2>2, <2>3, <2>4 DEF SettledAt
<1>8. job'[w].pc = "idle" \/ job'[w].sha = s
  BY DEF Idle
<1>9. \A x \in Shas : x # s =>
        /\ \A m \in Months : file'[<<m, x>>] = file[<<m, x>>]
        /\ RowsAt(x)' \subseteq RowsAt(x) /\ \A i \in RowsAt(x)' : row'[i] = row[i]
  BY <1>6
<1> QED BY <1>4, <1>5, <1>7, <1>8, <1>9, GoesOn

LEMMA InsertRowStep == ASSUME Safe, NEW w \in Workers, InsertRow(w) PROVE Safe'
<1>1. PICK s : s = job[w].sha
  OBVIOUS
<1>2. /\ job[w] \in Job /\ ~IsIdle(w) /\ job[w].pc = "inserting" /\ s \in Shas
      /\ job[w].user \in Users /\ job[w].month \in Months /\ NextId \in Ids
  BY <1>1, JobTyped DEF InsertRow, IsIdle, Safe, Shape
<1> DEFINE new == [user |-> job[w].user, sha |-> s, month |-> job[w].month]
<1>3. /\ OnlyMoves(w) /\ disturbed' = disturbed /\ UNCHANGED <<month, file>>
      /\ job'[w] = Idle /\ Idle \in Job
      /\ row' = row \/ row' = [row EXCEPT ![NextId] = new]
  BY <1>1 DEF InsertRow, OnlyMoves, Safe, TypeOK, Idle, Job, PCs
<1>4. new \in Row
  BY <1>2 DEF Row
<1>5. new.sha = s /\ new.month = job[w].month
  OBVIOUS
<1> HIDE DEF new
<1>6. row' \in [Ids -> Row \cup {None}] /\ \A i \in Ids : row'[i] \in {row[i], new}
  BY <1>3, <1>4 DEF Safe, TypeOK
<1>7. s \notin disturbed => file[<<job[w].month, s>>] = "whole"
  <2> SUFFICES ASSUME s \notin disturbed PROVE file[<<job[w].month, s>>] = "whole"
    OBVIOUS
  <2> QED BY <1>1, <1>2, OwnContent
<1> QED BY <1>1, <1>2, <1>3, <1>5, <1>6, <1>7, RowStep

LEMMA DeleteRowStep == ASSUME Safe, NEW w \in Workers, DeleteRow(w) PROVE Safe'
<1>1. PICK s : s = job[w].sha
  OBVIOUS
<1>2. /\ job[w] \in Job /\ ~IsIdle(w) /\ job[w].pc = "deleting" /\ s \in Shas
      /\ job[w].month \in Months
  BY <1>1, JobTyped DEF DeleteRow, IsIdle, Safe, Shape
<1>3. /\ OnlyMoves(w) /\ disturbed' = disturbed /\ UNCHANGED <<month, file>>
      /\ job'[w] = [job[w] EXCEPT !.pc = "counting", !.id = None]
      /\ row' \in [Ids -> Row \cup {None}] /\ \A i \in Ids : row'[i] \in {None, row[i]}
  BY DEF DeleteRow, OnlyMoves, Safe, TypeOK
<1>4. /\ job'[w] \in Job /\ job'[w].pc = "counting" /\ job'[w].sha = s
      /\ job'[w].user = job[w].user /\ job'[w].month = job[w].month
  BY <1>1, <1>2, <1>3 DEF Job, PCs
<1> QED BY <1>1, <1>2, <1>3, <1>4, RowStep

LEMMA AbortStep == ASSUME Safe, NEW w \in Workers, Abort(w) PROVE Safe'
<1>1. PICK s : s = job[w].sha
  OBVIOUS
<1>2. ~IsIdle(w) /\ s \in Shas /\ job[w].user \in Users
  BY <1>1, JobTyped DEF Abort
<1>3. /\ OnlyMoves(w) /\ UNCHANGED <<month, file, row>> /\ job'[w] = Idle /\ Idle \in Job
      /\ disturbed \subseteq disturbed' /\ disturbed' \subseteq disturbed \cup {s}
      /\ s \notin disturbed' => job[w].pc # "writing"
  BY <1>1 DEF Abort, OnlyMoves, Safe, TypeOK, Idle, Job, PCs
<1>4. \A x : RowsAt(x)' = RowsAt(x)
  BY <1>3 DEF RowsAt, Rows
<1>5. Shape' /\ job' \in [Workers -> Job]
  BY <1>3, StaysShaped DEF Idle
<1>6. TypeOK'
  BY <1>2, <1>3, <1>5 DEF Safe, TypeOK
<1>7. ASSUME s \notin disturbed' PROVE SettledAt(s)'
  <2>1. s \notin disturbed /\ job[w].pc # "writing"
    BY <1>3, <1>7
  <2>2. \A m \in Months : file[<<m, s>>] \in {"absent", "whole"}
    BY <1>1, <1>2, <2>1, NothingPartial
  <2>3. Idle.pc = "idle" /\ Idle.sha # s
    BY <1>2 DEF Idle
  <2>4. Current(s)'
    BY <1>1, <1>2, <1>3, <2>1, <2>3, OnlyCurrent
  <2>5. Written(s)'
    BY <1>3, <2>2 DEF Written
  <2>6. WholeRows(s)'
    BY <1>2, <1>3, <1>4, <2>1 DEF Safe, Settled, SettledAt, WholeRows, BlobOf
  <2> QED BY <2>4, <2>5, <2>6 DEF SettledAt
<1>8. job'[w].pc = "idle"
  BY <1>3 DEF Idle
<1> QED BY <1>1, <1>2, <1>3, <1>4, <1>5, <1>6, <1>7, <1>8, GoesOn

LEMMA NextMonthStep == ASSUME Safe, NextMonth \/ UNCHANGED vars PROVE Safe'
<1>1. UNCHANGED <<file, row, job, disturbed>> /\ month' \in Months
  BY DEF NextMonth, vars, Safe, TypeOK, Months
<1> QED BY <1>1 DEF Safe, TypeOK, Shape, Single, Settled, SettledAt, WholeRows, Written, Current,
                    IsIdle, RowsAt, Rows, BlobOf, Path

LEMMA SafeNext == ASSUME Safe, [Next]_vars PROVE Safe'
  BY BeginUploadStep, ProbeBlobStep, OpenBlobStep, WriteBlobStep, FindRowStep, InsertRowStep,
     BeginDeleteStep, DeleteRowStep, CountReferencesStep, UnlinkBlobStep, AbortStep,
     NextMonthStep DEF Next

LEMMA SafeInit == Init => Safe
<1> SUFFICES ASSUME Init PROVE Safe
  OBVIOUS
<1>1. TypeOK
  BY DEF Init, TypeOK, Idle, Job, PCs, Months
<1>2. \A w \in Workers : job[w] = Idle /\ Idle.pc = "idle" /\ Idle.sha = None
  BY DEF Init, Idle
<1>3. Shape /\ Single
  BY <1>2 DEF Shape, Single, IsIdle
<1>4. ASSUME NEW s \in Shas PROVE SettledAt(s)
  <2>1. RowsAt(s) = {}
    BY DEF Init, RowsAt, Rows
  <2>2. \A m \in Months : file[<<m, s>>] = "absent"
    BY DEF Init
  <2> QED BY <1>2, <2>1, <2>2 DEF SettledAt, WholeRows, Written, Current
<1> QED BY <1>1, <1>3, <1>4 DEF Safe, Settled

(* The quota.                                                              *)

JobsOf(u) == {w \in Uploaders : job[w].user = u}

LEMMA Counted ==
  ASSUME NEW u
  PROVE  /\ IsFiniteSet(RowsOf(u)) /\ IsFiniteSet(JobsOf(u))
         /\ Cardinality(RowsOf(u)) \in Nat /\ Cardinality(JobsOf(u)) \in Nat
         /\ Cardinality(JobsOf(u)) <= Cardinality(Uploaders) /\ Cardinality(Uploaders) \in Nat
<1>1. IsFiniteSet(Ids)
  BY FS_Interval DEF Ids
<1>2. RowsOf(u) \subseteq Ids
  BY DEF RowsOf, Rows
<1>3. JobsOf(u) \subseteq Uploaders
  BY DEF JobsOf
<1>4. IsFiniteSet(RowsOf(u)) /\ IsFiniteSet(JobsOf(u))
  BY <1>1, <1>2, <1>3, FS_Subset
<1>5. Cardinality(JobsOf(u)) <= Cardinality(Uploaders)
  BY <1>3, FS_Subset
<1> QED BY <1>4, <1>5, FS_CardinalityType

\* A user's rows and uploads stay within bounds if they only become fewer, ...
LEMMA Fewer ==
  ASSUME NEW R, NEW R2, NEW J, NEW J2, IsFiniteSet(R), IsFiniteSet(J),
         R2 \subseteq R, J2 \subseteq J, NEW n \in Int,
         Cardinality(R) + Cardinality(J) <= n
  PROVE  Cardinality(R2) + Cardinality(J2) <= n
<1>1. Cardinality(R2) <= Cardinality(R) /\ Cardinality(J2) <= Cardinality(J)
  BY FS_Subset
<1>2. /\ Cardinality(R) \in Nat /\ Cardinality(J) \in Nat
      /\ Cardinality(R2) \in Nat /\ Cardinality(J2) \in Nat
  BY FS_Subset, FS_CardinalityType
<1> QED BY <1>1, <1>2

\* ... or an upload becomes a row.
LEMMA Inserted ==
  ASSUME NEW R, NEW R2, NEW J, NEW J2, IsFiniteSet(R), IsFiniteSet(J),
         NEW i, R2 \subseteq R \cup {i}, NEW w \in J, J2 \subseteq J \ {w},
         NEW n \in Int, Cardinality(R) + Cardinality(J) <= n
  PROVE  Cardinality(R2) + Cardinality(J2) <= n
<1>1. /\ IsFiniteSet(R \cup {i}) /\ Cardinality(R \cup {i}) <= Cardinality(R) + 1
      /\ Cardinality(R) \in Nat /\ Cardinality(R \cup {i}) \in Nat
  <2>1. /\ IsFiniteSet(R \cup {i})
        /\ Cardinality(R \cup {i}) = IF i \in R THEN Cardinality(R) ELSE Cardinality(R) + 1
    BY FS_AddElement
  <2>2. Cardinality(R) \in Nat
    BY FS_CardinalityType
  <2> QED BY <2>1, <2>2
<1>2. /\ IsFiniteSet(J \ {w}) /\ Cardinality(J \ {w}) = Cardinality(J) - 1
      /\ Cardinality(J) \in Nat
  BY FS_RemoveElement, FS_CardinalityType
<1>3. Cardinality(R \cup {i}) + Cardinality(J \ {w}) <= n
  BY <1>1, <1>2
<1> QED BY <1>1, <1>2, <1>3, Fewer

LEMMA RolesNext == ASSUME Safe, Roles, [Next]_vars PROVE Roles'
<1>1. ASSUME NEW w \in Workers, NEW u \in Users, NEW s \in Shas, BeginUpload(w, u, s)
      PROVE  Roles'
  BY <1>1 DEF BeginUpload, Roles, Safe, TypeOK
<1>2. ASSUME NEW w \in Workers, NEW i \in Ids, BeginDelete(w, i) PROVE Roles'
  BY <1>2 DEF BeginDelete, Roles, Safe, TypeOK
<1>3. ASSUME NEW w \in Workers, ProbeBlob(w) \/ OpenBlob(w) \/ WriteBlob(w) PROVE Roles'
  BY <1>3 DEF ProbeBlob, OpenBlob, WriteBlob, Roles, Safe, TypeOK, Job
<1>4. ASSUME NEW w \in Workers, FindRow(w) \/ InsertRow(w) PROVE Roles'
  BY <1>4 DEF FindRow, InsertRow, Roles, Safe, TypeOK, Job, Idle
<1>5. ASSUME NEW w \in Workers,
             DeleteRow(w) \/ CountReferences(w) \/ UnlinkBlob(w) \/ Abort(w)
      PROVE  Roles'
  BY <1>5 DEF DeleteRow, CountReferences, UnlinkBlob, Abort, Roles, Safe, TypeOK, Job, Idle
<1>6. CASE NextMonth \/ UNCHANGED vars
  BY <1>6 DEF NextMonth, vars, Roles
<1> QED BY <1>1, <1>2, <1>3, <1>4, <1>5, <1>6 DEF Next

\* The quota of one user.
Within(u) ==
  Cardinality(RowsOf(u)) + Cardinality(JobsOf(u)) <= Quota + (Cardinality(Uploaders) - 1)

LEMMA WithinNext ==
  ASSUME Safe, Roles, NEW u \in Users, Within(u), [Next]_vars
  PROVE  Within(u)'
<1> DEFINE n == Quota + (Cardinality(Uploaders) - 1)
<1>1. n \in Int
  BY Counted
<1>2. ASSUME RowsOf(u)' \subseteq RowsOf(u), JobsOf(u)' \subseteq JobsOf(u)
      PROVE  Within(u)'
  <2> HIDE DEF n
  <2>1. Cardinality(RowsOf(u)) + Cardinality(JobsOf(u)) <= n
    BY DEF Within, n
  <2>2. Cardinality(RowsOf(u)') + Cardinality(JobsOf(u)') <= n
    BY <1>1, <1>2, <2>1, Counted, Fewer
  <2> QED BY <2>2 DEF Within, n
<1>3. ASSUME NEW w \in Workers, NEW v \in Users, NEW s \in Shas, BeginUpload(w, v, s)
      PROVE  Within(u)'
  <2>1. RowsOf(u)' = RowsOf(u)
    BY <1>3 DEF BeginUpload, RowsOf, Rows
  <2>2. CASE u = v
    <3>1. Cardinality(RowsOf(u)) < Quota
      BY <1>3, <2>2 DEF BeginUpload
    <3>2. JobsOf(u)' \subseteq Uploaders
      BY DEF JobsOf
    <3>3. /\ Cardinality(JobsOf(u)') <= Cardinality(Uploaders)
          /\ Cardinality(JobsOf(u)') \in Nat
      BY <3>2, FS_Subset, FS_CardinalityType
    <3>4. Cardinality(RowsOf(u)) \in Nat /\ Cardinality(Uploaders) \in Nat
      BY Counted
    <3> QED BY <2>1, <3>1, <3>3, <3>4 DEF Within
  <2>3. CASE u # v
    <3>1. JobsOf(u)' \subseteq JobsOf(u)
      BY <1>3, <2>3 DEF BeginUpload, JobsOf, Safe, TypeOK, Workers
    <3> QED BY <1>2, <2>1, <3>1
  <2> QED BY <2>2, <2>3
<1>4. ASSUME NEW w \in Workers, NEW i \in Ids, BeginDelete(w, i) PROVE Within(u)'
  <2>1. RowsOf(u)' = RowsOf(u)
    BY <1>4 DEF BeginDelete, RowsOf, Rows
  <2>2. JobsOf(u)' = JobsOf(u)
    BY <1>4 DEF BeginDelete, JobsOf, Safe, TypeOK, Workers
  <2> QED BY <1>2, <2>1, <2>2
<1>5. ASSUME NEW w \in Workers, ProbeBlob(w) \/ OpenBlob(w) \/ WriteBlob(w) \/ FindRow(w)
                                \/ CountReferences(w) \/ UnlinkBlob(w) \/ Abort(w)
      PROVE  Within(u)'
  <2>1. RowsOf(u)' = RowsOf(u)
    BY <1>5 DEF ProbeBlob, OpenBlob, WriteBlob, FindRow, CountReferences, UnlinkBlob, Abort,
                RowsOf, Rows
  <2>2. \A v \in Workers : job'[v].user \in {job[v].user, None}
    BY <1>5 DEF ProbeBlob, OpenBlob, WriteBlob, FindRow, CountReferences, UnlinkBlob, Abort,
                Safe, TypeOK, Job, Idle
  <2>3. JobsOf(u)' \subseteq JobsOf(u)
    BY <2>2 DEF JobsOf, Workers
  <2> QED BY <1>2, <2>1, <2>3
<1>6. ASSUME NEW w \in Workers, DeleteRow(w) PROVE Within(u)'
  <2>1. RowsOf(u)' \subseteq RowsOf(u)
    BY <1>6 DEF DeleteRow, RowsOf, Rows, Safe, TypeOK
  <2>2. \A v \in Workers : job'[v].user = job[v].user
    BY <1>6 DEF DeleteRow, Safe, TypeOK, Job
  <2>3. JobsOf(u)' \subseteq JobsOf(u)
    BY <2>2 DEF JobsOf, Workers
  <2> QED BY <1>2, <2>1, <2>3
<1>7. ASSUME NEW w \in Workers, InsertRow(w) PROVE Within(u)'
  <2>1. /\ \A v \in Workers : v # w => job'[v] = job[v]
        /\ job'[w].user = None /\ w \in Uploaders
    BY <1>7 DEF InsertRow, Roles, Safe, TypeOK, Idle
  <2>2. JobsOf(u)' = JobsOf(u) \ {w}
    BY <2>1 DEF JobsOf, Workers
  <2>3. CASE job[w].user = u
    <3>1. w \in JobsOf(u)
      BY <2>1, <2>3 DEF JobsOf
    <3>2. RowsOf(u)' \subseteq RowsOf(u) \cup {NextId}
      BY <1>7 DEF InsertRow, RowsOf, Rows, Safe, TypeOK
    <3> HIDE DEF n
    <3>3. Cardinality(RowsOf(u)) + Cardinality(JobsOf(u)) <= n
      BY DEF Within, n
    <3>4. Cardinality(RowsOf(u)') + Cardinality(JobsOf(u)') <= n
      BY <1>1, <2>2, <3>1, <3>2, <3>3, Counted, Inserted
    <3> QED BY <3>4 DEF Within, n
  <2>4. CASE job[w].user # u
    <3>1. RowsOf(u)' \subseteq RowsOf(u)
      BY <1>7, <2>4 DEF InsertRow, RowsOf, Rows, Safe, TypeOK
    <3> QED BY <1>2, <2>2, <3>1
  <2> QED BY <2>3, <2>4
<1>8. CASE NextMonth \/ UNCHANGED vars
  <2>1. RowsOf(u)' = RowsOf(u) /\ JobsOf(u)' = JobsOf(u)
    BY <1>8 DEF NextMonth, vars, RowsOf, Rows, JobsOf
  <2> QED BY <1>2, <2>1
<1> QED BY <1>3, <1>4, <1>5, <1>6, <1>7, <1>8 DEF Next

LEMMA WithinInit == ASSUME Init, NEW u \in Users PROVE Within(u)
<1>1. RowsOf(u) = {} /\ JobsOf(u) = {}
  BY DEF Init, RowsOf, Rows, JobsOf, Workers, Idle
<1>2. Cardinality(RowsOf(u)) = 0 /\ Cardinality(JobsOf(u)) = 0
  BY <1>1, FS_EmptySet
<1>3. Cardinality(Uploaders) \in Nat
  BY Counted
<1> QED BY <1>2, <1>3 DEF Within

-----------------------------------------------------------------------------
(* Theorems.                                                               *)

\* IInv holds in every state.
THEOREM Inductive == Spec => []IInv
<1>1. QuotaOverrunBounded <=> \A u \in Users : Within(u)
  BY DEF QuotaOverrunBounded, Within, JobsOf
<1>2. Init => IInv
  BY <1>1, SafeInit, WithinInit DEF IInv, Roles, Init, Idle
<1>3. IInv /\ [Next]_vars => IInv'
  <2> SUFFICES ASSUME IInv, [Next]_vars PROVE IInv'
    OBVIOUS
  <2>1. Safe' /\ Roles'
    BY SafeNext, RolesNext DEF IInv
  <2>2. \A u \in Users : Within(u)'
    BY <1>1, WithinNext DEF IInv
  <2>3. QuotaOverrunBounded'
    BY <2>2 DEF QuotaOverrunBounded, Within, JobsOf
  <2> QED BY <2>1, <2>3 DEF IInv
<1> QED BY <1>2, <1>3, PTL DEF Spec

\* The tables, the files and the requests have their types.
THEOREM TypeCorrect == Spec => []TypeOK
<1>1. IInv => TypeOK
  BY DEF IInv, Safe
<1> QED BY <1>1, Inductive, PTL

\* A row loses its file only if requests overlapped on the content or a write
\* was cut short (attachments.py:255-296, :359-392, :411-437).
THEOREM FilesAreKept == Spec => []LossNeedsOverlap
<1>1. IInv => LossNeedsOverlap
  <2> SUFFICES ASSUME IInv, NEW i \in Rows, row[i].sha \notin disturbed
               PROVE  BlobOf(i) = "whole"
    BY DEF LossNeedsOverlap
  <2>1. PICK s : s = row[i].sha
    OBVIOUS
  <2>2. s \in Shas /\ i \in RowsAt(s)
    BY <2>1 DEF IInv, Safe, TypeOK, Row, Rows, RowsAt
  <2>3. WholeRows(s)
    BY <2>1, <2>2 DEF IInv, Safe, Settled, SettledAt
  <2> QED BY <2>2, <2>3 DEF WholeRows
<1> QED BY <1>1, Inductive, PTL

\* Concurrent uploads overrun a user's quota by one attachment for each other
\* uploader at most (attachments.py:240-249).
THEOREM QuotaHolds == Spec => []QuotaOverrunBounded
<1>1. IInv => QuotaOverrunBounded
  BY DEF IInv
<1> QED BY <1>1, Inductive, PTL
=============================================================================
