----------------------------- MODULE Migrations -----------------------------
(***************************************************************************)
(* The schema of the database: scripts/apply_migrations.py, which applies  *)
(* the files of migrations/ and records them in schema_versions, and who   *)
(* runs it.  On a Docker site the api container runs it at every start,    *)
(* then serves, and the mcp container waits for that; on a host setup.sh   *)
(* runs scripts/init_db.py first.  On both an operator may run it from a   *)
(* shell at any time.                                                      *)
(*                                                                         *)
(* The drivers begin a transaction before an INSERT but not before a       *)
(* CREATE or an ALTER, so every statement of a file is on disk at once;    *)
(* the record is not before its commit.  Indexes are left out.             *)
(***************************************************************************)
EXTENDS Integers, Sequences, FiniteSets

CONSTANTS
  Files,        \* the statements of each file of migrations/, in order
  ModelTables,  \* the tables of models.py, with their columns in Files
  Releases,     \* how many files the release before this one may have had
  Sites,        \* the kinds of site looked at
  Shells,       \* the operator's shells
  MaxCrashes    \* processes killed (a bound)

VARIABLES
  site,       \* "docker" or "host"
  schema,     \* the tables and columns in the database
  recorded,   \* schema_versions
  run,        \* every run of apply_migrations
  mcp,        \* the mcp container
  crashes,    \* history: processes killed so far
  overlapped, \* history: two runs were under way at once
  preempted   \* history: init_db.py made a column that a file adds

vars == <<site, schema, recorded, run, mcp, crashes, overlapped, preempted>>

File == 1 .. Len(Files)

\* A table is a pair with the column "".
Objects == UNION {{Files[f][i] : i \in 1 .. Len(Files[f])} : f \in File}
AddsColumn(object) == object[2] # ""

ASSUME MigrationsAssumption ==
  /\ Files \in Seq(Seq(STRING \X STRING))
  /\ ModelTables \in SUBSET SUBSET Objects
  /\ Releases \in SUBSET (0 .. Len(Files))
  /\ Sites \subseteq {"docker", "host"}
  /\ Shells \cap {"api", "setup"} = {}
  /\ MaxCrashes \in Nat

\* One statement adds a column, after one that makes its table.
ASSUME FilesAssumption ==
  \A f \in File : \A i \in 1 .. Len(Files[f]) :
    AddsColumn(Files[f][i]) =>
      /\ \A g \in File : \A j \in 1 .. Len(Files[g]) :
           Files[g][j] = Files[f][i] => g = f /\ j = i
      /\ \E g \in 1 .. f : \E j \in 1 .. Len(Files[g]) :
           Files[g][j] = <<Files[f][i][1], "">> /\ (g < f \/ j < i)

Runs == {"api", "setup"} \cup Shells
RunState == [pc : {"off", "init", "read", "apply", "bootstrap", "serving"},
             pending : SUBSET File, at : Nat]
Off == [pc |-> "off", pending |-> {}, at |-> 0]

TypeOK ==
  /\ site \in Sites
  /\ schema \subseteq Objects
  /\ recorded \subseteq File
  /\ run \in [Runs -> RunState]
  /\ mcp \in {"waiting", "up", "down"}
  /\ crashes \in 0 .. MaxCrashes
  /\ overlapped \in BOOLEAN /\ preempted \in BOOLEAN

\* A new database, or one that an earlier release has brought up to its day.
Init ==
  /\ site \in Sites
  /\ \E n \in Releases :
       /\ recorded = 1 .. n
       /\ schema = UNION {{Files[f][i] : i \in 1 .. Len(Files[f])} : f \in 1 .. n}
  /\ run = [p \in Runs |-> Off]
  /\ mcp = "waiting"
  /\ crashes = 0
  /\ overlapped = FALSE /\ preempted = FALSE

-----------------------------------------------------------------------------
(* Ends of processes.                                                      *)

\* A shell of a Docker site is inside the api container and ends with it.
Ended(p) == IF p = "api" THEN {"api"} \cup Shells ELSE {p}

End(p) == run' = [q \in Runs |-> IF q \in Ended(p) THEN Off ELSE run[q]]

\* A process is killed, or one of its statements finds the database locked and
\* ends it.
Crash(p) ==
  /\ crashes < MaxCrashes /\ run[p].pc # "off"
  /\ crashes' = crashes + 1
  /\ End(p)
  /\ UNCHANGED <<site, schema, recorded, mcp, overlapped, preempted>>

-----------------------------------------------------------------------------
(* apply_migrations.py.                                                    *)

Begin(p, pc) ==
  /\ run[p].pc = "off"
  /\ run' = [run EXCEPT ![p].pc = pc]
  /\ overlapped' = (overlapped \/ \E q \in Runs \ {p} : run[q].pc \notin {"off", "serving"})
  /\ UNCHANGED <<site, schema, recorded, mcp, crashes, preempted>>

\* restart: unless-stopped.
StartContainer == site = "docker" /\ Begin("api", "read")

StartSetup == site = "host" /\ Begin("setup", "init")

StartShell(p) ==
  /\ p \in Shells
  /\ site = "docker" => run["api"].pc # "off"
  /\ Begin(p, "read")

\* Where a process goes after its last file: set -e lets only the container
\* go on.
Finished(p) ==
  [pc |-> IF p = "api" THEN "bootstrap" ELSE "off", pending |-> {}, at |-> 0]

\* The files that are not recorded yet, or "no pending migrations".
ReadNothing(p) == \* mutant: every file is pending again
  /\ run[p].pc = "read"
  /\ run' = [run EXCEPT ![p] = [pc |-> "apply", pending |-> File, at |-> 1]]
  /\ UNCHANGED <<site, schema, recorded, mcp, crashes, overlapped, preempted>>

ReadApplied(p) ==
  /\ run[p].pc = "read"
  /\ run' = [run EXCEPT ![p] =
       IF File \subseteq recorded THEN Finished(p)
       ELSE [pc |-> "apply", pending |-> File \ recorded, at |-> 1]]
  /\ UNCHANGED <<site, schema, recorded, mcp, crashes, overlapped, preempted>>

\* The file being applied: sorted order.
CurrentLast(p) == \* mutant: the latest first
  CHOOSE f \in run[p].pending : \A g \in run[p].pending : f >= g
Current(p) == CHOOSE f \in run[p].pending : \A g \in run[p].pending : f <= g
Statement(p) == Files[Current(p)][run[p].at]
InFile(p) == run[p].pc = "apply" /\ run[p].at <= Len(Files[Current(p)])

\* CREATE TABLE IF NOT EXISTS never fails here; ADD COLUMN does when the
\* column is there or the table is not.
Refused(object) ==
  AddsColumn(object) /\ (object \in schema \/ <<object[1], "">> \notin schema)

Execute(p) ==
  /\ InFile(p) /\ ~Refused(Statement(p))
  /\ schema' = schema \cup {Statement(p)}
  /\ run' = [run EXCEPT ![p].at = @ + 1]
  /\ UNCHANGED <<site, recorded, mcp, crashes, overlapped, preempted>>

\* The exception ends the script, and set -e what called it.
FailAndGoOn(p) == \* mutant: without set -e
  /\ InFile(p) /\ Refused(Statement(p))
  /\ run' = [run EXCEPT ![p] = Finished(p)]
  /\ UNCHANGED <<site, schema, recorded, mcp, crashes, overlapped, preempted>>

Fail(p) ==
  /\ InFile(p) /\ Refused(Statement(p))
  /\ End(p)
  /\ UNCHANGED <<site, schema, recorded, mcp, crashes, overlapped, preempted>>

\* On to the next file.
Advance(p) ==
  LET rest == run[p].pending \ {Current(p)}
  IN  run' = [run EXCEPT ![p] = IF rest = {} THEN Finished(p)
                                ELSE [pc |-> "apply", pending |-> rest, at |-> 1]]

\* INSERT INTO schema_versions and its commit; the filename is the primary key.
RecordEarly(p) == \* mutant: the file is recorded before its last statement
  /\ run[p].pc = "apply" /\ run[p].at = Len(Files[Current(p)])
  /\ recorded' = recorded \cup {Current(p)}
  /\ Advance(p)
  /\ UNCHANGED <<site, schema, mcp, crashes, overlapped, preempted>>
RecordAtEnd(p) == \* mutant: the pending files are recorded after the last of them
  /\ run[p].pc = "apply" /\ ~InFile(p)
  /\ recorded' = IF run[p].pending = {Current(p)} THEN File ELSE recorded
  /\ Advance(p)
  /\ UNCHANGED <<site, schema, mcp, crashes, overlapped, preempted>>
Record(p) ==
  /\ run[p].pc = "apply" /\ ~InFile(p)
  /\ \/ /\ Current(p) \in recorded
        /\ End(p)
        /\ UNCHANGED recorded
     \/ /\ Current(p) \notin recorded
        /\ recorded' = recorded \cup {Current(p)}
        /\ Advance(p)
  /\ UNCHANGED <<site, schema, mcp, crashes, overlapped, preempted>>

-----------------------------------------------------------------------------
(* init_db.py and the containers.                                          *)

\* Base.metadata.create_all: one missing table with all its columns, or none.
InitDb ==
  /\ run["setup"].pc = "init"
  /\ LET missing == {t \in ModelTables : \E o \in t : ~AddsColumn(o) /\ o \notin schema}
     IN  \/ \E t \in missing :
              /\ schema' = schema \cup t
              /\ preempted' = (preempted \/ \E o \in t : AddsColumn(o))
              /\ UNCHANGED run
         \/ /\ missing = {}
            /\ run' = [run EXCEPT !["setup"].pc = "read"]
            /\ UNCHANGED <<schema, preempted>>
  /\ UNCHANGED <<site, recorded, mcp, crashes, overlapped>>

\* The admin account is seen to, and uvicorn takes over.
Bootstrap ==
  /\ run["api"].pc = "bootstrap"
  /\ run' = [run EXCEPT !["api"].pc = "serving"]
  /\ UNCHANGED <<site, schema, recorded, mcp, crashes, overlapped, preempted>>

\* depends_on: service_healthy holds back the first start, no restart.
StartMcp ==
  /\ \/ mcp = "waiting" /\ run["api"].pc = "serving"
     \/ mcp = "down"
  /\ mcp' = "up"
  /\ UNCHANGED <<site, schema, recorded, run, crashes, overlapped, preempted>>

CrashMcp ==
  /\ mcp = "up" /\ crashes < MaxCrashes
  /\ crashes' = crashes + 1
  /\ mcp' = "down"
  /\ UNCHANGED <<site, schema, recorded, run, overlapped, preempted>>

Step(p) == ReadApplied(p) \/ Execute(p) \/ Fail(p) \/ Record(p)

Next ==
  \/ \E p \in Runs : Step(p) \/ Crash(p) \/ StartShell(p)
  \/ StartContainer \/ StartSetup \/ InitDb \/ Bootstrap \/ StartMcp \/ CrashMcp

Spec == Init /\ [][Next]_vars

\* Docker restarts the container, the operator tries setup.sh again, and what
\* runs goes on.
Fairness ==
  /\ \A p \in Runs : WF_vars(Step(p))
  /\ WF_vars(StartContainer) /\ WF_vars(StartSetup)
  /\ WF_vars(InitDb) /\ WF_vars(Bootstrap)

FairSpec == Spec /\ Fairness

-----------------------------------------------------------------------------
(* What the code promises.                                                 *)

Effect(f) == {Files[f][i] : i \in 1 .. Len(Files[f])}

\* What schema_versions records is in the schema, whatever runs overlap and
\* wherever they are cut short (apply_migrations.py:60-67).
RecordedIsApplied == \A f \in recorded : Effect(f) \subseteq schema

\* Requests meet the whole schema, and so does the mcp container, which applies
\* nothing and may restart while the api container is down (entrypoint.sh:59-62).
ServingIsReady ==
  /\ run["api"].pc = "serving" => File \subseteq recorded /\ Objects \subseteq schema
  /\ mcp = "up" => Objects \subseteq schema

\* Files are recorded in order, none before an earlier one.
RecordedInOrder == \A f \in recorded : \A g \in 1 .. f : g \in recorded

\* A column of a file that is not recorded, and that no run is applying, makes
\* every later run fail.
Blocked(f) ==
  /\ f \notin recorded
  /\ \E o \in Effect(f) : AddsColumn(o) /\ o \in schema
  /\ ~\E p \in Runs : run[p].pc = "apply" /\ run[p].pending # {} /\ Current(p) = f /\ run[p].at > 1

\* A schema that later runs cannot complete comes from a run cut short (killed, or
\* refused the lock), from two at once, or from init_db.py, never from a run left alone.
BlockedNeedsCause ==
  (\E f \in File : Blocked(f)) => crashes > 0 \/ overlapped \/ preempted

\* The restarts of the container complete the schema of any release, unless a
\* file is blocked.
UpgradeCompletes ==
  <>(site = "host" \/ File \subseteq recorded \/ \E f \in File : Blocked(f))

\* The documents' claim that both scripts are idempotent and safe to run on
\* every deploy (migrations/README.md:22-23, docs/ADMIN_GUIDE.md:86-87), for
\* setup.sh, run again until it succeeds.
SetupCompletes == <>(site = "docker" \/ File \subseteq recorded)
=============================================================================
