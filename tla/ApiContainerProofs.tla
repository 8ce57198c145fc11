------------------------- MODULE ApiContainerProofs -------------------------
(***************************************************************************)
(* Proofs about Migrations, for any files, tables, releases and shells,    *)
(* and about ApiContainer, for any number of threads, window and           *)
(* threshold besides; always for any number of crashes.                    *)
(*                                                                         *)
(* IInv strengthens the safety properties of the migrations with what a    *)
(* run in the middle of its files relies on (RunOK): the files from some   *)
(* file on are pending, those before it are recorded, and its statements   *)
(* before the run's place are in the schema.  Orderly is what holds on top *)
(* of it while nothing has gone wrong.  ThrottleInv is about the logins.   *)
(***************************************************************************)
EXTENDS ApiContainer, FiniteSetTheorems, TLAPS

Executed(p) ==
  {Files[Current(p)][i] : i \in {j \in 1 .. Len(Files[Current(p)]) : j < run[p].at}}

RunOK(p) ==
  /\ run[p].pc = "apply" =>
       /\ run[p].at >= 1
       /\ \E c \in File : /\ run[p].pending = c .. Len(Files)
                         /\ 1 .. c - 1 \subseteq recorded
       /\ Executed(p) \subseteq schema
  /\ run[p].pc \in {"bootstrap", "serving"} => File \subseteq recorded

\* The record is of the files up to some file.
Prefix == \E n \in 0 .. Len(Files) : recorded = 1 .. n

McpOK == mcp # "waiting" => File \subseteq recorded

IInv ==
  /\ TypeOK
  /\ \A p \in Runs : RunOK(p)
  /\ McpOK
  /\ RecordedIsApplied
  /\ Prefix

-----------------------------------------------------------------------------
(* Facts about the definitions.                                            *)

LEMMA FileIsNat == Len(Files) \in Nat /\ File \subseteq Nat
BY MigrationsAssumption DEF MigrationsAssumption, File

LEMMA FileType ==
  ASSUME NEW f \in File
  PROVE  /\ Files[f] \in Seq(STRING \X STRING)
         /\ Len(Files[f]) \in Nat
         /\ \A i \in 1 .. Len(Files[f]) : Files[f][i] \in Objects
<1>1. Files \in Seq(Seq(STRING \X STRING))
  BY MigrationsAssumption DEF MigrationsAssumption
<1>2. Files[f] \in Seq(STRING \X STRING)
  BY <1>1 DEF File
<1>3. Len(Files[f]) \in Nat
  BY <1>2
<1>4. \A i \in 1 .. Len(Files[f]) : Files[f][i] \in Objects
  BY DEF Objects
<1> QED BY <1>2, <1>3, <1>4

\* What a run whose files from c on are pending applies next is c.
LEMMA FirstFile ==
  ASSUME NEW c \in File
  PROVE  (CHOOSE f \in c .. Len(Files) : \A g \in c .. Len(Files) : f <= g) = c
<1>1. /\ c \in c .. Len(Files) /\ \A g \in c .. Len(Files) : c <= g
      /\ \A f \in c .. Len(Files) : (\A g \in c .. Len(Files) : f <= g) => f = c
  BY FileIsNat DEF File
<1> QED BY <1>1

\* The states a run starts in and ends in.
LEMMA OffType == /\ Off.pc = "off"
                 /\ Off \in RunState
BY DEF Off, RunState

LEMMA FinishedType ==
  ASSUME NEW p
  PROVE  /\ Finished(p).pc \in {"off", "bootstrap"}
         /\ Finished(p) \in RunState
<1>1. CASE p = "api"
  BY <1>1 DEF Finished, RunState
<1>2. CASE p # "api"
  BY <1>2 DEF Finished, RunState
<1> QED BY <1>1, <1>2

\* A complete record is a complete schema.
LEMMA RecordedIsSchema ==
  ASSUME RecordedIsApplied, File \subseteq recorded
  PROVE  Objects \subseteq schema
<1> SUFFICES ASSUME NEW o \in Objects PROVE o \in schema
  OBVIOUS
<1>1. PICK f \in File : o \in Effect(f)
  BY DEF Objects, Effect
<1> QED BY <1>1 DEF RecordedIsApplied

-----------------------------------------------------------------------------
(* The initial state.                                                      *)

LEMMA InitOK == Init => IInv
<1> SUFFICES ASSUME Init PROVE IInv
  OBVIOUS
<1>1. PICK n \in Releases : /\ recorded = 1 .. n
                            /\ schema = UNION {Effect(f) : f \in 1 .. n}
  BY DEF Init, Effect
<1>2. n \in 0 .. Len(Files)
  BY MigrationsAssumption DEF MigrationsAssumption
<1>3. recorded \subseteq File
  BY <1>1, <1>2, FileIsNat DEF File
<1>4. schema \subseteq Objects
  <2> SUFFICES ASSUME NEW o \in schema PROVE o \in Objects
    OBVIOUS
  <2>1. PICK f \in 1 .. n : o \in Effect(f)
    BY <1>1
  <2> QED BY <2>1, <1>1, <1>3 DEF Objects, Effect
<1>5. run = [p \in Runs |-> Off] /\ Off.pc = "off"
  BY DEF Init, Off
<1>6. TypeOK
  <2>1. run \in [Runs -> RunState]
    BY <1>5, OffType
  <2>2. crashes \in 0 .. MaxCrashes
    BY MigrationsAssumption DEF MigrationsAssumption, Init
  <2> QED BY <1>3, <1>4, <2>1, <2>2 DEF TypeOK, Init
<1>7. \A p \in Runs : RunOK(p)
  BY <1>5 DEF RunOK
<1>8. McpOK
  BY DEF McpOK, Init
<1>9. RecordedIsApplied
  BY <1>1 DEF RecordedIsApplied
<1>10. Prefix
  BY <1>1, <1>2 DEF Prefix
<1> QED BY <1>6, <1>7, <1>8, <1>9, <1>10 DEF IInv

-----------------------------------------------------------------------------
(* Steps.                                                                  *)

\* A run that is as it was stays as it should be when the schema and the
\* record grow.
LEMMA RunKept ==
  ASSUME NEW p, RunOK(p), run'[p] = run[p],
         schema \subseteq schema', recorded \subseteq recorded'
  PROVE  RunOK(p)'
<1>1. Current(p)' = Current(p)
  BY DEF Current
<1>2. Executed(p)' = Executed(p)
  BY <1>1 DEF Executed
<1> QED BY <1>2 DEF RunOK

\* So does a run that is not among its files and has not finished them.
LEMMA RunIdle ==
  ASSUME NEW p, run'[p].pc \in {"off", "init", "read"}
  PROVE  RunOK(p)'
BY DEF RunOK

\* The rest of the invariant is kept by a step that records nothing.
LEMMA RestKept ==
  ASSUME IInv, TypeOK', recorded' = recorded, schema \subseteq schema',
         mcp' = mcp, \A p \in Runs : RunOK(p)'
  PROVE  IInv'
BY DEF IInv, McpOK, RecordedIsApplied, Prefix, Effect, File

\* A process that ends leaves the other runs as they are.
LEMMA EndOK ==
  ASSUME IInv, NEW p \in Runs, End(p), schema' = schema, recorded' = recorded
  PROVE  /\ run' \in [Runs -> RunState]
         /\ \A q \in Runs : RunOK(q)'
<1>1. \A q \in Runs : run'[q] = Off \/ run'[q] = run[q]
  BY DEF End
<1>2. ASSUME NEW q \in Runs PROVE RunOK(q)'
  <2>1. CASE run'[q] = Off
    BY <2>1, OffType, RunIdle
  <2>2. CASE run'[q] = run[q]
    BY <2>2, RunKept DEF IInv
  <2> QED BY <1>1, <2>1, <2>2
<1>3. run' \in [Runs -> RunState]
  BY <1>1, OffType DEF End, IInv, TypeOK
<1> QED BY <1>2, <1>3

\* Crash and Fail.
LEMMA CrashOK == ASSUME IInv, NEW p \in Runs, Crash(p) PROVE IInv'
<1>1. /\ run' \in [Runs -> RunState]
      /\ \A q \in Runs : RunOK(q)'
  BY EndOK DEF Crash
<1>2. crashes' \in 0 .. MaxCrashes
  BY MigrationsAssumption DEF IInv, TypeOK, Crash, MigrationsAssumption
<1>3. TypeOK'
  BY <1>1, <1>2 DEF IInv, TypeOK, Crash, File, Objects
<1> QED BY <1>1, <1>3, RestKept DEF Crash

LEMMA FailOK == ASSUME IInv, NEW p \in Runs, Fail(p) PROVE IInv'
<1>1. /\ run' \in [Runs -> RunState]
      /\ \A q \in Runs : RunOK(q)'
  BY EndOK DEF Fail
<1>2. TypeOK'
  BY <1>1 DEF IInv, TypeOK, Fail, File, Objects
<1> QED BY <1>1, <1>2, RestKept DEF Fail

LEMMA BeginOK ==
  ASSUME IInv, NEW p \in Runs, NEW pc \in {"init", "read"}, Begin(p, pc)
  PROVE  IInv'
<1>1. run' = [run EXCEPT ![p].pc = pc]
  BY DEF Begin
<1>2. TypeOK'
  BY <1>1 DEF IInv, TypeOK, Begin, RunState, File, Objects
<1>3. ASSUME NEW q \in Runs PROVE RunOK(q)'
  <2>1. CASE q = p
    <3>1. run'[q].pc = pc
      BY <2>1, <1>1 DEF IInv, TypeOK
    <3> QED BY <3>1, RunIdle
  <2>2. CASE q # p
    <3>1. run'[q] = run[q]
      BY <2>2, <1>1 DEF IInv, TypeOK
    <3> QED BY <3>1, RunKept DEF Begin, IInv
  <2> QED BY <2>1, <2>2
<1> QED BY <1>2, <1>3, RestKept DEF Begin

LEMMA ReadAppliedOK == ASSUME IInv, NEW p \in Runs, ReadApplied(p) PROVE IInv'
<1> DEFINE new == IF File \subseteq recorded THEN Finished(p)
                  ELSE [pc |-> "apply", pending |-> File \ recorded, at |-> 1]
<1>1. run' = [run EXCEPT ![p] = new]
  BY DEF ReadApplied
<1>2. new \in RunState
  BY FinishedType DEF RunState
<1>3. TypeOK'
  BY <1>1, <1>2 DEF IInv, TypeOK, ReadApplied, File, Objects
<1>4. run'[p] = new
  BY <1>1 DEF IInv, TypeOK
<1>5. RunOK(p)'
  <2>1. CASE File \subseteq recorded
    <3>1. run'[p].pc \in {"off", "bootstrap"}
      BY <1>4, <2>1, FinishedType
    <3> QED BY <3>1, <2>1 DEF RunOK, ReadApplied, File
  <2>2. CASE ~(File \subseteq recorded)
    <3>1. run'[p] = [pc |-> "apply", pending |-> File \ recorded, at |-> 1]
      BY <1>4, <2>2
    <3>2. Executed(p)' = {}
      BY <3>1 DEF Executed
    <3>3. PICK m \in 0 .. Len(Files) : recorded = 1 .. m
      BY DEF IInv, Prefix
    <3>4. m # Len(Files)
      BY <3>3, <2>2 DEF File
    <3>5. /\ m + 1 \in File /\ File \ recorded = m + 1 .. Len(Files)
          /\ 1 .. (m + 1) - 1 \subseteq recorded
      BY <3>3, <3>4, FileIsNat DEF File
    <3>6. recorded' = recorded
      BY DEF ReadApplied
    <3>7. /\ run'[p].at >= 1
          /\ \E c \in File : run'[p].pending = c .. Len(Files) /\ 1 .. c - 1 \subseteq recorded'
      BY <3>1, <3>5, <3>6
    <3> QED BY <3>1, <3>2, <3>7 DEF RunOK, File
  <2> QED BY <2>1, <2>2
<1>6. ASSUME NEW q \in Runs PROVE RunOK(q)'
  <2>1. CASE q # p
    <3>1. run'[q] = run[q]
      BY <2>1, <1>1 DEF IInv, TypeOK
    <3> QED BY <3>1, RunKept DEF ReadApplied, IInv
  <2> QED BY <2>1, <1>5
<1> QED BY <1>3, <1>6, RestKept DEF ReadApplied

LEMMA ExecuteOK == ASSUME IInv, NEW p \in Runs, Execute(p) PROVE IInv'
<1> DEFINE n == run[p].at
<1>1. /\ run[p].pc = "apply"
      /\ n \in Nat /\ n >= 1 /\ n <= Len(Files[Current(p)])
      /\ Executed(p) \subseteq schema
  BY DEF Execute, InFile, IInv, TypeOK, RunState, RunOK
<1>2. PICK c \in File : run[p].pending = c .. Len(Files) /\ 1 .. c - 1 \subseteq recorded
  BY <1>1 DEF IInv, RunOK
<1>3. Current(p) = c
  BY <1>2, FirstFile DEF Current
<1>4. Len(Files[Current(p)]) \in Nat /\ Statement(p) \in Objects
  BY <1>1, <1>3, FileType DEF Statement
<1>5. /\ run' = [run EXCEPT ![p].at = n + 1]
      /\ schema' = schema \cup {Statement(p)}
      /\ recorded' = recorded
  BY DEF Execute
<1>6. TypeOK'
  <2>1. [run[p] EXCEPT !.at = n + 1] \in RunState
    BY <1>1 DEF IInv, TypeOK, RunState
  <2>2. run' = [run EXCEPT ![p] = [run[p] EXCEPT !.at = n + 1]]
    BY <1>5
  <2>3. run' \in [Runs -> RunState]
    BY <2>1, <2>2 DEF IInv, TypeOK
  <2>4. schema' \subseteq Objects
    BY <1>4, <1>5 DEF IInv, TypeOK
  <2> QED BY <2>3, <2>4 DEF IInv, TypeOK, Execute, RunState, File, Objects
<1>7. /\ run'[p].at = n + 1 /\ run'[p].pending = run[p].pending /\ run'[p].pc = "apply"
  BY <1>1, <1>5 DEF IInv, TypeOK
<1>8. Current(p)' = Current(p)
  BY <1>7 DEF Current
<1>9. Executed(p)' \subseteq schema'
  <2> SUFFICES ASSUME NEW o \in Executed(p)' PROVE o \in schema'
    OBVIOUS
  <2>1. PICK i \in 1 .. Len(Files[Current(p)]) : i < n + 1 /\ o = Files[Current(p)][i]
    BY <1>7, <1>8 DEF Executed
  <2>2. CASE i = n
    BY <2>1, <2>2, <1>5 DEF Statement
  <2>3. CASE i # n
    <3>1. i < n
      BY <2>1, <2>3, <1>1, <1>4
    <3>2. o \in Executed(p)
      BY <2>1, <3>1 DEF Executed
    <3> QED BY <3>2, <1>1, <1>5
  <2> QED BY <2>2, <2>3
<1>10. RunOK(p)'
  BY <1>1, <1>2, <1>5, <1>7, <1>9 DEF RunOK, File
<1>11. ASSUME NEW q \in Runs PROVE RunOK(q)'
  <2>1. CASE q # p
    <3>1. run'[q] = run[q]
      BY <2>1, <1>5 DEF IInv, TypeOK
    <3> QED BY <3>1, <1>5, RunKept DEF IInv
  <2> QED BY <2>1, <1>10
<1> QED BY <1>5, <1>6, <1>11, RestKept DEF Execute

LEMMA RecordOK == ASSUME IInv, NEW p \in Runs, Record(p) PROVE IInv'
<1>1. CASE Current(p) \in recorded /\ End(p) /\ recorded' = recorded
  <2>1. /\ run' \in [Runs -> RunState]
        /\ \A q \in Runs : RunOK(q)'
    BY <1>1, EndOK DEF Record
  <2>2. TypeOK'
    BY <1>1, <2>1 DEF IInv, TypeOK, Record, File, Objects
  <2> QED BY <1>1, <2>1, <2>2, RestKept DEF Record
<1>2. CASE /\ Current(p) \notin recorded
           /\ recorded' = recorded \cup {Current(p)}
           /\ Advance(p)
  <2>1. PICK c \in File : run[p].pending = c .. Len(Files) /\ 1 .. c - 1 \subseteq recorded
    BY DEF Record, IInv, RunOK
  <2>2. Current(p) = c
    BY <2>1, FirstFile DEF Current
  <2>3. /\ run[p].at \in Nat /\ ~(run[p].at <= Len(Files[c]))
        /\ Executed(p) \subseteq schema
    BY <2>2 DEF Record, InFile, IInv, TypeOK, RunState, RunOK
  <2>4. PICK m \in 0 .. Len(Files) : recorded = 1 .. m
    BY DEF IInv, Prefix
  <2>5. m = c - 1 /\ recorded' = 1 .. c
    BY <1>2, <2>1, <2>2, <2>4, FileIsNat DEF File
  <2> DEFINE rest == (c .. Len(Files)) \ {c}
             new == IF rest = {} THEN Finished(p)
                    ELSE [pc |-> "apply", pending |-> rest, at |-> 1]
  <2>6. rest = c + 1 .. Len(Files) /\ rest \subseteq File
    BY FileIsNat DEF File
  <2>7. Len(Files[c]) \in Nat
    BY FileType
  <2>8. Effect(c) \subseteq schema
    <3>1. \A i \in 1 .. Len(Files[c]) : i < run[p].at
      BY <2>3, <2>7
    <3>2. Effect(c) \subseteq Executed(p)
      BY <3>1, <2>2 DEF Effect, Executed
    <3> QED BY <3>2, <2>3
  <2>9. run' = [run EXCEPT ![p] = new] /\ schema' = schema /\ mcp' = mcp
    BY <1>2, <2>1, <2>2 DEF Advance, Record
  <2>10. new \in RunState
    BY <2>6, FinishedType DEF RunState
  <2>11. TypeOK'
    BY <1>2, <2>2, <2>9, <2>10 DEF IInv, TypeOK, Record, RunState, File, Objects
  <2>12. run'[p] = new
    BY <2>9 DEF IInv, TypeOK
  <2>13. RunOK(p)'
    <3>1. CASE rest = {}
      <4>1. run'[p].pc \in {"off", "bootstrap"}
        BY <2>12, <3>1, FinishedType
      <4>2. File \subseteq recorded'
        BY <3>1, <2>5, FileIsNat DEF File
      <4> QED BY <4>1, <4>2 DEF RunOK, File
    <3>2. CASE rest # {}
      <4>1. run'[p] = [pc |-> "apply", pending |-> rest, at |-> 1]
        BY <2>12, <3>2
      <4>2. Executed(p)' = {}
        BY <4>1 DEF Executed
      <4>3. c + 1 \in File /\ 1 .. (c + 1) - 1 \subseteq recorded'
        BY <3>2, <2>5, <2>6, FileIsNat DEF File
      <4>4. /\ run'[p].at >= 1
            /\ \E d \in File : run'[p].pending = d .. Len(Files) /\ 1 .. d - 1 \subseteq recorded'
        BY <4>1, <4>3, <2>6
      <4> QED BY <4>1, <4>2, <4>4 DEF RunOK, File
    <3> QED BY <3>1, <3>2
  <2>14. ASSUME NEW q \in Runs PROVE RunOK(q)'
    <3>1. CASE q # p
      <4>1. run'[q] = run[q]
        BY <3>1, <2>9 DEF IInv, TypeOK
      <4> QED BY <4>1, <1>2, <2>9, RunKept DEF IInv
    <3> QED BY <3>1, <2>13
  <2>15. RecordedIsApplied'
    BY <1>2, <2>2, <2>8, <2>9 DEF IInv, RecordedIsApplied, Effect
  <2>16. Prefix'
    BY <2>5, FileIsNat DEF Prefix, File
  <2>17. McpOK'
    BY <1>2, <2>9 DEF IInv, McpOK, File
  <2> QED BY <2>11, <2>14, <2>15, <2>16, <2>17 DEF IInv
<1> QED BY <1>1, <1>2 DEF Record

LEMMA InitDbOK == ASSUME IInv, InitDb PROVE IInv'
<1>1. "setup" \in Runs
  BY DEF Runs
<1>2. CASE \E t \in ModelTables : schema' = schema \cup t /\ run' = run
  <2>1. PICK t \in ModelTables : schema' = schema \cup t /\ run' = run
    BY <1>2
  <2>2. t \subseteq Objects
    BY MigrationsAssumption DEF MigrationsAssumption
  <2>3. TypeOK'
    BY <2>1, <2>2 DEF IInv, TypeOK, InitDb, File, Objects, AddsColumn
  <2>4. \A q \in Runs : RunOK(q)'
    BY <2>1, RunKept DEF IInv, InitDb
  <2> QED BY <2>1, <2>3, <2>4, RestKept DEF InitDb
<1>3. CASE run' = [run EXCEPT !["setup"].pc = "read"] /\ schema' = schema /\ preempted' = preempted
  <2>1. TypeOK'
    BY <1>3 DEF IInv, TypeOK, InitDb, RunState, File, Objects
  <2>2. ASSUME NEW q \in Runs PROVE RunOK(q)'
    <3>1. CASE q = "setup"
      <4>1. run'[q].pc = "read"
        BY <3>1, <1>1, <1>3 DEF IInv, TypeOK
      <4> QED BY <4>1, RunIdle
    <3>2. CASE q # "setup"
      <4>1. run'[q] = run[q]
        BY <3>2, <1>3 DEF IInv, TypeOK
      <4> QED BY <4>1, <1>3, RunKept DEF IInv, InitDb
    <3> QED BY <3>1, <3>2
  <2> QED BY <1>3, <2>1, <2>2, RestKept DEF InitDb
<1> QED BY <1>2, <1>3 DEF InitDb

LEMMA BootstrapOK == ASSUME IInv, Bootstrap PROVE IInv'
<1>1. "api" \in Runs
  BY DEF Runs
<1>2. File \subseteq recorded
  BY <1>1 DEF IInv, RunOK, Bootstrap
<1>3. run' = [run EXCEPT !["api"].pc = "serving"]
  BY DEF Bootstrap
<1>4. TypeOK'
  BY <1>3 DEF IInv, TypeOK, Bootstrap, RunState, File, Objects
<1>5. ASSUME NEW q \in Runs PROVE RunOK(q)'
  <2>1. CASE q = "api"
    <3>1. run'[q].pc = "serving"
      BY <2>1, <1>1, <1>3 DEF IInv, TypeOK
    <3> QED BY <3>1, <1>2 DEF RunOK, Bootstrap, File
  <2>2. CASE q # "api"
    <3>1. run'[q] = run[q]
      BY <2>2, <1>3 DEF IInv, TypeOK
    <3> QED BY <3>1, RunKept DEF IInv, Bootstrap
  <2> QED BY <2>1, <2>2
<1> QED BY <1>4, <1>5, RestKept DEF Bootstrap

\* The two containers' starts and ends that touch no run.
LEMMA McpOKStep == ASSUME IInv, StartMcp \/ CrashMcp PROVE IInv'
<1>1. "api" \in Runs
  BY DEF Runs
<1>2. UNCHANGED <<site, schema, recorded, run, overlapped, preempted>>
  BY DEF StartMcp, CrashMcp
<1>3. McpOK'
  <2>1. CASE StartMcp
    BY <2>1, <1>1, <1>2 DEF StartMcp, IInv, McpOK, RunOK, File
  <2>2. CASE CrashMcp
    BY <2>2, <1>2 DEF CrashMcp, IInv, McpOK, File
  <2> QED BY <2>1, <2>2
<1>4. TypeOK'
  BY <1>2, MigrationsAssumption
     DEF IInv, TypeOK, StartMcp, CrashMcp, File, Objects, MigrationsAssumption
<1>5. \A q \in Runs : RunOK(q)'
  BY <1>2, RunKept DEF IInv
<1>6. RecordedIsApplied' /\ Prefix'
  BY <1>2 DEF IInv, RecordedIsApplied, Prefix, Effect
<1> QED BY <1>3, <1>4, <1>5, <1>6 DEF IInv

LEMMA StepOK == ASSUME IInv, [Next]_vars PROVE IInv'
<1>1. CASE \E p \in Runs : Step(p)
  BY <1>1, ReadAppliedOK, ExecuteOK, FailOK, RecordOK DEF Step
<1>2. CASE \E p \in Runs : Crash(p)
  BY <1>2, CrashOK
<1>3. CASE \E p \in Runs : StartShell(p)
  BY <1>3, BeginOK DEF StartShell
<1>4. CASE StartContainer
  <2>1. "api" \in Runs
    BY DEF Runs
  <2> QED BY <1>4, <2>1, BeginOK DEF StartContainer
<1>5. CASE StartSetup
  <2>1. "setup" \in Runs
    BY DEF Runs
  <2> QED BY <1>5, <2>1, BeginOK DEF StartSetup
<1>6. CASE InitDb
  BY <1>6, InitDbOK
<1>7. CASE Bootstrap
  BY <1>7, BootstrapOK
<1>8. CASE StartMcp \/ CrashMcp
  BY <1>8, McpOKStep
<1>9. CASE UNCHANGED vars
  <2>1. UNCHANGED <<site, schema, recorded, run, mcp, crashes, overlapped, preempted>>
    BY <1>9 DEF vars
  <2>2. TypeOK'
    BY <2>1 DEF IInv, TypeOK, File, Objects
  <2>3. \A q \in Runs : RunOK(q)'
    BY <2>1, RunKept DEF IInv
  <2> QED BY <2>1, <2>2, <2>3, RestKept
<1> QED BY <1>1, <1>2, <1>3, <1>4, <1>5, <1>6, <1>7, <1>8, <1>9 DEF Next

-----------------------------------------------------------------------------
(* While nothing has gone wrong.                                           *)

Quiet == crashes = 0 /\ ~overlapped /\ ~preempted

Active(p) == run[p].pc \notin {"off", "serving"}

\* One run is under way at most.
Alone == \A p \in Runs : \A q \in Runs : Active(p) /\ Active(q) => p = q

\* What is recorded while a run applies a file is what is before that file.
RecordedBefore ==
  \A p \in Runs : run[p].pc = "apply" =>
    \E c \in File : run[p].pending = c .. Len(Files) /\ recorded = 1 .. c - 1

\* A column is there because of a recorded file, or a run just added it.
ColumnsMade ==
  \A o \in schema : AddsColumn(o) =>
    \/ \E f \in recorded : o \in Effect(f)
    \/ \E p \in Runs : run[p].pc = "apply" /\ o \in Executed(p)

Orderly == Quiet => Alone /\ RecordedBefore /\ ColumnsMade

\* The files up to one of them.
LEMMA FilesBefore ==
  ASSUME NEW c \in File
  PROVE  /\ \A f \in 1 .. c - 1 : f \in File /\ f # c
         /\ \A f \in 1 .. c : f \in File /\ (f \in 1 .. c - 1 \/ f = c)
         /\ \A f \in 1 .. c : f < c => f \in 1 .. c - 1
         /\ c \notin 1 .. c - 1
<1>1. Len(Files) \in Nat /\ c \in 1 .. Len(Files)
  BY FileIsNat DEF File
<1>2. c \in Nat /\ c <= Len(Files)
  BY <1>1
<1> QED BY <1>1, <1>2 DEF File

\* A column belongs to one place in one file.
LEMMA OnePlace ==
  ASSUME NEW f \in File, NEW i \in 1 .. Len(Files[f]), AddsColumn(Files[f][i]),
         NEW g \in File, NEW j \in 1 .. Len(Files[g]), Files[g][j] = Files[f][i]
  PROVE  g = f /\ j = i
<1>1. AddsColumn(Files[f][i]) => \A h \in File : \A k \in 1 .. Len(Files[h]) :
        Files[h][k] = Files[f][i] => h = f /\ k = i
  BY FilesAssumption, Zenon DEF FilesAssumption
<1>2. Files[g][j] = Files[f][i] => g = f /\ j = i
  BY <1>1, Zenon
<1> QED BY <1>2

\* Its table was made before it.
LEMMA TableBefore ==
  ASSUME NEW f \in File, NEW i \in 1 .. Len(Files[f]), AddsColumn(Files[f][i])
  PROVE  \E g \in 1 .. f : \E j \in 1 .. Len(Files[g]) :
           Files[g][j] = <<Files[f][i][1], "">> /\ (g < f \/ j < i)
BY FilesAssumption, Zenon DEF FilesAssumption

LEMMA OrderlyInit == Init => Orderly
<1> SUFFICES ASSUME Init PROVE Orderly
  OBVIOUS
<1>1. \A p \in Runs : run[p].pc = "off"
  BY DEF Init, Off
<1>2. \A o \in schema : \E f \in recorded : o \in Effect(f)
  BY DEF Init, Effect
<1> QED BY <1>1, <1>2 DEF Orderly, Alone, RecordedBefore, ColumnsMade, Active

\* A run under way that is alone is never refused a statement.
LEMMA NeverRefused ==
  ASSUME IInv, Orderly, Quiet, NEW p \in Runs, InFile(p)
  PROVE  ~Refused(Statement(p))
<1> DEFINE i == run[p].at
<1>1. PICK c \in File : run[p].pending = c .. Len(Files) /\ recorded = 1 .. c - 1
  BY DEF InFile, Orderly, RecordedBefore
<1>2. Current(p) = c
  BY <1>1, FirstFile DEF Current
<1>3. i \in 1 .. Len(Files[c]) /\ Statement(p) = Files[c][i]
  BY <1>2, FileType DEF InFile, IInv, TypeOK, RunState, RunOK, Statement
<1>4. Executed(p) \subseteq schema
  BY DEF InFile, IInv, RunOK
<1>5. \A n \in Nat : ~(n < n)
  OBVIOUS
<1> SUFFICES ASSUME AddsColumn(Files[c][i]),
                    Files[c][i] \in schema \/ <<Files[c][i][1], "">> \notin schema
             PROVE  FALSE
  BY <1>3 DEF Refused
<1>6. CASE Files[c][i] \in schema
  <2>1. CASE \E f \in recorded : Files[c][i] \in Effect(f)
    <3>1. PICK f \in 1 .. c - 1 : \E j \in 1 .. Len(Files[f]) : Files[f][j] = Files[c][i]
      BY <1>1, <2>1 DEF Effect
    <3>2. f \in File /\ f # c
      BY FilesBefore
    <3> QED BY <1>3, <3>1, <3>2, OnePlace
  <2>2. CASE \E q \in Runs : run[q].pc = "apply" /\ Files[c][i] \in Executed(q)
    <3>1. PICK q \in Runs : run[q].pc = "apply" /\ Files[c][i] \in Executed(q)
      BY <2>2
    <3>2. q = p
      BY <3>1 DEF Orderly, Alone, Active, InFile
    <3>3. PICK j \in 1 .. Len(Files[c]) : j < i /\ Files[c][j] = Files[c][i]
      BY <3>1, <3>2, <1>2 DEF Executed
    <3>4. j = i
      BY <1>3, <3>3, OnePlace
    <3>5. i \in Nat
      BY DEF IInv, TypeOK, RunState
    <3>6. i < i
      BY <3>3, <3>4, Zenon
    <3> QED BY <1>5, <3>5, <3>6, Zenon
  <2> QED BY <1>6, <2>1, <2>2 DEF Orderly, ColumnsMade
<1>7. CASE <<Files[c][i][1], "">> \notin schema
  <2>1. PICK g \in 1 .. c : \E j \in 1 .. Len(Files[g]) :
          Files[g][j] = <<Files[c][i][1], "">> /\ (g < c \/ j < i)
    BY <1>3, TableBefore, Zenon
  <2>2. PICK j \in 1 .. Len(Files[g]) :
          Files[g][j] = <<Files[c][i][1], "">> /\ (g < c \/ j < i)
    BY <2>1
  <2>3. CASE g \in 1 .. c - 1
    <3>1. g \in recorded
      BY <1>1, <2>3, FilesBefore
    <3>2. Files[g][j] \in Effect(g)
      BY DEF Effect
    <3> QED BY <1>7, <2>2, <3>1, <3>2 DEF IInv, RecordedIsApplied
  <2>4. CASE g = c /\ ~(g < c)
    <3>1. Files[g][j] \in Executed(p)
      BY <2>2, <2>4, <1>2 DEF Executed
    <3> QED BY <1>4, <1>7, <2>2, <3>1
  <2>5. g \in 1 .. c - 1 \/ (g = c /\ ~(g < c))
    BY FilesBefore, FileIsNat DEF File
  <2> QED BY <2>2, <2>3, <2>4, <2>5
<1> QED BY <1>6, <1>7

\* A step is orderly that begins nothing, adds no column and leaves every run
\* among its files as it was.
LEMMA OrderlyKept ==
  ASSUME Orderly, Quiet' => Quiet, recorded' = recorded, schema \subseteq schema',
         \A o \in schema' : AddsColumn(o) => o \in schema,
         \A q \in Runs : Active(q)' => Active(q),
         \A q \in Runs : run[q].pc = "apply" \/ run'[q].pc = "apply" => run'[q] = run[q]
  PROVE  Orderly'
<1> SUFFICES ASSUME Quiet' PROVE (Alone /\ RecordedBefore /\ ColumnsMade)'
  BY DEF Orderly
<1>1. Alone /\ RecordedBefore /\ ColumnsMade
  BY DEF Orderly
<1>2. Alone'
  BY <1>1 DEF Alone
<1>3. RecordedBefore'
  BY <1>1 DEF RecordedBefore, File
<1>4. \A q \in Runs : run[q].pc = "apply" => run'[q].pc = "apply" /\ Executed(q)' = Executed(q)
  BY DEF Executed, Current
<1>5. ColumnsMade'
  BY <1>1, <1>4 DEF ColumnsMade, Effect
<1> QED BY <1>2, <1>3, <1>5

LEMMA OrderlyBegin ==
  ASSUME IInv, Orderly, NEW p \in Runs, NEW pc \in {"init", "read"}, Begin(p, pc)
  PROVE  Orderly'
<1> SUFFICES ASSUME Quiet' PROVE (Alone /\ RecordedBefore /\ ColumnsMade)'
  BY DEF Orderly
<1>1. ColumnsMade
  BY DEF Orderly, Quiet, Begin
<1>2. \A q \in Runs : q # p => ~Active(q) /\ run'[q] = run[q]
  BY DEF Begin, Quiet, Active, IInv, TypeOK
<1>3. run[p].pc = "off" /\ run'[p].pc = pc
  BY DEF Begin, IInv, TypeOK
<1>4. \A q \in Runs : run[q].pc # "apply" /\ run'[q].pc # "apply"
  BY <1>2, <1>3 DEF Active
<1>5. Alone'
  BY <1>2 DEF Alone, Active
<1>6. RecordedBefore'
  BY <1>4 DEF RecordedBefore
<1>7. ColumnsMade'
  BY <1>1, <1>4 DEF ColumnsMade, Begin, Effect
<1> QED BY <1>5, <1>6, <1>7

\* The runs other than one that goes on alone are not under way.
LEMMA Others ==
  ASSUME IInv, Alone, NEW p \in Runs, Active(p), NEW new, run' = [run EXCEPT ![p] = new]
  PROVE  /\ run'[p] = new
         /\ \A q \in Runs : q # p => run[q].pc # "apply" /\ run'[q].pc # "apply"
         /\ Alone'
<1>1. run'[p] = new /\ \A q \in Runs : q # p => run'[q] = run[q]
  BY DEF IInv, TypeOK
<1>2. \A q \in Runs : q # p => ~Active(q)
  BY DEF Alone
<1>3. Alone'
  BY <1>1, <1>2 DEF Alone, Active
<1> QED BY <1>1, <1>2, <1>3 DEF Active

LEMMA OrderlyRead ==
  ASSUME IInv, Orderly, Quiet, NEW p \in Runs, ReadApplied(p)
  PROVE  Orderly'
<1> DEFINE new == IF File \subseteq recorded THEN Finished(p)
                  ELSE [pc |-> "apply", pending |-> File \ recorded, at |-> 1]
<1>1. Alone /\ ColumnsMade
  BY DEF Orderly
<1>2. Active(p) /\ run[p].pc # "apply"
  BY DEF ReadApplied, Active
<1>3. run' = [run EXCEPT ![p] = new]
  BY DEF ReadApplied
<1>4. /\ run'[p] = new
      /\ \A q \in Runs : q # p => run[q].pc # "apply" /\ run'[q].pc # "apply"
      /\ Alone'
  BY <1>1, <1>2, <1>3, Others
<1>5. RecordedBefore'
  <2>1. CASE File \subseteq recorded
    <3>1. run'[p].pc # "apply"
      BY <1>4, <2>1, FinishedType
    <3> QED BY <3>1, <1>4 DEF RecordedBefore
  <2>2. CASE ~(File \subseteq recorded)
    <3>1. PICK n \in 0 .. Len(Files) : recorded = 1 .. n
      BY DEF IInv, Prefix
    <3>2. /\ n + 1 \in File /\ recorded = 1 .. (n + 1) - 1
          /\ File \ recorded = n + 1 .. Len(Files)
      BY <2>2, <3>1, FileIsNat DEF File
    <3>3. run'[p].pending = n + 1 .. Len(Files)
      BY <1>4, <2>2, <3>2
    <3>4. \A q \in Runs : run'[q].pc = "apply" => q = p
      BY <1>4
    <3> QED BY <3>2, <3>3, <3>4 DEF RecordedBefore, ReadApplied, File
  <2> QED BY <2>1, <2>2
<1>6. \A o \in schema : AddsColumn(o) => \E f \in recorded : o \in Effect(f)
  BY <1>1, <1>2, <1>4 DEF ColumnsMade
<1>7. ColumnsMade'
  BY <1>6 DEF ColumnsMade, ReadApplied, Effect
<1> QED BY <1>4, <1>5, <1>7 DEF Orderly

LEMMA OrderlyExecute ==
  ASSUME IInv, Orderly, Quiet, NEW p \in Runs, Execute(p)
  PROVE  Orderly'
<1> DEFINE new == [run[p] EXCEPT !.at = @ + 1]
<1>1. Alone /\ RecordedBefore /\ ColumnsMade
  BY DEF Orderly
<1>2. Active(p) /\ run[p].pc = "apply"
  BY DEF Execute, InFile, Active
<1>3. run' = [run EXCEPT ![p] = new] /\ recorded' = recorded
  BY DEF Execute
<1>4. /\ run'[p] = new
      /\ \A q \in Runs : q # p => run[q].pc # "apply" /\ run'[q].pc # "apply"
      /\ Alone'
  BY <1>1, <1>2, <1>3, Others
<1>5. run[p] \in RunState
  BY DEF IInv, TypeOK
<1>6. /\ run'[p].pc = "apply" /\ run'[p].pending = run[p].pending
      /\ run'[p].at = run[p].at + 1
  BY <1>2, <1>4, <1>5 DEF RunState
<1>7. RecordedBefore'
  BY <1>1, <1>2, <1>3, <1>4, <1>6 DEF RecordedBefore, File
<1>8. PICK c \in File : run[p].pending = c .. Len(Files)
  BY <1>1, <1>2 DEF RecordedBefore
<1>9. Current(p) = c /\ Current(p)' = c
  BY <1>6, <1>8, FirstFile DEF Current
<1>10. /\ run[p].at \in Nat /\ run[p].at >= 1 /\ Len(Files[c]) \in Nat
       /\ run[p].at <= Len(Files[c])
  BY <1>5, <1>9, FileType DEF IInv, RunOK, Execute, InFile, RunState
<1>11. Executed(p) \subseteq Executed(p)' /\ Statement(p) \in Executed(p)'
  BY <1>6, <1>9, <1>10 DEF Executed, Statement
<1>12. ColumnsMade'
  <2> SUFFICES ASSUME NEW o \in schema', AddsColumn(o)
               PROVE  \/ \E f \in recorded : o \in Effect(f)
                      \/ o \in Executed(p)'
    BY <1>3, <1>6 DEF ColumnsMade, Effect
  <2>1. CASE o = Statement(p)
    BY <2>1, <1>11
  <2>2. CASE o \in schema
    BY <2>2, <1>1, <1>4, <1>11 DEF ColumnsMade
  <2> QED BY <2>1, <2>2 DEF Execute
<1> QED BY <1>4, <1>7, <1>12 DEF Orderly

LEMMA OrderlyRecord ==
  ASSUME IInv, Orderly, Quiet, NEW p \in Runs, Record(p)
  PROVE  Orderly'
<1>1. Alone /\ RecordedBefore /\ ColumnsMade
  BY DEF Orderly
<1>2. Active(p) /\ run[p].pc = "apply"
  BY DEF Record, Active
<1>3. PICK c \in File : run[p].pending = c .. Len(Files) /\ recorded = 1 .. c - 1
  BY <1>1, <1>2 DEF RecordedBefore
<1>4. Current(p) = c
  BY <1>3, FirstFile DEF Current
<1> DEFINE rest == (c .. Len(Files)) \ {c}
           new == IF rest = {} THEN Finished(p)
                  ELSE [pc |-> "apply", pending |-> rest, at |-> 1]
<1>5. /\ recorded' = recorded \cup {c} /\ schema' = schema
      /\ run' = [run EXCEPT ![p] = new]
  BY <1>3, <1>4, FilesBefore DEF Record, Advance
<1>6. /\ run'[p] = new
      /\ \A q \in Runs : q # p => run[q].pc # "apply" /\ run'[q].pc # "apply"
      /\ Alone'
  BY <1>1, <1>2, <1>5, Others
<1>7. rest = c + 1 .. Len(Files) /\ recorded' = 1 .. (c + 1) - 1
  BY <1>3, <1>5, FileIsNat DEF File
<1>8. RecordedBefore'
  <2>1. CASE rest = {}
    <3>1. run'[p].pc # "apply"
      BY <1>6, <2>1, FinishedType
    <3> QED BY <3>1, <1>6 DEF RecordedBefore
  <2>2. CASE rest # {}
    <3>1. c + 1 \in File
      BY <2>2, <1>7, FileIsNat DEF File
    <3>2. run'[p].pending = c + 1 .. Len(Files)
      <4>1. run'[p] = [pc |-> "apply", pending |-> rest, at |-> 1]
        BY <1>6, <2>2
      <4> QED BY <4>1, <1>7
    <3>3. \A q \in Runs : run'[q].pc = "apply" => q = p
      BY <1>6
    <3> QED BY <3>1, <3>2, <3>3, <1>7 DEF RecordedBefore, File
  <2> QED BY <2>1, <2>2
<1>9. Executed(p) \subseteq Effect(c)
  BY <1>4 DEF Executed, Effect
<1>10. \A o \in schema : AddsColumn(o) => \E f \in recorded' : o \in Effect(f)
  BY <1>1, <1>5, <1>6, <1>9 DEF ColumnsMade
<1>11. ColumnsMade'
  BY <1>5, <1>10 DEF ColumnsMade, Effect
<1> QED BY <1>6, <1>8, <1>11 DEF Orderly

LEMMA OrderlyInitDb == ASSUME IInv, Orderly, InitDb PROVE Orderly'
<1>1. "setup" \in Runs
  BY DEF Runs
<1>2. CASE \E t \in ModelTables : /\ schema' = schema \cup t /\ run' = run
                               /\ preempted' = (preempted \/ \E o \in t : AddsColumn(o))
  <2>1. PICK t \in ModelTables : /\ schema' = schema \cup t /\ run' = run
                                /\ preempted' = (preempted \/ \E o \in t : AddsColumn(o))
    BY <1>2
  <2>2. CASE ~preempted'
    <3>1. \A o \in schema' : AddsColumn(o) => o \in schema
      BY <2>1, <2>2
    <3> QED BY <2>1, <2>2, <3>1, OrderlyKept DEF InitDb, Quiet, Active
  <2>3. CASE preempted'
    BY <2>3 DEF Orderly, Quiet
  <2> QED BY <2>2, <2>3
<1>3. CASE run' = [run EXCEPT !["setup"].pc = "read"] /\ schema' = schema /\ preempted' = preempted
  <2>1. \A q \in Runs : /\ Active(q)' => Active(q)
                        /\ run[q].pc = "apply" \/ run'[q].pc = "apply" => run'[q] = run[q]
    BY <1>1, <1>3 DEF InitDb, Active, IInv, TypeOK, RunState
  <2> QED BY <1>3, <2>1, OrderlyKept DEF InitDb, Quiet
<1> QED BY <1>2, <1>3 DEF InitDb

LEMMA OrderlyBootstrap == ASSUME IInv, Orderly, Bootstrap PROVE Orderly'
<1>1. run' = [run EXCEPT !["api"].pc = "serving"] /\ "api" \in Runs
  BY DEF Bootstrap, Runs
<1>2. \A q \in Runs : /\ Active(q)' => Active(q)
                      /\ run[q].pc = "apply" \/ run'[q].pc = "apply" => run'[q] = run[q]
  BY <1>1 DEF Bootstrap, Active, IInv, TypeOK, RunState
<1> QED BY <1>2, OrderlyKept DEF Bootstrap, Quiet

LEMMA OrderlyStep == ASSUME IInv, Orderly, [Next]_vars PROVE Orderly'
<1>1. CASE \E p \in Runs : Step(p)
  <2>1. PICK p \in Runs : Step(p)
    BY <1>1
  <2>2. UNCHANGED <<crashes, overlapped, preempted>>
    BY <2>1 DEF Step, ReadApplied, Execute, Fail, Record
  <2>3. CASE Quiet
    <3>1. ~Fail(p)
      BY <2>3, NeverRefused DEF Fail
    <3> QED BY <2>1, <2>3, <3>1, OrderlyRead, OrderlyExecute, OrderlyRecord DEF Step
  <2>4. CASE ~Quiet
    BY <2>2, <2>4 DEF Orderly, Quiet
  <2> QED BY <2>3, <2>4
<1>2. CASE \/ \E p \in Runs : Crash(p)
           \/ CrashMcp
  <2>1. crashes \in Nat /\ crashes' = crashes + 1
    BY <1>2, MigrationsAssumption DEF IInv, TypeOK, MigrationsAssumption, Crash, CrashMcp
  <2> QED BY <2>1 DEF Orderly, Quiet
<1>3. CASE \E p \in Runs : StartShell(p)
  BY <1>3, OrderlyBegin DEF StartShell
<1>4. CASE StartContainer
  <2>1. "api" \in Runs
    BY DEF Runs
  <2> QED BY <1>4, <2>1, OrderlyBegin DEF StartContainer
<1>5. CASE StartSetup
  <2>1. "setup" \in Runs
    BY DEF Runs
  <2> QED BY <1>5, <2>1, OrderlyBegin DEF StartSetup
<1>6. CASE InitDb
  BY <1>6, OrderlyInitDb
<1>7. CASE Bootstrap
  BY <1>7, OrderlyBootstrap
<1>8. CASE StartMcp \/ UNCHANGED vars
  <2>1. UNCHANGED <<schema, recorded, run, crashes, overlapped, preempted>>
    BY <1>8 DEF StartMcp, vars
  <2> QED BY <2>1, OrderlyKept DEF Quiet, Active
<1> QED BY <1>1, <1>2, <1>3, <1>4, <1>5, <1>6, <1>7, <1>8 DEF Next

\* A blocked file has a column that no recorded file and no run at work made.
LEMMA OrderlyIsOpen ==
  ASSUME IInv, Orderly, Quiet, NEW f \in File, Blocked(f)
  PROVE  FALSE
<1>1. PICK i \in 1 .. Len(Files[f]) : AddsColumn(Files[f][i]) /\ Files[f][i] \in schema
  BY DEF Blocked, Effect
<1>2. CASE \E g \in recorded : Files[f][i] \in Effect(g)
  <2>1. PICK g \in recorded : \E j \in 1 .. Len(Files[g]) : Files[g][j] = Files[f][i]
    BY <1>2 DEF Effect
  <2>2. g \in File
    BY DEF IInv, TypeOK
  <2>3. g = f
    BY <1>1, <2>1, <2>2, OnePlace
  <2> QED BY <2>3 DEF Blocked
<1>3. CASE \E p \in Runs : run[p].pc = "apply" /\ Files[f][i] \in Executed(p)
  <2>1. PICK p \in Runs : run[p].pc = "apply" /\ Files[f][i] \in Executed(p)
    BY <1>3
  <2>2. PICK c \in File : run[p].pending = c .. Len(Files)
    BY <2>1 DEF Orderly, RecordedBefore
  <2>3. Current(p) = c
    BY <2>2, FirstFile DEF Current
  <2>4. PICK j \in 1 .. Len(Files[c]) : j < run[p].at /\ Files[c][j] = Files[f][i]
    BY <2>1, <2>3 DEF Executed
  <2>5. c = f
    BY <1>1, <2>4, OnePlace
  <2>6. run[p].at > 1
    <3>1. Len(Files[c]) \in Nat /\ run[p].at \in Nat
      BY FileType DEF IInv, TypeOK, RunState
    <3> QED BY <2>4, <3>1
  <2>7. run[p].pending # {}
    BY <2>2, FileIsNat DEF File
  <2> QED BY <2>1, <2>3, <2>5, <2>6, <2>7 DEF Blocked
<1> QED BY <1>1, <1>2, <1>3 DEF Orderly, ColumnsMade

-----------------------------------------------------------------------------
(* Theorems.                                                               *)

\* The inductive invariant holds in every reachable state.
THEOREM Inductive == Spec => []IInv
<1>1. Init => IInv
  BY InitOK
<1>2. IInv /\ [Next]_vars => IInv'
  BY StepOK
<1> QED BY <1>1, <1>2, PTL DEF Spec

\* Every variable keeps its type, the places and pending files of runs
\* included (apply_migrations.py:46-68).
THEOREM TypeCorrect == Spec => []TypeOK
<1>1. IInv => TypeOK
  BY DEF IInv
<1> QED BY <1>1, Inductive, PTL

\* What schema_versions records is in the schema (apply_migrations.py:60-67),
\* for any migration files and however runs overlap, fail and are killed.
THEOREM RecordedFilesAreApplied == Spec => []RecordedIsApplied
<1>1. IInv => RecordedIsApplied
  BY DEF IInv
<1> QED BY <1>1, Inductive, PTL

\* No file is recorded before an earlier one.
THEOREM FilesAreRecordedInOrder == Spec => []RecordedInOrder
<1>1. IInv => RecordedInOrder
  BY FileIsNat DEF IInv, Prefix, RecordedInOrder
<1> QED BY <1>1, Inductive, PTL

\* Both containers serve on the whole schema only (entrypoint.sh:59-62).
THEOREM ContainersServeWhenReady == Spec => []ServingIsReady
<1>1. IInv => ServingIsReady
  <2> SUFFICES ASSUME IInv PROVE ServingIsReady
    OBVIOUS
  <2>1. "api" \in Runs
    BY DEF Runs
  <2>2. run["api"].pc = "serving" => File \subseteq recorded
    BY <2>1 DEF IInv, RunOK
  <2>3. mcp = "up" => File \subseteq recorded
    BY DEF IInv, McpOK
  <2> QED BY <2>2, <2>3, RecordedIsSchema DEF IInv, ServingIsReady
<1> QED BY <1>1, Inductive, PTL

\* A schema that later runs cannot complete comes from a process that was
\* killed, from two runs at once or from init_db.py, for any migration files
\* that add each column once, to a table made before (apply_migrations.py:53-67,
\* init_db.py:13).
THEOREM BlockedHasCause == Spec => []BlockedNeedsCause
<1>1. Init => IInv /\ Orderly
  BY InitOK, OrderlyInit
<1>2. IInv /\ Orderly /\ [Next]_vars => (IInv /\ Orderly)'
  BY StepOK, OrderlyStep
<1>3. IInv /\ Orderly => BlockedNeedsCause
  <2> SUFFICES ASSUME IInv, Orderly, NEW f \in File, Blocked(f),
                      ~(crashes > 0), ~overlapped, ~preempted
               PROVE  FALSE
    BY DEF BlockedNeedsCause
  <2>1. crashes = 0
    BY MigrationsAssumption DEF IInv, TypeOK, MigrationsAssumption
  <2> QED BY <2>1, OrderlyIsOpen DEF Quiet
<1> QED BY <1>1, <1>2, <1>3, PTL DEF Spec
-----------------------------------------------------------------------------
(* The throttle.  In the life of a process, the failures that its log      *)
(* knows and the logins it has let in share the room that Threshold and    *)
(* Threads leave; what the log does not know is from earlier lives.        *)

Failure == [id : Nat, age : 0 .. Window]

LoginType ==
  /\ log \subseteq Failure /\ IsFiniteSet(log)
  /\ failures \subseteq Failure /\ IsFiniteSet(failures)
  /\ login \in [Threads -> {"none", "verify", "failed", "succeeded"}]

\* No two failures are counted as one.
Distinct == \A f, g \in log \cup failures : f.id = g.id => f = g

\* The log counts nothing but failures of the last window since a success.
Remembered == T!Fresh(log) \subseteq failures

Admitted == {t \in Threads : login[t] # "none"}
Room == Threshold + Cardinality(Threads) - 1

LifeBounded == Cardinality(T!Fresh(log)) + Cardinality(Admitted) <= Room
PastBounded == Cardinality(failures \ T!Fresh(log)) <= Room * crashes

ThrottleInv ==
  /\ LoginType /\ Distinct /\ Remembered /\ LifeBounded /\ PastBounded
  /\ RefusedForCause

LEMMA SameCardinality == ASSUME NEW S PROVE T!Cardinality(S) = Cardinality(S)
BY DEF T!Cardinality, Cardinality

LEMMA RoomIsNat == Cardinality(Threads) \in Nat /\ Room \in Nat
BY ApiContainerAssumption, FS_CardinalityType DEF ApiContainerAssumption, Room

LEMMA FreshPart ==
  ASSUME NEW S, IsFiniteSet(S)
  PROVE  /\ T!Fresh(S) \subseteq S
         /\ IsFiniteSet(T!Fresh(S)) /\ Cardinality(T!Fresh(S)) \in Nat
         /\ T!Fresh(T!Fresh(S)) = T!Fresh(S)
<1>1. T!Fresh(S) \subseteq S /\ T!Fresh(T!Fresh(S)) = T!Fresh(S)
  BY DEF T!Fresh
<1>2. IsFiniteSet(T!Fresh(S))
  BY <1>1, FS_Subset
<1> QED BY <1>1, <1>2, FS_CardinalityType

LEMMA FiniteParts ==
  ASSUME NEW S, IsFiniteSet(S), NEW P \in SUBSET S
  PROVE  /\ IsFiniteSet(P) /\ Cardinality(P) \in Nat
         /\ Cardinality(S) \in Nat /\ Cardinality(P) <= Cardinality(S)
BY FS_Subset, FS_CardinalityType

\* An image is no larger.
LEMMA ImageBound ==
  ASSUME NEW S, IsFiniteSet(S), NEW f, f = [x \in S |-> f[x]]
  PROVE  /\ IsFiniteSet({f[x] : x \in S})
         /\ Cardinality({f[x] : x \in S}) <= Cardinality(S)
<1>1. f \in Surjection(S, {f[x] : x \in S})
  BY DEF Surjection
<1> QED BY <1>1, FS_Surjection

LEMMA OlderPart ==
  ASSUME NEW S, IsFiniteSet(S)
  PROVE  /\ IsFiniteSet(T!Older(S)) /\ Cardinality(T!Older(S)) <= Cardinality(S)
         /\ Cardinality(T!Older(S)) \in Nat
<1> DEFINE f == [x \in S |-> [id |-> x.id, age |-> IF x.age < Window THEN x.age + 1 ELSE Window]]
<1>1. T!Older(S) = {f[x] : x \in S} /\ f = [x \in S |-> f[x]]
  BY DEF T!Older
<1> HIDE DEF f
<1>2. IsFiniteSet(T!Older(S)) /\ Cardinality(T!Older(S)) <= Cardinality(S)
  BY <1>1, ImageBound
<1> QED BY <1>2, FS_CardinalityType

\* There is a number for a new failure.
LEMMA NewNumber ==
  ASSUME LoginType
  PROVE  /\ T!NewFailure \in Failure /\ T!NewFailure.age = 0
         /\ \A f \in log \cup failures : f.id # T!NewFailure.id
<1> DEFINE S == log \cup failures
           number == [f \in S |-> f.id]
           known == {f.id : f \in S}
           n == Cardinality(known)
<1>1. IsFiniteSet(S)
  BY FS_Union DEF LoginType
<1>2. known = {number[f] : f \in S} /\ number = [f \in S |-> number[f]]
  OBVIOUS
<1>3. IsFiniteSet(known)
  <2> HIDE DEF number, known, S
  <2> QED BY <1>1, <1>2, ImageBound
<1>4. n \in Nat
  BY <1>3, FS_CardinalityType
<1>5. \E i \in 1 .. n + 1 : i \notin known
  <2> SUFFICES ASSUME 1 .. n + 1 \subseteq known PROVE FALSE
    OBVIOUS
  <2> HIDE DEF known
  <2>1. Cardinality(1 .. n + 1) = n + 1
    BY <1>4, FS_Interval
  <2>2. Cardinality(1 .. n + 1) <= Cardinality(known)
    BY <1>3, FS_Subset
  <2> QED BY <1>4, <2>1, <2>2
<1> DEFINE i == CHOOSE k \in 1 .. n + 1 : k \notin known
<1>6. i \in 1 .. n + 1 /\ i \notin known
  <2> HIDE DEF known, n
  <2> QED BY <1>5
<1>7. T!NewFailure = [id |-> i, age |-> 0]
  BY SameCardinality, Zenon DEF T!NewFailure
<1> HIDE DEF i, n
<1>8. i \in Nat
  BY <1>4, <1>6
<1>9. [id |-> i, age |-> 0] \in Failure
  BY <1>8, ApiContainerAssumption DEF Failure, ApiContainerAssumption
<1> QED BY <1>6, <1>7, <1>9

\* What the bounds are about.
LEMMA Counts ==
  ASSUME LoginType
  PROVE  /\ IsFiniteSet(T!Fresh(log)) /\ Cardinality(T!Fresh(log)) \in Nat
         /\ IsFiniteSet(Admitted) /\ Cardinality(Admitted) \in Nat
         /\ Cardinality(Admitted) <= Cardinality(Threads)
         /\ IsFiniteSet(failures \ T!Fresh(log))
         /\ Cardinality(failures \ T!Fresh(log)) \in Nat
<1>1. IsFiniteSet(T!Fresh(log)) /\ Cardinality(T!Fresh(log)) \in Nat
  BY FreshPart DEF LoginType
<1>2. Admitted \subseteq Threads /\ IsFiniteSet(Threads)
  BY ApiContainerAssumption DEF Admitted, ApiContainerAssumption
<1>3. /\ IsFiniteSet(Admitted) /\ Cardinality(Admitted) \in Nat
      /\ Cardinality(Admitted) <= Cardinality(Threads)
  BY <1>2, FiniteParts
<1>4. failures \ T!Fresh(log) \subseteq failures
  OBVIOUS
<1>5. /\ IsFiniteSet(failures \ T!Fresh(log))
      /\ Cardinality(failures \ T!Fresh(log)) \in Nat
  BY <1>4, FiniteParts DEF LoginType
<1> QED BY <1>1, <1>3, <1>5

LEMMA Product ==
  ASSUME NEW r \in Nat, NEW c \in Nat
  PROVE  r * c \in Nat /\ r * (c + 1) = r * c + r
OBVIOUS

-----------------------------------------------------------------------------
(* Steps of the throttle.                                                  *)

\* Check, whichever way it goes: the stale failures are dropped.
LEMMA DropStale ==
  ASSUME ThrottleInv, log' = T!Fresh(log), UNCHANGED <<failures, crashes>>
  PROVE  /\ T!Fresh(log)' = T!Fresh(log)
         /\ log' \subseteq Failure /\ IsFiniteSet(log')
         /\ Distinct' /\ Remembered' /\ PastBounded'
<1>1. /\ T!Fresh(log) \subseteq log /\ IsFiniteSet(T!Fresh(log))
      /\ T!Fresh(T!Fresh(log)) = T!Fresh(log)
  BY FreshPart DEF ThrottleInv, LoginType
<1>2. T!Fresh(log') = T!Fresh(log)
  BY <1>1
<1>3. T!Fresh(log)' = T!Fresh(log)
  BY <1>2 DEF T!Fresh
<1>4. log' \subseteq Failure
  BY <1>1 DEF ThrottleInv, LoginType
<1>5. Distinct'
  BY <1>1 DEF ThrottleInv, Distinct
<1>6. Remembered'
  BY <1>3 DEF ThrottleInv, Remembered
<1>7. PastBounded'
  BY <1>3 DEF ThrottleInv, PastBounded, Room
<1> QED BY <1>1, <1>3, <1>4, <1>5, <1>6, <1>7

LEMMA AllowOK ==
  ASSUME ThrottleInv, NEW t \in Threads, T!Allow(t), UNCHANGED crashes
  PROVE  ThrottleInv'
<1>1. log' = T!Fresh(log) /\ Cardinality(log') < Threshold /\ UNCHANGED <<failures, refused>>
  BY SameCardinality DEF T!Allow
<1>2. /\ T!Fresh(log)' = T!Fresh(log)
      /\ log' \subseteq Failure /\ IsFiniteSet(log')
      /\ Distinct' /\ Remembered' /\ PastBounded'
  BY <1>1, DropStale
<1>3. LoginType'
  <2>1. login' \in [Threads -> {"none", "verify", "failed", "succeeded"}]
    BY DEF T!Allow, ThrottleInv, LoginType
  <2> QED BY <1>1, <1>2, <2>1 DEF ThrottleInv, LoginType, Failure
<1>4. LifeBounded'
  <2>1. Cardinality(Admitted)' \in Nat /\ Cardinality(Admitted)' <= Cardinality(Threads)
    BY <1>3, Counts, ApiContainerAssumption, FiniteParts DEF Admitted, ApiContainerAssumption
  <2>2. Cardinality(T!Fresh(log)) \in Nat /\ Cardinality(T!Fresh(log)) < Threshold
    BY <1>1, Counts DEF ThrottleInv
  <2> QED BY <1>2, <2>1, <2>2, RoomIsNat, ApiContainerAssumption
          DEF LifeBounded, Room, ApiContainerAssumption
<1> QED BY <1>1, <1>2, <1>3, <1>4 DEF ThrottleInv, RefusedForCause

LEMMA RefuseOK ==
  ASSUME ThrottleInv, NEW t \in Threads, T!Refuse(t), UNCHANGED crashes
  PROVE  ThrottleInv'
<1>1. log' = T!Fresh(log) /\ UNCHANGED <<failures, login>>
  BY DEF T!Refuse
<1>2. /\ T!Fresh(log)' = T!Fresh(log)
      /\ log' \subseteq Failure /\ IsFiniteSet(log')
      /\ Distinct' /\ Remembered' /\ PastBounded'
  BY <1>1, DropStale
<1>3. LoginType'
  BY <1>1, <1>2 DEF ThrottleInv, LoginType, Failure
<1>4. LifeBounded'
  BY <1>1, <1>2 DEF ThrottleInv, LifeBounded, Admitted, Room
<1>5. RefusedForCause'
  <2>1. Threshold <= Cardinality(T!Fresh(log))
    BY <1>1, Counts, SameCardinality, ApiContainerAssumption
       DEF T!Refuse, ThrottleInv, ApiContainerAssumption
  <2>2. /\ Cardinality(T!Fresh(log)) \in Nat /\ Cardinality(failures) \in Nat
        /\ Cardinality(T!Fresh(log)) <= Cardinality(failures)
    BY FiniteParts DEF ThrottleInv, LoginType, Remembered
  <2>3. ~(Cardinality(failures) < Threshold)
    BY <2>1, <2>2, ApiContainerAssumption DEF ApiContainerAssumption
  <2> QED BY <2>3, SameCardinality DEF T!Refuse, ThrottleInv, RefusedForCause
<1> QED BY <1>2, <1>3, <1>4, <1>5 DEF ThrottleInv

LEMMA VerifyOK ==
  ASSUME ThrottleInv, NEW t \in Threads, T!Verify(t), UNCHANGED crashes
  PROVE  ThrottleInv'
<1>1. UNCHANGED <<log, failures, refused>>
  BY DEF T!Verify
<1>2. LoginType' /\ Admitted' = Admitted
  BY <1>1 DEF T!Verify, ThrottleInv, LoginType, Failure, Admitted
<1> QED BY <1>1, <1>2
        DEF ThrottleInv, Distinct, Remembered, LifeBounded, PastBounded, RefusedForCause,
            Room, T!Fresh

\* A login that ends makes room for one.
LEMMA Leave ==
  ASSUME LoginType, NEW t \in Threads, login[t] # "none", login' = [login EXCEPT ![t] = "none"]
  PROVE  /\ login' \in [Threads -> {"none", "verify", "failed", "succeeded"}]
         /\ Cardinality(Admitted') = Cardinality(Admitted) - 1
<1>1. Admitted' = Admitted \ {t} /\ t \in Admitted
  BY DEF Admitted, LoginType
<1>2. IsFiniteSet(Admitted)
  BY Counts
<1>3. Cardinality(Admitted \ {t}) = Cardinality(Admitted) - 1
  BY <1>1, <1>2, FS_RemoveElement
<1> QED BY <1>1, <1>3 DEF LoginType

LEMMA RecordFailureOK ==
  ASSUME ThrottleInv, crashes \in Nat, NEW t \in Threads, T!RecordFailure(t), UNCHANGED crashes
  PROVE  ThrottleInv'
<1>1. PICK new : /\ new = T!NewFailure
                 /\ log' = log \cup {new} /\ failures' = failures \cup {new}
                 /\ refused' = refused
  BY DEF T!RecordFailure
<1>2. new \in Failure /\ new.age = 0 /\ \A f \in log \cup failures : f.id # new.id
  BY <1>1, NewNumber DEF ThrottleInv
<1>3. /\ login' \in [Threads -> {"none", "verify", "failed", "succeeded"}]
      /\ Cardinality(Admitted') = Cardinality(Admitted) - 1
  BY Leave DEF T!RecordFailure, ThrottleInv
<1>4. LoginType'
  <2>1. IsFiniteSet(log') /\ IsFiniteSet(failures')
    BY <1>1, FS_AddElement DEF ThrottleInv, LoginType
  <2>2. log' \subseteq Failure /\ failures' \subseteq Failure
    BY <1>1, <1>2 DEF ThrottleInv, LoginType
  <2> QED BY <1>3, <2>1, <2>2 DEF LoginType, Failure
<1>5. T!Fresh(log)' = T!Fresh(log) \cup {new}
  BY <1>1, <1>2, ApiContainerAssumption DEF T!Fresh, ApiContainerAssumption
<1>6. Distinct'
  BY <1>1, <1>2 DEF ThrottleInv, Distinct
<1>7. Remembered'
  BY <1>1, <1>5 DEF ThrottleInv, Remembered
<1>8. LifeBounded'
  <2>1. IsFiniteSet(T!Fresh(log)) /\ Cardinality(T!Fresh(log)) \in Nat
    BY Counts DEF ThrottleInv
  <2>2. /\ Cardinality(T!Fresh(log) \cup {new}) \in Nat
        /\ Cardinality(T!Fresh(log) \cup {new}) <= Cardinality(T!Fresh(log)) + 1
    <3>1. Cardinality(T!Fresh(log) \cup {new}) =
            IF new \in T!Fresh(log) THEN Cardinality(T!Fresh(log))
            ELSE Cardinality(T!Fresh(log)) + 1
      BY <2>1, FS_AddElement
    <3> QED BY <2>1, <3>1
  <2> QED BY <1>3, <1>5, <2>1, <2>2, Counts, RoomIsNat DEF ThrottleInv, LifeBounded, Room
<1>9. PastBounded'
  <2>1. failures' \ T!Fresh(log)' \in SUBSET (failures \ T!Fresh(log))
    BY <1>1, <1>5
  <2>2. /\ Cardinality(failures' \ T!Fresh(log)') \in Nat
        /\ Cardinality(failures' \ T!Fresh(log)') <= Cardinality(failures \ T!Fresh(log))
    BY <2>1, Counts, FiniteParts DEF ThrottleInv
  <2>3. Room * crashes \in Nat /\ Room * crashes' = Room * crashes
    BY RoomIsNat, Product
  <2> QED BY <2>2, <2>3, Counts DEF ThrottleInv, PastBounded, Room
<1> QED BY <1>1, <1>4, <1>6, <1>7, <1>8, <1>9 DEF ThrottleInv, RefusedForCause

LEMMA NothingFresh ==
  T!Fresh({}) = {} /\ Cardinality(T!Fresh({})) = 0 /\ Cardinality({}) = 0 /\ IsFiniteSet({})
BY FS_EmptySet DEF T!Fresh

LEMMA ClearFailuresOK ==
  ASSUME ThrottleInv, crashes \in Nat, NEW t \in Threads, T!ClearFailures(t), UNCHANGED crashes
  PROVE  ThrottleInv'
<1>1. log' = {} /\ failures' = {} /\ refused' = refused
  BY DEF T!ClearFailures
<1>2. /\ login' \in [Threads -> {"none", "verify", "failed", "succeeded"}]
      /\ Cardinality(Admitted') = Cardinality(Admitted) - 1
  BY Leave DEF T!ClearFailures, ThrottleInv
<1>3. LoginType'
  BY <1>1, <1>2, NothingFresh DEF LoginType
<1>4. T!Fresh(log)' = {} /\ Cardinality(T!Fresh(log)') = 0
  BY <1>1, NothingFresh
<1>5. Distinct' /\ Remembered'
  BY <1>1, <1>4 DEF Distinct, Remembered
<1>6. LifeBounded'
  BY <1>2, <1>4, Counts, RoomIsNat DEF ThrottleInv, LifeBounded, Room
<1>7. PastBounded'
  <2>1. Cardinality(failures' \ T!Fresh(log)') = 0
    BY <1>1, NothingFresh
  <2>2. Room * crashes \in Nat
    BY RoomIsNat, Product
  <2> QED BY <2>1, <2>2 DEF PastBounded, Room
<1> QED BY <1>1, <1>3, <1>5, <1>6, <1>7 DEF ThrottleInv, RefusedForCause

\* What is fresh after a while was fresh before, in the log and in all.
LEMMA TickOK ==
  ASSUME ThrottleInv, crashes \in Nat, T!Tick, UNCHANGED crashes
  PROVE  ThrottleInv'
<1> DEFINE Age(f) == [id |-> f.id, age |-> IF f.age < Window THEN f.age + 1 ELSE Window]
<1>1. /\ log' = {Age(f) : f \in log}
      /\ failures' = {g \in {Age(f) : f \in failures} : g.age < Window}
      /\ UNCHANGED <<login, refused>>
  BY DEF T!Tick, T!Older, T!Fresh
<1>2. \A f \in Failure : /\ Age(f) \in Failure
                         /\ Age(f).id = f.id
                         /\ Age(f).age < Window => f.age < Window
  BY ApiContainerAssumption DEF Failure, ApiContainerAssumption
<1>3. LoginType'
  <2>1. log' \subseteq Failure /\ failures' \subseteq Failure
    BY <1>1, <1>2 DEF ThrottleInv, LoginType
  <2>2. IsFiniteSet(log') /\ IsFiniteSet(failures')
    BY OlderPart, FreshPart DEF T!Tick, ThrottleInv, LoginType
  <2> QED BY <1>1, <2>1, <2>2 DEF ThrottleInv, LoginType, Failure
<1>4. Distinct'
  <2> SUFFICES ASSUME NEW f \in log' \cup failures', NEW g \in log' \cup failures', f.id = g.id
               PROVE  f = g
    BY DEF Distinct
  <2>1. PICK f0 \in log \cup failures : f = Age(f0)
    BY <1>1
  <2>2. PICK g0 \in log \cup failures : g = Age(g0)
    BY <1>1
  <2>3. f0.id = g0.id
    BY <2>1, <2>2
  <2>4. f0 = g0
    BY <2>3 DEF ThrottleInv, Distinct
  <2> QED BY <2>1, <2>2, <2>4
<1>5. ASSUME NEW g \in T!Fresh(log)'
      PROVE  \E f \in T!Fresh(log) : g = Age(f)
  <2>1. g \in log' /\ g.age < Window
    BY DEF T!Fresh
  <2>2. PICK f \in log : g = Age(f)
    BY <1>1, <2>1
  <2>3. f.age < Window
    BY <1>2, <2>1, <2>2 DEF ThrottleInv, LoginType
  <2> QED BY <2>2, <2>3 DEF T!Fresh
<1>6. Remembered'
  <2> SUFFICES ASSUME NEW g \in T!Fresh(log)' PROVE g \in failures'
    BY DEF Remembered
  <2>1. PICK f \in T!Fresh(log) : g = Age(f)
    BY <1>5
  <2>2. f \in failures /\ g.age < Window
    BY DEF ThrottleInv, Remembered, T!Fresh
  <2> QED BY <1>1, <2>1, <2>2
<1>7. LifeBounded'
  <2>1. T!Fresh(log)' \in SUBSET T!Older(T!Fresh(log))
    BY <1>5 DEF T!Older
  <2>2. /\ Cardinality(T!Fresh(log)') \in Nat
        /\ Cardinality(T!Fresh(log)') <= Cardinality(T!Fresh(log))
    <3>1. /\ IsFiniteSet(T!Older(T!Fresh(log)))
          /\ Cardinality(T!Older(T!Fresh(log))) \in Nat
          /\ Cardinality(T!Older(T!Fresh(log))) <= Cardinality(T!Fresh(log))
      BY Counts, OlderPart DEF ThrottleInv
    <3>2. /\ Cardinality(T!Fresh(log)') \in Nat
          /\ Cardinality(T!Fresh(log)') <= Cardinality(T!Older(T!Fresh(log)))
      BY <2>1, <3>1, FiniteParts
    <3> QED BY <3>1, <3>2, Counts DEF ThrottleInv
  <2>3. Admitted' = Admitted
    BY <1>1 DEF Admitted
  <2> QED BY <2>2, <2>3, Counts, RoomIsNat DEF ThrottleInv, LifeBounded, Room
<1>8. PastBounded'
  <2> DEFINE past == failures \ T!Fresh(log)
  <2>1. failures' \ T!Fresh(log)' \in SUBSET T!Older(past)
    <3> SUFFICES ASSUME NEW g \in failures', g \notin T!Fresh(log)' PROVE g \in T!Older(past)
      OBVIOUS
    <3>1. PICK f \in failures : g = Age(f) /\ g.age < Window
      BY <1>1
    <3>2. f \notin T!Fresh(log)
      BY <1>1, <3>1 DEF T!Fresh
    <3> QED BY <3>1, <3>2 DEF T!Older
  <2>2. /\ Cardinality(failures' \ T!Fresh(log)') \in Nat
        /\ Cardinality(failures' \ T!Fresh(log)') <= Cardinality(past)
    <3>1. /\ IsFiniteSet(T!Older(past)) /\ Cardinality(T!Older(past)) \in Nat
          /\ Cardinality(T!Older(past)) <= Cardinality(past)
      BY Counts, OlderPart DEF ThrottleInv
    <3>2. /\ Cardinality(failures' \ T!Fresh(log)') \in Nat
          /\ Cardinality(failures' \ T!Fresh(log)') <= Cardinality(T!Older(past))
      BY <2>1, <3>1, FiniteParts
    <3> QED BY <3>1, <3>2, Counts DEF ThrottleInv
  <2>3. Cardinality(past) <= Room * crashes /\ Cardinality(past) \in Nat
    BY Counts DEF ThrottleInv, PastBounded
  <2>4. Room * crashes \in Nat /\ Room * crashes' = Room * crashes
    BY RoomIsNat, Product
  <2> HIDE DEF past
  <2> QED BY <2>2, <2>3, <2>4 DEF PastBounded, Room
<1> QED BY <1>1, <1>3, <1>4, <1>6, <1>7, <1>8 DEF ThrottleInv, RefusedForCause

\* All that is known to a log that is lost becomes past.
LEMMA AllFailures ==
  ASSUME ThrottleInv, crashes \in Nat
  PROVE  Cardinality(failures) \in Nat /\ Cardinality(failures) <= Room * (crashes + 1)
<1> DEFINE fresh == T!Fresh(log)
           past == failures \ T!Fresh(log)
<1>1. /\ IsFiniteSet(fresh) /\ Cardinality(fresh) \in Nat
      /\ IsFiniteSet(past) /\ Cardinality(past) \in Nat /\ Cardinality(Admitted) \in Nat
  BY Counts DEF ThrottleInv
<1>2. failures = fresh \cup past /\ fresh \cap past = {}
  BY DEF ThrottleInv, Remembered
<1>3. Cardinality(fresh) + Cardinality(Admitted) <= Room /\ Cardinality(past) <= Room * crashes
  BY DEF ThrottleInv, LifeBounded, PastBounded
<1> HIDE DEF fresh, past
<1>4. Cardinality(failures) = Cardinality(fresh) + Cardinality(past)
  <2>1. Cardinality(fresh \cup past) =
          Cardinality(fresh) + Cardinality(past) - Cardinality(fresh \cap past)
    BY <1>1, FS_Union
  <2>2. Cardinality(fresh \cap past) = 0
    BY <1>2, FS_EmptySet
  <2>3. Cardinality(fresh \cup past) = Cardinality(failures)
    BY <1>2
  <2> QED BY <1>1, <2>1, <2>2, <2>3
<1>5. Room * crashes \in Nat /\ Room * (crashes + 1) = Room * crashes + Room /\ Room \in Nat
  BY RoomIsNat, Product
<1> QED BY <1>1, <1>3, <1>4, <1>5

LEMMA ResetOK ==
  ASSUME ThrottleInv, crashes \in Nat, crashes' = crashes + 1, T!LoginReset
  PROVE  ThrottleInv'
<1>1. /\ log' = {} /\ login' = [t \in Threads |-> "none"]
      /\ UNCHANGED <<failures, refused>>
  BY DEF T!LoginReset
<1>2. T!Fresh(log)' = {} /\ Cardinality(T!Fresh(log)') = 0
  BY <1>1, NothingFresh
<1>3. LoginType' /\ Distinct' /\ Remembered'
  BY <1>1, <1>2, NothingFresh DEF ThrottleInv, LoginType, Failure, Distinct, Remembered
<1>4. LifeBounded'
  <2>1. Admitted' = {}
    BY <1>1 DEF Admitted
  <2> QED BY <1>2, <2>1, NothingFresh, RoomIsNat DEF LifeBounded, Room
<1>5. PastBounded'
  <2>1. failures' \ T!Fresh(log)' = failures
    BY <1>1, <1>2
  <2> QED BY <2>1, AllFailures DEF PastBounded, Room
<1> QED BY <1>1, <1>3, <1>4, <1>5 DEF ThrottleInv, RefusedForCause

\* A step that the log does not see.
LEMMA UnseenOK ==
  ASSUME ThrottleInv, crashes \in Nat, crashes' \in {crashes, crashes + 1},
         UNCHANGED <<log, login, failures, refused>>
  PROVE  ThrottleInv'
<1>1. PastBounded'
  <2>1. Cardinality(failures \ T!Fresh(log)) \in Nat
    BY Counts DEF ThrottleInv
  <2>2. Cardinality(failures' \ T!Fresh(log)') = Cardinality(failures \ T!Fresh(log))
    BY DEF T!Fresh
  <2>3. /\ Room * crashes \in Nat /\ Room * (crashes + 1) = Room * crashes + Room
        /\ Room \in Nat
    BY RoomIsNat, Product
  <2>4. Cardinality(failures \ T!Fresh(log)) <= Room * crashes'
    BY <2>1, <2>3 DEF ThrottleInv, PastBounded
  <2> QED BY <2>2, <2>4 DEF PastBounded, Room
<1> QED BY <1>1
        DEF ThrottleInv, LoginType, Failure, Distinct, Remembered, LifeBounded, Admitted, Room,
            RefusedForCause, T!Fresh

\* Only a crash ends a container that serves.
LEMMA DeployCrashes ==
  ASSUME IInv, Next
  PROVE  /\ crashes' \in {crashes, crashes + 1}
         /\ Serving /\ run'["api"].pc # "serving" => crashes' = crashes + 1
<1>1. "api" \in Runs /\ "setup" \in Runs
  BY DEF Runs
<1>2. run \in [Runs -> RunState]
  BY DEF IInv, TypeOK
<1>3. ASSUME NEW p \in Runs, Step(p) \/ StartShell(p)
      PROVE  crashes' = crashes /\ (Serving => run'["api"].pc = "serving")
  <2>1. crashes' = crashes
    BY <1>3 DEF Step, ReadApplied, Execute, Fail, Record, StartShell, Begin
  <2>2. ASSUME Serving PROVE run'["api"].pc = "serving"
    <3>1. p # "api"
      BY <1>3, <2>2, MigrationsAssumption
         DEF Step, ReadApplied, Execute, Fail, Record, InFile, StartShell, Serving,
             MigrationsAssumption
    <3>2. run'["api"] = run["api"]
      BY <1>1, <1>2, <1>3, <3>1
         DEF Step, ReadApplied, Execute, Fail, Record, Advance, End, Ended, StartShell, Begin
    <3> QED BY <2>2, <3>2 DEF Serving
  <2> QED BY <2>1, <2>2
<1>4. ASSUME NEW p \in Runs, Crash(p)
      PROVE  crashes' = crashes + 1
  BY <1>4 DEF Crash
<1>5. ASSUME StartContainer \/ StartSetup \/ InitDb \/ Bootstrap \/ StartMcp
      PROVE  crashes' = crashes /\ (Serving => run'["api"].pc = "serving")
  BY <1>1, <1>2, <1>5
     DEF StartContainer, StartSetup, InitDb, Bootstrap, StartMcp, Begin, Serving
<1>6. ASSUME CrashMcp PROVE crashes' = crashes + 1 /\ run' = run
  BY <1>6 DEF CrashMcp
<1> QED BY <1>3, <1>4, <1>5, <1>6 DEF Next, Serving

LEMMA ThrottleStep ==
  ASSUME IInv, ThrottleInv, [ContainerNext]_containerVars
  PROVE  ThrottleInv'
<1>1. crashes \in Nat
  BY MigrationsAssumption DEF IInv, TypeOK, MigrationsAssumption
<1>2. CASE Deploy
  <2>1. CASE T!LoginReset /\ crashes' = crashes + 1
    BY <1>1, <2>1, ResetOK
  <2>2. CASE UNCHANGED <<log, login, failures, refused>> /\ crashes' \in {crashes, crashes + 1}
    BY <1>1, <2>2, UnseenOK
  <2> QED BY <1>2, <2>1, <2>2, DeployCrashes DEF Deploy
<1>3. CASE Serve
  <2>1. UNCHANGED crashes
    BY <1>3 DEF Serve, vars
  <2> QED BY <1>1, <1>3, <2>1, AllowOK, RefuseOK, VerifyOK, RecordFailureOK, ClearFailuresOK, TickOK
          DEF Serve, T!LoginNext
<1>4. CASE UNCHANGED containerVars
  BY <1>1, <1>4, UnseenOK DEF containerVars, vars
<1> QED BY <1>2, <1>3, <1>4 DEF ContainerNext

LEMMA ThrottleInit == ASSUME ContainerInit PROVE ThrottleInv
<1>1. /\ log = {} /\ failures = {} /\ login = [t \in Threads |-> "none"] /\ refused = FALSE
      /\ crashes = 0
  BY DEF ContainerInit, T!LoginInit, Init
<1>2. Admitted = {} /\ T!Fresh(log) = {} /\ failures \ T!Fresh(log) = {}
  BY <1>1, NothingFresh DEF Admitted
<1>3. Room * crashes \in Nat /\ Room \in Nat
  BY <1>1, RoomIsNat, Product
<1>4. LifeBounded /\ PastBounded
  BY <1>2, <1>3, NothingFresh DEF LifeBounded, PastBounded
<1> QED BY <1>1, <1>2, <1>4, NothingFresh
        DEF ThrottleInv, LoginType, Distinct, Remembered, RefusedForCause

-----------------------------------------------------------------------------
(* Theorems about the container.                                           *)

\* Serving logins, and losing their log, are no step of the migrations: every
\* step of the container is one of theirs or leaves the schema, the record and
\* the runs alone (entrypoint.sh:59-99).
THEOREM ContainerImplementsMigrations == ContainerSpec => Spec
<1>1. ContainerInit => Init
  BY DEF ContainerInit
<1>2. [ContainerNext]_containerVars => [Next]_vars
  <2> SUFFICES ASSUME [ContainerNext]_containerVars PROVE [Next]_vars
    OBVIOUS
  <2>1. CASE Deploy
    BY <2>1 DEF Deploy
  <2>2. CASE Serve
    BY <2>2 DEF Serve
  <2>3. CASE UNCHANGED containerVars
    BY <2>3 DEF containerVars
  <2> QED BY <2>1, <2>2, <2>3 DEF ContainerNext
<1> QED BY <1>1, <1>2, PTL DEF ContainerSpec, Spec

\* What schema_versions records is in the schema, the containers serve on the
\* whole of it and no run left alone blocks a file, while logins come and go
\* (apply_migrations.py:60-67).
THEOREM ContainerIsSafe ==
  ContainerSpec => [](RecordedIsApplied /\ RecordedInOrder /\ ServingIsReady /\ BlockedNeedsCause)
BY ContainerImplementsMigrations, RecordedFilesAreApplied, FilesAreRecordedInOrder,
   ContainersServeWhenReady, BlockedHasCause, PTL

\* "max 5 failed attempts per (ip, email) per 5-min window", for any number of
\* concurrent logins and restarts: the threads let in together come on top, and
\* each restart forgets what was counted (auth_routes.py:28-35).
THEOREM FailuresAreBounded == ContainerSpec => []FailuresBounded
<1>1. ContainerInit => ThrottleInv
  BY ThrottleInit
<1>2. IInv /\ ThrottleInv /\ [ContainerNext]_containerVars => ThrottleInv'
  BY ThrottleStep
<1>3. IInv /\ ThrottleInv => FailuresBounded
  <2> SUFFICES ASSUME IInv, ThrottleInv PROVE FailuresBounded
    OBVIOUS
  <2>1. crashes \in Nat
    BY MigrationsAssumption DEF IInv, TypeOK, MigrationsAssumption
  <2> QED BY <2>1, AllFailures DEF FailuresBounded, Room
<1>4. ContainerSpec => []IInv
  BY ContainerImplementsMigrations, Inductive, PTL
<1> QED BY <1>1, <1>2, <1>3, <1>4, PTL DEF ContainerSpec

\* No login is refused with fewer than Threshold failures of the last window
\* since the last success, whatever stale failures the log still holds
\* (auth_routes.py:46-56).
THEOREM RefusalsHaveCause == ContainerSpec => []RefusedForCause
<1>1. ContainerInit => ThrottleInv
  BY ThrottleInit
<1>2. IInv /\ ThrottleInv /\ [ContainerNext]_containerVars => ThrottleInv'
  BY ThrottleStep
<1>3. ThrottleInv => RefusedForCause
  BY DEF ThrottleInv
<1>4. ContainerSpec => []IInv
  BY ContainerImplementsMigrations, Inductive, PTL
<1> QED BY <1>1, <1>2, <1>3, <1>4, PTL DEF ContainerSpec
=============================================================================
