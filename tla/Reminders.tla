----------------------------- MODULE Reminders -----------------------------
(***************************************************************************)
(* The reminder dispatcher: dispatch_reminders of src/mypa/scheduler.py, a *)
(* job of mypa-api, against the requests that add and remove reminders and *)
(* change notification settings in mypa-api and mypa-mcp meanwhile.        *)
(*                                                                         *)
(* A tick selects due rows, then for each row reads its owner's settings   *)
(* (once per tick), pushes, and marks it fired; all marks are committed    *)
(* together at the end.  The first mark takes SQLite's write lock, which   *)
(* the tick then keeps until it commits.                                   *)
(*                                                                         *)
(* Time is in hours.  The ORM stores fire_at as text, without its offset:  *)
(* "2026-05-22 15:30:00.000000"; the dispatcher compares that text with    *)
(* "2026-05-22T14:30:00.000000+00:00".  A space sorts before T, so the     *)
(* comparison only sees the dates (Due).                                   *)
(***************************************************************************)
EXTENDS Integers, Sequences, SequencesExt, FiniteSets

CONSTANTS
  Users, Reminders,
  MaxId,      \* rows ever present at once (a bound)
  DayLength,  \* hours in a day
  LastHour,   \* the clock stops there (a bound)
  Offsets,    \* UTC offsets of the fire_at that clients send
  Limit,      \* LIMIT of the dispatcher's query
  MaxTopic,   \* topics a user ever has (a bound)
  MaxFaults,  \* ticks cut short and answers lost (a bound)
  None

ASSUME RemindersAssumption ==
  /\ MaxId \in Nat /\ DayLength \in Nat \ {0} /\ LastHour \in Nat
  /\ Offsets \subseteq Int /\ Limit \in Nat \ {0}
  /\ MaxTopic \in Nat /\ MaxFaults \in Nat

VARIABLES
  now,        \* the hour, in UTC
  row,        \* the reminders table, by id; None where there is no row
  settings,   \* notify_topic and the realtime preference, by user
  tick,       \* the dispatcher
  pushes,     \* how often ntfy accepted a push of the reminder
  faults,     \* history: ticks cut short and answers lost so far
  fate,       \* history: has the reminder been added, and was it then given
              \* the id of a deleted row that a tick still held (displaced)?
  changed     \* history: users whose settings changed since the tick began

vars == <<now, row, settings, tick, pushes, faults, fate, changed>>

Hours == 0 .. LastHour
Ids == 1 .. MaxId
Row == [is : Reminders, owner : Users, wall : Hours, offset : Offsets, fired : BOOLEAN]

\* Topic 0 is a NULL notify_topic, of an account older than migration 005.
Settings == [topic : 0 .. MaxTopic, realtime : BOOLEAN]
Entry == [id : Ids, is : Reminders, owner : Users, wall : Hours, offset : Offsets]

\* None is no row and no settings.
ASSUME RemindersNoneAssumption == None \notin Row \cup Settings

TypeOK ==
  /\ now \in Hours
  /\ row \in [Ids -> Row \cup {None}]
  /\ settings \in [Users -> Settings]
  /\ tick \in [pc : {"idle", "row", "mark"}, batch : Seq(Entry),
               known : [Users -> Settings \cup {None}],
               marks : SUBSET Ids, locked : BOOLEAN]
  /\ pushes \in [Reminders -> Nat]
  /\ faults \in 0 .. MaxFaults
  /\ fate \in [Reminders -> {"new", "added", "displaced"}]
  /\ changed \subseteq Users

Resting == [pc |-> "idle", batch |-> <<>>, known |-> [u \in Users |-> None],
            marks |-> {}, locked |-> FALSE]

Init ==
  /\ now = 0
  /\ row = [i \in Ids |-> None]
  /\ settings \in [Users -> [topic : {0, 1} \cap (0 .. MaxTopic), realtime : {TRUE}]]
  /\ tick = Resting
  /\ pushes = [r \in Reminders |-> 0]
  /\ faults = 0
  /\ fate = [r \in Reminders |-> "new"]
  /\ changed = {}

Rows == {i \in Ids : row[i] # None}
Pending == {i \in Rows : ~row[i].fired}
NextId == 1 + (IF Rows = {} THEN 0 ELSE CHOOSE i \in Rows : \A j \in Rows : j <= i)

DayOf(hour) == hour \div DayLength

\* r.fire_at <= :now on the two texts.
Due(i) == DayOf(row[i].wall) <= DayOf(now)

\* A row may be selected while it has not been fired.
UnfiredOrNot == {i \in Rows : Due(i)} \* mutant: fired_at IS NULL is dropped
Selectable == {i \in Pending : Due(i)}

\* The first Limit of a set of rows, in order of fire_at.
Batches(S) ==
  {b \in UNION {[1 .. n -> S] : n \in {IF Cardinality(S) < Limit
                                       THEN Cardinality(S) ELSE Limit}} :
     /\ \A m, n \in DOMAIN b : m < n => b[m] # b[n] /\ row[b[m]].wall <= row[b[n]].wall
     /\ \A i \in S \ Range(b), n \in DOMAIN b : row[b[n]].wall <= row[i].wall}

\* The row the tick has come to.
Current == Head(tick.batch)
Held == {tick.batch[n].id : n \in DOMAIN tick.batch}
Known == tick.known[Current.owner]

-----------------------------------------------------------------------------
(* Requests.  While the tick holds the write lock they wait, or fail.      *)

\* add_reminder, for an item of the user's.
AddOwnerless(r, u, wall, offset) == \* mutant: user_id is not passed on
  /\ ~tick.locked /\ NextId \in Ids
  /\ row' = [row EXCEPT ![NextId] = [is |-> r, owner |-> None, wall |-> wall,
                                     offset |-> offset, fired |-> FALSE]]
  /\ UNCHANGED <<now, settings, tick, pushes, faults, fate, changed>>

AddReminder(r, u, wall, offset) ==
  /\ ~tick.locked
  /\ fate[r] = "new"
  /\ NextId \in Ids
  /\ row' = [row EXCEPT ![NextId] = [is |-> r, owner |-> u, wall |-> wall,
                                     offset |-> offset, fired |-> FALSE]]
  /\ fate' = [fate EXCEPT ![r] = IF NextId \in Held THEN "displaced" ELSE "added"]
  /\ UNCHANGED <<now, settings, tick, pushes, faults, changed>>

\* delete_item or undo_last: the item's reminders go with it.
DeleteItem(S) ==
  /\ ~tick.locked
  /\ S # {} /\ S \subseteq Rows
  /\ \A i, j \in S : row[i].owner = row[j].owner
  /\ row' = [i \in Ids |-> IF i \in S THEN None ELSE row[i]]
  /\ UNCHANGED <<now, settings, tick, pushes, faults, fate, changed>>

\* set_notify_prefs.
SetRealtime(u, on) ==
  /\ ~tick.locked
  /\ settings[u].realtime # on
  /\ settings' = [settings EXCEPT ![u].realtime = on]
  /\ changed' = IF tick.pc = "idle" THEN changed ELSE changed \cup {u}
  /\ UNCHANGED <<now, row, tick, pushes, faults, fate>>

\* rotate_notify_topic.
RotateTopic(u) ==
  /\ ~tick.locked
  /\ settings[u].topic < MaxTopic
  /\ settings' = [settings EXCEPT ![u].topic = @ + 1]
  /\ changed' = IF tick.pc = "idle" THEN changed ELSE changed \cup {u}
  /\ UNCHANGED <<now, row, tick, pushes, faults, fate>>

-----------------------------------------------------------------------------
(* dispatch_reminders.                                                     *)

\* The query's result, in memory for the rest of the tick.
Fetched(b) == [n \in DOMAIN b |->
  [id |-> b[n], is |-> row[b[n]].is, owner |-> row[b[n]].owner,
   wall |-> row[b[n]].wall, offset |-> row[b[n]].offset]]

Select ==
  /\ tick.pc = "idle"
  /\ Selectable # {}
  /\ \E b \in Batches(Selectable) :
       tick' = [tick EXCEPT !.pc = "row", !.batch = Fetched(b)]
  /\ changed' = {}
  /\ UNCHANGED <<now, row, settings, pushes, faults, fate>>

\* The owner's first row in this tick: read the settings.
LoadSettings ==
  /\ tick.pc = "row" /\ tick.batch # <<>>
  /\ Known = None
  /\ tick' = [tick EXCEPT !.known[Current.owner] = settings[Current.owner]]
  /\ UNCHANGED <<now, row, settings, pushes, faults, fate, changed>>

Pushable(s) == s.topic # 0 /\ s.realtime

\* No topic or realtime off: on to the next row, this one stays as it is.
SkipTick == \* mutant: break instead of continue
  /\ tick.pc = "row" /\ tick.batch # <<>>
  /\ Known # None /\ ~Pushable(Known)
  /\ tick' = [tick EXCEPT !.batch = <<>>]
  /\ UNCHANGED <<now, row, settings, pushes, faults, fate, changed>>

Skip ==
  /\ tick.pc = "row" /\ tick.batch # <<>>
  /\ Known # None /\ ~Pushable(Known)
  /\ tick' = [tick EXCEPT !.batch = Tail(@)]
  /\ UNCHANGED <<now, row, settings, pushes, faults, fate, changed>>

AtPush == tick.pc = "row" /\ tick.batch # <<>> /\ Known # None /\ Pushable(Known)

\* ntfy answers 200.
PushAcknowledged ==
  /\ AtPush
  /\ pushes' = [pushes EXCEPT ![Current.is] = @ + 1]
  /\ tick' = [tick EXCEPT !.pc = "mark"]
  /\ UNCHANGED <<now, row, settings, faults, fate, changed>>

PushFailsMarked == \* mutant: the row is marked whatever publish returns
  /\ AtPush
  /\ tick' = [tick EXCEPT !.pc = "mark"]
  /\ UNCHANGED <<now, row, settings, pushes, faults, fate, changed>>

\* ntfy refuses or cannot be reached: False, and on to the next row.
PushFails ==
  /\ AtPush
  /\ tick' = [tick EXCEPT !.batch = Tail(@)]
  /\ UNCHANGED <<now, row, settings, pushes, faults, fate, changed>>

\* ntfy has the message but the answer comes after the timeout: also False.
PushUnanswered ==
  /\ AtPush /\ faults < MaxFaults
  /\ pushes' = [pushes EXCEPT ![Current.is] = @ + 1]
  /\ faults' = faults + 1
  /\ tick' = [tick EXCEPT !.batch = Tail(@)]
  /\ UNCHANGED <<now, row, settings, fate, changed>>

\* UPDATE ... SET fired_at WHERE id: whichever row has the id now, or none.
Mark ==
  /\ tick.pc = "mark"
  /\ tick' = [tick EXCEPT !.pc = "row", !.batch = Tail(@), !.locked = TRUE,
                          !.marks = @ \cup ({Current.id} \cap Rows)]
  /\ UNCHANGED <<now, row, settings, pushes, faults, fate, changed>>

\* The marks become visible, and what the tick knew is forgotten.
CommitTo(resting) ==
  /\ tick.pc = "row" /\ tick.batch = <<>>
  /\ row' = [i \in Ids |-> IF i \in tick.marks THEN [row[i] EXCEPT !.fired = TRUE]
                           ELSE row[i]]
  /\ tick' = resting
  /\ UNCHANGED <<now, settings, pushes, faults, fate, changed>>

CommitKeepsKnown == \* mutant: the settings are cached across ticks
  CommitTo([Resting EXCEPT !.known = tick.known])
Commit == CommitTo(Resting)

\* The process dies, or the first UPDATE finds the database locked: the tick
\* is rolled back.
Abandon ==
  /\ tick.pc # "idle" /\ faults < MaxFaults
  /\ faults' = faults + 1
  /\ tick' = Resting
  /\ UNCHANGED <<now, row, settings, pushes, fate, changed>>

NextHour ==
  /\ now < LastHour
  /\ now' = now + 1
  /\ UNCHANGED <<row, settings, tick, pushes, faults, fate, changed>>

Request ==
  \/ \E r \in Reminders, u \in Users, wall \in Hours, offset \in Offsets :
       AddReminder(r, u, wall, offset)
  \/ \E S \in SUBSET Ids : DeleteItem(S)
  \/ \E u \in Users : RotateTopic(u) \/ \E on \in BOOLEAN : SetRealtime(u, on)

Dispatch ==
  Select \/ LoadSettings \/ Skip \/ PushAcknowledged \/ PushFails \/ Mark \/ Commit

Next == Request \/ Dispatch \/ PushUnanswered \/ Abandon \/ NextHour

Spec == Init /\ [][Next]_vars

\* The job is started every 60 seconds and its calls time out; a push that is
\* tried again and again is answered in the end.
Fairness ==
  /\ WF_vars(Select) /\ WF_vars(LoadSettings) /\ WF_vars(Skip)
  /\ WF_vars(PushAcknowledged \/ PushFails) /\ WF_vars(Mark) /\ WF_vars(Commit)
  /\ \A r \in Reminders : SF_vars(PushAcknowledged /\ Current.is = r)

FairSpec == Spec /\ Fairness

-----------------------------------------------------------------------------
(* What the code promises.                                                 *)

\* At most once but for failures: a reminder is pushed again only if a tick
\* was cut short, or an answer of ntfy was lost, and once for each of them.
DuplicatesNeedFailure == \A r \in Reminders : pushes[r] <= 1 + faults

\* A reminder counts as fired without having been pushed in one case only: it
\* was given the id of a row deleted under a running tick, which marks it.
LostOnlyIfDisplaced ==
  \A i \in Rows : row[i].fired /\ pushes[row[i].is] = 0 => fate[row[i].is] = "displaced"

\* What a tick knows of a user differs from the users table only if the
\* settings changed while it ran: no tick uses what an earlier one read.
StaleForOneTick ==
  \A u \in Users : tick.known[u] \in {None, settings[u]} \/ u \in changed

\* Waiting to be pushed to a user who can be and wants to be.
Waiting(r) == \E i \in Pending :
  row[i].is = r /\ Due(i) /\ Pushable(settings[row[i].owner])

\* No due reminder waits for ever.  NOTIFICATIONS.md:406 says so of every
\* row: "Reminders queued in DB are not lost".
DueIsSettled == \A r \in Reminders : Waiting(r) ~> ~Waiting(r)

-----------------------------------------------------------------------------
(* What the repository says and the code does not do.                      *)

\* scheduler.py:5-6: a push for "rows where fire_at <= now".
NotBeforeFireAt ==
  [][pushes' # pushes => Current.wall - Current.offset <= now]_vars
=============================================================================
