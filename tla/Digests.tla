------------------------------ MODULE Digests ------------------------------
(***************************************************************************)
(* The daily digest: dispatch_digests of src/mypa/scheduler.py, a job of   *)
(* mypa-api, against set_notify_prefs of src/mypa/users.py, which PATCH    *)
(* /me/notify-prefs calls in mypa-api and pa_set_notify_prefs in mypa-mcp. *)
(*                                                                         *)
(* A tick fixes its time, selects every user's row, then for each user     *)
(* decides, pushes and sets last_digest_at; all is committed together at   *)
(* the end.  A patch reads tz and the preferences, and writes all          *)
(* preferences back in a later transaction.                                *)
(*                                                                         *)
(* Time is in hours of UTC.  A zone has one offset before an instant and   *)
(* another from then on.  Of the preferences, the two that the digest      *)
(* looks at are kept.  The topic is left out: it is read and used as in    *)
(* Reminders.  Like fire_at there, due_at is stored as text without its    *)
(* offset: what it shows is not the instant that the client meant.         *)
(***************************************************************************)
EXTENDS Integers, FiniteSets

CONSTANTS
  Users,
  Changing,     \* the users whose settings change (a bound)
  Api, Mcp,     \* requests of each process at a time
  Zones,        \* the offsets of the time zones
  Offsets,      \* UTC offsets of the due_at that clients send
  Wanted,       \* the patches that users send (a bound)
  DayLength,    \* hours in a day
  DefaultHour,  \* digest_hour of a user who never set it
  LastHour,     \* the clock stops there (a bound)
  MaxPatches,   \* patches ever begun (a bound)
  MaxFaults,    \* ticks cut short, hours of downtime and answers lost (a bound)
  None

ASSUME DigestsAssumption ==
  /\ DayLength \in Nat \ {0} /\ LastHour \in Nat
  /\ DefaultHour \in 0 .. DayLength - 1
  /\ Zones \subseteq [before : Int, after : Int, from : Int]
  /\ \A tz \in Zones : {tz.before, tz.after} \subseteq 1 - DayLength .. DayLength - 1
  /\ Offsets \subseteq Int
  /\ MaxPatches \in Nat /\ MaxFaults \in Nat
  /\ Api \cap Mcp = {} /\ Changing \subseteq Users
  /\ Wanted \subseteq [tz : Zones] \cup [digest_enabled : BOOLEAN]
                      \cup [digest_hour : 0 .. DayLength]

VARIABLES
  now,       \* the hour
  row,       \* the columns of the users table that matter here
  req,       \* what each patch has read and is about to write
  patches,   \* how many patches have begun
  tick,      \* the dispatcher
  ticked,    \* has a tick begun in this hour?
  faults,    \* history: faults so far
  got,       \* history: the hours of the digests pushed to each user
  repeated,  \* history: digests pushed on a local day that had had one
  refused,   \* history: the users to whom a push failed
  asked,     \* history: the last value that a committed patch gave each key
  overlaps,  \* history: users two of whose patches overlapped
  touched    \* history: the hour of the last change to the user's settings

vars == <<now, row, req, patches, tick, ticked, faults, got, repeated, refused,
          asked, overlaps, touched>>
history == <<faults, got, repeated, refused, asked, overlaps, touched>>

Hours == 0 .. LastHour
Workers == Api \cup Mcp

Prefs == [digest_enabled : BOOLEAN, digest_hour : 0 .. DayLength]
Settings == [tz : Zones, digest_enabled : BOOLEAN, digest_hour : 0 .. DayLength]
Row == [tz : Zones, prefs : Prefs, disabled : BOOLEAN, last : Hours \cup {None}]

\* A patch has one key; DayLength stands for an hour that does not exist.
Request == [user : Users, read : Prefs, patch : Wanted]

TypeOK ==
  /\ now \in Hours
  /\ row \in [Users -> Row]
  /\ req \in [Workers -> Request \cup {None}]
  /\ patches \in 0 .. MaxPatches
  /\ tick \in [pc : {"idle", "users"}, at : Hours, seen : [Users -> Row \cup {None}],
               marks : SUBSET Users]
  /\ ticked \in BOOLEAN
  /\ faults \in 0 .. MaxFaults
  /\ got \in [Users -> SUBSET Hours] /\ refused \subseteq Users
  /\ repeated \in [Users -> Nat]
  /\ asked \in [Users -> Settings]
  /\ overlaps \subseteq Users
  /\ touched \in [Users -> Hours \cup {-1}]

\* None is none of the values it stands beside.
ASSUME DigestsNoneAssumption == None \notin Row \cup Request \cup Hours

Defaults == [digest_enabled |-> TRUE, digest_hour |-> DefaultHour]
Resting == [pc |-> "idle", at |-> 0, seen |-> [u \in Users |-> None], marks |-> {}]

Init ==
  /\ now = 0
  /\ row \in [Users -> [tz : Zones, prefs : {Defaults}, disabled : {FALSE}, last : {None}]]
  /\ req = [w \in Workers |-> None]
  /\ patches = 0
  /\ tick = Resting
  /\ ticked = FALSE
  /\ faults = 0
  /\ got = [u \in Users |-> {}]
  /\ repeated = [u \in Users |-> 0]
  /\ refused = {}
  /\ asked = [u \in Users |-> [tz |-> row[u].tz, digest_enabled |-> TRUE,
                               digest_hour |-> DefaultHour]]
  /\ overlaps = {}
  /\ touched = [u \in Users |-> -1]

-----------------------------------------------------------------------------
(* Local time.                                                             *)

\* (A name that ZoneInfo does not know is a name of UTC.)
OffsetAt(tz, t) == IF t < tz.from THEN tz.before ELSE tz.after
Wall(tz, t) == t + OffsetAt(tz, t)
LocalDay(tz, t) == Wall(tz, t) \div DayLength
LocalHour(tz, t) == Wall(tz, t) % DayLength

\* No zone's clocks go back to an earlier day, so the local day never decreases.
ASSUME ZonesAssumption ==
  \A tz \in Zones :
    (tz.from - 1 + tz.before) \div DayLength <= (tz.from + tz.after) \div DayLength

\* The wall shows a time by the clock before the change, by the one after it.
ShownBefore(tz, wall) == wall - tz.before < tz.from
ShownAfter(tz, wall) == wall - tz.after >= tz.from
ShownTwice(tz, wall) == ShownBefore(tz, wall) /\ ShownAfter(tz, wall)

\* The fold of astimezone: t is the second time that the wall shows this.
Fold(tz, t) == t >= tz.from /\ ShownTwice(tz, Wall(tz, t))

\* Wall time to UTC, given the fold that replace() has kept: it decides where the
\* wall shows the time twice or never.
AtWall(tz, wall, fold) ==
  LET once == ShownBefore(tz, wall) # ShownAfter(tz, wall)
      after == (once /\ ShownAfter(tz, wall)) \/ (~once /\ fold)
  IN  wall - (IF after THEN tz.after ELSE tz.before)

\* Two aware times of one zone are compared by what the wall shows.
SentTodayInUTC(r, t) == \* mutant: the day is the UTC day
  r.last # None /\ r.last \div DayLength >= t \div DayLength
SentToday(r, t) == r.last # None /\ LocalDay(r.tz, r.last) >= LocalDay(r.tz, t)

Due(r, t) ==
  /\ r.prefs.digest_enabled
  /\ LocalHour(r.tz, t) = r.prefs.digest_hour
  /\ ~SentToday(r, t)

-----------------------------------------------------------------------------
(* Patches of the settings.  While the tick holds the write lock, their    *)
(* writes wait, or fail.                                                   *)

Locked == tick.marks # {}

\* Another patch of the user's is between its read and its write.
Overlap(w, u) ==
  IF \E v \in Workers \ {w} : req[v] # None /\ req[v].user = u
  THEN overlaps \cup {u} ELSE overlaps

\* get_notify_settings, at the start of set_notify_prefs.
ReadSettings(w, u, patch) ==
  /\ req[w] = None
  /\ patches < MaxPatches
  /\ patches' = patches + 1
  /\ req' = [req EXCEPT ![w] = [user |-> u, read |-> row[u].prefs, patch |-> patch]]
  /\ overlaps' = Overlap(w, u)
  /\ UNCHANGED <<now, row, tick, ticked, faults, got, repeated, refused, asked, touched>>

\* PATCH /me/notify-prefs: only hours that exist.
UpdatePrefs(w, u, patch) ==
  /\ w \in Api
  /\ "digest_hour" \in DOMAIN patch => patch.digest_hour < DayLength
  /\ ReadSettings(w, u, patch)

\* pa_set_notify_prefs: any hour.
PaSetNotifyPrefs(w, u, patch) == w \in Mcp /\ ReadSettings(w, u, patch)

Given(patch, key, default) == IF key \in DOMAIN patch THEN patch[key] ELSE default

\* {**current["prefs"], **patch}, without tz.
MergedWithDefaults(r) == \* mutant: the defaults are taken for what was read
  [k \in DOMAIN Defaults |-> Given(r.patch, k, Defaults[k])]
MergedWithTz(r) == \* mutant: tz is written into the preferences too
  [k \in DOMAIN r.read \cup DOMAIN r.patch |->
    IF k \in DOMAIN r.patch THEN r.patch[k] ELSE r.read[k]]
Merged(r) == [k \in DOMAIN r.read |-> Given(r.patch, k, r.read[k])]

\* The UPDATEs of tz and notify_prefs, and their commit.
WriteSettings(w) ==
  /\ req[w] # None /\ ~Locked
  /\ LET u == req[w].user
         patch == req[w].patch
     IN  /\ row' = [row EXCEPT ![u].tz = Given(patch, "tz", @), ![u].prefs = Merged(req[w])]
         /\ asked' = [asked EXCEPT ![u] = [k \in DOMAIN @ |-> Given(patch, k, @[k])]]
         /\ touched' = [touched EXCEPT ![u] = now]
  /\ req' = [req EXCEPT ![w] = None]
  /\ UNCHANGED <<now, patches, tick, ticked, faults, got, repeated, refused, overlaps>>

\* The process dies or finds the database locked.
AbortPatch(w) ==
  /\ req[w] # None
  /\ req' = [req EXCEPT ![w] = None]
  /\ UNCHANGED <<now, row, patches, tick, ticked, history>>

\* disable_user.
Disable(u) ==
  /\ ~Locked /\ ~row[u].disabled
  /\ row' = [row EXCEPT ![u].disabled = TRUE]
  /\ UNCHANGED <<now, req, patches, tick, ticked, history>>

-----------------------------------------------------------------------------
(* dispatch_digests.                                                       *)

\* The rows of all enabled users, as they are now.
Select ==
  /\ tick.pc = "idle"
  /\ \E u \in Users : ~row[u].disabled
  /\ tick' = [Resting EXCEPT !.pc = "users", !.at = now,
       !.seen = [u \in Users |-> IF row[u].disabled THEN None ELSE row[u]]]
  /\ ticked' = TRUE
  /\ UNCHANGED <<now, row, req, patches, history>>

Pending == {u \in Users : tick.seen[u] # None}
Settled(u) == [tick EXCEPT !.seen[u] = None]

\* Not wanted, not the hour, or sent already: on to the next user.
SkipRest(u) == \* mutant: return instead of continue
  /\ u \in Pending /\ ~Due(tick.seen[u], tick.at)
  /\ tick' = [tick EXCEPT !.seen = [v \in Users |-> None]]
  /\ UNCHANGED <<now, row, req, patches, ticked, history>>

Skip(u) ==
  /\ u \in Pending /\ ~Due(tick.seen[u], tick.at)
  /\ tick' = Settled(u)
  /\ UNCHANGED <<now, row, req, patches, ticked, history>>

\* ntfy has a digest for u.
HadToday(u) ==
  LET tz == tick.seen[u].tz
  IN  \E t \in got[u] : LocalDay(tz, t) = LocalDay(tz, tick.at)

Pushed(u) ==
  /\ got' = [got EXCEPT ![u] = @ \cup {tick.at}]
  /\ repeated' = [repeated EXCEPT ![u] = IF HadToday(u) THEN @ + 1 ELSE @]

\* publish returns True, and last_digest_at is set.
PushUnmarked(u) == \* mutant: last_digest_at is not set
  /\ u \in Pending /\ Due(tick.seen[u], tick.at)
  /\ Pushed(u)
  /\ tick' = Settled(u)
  /\ UNCHANGED <<now, row, req, patches, ticked, faults, refused, asked, overlaps, touched>>

PushAcknowledged(u) ==
  /\ u \in Pending /\ Due(tick.seen[u], tick.at)
  /\ Pushed(u)
  /\ tick' = [Settled(u) EXCEPT !.marks = @ \cup {u}]
  /\ UNCHANGED <<now, row, req, patches, ticked, faults, refused, asked, overlaps, touched>>

\* ntfy refuses or cannot be reached.
PushFails(u) ==
  /\ u \in Pending /\ Due(tick.seen[u], tick.at)
  /\ refused' = refused \cup {u}
  /\ tick' = Settled(u)
  /\ UNCHANGED <<now, row, req, patches, ticked, faults, got, repeated, asked, overlaps,
                 touched>>

\* ntfy has the digest but its answer comes too late: publish returns False.
PushUnanswered(u) ==
  /\ u \in Pending /\ Due(tick.seen[u], tick.at)
  /\ faults < MaxFaults
  /\ faults' = faults + 1
  /\ Pushed(u)
  /\ tick' = Settled(u)
  /\ UNCHANGED <<now, row, req, patches, ticked, refused, asked, overlaps, touched>>

\* Every last_digest_at becomes visible: the time at which the tick began.
Commit ==
  /\ tick.pc = "users" /\ Pending = {}
  /\ row' = [u \in Users |-> IF u \in tick.marks THEN [row[u] EXCEPT !.last = tick.at]
                             ELSE row[u]]
  /\ tick' = Resting
  /\ UNCHANGED <<now, req, patches, ticked, history>>

\* The process dies, or an UPDATE finds the database locked: nothing of the
\* tick is kept.
Abandon ==
  /\ tick.pc # "idle" /\ faults < MaxFaults
  /\ faults' = faults + 1
  /\ tick' = Resting
  /\ UNCHANGED <<now, row, req, patches, ticked, got, repeated, refused, asked, overlaps,
                 touched>>

-----------------------------------------------------------------------------
(* The clock.  The job starts every minute, so an hour has a tick, or a    *)
(* fault: mypa-api was down.                                               *)

NextHour ==
  /\ now < LastHour
  /\ \/ ticked \/ \A u \in Users : row[u].disabled
  /\ now' = now + 1
  /\ ticked' = FALSE
  /\ UNCHANGED <<row, req, patches, tick, history>>

HourDown ==
  /\ now < LastHour /\ tick.pc = "idle" /\ ~ticked
  /\ faults < MaxFaults
  /\ faults' = faults + 1
  /\ now' = now + 1
  /\ UNCHANGED <<row, req, patches, tick, ticked, got, repeated, refused, asked, overlaps,
                 touched>>

Next ==
  \/ \E w \in Workers :
       \/ \E u \in Changing, patch \in Wanted :
            UpdatePrefs(w, u, patch) \/ PaSetNotifyPrefs(w, u, patch)
       \/ WriteSettings(w) \/ AbortPatch(w)
  \/ \E u \in Changing : Disable(u)
  \/ \E u \in Users :
       \/ Skip(u)
       \/ PushAcknowledged(u) \/ PushFails(u) \/ PushUnanswered(u)
  \/ Select \/ Commit \/ Abandon \/ NextHour \/ HourDown

Spec == Init /\ [][Next]_vars

-----------------------------------------------------------------------------
(* What a digest counts.                                                   *)

DateOf(t) == t \div DayLength

\* Items may be due a day before or after the hours of the clock (a bound).
DueHours == -DayLength .. LastHour + DayLength

\* day_start_utc and day_end_utc, for the local day of hour t.
FirstHour(tz, t) == LocalDay(tz, t) * DayLength
LastHourOf(tz, t) == FirstHour(tz, t) + DayLength - 1
DayStart(tz, t) == AtWall(tz, FirstHour(tz, t), Fold(tz, t))
DayEnd(tz, t) == AtWall(tz, LastHourOf(tz, t), Fold(tz, t))

\* What the stored due_at shows: the hour meant, by the clock of its offset.
Stored(due, offset) == due + offset

\* due_at >= :a AND due_at <= :b, and due_at < :a, on texts: the stored one
\* has a space where the other has a T, so a due_at on the date of :a is less
\* than it, and one on the date of :b is less than that.
CountedToday(tz, t, stored) ==
  DateOf(DayStart(tz, t)) < DateOf(stored) /\ DateOf(stored) <= DateOf(DayEnd(tz, t))
CountedOverdueStrictly(tz, t, stored) == \* mutant: the date of :a is not less than it
  DateOf(stored) < DateOf(DayStart(tz, t))
CountedOverdue(tz, t, stored) == DateOf(stored) <= DateOf(DayStart(tz, t))

-----------------------------------------------------------------------------
(* What the code promises.                                                 *)

\* At most one digest a local day, whatever happens to digest_hour and tz
\* meanwhile, and whether the clocks go back or not: each fault repeats at most
\* one (scheduler.py:137-147).
RepeatsNeedFault == \A u \in Users : repeated[u] <= faults

\* The hour t is over, and was the digest hour by the present settings of u,
\* which have not changed since it began.
QuietHour(u, t) ==
  /\ t < now /\ ~(tick.pc = "users" /\ tick.at = t)
  /\ row[u].prefs.digest_enabled /\ ~row[u].disabled
  /\ LocalHour(row[u].tz, t) = row[u].prefs.digest_hour
  /\ touched[u] < t

\* Without faults, a user has a digest on every local day whose digest hour
\* passes without a change of the settings, unless ntfy refused one: no other
\* user's settings or failures stand in the way.
QuietDayHasDigest ==
  faults = 0 =>
    \A u \in Users : \A t \in Hours :
      QuietHour(u, t) /\ u \notin refused =>
        \E s \in got[u] : LocalDay(row[u].tz, s) = LocalDay(row[u].tz, t)

\* The settings are what the committed patches made them; of patches that
\* overlap a preference may be lost, but never the time zone, which has a
\* column of its own (users.py:226-238).
PatchesKept ==
  \A u \in Users :
    /\ row[u].tz = asked[u].tz
    /\ u \in overlaps \/ \A k \in DOMAIN Defaults : row[u].prefs[k] = asked[u][k]

\* The last hour of the local day of t comes twice, and t is not after the change:
\* day_end_utc is the first of the two.
EndsEarly(tz, t) == ShownTwice(tz, LastHourOf(tz, t)) /\ ~Fold(tz, t)

\* The clocks go forward on the local day of t, or skip its end.
GoesForward(tz, t) ==
  /\ tz.before < tz.after
  /\ FirstHour(tz, t) - tz.after < tz.from /\ tz.from <= LastHourOf(tz, t) - tz.before

\* The counts in a digest of hour t, for an item due at an hour that was given by
\* the clock of an offset.
TellsOf(tz, t, due, offset) ==
  CountedToday(tz, t, Stored(due, offset)) \/ CountedOverdue(tz, t, Stored(due, offset))

CountsRight(tz, t, due, offset) ==
  LET own == OffsetAt(tz, due)
  IN  /\ /\ LocalDay(tz, due) = LocalDay(tz, t)
         /\ offset <= own \/ (offset <= 0 /\ ~EndsEarly(tz, t))
         => TellsOf(tz, t, due, offset)
      /\ /\ CountedOverdue(tz, t, Stored(due, offset))
         /\ offset >= own \/ (offset >= 0 /\ ~GoesForward(tz, t))
         => LocalDay(tz, due) <= LocalDay(tz, t)

\* A due_at loses its offset (models.py:45), and the texts compared have different
\* formats (scheduler.py:149-161).  Even so, a digest counts what is due on its
\* local day, as due today or as overdue, unless it was given further to the east
\* than UTC and than the user's own clock; and what it calls overdue is not due on
\* a later day, unless it was given further to the west than both.  On a day that
\* the clocks change, "than both" becomes "than the user's own clock".
TodayIsCounted ==
  [][\A u \in Users :
       got'[u] # got[u] =>
         \A due \in DueHours, offset \in Offsets :
           CountsRight(tick.seen[u].tz, tick.at, due, offset)]_vars
=============================================================================
