---------------------------- MODULE DigestsProofs ----------------------------
(***************************************************************************)
(* Proofs about Digests for any users, zones, patches, lengths of a day    *)
(* and faults.  What a zone must not do is set its clocks back to an       *)
(* earlier day (ZonesAssumption): LocalDay then never decreases.  IInv     *)
(* says what a tick holds (Ticks), that a repeated digest was paid for by  *)
(* the fault that left last_digest_at behind (Repeats), what a patch has   *)
(* read (Patches), and that an hour that has had its tick has had its      *)
(* digests, or will (Served).                                              *)
(***************************************************************************)
EXTENDS Digests, TLAPS

\* What a tick holds: nothing when it rests.  The row it fetched has the same
\* last_digest_at still, and it marks a user after the user.  Digests are not
\* from the future, and last_digest_at is the hour of one.
Ticks ==
  /\ tick.pc = "idle" => tick = Resting
  /\ tick.at <= now
  /\ \A u \in Users : tick.seen[u] # None =>
       u \notin tick.marks /\ tick.seen[u].last = row[u].last
  /\ \A u \in tick.marks : tick.at \in got[u]
  /\ \A u \in Users : row[u].last # None => row[u].last \in got[u]
  /\ \A u \in Users : \A t \in got[u] : t <= now /\ (tick.pc = "users" => t <= tick.at)

\* u has a digest that is later than last_digest_at.
Behind(u) == \E t \in got[u] : row[u].last = None \/ row[u].last < t

\* A fault that left last_digest_at behind has repeated nothing yet.
Repeats ==
  \A u \in Users :
    /\ repeated[u] <= faults
    /\ Behind(u) /\ u \notin tick.marks => repeated[u] < faults

\* A patch that overlaps with none of its user's has read what is in the row.
Patches ==
  \A w \in Workers : req[w] # None /\ req[w].user \notin overlaps =>
    /\ req[w].read = row[req[w].user].prefs
    /\ \A v \in Workers \ {w} : req[v] # None => req[v].user # req[w].user

\* Since hour t began, it has been the digest hour by the settings of u.
DigestHour(u, t) ==
  /\ row[u].prefs.digest_enabled /\ ~row[u].disabled
  /\ LocalHour(row[u].tz, t) = row[u].prefs.digest_hour
  /\ touched[u] < t

\* The tick of hour t has yet to come to u, by these settings.
Awaited(u, t) ==
  /\ tick.pc = "users" /\ tick.at = t
  /\ tick.seen[u] # None
  /\ tick.seen[u].tz = row[u].tz /\ tick.seen[u].prefs = row[u].prefs

HasDigest(u, t) == \E s \in got[u] : LocalDay(row[u].tz, s) = LocalDay(row[u].tz, t)

\* An hour that has had its tick has had its digests, or will.
Duty(u, t) ==
  DigestHour(u, t) /\ (t < now \/ (t = now /\ ticked)) =>
    u \in refused \/ HasDigest(u, t) \/ Awaited(u, t)

Served == faults = 0 => \A u \in Users : \A t \in Hours : Duty(u, t)

IInv ==
  /\ TypeOK
  /\ Ticks
  /\ Repeats
  /\ Patches
  /\ PatchesKept
  /\ Served

Tick == [pc : {"idle", "users"}, at : Hours, seen : [Users -> Row \cup {None}],
         marks : SUBSET Users]

-----------------------------------------------------------------------------
USE DigestsAssumption, DigestsNoneAssumption

(* Local time.                                                             *)

LEMMA DivFacts ==
  ASSUME NEW a \in Int, NEW d \in Nat \ {0}
  PROVE  /\ a \div d \in Int /\ a % d \in 0 .. d - 1
         /\ a = d * (a \div d) + (a % d)
  OBVIOUS

LEMMA DivMonotonic ==
  ASSUME NEW a \in Int, NEW b \in Int, NEW d \in Nat \ {0}, a <= b
  PROVE  a \div d <= b \div d
  OBVIOUS

\* A later hour is not on an earlier day.
LEMMA LocalDayMonotonic ==
  ASSUME NEW tz \in Zones, NEW s \in Int, NEW t \in Int, s <= t
  PROVE  /\ LocalDay(tz, s) \in Int /\ LocalDay(tz, t) \in Int
         /\ LocalDay(tz, s) <= LocalDay(tz, t)
<1>1. tz.before \in Int /\ tz.after \in Int /\ tz.from \in Int
  OBVIOUS
<1>2. Wall(tz, s) \in Int /\ Wall(tz, t) \in Int
  BY <1>1 DEF Wall, OffsetAt
<1>3. CASE t < tz.from \/ tz.from <= s
  <2>1. Wall(tz, s) <= Wall(tz, t)
    BY <1>1, <1>3 DEF Wall, OffsetAt
  <2> QED BY <1>2, <2>1, DivMonotonic, DivFacts DEF LocalDay
<1>4. CASE s < tz.from /\ tz.from <= t
  <2>1. Wall(tz, s) <= tz.from - 1 + tz.before /\ tz.from + tz.after <= Wall(tz, t)
    BY <1>1, <1>4 DEF Wall, OffsetAt
  <2>2. (tz.from - 1 + tz.before) \div DayLength <= (tz.from + tz.after) \div DayLength
    BY ZonesAssumption
  <2>3. tz.from - 1 + tz.before \in Int /\ tz.from + tz.after \in Int
    BY <1>1
  <2>4. /\ LocalDay(tz, s) <= (tz.from - 1 + tz.before) \div DayLength
        /\ (tz.from + tz.after) \div DayLength <= LocalDay(tz, t)
    BY <1>2, <2>1, <2>3, DivMonotonic DEF LocalDay
  <2>5. /\ (tz.from - 1 + tz.before) \div DayLength \in Int
        /\ (tz.from + tz.after) \div DayLength \in Int
    BY <2>3, DivFacts
  <2>6. LocalDay(tz, s) \in Int /\ LocalDay(tz, t) \in Int
    BY <1>2, DivFacts DEF LocalDay
  <2> QED BY <2>2, <2>4, <2>5, <2>6
<1> QED BY <1>1, <1>3, <1>4

-----------------------------------------------------------------------------
(* Types.                                                                  *)

LEMMA RowTyped ==
  ASSUME TypeOK, NEW u \in Users
  PROVE  /\ row[u] \in Row /\ row[u] # None
         /\ row[u].tz \in Zones /\ row[u].prefs \in Prefs /\ row[u].disabled \in BOOLEAN
         /\ row[u].last \in Hours \cup {None}
  BY DEF TypeOK, Row

LEMMA RequestTyped ==
  ASSUME TypeOK, NEW w \in Workers, req[w] # None
  PROVE  /\ req[w] \in Request /\ req[w].user \in Users
         /\ req[w].read \in Prefs /\ req[w].patch \in Wanted
  BY DEF TypeOK, Request

LEMMA TickTyped ==
  ASSUME TypeOK
  PROVE  /\ tick \in Tick /\ tick.pc \in {"idle", "users"}
         /\ tick.at \in Hours /\ tick.at \in Int
         /\ tick.seen \in [Users -> Row \cup {None}]
         /\ tick.marks \subseteq Users
         /\ \A u \in Users : tick.seen[u] # None =>
              /\ tick.seen[u] \in Row /\ tick.seen[u].tz \in Zones
              /\ tick.seen[u].last \in Hours \cup {None}
<1>1. tick \in Tick
  BY DEF TypeOK, Tick
<1>2. \A u \in Users : tick.seen[u] # None =>
        /\ tick.seen[u] \in Row /\ tick.seen[u].tz \in Zones
        /\ tick.seen[u].last \in Hours \cup {None}
  BY <1>1 DEF Tick, Row
<1> QED BY <1>1, <1>2 DEF Tick, Hours

LEMMA GotTyped ==
  ASSUME TypeOK, NEW u \in Users
  PROVE  /\ got[u] \subseteq Hours /\ \A t \in got[u] : t \in Int
         /\ repeated[u] \in Nat /\ faults \in Nat /\ now \in Int
<1>1. got[u] \subseteq Hours /\ repeated[u] \in Nat
  BY DEF TypeOK
<1>2. faults \in Nat /\ now \in Int
  BY DEF TypeOK, Hours
<1> QED BY <1>1, <1>2 DEF Hours

\* The tick is done with u.
LEMMA SettledFacts ==
  ASSUME TypeOK, NEW u \in Users
  PROVE  /\ Settled(u) \in Tick
         /\ Settled(u).pc = tick.pc /\ Settled(u).at = tick.at /\ Settled(u).marks = tick.marks
         /\ Settled(u).seen[u] = None
         /\ \A v \in Users : v # u => Settled(u).seen[v] = tick.seen[v]
  BY TickTyped DEF Settled, Tick

-----------------------------------------------------------------------------
(* Digests.                                                                *)

\* Who is sent a second digest on a local day was left behind.
LEMMA RepeatedWasBehind ==
  ASSUME IInv, NEW u \in Users, tick.seen[u] # None, Due(tick.seen[u], tick.at), HadToday(u)
  PROVE  Behind(u)
<1> DEFINE tz == tick.seen[u].tz
           last == tick.seen[u].last
<1>1. PICK t \in got[u] : LocalDay(tz, t) = LocalDay(tz, tick.at)
  BY DEF HadToday
<1>2. t \in Int /\ tz \in Zones /\ tick.at \in Int /\ last \in Hours \cup {None}
  BY GotTyped, TickTyped DEF IInv
<1>3. last = row[u].last
  BY DEF IInv, Ticks
<1>4. CASE last = None
  BY <1>3, <1>4 DEF Behind
<1>5. CASE last # None
  <2>1. last \in Int
    BY <1>2, <1>5 DEF Hours
  <2>2. ~(LocalDay(tz, last) >= LocalDay(tz, tick.at))
    BY <1>5 DEF Due, SentToday
  <2>3. ~(t <= last)
    <3> HIDE DEF tz, last
    <3>1. ASSUME t <= last PROVE FALSE
      BY <1>1, <1>2, <2>1, <2>2, <3>1, LocalDayMonotonic
    <3> QED BY <3>1
  <2>4. last < t
    BY <1>2, <2>1, <2>3
  <2> QED BY <1>3, <2>4 DEF Behind
<1> QED BY <1>4, <1>5

\* Who is not due at the digest hour has had the digest of the day.
LEMMA SkippedHasDigest ==
  ASSUME IInv, NEW u \in Users, NEW t \in Hours, DigestHour(u, t), Awaited(u, t),
         ~Due(tick.seen[u], tick.at)
  PROVE  HasDigest(u, t)
<1> DEFINE last == row[u].last
           tz == row[u].tz
<1>1. /\ tick.at = t /\ tick.seen[u].last = last /\ tick.seen[u].tz = tz
      /\ tick.seen[u].prefs = row[u].prefs /\ tick.pc = "users"
  BY DEF Awaited, IInv, Ticks
<1>2. last # None /\ LocalDay(tz, last) >= LocalDay(tz, t)
  BY <1>1 DEF Due, DigestHour, SentToday
<1>3. last \in got[u] /\ last <= t
  BY <1>1, <1>2 DEF IInv, Ticks
<1>4. tz \in Zones /\ last \in Int /\ t \in Int
  BY <1>3, RowTyped, GotTyped DEF IInv, Hours
<1> HIDE DEF last, tz
<1>5. LocalDay(tz, last) = LocalDay(tz, t)
  BY <1>2, <1>3, <1>4, LocalDayMonotonic
<1> QED BY <1>3, <1>5 DEF HasDigest, last, tz

-----------------------------------------------------------------------------
(* Steps that leave the settings, or the tick, alone.                      *)

LEMMA PatchesFrame ==
  ASSUME IInv, UNCHANGED <<req, asked, overlaps>>,
         \A u \in Users : row'[u].tz = row[u].tz /\ row'[u].prefs = row[u].prefs
  PROVE  Patches' /\ PatchesKept'
<1>1. \A w \in Workers : req[w] # None => req[w].user \in Users
  BY RequestTyped DEF IInv
<1> QED BY <1>1 DEF IInv, Patches, PatchesKept

\* No digest is sent and no last_digest_at is set.
LEMMA TicksFrame ==
  ASSUME IInv, UNCHANGED <<now, tick, got>>,
         \A u \in Users : row'[u].last = row[u].last
  PROVE  Ticks'
<1>1. \A u \in Users : tick.seen[u] # None =>
        u \notin tick.marks /\ tick.seen[u].last = row'[u].last
  BY DEF IInv, Ticks
<1>2. \A u \in Users : row'[u].last # None => row'[u].last \in got[u]
  BY DEF IInv, Ticks
<1> QED BY <1>1, <1>2 DEF IInv, Ticks, Resting

LEMMA RepeatsFrame ==
  ASSUME IInv, UNCHANGED <<got, repeated>>, faults <= faults', faults' \in Nat,
         tick.marks \subseteq tick'.marks,
         \A u \in Users : row'[u].last = row[u].last
  PROVE  Repeats'
<1> SUFFICES ASSUME NEW u \in Users
             PROVE  /\ repeated[u] <= faults'
                    /\ Behind(u)' /\ u \notin tick.marks => repeated[u] < faults'
  BY DEF Repeats
<1>1. repeated[u] \in Nat /\ faults \in Nat
  BY GotTyped DEF IInv
<1>2. repeated[u] <= faults /\ (Behind(u) /\ u \notin tick.marks => repeated[u] < faults)
  BY DEF IInv, Repeats
<1>3. Behind(u)' => Behind(u)
  BY DEF Behind
<1> QED BY <1>1, <1>2, <1>3

\* It is enough that no hour's duty is forgotten.
LEMMA ServedStep ==
  ASSUME IInv, faults' = 0 => faults = 0,
         faults = 0 => \A u \in Users : \A t \in Hours : Duty(u, t) => Duty(u, t)'
  PROVE  Served'
<1> SUFFICES ASSUME faults = 0, NEW u \in Users, NEW t \in Hours PROVE Duty(u, t)'
  BY DEF Served
<1> QED BY DEF IInv, Served

-----------------------------------------------------------------------------
(* Patches.                                                                *)

LEMMA ReadSettingsOK ==
  ASSUME IInv, NEW w \in Workers, NEW u \in Users, NEW patch \in Wanted,
         ReadSettings(w, u, patch)
  PROVE  IInv'
<1> DEFINE r == [user |-> u, read |-> row[u].prefs, patch |-> patch]
<1>1. /\ r \in Request /\ r # None
      /\ r.user = u /\ r.read = row[u].prefs
  <2>1. r \in Request /\ r.user = u /\ r.read = row[u].prefs
    BY RowTyped DEF IInv, Request
  <2> QED BY <2>1
<1>2. /\ req[w] = None /\ req' \in [Workers -> Request \cup {None}]
      /\ req'[w] = r /\ \A v \in Workers : v # w => req'[v] = req[v]
  BY <1>1 DEF ReadSettings, IInv, TypeOK
<1> HIDE DEF r
<1>3. /\ UNCHANGED <<now, row, tick, ticked, faults, got, repeated, refused, asked, touched>>
      /\ patches' = patches + 1 /\ patches < MaxPatches
      /\ overlaps' = Overlap(w, u)
  BY DEF ReadSettings
<1>4. /\ overlaps' \subseteq Users /\ overlaps \subseteq overlaps'
      /\ u \notin overlaps' => \A v \in Workers \ {w} : req[v] # None => req[v].user # u
  BY <1>3 DEF Overlap, IInv, TypeOK
<1>5. TypeOK'
  BY <1>2, <1>3, <1>4 DEF IInv, TypeOK
<1>6. Ticks' /\ Repeats'
  BY <1>3, TicksFrame, RepeatsFrame, GotTyped DEF IInv, TypeOK
<1>7. Patches'
  <2> SUFFICES ASSUME NEW v \in Workers, req'[v] # None, req'[v].user \notin overlaps'
               PROVE  /\ req'[v].read = row[req'[v].user].prefs
                      /\ \A q \in Workers \ {v} : req'[q] # None => req'[q].user # req'[v].user
    BY <1>3 DEF Patches
  <2>1. CASE v = w
    BY <1>1, <1>2, <1>4, <2>1
  <2>2. CASE v # w
    <3>1. req'[v] = req[v]
      BY <1>2, <2>2
    <3>2. /\ req[v].read = row[req[v].user].prefs
          /\ \A q \in Workers \ {v} : req[q] # None => req[q].user # req[v].user
      BY <1>4, <3>1 DEF IInv, Patches
    <3>3. req[v].user # u
      BY <1>4, <2>2, <3>1
    <3> QED BY <1>1, <1>2, <3>1, <3>2, <3>3
  <2> QED BY <2>1, <2>2
<1>8. PatchesKept'
  BY <1>3, <1>4 DEF IInv, PatchesKept
<1>9. Served'
  BY <1>3 DEF IInv, Served, Duty, DigestHour, HasDigest, Awaited
<1> QED BY <1>5, <1>6, <1>7, <1>8, <1>9 DEF IInv

\* What a patch has in it, and what it makes of the preferences.
LEMMA MergedTyped ==
  ASSUME NEW r \in Request
  PROVE  /\ Merged(r) \in Prefs
         /\ \A k \in DOMAIN Defaults : Merged(r)[k] = Given(r.patch, k, r.read[k])
<1>1. /\ r.read \in Prefs
      /\ r.patch \in [tz : Zones] \cup [digest_enabled : BOOLEAN]
                      \cup [digest_hour : 0 .. DayLength]
  BY DEF Request
<1>2. DOMAIN r.read = {"digest_enabled", "digest_hour"}
  BY <1>1 DEF Prefs
<1>3. DOMAIN Defaults = {"digest_enabled", "digest_hour"}
  BY DEF Defaults
<1>4. \A k \in DOMAIN Defaults : Merged(r)[k] = Given(r.patch, k, r.read[k])
  BY <1>2, <1>3 DEF Merged
<1>5. /\ Given(r.patch, "digest_enabled", r.read["digest_enabled"]) \in BOOLEAN
      /\ Given(r.patch, "digest_hour", r.read["digest_hour"]) \in 0 .. DayLength
  BY <1>1 DEF Given, Prefs
<1>6. Merged(r) \in Prefs
  BY <1>2, <1>5 DEF Merged, Prefs
<1> QED BY <1>4, <1>6

LEMMA WriteSettingsOK == ASSUME IInv, NEW w \in Workers, WriteSettings(w) PROVE IInv'
<1> DEFINE u == req[w].user
           patch == req[w].patch
           tz == Given(patch, "tz", row[u].tz)
           a == [k \in DOMAIN asked[u] |-> Given(patch, k, asked[u][k])]
<1>1. /\ req[w] # None /\ u \in Users /\ req[w] \in Request
      /\ patch \in [tz : Zones] \cup [digest_enabled : BOOLEAN]
                   \cup [digest_hour : 0 .. DayLength]
  BY RequestTyped DEF IInv, WriteSettings
<1>2. /\ row' = [row EXCEPT ![u].tz = tz, ![u].prefs = Merged(req[w])]
      /\ asked' = [asked EXCEPT ![u] = a]
      /\ touched' = [touched EXCEPT ![u] = now]
      /\ req' = [req EXCEPT ![w] = None]
      /\ UNCHANGED <<now, patches, tick, ticked, faults, got, repeated, refused, overlaps>>
  BY DEF WriteSettings
<1>3. tz \in Zones /\ Merged(req[w]) \in Prefs
  BY <1>1, RowTyped, MergedTyped DEF IInv, Given
<1>4. asked[u] \in Settings
  BY <1>1 DEF IInv, TypeOK
<1>5. /\ a \in Settings
      /\ a.tz = Given(patch, "tz", asked[u].tz)
      /\ \A k \in DOMAIN Defaults : a[k] = Given(patch, k, asked[u][k])
  <2>1. DOMAIN asked[u] = {"tz", "digest_enabled", "digest_hour"}
    BY <1>4 DEF Settings
  <2>2. DOMAIN Defaults = {"digest_enabled", "digest_hour"}
    BY DEF Defaults
  <2>3. /\ Given(patch, "tz", asked[u]["tz"]) \in Zones
        /\ Given(patch, "digest_enabled", asked[u]["digest_enabled"]) \in BOOLEAN
        /\ Given(patch, "digest_hour", asked[u]["digest_hour"]) \in 0 .. DayLength
    BY <1>1, <1>4 DEF Given, Settings
  <2>4. a \in Settings
    BY <2>1, <2>3 DEF Settings
  <2> QED BY <2>1, <2>2, <2>4
<1> HIDE DEF a, tz, patch, u
<1>6. /\ row'[u].tz = tz /\ row'[u].prefs = Merged(req[w])
      /\ row'[u].last = row[u].last /\ row'[u].disabled = row[u].disabled
      /\ row'[u] \in Row
      /\ \A v \in Users : v # u => row'[v] = row[v]
      /\ row' \in [Users -> Row \cup {None}]
      /\ row' = [v \in Users |-> row'[v]]
  <2>1. row'[u] = [row[u] EXCEPT !.tz = tz, !.prefs = Merged(req[w])]
    BY <1>1, <1>2 DEF IInv, TypeOK
  <2>2. row[u] \in Row
    BY <1>1, RowTyped DEF IInv
  <2>3. row'[u] \in Row /\ row'[u].last = row[u].last /\ row'[u].disabled = row[u].disabled
        /\ row'[u].tz = tz /\ row'[u].prefs = Merged(req[w])
    BY <1>3, <2>1, <2>2 DEF Row
  <2>4. /\ \A v \in Users : v # u => row'[v] = row[v]
        /\ row' = [v \in Users |-> row'[v]]
    BY <1>1, <1>2 DEF IInv, TypeOK
  <2>5. row' \in [Users -> Row \cup {None}]
    BY <2>3, <2>4 DEF IInv, TypeOK
  <2> QED BY <2>3, <2>4, <2>5
<1>7. /\ req' \in [Workers -> Request \cup {None}]
      /\ req'[w] = None /\ \A v \in Workers : v # w => req'[v] = req[v]
  BY <1>2 DEF IInv, TypeOK
<1>8. /\ asked'[u] = a /\ \A v \in Users : v # u => asked'[v] = asked[v]
      /\ touched'[u] = now /\ \A v \in Users : v # u => touched'[v] = touched[v]
  BY <1>1, <1>2 DEF IInv, TypeOK
<1>9. TypeOK'
  <2>1. row' \in [Users -> Row]
    BY <1>6 DEF IInv, TypeOK
  <2>2. asked' \in [Users -> Settings] /\ touched' \in [Users -> Hours \cup {-1}]
    BY <1>2, <1>5 DEF IInv, TypeOK
  <2> QED BY <1>2, <1>7, <2>1, <2>2 DEF IInv, TypeOK
<1>10. Ticks' /\ Repeats'
  <2>1. \A v \in Users : row'[v].last = row[v].last
    BY <1>6
  <2>2. faults' \in Nat /\ faults <= faults'
    BY <1>2 DEF IInv, TypeOK
  <2> QED BY <1>2, <2>1, <2>2, TicksFrame, RepeatsFrame
<1>11. Patches'
  <2> SUFFICES ASSUME NEW v \in Workers, req'[v] # None, req'[v].user \notin overlaps
               PROVE  /\ req'[v].read = row'[req'[v].user].prefs
                      /\ \A q \in Workers \ {v} : req'[q] # None => req'[q].user # req'[v].user
    BY <1>2 DEF Patches
  <2>1. v # w /\ req'[v] = req[v]
    BY <1>7
  <2>2. /\ req[v].read = row[req[v].user].prefs
        /\ \A q \in Workers \ {v} : req[q] # None => req[q].user # req[v].user
    BY <2>1 DEF IInv, Patches
  <2>3. req[v].user # u /\ req[v].user \in Users
    BY <1>1, <2>1, <2>2, RequestTyped DEF u, IInv
  <2> QED BY <1>6, <1>7, <2>1, <2>2, <2>3
<1>12. PatchesKept'
  <2> SUFFICES ASSUME NEW v \in Users
               PROVE  /\ row'[v].tz = asked'[v].tz
                      /\ \/ v \in overlaps
                         \/ \A k \in DOMAIN Defaults : row'[v].prefs[k] = asked'[v][k]
    BY <1>2 DEF PatchesKept
  <2>1. CASE v # u
    BY <1>6, <1>8, <2>1 DEF IInv, PatchesKept
  <2>2. CASE v = u
    <3>1. row[u].tz = asked[u].tz
      BY <1>1 DEF IInv, PatchesKept
    <3>2. row'[u].tz = asked'[u].tz
      BY <1>5, <1>6, <1>8, <3>1 DEF tz
    <3>3. ASSUME u \notin overlaps, NEW k \in DOMAIN Defaults
          PROVE  row'[u].prefs[k] = asked'[u][k]
      <4>1. req[w].read = row[u].prefs
        BY <1>1, <3>3 DEF IInv, Patches, u
      <4>2. row[u].prefs[k] = asked[u][k]
        BY <1>1, <3>3 DEF IInv, PatchesKept
      <4>3. Merged(req[w])[k] = Given(patch, k, req[w].read[k])
        BY <1>1, MergedTyped DEF patch
      <4> QED BY <1>5, <1>6, <1>8, <4>1, <4>2, <4>3
    <3> QED BY <2>2, <3>2, <3>3
  <2> QED BY <2>1, <2>2
<1>13. Served'
  <2> SUFFICES ASSUME NEW v \in Users, NEW t \in Hours, Duty(v, t) PROVE Duty(v, t)'
    BY <1>2, ServedStep
  <2>1. CASE v = u
    <3>1. touched'[v] = now /\ now \in Int /\ t \in Int
      BY <1>8, <2>1 DEF IInv, TypeOK, Hours
    <3> QED BY <1>2, <3>1 DEF Duty, DigestHour
  <2>2. CASE v # u
    <3>1. row'[v] = row[v] /\ touched'[v] = touched[v]
      BY <1>6, <1>8, <2>2
    <3> QED BY <1>2, <3>1 DEF Duty, DigestHour, HasDigest, Awaited
  <2> QED BY <2>1, <2>2
<1> QED BY <1>9, <1>10, <1>11, <1>12, <1>13 DEF IInv

LEMMA AbortPatchOK == ASSUME IInv, NEW w \in Workers, AbortPatch(w) PROVE IInv'
<1>1. /\ req' = [req EXCEPT ![w] = None]
      /\ UNCHANGED <<now, row, patches, tick, ticked, faults, got, repeated, refused, asked,
                     overlaps, touched>>
  BY DEF AbortPatch, history
<1>2. /\ req' \in [Workers -> Request \cup {None}]
      /\ req'[w] = None /\ \A v \in Workers : v # w => req'[v] = req[v]
  BY <1>1 DEF IInv, TypeOK
<1>3. TypeOK'
  BY <1>1, <1>2 DEF IInv, TypeOK
<1>4. Ticks' /\ Repeats'
  BY <1>1, TicksFrame, RepeatsFrame, GotTyped DEF IInv, TypeOK
<1>5. Patches'
  BY <1>1, <1>2 DEF IInv, Patches
<1>6. PatchesKept'
  BY <1>1 DEF IInv, PatchesKept
<1>7. Served'
  BY <1>1 DEF IInv, Served, Duty, DigestHour, HasDigest, Awaited
<1> QED BY <1>3, <1>4, <1>5, <1>6, <1>7 DEF IInv

LEMMA DisableOK == ASSUME IInv, NEW u \in Users, Disable(u) PROVE IInv'
<1>1. /\ row' = [row EXCEPT ![u].disabled = TRUE]
      /\ UNCHANGED <<now, req, patches, tick, ticked, faults, got, repeated, refused, asked,
                     overlaps, touched>>
  BY DEF Disable, history
<1>2. /\ row' \in [Users -> Row]
      /\ row'[u].disabled = TRUE
      /\ \A v \in Users : v # u => row'[v] = row[v]
      /\ \A v \in Users : row'[v].tz = row[v].tz /\ row'[v].prefs = row[v].prefs
                          /\ row'[v].last = row[v].last
  <2>1. row'[u] = [row[u] EXCEPT !.disabled = TRUE] /\ row[u] \in Row
    BY <1>1, RowTyped DEF IInv, TypeOK
  <2>2. /\ row'[u] \in Row /\ row'[u].disabled = TRUE
        /\ row'[u].tz = row[u].tz /\ row'[u].prefs = row[u].prefs /\ row'[u].last = row[u].last
    BY <2>1 DEF Row
  <2>3. /\ \A v \in Users : v # u => row'[v] = row[v]
        /\ row' = [v \in Users |-> row'[v]]
    BY <1>1 DEF IInv, TypeOK
  <2>4. row' \in [Users -> Row]
    BY <2>2, <2>3 DEF IInv, TypeOK
  <2> QED BY <2>2, <2>3, <2>4
<1>3. TypeOK'
  BY <1>1, <1>2 DEF IInv, TypeOK
<1>4. Ticks' /\ Repeats'
  <2>1. faults' \in Nat /\ faults <= faults'
    BY <1>1 DEF IInv, TypeOK
  <2> QED BY <1>1, <1>2, <2>1, TicksFrame, RepeatsFrame
<1>5. Patches' /\ PatchesKept'
  BY <1>1, <1>2, PatchesFrame
<1>6. Served'
  <2> SUFFICES ASSUME NEW v \in Users, NEW t \in Hours, Duty(v, t) PROVE Duty(v, t)'
    BY <1>1, ServedStep
  <2> QED BY <1>1, <1>2 DEF Duty, DigestHour, HasDigest, Awaited
<1> QED BY <1>3, <1>4, <1>5, <1>6 DEF IInv

-----------------------------------------------------------------------------
(* The dispatcher.                                                         *)

LEMMA SelectOK == ASSUME IInv, Select PROVE IInv'
<1> DEFINE seen == [u \in Users |-> IF row[u].disabled THEN None ELSE row[u]]
<1>1. /\ tick = Resting
      /\ tick' = [Resting EXCEPT !.pc = "users", !.at = now, !.seen = seen]
      /\ ticked' = TRUE
      /\ UNCHANGED <<now, row, req, patches, faults, got, repeated, refused, asked, overlaps,
                     touched>>
  BY DEF Select, history, IInv, Ticks
<1>2. /\ tick'.pc = "users" /\ tick'.at = now /\ tick'.seen = seen /\ tick'.marks = {}
      /\ tick.pc = "idle" /\ tick.marks = {}
  BY <1>1 DEF Resting
<1>3. seen \in [Users -> Row \cup {None}]
  BY RowTyped DEF IInv
<1>4. TypeOK'
  <2>1. tick' \in Tick
    <3> HIDE DEF seen
    <3> QED BY <1>1, <1>3 DEF Resting, Tick, IInv, TypeOK
  <2> QED BY <1>1, <2>1 DEF IInv, TypeOK, Tick
<1>5. Ticks'
  <2>1. tick'.at <= now
    BY <1>2, GotTyped DEF IInv, TypeOK, Hours
  <2>2. \A u \in Users : seen[u] # None => seen[u].last = row[u].last
    OBVIOUS
  <2>3. \A u \in Users : row[u].last # None => row[u].last \in got[u]
    BY DEF IInv, Ticks
  <2>4. \A u \in Users : \A t \in got[u] : t <= now
    BY DEF IInv, Ticks
  <2> HIDE DEF seen
  <2> QED BY <1>1, <1>2, <2>1, <2>2, <2>3, <2>4 DEF Ticks
<1>6. Repeats'
  <2>1. faults' \in Nat /\ faults <= faults'
    BY <1>1 DEF IInv, TypeOK
  <2> QED BY <1>1, <1>2, <2>1, RepeatsFrame
<1>7. Patches' /\ PatchesKept'
  BY <1>1, PatchesFrame
<1>8. Served'
  <2> SUFFICES ASSUME NEW u \in Users, NEW t \in Hours, Duty(u, t), DigestHour(u, t),
                      t <= now, u \notin refused, ~HasDigest(u, t)
               PROVE  Awaited(u, t)'
    BY <1>1, ServedStep DEF Duty, DigestHour, HasDigest, Hours, IInv, TypeOK
  <2>1. ~Awaited(u, t)
    BY <1>2 DEF Awaited
  <2>2. t = now
    BY <2>1 DEF Duty, Hours, IInv, TypeOK
  <2>3. seen[u] = row[u] /\ row[u] # None
    BY RowTyped DEF DigestHour, IInv
  <2> HIDE DEF seen
  <2> QED BY <1>1, <1>2, <2>2, <2>3 DEF Awaited
<1> QED BY <1>4, <1>5, <1>6, <1>7, <1>8 DEF IInv

\* On to the next user, without a digest for u: u was served already, or a push
\* has failed.
LEMMA NextUser ==
  ASSUME IInv, NEW u \in Users, tick.seen[u] # None, tick' = Settled(u),
         UNCHANGED <<now, row, req, patches, ticked, faults, got, repeated, asked, overlaps,
                     touched>>,
         refused' \subseteq Users, refused \subseteq refused',
         u \notin refused' => ~Due(tick.seen[u], tick.at)
  PROVE  IInv'
<1>1. /\ tick' \in Tick
      /\ tick'.pc = tick.pc /\ tick'.at = tick.at /\ tick'.marks = tick.marks
      /\ tick'.seen[u] = None
      /\ \A v \in Users : v # u => tick'.seen[v] = tick.seen[v]
  BY SettledFacts DEF IInv
<1>2. tick.pc # "idle"
  BY DEF IInv, Ticks, Resting
<1>3. TypeOK'
  BY <1>1 DEF IInv, TypeOK, Tick
<1>4. Ticks'
  <2>1. \A v \in Users : tick'.seen[v] # None =>
          v \notin tick'.marks /\ tick'.seen[v].last = row[v].last
    BY <1>1 DEF IInv, Ticks
  <2> QED BY <1>1, <1>2, <2>1 DEF IInv, Ticks
<1>5. Repeats'
  BY <1>1, RepeatsFrame, GotTyped DEF IInv, TypeOK
<1>6. Patches' /\ PatchesKept'
  BY PatchesFrame
<1>7. Served'
  <2> SUFFICES ASSUME NEW v \in Users, NEW t \in Hours, Duty(v, t), DigestHour(v, t),
                      t < now \/ (t = now /\ ticked),
                      v \notin refused', ~HasDigest(v, t)
               PROVE  Awaited(v, t)'
    BY ServedStep DEF Duty, DigestHour, HasDigest
  <2>1. Awaited(v, t)
    BY DEF Duty
  <2>2. v # u
    BY <2>1, SkippedHasDigest
  <2> QED BY <1>1, <2>1, <2>2 DEF Awaited
<1> QED BY <1>3, <1>4, <1>5, <1>6, <1>7 DEF IInv

LEMMA SkipOK == ASSUME IInv, NEW u \in Users, Skip(u) PROVE IInv'
<1>1. /\ tick.seen[u] # None /\ ~Due(tick.seen[u], tick.at) /\ tick' = Settled(u)
      /\ UNCHANGED <<now, row, req, patches, ticked, faults, got, repeated, refused, asked,
                     overlaps, touched>>
  BY DEF Skip, Pending, history
<1>2. refused' \subseteq Users
  BY <1>1 DEF IInv, TypeOK
<1> QED BY <1>1, <1>2, NextUser

LEMMA PushFailsOK == ASSUME IInv, NEW u \in Users, PushFails(u) PROVE IInv'
<1>1. /\ tick.seen[u] # None /\ tick' = Settled(u) /\ refused' = refused \cup {u}
      /\ UNCHANGED <<now, row, req, patches, ticked, faults, got, repeated, asked, overlaps,
                     touched>>
  BY DEF PushFails, Pending
<1>2. refused' \subseteq Users
  BY <1>1 DEF IInv, TypeOK
<1> QED BY <1>1, <1>2, NextUser

\* A digest is pushed to u.
LEMMA PushedFacts ==
  ASSUME IInv, NEW u \in Users, tick.seen[u] # None, Due(tick.seen[u], tick.at), Pushed(u)
  PROVE  /\ tick.pc = "users" /\ u \notin tick.marks
         /\ got' \in [Users -> SUBSET Hours] /\ repeated' \in [Users -> Nat]
         /\ got'[u] = got[u] \cup {tick.at}
         /\ \A v \in Users : v # u => got'[v] = got[v] /\ repeated'[v] = repeated[v]
         /\ repeated'[u] = repeated[u] \/ (repeated'[u] = repeated[u] + 1 /\ Behind(u))
         /\ repeated[u] \in Nat /\ repeated'[u] \in Nat
<1>1. tick.pc = "users" /\ u \notin tick.marks
  BY TickTyped DEF IInv, Ticks, Resting
<1>2. tick.at \in Hours
  BY TickTyped DEF IInv
<1>3. /\ got' \in [Users -> SUBSET Hours]
      /\ got'[u] = got[u] \cup {tick.at}
      /\ \A v \in Users : v # u => got'[v] = got[v]
  BY <1>2 DEF Pushed, IInv, TypeOK
<1>4. HadToday(u) => Behind(u)
  BY RepeatedWasBehind
<1> DEFINE more == IF HadToday(u) THEN repeated[u] + 1 ELSE repeated[u]
<1>5. repeated' = [repeated EXCEPT ![u] = more]
  BY DEF Pushed
<1>6. /\ repeated[u] \in Nat /\ more \in Nat
      /\ more = repeated[u] \/ (more = repeated[u] + 1 /\ Behind(u))
  BY <1>4 DEF IInv, TypeOK
<1> HIDE DEF more
<1>7. /\ repeated' \in [Users -> Nat] /\ repeated'[u] = more
      /\ \A v \in Users : v # u => repeated'[v] = repeated[v]
  BY <1>5, <1>6 DEF IInv, TypeOK
<1> QED BY <1>1, <1>3, <1>6, <1>7

\* Digests of the past are kept, and the tick's is not from the future.
LEMMA PushedTicks ==
  ASSUME IInv, NEW u \in Users, tick.seen[u] # None, Due(tick.seen[u], tick.at), Pushed(u),
         UNCHANGED <<now, row>>,
         tick'.pc = tick.pc, tick'.at = tick.at, tick'.seen[u] = None,
         \A v \in Users : v # u => tick'.seen[v] = tick.seen[v],
         tick'.marks \in {tick.marks, tick.marks \cup {u}}
  PROVE  Ticks'
<1>1. /\ tick.pc = "users" /\ got'[u] = got[u] \cup {tick.at}
      /\ \A v \in Users : v # u => got'[v] = got[v]
  BY PushedFacts
<1>2. tick'.at <= now
  BY DEF IInv, Ticks
<1>3. \A v \in Users : tick'.seen[v] # None =>
        v \notin tick'.marks /\ tick'.seen[v].last = row[v].last
  BY DEF IInv, Ticks
<1>4. \A v \in tick'.marks : tick'.at \in got'[v]
  BY <1>1, TickTyped DEF IInv, Ticks
<1>5. \A v \in Users : row[v].last # None => row[v].last \in got'[v]
  BY <1>1 DEF IInv, Ticks
<1>6. \A v \in Users : \A t \in got'[v] : t <= now /\ t <= tick.at
  <2> SUFFICES ASSUME NEW v \in Users, NEW t \in got'[v] PROVE t <= now /\ t <= tick.at
    OBVIOUS
  <2>1. t \in got[v] \/ t = tick.at
    BY <1>1
  <2>2. tick.at <= now /\ tick.at \in Int
    BY TickTyped DEF IInv, Ticks
  <2> QED BY <1>1, <2>1, <2>2 DEF IInv, Ticks
<1> QED BY <1>1, <1>2, <1>3, <1>4, <1>5, <1>6 DEF Ticks

\* The push to u does the duty to u, and no other is forgotten.
LEMMA PushedServed ==
  ASSUME IInv, NEW u \in Users, tick.seen[u] # None, Due(tick.seen[u], tick.at), Pushed(u),
         UNCHANGED <<now, row, ticked, refused, touched>>, faults' = 0 => faults = 0,
         tick'.pc = tick.pc, tick'.at = tick.at,
         \A v \in Users : v # u => tick'.seen[v] = tick.seen[v]
  PROVE  Served'
<1>1. /\ got'[u] = got[u] \cup {tick.at}
      /\ \A v \in Users : v # u => got'[v] = got[v]
  BY PushedFacts
<1> SUFFICES ASSUME NEW v \in Users, NEW t \in Hours, Duty(v, t), DigestHour(v, t),
                    t < now \/ (t = now /\ ticked), v \notin refused, ~HasDigest(v, t)'
             PROVE  Awaited(v, t)'
  BY ServedStep DEF Duty, DigestHour
<1>2. ~HasDigest(v, t)
  BY <1>1 DEF HasDigest
<1>3. Awaited(v, t)
  BY <1>2 DEF Duty
<1>4. v # u
  BY <1>1, <1>3 DEF HasDigest, Awaited
<1> QED BY <1>3, <1>4 DEF Awaited

LEMMA PushAcknowledgedOK == ASSUME IInv, NEW u \in Users, PushAcknowledged(u) PROVE IInv'
<1>1. /\ tick.seen[u] # None /\ Due(tick.seen[u], tick.at) /\ Pushed(u)
      /\ tick' = [Settled(u) EXCEPT !.marks = @ \cup {u}]
      /\ UNCHANGED <<now, row, req, patches, ticked, faults, refused, asked, overlaps, touched>>
  BY DEF PushAcknowledged, Pending
<1>2. /\ tick' \in Tick
      /\ tick'.pc = tick.pc /\ tick'.at = tick.at /\ tick'.marks = tick.marks \cup {u}
      /\ tick'.seen[u] = None
      /\ \A v \in Users : v # u => tick'.seen[v] = tick.seen[v]
  <2> DEFINE s == Settled(u)
  <2>1. /\ s \in Tick
        /\ s.pc = tick.pc /\ s.at = tick.at /\ s.marks = tick.marks
        /\ s.seen[u] = None
        /\ \A v \in Users : v # u => s.seen[v] = tick.seen[v]
    BY SettledFacts DEF IInv
  <2>2. tick' = [s EXCEPT !.marks = @ \cup {u}]
    BY <1>1
  <2> HIDE DEF s
  <2> QED BY <2>1, <2>2 DEF Tick
<1>3. /\ got' \in [Users -> SUBSET Hours] /\ repeated' \in [Users -> Nat]
      /\ \A v \in Users : v # u => got'[v] = got[v] /\ repeated'[v] = repeated[v]
      /\ repeated'[u] = repeated[u] \/ (repeated'[u] = repeated[u] + 1 /\ Behind(u))
      /\ repeated[u] \in Nat /\ u \notin tick.marks
  BY <1>1, PushedFacts
<1>4. TypeOK'
  BY <1>1, <1>2, <1>3 DEF IInv, TypeOK, Tick
<1>5. Ticks'
  BY <1>1, <1>2, PushedTicks
<1>6. Repeats'
  <2> SUFFICES ASSUME NEW v \in Users
               PROVE  /\ repeated'[v] <= faults
                      /\ Behind(v)' /\ v \notin tick'.marks => repeated'[v] < faults
    BY <1>1 DEF Repeats
  <2>1. repeated[v] <= faults /\ (Behind(v) /\ v \notin tick.marks => repeated[v] < faults)
    BY DEF IInv, Repeats
  <2>2. CASE v = u
    <3>1. faults \in Nat
      BY GotTyped DEF IInv
    <3> QED BY <1>2, <1>3, <2>1, <2>2, <3>1
  <2>3. CASE v # u
    BY <1>1, <1>2, <1>3, <2>1, <2>3 DEF Behind
  <2> QED BY <2>2, <2>3
<1>7. Patches' /\ PatchesKept'
  BY <1>1, PatchesFrame
<1>8. Served'
  BY <1>1, <1>2, PushedServed
<1> QED BY <1>4, <1>5, <1>6, <1>7, <1>8 DEF IInv

LEMMA PushUnansweredOK == ASSUME IInv, NEW u \in Users, PushUnanswered(u) PROVE IInv'
<1>1. /\ tick.seen[u] # None /\ Due(tick.seen[u], tick.at) /\ Pushed(u)
      /\ tick' = Settled(u) /\ faults' = faults + 1 /\ faults < MaxFaults
      /\ UNCHANGED <<now, row, req, patches, ticked, refused, asked, overlaps, touched>>
  BY DEF PushUnanswered, Pending
<1>2. /\ tick' \in Tick
      /\ tick'.pc = tick.pc /\ tick'.at = tick.at /\ tick'.marks = tick.marks
      /\ tick'.seen[u] = None
      /\ \A v \in Users : v # u => tick'.seen[v] = tick.seen[v]
  BY <1>1, SettledFacts DEF IInv
<1>3. /\ got' \in [Users -> SUBSET Hours] /\ repeated' \in [Users -> Nat]
      /\ \A v \in Users : v # u => got'[v] = got[v] /\ repeated'[v] = repeated[v]
      /\ repeated'[u] = repeated[u] \/ (repeated'[u] = repeated[u] + 1 /\ Behind(u))
      /\ repeated[u] \in Nat /\ u \notin tick.marks
  BY <1>1, PushedFacts
<1>4. faults \in Nat /\ faults' \in 0 .. MaxFaults
  BY <1>1 DEF IInv, TypeOK
<1>5. TypeOK'
  BY <1>1, <1>2, <1>3, <1>4 DEF IInv, TypeOK, Tick
<1>6. Ticks'
  BY <1>1, <1>2, PushedTicks
<1>7. Repeats'
  <2> SUFFICES ASSUME NEW v \in Users
               PROVE  repeated'[v] < faults'
    BY <1>1, <1>3, <1>4 DEF Repeats, TypeOK
  <2>1. repeated[v] <= faults /\ (Behind(v) /\ v \notin tick.marks => repeated[v] < faults)
    BY DEF IInv, Repeats
  <2>2. CASE v = u
    BY <1>1, <1>3, <1>4, <2>1, <2>2
  <2>3. CASE v # u
    <3>1. repeated[v] \in Nat /\ repeated'[v] = repeated[v]
      BY <1>3, <2>3, GotTyped DEF IInv
    <3> QED BY <1>1, <1>4, <2>1, <3>1
  <2> QED BY <2>2, <2>3
<1>8. Patches' /\ PatchesKept'
  BY <1>1, PatchesFrame
<1>9. Served'
  BY <1>1, <1>4 DEF Served
<1> QED BY <1>5, <1>6, <1>7, <1>8, <1>9 DEF IInv

LEMMA RestFacts ==
  ASSUME TypeOK, tick' = Resting
  PROVE  /\ tick' \in Tick
         /\ tick'.pc = "idle" /\ tick'.at = 0 /\ tick'.marks = {}
         /\ \A u \in Users : tick'.seen[u] = None
<1>1. 0 \in Hours
  BY DEF Hours
<1> QED BY <1>1 DEF Resting, Tick

LEMMA CommitOK == ASSUME IInv, Commit PROVE IInv'
<1>1. /\ tick.pc = "users" /\ \A u \in Users : tick.seen[u] = None
      /\ row' = [u \in Users |-> IF u \in tick.marks THEN [row[u] EXCEPT !.last = tick.at]
                                 ELSE row[u]]
      /\ tick' = Resting
      /\ UNCHANGED <<now, req, patches, ticked, faults, got, repeated, refused, asked, overlaps,
                     touched>>
  BY DEF Commit, history, Pending
<1>2. /\ tick' \in Tick
      /\ tick'.pc = "idle" /\ tick'.at = 0 /\ tick'.marks = {}
      /\ \A u \in Users : tick'.seen[u] = None
  BY <1>1, RestFacts DEF IInv
<1>3. ASSUME NEW u \in Users
      PROVE  /\ row'[u] \in Row
             /\ row'[u].tz = row[u].tz /\ row'[u].prefs = row[u].prefs
             /\ row'[u].disabled = row[u].disabled
             /\ u \in tick.marks => row'[u].last = tick.at
             /\ u \notin tick.marks => row'[u] = row[u]
  <2>1. row[u] \in Row /\ tick.at \in Hours
    BY RowTyped, TickTyped DEF IInv
  <2>2. CASE u \in tick.marks
    <3>1. row'[u] = [row[u] EXCEPT !.last = tick.at]
      BY <1>1, <2>2
    <3> QED BY <2>1, <2>2, <3>1 DEF Row
  <2>3. CASE u \notin tick.marks
    BY <1>1, <2>1, <2>3
  <2> QED BY <2>2, <2>3
<1>4. TypeOK'
  <2>1. row' = [u \in Users |-> row'[u]]
    BY <1>1
  <2>2. row' \in [Users -> Row]
    BY <1>3, <2>1
  <2> QED BY <1>1, <1>2, <2>2 DEF IInv, TypeOK, Tick
<1>5. Ticks'
  <2>1. \A u \in Users : row'[u].last # None => row'[u].last \in got[u]
    BY <1>3 DEF IInv, Ticks
  <2>2. 0 <= now
    BY DEF IInv, TypeOK, Hours
  <2>3. \A u \in Users : \A t \in got[u] : t <= now
    BY DEF IInv, Ticks
  <2> QED BY <1>1, <1>2, <2>1, <2>2, <2>3 DEF Ticks
<1>6. Repeats'
  <2> SUFFICES ASSUME NEW u \in Users
               PROVE  repeated[u] <= faults /\ (Behind(u)' => repeated[u] < faults)
    BY <1>1 DEF Repeats
  <2>1. repeated[u] <= faults /\ (Behind(u) /\ u \notin tick.marks => repeated[u] < faults)
    BY DEF IInv, Repeats
  <2>2. CASE u \in tick.marks
    <3>1. row'[u].last = tick.at /\ tick.at # None
      BY <1>3, <2>2, TickTyped DEF IInv
    <3>2. \A t \in got[u] : t <= tick.at
      BY <1>1 DEF IInv, Ticks
    <3>3. \A t \in got[u] : ~(tick.at < t)
      BY <3>2, GotTyped, TickTyped DEF IInv
    <3>4. ~Behind(u)'
      BY <1>1, <3>1, <3>3 DEF Behind
    <3> QED BY <2>1, <3>4
  <2>3. CASE u \notin tick.marks
    BY <1>1, <1>3, <2>1, <2>3 DEF Behind
  <2> QED BY <2>2, <2>3
<1>7. Patches' /\ PatchesKept'
  BY <1>1, <1>3, PatchesFrame
<1>8. Served'
  <2> SUFFICES ASSUME NEW u \in Users, NEW t \in Hours, Duty(u, t) PROVE Duty(u, t)'
    BY <1>1, ServedStep
  <2>1. ~Awaited(u, t)
    BY <1>1 DEF Awaited
  <2>2. HasDigest(u, t)' <=> HasDigest(u, t)
    BY <1>1, <1>3 DEF HasDigest
  <2>3. DigestHour(u, t)' => DigestHour(u, t)
    BY <1>1, <1>3 DEF DigestHour
  <2> QED BY <1>1, <2>1, <2>2, <2>3 DEF Duty
<1> QED BY <1>4, <1>5, <1>6, <1>7, <1>8 DEF IInv

LEMMA AbandonOK == ASSUME IInv, Abandon PROVE IInv'
<1>1. /\ tick' = Resting /\ faults' = faults + 1 /\ faults < MaxFaults
      /\ UNCHANGED <<now, row, req, patches, ticked, got, repeated, refused, asked, overlaps,
                     touched>>
  BY DEF Abandon
<1>2. /\ tick' \in Tick
      /\ tick'.pc = "idle" /\ tick'.at = 0 /\ tick'.marks = {}
      /\ \A u \in Users : tick'.seen[u] = None
  BY <1>1, RestFacts DEF IInv
<1>3. faults \in Nat /\ faults' \in 0 .. MaxFaults
  BY <1>1 DEF IInv, TypeOK
<1>4. TypeOK'
  BY <1>1, <1>2, <1>3 DEF IInv, TypeOK, Tick
<1>5. Ticks'
  <2>1. 0 <= now
    BY DEF IInv, TypeOK, Hours
  <2>2. \A u \in Users : row[u].last # None => row[u].last \in got[u]
    BY DEF IInv, Ticks
  <2>3. \A u \in Users : \A t \in got[u] : t <= now
    BY DEF IInv, Ticks
  <2> QED BY <1>1, <1>2, <2>1, <2>2, <2>3 DEF Ticks
<1>6. Repeats'
  <2> SUFFICES ASSUME NEW u \in Users PROVE repeated[u] < faults' /\ repeated[u] <= faults'
    BY <1>1 DEF Repeats
  <2>1. repeated[u] <= faults /\ repeated[u] \in Nat
    BY GotTyped DEF IInv, Repeats
  <2> QED BY <1>1, <1>3, <2>1
<1>7. Patches' /\ PatchesKept'
  BY <1>1, PatchesFrame
<1>8. Served'
  BY <1>1, <1>3 DEF Served
<1> QED BY <1>4, <1>5, <1>6, <1>7, <1>8 DEF IInv

\* The hour changes, and the tick goes on.
LEMMA HourTicks ==
  ASSUME IInv, now' = now + 1, UNCHANGED <<row, tick, got>> PROVE Ticks'
<1>1. now \in Int /\ tick.at \in Int /\ tick.at <= now
  BY TickTyped DEF IInv, TypeOK, Hours, Ticks
<1>2. tick.at <= now'
  BY <1>1
<1>3. \A u \in Users : \A t \in got[u] : t <= now' /\ (tick.pc = "users" => t <= tick.at)
  <2> SUFFICES ASSUME NEW u \in Users, NEW t \in got[u]
               PROVE  t <= now' /\ (tick.pc = "users" => t <= tick.at)
    OBVIOUS
  <2>1. t \in Int /\ t <= now /\ (tick.pc = "users" => t <= tick.at)
    BY GotTyped DEF IInv, Ticks
  <2> QED BY <1>1, <2>1
<1> QED BY <1>2, <1>3 DEF IInv, Ticks, Resting

LEMMA NextHourOK == ASSUME IInv, NextHour PROVE IInv'
<1>1. /\ now < LastHour /\ now' = now + 1 /\ ticked' = FALSE
      /\ ticked \/ \A u \in Users : row[u].disabled
      /\ UNCHANGED <<row, req, patches, tick, faults, got, repeated, refused, asked, overlaps,
                     touched>>
  BY DEF NextHour, history
<1>2. now \in Int /\ now' \in Hours
  BY <1>1 DEF IInv, TypeOK, Hours
<1>3. TypeOK'
  BY <1>1, <1>2 DEF IInv, TypeOK
<1>4. Ticks'
  BY <1>1, HourTicks
<1>5. Repeats'
  BY <1>1, RepeatsFrame, GotTyped DEF IInv, TypeOK
<1>6. Patches' /\ PatchesKept'
  BY <1>1, PatchesFrame
<1>7. Served'
  <2> SUFFICES ASSUME NEW u \in Users, NEW t \in Hours, Duty(u, t) PROVE Duty(u, t)'
    BY <1>1, ServedStep
  <2>1. DigestHour(u, t)' => DigestHour(u, t) /\ ticked
    BY <1>1 DEF DigestHour
  <2>2. t < now' => t < now \/ t = now
    BY <1>1, <1>2 DEF Hours
  <2>3. /\ HasDigest(u, t)' <=> HasDigest(u, t)
        /\ Awaited(u, t)' <=> Awaited(u, t)
    BY <1>1 DEF HasDigest, Awaited
  <2> QED BY <1>1, <2>1, <2>2, <2>3 DEF Duty
<1> QED BY <1>3, <1>4, <1>5, <1>6, <1>7 DEF IInv

LEMMA HourDownOK == ASSUME IInv, HourDown PROVE IInv'
<1>1. /\ now < LastHour /\ now' = now + 1 /\ faults < MaxFaults /\ faults' = faults + 1
      /\ UNCHANGED <<row, req, patches, tick, ticked, got, repeated, refused, asked, overlaps,
                     touched>>
  BY DEF HourDown
<1>2. /\ now \in Int /\ now' \in Hours
      /\ faults \in Nat /\ faults' \in 0 .. MaxFaults /\ faults <= faults' /\ faults' # 0
  BY <1>1 DEF IInv, TypeOK, Hours
<1>3. TypeOK'
  BY <1>1, <1>2 DEF IInv, TypeOK
<1>4. Ticks'
  BY <1>1, HourTicks
<1>5. Repeats'
  BY <1>1, <1>2, RepeatsFrame
<1>6. Patches' /\ PatchesKept'
  BY <1>1, PatchesFrame
<1>7. Served'
  BY <1>2 DEF Served
<1> QED BY <1>3, <1>4, <1>5, <1>6, <1>7 DEF IInv

LEMMA StutterOK == ASSUME IInv, UNCHANGED vars PROVE IInv'
<1>1. UNCHANGED <<now, row, req, patches, tick, ticked, faults, got, repeated, refused, asked,
                  overlaps, touched>>
  BY DEF vars
<1>2. TypeOK' /\ PatchesKept' /\ Patches'
  BY <1>1 DEF IInv, TypeOK, PatchesKept, Patches
<1>3. Ticks' /\ Repeats'
  BY <1>1, TicksFrame, RepeatsFrame, GotTyped DEF IInv, TypeOK
<1>4. Served'
  BY <1>1 DEF IInv, Served, Duty, DigestHour, HasDigest, Awaited
<1> QED BY <1>2, <1>3, <1>4 DEF IInv

-----------------------------------------------------------------------------
(* What a digest counts.                                                   *)

LEMMA MulFacts ==
  ASSUME NEW d \in Nat \ {0}, NEW p \in Int, NEW q \in Int
  PROVE  /\ d * p \in Int /\ p * d = d * p
         /\ p <= q => d * p <= d * q
         /\ p < q => d * p + d <= d * q
  OBVIOUS

\* The day of an hour, by the hours at which the day begins and ends.
LEMMA DayBounds ==
  ASSUME NEW w \in Int, NEW day \in Int
  PROVE  /\ w \div DayLength \in Int
         /\ w \div DayLength = day =>
              day * DayLength <= w /\ w <= day * DayLength + DayLength - 1
         /\ w <= day * DayLength + DayLength - 1 => w \div DayLength <= day
         /\ day * DayLength <= w => day <= w \div DayLength
<1> DEFINE q == w \div DayLength
<1>1. q \in Int /\ w % DayLength \in 0 .. DayLength - 1 /\ w = DayLength * q + (w % DayLength)
  BY DivFacts
<1> HIDE DEF q
<1>2. /\ DayLength * q \in Int /\ DayLength * day \in Int /\ day * DayLength = DayLength * day
      /\ day < q => DayLength * day + DayLength <= DayLength * q
      /\ q < day => DayLength * q + DayLength <= DayLength * day
  BY <1>1, MulFacts
<1> QED BY <1>1, <1>2 DEF q

\* The offsets of a zone are less than a day.
LEMMA ZoneTyped ==
  ASSUME NEW tz \in Zones
  PROVE  /\ tz.before \in Int /\ tz.after \in Int /\ tz.from \in Int
         /\ tz.before < DayLength /\ tz.after < DayLength
         /\ -DayLength < tz.before /\ -DayLength < tz.after
<1>1. tz.before \in Int /\ tz.after \in Int /\ tz.from \in Int
  OBVIOUS
<1>2. /\ tz.before \in 1 - DayLength .. DayLength - 1
      /\ tz.after \in 1 - DayLength .. DayLength - 1
  OBVIOUS
<1> QED BY <1>1, <1>2

LEMMA HoursTyped ==
  ASSUME NEW tz \in Zones, NEW t \in Int
  PROVE  /\ LocalDay(tz, t) \in Int /\ Wall(tz, t) \in Int /\ OffsetAt(tz, t) \in Int
         /\ FirstHour(tz, t) \in Int /\ LastHourOf(tz, t) \in Int
         /\ FirstHour(tz, t) = LocalDay(tz, t) * DayLength
         /\ LastHourOf(tz, t) = FirstHour(tz, t) + DayLength - 1
         /\ LocalDay(tz, t) = Wall(tz, t) \div DayLength
<1>1. LocalDay(tz, t) \in Int /\ LocalDay(tz, t) * DayLength \in Int
  BY LocalDayMonotonic, MulFacts
<1>2. OffsetAt(tz, t) \in Int
  BY ZoneTyped DEF OffsetAt
<1>3. Wall(tz, t) \in Int
  BY <1>2 DEF Wall
<1>4. FirstHour(tz, t) \in Int /\ LastHourOf(tz, t) \in Int
  BY <1>1 DEF FirstHour, LastHourOf
<1> QED BY <1>1, <1>2, <1>3, <1>4 DEF FirstHour, LastHourOf, LocalDay

\* The wall is turned back by one of the two offsets.
LEMMA AtWallFacts ==
  ASSUME NEW tz \in Zones, NEW wall \in Int, NEW fold \in BOOLEAN
  PROVE  /\ AtWall(tz, wall, fold) \in Int
         /\ AtWall(tz, wall, fold) \in {wall - tz.before, wall - tz.after}
<1>1. tz.before \in Int /\ tz.after \in Int /\ tz.from \in Int
  BY ZoneTyped
<1> QED BY <1>1 DEF AtWall

\* The day's ends are less than a day off those of the date in UTC.
LEMMA DayEndsNearDate ==
  ASSUME NEW tz \in Zones, NEW t \in Int
  PROVE  /\ DayStart(tz, t) \in Int /\ DayEnd(tz, t) \in Int
         /\ DateOf(DayStart(tz, t)) \in Int /\ DateOf(DayEnd(tz, t)) \in Int
         /\ DateOf(DayStart(tz, t)) <= LocalDay(tz, t)
         /\ LocalDay(tz, t) <= DateOf(DayEnd(tz, t))
<1> DEFINE first == FirstHour(tz, t)
           last == LastHourOf(tz, t)
           day == LocalDay(tz, t)
           start == DayStart(tz, t)
           end == DayEnd(tz, t)
<1>1. /\ first \in Int /\ last \in Int /\ day \in Int
      /\ first = day * DayLength /\ last = first + DayLength - 1
  BY HoursTyped
<1>2. Fold(tz, t) \in BOOLEAN
  BY DEF Fold, ShownTwice, ShownBefore, ShownAfter
<1>3. /\ start \in Int /\ start \in {first - tz.before, first - tz.after}
      /\ end \in Int /\ end \in {last - tz.before, last - tz.after}
  BY <1>1, <1>2, AtWallFacts DEF DayStart, DayEnd
<1> HIDE DEF first, last, day, start, end
<1>4. start <= day * DayLength + DayLength - 1 /\ day * DayLength <= end
  BY <1>1, <1>3, ZoneTyped
<1>5. /\ start \div DayLength \in Int /\ end \div DayLength \in Int
      /\ start \div DayLength <= day /\ day <= end \div DayLength
  BY <1>1, <1>3, <1>4, DayBounds
<1> QED BY <1>3, <1>5 DEF DateOf, start, end, day

\* A time is shown again only where the clocks go back.
LEMMA FoldGoesBack ==
  ASSUME NEW tz \in Zones, NEW t \in Int, Fold(tz, t)
  PROVE  tz.after < tz.before
<1>1. Wall(tz, t) \in Int /\ tz.before \in Int /\ tz.after \in Int /\ tz.from \in Int
  BY HoursTyped, ZoneTyped
<1> QED BY <1>1 DEF Fold, ShownTwice, ShownBefore, ShownAfter

\* What is due on the day of t is due by the end of it, unless that comes twice.
LEMMA DueByDayEnd ==
  ASSUME NEW tz \in Zones, NEW t \in Int, NEW due \in Int,
         LocalDay(tz, due) = LocalDay(tz, t), ~EndsEarly(tz, t)
  PROVE  due <= DayEnd(tz, t)
<1> DEFINE first == FirstHour(tz, t)
           last == LastHourOf(tz, t)
           fold == Fold(tz, t)
<1>1. tz.before \in Int /\ tz.after \in Int /\ tz.from \in Int
  BY ZoneTyped
<1>2. /\ first \in Int /\ last \in Int
      /\ first = LocalDay(tz, t) * DayLength /\ last = first + DayLength - 1
      /\ Wall(tz, due) \in Int
  BY HoursTyped
<1>3. Wall(tz, due) <= last
  <2>1. LocalDay(tz, t) \in Int /\ Wall(tz, due) \div DayLength = LocalDay(tz, t)
    BY HoursTyped
  <2> QED BY <1>2, <2>1, DayBounds
<1>4. DayEnd(tz, t) = AtWall(tz, last, fold) /\ (fold \/ ~ShownTwice(tz, last))
  BY DEF DayEnd, EndsEarly
<1> HIDE DEF first, last, fold
<1>5. fold => tz.after < tz.before
  BY FoldGoesBack DEF fold
<1>6. due <= AtWall(tz, last, fold)
  <2>1. CASE due < tz.from
    <3>1. due + tz.before <= last
      BY <1>1, <1>3, <2>1 DEF Wall, OffsetAt
    <3> QED BY <1>1, <1>2, <1>4, <1>5, <2>1, <3>1
            DEF AtWall, ShownTwice, ShownBefore, ShownAfter
  <2>2. CASE due >= tz.from
    <3>1. due + tz.after <= last
      BY <1>1, <1>3, <2>2 DEF Wall, OffsetAt
    <3> QED BY <1>1, <1>2, <1>4, <2>2, <3>1 DEF AtWall, ShownTwice, ShownBefore, ShownAfter
  <2> QED BY <1>1, <2>1, <2>2
<1> QED BY <1>4, <1>6

\* What is due on the date of the day's start is due by the end of the day,
\* unless the clocks go forward.
LEMMA DueByStartDate ==
  ASSUME NEW tz \in Zones, NEW t \in Int, NEW due \in Int,
         DateOf(due) <= DateOf(DayStart(tz, t)), ~GoesForward(tz, t)
  PROVE  LocalDay(tz, due) <= LocalDay(tz, t)
<1> DEFINE first == FirstHour(tz, t)
           fold == Fold(tz, t)
           start == DayStart(tz, t)
           day == LocalDay(tz, t)
<1>1. tz.before \in Int /\ tz.after \in Int /\ tz.from \in Int
  BY ZoneTyped
<1>2. /\ first \in Int /\ day \in Int /\ first = day * DayLength
      /\ LastHourOf(tz, t) = first + DayLength - 1
      /\ Wall(tz, due) \in Int /\ LocalDay(tz, due) = Wall(tz, due) \div DayLength
  BY HoursTyped
<1>3. start = AtWall(tz, first, fold) /\ start \in Int
  BY DayEndsNearDate DEF DayStart
<1>4. ~(/\ tz.before < tz.after
        /\ first - tz.after < tz.from /\ tz.from <= first + DayLength - 1 - tz.before)
  BY <1>2 DEF GoesForward
<1>5. fold => tz.after < tz.before
  BY FoldGoesBack
<1>6. due \div DayLength <= start \div DayLength
  BY DEF DateOf
<1> HIDE DEF first, fold, start, day
<1>7. due < start + DayLength
  <2> DEFINE dueDay == DayLength * (due \div DayLength)
             startDay == DayLength * (start \div DayLength)
             dueHour == due % DayLength
             startHour == start % DayLength
  <2>1. /\ due \div DayLength \in Int /\ dueHour \in 0 .. DayLength - 1
        /\ due = dueDay + dueHour
    BY DivFacts
  <2>2. /\ start \div DayLength \in Int /\ startHour \in 0 .. DayLength - 1
        /\ start = startDay + startHour
    BY <1>3, DivFacts
  <2>3. dueDay \in Int /\ startDay \in Int /\ dueDay <= startDay
    BY <1>6, <2>1, <2>2, MulFacts
  <2> HIDE DEF dueDay, startDay, dueHour, startHour
  <2> QED BY <1>3, <2>1, <2>2, <2>3
<1>8. CASE ~fold
  <2>1. Wall(tz, due) <= first + DayLength - 1
    BY <1>1, <1>2, <1>3, <1>4, <1>7, <1>8
       DEF Wall, OffsetAt, AtWall, ShownTwice, ShownBefore, ShownAfter
  <2> QED BY <1>2, <2>1, DayBounds DEF day
<1>9. CASE fold
  <2>1. CASE due >= tz.from
    <3>1. Wall(tz, due) <= first + DayLength - 1
      BY <1>1, <1>2, <1>3, <1>5, <1>7, <1>9, <2>1
         DEF Wall, OffsetAt, AtWall, ShownBefore, ShownAfter
    <3> QED BY <1>2, <3>1, DayBounds DEF day
  <2>2. CASE due < tz.from
    <3>1. tz.from <= t
      BY <1>9 DEF fold, Fold
    <3> QED BY <1>1, <2>2, <3>1, LocalDayMonotonic DEF day
  <2> QED BY <1>1, <2>1, <2>2
<1> QED BY <1>8, <1>9 DEF day

\* A due_at given by a clock that is not ahead of the user's shows no later date
\* than the local day, and one by a clock that is not behind it no earlier date.
LEMMA StoredDate ==
  ASSUME NEW tz \in Zones, NEW due \in Int, NEW offset \in Int
  PROVE  /\ DateOf(Stored(due, offset)) \in Int
         /\ offset <= OffsetAt(tz, due) => DateOf(Stored(due, offset)) <= LocalDay(tz, due)
         /\ offset >= OffsetAt(tz, due) => LocalDay(tz, due) <= DateOf(Stored(due, offset))
         /\ offset <= 0 => DateOf(Stored(due, offset)) <= DateOf(due)
         /\ offset >= 0 => DateOf(due) <= DateOf(Stored(due, offset))
<1> DEFINE stored == Stored(due, offset)
           wall == Wall(tz, due)
<1>1. /\ stored \in Int /\ wall \in Int /\ LocalDay(tz, due) = wall \div DayLength
      /\ stored = due + offset /\ wall = due + OffsetAt(tz, due) /\ OffsetAt(tz, due) \in Int
  BY HoursTyped DEF Stored, Wall
<1> HIDE DEF stored, wall
<1>2. /\ stored <= wall => stored \div DayLength <= wall \div DayLength
      /\ wall <= stored => wall \div DayLength <= stored \div DayLength
      /\ stored <= due => stored \div DayLength <= due \div DayLength
      /\ due <= stored => due \div DayLength <= stored \div DayLength
  BY <1>1, DivMonotonic
<1>3. stored \div DayLength \in Int
  BY <1>1, DivFacts
<1> QED BY <1>1, <1>2, <1>3 DEF DateOf, stored

\* For every zone, hour, due_at and offset.
LEMMA CountsFacts ==
  ASSUME NEW tz \in Zones, NEW t \in Int, NEW due \in Int, NEW offset \in Int
  PROVE  CountsRight(tz, t, due, offset)
<1> DEFINE date == DateOf(Stored(due, offset))
           own == OffsetAt(tz, due)
           day == LocalDay(tz, t)
<1>1. /\ date \in Int /\ own \in Int /\ day \in Int /\ LocalDay(tz, due) \in Int
      /\ DateOf(due) \in Int
      /\ DateOf(DayStart(tz, t)) \in Int /\ DateOf(DayEnd(tz, t)) \in Int
  BY StoredDate, HoursTyped, DayEndsNearDate, DivFacts DEF DateOf
<1>2. ASSUME LocalDay(tz, due) = day, offset <= own \/ (offset <= 0 /\ ~EndsEarly(tz, t))
      PROVE  TellsOf(tz, t, due, offset)
  <2>1. CASE offset <= own
    <3>1. date <= DateOf(DayEnd(tz, t))
      BY <1>1, <1>2, <2>1, StoredDate, DayEndsNearDate
    <3> QED BY <1>1, <3>1 DEF TellsOf, CountedToday, CountedOverdue
  <2>2. CASE offset <= 0 /\ ~EndsEarly(tz, t)
    <3>1. due <= DayEnd(tz, t) /\ DayEnd(tz, t) \in Int
      BY <1>2, <2>2, DueByDayEnd, DayEndsNearDate
    <3>2. DateOf(due) <= DateOf(DayEnd(tz, t))
      BY <3>1, DivMonotonic DEF DateOf
    <3>3. date <= DateOf(due)
      BY <2>2, StoredDate
    <3>4. date <= DateOf(DayEnd(tz, t))
      BY <1>1, <3>2, <3>3
    <3> QED BY <1>1, <3>4 DEF TellsOf, CountedToday, CountedOverdue
  <2> QED BY <1>2, <2>1, <2>2
<1>3. ASSUME CountedOverdue(tz, t, Stored(due, offset)),
             offset >= own \/ (offset >= 0 /\ ~GoesForward(tz, t))
      PROVE  LocalDay(tz, due) <= day
  <2>1. date <= DateOf(DayStart(tz, t))
    BY <1>3 DEF CountedOverdue
  <2>2. CASE offset >= own
    BY <1>1, <2>1, <2>2, StoredDate, DayEndsNearDate
  <2>3. CASE offset >= 0 /\ ~GoesForward(tz, t)
    <3>1. DateOf(due) <= date
      BY <2>3, StoredDate
    <3>2. DateOf(due) <= DateOf(DayStart(tz, t))
      BY <1>1, <2>1, <3>1
    <3> QED BY <2>3, <3>2, DueByStartDate
  <2> QED BY <1>3, <2>2, <2>3
<1> QED BY <1>2, <1>3 DEF CountsRight

\* A digest goes to a user whose row the tick holds.
LEMMA SentWhilePending ==
  ASSUME TypeOK, [Next]_vars, NEW u \in Users, got'[u] # got[u]
  PROVE  u \in Pending
<1>1. \E v \in Users : PushAcknowledged(v) \/ PushUnanswered(v)
  BY DEF Next, vars, history, UpdatePrefs, PaSetNotifyPrefs, ReadSettings, WriteSettings,
         AbortPatch, Disable, Select, Skip, PushFails, Commit, Abandon, NextHour, HourDown
<1>2. PICK v \in Users : PushAcknowledged(v) \/ PushUnanswered(v)
  BY <1>1
<1>3. got' = [got EXCEPT ![v] = @ \cup {tick.at}] /\ v \in Pending
  BY <1>2 DEF PushAcknowledged, PushUnanswered, Pushed
<1>4. u = v
  BY <1>3 DEF TypeOK
<1> QED BY <1>3, <1>4

-----------------------------------------------------------------------------
(* Theorems.                                                               *)

LEMMA InitIInv == Init => IInv
<1> SUFFICES ASSUME Init PROVE IInv
  OBVIOUS
<1>1. \A u \in Users : /\ row[u].tz \in Zones /\ row[u].prefs = Defaults
                       /\ row[u].disabled = FALSE /\ row[u].last = None
  BY DEF Init
<1>2. Defaults \in Prefs
  BY DEF Defaults, Prefs
<1>3. row \in [Users -> Row]
  BY <1>2 DEF Init, Row
<1>4. /\ tick \in Tick /\ tick.pc = "idle" /\ tick.at = 0 /\ tick.marks = {}
      /\ \A u \in Users : tick.seen[u] = None
  <2>1. 0 \in Hours
    BY DEF Hours
  <2> QED BY <2>1 DEF Init, Resting, Tick
<1>5. TypeOK
  <2>1. \A u \in Users : asked[u] \in Settings
    BY <1>1 DEF Init, Settings
  <2>2. asked \in [Users -> Settings]
    BY <2>1 DEF Init
  <2>3. /\ req \in [Workers -> Request \cup {None}]
        /\ got \in [Users -> SUBSET Hours] /\ repeated \in [Users -> Nat]
        /\ touched \in [Users -> Hours \cup {-1}]
    BY DEF Init
  <2>4. now \in Hours /\ patches \in 0 .. MaxPatches /\ faults \in 0 .. MaxFaults
    BY DEF Init, Hours
  <2>5. ticked \in BOOLEAN /\ refused \subseteq Users /\ overlaps \subseteq Users
    BY DEF Init
  <2> QED BY <1>3, <1>4, <2>2, <2>3, <2>4, <2>5 DEF TypeOK, Tick
<1>6. Ticks
  BY <1>1, <1>4 DEF Init, Ticks
<1>7. Repeats
  BY DEF Init, Repeats, Behind
<1>8. Patches
  BY DEF Init, Patches
<1>9. PatchesKept
  <2> SUFFICES ASSUME NEW u \in Users
               PROVE  /\ row[u].tz = asked[u].tz
                      /\ \A k \in DOMAIN Defaults : row[u].prefs[k] = asked[u][k]
    BY DEF PatchesKept
  <2>1. asked[u] = [tz |-> row[u].tz, digest_enabled |-> TRUE, digest_hour |-> DefaultHour]
    BY DEF Init
  <2>2. row[u].tz = asked[u].tz /\ row[u].prefs = Defaults
    BY <1>1, <2>1
  <2>3. /\ Defaults["digest_enabled"] = asked[u]["digest_enabled"]
        /\ Defaults["digest_hour"] = asked[u]["digest_hour"]
    BY <2>1 DEF Defaults
  <2>4. DOMAIN Defaults = {"digest_enabled", "digest_hour"}
    BY DEF Defaults
  <2> QED BY <2>2, <2>3, <2>4
<1>10. Served
  BY DEF Init, Served, Duty, Hours
<1> QED BY <1>5, <1>6, <1>7, <1>8, <1>9, <1>10 DEF IInv

LEMMA StepOK == ASSUME IInv, [Next]_vars PROVE IInv'
<1>1. CASE \E w \in Workers :
             \/ \E u \in Changing, patch \in Wanted :
                  UpdatePrefs(w, u, patch) \/ PaSetNotifyPrefs(w, u, patch)
             \/ WriteSettings(w) \/ AbortPatch(w)
  BY <1>1, ReadSettingsOK, WriteSettingsOK, AbortPatchOK DEF UpdatePrefs, PaSetNotifyPrefs
<1>2. CASE \E u \in Changing : Disable(u)
  BY <1>2, DisableOK
<1>3. CASE \E u \in Users :
             Skip(u) \/ PushAcknowledged(u) \/ PushFails(u) \/ PushUnanswered(u)
  BY <1>3, SkipOK, PushAcknowledgedOK, PushFailsOK, PushUnansweredOK
<1>4. CASE Select \/ Commit \/ Abandon \/ NextHour \/ HourDown
  BY <1>4, SelectOK, CommitOK, AbandonOK, NextHourOK, HourDownOK
<1>5. CASE UNCHANGED vars
  BY <1>5, StutterOK
<1> QED BY <1>1, <1>2, <1>3, <1>4, <1>5 DEF Next

\* The inductive invariant holds in every reachable state.
THEOREM Inductive == Spec => []IInv
<1>1. IInv /\ [Next]_vars => IInv'
  BY StepOK
<1> QED BY InitIInv, <1>1, PTL DEF Spec

\* Rows, patches and the tick keep their types; tz never enters notify_prefs.
THEOREM TypeCorrect == Spec => []TypeOK
<1>1. IInv => TypeOK
  BY DEF IInv
<1> QED BY <1>1, Inductive, PTL

\* Each fault repeats at most one digest of a local day, whatever the user does
\* to tz and digest_hour (scheduler.py:137-147).
THEOREM RepeatsHaveCause == Spec => []RepeatsNeedFault
<1>1. IInv => RepeatsNeedFault
  BY DEF IInv, Repeats, RepeatsNeedFault
<1> QED BY <1>1, Inductive, PTL

\* The settings are those of the committed patches, but for preferences of
\* patches that overlapped (users.py:226-238).
THEOREM PatchesAreKept == Spec => []PatchesKept
<1>1. IInv => PatchesKept
  BY DEF IInv
<1> QED BY <1>1, Inductive, PTL

\* Without faults no digest hour passes without the digest of the day
\* (scheduler.py:128-147).
THEOREM DigestsAreSent == Spec => []QuietDayHasDigest
<1>1. IInv => QuietDayHasDigest
  <2> SUFFICES ASSUME IInv, faults = 0, NEW u \in Users, NEW t \in Hours,
                      QuietHour(u, t), u \notin refused
               PROVE  HasDigest(u, t)
    BY DEF QuietDayHasDigest, HasDigest
  <2>1. Duty(u, t)
    BY DEF IInv, Served
  <2>2. DigestHour(u, t) /\ t < now /\ ~Awaited(u, t)
    BY DEF QuietHour, DigestHour, Awaited
  <2> QED BY <2>1, <2>2 DEF Duty
<1> QED BY <1>1, Inductive, PTL

\* For every zone and offset: the two counts of a digest leave out nothing that is
\* due on the day, unless it was given further to the east than UTC and than the
\* user's clock, and call nothing overdue that is due later, unless it was given
\* further to the west than both (models.py:45, scheduler.py:149-161).
THEOREM CountsAreComplete == Spec => TodayIsCounted
<1>1. ASSUME TypeOK, [Next]_vars, NEW u \in Users, got'[u] # got[u],
             NEW due \in DueHours, NEW offset \in Offsets
      PROVE  CountsRight(tick.seen[u].tz, tick.at, due, offset)
  <2>1. tick.seen[u].tz \in Zones /\ tick.at \in Int
    BY <1>1, SentWhilePending, TickTyped DEF Pending
  <2>2. due \in Int
    BY DEF DueHours
  <2>3. offset \in Int
    OBVIOUS
  <2> QED BY <2>1, <2>2, <2>3, CountsFacts
<1>2. TypeOK /\ [Next]_vars =>
        [\A u \in Users :
           got'[u] # got[u] =>
             \A due \in DueHours, offset \in Offsets :
               CountsRight(tick.seen[u].tz, tick.at, due, offset)]_vars
  BY <1>1
<1> QED BY TypeCorrect, <1>2, PTL DEF Spec, TodayIsCounted
=============================================================================
