--------------------------- MODULE RemindersProofs ---------------------------
(***************************************************************************)
(* Proofs about Reminders for any users and reminders, any LIMIT, number   *)
(* of rows and topics, length of day and number of faults.  IInv says      *)
(* which row belongs to which reminder (Single), what the rows that a tick *)
(* fetched have become (Fetch), what a tick holds at each place (Phases,   *)
(* Marked), and how many pushes each reminder has had that may still get   *)
(* one without a fault (Budget).                                           *)
(***************************************************************************)
EXTENDS Reminders, FiniteSetTheorems, WellFoundedInduction, TLAPS

\* Every row is that of a reminder that was added, and of one only.
Single ==
  /\ \A i \in Rows : fate[row[i].is] # "new"
  /\ \A i, j \in Rows : row[i].is = row[j].is => i = j

\* What the tick fetched: reminders that were added, each once.  If one still
\* has a row, it is the row it was fetched from; another reminder that has come
\* to that row since is displaced.
Fetch ==
  \A n \in DOMAIN tick.batch :
    /\ fate[tick.batch[n].is] # "new"
    /\ \A m \in DOMAIN tick.batch : tick.batch[m].is = tick.batch[n].is => m = n
    /\ \A i \in Rows : row[i].is = tick.batch[n].is => i = tick.batch[n].id
    /\ \A i \in Rows : i = tick.batch[n].id =>
         row[i].is = tick.batch[n].is \/ fate[row[i].is] = "displaced"

\* Nothing outlives a tick; a mark follows a push, and the first one locks.
Phases ==
  /\ tick.pc = "idle" => tick = Resting
  /\ tick.pc = "mark" => tick.batch # <<>> /\ pushes[Current.is] > 0
  /\ ~tick.locked => tick.marks = {}

\* What the tick has marked was pushed, or displaced.
Marked ==
  \A i \in tick.marks : i \in Rows /\ (pushes[row[i].is] > 0 \/ fate[row[i].is] = "displaced")

\* The reminder that the tick has pushed and is about to mark is no longer to do.
Todo == {n \in DOMAIN tick.batch : tick.pc = "mark" => n > 1}
Unmarked == {i \in Pending \ tick.marks : tick.pc = "mark" => i # Current.id}

\* What may still be pushed without a fault has no push but those of faults.
Budget ==
  /\ \A r \in Reminders : fate[r] = "new" => pushes[r] = 0
  /\ \A n \in Todo : pushes[tick.batch[n].is] <= faults
  /\ \A i \in Unmarked : pushes[row[i].is] <= faults

IInv ==
  /\ TypeOK
  /\ Single
  /\ Fetch
  /\ Phases
  /\ Marked
  /\ Budget
  /\ DuplicatesNeedFailure
  /\ LostOnlyIfDisplaced
  /\ StaleForOneTick

-----------------------------------------------------------------------------
USE RemindersAssumption, RemindersNoneAssumption

(* Ids, and the steps of a tick.                                           *)

LEMMA Greatest ==
  ASSUME NEW n \in Nat, NEW S \in SUBSET (1 .. n), S # {}
  PROVE  \E i \in S : \A j \in S : j <= i
<1> DEFINE less == OpToRel(<, Nat)
           T == {n - i : i \in S}
<1>1. IsWellFoundedOn(less, Nat)
  BY NatLessThanWellFounded
<1>2. T \subseteq Nat /\ T # {}
  <2>1. \A i \in 1 .. n : n - i \in Nat
    OBVIOUS
  <2> QED BY <2>1
<1>3. PICK m \in T : \A k \in T : <<k, m>> \notin less
  <2> HIDE DEF T, less
  <2> QED BY <1>1, <1>2, WFMin
<1>4. \A k \in T : ~(k < m)
  <2> SUFFICES ASSUME NEW k \in T PROVE ~(k < m)
    OBVIOUS
  <2>1. <<k, m>> \in Nat \X Nat /\ <<k, m>>[1] = k /\ <<k, m>>[2] = m
    BY <1>2, <1>3
  <2>2. <<k, m>> \notin {ss \in Nat \X Nat : ss[1] < ss[2]}
    BY <1>3 DEF OpToRel
  <2> HIDE DEF T, less
  <2> QED BY <2>1, <2>2
<1>5. PICK i \in S : m = n - i
  BY <1>3
<1>6. \A j \in S : ~(n - j < n - i)
  BY <1>4, <1>5
<1>7. \A j \in S : j <= i
  BY <1>6
<1> QED BY <1>7

\* The id of a new reminder is the id of none.
LEMMA NextIdFree == NextId \notin Rows
<1>1. CASE Rows = {}
  BY <1>1
<1>2. CASE Rows # {}
  <2>1. Rows \in SUBSET (1 .. MaxId)
    BY DEF Rows, Ids
  <2>2. \E i \in Rows : \A j \in Rows : j <= i
    BY <1>2, <2>1, Greatest
  <2> DEFINE i == CHOOSE i \in Rows : \A j \in Rows : j <= i
  <2>3. i \in Rows /\ \A j \in Rows : j <= i
    BY <2>2
  <2>4. NextId = 1 + i
    BY <1>2 DEF NextId
  <2> HIDE DEF i
  <2>5. i \in Nat
    BY <2>1, <2>3
  <2> QED BY <2>3, <2>4, <2>5
<1> QED BY <1>1, <1>2

\* The row that a tick has come to, and the rows after it.
LEMMA TailFacts ==
  ASSUME TypeOK, tick.batch # <<>>
  PROVE  /\ tick.batch \in Seq(Entry)
         /\ 1 \in DOMAIN tick.batch
         /\ Current = tick.batch[1]
         /\ Current \in Entry
         /\ Tail(tick.batch) \in Seq(Entry)
         /\ \A n \in DOMAIN Tail(tick.batch) :
              /\ n + 1 \in DOMAIN tick.batch /\ n \in Nat \ {0}
              /\ Tail(tick.batch)[n] = tick.batch[n + 1]
<1> DEFINE b == tick.batch
<1>1. b \in Seq(Entry)
  BY DEF TypeOK
<1> HIDE DEF b
<1>2. b # <<>> => /\ 1 \in DOMAIN b /\ Head(b) = b[1] /\ b[1] \in Entry /\ Tail(b) \in Seq(Entry)
                  /\ \A n \in DOMAIN Tail(b) :
                       n + 1 \in DOMAIN b /\ n \in Nat \ {0} /\ Tail(b)[n] = b[n + 1]
  BY <1>1
<1> QED BY <1>1, <1>2 DEF b, Current

\* What the query finds: rows that are pending, each once.
LEMMA BatchFacts ==
  ASSUME TypeOK, NEW b \in Batches(Selectable)
  PROVE  /\ Fetched(b) \in Seq(Entry)
         /\ DOMAIN Fetched(b) = DOMAIN b
         /\ \A n \in DOMAIN b :
              /\ b[n] \in Pending
              /\ Fetched(b)[n].id = b[n] /\ Fetched(b)[n].is = row[b[n]].is
              /\ \A m \in DOMAIN b : b[m] = b[n] => m = n
<1>1. Cardinality(Selectable) \in Nat
  <2>1. Selectable \in SUBSET (1 .. MaxId)
    BY DEF Selectable, Pending, Rows, Ids
  <2>2. IsFiniteSet(1 .. MaxId)
    BY FS_Interval
  <2>3. IsFiniteSet(Selectable)
    BY <2>1, <2>2, FS_Subset
  <2> QED BY <2>3, FS_CardinalityType
<1>2. PICK n \in Nat : b \in [1 .. n -> Selectable]
  BY <1>1 DEF Batches
<1>3. \A m, k \in DOMAIN b : m < k => b[m] # b[k]
  BY DEF Batches
<1>4. \A i \in Selectable : i \in Pending /\ i \in Ids /\ row[i] \in Row
  BY DEF TypeOK, Selectable, Pending, Rows
<1>5. \A k \in DOMAIN b : Fetched(b)[k] \in Entry
  BY <1>2, <1>4 DEF Fetched, Row, Entry
<1>6. Fetched(b) \in Seq(Entry)
  <2>1. DOMAIN b = 1 .. n /\ Fetched(b) = [k \in 1 .. n |-> Fetched(b)[k]]
    BY <1>2 DEF Fetched
  <2> QED BY <1>5, <2>1
<1>7. \A m, k \in DOMAIN b : b[m] = b[k] => m = k
  <2> SUFFICES ASSUME NEW m \in 1 .. n, NEW k \in 1 .. n, m # k PROVE b[m] # b[k]
    BY <1>2
  <2>1. m < k \/ k < m
    OBVIOUS
  <2> QED BY <1>2, <1>3, <2>1
<1>8. \A k \in DOMAIN b : b[k] \in Pending
  BY <1>2, <1>4
<1> QED BY <1>6, <1>7, <1>8 DEF Fetched

\* The fields of a row.
LEMMA RowTyped ==
  ASSUME TypeOK, NEW i \in Rows
  PROVE  /\ i \in Ids /\ row[i] \in Row /\ row[i].is \in Reminders /\ row[i].owner \in Users
         /\ row[i].fired \in BOOLEAN
  BY DEF TypeOK, Rows, Row

\* What the tick holds.
LEMMA EntryTyped ==
  ASSUME TypeOK
  PROVE  \A n \in DOMAIN tick.batch :
           /\ tick.batch[n] \in Entry
           /\ tick.batch[n].id \in Ids /\ tick.batch[n].is \in Reminders
           /\ tick.batch[n].owner \in Users
<1>1. tick.batch \in Seq(Entry)
  BY DEF TypeOK
<1>2. \A n \in DOMAIN tick.batch : tick.batch[n] \in Entry
  BY <1>1
<1> QED BY <1>2 DEF Entry

-----------------------------------------------------------------------------
(* Requests.                                                               *)

LEMMA AddReminderOK ==
  ASSUME IInv, NEW r \in Reminders, NEW u \in Users, NEW wall \in Hours, NEW offset \in Offsets,
         AddReminder(r, u, wall, offset)
  PROVE  IInv'
<1> DEFINE new == [is |-> r, owner |-> u, wall |-> wall, offset |-> offset, fired |-> FALSE]
<1>1. /\ NextId \in Ids /\ NextId \notin Rows /\ row[NextId] = None
      /\ new \in Row /\ new # None /\ new.is = r /\ new.fired = FALSE
  <2>1. NextId \in Ids /\ NextId \notin Rows /\ row[NextId] = None
    BY NextIdFree DEF AddReminder, Rows
  <2>2. new \in Row /\ new.is = r /\ new.fired = FALSE
    BY DEF Row
  <2>3. new # None
    BY <2>2
  <2> QED BY <2>1, <2>2, <2>3
<1>2. /\ row' \in [Ids -> Row \cup {None}]
      /\ row'[NextId] = new
      /\ \A i \in Ids \ {NextId} : row'[i] = row[i]
  BY <1>1 DEF IInv, TypeOK, AddReminder
<1>3. /\ fate[r] = "new"
      /\ fate'[r] \in {"added", "displaced"}
      /\ NextId \in Held => fate'[r] = "displaced"
      /\ \A q \in Reminders \ {r} : fate'[q] = fate[q]
  BY DEF IInv, TypeOK, AddReminder
<1> HIDE DEF new
<1>4. Rows' = Rows \cup {NextId}
  BY <1>1, <1>2 DEF Rows
<1>5. \A i \in Rows : row'[i] = row[i] /\ row[i].is # r /\ row[i].is \in Reminders
  BY <1>1, <1>2, <1>3, RowTyped DEF IInv, Single
<1>6. UNCHANGED <<now, settings, tick, pushes, faults, changed>>
  BY DEF AddReminder
<1>7. /\ tick.locked = FALSE /\ tick.marks = {}
      /\ \A n \in DOMAIN tick.batch : tick.batch[n].is \in Reminders /\ tick.batch[n].is # r
  <2>1. tick.locked = FALSE /\ tick.marks = {}
    BY DEF AddReminder, IInv, TypeOK, Phases
  <2>2. \A n \in DOMAIN tick.batch : tick.batch[n] \in Entry
    BY EntryTyped DEF IInv
  <2> QED BY <1>3, <2>1, <2>2 DEF IInv, Fetch, Entry
<1>8. TypeOK'
  BY <1>2, <1>6 DEF IInv, TypeOK, AddReminder
<1>9. Single'
  BY <1>1, <1>2, <1>3, <1>4, <1>5 DEF IInv, Single
<1>10. Fetch'
  <2> SUFFICES ASSUME NEW n \in DOMAIN tick.batch
               PROVE  /\ fate'[tick.batch[n].is] # "new"
                      /\ \A m \in DOMAIN tick.batch : tick.batch[m].is = tick.batch[n].is => m = n
                      /\ \A i \in Rows' : row'[i].is = tick.batch[n].is => i = tick.batch[n].id
                      /\ \A i \in Rows' : i = tick.batch[n].id =>
                           row'[i].is = tick.batch[n].is \/ fate'[row'[i].is] = "displaced"
    BY <1>6 DEF Fetch
  <2>1. tick.batch[n].id \in Held
    BY DEF Held
  <2> QED BY <1>1, <1>2, <1>3, <1>4, <1>5, <1>7, <2>1 DEF IInv, Fetch
<1>11. Phases' /\ Marked'
  BY <1>6, <1>7 DEF IInv, Phases, Marked, Current, Resting
<1>12. Budget'
  <2>1. \A q \in Reminders : fate'[q] = "new" => pushes[q] = 0
    BY <1>3 DEF IInv, Budget
  <2>2. \A n \in Todo : pushes[tick.batch[n].is] <= faults
    BY DEF IInv, Budget
  <2>3. pushes[r] <= faults
    BY <1>3 DEF IInv, Budget, TypeOK
  <2>4. \A i \in Unmarked' : i = NextId \/ i \in Unmarked
    BY <1>4, <1>5, <1>6 DEF Unmarked, Pending, Current
  <2>5. \A i \in Unmarked' : pushes[row'[i].is] <= faults
    BY <1>1, <1>2, <1>5, <2>3, <2>4 DEF IInv, Budget, Unmarked, Pending
  <2> QED BY <1>6, <2>1, <2>2, <2>5 DEF Budget, Todo
<1>13. DuplicatesNeedFailure' /\ StaleForOneTick'
  BY <1>6 DEF IInv, DuplicatesNeedFailure, StaleForOneTick
<1>14. LostOnlyIfDisplaced'
  BY <1>1, <1>2, <1>3, <1>4, <1>5, <1>6 DEF IInv, LostOnlyIfDisplaced
<1> QED BY <1>8, <1>9, <1>10, <1>11, <1>12, <1>13, <1>14 DEF IInv

LEMMA DeleteItemOK == ASSUME IInv, NEW S \in SUBSET Ids, DeleteItem(S) PROVE IInv'
<1>1. /\ row' \in [Ids -> Row \cup {None}]
      /\ \A i \in Ids : row'[i] = IF i \in S THEN None ELSE row[i]
      /\ UNCHANGED <<now, settings, tick, pushes, faults, fate, changed>>
      /\ tick.marks = {}
  BY DEF IInv, TypeOK, Phases, DeleteItem
<1>2. \A i \in Rows' : i \in Rows /\ row'[i] = row[i]
  BY <1>1 DEF Rows
<1>3. TypeOK'
  BY <1>1 DEF IInv, TypeOK
<1>4. Single' /\ LostOnlyIfDisplaced'
  BY <1>1, <1>2 DEF IInv, Single, LostOnlyIfDisplaced
<1>5. Fetch'
  BY <1>1, <1>2 DEF IInv, Fetch
<1>6. Phases' /\ Marked'
  BY <1>1 DEF IInv, Phases, Marked, Current, Resting
<1>7. Budget'
  <2>1. \A i \in Unmarked' : i \in Unmarked /\ row'[i] = row[i]
    BY <1>1, <1>2 DEF Unmarked, Pending, Current
  <2> QED BY <1>1, <2>1 DEF IInv, Budget, Todo
<1>8. DuplicatesNeedFailure' /\ StaleForOneTick'
  BY <1>1 DEF IInv, DuplicatesNeedFailure, StaleForOneTick
<1> QED BY <1>3, <1>4, <1>5, <1>6, <1>7, <1>8 DEF IInv

\* Steps that leave the rows, the tick, and what is counted alone.
LEMMA RestKept ==
  ASSUME IInv, UNCHANGED <<row, tick, pushes, faults, fate>>, TypeOK', StaleForOneTick'
  PROVE  IInv'
<1>1. Rows' = Rows /\ Pending' = Pending /\ Current' = Current /\ Todo' = Todo
  BY DEF Rows, Pending, Current, Todo
<1>2. Single' /\ Fetch' /\ LostOnlyIfDisplaced'
  BY <1>1 DEF IInv, Single, Fetch, LostOnlyIfDisplaced
<1>3. Phases' /\ Marked' /\ DuplicatesNeedFailure'
  BY <1>1 DEF IInv, Phases, Marked, DuplicatesNeedFailure, Resting
<1>4. Budget'
  BY <1>1 DEF IInv, Budget, Unmarked
<1> QED BY <1>2, <1>3, <1>4 DEF IInv

\* While no tick runs nothing is known of a user.
LEMMA KnownFacts ==
  ASSUME IInv
  PROVE  tick.pc = "idle" => \A u \in Users : tick.known[u] = None
  BY DEF IInv, Phases, Resting

LEMMA SetRealtimeOK ==
  ASSUME IInv, NEW u \in Users, NEW on \in BOOLEAN, SetRealtime(u, on) PROVE IInv'
<1>1. UNCHANGED <<now, row, tick, pushes, faults, fate>>
  BY DEF SetRealtime
<1>2. /\ settings' \in [Users -> Settings]
      /\ \A v \in Users \ {u} : settings'[v] = settings[v]
      /\ changed' \subseteq Users /\ changed \subseteq changed'
      /\ tick.pc = "idle" \/ u \in changed'
  BY DEF IInv, TypeOK, SetRealtime, Settings
<1>3. TypeOK'
  BY <1>1, <1>2 DEF IInv, TypeOK
<1>4. StaleForOneTick'
  BY <1>1, <1>2, KnownFacts DEF IInv, StaleForOneTick
<1> QED BY <1>1, <1>3, <1>4, RestKept

LEMMA RotateTopicOK == ASSUME IInv, NEW u \in Users, RotateTopic(u) PROVE IInv'
<1>1. UNCHANGED <<now, row, tick, pushes, faults, fate>>
  BY DEF RotateTopic
<1>2. /\ settings' \in [Users -> Settings]
      /\ \A v \in Users \ {u} : settings'[v] = settings[v]
      /\ changed' \subseteq Users /\ changed \subseteq changed'
      /\ tick.pc = "idle" \/ u \in changed'
  <2>1. settings[u] \in Settings /\ settings[u].topic + 1 \in 0 .. MaxTopic
    BY DEF IInv, TypeOK, RotateTopic, Settings
  <2>2. [settings[u] EXCEPT !.topic = @ + 1] \in Settings
    BY <2>1 DEF Settings
  <2>3. settings' = [settings EXCEPT ![u] = [settings[u] EXCEPT !.topic = @ + 1]]
    BY DEF RotateTopic
  <2> QED BY <2>2, <2>3 DEF IInv, TypeOK, RotateTopic
<1>3. TypeOK'
  BY <1>1, <1>2 DEF IInv, TypeOK
<1>4. StaleForOneTick'
  BY <1>1, <1>2, KnownFacts DEF IInv, StaleForOneTick
<1> QED BY <1>1, <1>3, <1>4, RestKept

LEMMA NextHourOK == ASSUME IInv, NextHour PROVE IInv'
<1>1. TypeOK'
  BY DEF IInv, TypeOK, NextHour, Hours
<1>2. StaleForOneTick'
  BY DEF IInv, StaleForOneTick, NextHour
<1> QED BY <1>1, <1>2, RestKept DEF NextHour

-----------------------------------------------------------------------------
(* The dispatcher.                                                         *)

LEMMA SelectOK == ASSUME IInv, Select PROVE IInv'
<1>1. PICK b \in Batches(Selectable) :
        tick' = [tick EXCEPT !.pc = "row", !.batch = Fetched(b)]
  BY DEF Select
<1> DEFINE f == Fetched(b)
<1>2. /\ f \in Seq(Entry)
      /\ DOMAIN f = DOMAIN b
      /\ \A n \in DOMAIN b :
           /\ b[n] \in Pending
           /\ f[n].id = b[n] /\ f[n].is = row[b[n]].is
           /\ \A m \in DOMAIN b : b[m] = b[n] => m = n
  BY BatchFacts DEF IInv
<1> HIDE DEF f
<1>3. /\ tick = Resting
      /\ tick'.pc = "row" /\ tick'.batch = f /\ tick'.known = tick.known
      /\ tick'.marks = {} /\ tick'.locked = FALSE
  <2>1. tick = Resting
    BY DEF IInv, Phases, Select
  <2>2. tick.marks = {} /\ tick.locked = FALSE
    BY <2>1 DEF Resting
  <2>3. /\ tick' = [tick EXCEPT !.pc = "row", !.batch = f]
        /\ tick \in [pc : {"idle", "row", "mark"}, batch : Seq(Entry),
                     known : [Users -> Settings \cup {None}], marks : SUBSET Ids, locked : BOOLEAN]
    BY <1>1 DEF f, IInv, TypeOK
  <2> QED BY <2>1, <2>2, <2>3
<1>4. /\ UNCHANGED <<now, row, settings, pushes, faults, fate>>
      /\ changed' = {}
  BY DEF Select
<1>5. Rows' = Rows /\ Pending' = Pending
  BY <1>4 DEF Rows, Pending
<1>6. \A n \in DOMAIN b : b[n] \in Rows /\ b[n] \in Pending
  BY <1>2 DEF Pending
<1>7. TypeOK'
  BY <1>1, <1>2, <1>4 DEF IInv, TypeOK, f
<1>8. Single' /\ LostOnlyIfDisplaced' /\ DuplicatesNeedFailure'
  BY <1>4, <1>5 DEF IInv, Single, LostOnlyIfDisplaced, DuplicatesNeedFailure
<1>9. Fetch'
  <2> SUFFICES ASSUME NEW n \in DOMAIN f
               PROVE  /\ fate[f[n].is] # "new"
                      /\ \A m \in DOMAIN f : f[m].is = f[n].is => m = n
                      /\ \A i \in Rows : row[i].is = f[n].is => i = f[n].id
                      /\ \A i \in Rows : i = f[n].id => row[i].is = f[n].is
    BY <1>3, <1>4, <1>5 DEF Fetch
  <2> QED BY <1>2, <1>6 DEF IInv, Single
<1>10. Phases' /\ Marked'
  BY <1>3 DEF Phases, Marked
<1>11. Budget'
  <2>1. Todo' = DOMAIN f /\ Unmarked' = Pending
    BY <1>3, <1>5 DEF Todo, Unmarked
  <2>2. Unmarked = Pending
    BY <1>3 DEF Unmarked, Resting
  <2>3. \A i \in Pending : pushes[row[i].is] <= faults
    BY <2>2 DEF IInv, Budget
  <2>4. \A n \in DOMAIN f : pushes[f[n].is] <= faults
    BY <1>2, <1>6, <2>3
  <2>5. \A r \in Reminders : fate[r] = "new" => pushes[r] = 0
    BY DEF IInv, Budget
  <2> QED BY <1>3, <1>4, <2>1, <2>3, <2>4, <2>5 DEF Budget
<1>12. StaleForOneTick'
  BY <1>3, <1>4, KnownFacts DEF StaleForOneTick, Resting
<1> QED BY <1>7, <1>8, <1>9, <1>10, <1>11, <1>12 DEF IInv

LEMMA LoadSettingsOK == ASSUME IInv, LoadSettings PROVE IInv'
<1> DEFINE u == Current.owner
<1>1. u \in Users
  BY TailFacts DEF IInv, Entry, LoadSettings
<1> HIDE DEF u
<1>2. /\ tick.pc = "row" /\ tick'.pc = "row" /\ tick'.batch = tick.batch
      /\ tick'.known = [tick.known EXCEPT ![u] = settings[u]]
      /\ tick'.marks = tick.marks /\ tick'.locked = tick.locked
      /\ tick' = [tick EXCEPT !.known = [tick.known EXCEPT ![u] = settings[u]]]
  BY DEF LoadSettings, u, IInv, TypeOK
<1>3. UNCHANGED <<now, row, settings, pushes, faults, fate, changed>>
  BY DEF LoadSettings
<1>4. TypeOK'
  BY <1>1, <1>2, <1>3 DEF IInv, TypeOK
<1>5. Rows' = Rows /\ Pending' = Pending /\ Current' = Current /\ Todo' = Todo
  BY <1>2, <1>3 DEF Rows, Pending, Current, Todo
<1>6. Single' /\ LostOnlyIfDisplaced' /\ DuplicatesNeedFailure'
  BY <1>3, <1>5 DEF IInv, Single, LostOnlyIfDisplaced, DuplicatesNeedFailure
<1>7. Fetch' /\ Marked'
  BY <1>2, <1>3, <1>5 DEF IInv, Fetch, Marked
<1>8. Phases'
  BY <1>2, <1>3 DEF IInv, Phases
<1>9. Budget'
  BY <1>2, <1>3, <1>5 DEF IInv, Budget, Unmarked
<1>10. StaleForOneTick'
  BY <1>1, <1>2, <1>3 DEF IInv, TypeOK, StaleForOneTick
<1> QED BY <1>4, <1>6, <1>7, <1>8, <1>9, <1>10 DEF IInv

\* What holds of all the rows that were fetched holds of the rest of them.
LEMMA FetchTail ==
  ASSUME TypeOK, Fetch, tick.batch # <<>>, tick'.batch = Tail(tick.batch),
         row' = row, fate' = fate
  PROVE  Fetch'
<1> DEFINE b == tick.batch
           t == Tail(tick.batch)
<1>1. \A n \in DOMAIN t : n + 1 \in DOMAIN b /\ n \in Nat \ {0} /\ t[n] = b[n + 1]
  BY TailFacts
<1>2. \A n \in DOMAIN b :
        /\ fate[b[n].is] # "new"
        /\ \A m \in DOMAIN b : b[m].is = b[n].is => m = n
        /\ \A i \in Rows : row[i].is = b[n].is => i = b[n].id
        /\ \A i \in Rows : i = b[n].id => row[i].is = b[n].is \/ fate[row[i].is] = "displaced"
  BY DEF Fetch
<1>3. tick'.batch = t /\ Rows' = Rows
  BY DEF Rows
<1> HIDE DEF b, t
<1> SUFFICES ASSUME NEW n \in DOMAIN t
             PROVE  /\ fate[t[n].is] # "new"
                    /\ \A m \in DOMAIN t : t[m].is = t[n].is => m = n
                    /\ \A i \in Rows : row[i].is = t[n].is => i = t[n].id
                    /\ \A i \in Rows : i = t[n].id =>
                         row[i].is = t[n].is \/ fate[row[i].is] = "displaced"
  BY <1>3 DEF Fetch
<1>4. PICK k \in DOMAIN b : k = n + 1 /\ n \in Nat /\ t[n] = b[k]
  BY <1>1
<1>5. ASSUME NEW m \in DOMAIN t, t[m].is = t[n].is PROVE m = n
  <2>1. PICK l \in DOMAIN b : l = m + 1 /\ m \in Nat /\ t[m] = b[l]
    BY <1>1
  <2>2. l = k
    BY <1>2, <1>4, <1>5, <2>1
  <2> QED BY <1>4, <2>1, <2>2
<1>6. fate[t[n].is] # "new"
  BY <1>2, <1>4
<1>7. \A i \in Rows : row[i].is = t[n].is => i = t[n].id
  BY <1>2, <1>4
<1>8. \A i \in Rows : i = t[n].id => row[i].is = t[n].is \/ fate[row[i].is] = "displaced"
  BY <1>2, <1>4
<1> QED BY <1>5, <1>6, <1>7, <1>8

\* On to the next row, with the reminder pushed or not: if it was pushed, then
\* by a fault.
LEMMA NextRow ==
  ASSUME IInv, tick.pc = "row", tick.batch # <<>>,
         tick' = [tick EXCEPT !.batch = Tail(@)],
         pushes' \in [Reminders -> Nat], faults' \in 0 .. MaxFaults,
         \A r \in Reminders :
           pushes[r] <= pushes'[r] /\ (r # Current.is => pushes'[r] = pushes[r]),
         faults <= faults',
         pushes'[Current.is] - pushes[Current.is] <= faults' - faults,
         UNCHANGED <<now, row, settings, fate, changed>>
  PROVE  IInv'
<1> DEFINE b == tick.batch
           t == Tail(tick.batch)
<1>1. /\ b \in Seq(Entry) /\ 1 \in DOMAIN b /\ Current = b[1] /\ t \in Seq(Entry)
      /\ \A n \in DOMAIN t : n + 1 \in DOMAIN b /\ n \in Nat \ {0} /\ t[n] = b[n + 1]
  BY TailFacts DEF IInv
<1>2. \A n \in DOMAIN b : b[n].id \in Ids /\ b[n].is \in Reminders
  BY EntryTyped DEF IInv
<1>3. /\ tick'.pc = "row" /\ tick'.batch = t /\ tick'.known = tick.known
      /\ tick'.marks = tick.marks /\ tick'.locked = tick.locked
  BY DEF IInv, TypeOK
<1>4. TypeOK'
  BY <1>1 DEF IInv, TypeOK
<1>5. Rows' = Rows /\ Pending' = Pending
  BY DEF Rows, Pending
<1>6. Single'
  BY <1>5 DEF IInv, Single
<1>7. Fetch'
  <2>1. tick'.batch = Tail(tick.batch) /\ tick.batch # <<>> /\ row' = row /\ fate' = fate
    BY <1>3
  <2> QED BY <2>1, FetchTail DEF IInv
<1> HIDE DEF b, t
<1>8. Phases'
  BY <1>3 DEF IInv, Phases
<1>9. \A r \in Reminders : pushes[r] \in Nat /\ pushes'[r] \in Nat
  BY DEF IInv, TypeOK
<1>10. faults \in Nat /\ faults' \in Nat
  BY DEF IInv, TypeOK
<1>11. Marked'
  <2> SUFFICES ASSUME NEW i \in tick.marks
               PROVE  i \in Rows /\ (pushes'[row[i].is] > 0 \/ fate[row[i].is] = "displaced")
    BY <1>3, <1>5 DEF Marked
  <2>1. i \in Rows /\ (pushes[row[i].is] > 0 \/ fate[row[i].is] = "displaced")
    BY DEF IInv, Marked
  <2> QED BY <1>9, <2>1, RowTyped DEF IInv
<1>12. \A r \in Reminders : pushes'[r] <= pushes[r] + (faults' - faults)
  <2> SUFFICES ASSUME NEW r \in Reminders PROVE pushes'[r] <= pushes[r] + (faults' - faults)
    OBVIOUS
  <2>1. CASE r = Current.is
    BY <1>9, <1>10, <2>1
  <2>2. CASE r # Current.is
    BY <1>9, <1>10, <2>2
  <2> QED BY <2>1, <2>2
<1>13. DuplicatesNeedFailure'
  <2> SUFFICES ASSUME NEW r \in Reminders PROVE pushes'[r] <= 1 + faults'
    BY DEF DuplicatesNeedFailure
  <2>1. pushes[r] <= 1 + faults
    BY DEF IInv, DuplicatesNeedFailure
  <2>2. pushes'[r] <= pushes[r] + (faults' - faults) /\ pushes[r] \in Nat /\ pushes'[r] \in Nat
    BY <1>9, <1>12
  <2> QED BY <1>10, <2>1, <2>2
<1>14. \A r \in Reminders : pushes[r] <= faults => pushes'[r] <= faults'
  <2> SUFFICES ASSUME NEW r \in Reminders, pushes[r] <= faults PROVE pushes'[r] <= faults'
    OBVIOUS
  <2>1. pushes'[r] <= pushes[r] + (faults' - faults) /\ pushes[r] \in Nat /\ pushes'[r] \in Nat
    BY <1>9, <1>12
  <2> QED BY <1>10, <2>1
<1>15. Budget'
  <2>1. \A r \in Reminders : fate[r] = "new" => pushes'[r] = 0
    <3>1. fate[Current.is] # "new"
      BY <1>1 DEF IInv, Fetch, b
    <3> QED BY <3>1 DEF IInv, Budget
  <2>2. \A n \in DOMAIN t : t[n].is \in Reminders /\ pushes[t[n].is] <= faults
    BY <1>1, <1>2 DEF IInv, Budget, Todo, b
  <2>3. \A n \in DOMAIN t : pushes'[t[n].is] <= faults'
    BY <1>14, <2>2
  <2>4. \A i \in Unmarked : i \in Rows /\ row[i].is \in Reminders /\ pushes[row[i].is] <= faults
    BY RowTyped DEF IInv, Budget, Unmarked, Pending
  <2>5. \A i \in Unmarked : pushes'[row[i].is] <= faults'
    BY <1>14, <2>4
  <2>6. Unmarked' = Unmarked /\ Todo' = DOMAIN t
    BY <1>3, <1>5 DEF Unmarked, Todo
  <2> QED BY <1>3, <2>1, <2>3, <2>5, <2>6 DEF Budget
<1>16. LostOnlyIfDisplaced'
  BY <1>5, <1>9, RowTyped DEF IInv, LostOnlyIfDisplaced
<1>17. StaleForOneTick'
  BY <1>3 DEF IInv, StaleForOneTick
<1> QED BY <1>4, <1>6, <1>7, <1>8, <1>11, <1>13, <1>15, <1>16, <1>17 DEF IInv

LEMMA CurrentTyped ==
  ASSUME IInv, tick.batch # <<>>
  PROVE  Current.is \in Reminders /\ pushes[Current.is] \in Nat /\ faults \in Nat
<1>1. Current \in Entry
  BY TailFacts DEF IInv
<1> QED BY <1>1 DEF Entry, IInv, TypeOK

LEMMA SkipOK == ASSUME IInv, Skip PROVE IInv'
<1>1. UNCHANGED <<now, row, settings, pushes, faults, fate, changed>>
  BY DEF Skip
<1>2. /\ tick.pc = "row" /\ tick.batch # <<>>
      /\ tick' = [tick EXCEPT !.batch = Tail(@)]
  BY DEF Skip
<1>3. \A r \in Reminders : pushes[r] \in Nat
  BY DEF IInv, TypeOK
<1>4. pushes' \in [Reminders -> Nat] /\ faults' \in 0 .. MaxFaults
  BY <1>1 DEF IInv, TypeOK
<1> QED BY <1>1, <1>2, <1>3, <1>4, CurrentTyped, NextRow

LEMMA PushFailsOK == ASSUME IInv, PushFails PROVE IInv'
<1>1. UNCHANGED <<now, row, settings, pushes, faults, fate, changed>>
  BY DEF PushFails
<1>2. /\ tick.pc = "row" /\ tick.batch # <<>>
      /\ tick' = [tick EXCEPT !.batch = Tail(@)]
  BY DEF PushFails, AtPush
<1>3. \A r \in Reminders : pushes[r] \in Nat
  BY DEF IInv, TypeOK
<1>4. pushes' \in [Reminders -> Nat] /\ faults' \in 0 .. MaxFaults
  BY <1>1 DEF IInv, TypeOK
<1> QED BY <1>1, <1>2, <1>3, <1>4, CurrentTyped, NextRow

LEMMA PushUnansweredOK == ASSUME IInv, PushUnanswered PROVE IInv'
<1>1. /\ tick.pc = "row" /\ tick.batch # <<>>
      /\ tick' = [tick EXCEPT !.batch = Tail(@)]
      /\ UNCHANGED <<now, row, settings, fate, changed>>
  BY DEF PushUnanswered, AtPush
<1>2. Current.is \in Reminders /\ pushes[Current.is] \in Nat /\ faults \in Nat
  BY <1>1, CurrentTyped
<1>3. \A r \in Reminders : pushes[r] \in Nat
  BY DEF IInv, TypeOK
<1>4. faults' = faults + 1 /\ faults' \in 0 .. MaxFaults
  BY <1>2 DEF PushUnanswered, IInv, TypeOK
<1>5. /\ pushes' \in [Reminders -> Nat]
      /\ pushes'[Current.is] = pushes[Current.is] + 1
      /\ \A r \in Reminders : r # Current.is => pushes'[r] = pushes[r]
  BY <1>2 DEF PushUnanswered, IInv, TypeOK
<1>6. \A r \in Reminders : pushes[r] <= pushes'[r]
  BY <1>2, <1>3, <1>5
<1>7. faults <= faults' /\ pushes'[Current.is] - pushes[Current.is] <= faults' - faults
  BY <1>2, <1>4, <1>5
<1> QED BY <1>1, <1>4, <1>5, <1>6, <1>7, NextRow

LEMMA PushAcknowledgedOK == ASSUME IInv, PushAcknowledged PROVE IInv'
<1> DEFINE b == tick.batch
<1>1. /\ tick.pc = "row" /\ b # <<>>
      /\ tick' = [tick EXCEPT !.pc = "mark"]
      /\ UNCHANGED <<now, row, settings, faults, fate, changed>>
  BY DEF PushAcknowledged, AtPush
<1>2. /\ tick'.pc = "mark" /\ tick'.batch = b /\ tick'.known = tick.known
      /\ tick'.marks = tick.marks /\ tick'.locked = tick.locked
  BY <1>1 DEF IInv, TypeOK
<1>3. 1 \in DOMAIN b /\ Current = b[1]
  BY <1>1, TailFacts DEF IInv
<1>4. \A n \in DOMAIN b : n \in Nat \ {0} /\ b[n].is \in Reminders
  <2>1. b \in Seq(Entry)
    BY DEF IInv, TypeOK
  <2>2. \A n \in DOMAIN b : n \in Nat \ {0}
    BY <2>1
  <2> QED BY <2>2, EntryTyped DEF IInv
<1>5. Current.is \in Reminders /\ pushes[Current.is] \in Nat /\ faults \in Nat
  BY <1>1, CurrentTyped
<1>6. /\ pushes' \in [Reminders -> Nat]
      /\ pushes'[Current.is] = pushes[Current.is] + 1
      /\ \A r \in Reminders : r # Current.is => pushes'[r] = pushes[r]
  BY <1>5 DEF IInv, TypeOK, PushAcknowledged
<1>7. \A r \in Reminders : pushes[r] \in Nat /\ pushes[r] <= pushes'[r]
  <2> SUFFICES ASSUME NEW r \in Reminders PROVE pushes[r] \in Nat /\ pushes[r] <= pushes'[r]
    OBVIOUS
  <2>1. pushes[r] \in Nat
    BY DEF IInv, TypeOK
  <2>2. pushes'[r] \in {pushes[r], pushes[r] + 1}
    BY <1>6
  <2> QED BY <2>1, <2>2
<1>8. Rows' = Rows /\ Pending' = Pending /\ Current' = Current
  BY <1>1, <1>2 DEF Rows, Pending, Current
<1>9. pushes[Current.is] <= faults
  BY <1>1, <1>3 DEF IInv, Budget, Todo
<1>10. fate[Current.is] # "new"
  BY <1>3 DEF IInv, Fetch
<1> HIDE DEF b
<1>11. TypeOK'
  BY <1>1, <1>6 DEF IInv, TypeOK
<1>12. Single'
  BY <1>1, <1>8 DEF IInv, Single
<1>13. Fetch'
  <2>1. tick'.batch = tick.batch
    BY <1>2 DEF b
  <2> QED BY <1>1, <1>8, <2>1 DEF IInv, Fetch
<1>14. Phases'
  <2>1. pushes'[Current'.is] > 0
    BY <1>5, <1>6, <1>8
  <2> QED BY <1>1, <1>2, <2>1 DEF IInv, Phases
<1>15. Marked'
  <2> SUFFICES ASSUME NEW i \in tick.marks
               PROVE  i \in Rows /\ (pushes'[row[i].is] > 0 \/ fate[row[i].is] = "displaced")
    BY <1>1, <1>2, <1>8 DEF Marked
  <2>1. i \in Rows /\ (pushes[row[i].is] > 0 \/ fate[row[i].is] = "displaced")
    BY DEF IInv, Marked
  <2>2. row[i].is \in Reminders
    BY <2>1, RowTyped DEF IInv
  <2>3. pushes'[row[i].is] \in Nat
    BY <1>6, <2>2
  <2> QED BY <1>7, <2>1, <2>2, <2>3
<1>16. Budget'
  <2>1. \A r \in Reminders : fate[r] = "new" => pushes'[r] = 0
    BY <1>6, <1>10 DEF IInv, Budget
  <2>2. ASSUME NEW n \in DOMAIN b, n > 1 PROVE pushes'[b[n].is] <= faults
    <3>1. b[n].is # b[1].is
      BY <1>3, <2>2 DEF IInv, Fetch, b
    <3>2. n \in Todo
      BY <1>1, <2>2 DEF Todo, b
    <3>3. pushes[b[n].is] <= faults
      BY <3>2 DEF IInv, Budget, b
    <3> QED BY <1>3, <1>4, <1>6, <3>1, <3>3
  <2>3. ASSUME NEW i \in Pending \ tick.marks, i # Current.id PROVE pushes'[row[i].is] <= faults
    <3>1. i \in Unmarked /\ i \in Rows
      BY <1>1 DEF Unmarked, Pending
    <3>2. pushes[row[i].is] <= faults
      BY <3>1 DEF IInv, Budget
    <3>3. row[i].is # Current.is
      BY <1>3, <2>3, <3>1 DEF IInv, Fetch, b
    <3>4. row[i].is \in Reminders
      BY <3>1, RowTyped DEF IInv
    <3> QED BY <1>6, <3>2, <3>3, <3>4
  <2>4. /\ Todo' = {n \in DOMAIN b : n > 1}
        /\ Unmarked' = {i \in Pending \ tick.marks : i # Current.id}
    BY <1>2, <1>8 DEF Todo, Unmarked
  <2> QED BY <1>1, <1>2, <2>1, <2>2, <2>3, <2>4 DEF Budget
<1>17. DuplicatesNeedFailure'
  <2> SUFFICES ASSUME NEW r \in Reminders PROVE pushes'[r] <= 1 + faults
    BY <1>1 DEF DuplicatesNeedFailure
  <2>1. CASE r = Current.is
    BY <1>5, <1>6, <1>9, <2>1
  <2>2. CASE r # Current.is
    BY <1>6, <2>2 DEF IInv, DuplicatesNeedFailure
  <2> QED BY <2>1, <2>2
<1>18. LostOnlyIfDisplaced'
  <2> SUFFICES ASSUME NEW i \in Rows, row[i].fired, pushes'[row[i].is] = 0
               PROVE  fate[row[i].is] = "displaced"
    BY <1>1, <1>8 DEF LostOnlyIfDisplaced
  <2>1. row[i].is \in Reminders
    BY RowTyped DEF IInv
  <2>2. pushes[row[i].is] = 0
    BY <1>7, <2>1
  <2> QED BY <2>2 DEF IInv, LostOnlyIfDisplaced
<1>19. StaleForOneTick'
  BY <1>1, <1>2 DEF IInv, StaleForOneTick
<1> QED BY <1>11, <1>12, <1>13, <1>14, <1>15, <1>16, <1>17, <1>18, <1>19 DEF IInv

LEMMA MarkOK == ASSUME IInv, Mark PROVE IInv'
<1> DEFINE b == tick.batch
           t == Tail(tick.batch)
           c == {Current.id} \cap Rows
<1>1. /\ tick.pc = "mark" /\ b # <<>> /\ pushes[Current.is] > 0
      /\ tick' = [tick EXCEPT !.pc = "row", !.batch = t, !.locked = TRUE, !.marks = @ \cup c]
      /\ UNCHANGED <<now, row, settings, pushes, faults, fate, changed>>
  BY DEF Mark, IInv, Phases
<1>2. /\ b \in Seq(Entry) /\ 1 \in DOMAIN b /\ Current = b[1] /\ t \in Seq(Entry)
      /\ \A n \in DOMAIN t : n + 1 \in DOMAIN b /\ n \in Nat \ {0} /\ t[n] = b[n + 1]
  BY <1>1, TailFacts DEF IInv
<1>3. c \subseteq Rows /\ c \subseteq Ids /\ \A i \in Rows \ c : i # Current.id
  BY DEF Rows
<1>4. ASSUME NEW i \in c PROVE pushes[row[i].is] > 0 \/ fate[row[i].is] = "displaced"
  <2>1. i \in Rows /\ i = b[1].id
    BY <1>2
  <2>2. row[i].is = b[1].is \/ fate[row[i].is] = "displaced"
    BY <1>2, <2>1 DEF IInv, Fetch
  <2> QED BY <1>1, <1>2, <2>2
<1> HIDE DEF c
<1>5. /\ tick'.pc = "row" /\ tick'.batch = t /\ tick'.known = tick.known
      /\ tick'.marks = tick.marks \cup c /\ tick'.locked = TRUE
  BY <1>1 DEF IInv, TypeOK
<1>6. TypeOK'
  BY <1>1, <1>2, <1>3 DEF IInv, TypeOK
<1>7. Rows' = Rows /\ Pending' = Pending
  BY <1>1 DEF Rows, Pending
<1>8. Single' /\ LostOnlyIfDisplaced' /\ DuplicatesNeedFailure'
  BY <1>1, <1>7 DEF IInv, Single, LostOnlyIfDisplaced, DuplicatesNeedFailure
<1>9. Fetch'
  <2>1. tick'.batch = Tail(tick.batch) /\ tick.batch # <<>> /\ row' = row /\ fate' = fate
    BY <1>1, <1>5
  <2> QED BY <2>1, FetchTail DEF IInv
<1>10. Phases'
  BY <1>5 DEF Phases
<1>11. Marked'
  BY <1>1, <1>3, <1>4, <1>5, <1>7 DEF IInv, Marked
<1>12. Budget'
  <2>1. \A r \in Reminders : fate[r] = "new" => pushes[r] = 0
    BY DEF IInv, Budget
  <2>2. ASSUME NEW n \in DOMAIN t PROVE pushes[t[n].is] <= faults
    <3>1. n + 1 \in Todo /\ t[n] = b[n + 1]
      BY <1>2 DEF Todo
    <3> QED BY <3>1 DEF IInv, Budget
  <2>3. Todo' = DOMAIN t
    BY <1>5 DEF Todo
  <2>4. \A i \in Unmarked' : i \in Unmarked
    BY <1>1, <1>3, <1>5, <1>7 DEF Unmarked, Pending
  <2>5. \A i \in Unmarked' : pushes[row[i].is] <= faults
    BY <2>4 DEF IInv, Budget
  <2> QED BY <1>1, <1>5, <2>1, <2>2, <2>3, <2>5 DEF Budget
<1>13. StaleForOneTick'
  BY <1>1, <1>5 DEF IInv, StaleForOneTick
<1> QED BY <1>6, <1>8, <1>9, <1>10, <1>11, <1>12, <1>13 DEF IInv

\* No tick is running.
LEMMA RestFacts ==
  ASSUME TypeOK, tick' = Resting
  PROVE  /\ tick'.pc = "idle" /\ tick'.batch = <<>> /\ tick'.marks = {} /\ tick'.locked = FALSE
         /\ tick'.known = [u \in Users |-> None]
         /\ DOMAIN tick'.batch = {}
         /\ tick' \in [pc : {"idle", "row", "mark"}, batch : Seq(Entry),
                       known : [Users -> Settings \cup {None}], marks : SUBSET Ids,
                       locked : BOOLEAN]
         /\ Fetch' /\ Phases' /\ Marked' /\ StaleForOneTick'
<1>1. /\ tick'.pc = "idle" /\ tick'.batch = <<>> /\ tick'.marks = {} /\ tick'.locked = FALSE
      /\ tick'.known = [u \in Users |-> None]
  BY DEF Resting
<1>2. DOMAIN tick'.batch = {}
  BY <1>1
<1>3. tick' \in [pc : {"idle", "row", "mark"}, batch : Seq(Entry),
                 known : [Users -> Settings \cup {None}], marks : SUBSET Ids, locked : BOOLEAN]
  BY DEF Resting
<1>4. Fetch' /\ Marked'
  BY <1>1, <1>2 DEF Fetch, Marked
<1>5. Phases'
  BY <1>1 DEF Phases, Resting
<1>6. StaleForOneTick'
  BY <1>1 DEF StaleForOneTick
<1> QED BY <1>1, <1>2, <1>3, <1>4, <1>5, <1>6

LEMMA CommitOK == ASSUME IInv, Commit PROVE IInv'
<1>1. /\ tick.pc = "row" /\ tick.batch = <<>> /\ tick' = Resting
      /\ row' = [i \in Ids |-> IF i \in tick.marks THEN [row[i] EXCEPT !.fired = TRUE] ELSE row[i]]
      /\ UNCHANGED <<now, settings, pushes, faults, fate, changed>>
  BY DEF Commit, CommitTo
<1>2. \A i \in tick.marks : i \in Rows
  BY DEF IInv, Marked
<1>3. ASSUME NEW i \in Ids
      PROVE  /\ row'[i] \in Row \cup {None}
             /\ i \notin Rows => row'[i] = None
             /\ i \in Rows => row'[i] # None /\ row'[i].is = row[i].is
             /\ i \in Rows /\ i \notin tick.marks => row'[i] = row[i]
             /\ i \in tick.marks => row'[i].fired = TRUE
  <2>1. CASE i \in tick.marks
    <3>1. i \in Rows /\ row[i] \in Row
      BY <1>2, <2>1, RowTyped DEF IInv
    <3>2. row'[i] = [row[i] EXCEPT !.fired = TRUE]
      BY <1>1, <2>1
    <3>3. row'[i] \in Row /\ row'[i].is = row[i].is /\ row'[i].fired = TRUE
      BY <3>1, <3>2 DEF Row
    <3>4. row'[i] # None
      BY <3>3
    <3> QED BY <2>1, <3>1, <3>3, <3>4
  <2>2. CASE i \notin tick.marks
    BY <1>1, <2>2 DEF IInv, TypeOK, Rows
  <2> QED BY <2>1, <2>2
<1>4. Rows' = Rows
  BY <1>3 DEF Rows
<1>5. /\ Fetch' /\ Phases' /\ Marked' /\ StaleForOneTick'
      /\ tick'.pc = "idle" /\ tick'.marks = {} /\ DOMAIN tick'.batch = {}
      /\ tick' \in [pc : {"idle", "row", "mark"}, batch : Seq(Entry),
                    known : [Users -> Settings \cup {None}], marks : SUBSET Ids,
                    locked : BOOLEAN]
  BY <1>1, RestFacts DEF IInv
<1>6. TypeOK'
  <2>1. row' \in [Ids -> Row \cup {None}]
    <3>1. row' = [i \in Ids |-> row'[i]]
      BY <1>1
    <3> QED BY <1>3, <3>1
  <2> QED BY <1>1, <1>5, <2>1 DEF IInv, TypeOK
<1>7. \A i \in Rows : i \in Ids /\ row'[i].is = row[i].is
  BY <1>3 DEF Rows
<1>8. Single' /\ DuplicatesNeedFailure'
  BY <1>1, <1>4, <1>7 DEF IInv, Single, DuplicatesNeedFailure
<1>9. Budget'
  <2>1. \A r \in Reminders : fate[r] = "new" => pushes[r] = 0
    BY DEF IInv, Budget
  <2>2. \A i \in Pending' : i \in Unmarked
    BY <1>1, <1>3, <1>4 DEF Pending, Unmarked, Rows
  <2>3. \A i \in Pending' : i \in Rows /\ pushes[row[i].is] <= faults
    BY <2>2 DEF IInv, Budget, Unmarked, Pending
  <2>4. Todo' = {} /\ Unmarked' = Pending'
    BY <1>5 DEF Todo, Unmarked
  <2> QED BY <1>1, <1>7, <2>1, <2>3, <2>4 DEF Budget
<1>10. LostOnlyIfDisplaced'
  <2> SUFFICES ASSUME NEW i \in Rows, row'[i].fired, pushes[row'[i].is] = 0
               PROVE  fate[row'[i].is] = "displaced"
    BY <1>1, <1>4 DEF LostOnlyIfDisplaced
  <2>1. row'[i].is = row[i].is /\ i \in Ids
    BY <1>7
  <2>2. CASE i \in tick.marks
    BY <2>1, <2>2 DEF IInv, Marked
  <2>3. CASE i \notin tick.marks
    <3>1. row'[i] = row[i]
      BY <1>3, <2>1, <2>3
    <3> QED BY <3>1 DEF IInv, LostOnlyIfDisplaced
  <2> QED BY <2>2, <2>3
<1> QED BY <1>5, <1>6, <1>8, <1>9, <1>10 DEF IInv

LEMMA AbandonOK == ASSUME IInv, Abandon PROVE IInv'
<1>1. /\ tick' = Resting /\ faults' = faults + 1 /\ faults < MaxFaults
      /\ UNCHANGED <<now, row, settings, pushes, fate, changed>>
  BY DEF Abandon
<1>2. /\ Fetch' /\ Phases' /\ Marked' /\ StaleForOneTick'
      /\ tick'.pc = "idle" /\ tick'.marks = {} /\ DOMAIN tick'.batch = {}
      /\ tick' \in [pc : {"idle", "row", "mark"}, batch : Seq(Entry),
                    known : [Users -> Settings \cup {None}], marks : SUBSET Ids,
                    locked : BOOLEAN]
  BY <1>1, RestFacts DEF IInv
<1>3. Rows' = Rows
  BY <1>1 DEF Rows
<1>4. TypeOK'
  BY <1>1, <1>2 DEF IInv, TypeOK
<1>5. Single' /\ LostOnlyIfDisplaced'
  BY <1>1, <1>3 DEF IInv, Single, LostOnlyIfDisplaced
<1>6. \A r \in Reminders : pushes[r] \in Nat /\ pushes[r] <= 1 + faults /\ faults \in Nat
  BY DEF IInv, DuplicatesNeedFailure, TypeOK
<1>7. \A r \in Reminders : pushes[r] <= faults' /\ pushes[r] <= 1 + faults'
  BY <1>1, <1>6
<1>8. DuplicatesNeedFailure'
  BY <1>1, <1>7 DEF DuplicatesNeedFailure
<1>9. Budget'
  <2>1. \A r \in Reminders : fate[r] = "new" => pushes[r] = 0
    BY DEF IInv, Budget
  <2>2. Todo' = {}
    BY <1>2 DEF Todo
  <2>3. \A i \in Unmarked' : row[i].is \in Reminders
    BY <1>1, <1>3, RowTyped DEF IInv, Unmarked, Pending
  <2> QED BY <1>1, <1>7, <2>1, <2>2, <2>3 DEF Budget
<1> QED BY <1>2, <1>4, <1>5, <1>8, <1>9 DEF IInv

LEMMA StutterOK == ASSUME IInv, UNCHANGED vars PROVE IInv'
<1>1. UNCHANGED <<now, row, settings, tick, pushes, faults, fate, changed>>
  BY DEF vars
<1>2. TypeOK' /\ StaleForOneTick'
  BY <1>1 DEF IInv, TypeOK, StaleForOneTick
<1> QED BY <1>1, <1>2, RestKept

-----------------------------------------------------------------------------
(* Theorems.                                                               *)

LEMMA InitIInv == Init => IInv
<1> SUFFICES ASSUME Init PROVE IInv
  OBVIOUS
<1>1. Rows = {} /\ Pending = {}
  BY DEF Init, Rows, Pending
<1>2. /\ tick.pc = "idle" /\ tick.batch = <<>> /\ tick.marks = {} /\ tick.locked = FALSE
      /\ tick.known = [u \in Users |-> None] /\ tick = Resting
  BY DEF Init, Resting
<1>3. TypeOK
  <2>1. tick \in [pc : {"idle", "row", "mark"}, batch : Seq(Entry),
                  known : [Users -> Settings \cup {None}], marks : SUBSET Ids, locked : BOOLEAN]
    BY DEF Init, Resting
  <2>2. settings \in [Users -> Settings]
    BY DEF Init, Settings
  <2> QED BY <2>1, <2>2 DEF Init, TypeOK, Hours
<1>4. DOMAIN tick.batch = {}
  BY <1>2
<1>5. Single /\ Fetch /\ Phases /\ Marked /\ LostOnlyIfDisplaced
  BY <1>1, <1>2, <1>4 DEF Single, Fetch, Phases, Marked, LostOnlyIfDisplaced
<1>6. Todo = {} /\ Unmarked = {}
  BY <1>1, <1>4 DEF Todo, Unmarked
<1>7. Budget
  BY <1>6 DEF Init, Budget
<1>8. DuplicatesNeedFailure /\ StaleForOneTick
  BY <1>2 DEF Init, DuplicatesNeedFailure, StaleForOneTick
<1> QED BY <1>3, <1>5, <1>7, <1>8 DEF IInv

LEMMA StepOK == ASSUME IInv, [Next]_vars PROVE IInv'
<1>1. CASE Request
  BY <1>1, AddReminderOK, DeleteItemOK, RotateTopicOK, SetRealtimeOK DEF Request
<1>2. CASE Dispatch
  BY <1>2, SelectOK, LoadSettingsOK, SkipOK, PushAcknowledgedOK, PushFailsOK, MarkOK, CommitOK
     DEF Dispatch
<1>3. CASE PushUnanswered \/ Abandon \/ NextHour
  BY <1>3, PushUnansweredOK, AbandonOK, NextHourOK
<1>4. CASE UNCHANGED vars
  BY <1>4, StutterOK
<1> QED BY <1>1, <1>2, <1>3, <1>4 DEF Next

\* The inductive invariant holds in every reachable state.
THEOREM Inductive == Spec => []IInv
<1>1. IInv /\ [Next]_vars => IInv'
  BY StepOK
<1> QED BY InitIInv, <1>1, PTL DEF Spec

\* Rows, settings, the tick and the counts keep their types.
THEOREM TypeCorrect == Spec => []TypeOK
<1>1. IInv => TypeOK
  BY DEF IInv
<1> QED BY <1>1, Inductive, PTL

\* At most one push more than there were faults, for any batch size, number of
\* reminders and requests in between (scheduler.py:74-105).
THEOREM DuplicatesHaveCause == Spec => []DuplicatesNeedFailure
<1>1. IInv => DuplicatesNeedFailure
  BY DEF IInv
<1> QED BY <1>1, Inductive, PTL

\* A reminder that counts as fired was pushed, or had come to the id of a row
\* deleted under a running tick (scheduler.py:98-104).
THEOREM LossHasCause == Spec => []LostOnlyIfDisplaced
<1>1. IInv => LostOnlyIfDisplaced
  BY DEF IInv
<1> QED BY <1>1, Inductive, PTL

\* No tick uses settings that an earlier one read (scheduler.py:83-90).
THEOREM SettingsAreReadEachTick == Spec => []StaleForOneTick
<1>1. IInv => StaleForOneTick
  BY DEF IInv
<1> QED BY <1>1, Inductive, PTL
=============================================================================
