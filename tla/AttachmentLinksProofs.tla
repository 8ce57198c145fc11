----------------------- MODULE AttachmentLinksProofs -----------------------
(***************************************************************************)
(* Proofs about Items and AttachmentLinks for any numbers of users,        *)
(* requests, statements, contents and ids.                                 *)
(*                                                                         *)
(* Of items, IInv says that every item present has a history (Histories),  *)
(* that what a request loaded still holds of the item at its id unless     *)
(* that item was displaced, or overlapped (Held), that no two requests     *)
(* hold one item unless that is in its history (Alone), and that a request *)
(* whose item is still there is its owner's (Loaded).  Of attachments,     *)
(* LinkInv says what a request may be doing (LinkShape), and that a        *)
(* request that has passed a test still may do what it was tested for,     *)
(* unless one of its ids was reused (Tested).                              *)
(***************************************************************************)
EXTENDS AttachmentLinks, Integers, WellFoundedInduction, TLAPS

Histories == \A i \in Ids : row[i] # None <=> past[i] # None

\* What request r loaded of the item that has its id.
HeldBy(r) ==
  LET i == r.id
  IN  i \in Rows /\ "displaced" \notin past[i].events =>
        /\ r.is = row[i].is
        /\ r.user = row[i].owner
        /\ r.does = "write" /\ row[i].kind = "decision" => r.loaded.body \subseteq r.set.body
        /\ "overlapped" \notin past[i].events => r.loaded = Columns(i)

\* A request whose item is still there is its owner's; items are numbered.
Loaded ==
  /\ \A w \in Busy : req[w].id \in Rows /\ req[w].is = row[req[w].id].is =>
       req[w].user = row[req[w].id].owner
  /\ \A w \in Busy : req[w].is <= created
  /\ \A i \in Rows : row[i].is <= created

Held == \A w \in Busy : HeldBy(req[w])

Alone ==
  \A v, w \in Busy : v # w /\ req[v].id = req[w].id /\ req[w].id \in Rows =>
    past[req[w].id].events \cap {"overlapped", "displaced"} # {}

IInv == TypeOK /\ Histories /\ Held /\ Alone /\ Loaded /\ LossNeedsOverlap

\* The requests in flight about attachments.
Linking == {l \in Linkers : link[l] # None}

LinkShape ==
  \A l \in Linking :
    /\ link[l].does = "insert" <=> link[l].att = None
    /\ link[l].does = "insert" => link[l].sha # None
    /\ link[l].does = "relink" => link[l].stage = "write"

\* What request r has read and tested still belongs to its user.
Permitted(r) ==
  /\ r.att \in Attached /\ "attachment reused" \notin r.reused => att[r.att].owner = r.user
  /\ (r.does \in {"insert", "link"} /\ r.stage = "write"
        /\ r.item \in Rows /\ "item reused" \notin r.reused) =>
       row[r.item].owner = r.user

Tested == \A l \in Linking : Permitted(link[l])

LinkInv ==
  IInv /\ LinkedTypeOK /\ LinkShape /\ Tested /\ LinksNeverDangle /\ ForeignLinkNeedsCause
-----------------------------------------------------------------------------
USE ItemsAssumption, ItemsNoneAssumption, AttachmentLinksAssumption, LinksNoneAssumption

(* Ids.                                                                    *)

\* A set of ids has a greatest one: the last of a well-founded descent.
LEMMA Greatest ==
  ASSUME NEW n \in Nat, NEW S \in SUBSET (1 .. n), S # {}
  PROVE  \E i \in S : \A j \in S : j <= i
<1> DEFINE less == OpToRel(<, Nat)
           T == {n - i : i \in S}
<1>1. IsWellFoundedOn(less, Nat)
  BY NatLessThanWellFounded
<1>2. T \subseteq Nat /\ T # {}
  <2>1. \A i \in 1 .. n : n - i \in Nat
    OBVIOUS
  <2> QED BY <2>1
<1>3. PICK m \in T : \A k \in T : <<k, m>> \notin less
  <2> HIDE DEF T, less
  <2> QED BY <1>1, <1>2, WFMin
<1>4. \A k \in T : ~(k < m)
  <2> SUFFICES ASSUME NEW k \in T PROVE ~(k < m)
    OBVIOUS
  <2>1. <<k, m>> \in Nat \X Nat /\ <<k, m>>[1] = k /\ <<k, m>>[2] = m
    BY <1>2, <1>3
  <2>2. <<k, m>> \notin {ss \in Nat \X Nat : ss[1] < ss[2]}
    BY <1>3 DEF OpToRel
  <2> HIDE DEF T, less
  <2> QED BY <2>1, <2>2
<1>5. PICK i \in S : m = n - i
  BY <1>3
<1>6. \A j \in S : ~(n - j < n - i)
  BY <1>4, <1>5
<1>7. \A j \in S : j <= i
  BY <1>6
<1> QED BY <1>7

\* The id of a new item is the id of none.
LEMMA NextIdFree == NextId \notin Rows
<1>1. CASE Rows = {}
  BY <1>1
<1>2. CASE Rows # {}
  <2>1. Rows \in SUBSET (1 .. MaxId)
    BY DEF Rows, Ids
  <2>2. \E i \in Rows : \A j \in Rows : j <= i
    BY <1>2, <2>1, Greatest
  <2> DEFINE i == CHOOSE i \in Rows : \A j \in Rows : j <= i
  <2>3. i \in Rows /\ \A j \in Rows : j <= i
    BY <2>2
  <2>4. NextId = 1 + i
    BY <1>2 DEF NextId
  <2> HIDE DEF i
  <2>5. i \in Int
    BY <2>1, <2>3
  <2> QED BY <2>3, <2>4, <2>5
<1> QED BY <1>1, <1>2

(* The steps of items.                                                     *)

\* The changes of one row's history.
LEMMA PastTyped ==
  ASSUME IInv, NEW i \in Rows
  PROVE  i \in Ids /\ row[i] \in Row /\ past[i] \in Past
  BY DEF IInv, TypeOK, Histories, Rows

LEMMA CreateStep ==
  ASSUME IInv, NEW u \in Users, NEW kind \in Kinds, NEW body \in Bodies,
         Create(u, kind, body)
  PROVE  IInv'
<1> DEFINE n == NextId
           held == When(\E w \in Busy : req[w].id = n, "displaced")
<1>1. n \in Ids /\ n \notin Rows
  BY NextIdFree DEF Create, CreateFor
<1>2. PICK k : k = n
  OBVIOUS
<1> HIDE DEF n
<1>3. /\ row'[k] = [is |-> created + 1, owner |-> u, kind |-> kind, body |-> body,
                    status |-> "open"]
      /\ past'[k] = [said |-> body, events |-> held]
      /\ req' = req /\ created' = created + 1 /\ created < MaxItems
  BY <1>1, <1>2 DEF Create, CreateFor, n, IInv, TypeOK
<1>4. \A i \in Ids : i # k => row'[i] = row[i] /\ past'[i] = past[i]
  BY <1>1, <1>2 DEF Create, CreateFor, n, IInv, TypeOK
<1>5. (\E w \in Busy : req[w].id = k) => "displaced" \in held
  BY <1>2 DEF When
<1>6. held \in SUBSET {"displaced"}
  BY DEF When
<1> HIDE DEF held
<1>7. row'[k] \in Row /\ past'[k] \in Past
  <2>1. created + 1 \in Born
    BY <1>3 DEF Born, IInv, TypeOK
  <2> QED BY <1>3, <1>6, <2>1 DEF Row, Past, Events, Statuses
<1>8. Busy' = Busy /\ Rows' = Rows \cup {k} /\ k \in Ids
  BY <1>1, <1>2, <1>3, <1>4, <1>7 DEF Busy, Rows
<1>9. TypeOK'
  <2>1. created' \in 0 .. MaxItems
    BY <1>3 DEF IInv, TypeOK
  <2>2. row' = [j \in Ids |-> row'[j]] /\ past' = [j \in Ids |-> past'[j]]
    BY DEF Create, CreateFor, IInv, TypeOK
  <2>3. \A j \in Ids : row'[j] \in Row \cup {None} /\ past'[j] \in Past \cup {None}
    BY <1>4, <1>7 DEF IInv, TypeOK
  <2>4. row' \in [Ids -> Row \cup {None}] /\ past' \in [Ids -> Past \cup {None}]
    BY <2>2, <2>3
  <2> QED BY <1>3, <2>1, <2>4 DEF IInv, TypeOK
<1>10. Histories'
  BY <1>4, <1>7 DEF IInv, Histories
<1>11. Held'
  BY <1>3, <1>4, <1>5, <1>8 DEF IInv, Held, HeldBy, Columns, Rows
<1>12. Alone'
  BY <1>3, <1>4, <1>5, <1>8 DEF IInv, Alone, Rows
<1>13. LossNeedsOverlap'
  BY <1>3, <1>4, <1>8 DEF IInv, LossNeedsOverlap, Lost, Rows
<1>14. Loaded'
  <2>1. created \in Int /\ \A w \in Busy : req[w].is \in Int /\ req'[w] = req[w]
    BY <1>3 DEF IInv, TypeOK, Busy, Request, Born
  <2>2. \A i \in Rows : row[i].is \in Int
    BY PastTyped DEF Row, Born
  <2>3. /\ \A w \in Busy : req[w].is <= created
        /\ \A i \in Rows : row[i].is <= created
    BY DEF IInv, Loaded
  <2>4. \A i \in Rows' : row'[i].is <= created'
    BY <1>3, <1>4, <1>8, <2>1, <2>2, <2>3 DEF Rows
  <2>5. \A w \in Busy : req[w].id \in Rows' /\ req[w].is = row'[req[w].id].is =>
          req[w].user = row'[req[w].id].owner
    <3> SUFFICES ASSUME NEW w \in Busy, req[w].id \in Rows', req[w].is = row'[req[w].id].is
                 PROVE  req[w].user = row'[req[w].id].owner
      OBVIOUS
    <3>1. req[w].id # k
      BY <1>3, <2>1, <2>3
    <3>2. req[w].id \in Rows /\ row'[req[w].id] = row[req[w].id]
      BY <1>4, <1>8, <3>1 DEF Rows
    <3> QED BY <3>2 DEF IInv, Loaded
  <2> QED BY <1>3, <1>8, <2>1, <2>3, <2>4, <2>5 DEF Loaded
<1> QED BY <1>9, <1>10, <1>11, <1>12, <1>13, <1>14 DEF IInv

\* A request loads an item that its user may see.
LEMMA LoadStep ==
  ASSUME IInv, NEW w \in Workers, NEW u \in Users, NEW i \in Visible(u),
         NEW does \in {"write", "rewrite", "delete"},
         NEW set \in [body : Bodies, status : Statuses],
         does = "write" => Appends(i, set.body),
         Load(w, u, i, does, set)
  PROVE  IInv'
<1> DEFINE held == When(\E v \in Busy : req[v].is = row[i].is, "overlapped")
           r == [does |-> does, user |-> u, id |-> i, is |-> row[i].is,
                 loaded |-> Columns(i), set |-> set]
<1>1. i \in Rows /\ row[i].owner = u /\ row[i] \in Row /\ past[i] \in Past /\ i \in Ids
  BY PastTyped DEF Visible
<1>2. /\ row' = row /\ created' = created
      /\ req[w] = None /\ req'[w] = r
      /\ \A v \in Workers : v # w => req'[v] = req[v]
  BY DEF Load, IInv, TypeOK
<1>3. /\ past'[i] = [said |-> past[i].said, events |-> past[i].events \cup held]
      /\ \A j \in Ids : j # i => past'[j] = past[j]
  BY <1>1 DEF Load, IInv, TypeOK, Past
<1>4. held \in SUBSET {"overlapped"} /\ ((\E v \in Busy : req[v].is = row[i].is) => "overlapped" \in held)
  BY DEF When
<1>5. r \in Request
  BY <1>1 DEF Request, Row, Columns
<1>6. /\ r.does = does /\ r.user = u /\ r.id = i /\ r.is = row[i].is /\ r.set = set
      /\ r.loaded = Columns(i)
  OBVIOUS
<1> HIDE DEF held, r
<1>7. Busy' = Busy \cup {w} /\ Rows' = Rows /\ w \notin Busy
  BY <1>2, <1>5 DEF Busy, Rows
<1>8. past'[i] \in Past
  <2>1. past[i].said \in Bodies /\ past[i].events \cup held \in SUBSET Events
    BY <1>1, <1>4 DEF Past, Events
  <2> QED BY <1>3, <2>1 DEF Past
<1>9. TypeOK'
  <2>1. past' \in [Ids -> Past \cup {None}]
    BY <1>8 DEF Load, IInv, TypeOK
  <2>2. req' \in [Workers -> Request \cup {None}]
    BY <1>2, <1>5 DEF Load, IInv, TypeOK
  <2> QED BY <1>2, <2>1, <2>2 DEF IInv, TypeOK
<1>10. Histories'
  BY <1>1, <1>2, <1>3, <1>8 DEF IInv, Histories, Rows
<1>11. Held'
  <2> SUFFICES ASSUME NEW v \in Busy' PROVE HeldBy(req[v])'
    BY DEF Held
  <2>1. CASE v = w
    BY <1>1, <1>2, <1>6, <1>7, <2>1 DEF HeldBy, Appends, Columns
  <2>2. CASE v # w
    <3>1. v \in Busy /\ HeldBy(req[v]) /\ req'[v] = req[v]
      BY <1>2, <1>7, <2>2 DEF IInv, Held, Busy
    <3> QED BY <1>1, <1>2, <1>3, <1>7, <3>1 DEF HeldBy, Columns, Rows
  <2> QED BY <2>1, <2>2
<1>12. Alone'
  <2>1. \A v \in Busy : req[v].id = i => past'[i].events \cap {"overlapped", "displaced"} # {}
    BY <1>1, <1>3, <1>4 DEF IInv, Held, HeldBy
  <2>2. \A v \in Busy : req'[v] = req[v]
    BY <1>2, <1>7 DEF Busy
  <2> QED BY <1>2, <1>3, <1>6, <1>7, <2>1, <2>2 DEF IInv, Alone, Rows
<1>13. LossNeedsOverlap'
  BY <1>2, <1>3, <1>7 DEF IInv, LossNeedsOverlap, Lost, Rows
<1>14. Loaded'
  <2>1. \A v \in Busy : req'[v] = req[v]
    BY <1>2, <1>7 DEF Busy
  <2> QED BY <1>1, <1>2, <1>6, <1>7, <2>1 DEF IInv, Loaded, Rows
<1> QED BY <1>9, <1>10, <1>11, <1>12, <1>13, <1>14 DEF IInv

LEMMA FinishWriteStep ==
  ASSUME IInv, NEW w \in Workers, FinishWrite(w)
  PROVE  IInv'
<1> DEFINE r == req[w]
           new == Written(r)
<1>1. PICK i : i = req[w].id
  OBVIOUS
<1>2. /\ i \in Rows /\ i \in Ids /\ row[i] \in Row /\ past[i] \in Past
      /\ w \in Busy /\ r \in Request /\ r.does # "delete"
  BY <1>1, PastTyped DEF FinishWrite, IInv, TypeOK, Busy
<1>3. /\ new \in Row /\ new.is = row[i].is /\ new.owner = row[i].owner /\ new.kind = row[i].kind
      /\ new.body = IF r.set.body = r.loaded.body THEN row[i].body ELSE r.set.body
  BY <1>1, <1>2 DEF Written, Row, Request
<1> DEFINE why == When(r.does = "rewrite", "rewritten")
<1>4. /\ row'[i] = new
      /\ past'[i] = [said |-> past[i].said \cup new.body, events |-> past[i].events \cup why]
      /\ \A j \in Ids : j # i => row'[j] = row[j] /\ past'[j] = past[j]
      /\ req'[w] = None /\ created' = created
      /\ \A v \in Workers : v # w => req'[v] = req[v]
  BY <1>1, <1>2 DEF FinishWrite, IInv, TypeOK, Past
<1>5. /\ why \in SUBSET {"rewritten"}
      /\ r.does = "rewrite" => "rewritten" \in why
  BY DEF When
<1> HIDE DEF why, new
<1>6. past'[i] \in Past
  <2>1. past[i].said \cup new.body \in Bodies
    BY <1>2, <1>3 DEF Past, Row, Bodies
  <2>2. past[i].events \cup why \in SUBSET Events
    BY <1>2, <1>5 DEF Past, Events
  <2> QED BY <1>4, <2>1, <2>2 DEF Past
<1>7. Busy' = Busy \ {w} /\ Rows' = Rows
  BY <1>2, <1>3, <1>4 DEF Busy, Rows
<1>8. TypeOK'
  BY <1>1, <1>2, <1>3, <1>4, <1>6 DEF FinishWrite, IInv, TypeOK
<1>9. Histories'
  BY <1>2, <1>3, <1>4, <1>6 DEF IInv, Histories
<1>10. HeldBy(r)
  BY <1>2 DEF IInv, Held
<1>11. Held'
  <2> SUFFICES ASSUME NEW v \in Busy' PROVE HeldBy(req[v])'
    BY DEF Held
  <2>1. v \in Busy /\ HeldBy(req[v]) /\ req'[v] = req[v] /\ v # w
    BY <1>4, <1>7 DEF IInv, Held, Busy
  <2>2. CASE req[v].id # i
    BY <1>2, <1>4, <1>7, <2>1, <2>2 DEF HeldBy, Columns, Rows
  <2>3. CASE req[v].id = i
    <3>1. past[i].events \cap {"overlapped", "displaced"} # {}
      BY <1>1, <1>2, <2>1, <2>3 DEF IInv, Alone
    <3> QED BY <1>2, <1>3, <1>4, <1>7, <2>1, <2>3, <3>1 DEF HeldBy, Columns, Rows
  <2> QED BY <2>2, <2>3
<1>12. Alone'
  BY <1>2, <1>4, <1>7 DEF IInv, Alone, Busy, Rows
<1>13. LossNeedsOverlap'
  <2>1. ASSUME row'[i].kind = "decision",
               past'[i].events \cap {"rewritten", "overlapped", "displaced"} = {}
        PROVE  past'[i].said \subseteq row'[i].body
    <3>1. /\ past'[i].said = past[i].said \cup new.body
          /\ past'[i].events = past[i].events \cup why
      BY <1>4
    <3>2. row[i].kind = "decision" /\ past[i].said \subseteq row[i].body
      BY <1>2, <1>3, <1>4, <2>1, <3>1 DEF IInv, LossNeedsOverlap, Lost
    <3>3. r.does = "write"
      BY <1>2, <1>5, <2>1, <3>1 DEF Request
    <3>4. r.loaded = Columns(i) /\ r.loaded.body \subseteq r.set.body
      BY <1>1, <1>2, <1>10, <2>1, <3>1, <3>2, <3>3 DEF HeldBy
    <3>5. row[i].body \subseteq new.body
      BY <1>3, <3>4 DEF Columns
    <3> QED BY <1>4, <3>1, <3>2, <3>5
  <2> QED BY <1>2, <1>4, <1>7, <2>1 DEF IInv, LossNeedsOverlap, Lost, Rows
<1>14. Loaded'
  BY <1>2, <1>3, <1>4, <1>7 DEF IInv, Loaded, Busy, Rows
<1> QED BY <1>8, <1>9, <1>11, <1>12, <1>13, <1>14 DEF IInv

\* A request ends without a write; or its item is deleted.
LEMMA EndStep ==
  ASSUME IInv, NEW w \in Workers, FinishDelete(w) \/ Abort(w)
  PROVE  IInv'
<1> DEFINE gone == IF Abort(w) THEN {} ELSE {req[w].id}
<1>1. w \in Busy /\ req[w] \in Request /\ req[w].id \in Ids
  BY DEF FinishDelete, Abort, Busy, IInv, TypeOK, Request
<1>2. /\ req'[w] = None /\ created' = created
      /\ \A v \in Workers : v # w => req'[v] = req[v]
  BY DEF FinishDelete, Abort, IInv, TypeOK
<1>3. \A i \in Ids : \/ row'[i] = row[i] /\ past'[i] = past[i]
                     \/ row'[i] = None /\ past'[i] = None
  BY DEF FinishDelete, Abort, IInv, TypeOK
<1>4. TypeOK'
  BY DEF FinishDelete, Abort, IInv, TypeOK
<1>5. Busy' = Busy \ {w}
  BY <1>1, <1>2 DEF Busy
<1>6. Histories'
  BY <1>3 DEF IInv, Histories
<1>7. Held'
  BY <1>2, <1>3, <1>5 DEF IInv, Held, HeldBy, Columns, Busy, Rows
<1>8. Alone'
  BY <1>2, <1>3, <1>5 DEF IInv, Alone, Busy, Rows
<1>9. LossNeedsOverlap'
  BY <1>3 DEF IInv, LossNeedsOverlap, Lost, Rows
<1>10. Loaded'
  BY <1>2, <1>3, <1>5 DEF IInv, Loaded, Busy, Rows
<1> QED BY <1>4, <1>6, <1>7, <1>8, <1>9, <1>10 DEF IInv

LEMMA ItemsNext == ASSUME IInv, [Next]_vars PROVE IInv'
<1>1. ASSUME NEW w \in Workers, NEW u \in Users, NEW i \in Ids,
             NEW set \in [body : Bodies, status : Statuses],
             BeginUpdate(w, u, i, set) \/ BeginRewrite(w, u, i, set)
      PROVE  IInv'
  BY <1>1, LoadStep DEF BeginUpdate, BeginRewrite
<1>2. ASSUME NEW w \in Workers, NEW u \in Users, NEW i \in Visible(u)
      PROVE  /\ Columns(i) \in [body : Bodies, status : Statuses]
             /\ [Columns(i) EXCEPT !.status = "done"] \in [body : Bodies, status : Statuses]
             /\ Appends(i, [Columns(i) EXCEPT !.status = "done"].body)
  BY PastTyped DEF Visible, Columns, Row, Appends, Statuses
<1>3. ASSUME NEW w \in Workers, NEW u \in Users, NEW i \in Ids, BeginComplete(w, u, i)
      PROVE  IInv'
  BY <1>2, <1>3, LoadStep DEF BeginComplete
<1>4. ASSUME NEW w \in Workers, NEW u \in Users, NEW i \in Ids,
             BeginDelete(w, u, i) \/ BeginUndo(w, u, i)
      PROVE  IInv'
  BY <1>2, <1>4, LoadStep DEF BeginDelete, BeginUndo
<1>5. CASE UNCHANGED vars
  BY <1>5 DEF vars, IInv, TypeOK, Histories, Held, HeldBy, Alone, LossNeedsOverlap, Lost,
              Loaded, Columns, Busy, Rows
<1> QED
  BY <1>1, <1>3, <1>4, <1>5, CreateStep, FinishWriteStep, EndStep DEF Next

LEMMA ItemsInit == Init => IInv
  BY DEF Init, IInv, TypeOK, Histories, Held, HeldBy, Alone, LossNeedsOverlap, Lost,
         Loaded, Busy, Rows

\* An item keeps its owner as long as it is there, and none but the requests
\* that loaded a done item reopen it.
LEMMA ItemsKept ==
  ASSUME IInv, [Next]_vars, NEW i \in Rows, row'[i] # None
  PROVE  /\ row'[i].owner = row[i].owner
         /\ (row[i].status = "done" /\ row'[i].status = "open") =>
              \E w \in Busy :
                req'[w] = None /\ req[w].id = i /\ req[w].loaded.status = "done"
<1>1. i \in Ids /\ row[i] \in Row
  BY PastTyped
<1>2. ASSUME NEW u \in Users, NEW kind \in Kinds, NEW body \in Bodies, Create(u, kind, body)
      PROVE  row'[i] = row[i]
  BY <1>1, <1>2, NextIdFree DEF Create, CreateFor, IInv, TypeOK
<1>3. ASSUME NEW w \in Workers, FinishWrite(w)
      PROVE  /\ row'[i].owner = row[i].owner
             /\ (row[i].status = "done" /\ row'[i].status = "open") =>
                  \E v \in Busy :
                    req'[v] = None /\ req[v].id = i /\ req[v].loaded.status = "done"
  <2>1. req[w] \in Request /\ w \in Busy /\ req'[w] = None
    BY <1>3 DEF FinishWrite, Busy, IInv, TypeOK
  <2>2. CASE i # req[w].id
    <3>1. row'[i] = row[i]
      BY <1>1, <1>3, <2>2 DEF FinishWrite, IInv, TypeOK
    <3> QED BY <3>1
  <2>3. CASE i = req[w].id
    <3>1. /\ row'[i].owner = row[i].owner
          /\ row'[i].status = IF req[w].set.status = req[w].loaded.status THEN row[i].status
                              ELSE req[w].set.status
      BY <1>1, <1>3, <2>3 DEF FinishWrite, Written, Row, IInv, TypeOK
    <3>2. req[w].loaded.status \in Statuses
      BY <2>1 DEF Request
    <3> QED BY <2>1, <2>3, <3>1, <3>2 DEF Statuses
  <2> QED BY <2>2, <2>3
<1>4. ASSUME NEW w \in Workers, FinishDelete(w) \/ Abort(w) PROVE row'[i] = row[i]
  BY <1>1, <1>4 DEF FinishDelete, Abort, IInv, TypeOK
<1>5. ASSUME NEW w \in Workers, NEW u \in Users, NEW j \in Ids,
             \/ \E set \in [body : Bodies, status : Statuses] :
                  BeginUpdate(w, u, j, set) \/ BeginRewrite(w, u, j, set)
             \/ BeginComplete(w, u, j) \/ BeginDelete(w, u, j) \/ BeginUndo(w, u, j)
      PROVE  row'[i] = row[i]
  BY <1>5 DEF BeginUpdate, BeginRewrite, BeginComplete, BeginDelete, BeginUndo, Load
<1>6. CASE UNCHANGED vars
  BY <1>6 DEF vars
<1> QED BY <1>1, <1>2, <1>3, <1>4, <1>5, <1>6 DEF Next, Row, Statuses

(* The steps of attachments.                                               *)

\* What an attachment and a request look like.
LEMMA LinksTyped ==
  ASSUME LinkInv
  PROVE  /\ \A a \in Attached : a \in AttIds /\ att[a] \in Attachment
         /\ \A l \in Linking : l \in Linkers /\ link[l] \in LinkRequest
  BY DEF LinkInv, LinkedTypeOK, Attached, Linking

\* A new request: what it holds is its user's.
LEMMA StartStep ==
  ASSUME LinkInv, UNCHANGED vars, NEW l \in Linkers, NEW r \in LinkRequest, Start(l, r),
         r.does = "insert" <=> r.att = None,
         r.does = "insert" => r.sha # None,
         r.does = "relink" => r.stage = "write",
         r.att # None => r.att \in OwnAttachments(r.user),
         r.does \in {"insert", "link"} /\ r.stage = "write" => r.item = None
  PROVE  LinkInv'
<1>1. /\ att' = att /\ row' = row /\ past' = past /\ req' = req /\ created' = created
      /\ link'[l] = r /\ \A k \in Linkers : k # l => link'[k] = link[k]
  BY DEF Start, LinkInv, LinkedTypeOK, vars
<1>2. Attached' = Attached /\ Rows' = Rows /\ Linking' = Linking \cup {l}
  BY <1>1 DEF Attached, Rows, Linking
<1>3. IInv'
  BY ItemsNext DEF LinkInv
<1>4. LinkedTypeOK'
  BY <1>1, <1>3 DEF Start, LinkInv, IInv, LinkedTypeOK
<1>5. LinkShape'
  BY <1>1, <1>2 DEF LinkInv, LinkShape, Linking
<1>6. None \notin AttIds /\ None \notin Rows
  BY DEF Rows
<1>7. Tested'
  <2>1. r.att \in Attached => att[r.att].owner = r.user
    BY <1>6 DEF OwnAttachments, Attached
  <2>2. Permitted(r)'
    BY <1>1, <1>2, <1>6, <2>1 DEF Permitted
  <2>3. ASSUME NEW k \in Linking, k # l PROVE Permitted(link[k])'
    BY <1>1, <1>2, <2>3 DEF LinkInv, Tested, Permitted, Linking
  <2> QED BY <1>1, <1>2, <2>2, <2>3 DEF Tested, Permitted
<1>8. LinksNeverDangle' /\ ForeignLinkNeedsCause'
  BY <1>1, <1>2 DEF LinkInv, LinksNeverDangle, ForeignLinkNeedsCause, Exists
<1> QED BY <1>3, <1>4, <1>5, <1>7, <1>8 DEF LinkInv

\* A request passes its test, or ends without a write.
LEMMA TestStep ==
  ASSUME LinkInv, UNCHANGED vars, NEW l \in Linkers, TestItem(l) \/ AbortLink(l)
  PROVE  LinkInv'
<1>1. /\ att' = att /\ row' = row /\ past' = past /\ req' = req /\ created' = created
      /\ link[l] \in LinkRequest /\ l \in Linking
      /\ \A k \in Linkers : k # l => link'[k] = link[k]
  BY DEF TestItem, AbortLink, LinkInv, LinkedTypeOK, vars, Linking
<1>2. \/ link'[l] = None
      \/ /\ link[l].item \in Visible(link[l].user)
         /\ link'[l] = [link[l] EXCEPT !.stage = "write"]
  BY DEF TestItem, AbortLink, LinkInv, LinkedTypeOK
<1>3. \/ link'[l] = None
      \/ /\ link[l].item \in Visible(link[l].user)
         /\ link'[l] \in LinkRequest
         /\ link'[l].does = link[l].does /\ link'[l].user = link[l].user
         /\ link'[l].att = link[l].att /\ link'[l].item = link[l].item
         /\ link'[l].reused = link[l].reused /\ link'[l].stage = "write"
         /\ link'[l].sha = link[l].sha
  BY <1>1, <1>2 DEF LinkRequest
<1>4. Attached' = Attached /\ Rows' = Rows /\ Linking' \subseteq Linking
  BY <1>1 DEF Attached, Rows, Linking
<1>5. IInv'
  BY ItemsNext DEF LinkInv
<1>6. LinkedTypeOK'
  <2>1. link' = [k \in Linkers |-> link'[k]]
    BY DEF TestItem, AbortLink, LinkInv, LinkedTypeOK
  <2>2. link' \in [Linkers -> LinkRequest \cup {None}]
    BY <1>1, <1>3, <2>1 DEF LinkInv, LinkedTypeOK
  <2> QED BY <1>1, <1>5, <2>2 DEF LinkInv, IInv, LinkedTypeOK
<1>7. LinkShape'
  BY <1>1, <1>3, <1>4 DEF LinkInv, LinkShape, Linking
<1>8. Tested'
  <2> SUFFICES ASSUME NEW k \in Linking' PROVE Permitted(link[k])'
    BY DEF Tested
  <2>1. k \in Linking
    BY <1>4
  <2>2. CASE k = l
    BY <1>1, <1>3, <1>4, <2>1, <2>2 DEF LinkInv, Tested, Permitted, Linking, Visible
  <2>3. CASE k # l
    BY <1>1, <1>4, <2>1, <2>3 DEF LinkInv, Tested, Permitted, Linking
  <2> QED BY <2>2, <2>3
<1>9. LinksNeverDangle' /\ ForeignLinkNeedsCause'
  BY <1>1, <1>4 DEF LinkInv, LinksNeverDangle, ForeignLinkNeedsCause, Exists
<1> QED BY <1>5, <1>6, <1>7, <1>8, <1>9 DEF LinkInv

\* UPDATE attachments SET item_id.
LEMMA WriteLinkStep ==
  ASSUME LinkInv, UNCHANGED vars, NEW l \in Linkers, WriteLink(l)
  PROVE  LinkInv'
<1>1. PICK r : r = link[l]
  OBVIOUS
<1>2. /\ row' = row /\ past' = past /\ req' = req /\ created' = created
      /\ r \in LinkRequest /\ l \in Linking /\ r.does \in {"relink", "link"} /\ r.stage = "write"
      /\ link'[l] = None /\ \A k \in Linkers : k # l => link'[k] = link[k]
  BY <1>1 DEF WriteLink, Writing, LinkInv, LinkedTypeOK, vars, Linking
<1>3. PICK a : a = r.att
  OBVIOUS
<1> DEFINE why == r.reused \cup When(r.does = "relink", "deduplicated")
<1>4. \/ att' = att
      \/ /\ a \in Attached /\ a \in AttIds /\ att[a] \in Attachment /\ Exists(r.item)
         /\ att'[a].owner = att[a].owner /\ att'[a].item = r.item /\ att'[a].causes = why
         /\ att'[a] \in Attachment
         /\ \A b \in AttIds : b # a => att'[b] = att[b]
  <2> SUFFICES ASSUME att' # att PROVE
         /\ a \in Attached /\ a \in AttIds /\ att[a] \in Attachment /\ Exists(r.item)
         /\ att'[a].owner = att[a].owner /\ att'[a].item = r.item /\ att'[a].causes = why
         /\ att'[a] \in Attachment
         /\ \A b \in AttIds : b # a => att'[b] = att[b]
    OBVIOUS
  <2>1. /\ a \in Attached /\ Exists(r.item)
        /\ att' = [att EXCEPT ![a].item = r.item, ![a].causes = why]
    BY <1>1, <1>3 DEF WriteLink
  <2>2. a \in AttIds /\ att[a] \in Attachment
    BY <2>1, LinksTyped
  <2>3. why \in SUBSET Causes /\ r.item \in Ids \cup {None}
    BY <1>2 DEF LinkRequest, Causes, When
  <2> HIDE DEF why
  <2>4. att'[a] = [att[a] EXCEPT !.item = r.item, !.causes = why]
    BY <2>1, <2>2 DEF LinkInv, LinkedTypeOK
  <2>5. /\ att'[a].owner = att[a].owner /\ att'[a].item = r.item /\ att'[a].causes = why
        /\ att'[a] \in Attachment
    BY <2>2, <2>3, <2>4 DEF Attachment
  <2>6. \A b \in AttIds : b # a => att'[b] = att[b]
    BY <2>1 DEF LinkInv, LinkedTypeOK
  <2> QED BY <2>1, <2>2, <2>5, <2>6
<1>5. why = {} => r.does = "link" /\ "item reused" \notin r.reused /\ "attachment reused" \notin r.reused
  BY <1>2 DEF When
<1> HIDE DEF why
<1>6. /\ Attached' = Attached /\ Rows' = Rows /\ Linking' = Linking \ {l}
      /\ \A b \in Attached : att'[b].owner = att[b].owner
  BY <1>2, <1>4 DEF Attached, Rows, Linking
<1>7. IInv'
  BY ItemsNext DEF LinkInv
<1>8. LinkedTypeOK'
  <2>1. link' \in [Linkers -> LinkRequest \cup {None}]
    BY DEF WriteLink, LinkInv, LinkedTypeOK
  <2>2. att' = [b \in AttIds |-> att'[b]]
    BY DEF WriteLink, LinkInv, LinkedTypeOK
  <2>3. att' \in [AttIds -> Attachment \cup {None}]
    BY <1>4, <2>2 DEF LinkInv, LinkedTypeOK
  <2> QED BY <1>7, <2>1, <2>3 DEF IInv, LinkedTypeOK
<1>9. LinkShape'
  BY <1>2, <1>6 DEF LinkInv, LinkShape, Linking
<1>10. Tested'
  <2> SUFFICES ASSUME NEW k \in Linking, k # l PROVE Permitted(link[k])'
    BY <1>6 DEF Tested
  <2>1. Permitted(link[k]) /\ link'[k] = link[k]
    BY <1>2 DEF LinkInv, Tested, Linking
  <2> QED BY <1>2, <1>6, <2>1 DEF Permitted
<1>11. LinksNeverDangle'
  <2> SUFFICES ASSUME NEW b \in Attached PROVE att'[b].item = None \/ att'[b].item \in Rows
    BY <1>6 DEF LinksNeverDangle, Exists
  <2>1. b \in AttIds
    BY DEF Attached
  <2> QED BY <1>4, <2>1 DEF LinkInv, LinksNeverDangle, Exists
<1>12. ForeignLinkNeedsCause'
  <2> SUFFICES ASSUME NEW b \in Attached, att'[b].item \in Rows,
                      row[att'[b].item].owner # att'[b].owner
               PROVE  att'[b].causes # {}
    BY <1>2, <1>6 DEF ForeignLinkNeedsCause
  <2>1. b \in AttIds
    BY DEF Attached
  <2>2. CASE att' = att \/ b # a
    BY <1>4, <2>1, <2>2 DEF LinkInv, ForeignLinkNeedsCause
  <2>3. CASE att' # att /\ b = a
    <3>1. SUFFICES ASSUME why = {} PROVE FALSE
      BY <1>4, <2>3
    <3>2. /\ att'[a].owner = att[a].owner /\ att'[a].item = r.item
      BY <1>4, <2>3
    <3>3. att[a].owner = r.user
      BY <1>1, <1>2, <1>3, <1>5, <2>3, <3>1 DEF LinkInv, Tested, Permitted
    <3>4. row[r.item].owner = r.user
      BY <1>1, <1>2, <1>5, <2>3, <3>1, <3>2 DEF LinkInv, Tested, Permitted
    <3> QED BY <2>3, <3>2, <3>3, <3>4
  <2> QED BY <2>2, <2>3
<1> QED BY <1>7, <1>8, <1>9, <1>10, <1>11, <1>12 DEF LinkInv

\* A request one of whose ids is given to a new row is marked, and no more.
Marked(r, cause) == [r EXCEPT !.reused = @ \cup {cause}]

LEMMA MarkedFacts ==
  ASSUME NEW r \in LinkRequest, NEW cause \in Causes
  PROVE  /\ Marked(r, cause) \in LinkRequest
         /\ Marked(r, cause).reused = r.reused \cup {cause}
         /\ Marked(r, cause).does = r.does /\ Marked(r, cause).stage = r.stage
         /\ Marked(r, cause).user = r.user /\ Marked(r, cause).sha = r.sha
         /\ Marked(r, cause).att = r.att /\ Marked(r, cause).item = r.item
<1>1. r.reused \cup {cause} \in SUBSET Causes
  BY DEF LinkRequest
<1> QED BY <1>1 DEF LinkRequest, Marked

\* INSERT.
LEMMA InsertStep ==
  ASSUME LinkInv, UNCHANGED vars, NEW l \in Linkers, InsertAttachment(l)
  PROVE  LinkInv'
<1>1. PICK r : r = link[l]
  OBVIOUS
<1>2. PICK n : n = NextAtt
  OBVIOUS
<1> DEFINE new == [owner |-> r.user, sha |-> r.sha, item |-> r.item, causes |-> r.reused]
<1>3. /\ row' = row /\ past' = past /\ req' = req /\ created' = created
      /\ r \in LinkRequest /\ l \in Linking /\ r.does = "insert" /\ r.stage = "write"
      /\ n \in AttIds /\ Exists(r.item)
  BY <1>1, <1>2 DEF InsertAttachment, Writing, LinkInv, LinkedTypeOK, vars, Linking
<1>4. /\ att'[n] = new
      /\ \A b \in AttIds : b # n => att'[b] = att[b]
      /\ att' = [b \in AttIds |-> att'[b]]
  BY <1>1, <1>2, <1>3 DEF InsertAttachment, LinkInv, LinkedTypeOK
<1>5. /\ link'[l] = None /\ link' = [k \in Linkers |-> link'[k]]
      /\ \A k \in Linkers : k # l =>
           link'[k] = IF link[k] # None /\ link[k].att = n
                      THEN [link[k] EXCEPT !.reused = @ \cup {"attachment reused"}]
                      ELSE link[k]
  BY <1>2 DEF InsertAttachment, Reusing, LinkInv, LinkedTypeOK
<1>6. ASSUME NEW k \in Linkers, k # l, link[k] # None
      PROVE  /\ link[k] \in LinkRequest /\ link'[k] \in LinkRequest
             /\ link'[k].does = link[k].does /\ link'[k].stage = link[k].stage
             /\ link'[k].user = link[k].user /\ link'[k].att = link[k].att
             /\ link'[k].item = link[k].item /\ link'[k].sha = link[k].sha
             /\ link[k].reused \subseteq link'[k].reused
             /\ link[k].att = n => "attachment reused" \in link'[k].reused
  <2>1. link[k] \in LinkRequest /\ "attachment reused" \in Causes
    BY <1>6 DEF LinkInv, LinkedTypeOK, Causes
  <2>2. CASE link[k].att = n
    <3> DEFINE q == Marked(link[k], "attachment reused")
    <3>1. link'[k] = q
      BY <1>5, <1>6, <2>2 DEF Marked
    <3>2. /\ q \in LinkRequest /\ q.reused = link[k].reused \cup {"attachment reused"}
          /\ q.does = link[k].does /\ q.stage = link[k].stage /\ q.user = link[k].user
          /\ q.sha = link[k].sha /\ q.att = link[k].att /\ q.item = link[k].item
      BY <2>1, MarkedFacts
    <3> HIDE DEF q
    <3> QED BY <2>1, <2>2, <3>1, <3>2
  <2>3. CASE link[k].att # n
    BY <1>5, <1>6, <2>1, <2>3
  <2> QED BY <2>2, <2>3
<1>7. /\ link' \in [Linkers -> LinkRequest \cup {None}]
      /\ Linking' = Linking \ {l}
      /\ \A k \in Linking' : k \in Linkers /\ k # l /\ k \in Linking
  <2>1. \A k \in Linkers : k # l /\ link[k] = None => link'[k] = None
    BY <1>5
  <2>2. \A k \in Linkers : link'[k] \in LinkRequest \cup {None}
    BY <1>5, <1>6, <2>1
  <2>3. Linking' = Linking \ {l}
    BY <1>5, <1>6, <2>1 DEF Linking
  <2> QED BY <1>5, <2>2, <2>3 DEF Linking
<1>8. new \in Attachment
  <2>1. r.user \in Users /\ r.item \in Ids \cup {None} /\ r.reused \in SUBSET Causes
    BY <1>3 DEF LinkRequest
  <2>2. r.sha \in Shas
    BY <1>1, <1>3 DEF LinkRequest, LinkInv, LinkShape
  <2> QED BY <2>1, <2>2 DEF Attachment
<1>9. /\ new.owner = r.user /\ new.item = r.item /\ new.causes = r.reused
  OBVIOUS
<1> HIDE DEF new
<1>10. Attached' = Attached \cup {n} /\ Rows' = Rows
  BY <1>3, <1>4, <1>8 DEF Attached, Rows
<1>11. IInv'
  BY ItemsNext DEF LinkInv
<1>12. LinkedTypeOK'
  <2>1. att' \in [AttIds -> Attachment \cup {None}]
    BY <1>4, <1>8 DEF LinkInv, LinkedTypeOK
  <2> QED BY <1>7, <1>11, <2>1 DEF IInv, LinkedTypeOK
<1>13. LinkShape'
  BY <1>6, <1>7 DEF LinkInv, LinkShape, Linking
<1>14. Tested'
  <2> SUFFICES ASSUME NEW k \in Linking' PROVE Permitted(link[k])'
    BY DEF Tested
  <2>1. Permitted(link[k])
    BY <1>7 DEF LinkInv, Tested
  <2>2. link'[k].att # n => (link'[k].att \in Attached' => link'[k].att \in Attached)
    BY <1>10
  <2>3. \A b \in Attached : b # n => att'[b] = att[b]
    BY <1>4 DEF Attached
  <2>4. /\ link'[k].does = link[k].does /\ link'[k].stage = link[k].stage
        /\ link'[k].user = link[k].user /\ link'[k].att = link[k].att
        /\ link'[k].item = link[k].item
        /\ link[k].reused \subseteq link'[k].reused
        /\ link[k].att = n => "attachment reused" \in link'[k].reused
    BY <1>6, <1>7 DEF Linking
  <2> QED BY <1>3, <1>10, <2>1, <2>2, <2>3, <2>4 DEF Permitted
<1>15. LinksNeverDangle'
  BY <1>3, <1>4, <1>9, <1>10 DEF LinkInv, LinksNeverDangle, Exists, Attached
<1>16. ForeignLinkNeedsCause'
  <2> SUFFICES ASSUME NEW b \in Attached', att'[b].item \in Rows,
                      row[att'[b].item].owner # att'[b].owner
               PROVE  att'[b].causes # {}
    BY <1>3, <1>10 DEF ForeignLinkNeedsCause
  <2>1. CASE b # n
    BY <1>4, <1>10, <2>1 DEF LinkInv, ForeignLinkNeedsCause, Attached
  <2>2. CASE b = n
    BY <1>1, <1>3, <1>4, <1>9, <2>2 DEF LinkInv, Tested, Permitted
  <2> QED BY <2>1, <2>2
<1> QED BY <1>11, <1>12, <1>13, <1>14, <1>15, <1>16 DEF LinkInv

\* DELETE.
LEMMA DeleteStep ==
  ASSUME LinkInv, UNCHANGED vars, NEW l \in Linkers, DeleteAttachment(l)
  PROVE  LinkInv'
<1>1. /\ row' = row /\ past' = past /\ req' = req /\ created' = created
      /\ link[l] \in LinkRequest /\ l \in Linking
      /\ link'[l] = None /\ \A k \in Linkers : k # l => link'[k] = link[k]
      /\ link' \in [Linkers -> LinkRequest \cup {None}]
      /\ \A a \in AttIds : att'[a] = att[a] \/ att'[a] = None
      /\ att' = [a \in AttIds |-> att'[a]]
  BY DEF DeleteAttachment, Writing, LinkInv, LinkedTypeOK, vars, Linking
<1>2. /\ Attached' \subseteq Attached /\ Rows' = Rows /\ Linking' = Linking \ {l}
      /\ \A a \in Attached' : att'[a] = att[a]
      /\ \A k \in Linking' : link'[k] = link[k]
  BY <1>1 DEF Attached, Rows, Linking
<1>3. IInv'
  BY ItemsNext DEF LinkInv
<1>4. LinkedTypeOK'
  <2>1. att' \in [AttIds -> Attachment \cup {None}]
    BY <1>1 DEF LinkInv, LinkedTypeOK
  <2> QED BY <1>1, <1>3, <2>1 DEF IInv, LinkedTypeOK
<1>5. LinkShape'
  BY <1>2 DEF LinkInv, LinkShape
<1>6. Tested'
  <2> SUFFICES ASSUME NEW k \in Linking' PROVE Permitted(link[k])'
    BY DEF Tested
  <2>1. Permitted(link[k])
    BY <1>2 DEF LinkInv, Tested
  <2> QED BY <1>1, <1>2, <2>1 DEF Permitted
<1>7. LinksNeverDangle' /\ ForeignLinkNeedsCause'
  BY <1>1, <1>2 DEF LinkInv, LinksNeverDangle, ForeignLinkNeedsCause, Exists
<1> QED BY <1>3, <1>4, <1>5, <1>6, <1>7 DEF LinkInv

\* The requests start with what they read.
LEMMA LinkNextStep ==
  ASSUME LinkInv, UNCHANGED vars, LinkNext
  PROVE  LinkInv'
<1>1. ASSUME NEW l \in Linkers, NEW u \in Users, NEW a \in AttIds, NEW i \in Ids,
             FindExisting(l, u, a, i)
      PROVE  LinkInv'
  <2> DEFINE r == [does |-> "relink", stage |-> "write", user |-> u, sha |-> None, att |-> a,
                   loaded |-> att[a].item, item |-> i, reused |-> {}]
  <2>1. a \in OwnAttachments(u) /\ Start(l, r) /\ a # None
    BY <1>1 DEF FindExisting
  <2>2. att[a].item \in Ids \cup {None}
    BY <2>1, LinksTyped DEF OwnAttachments, Attachment
  <2>3. r \in LinkRequest
    BY <2>2 DEF LinkRequest
  <2> QED BY <2>1, <2>3, StartStep
<1>2. ASSUME NEW l \in Linkers, NEW u \in Users, NEW a \in AttIds, NEW i \in Ids \cup {None},
             NEW does \in {"link", "delete"}, ReadAttachment(l, u, a, does, i)
      PROVE  LinkInv'
  <2> DEFINE r == [does |-> does, stage |-> IF does = "link" THEN "test" ELSE "write",
                   user |-> u, sha |-> None, att |-> a, loaded |-> att[a].item,
                   item |-> i, reused |-> {}]
  <2>1. a \in OwnAttachments(u) /\ Start(l, r) /\ a # None
    BY <1>2 DEF ReadAttachment
  <2>2. att[a].item \in Ids \cup {None}
    BY <2>1, LinksTyped DEF OwnAttachments, Attachment
  <2>3. r \in LinkRequest
    BY <2>2 DEF LinkRequest
  <2> QED BY <2>1, <2>3, StartStep
<1>3. ASSUME NEW l \in Linkers, NEW u \in Users, NEW s \in Shas, NEW i \in Ids \cup {None},
             FindNone(l, u, s, i)
      PROVE  LinkInv'
  <2> DEFINE r == [does |-> "insert", stage |-> IF i = None THEN "write" ELSE "test",
                   user |-> u, sha |-> s, att |-> None, loaded |-> None, item |-> i,
                   reused |-> {}]
  <2>1. Start(l, r)
    BY <1>3 DEF FindNone
  <2>2. r \in LinkRequest
    BY DEF LinkRequest
  <2> QED BY <2>1, <2>2, StartStep
<1> QED BY <1>1, <1>2, <1>3, TestStep, WriteLinkStep, InsertStep, DeleteStep DEF LinkNext

\* A step of items: deletions clear the links, new items mark the requests that
\* hold their ids.
LEMMA ItemStepStep ==
  ASSUME LinkInv, ItemStep
  PROVE  LinkInv'
<1>1. Next /\ ClearLinks /\ att' = [a \in AttIds |-> att'[a]]
  BY DEF ItemStep, ClearLinks
<1>2. IInv'
  BY <1>1, ItemsNext DEF LinkInv
<1>3. ASSUME NEW i \in Rows, row'[i] # None PROVE row'[i].owner = row[i].owner
  BY <1>1, <1>3, ItemsKept DEF LinkInv
<1>4. ASSUME NEW a \in AttIds
      PROVE  \/ /\ att'[a] = att[a]
                /\ a \in Attached /\ att[a].item # None => row'[att[a].item] # None
             \/ /\ a \in Attached /\ att'[a] \in Attachment
                /\ att'[a].owner = att[a].owner /\ att'[a].item = None
  <2>1. CASE a \in Attached /\ att[a].item # None /\ row'[att[a].item] = None
    <3>1. att[a] \in Attachment
      BY <2>1, LinksTyped
    <3>2. att'[a] = [att[a] EXCEPT !.item = None, !.causes = {}]
      BY <1>1, <2>1 DEF ClearLinks
    <3> QED BY <2>1, <3>1, <3>2 DEF Attachment
  <2>2. CASE ~(a \in Attached /\ att[a].item # None /\ row'[att[a].item] = None)
    BY <1>1, <2>2 DEF ClearLinks
  <2> QED BY <2>1, <2>2
<1>5. Attached' = Attached /\ \A a \in Attached : att'[a].owner = att[a].owner
  BY <1>4 DEF Attached
<1>6. /\ link' = [l \in Linkers |-> link'[l]]
      /\ \A l \in Linkers :
           link'[l] = IF link[l] # None /\ link[l].item # None /\ row[link[l].item] = None
                                        /\ row'[link[l].item] # None
                      THEN [link[l] EXCEPT !.reused = @ \cup {"item reused"}]
                      ELSE link[l]
  BY DEF ItemStep, Reusing
<1>7. ASSUME NEW l \in Linkers, link[l] # None
      PROVE  /\ link[l] \in LinkRequest /\ link'[l] \in LinkRequest
             /\ link'[l].does = link[l].does /\ link'[l].stage = link[l].stage
             /\ link'[l].user = link[l].user /\ link'[l].att = link[l].att
             /\ link'[l].item = link[l].item /\ link'[l].sha = link[l].sha
             /\ link[l].reused \subseteq link'[l].reused
             /\ (link[l].item # None /\ row[link[l].item] = None /\ row'[link[l].item] # None)
                  => "item reused" \in link'[l].reused
  <2>1. link[l] \in LinkRequest /\ "item reused" \in Causes
    BY <1>7 DEF LinkInv, LinkedTypeOK, Causes
  <2>2. CASE link[l].item # None /\ row[link[l].item] = None /\ row'[link[l].item] # None
    <3> DEFINE q == Marked(link[l], "item reused")
    <3>1. link'[l] = q
      BY <1>6, <1>7, <2>2 DEF Marked
    <3>2. /\ q \in LinkRequest /\ q.reused = link[l].reused \cup {"item reused"}
          /\ q.does = link[l].does /\ q.stage = link[l].stage /\ q.user = link[l].user
          /\ q.sha = link[l].sha /\ q.att = link[l].att /\ q.item = link[l].item
      BY <2>1, MarkedFacts
    <3> HIDE DEF q
    <3> QED BY <2>1, <2>2, <3>1, <3>2
  <2>3. CASE ~(link[l].item # None /\ row[link[l].item] = None /\ row'[link[l].item] # None)
    <3>1. link'[l] = link[l]
      BY <1>6, <2>3
    <3> QED BY <2>1, <2>3, <3>1
  <2> QED BY <2>2, <2>3
<1>8. /\ link' \in [Linkers -> LinkRequest \cup {None}]
      /\ Linking' = Linking /\ Linking \subseteq Linkers /\ \A l \in Linking : link[l] # None
  <2>1. \A l \in Linkers : link[l] = None => link'[l] = None
    BY <1>6
  <2>2. \A l \in Linkers : link'[l] \in LinkRequest \cup {None}
    BY <1>7, <2>1
  <2>3. Linking' = Linking
    BY <1>7, <2>1 DEF Linking
  <2> QED BY <1>6, <2>2, <2>3 DEF Linking
<1>9. LinkedTypeOK'
  <2>1. \A a \in AttIds : att'[a] \in Attachment \cup {None}
    BY <1>4 DEF LinkInv, LinkedTypeOK
  <2>2. att' \in [AttIds -> Attachment \cup {None}]
    BY <1>1, <2>1
  <2> QED BY <1>2, <1>8, <2>2 DEF IInv, LinkedTypeOK
<1>10. LinkShape'
  BY <1>7, <1>8 DEF LinkInv, LinkShape
<1>11. Tested'
  <2> SUFFICES ASSUME NEW l \in Linking PROVE Permitted(link[l])'
    BY <1>8 DEF Tested
  <2>1. Permitted(link[l]) /\ l \in Linkers /\ link[l] # None
    BY <1>8 DEF LinkInv, Tested
  <2>2. ASSUME link'[l].att \in Attached', "attachment reused" \notin link'[l].reused
        PROVE  att'[link'[l].att].owner = link'[l].user
    BY <1>5, <1>7, <2>1, <2>2 DEF Permitted
  <2>3. ASSUME link'[l].does \in {"insert", "link"}, link'[l].stage = "write",
               link'[l].item \in Rows', "item reused" \notin link'[l].reused
        PROVE  row'[link'[l].item].owner = link'[l].user
    <3>1. PICK i : i = link[l].item
      OBVIOUS
    <3>2. i \in Ids /\ row'[i] # None /\ link'[l].item = i /\ i # None
      BY <1>7, <2>1, <2>3, <3>1 DEF Rows
    <3>3. i \in Rows
      BY <1>7, <2>1, <2>3, <3>1, <3>2 DEF Rows
    <3> QED BY <1>3, <1>7, <2>1, <2>3, <3>1, <3>2, <3>3 DEF Permitted
  <2> QED BY <2>2, <2>3 DEF Permitted
<1>12. ASSUME NEW a \in Attached PROVE \/ att'[a].item = None
                                       \/ /\ att'[a] = att[a] /\ att[a].item \in Rows
                                          /\ row'[att[a].item] # None
  BY <1>4, <1>12 DEF LinkInv, LinksNeverDangle, Exists, Attached
<1>13. LinksNeverDangle'
  BY <1>5, <1>12 DEF LinksNeverDangle, Exists, Rows
<1>14. ForeignLinkNeedsCause'
  <2> SUFFICES ASSUME NEW a \in Attached, att'[a].item \in Rows',
                      row'[att'[a].item].owner # att'[a].owner
               PROVE  att'[a].causes # {}
    BY <1>5 DEF ForeignLinkNeedsCause
  <2>1. att'[a].item # None
    BY DEF Rows
  <2>2. att'[a] = att[a] /\ att[a].item \in Rows /\ row'[att[a].item] # None
    BY <1>12, <2>1
  <2> QED BY <1>3, <2>2 DEF LinkInv, ForeignLinkNeedsCause
<1> QED BY <1>2, <1>9, <1>10, <1>11, <1>13, <1>14 DEF LinkInv

LEMMA LinkedNextStep == ASSUME LinkInv, [LinkedNext]_<<vars, linkVars>> PROVE LinkInv'
<1>1. CASE UNCHANGED <<vars, linkVars>>
  <2>1. IInv'
    BY <1>1, ItemsNext DEF LinkInv
  <2> QED BY <1>1, <2>1 DEF vars, linkVars, LinkInv, LinkedTypeOK, IInv, LinkShape, Tested,
               Permitted, LinksNeverDangle, ForeignLinkNeedsCause, Exists, Linking, Attached,
               Rows
<1> QED BY <1>1, ItemStepStep, LinkNextStep DEF LinkedNext

LEMMA LinkedStart == LinkedInit => LinkInv
  BY ItemsInit DEF LinkedInit, LinkInv, LinkedTypeOK, IInv, LinkShape, Tested,
                   LinksNeverDangle, ForeignLinkNeedsCause, Linking, Attached

-----------------------------------------------------------------------------
(* Theorems.                                                               *)

\* IInv holds of the items in every state.
THEOREM ItemsInductive == Spec => []IInv
<1> QED BY ItemsInit, ItemsNext, PTL DEF Spec

\* A statement goes from a decision only by an authorised rewrite, by requests
\* that overlap, or by the reuse of an id (service.py:136-156).
THEOREM StatementsAreKept == Spec => []LossNeedsOverlap
<1>1. IInv => LossNeedsOverlap
  BY DEF IInv
<1> QED BY <1>1, ItemsInductive, PTL

\* Only the reuse of an id lets a request change or delete an item of another
\* user: the item that it loaded is then gone (service.py:70-77, :130-177).
THEOREM ItemsAreOwn == Spec => MeddlingNeedsReuse
<1>1. ASSUME IInv, [Next]_vars
      PROVE  [\A w \in Busy :
                (req'[w] = None /\ req[w].id \in Rows /\ row'[req[w].id] # row[req[w].id])
                  => \/ row[req[w].id].owner = req[w].user
                     \/ row[req[w].id].is # req[w].is]_vars
  BY <1>1 DEF IInv, Loaded
<1> QED BY <1>1, ItemsInductive, PTL DEF Spec, MeddlingNeedsReuse

\* A done item is reopened only by a request that had loaded a done item.
THEOREM CompletionIsKept == Spec => DoneStaysDone
<1>1. ASSUME IInv, [Next]_vars
      PROVE  [\A i \in Rows :
                (row[i].status = "done" /\ row'[i] # None /\ row'[i].status = "open")
                  => \E w \in Busy :
                       req'[w] = None /\ req[w].id = i /\ req[w].loaded.status = "done"]_vars
  BY <1>1, ItemsKept
<1> QED BY <1>1, ItemsInductive, PTL DEF Spec, DoneStaysDone

\* Attachments leave the items as they are: what holds of Items alone holds of
\* the composition.
THEOREM AttachmentsLeaveItems == LinkedSpec => Spec
<1>1. LinkedInit => Init
  BY DEF LinkedInit
<1>2. [LinkedNext]_<<vars, linkVars>> => [Next]_vars
  BY DEF LinkedNext, ItemStep
<1> QED BY <1>1, <1>2, PTL DEF LinkedSpec, Spec

\* LinkInv holds of items and attachments in every state.
THEOREM LinksInductive == LinkedSpec => []LinkInv
<1> QED BY LinkedStart, LinkedNextStep, PTL DEF LinkedSpec

\* The tables and the requests have their types.
THEOREM LinksTypeCorrect == LinkedSpec => []LinkedTypeOK
<1>1. LinkInv => LinkedTypeOK
  BY DEF LinkInv
<1> QED BY <1>1, LinksInductive, PTL

\* No attachment names an item that is gone (attachments.py:346-405).
THEOREM LinksHold == LinkedSpec => []LinksNeverDangle
<1>1. LinkInv => LinksNeverDangle
  BY DEF LinkInv
<1> QED BY <1>1, LinksInductive, PTL

\* An attachment is part of another user's item only by deduplication or by the
\* reuse of an id (attachments.py:346-363, :394-405).
THEOREM ForeignLinkHasCause == LinkedSpec => []ForeignLinkNeedsCause
<1>1. LinkInv => ForeignLinkNeedsCause
  BY DEF LinkInv
<1> QED BY <1>1, LinksInductive, PTL

\* Only the reuse of an id lets a request change another user's attachment
\* (attachments.py:411-418).
THEOREM AttachmentsBelong == LinkedSpec => AttachmentsAreOwn
<1>1. ASSUME LinkInv, [LinkedNext]_<<vars, linkVars>>
      PROVE  [\A l \in Linkers :
                (link[l] # None /\ link'[l] = None /\ link[l].att \in Attached
                   /\ att'[link[l].att] # att[link[l].att])
                => \/ att[link[l].att].owner = link[l].user
                   \/ "attachment reused" \in link[l].reused]_<<vars, linkVars>>
  BY <1>1 DEF LinkInv, Tested, Permitted, Linking
<1> QED BY <1>1, LinksInductive, PTL DEF LinkedSpec, AttachmentsAreOwn
=============================================================================
