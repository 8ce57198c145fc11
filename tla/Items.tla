------------------------------- MODULE Items -------------------------------
(***************************************************************************)
(* The items table: create_item, update_item, complete_item, delete_item   *)
(* and undo_last of src/mypa/service.py, called by src/mypa/routes/items.py*)
(* on thread-pool threads of mypa-api and by the pa_ tools of              *)
(* src/mypa/mcp_server.py in mypa-mcp.                                     *)
(*                                                                         *)
(* All but create_item first load a row through the ORM, then write in a   *)
(* transaction of their own: WHERE id = the loaded id, and only the        *)
(* columns that now differ from what was loaded.                           *)
(*                                                                         *)
(* A body is the set of statements in it; "contains verbatim" is inclusion.*)
(* Of the other columns, status stands for those that update_item sets     *)
(* without a test.  Requests without a user, and items without one, are    *)
(* left out.                                                               *)
(***************************************************************************)
EXTENDS Naturals, FiniteSets

CONSTANTS
  Users,
  Workers,    \* requests at a time
  Statements, \* what bodies are made of
  MaxItems,   \* items ever created (a bound)
  MaxId,      \* items ever present at once (a bound)
  None

ASSUME ItemsAssumption == MaxItems \in Nat /\ MaxId \in Nat

VARIABLES
  row,      \* the items table, by id; None where there is no row
  req,      \* what each worker has loaded and is about to write
  created,  \* how many items have been created: created_at, and which item
  past      \* history, of the item at each id: the statements its body has ever
            \* had, and what has happened to it

vars == <<row, req, created, past>>

Ids == 1 .. MaxId
Born == 1 .. MaxItems
Kinds == {"decision", "note"}
Statuses == {"open", "done"}
Bodies == SUBSET Statements

Row == [is : Born, owner : Users, kind : Kinds, body : Bodies, status : Statuses]

\* A request in flight: what it loaded, and the columns as set on it.
Request == [does : {"write", "rewrite", "delete"}, user : Users, id : Ids, is : Born,
            loaded : [body : Bodies, status : Statuses],
            set : [body : Bodies, status : Statuses]]

\* rewritten: its body was replaced by an authorised rewrite.  overlapped: two
\* requests held it at a time.  displaced: it was given an id that a request
\* held.
Events == {"rewritten", "overlapped", "displaced"}
Past == [said : Bodies, events : SUBSET Events]

ASSUME ItemsNoneAssumption == None \notin Row \cup Request \cup Past

TypeOK ==
  /\ row \in [Ids -> Row \cup {None}]
  /\ req \in [Workers -> Request \cup {None}]
  /\ created \in 0 .. MaxItems
  /\ past \in [Ids -> Past \cup {None}]

Init ==
  /\ row = [i \in Ids |-> None]
  /\ req = [w \in Workers |-> None]
  /\ created = 0
  /\ past = [i \in Ids |-> None]

Rows == {i \in Ids : row[i] # None}
NextId == 1 + (IF Rows = {} THEN 0 ELSE CHOOSE i \in Rows : \A j \in Rows : j <= i)
Busy == {w \in Workers : req[w] # None}
When(condition, event) == IF condition THEN {event} ELSE {}

\* get_item: the row, if it is the user's.
VisibleToAll(u) == Rows \* mutant: the scope check is dropped
Visible(u) == {i \in Rows : row[i].owner = u}

Columns(i) == [body |-> row[i].body, status |-> row[i].status]

\* A worker loads a row and will write the given columns of it, or delete it.
Load(w, u, i, does, set) ==
  /\ req[w] = None
  /\ req' = [req EXCEPT ![w] = [does |-> does, user |-> u, id |-> i, is |-> row[i].is,
                                loaded |-> Columns(i), set |-> set]]
  /\ past' = [past EXCEPT ![i].events =
       @ \cup When(\E v \in Busy : req[v].is = row[i].is, "overlapped")]
  /\ UNCHANGED <<row, created>>

-----------------------------------------------------------------------------
\* create_item: INSERT, commit.
CreateFor(u, kind, body) ==
  /\ created < MaxItems /\ NextId \in Ids
  /\ created' = created + 1
  /\ row' = [row EXCEPT ![NextId] = [is |-> created + 1, owner |-> u, kind |-> kind,
                                     body |-> body, status |-> "open"]]
  /\ past' = [past EXCEPT ![NextId] = [said |-> body, events |->
                When(\E w \in Busy : req[w].id = NextId, "displaced")]]
  /\ UNCHANGED req

CreateUnowned(u, kind, body) == CreateFor(None, kind, body) \* mutant: no user_id
Create(u, kind, body) == CreateFor(u, kind, body)

\* The rule for decisions: the loaded body stays.
AppendsAny(i, body) == TRUE \* mutant: the rule is dropped
Appends(i, body) == row[i].kind = "decision" => row[i].body \subseteq body

\* update_item of body, status or both, up to its commit.  (One that sets what
\* is there already only moves updated_at.)
BeginUpdate(w, u, i, set) ==
  /\ i \in Visible(u)
  /\ set # Columns(i)
  /\ Appends(i, set.body)
  /\ Load(w, u, i, "write", set)

\* The same, let through by allow_history_rewrite.
BeginRewrite(w, u, i, set) ==
  /\ i \in Visible(u)
  /\ ~Appends(i, set.body)
  /\ Load(w, u, i, "rewrite", set)

\* complete_item.
BeginComplete(w, u, i) ==
  /\ i \in Visible(u)
  /\ Load(w, u, i, "write", [Columns(i) EXCEPT !.status = "done"])

\* delete_item.
BeginDelete(w, u, i) ==
  /\ i \in Visible(u)
  /\ Load(w, u, i, "delete", Columns(i))

\* undo_last: the newest item of the user's.
BeginUndo(w, u, i) ==
  /\ i \in Visible(u)
  /\ \A j \in Visible(u) : row[j].is <= row[i].is
  /\ Load(w, u, i, "delete", Columns(i))

\* The commit of an update: the columns that differ from what was loaded, of
\* whichever item has the id now.
WrittenWhole(r) == \* mutant: the whole loaded row is written back
  [row[r.id] EXCEPT !.body = r.set.body, !.status = r.set.status]

Written(r) ==
  [row[r.id] EXCEPT !.body = IF r.set.body = r.loaded.body THEN @ ELSE r.set.body,
                    !.status = IF r.set.status = r.loaded.status THEN @ ELSE r.set.status]

FinishWrite(w) ==
  /\ req[w] # None /\ req[w].does # "delete"
  /\ req[w].id \in Rows
  /\ row' = [row EXCEPT ![req[w].id] = Written(req[w])]
  /\ past' = [past EXCEPT
       ![req[w].id] = [said |-> @.said \cup Written(req[w]).body,
                       events |-> @.events \cup When(req[w].does = "rewrite", "rewritten")]]
  /\ req' = [req EXCEPT ![w] = None]
  /\ UNCHANGED created

\* The commit of a deletion: DELETE WHERE id.
FinishDelete(w) ==
  /\ req[w] # None /\ req[w].does = "delete"
  /\ row' = [row EXCEPT ![req[w].id] = None]
  /\ past' = [past EXCEPT ![req[w].id] = None]
  /\ req' = [req EXCEPT ![w] = None]
  /\ UNCHANGED created

\* The process dies, the write finds the database locked, or the UPDATE finds
\* no row and the ORM raises.
Abort(w) ==
  /\ req[w] # None
  /\ req' = [req EXCEPT ![w] = None]
  /\ UNCHANGED <<row, created, past>>

Next ==
  \/ \E u \in Users, kind \in Kinds, body \in Bodies : Create(u, kind, body)
  \/ \E w \in Workers, u \in Users, i \in Ids :
       \/ \E set \in [body : Bodies, status : Statuses] :
            BeginUpdate(w, u, i, set) \/ BeginRewrite(w, u, i, set)
       \/ BeginComplete(w, u, i) \/ BeginDelete(w, u, i) \/ BeginUndo(w, u, i)
  \/ \E w \in Workers : FinishWrite(w) \/ FinishDelete(w) \/ Abort(w)

Spec == Init /\ [][Next]_vars

-----------------------------------------------------------------------------
(* What the code promises.                                                 *)

Lost(i) == row[i].kind = "decision" /\ ~(past[i].said \subseteq row[i].body)

\* A statement goes from a decision only by an authorised rewrite, or if two
\* requests held the item at a time, or if it was given the id of an item
\* deleted under a request (service.py:136-156).
LossNeedsOverlap ==
  \A i \in Rows : Lost(i) =>
    past[i].events \cap {"rewritten", "overlapped", "displaced"} # {}

\* An item is changed or deleted by requests of its owner only, or by one that
\* loaded an earlier item of the same id, which was deleted under it
\* (service.py:70-77, :130-177).
MeddlingNeedsReuse ==
  [][\A w \in Busy :
       (req'[w] = None /\ req[w].id \in Rows /\ row'[req[w].id] # row[req[w].id])
         => \/ row[req[w].id].owner = req[w].user
            \/ row[req[w].id].is # req[w].is]_vars

\* Whatever overlaps, a done item is reopened only by the write of a request that
\* loaded a done item: an update of the body does not undo a completion in between.
DoneStaysDone ==
  [][\A i \in Rows :
       (row[i].status = "done" /\ row'[i] # None /\ row'[i].status = "open")
         => \E w \in Busy :
              req'[w] = None /\ req[w].id = i /\ req[w].loaded.status = "done"]_vars
=============================================================================
