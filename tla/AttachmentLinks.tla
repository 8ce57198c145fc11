-------------------------- MODULE AttachmentLinks --------------------------
(***************************************************************************)
(* Attachments as parts of items: Items composed with the rows of          *)
(* src/mypa/attachments.py and their item_id, which create_attachment and  *)
(* link_to_item set and a deletion of the item clears (ON DELETE SET NULL).*)
(* Blobs, quotas and months are in the module Attachments.                 *)
(*                                                                         *)
(* Uploads come from POST /attachments, with or without an item, and from  *)
(* pa_attach_image, with one.  Each function reads the attachment, then    *)
(* the item, then writes; the database enforces the foreign key and        *)
(* UNIQUE(user_id, sha256).                                                *)
(***************************************************************************)
EXTENDS Items

CONSTANTS
  Shas,     \* contents
  Linkers,  \* requests about attachments at a time
  MaxAtt    \* attachments ever present at once (a bound)

ASSUME AttachmentLinksAssumption == MaxAtt \in Nat

VARIABLES
  att,   \* the attachments table, by id; None where there is no row
  link   \* what each linker has read and is about to do

linkVars == <<att, link>>

AttIds == 1 .. MaxAtt

\* causes is history: how the link came about without a test of the item that
\* it names.
Causes == {"deduplicated", "item reused", "attachment reused"}
Attachment == [owner : Users, sha : Shas, item : Ids \cup {None}, causes : SUBSET Causes]

\* A request: loaded is the item_id it read.  reused is history: the ids it
\* holds that were given to a new row meanwhile.
LinkRequest ==
  [does : {"relink", "insert", "link", "delete"}, stage : {"test", "write"}, user : Users,
   sha : Shas \cup {None}, att : AttIds \cup {None}, loaded : Ids \cup {None},
   item : Ids \cup {None}, reused : SUBSET Causes]

ASSUME LinksNoneAssumption ==
  None \notin Ids \cup AttIds \cup Shas \cup Attachment \cup LinkRequest

LinkedTypeOK ==
  /\ TypeOK
  /\ att \in [AttIds -> Attachment \cup {None}]
  /\ link \in [Linkers -> LinkRequest \cup {None}]

LinkedInit ==
  /\ Init
  /\ att = [a \in AttIds |-> None]
  /\ link = [l \in Linkers |-> None]

Attached == {a \in AttIds : att[a] # None}
NextAtt == 1 + (IF Attached = {} THEN 0 ELSE CHOOSE a \in Attached : \A b \in Attached : b <= a)

\* get_attachment: the row, if it is the user's.
AnyAttachment(u) == Attached \* mutant: the scope check is dropped
OwnAttachments(u) == {a \in Attached : att[a].owner = u}

Start(l, request) ==
  /\ link[l] = None
  /\ link' = [link EXCEPT ![l] = request]
  /\ UNCHANGED att

-----------------------------------------------------------------------------
(* create_attachment, from the look-up of the content on.                  *)

\* The user has the content: its row is linked to the item, untested.
FindExisting(l, u, a, item) ==
  /\ a \in OwnAttachments(u)
  /\ item \notin {None, att[a].item}
  /\ Start(l, [does |-> "relink", stage |-> "write", user |-> u, sha |-> None, att |-> a,
               loaded |-> att[a].item, item |-> item, reused |-> {}])

FindNone(l, u, s, item) ==
  /\ \A a \in OwnAttachments(u) : att[a].sha # s
  /\ Start(l, [does |-> "insert", stage |-> IF item = None THEN "write" ELSE "test",
               user |-> u, sha |-> s, att |-> None, loaded |-> None, item |-> item,
               reused |-> {}])

\* link_to_item and DELETE: the attachment is read first.
ReadAttachment(l, u, a, does, item) ==
  /\ a \in OwnAttachments(u)
  /\ Start(l, [does |-> does, stage |-> IF does = "link" THEN "test" ELSE "write",
               user |-> u, sha |-> None, att |-> a, loaded |-> att[a].item,
               item |-> item, reused |-> {}])

\* The item must be there and be the user's, or the request is refused.
TestNothing(l) == \* mutant: any item will do
  /\ link[l] # None /\ link[l].stage = "test"
  /\ link' = [link EXCEPT ![l].stage = "write"]
  /\ UNCHANGED att

TestItem(l) ==
  /\ link[l] # None /\ link[l].stage = "test"
  /\ link' = [link EXCEPT ![l] = IF link[l].item \in Visible(link[l].user)
                                 THEN [@ EXCEPT !.stage = "write"] ELSE None]
  /\ UNCHANGED att

Writing(l, does) == link[l] # None /\ link[l].stage = "write" /\ link[l].does \in does

\* The foreign key.
Exists(item) == item = None \/ item \in Rows

\* UPDATE attachments SET item_id WHERE id, commit; nothing is written if the
\* item_id was this one when the row was read.
WriteLink(l) ==
  /\ Writing(l, {"relink", "link"})
  /\ LET r == link[l]
     IN  \/ r.item = r.loaded /\ UNCHANGED att
         \/ /\ r.item # r.loaded
            /\ r.att \in Attached /\ Exists(r.item)
            /\ att' = [att EXCEPT
                 ![r.att].item = r.item,
                 ![r.att].causes = r.reused \cup When(r.does = "relink", "deduplicated")]
  /\ link' = [link EXCEPT ![l] = None]

\* Requests that hold an id, when a new row is given it.
Reusing(requests, holds(_), cause) ==
  [l \in Linkers |-> IF requests[l] # None /\ holds(requests[l])
                     THEN [requests[l] EXCEPT !.reused = @ \cup {cause}] ELSE requests[l]]

\* INSERT, commit; UNIQUE(user_id, sha256) may refuse it.
InsertAttachment(l) ==
  /\ Writing(l, {"insert"}) /\ NextAtt \in AttIds
  /\ LET r == link[l]
         Holds(q) == q.att = NextAtt
     IN  /\ Exists(r.item)
         /\ \A a \in OwnAttachments(r.user) : att[a].sha # r.sha
         /\ att' = [att EXCEPT ![NextAtt] = [owner |-> r.user, sha |-> r.sha,
                                             item |-> r.item, causes |-> r.reused]]
         /\ link' = Reusing([link EXCEPT ![l] = None], Holds, "attachment reused")

\* DELETE WHERE id, commit.
DeleteAttachment(l) ==
  /\ Writing(l, {"delete"})
  /\ att' = [att EXCEPT ![link[l].att] = None]
  /\ link' = [link EXCEPT ![l] = None]

\* The process dies, the database is locked, a constraint refuses the write, or
\* the row is gone.
AbortLink(l) ==
  /\ link[l] # None
  /\ link' = [link EXCEPT ![l] = None]
  /\ UNCHANGED att

LinkNext ==
  \E l \in Linkers :
    \/ \E u \in Users, a \in AttIds :
         \/ \E i \in Ids : FindExisting(l, u, a, i) \/ ReadAttachment(l, u, a, "link", i)
         \/ ReadAttachment(l, u, a, "delete", None)
    \/ \E u \in Users, s \in Shas, i \in Ids \cup {None} : FindNone(l, u, s, i)
    \/ TestItem(l) \/ WriteLink(l) \/ InsertAttachment(l) \/ DeleteAttachment(l) \/ AbortLink(l)

-----------------------------------------------------------------------------
(* The composition.                                                        *)

\* A deletion of items, row to row', clears the links to them.
KeepLinks == att' = att \* mutant: foreign keys are not enforced
ClearLinks ==
  att' = [a \in AttIds |->
    IF a \in Attached /\ att[a].item # None /\ row'[att[a].item] = None
    THEN [att[a] EXCEPT !.item = None, !.causes = {}] ELSE att[a]]

ItemStep ==
  /\ Next
  /\ ClearLinks
  /\ LET Holds(q) == q.item # None /\ row[q.item] = None /\ row'[q.item] # None
     IN  link' = Reusing(link, Holds, "item reused")

LinkedNext == ItemStep \/ (LinkNext /\ UNCHANGED vars)

LinkedSpec == LinkedInit /\ [][LinkedNext]_<<vars, linkVars>>

-----------------------------------------------------------------------------
(* What the code promises.                                                 *)

\* "Both must belong to user": an attachment is part of another user's item
\* only through the deduplication of an upload, or because an id that the
\* request held was given to a new row (attachments.py:346-363, :394-405).
ForeignLinkNeedsCause ==
  \A a \in Attached :
    att[a].item \in Rows /\ row[att[a].item].owner # att[a].owner => att[a].causes # {}

\* A link never names an item that is gone, whatever is deleted under an upload
\* or a link request.
LinksNeverDangle == \A a \in Attached : Exists(att[a].item)

\* An attachment is changed or deleted by requests of its owner only, unless it
\* was given the id of one deleted under the request (attachments.py:411-418).
AttachmentsAreOwn ==
  [][\A l \in Linkers :
       (link[l] # None /\ link'[l] = None /\ link[l].att \in Attached
          /\ att'[link[l].att] # att[link[l].att])
       => \/ att[link[l].att].owner = link[l].user
          \/ "attachment reused" \in link[l].reused]_<<vars, linkVars>>
=============================================================================
