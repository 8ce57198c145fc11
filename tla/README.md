# MyPA: specification and verification

MyPA is a self-hosted personal assistant: todos, events, reminders and
attachments in one SQLite (SQLCipher) database, a REST API, an MCP server for
chat assistants, an OAuth server that lets those assistants in, and push
notifications through ntfy. This directory holds TLA+ models of its stateful
parts, the TLC runs that check them, and TLAPS proofs about them.

## The system

Two processes share one database file (WAL mode) and one blob directory:

- **mypa-api**, one uvicorn process (`deploy/mypa-api.service`). Routes that are
  plain functions run on thread-pool threads; coroutine routes (the OAuth
  endpoints, attachment upload) run on the event loop; two APScheduler jobs run
  on a background thread.
- **mypa-mcp**, whose tools call the same `service`, `users` and `attachments`
  functions.

There are also operator processes: scripts (migrations among them), and the shell in which
the operator disables a user. The function for that, `disable_user`, is called by no script
and no route; `docs/ADMIN_GUIDE.md:195-205` has an UPDATE in sqlcipher instead.

CREATE and ALTER are committed one by one. A SELECT runs outside any transaction; the first
INSERT, UPDATE or DELETE opens one and takes the single write lock until the commit. **So a function that
reads, decides and then writes is at least two steps, and anything may happen
in between**: the modules have one action per such step.

| Component | State | Operations | What is hard | What makes it correct |
|---|---|---|---|---|
| OAuth sessions (`oauth.py`, `routes/oauth.py`, `routes/auth_routes.py`) | codes; refresh tokens with family and parent; used, revoked, expired | login, authorize, code exchange, refresh, reuse detection | check-then-act on every row; threads against the event loop; `disable_user` in the middle | one session per code; a token is exchanged once; reuse ends the family; an ended session stays ended |
| Attachments (`attachments.py`, `routes/attachments.py`) | rows with an item each; blob files shared between users | upload (validate, store, deduplicate, insert), delete, link, read | file and row change in separate steps; reused row ids, of items too; months in paths | a row has its blob; the quota; a user's rows are the user's, and so are the items they belong to |
| Reminder dispatcher (`scheduler.dispatch_reminders`, `notifier.py`) | reminders; per-tick cache; uncommitted marks | select, load settings, push, mark, commit | lost answers, crashes, rows and settings changed under a tick; LIMIT; text timestamps | pushed once, on time, never lost |
| Digest dispatcher (`scheduler.dispatch_digests`) | `last_digest_at`; the rows a tick has selected; uncommitted marks | select, decide, count, push, mark, commit | time zones whose clocks change; settings changed under a tick; the same text comparison | one digest a local day, no more, no fewer; everything due today is in it |
| Users (`users.py`) | users, `disabled_at`, topic, preferences | create, disable, rotate topic, preferences | read-modify-write of JSON | a patch is not lost |
| ntfy accounts (`ntfy_admin.py`) | accounts in ntfy beside the rows | add, remove, change password by CLI | row and account change separately | a disabled or rotated account cannot receive |
| Login throttle (`auth_routes.py:28-70`) | failures per address and email, in memory | check, record, clear | three critical sections; a restart forgets | a bound on attempts; no refusal without cause |
| Items (`service.py`, `routes/items.py`) | items, their reminders | create, update, complete, delete, undo | read-modify-write; reused row ids; undo of "the last" | decisions only grow; nobody changes another's item |
| Bearer authentication (`auth.py`) | none (JWT, static tokens) | classify, resolve user | tokens outlive their user | who a request acts for |
| MCP server (`mcp_server.py`) | none of its own | tools over the above | it is a second process | as above |
| Migrations and containers (`apply_migrations.py`, `init_db.py`, `setup.sh`, `docker/`) | the schema; `schema_versions`; which containers are up | start, read the record, execute a statement, record a file, serve | each statement is on disk at once, the record is not; several runs; restarts | what is recorded is applied; nothing serves before; a restart completes |
| Audit, database glue, other scripts, site | log lines | | | |

## Modules

| Module | What it is |
|---|---|
| `OAuthSessions` | the OAuth component: state, actions, properties |
| `SessionChain` | abstract: a session is a chain of secrets of which one is current |
| `OAuthSessionChain` | the refinement mapping from connector sessions to `SessionChain` |
| `MCOAuthSessions` | TLC instance; three configurations |
| `Attachments`, `MCAttachments` | rows and blobs; one configuration |
| `Reminders`, `MCReminders` | the reminder dispatcher; four configurations |
| `Digests`, `MCDigests` | the digest dispatcher and the settings it reads; one configuration |
| `NtfyAccounts`, `MCNtfyAccounts` | users' rows and their accounts in the ntfy server; one configuration |
| `Items` | the items table |
| `AttachmentLinks`, `MCItems` | composes `Items` with the attachments table and its `item_id`; one configuration |
| `Migrations`, `MCMigrations` | the schema, its record, who applies the files, and the containers; one configuration |
| `LoginThrottle` | the failures of one address and email |
| `ApiContainer`, `MCContainer` | composes the two: a container migrates, then serves logins; one configuration |

| Module of proofs | Of which modules |
|---|---|
| `OAuthSessionsProofs` | `OAuthSessions` |
| `OAuthSessionChainProofs` | `OAuthSessionChain`: the refinement of `SessionChain` |
| `AttachmentsProofs` | `Attachments` |
| `RemindersProofs` | `Reminders` |
| `DigestsProofs` | `Digests` |
| `NtfyAccountsProofs` | `NtfyAccounts` |
| `AttachmentLinksProofs` | `Items`, `AttachmentLinks` and that the second implements the first |
| `ApiContainerProofs` | `Migrations`, `LoginThrottle`, `ApiContainer` and that it implements `Migrations` |

The properties of the violation runs stand at the end of a module, and quote the
document or comment they are from.
Operators commented `mutant:` are wrong variants of the operator that follows, used to
confirm that each property can fail. No specification uses them.

### OAuthSessions

`code`, `token` and `rows` are the two tables. `token` keeps what a row was
inserted with even after its DELETE, so that properties can speak of the past;
`rows` says which rows exist. `used`, `revoked` and `expired` are the columns
of the same meaning. `req` is what each worker holds of the request it is in
the middle of: the values the code carries from a SELECT to its next write.
Threads serve the dashboard client, `EventLoop` serves connectors; the
coroutines do not suspend between their accesses, so the event loop is one
worker. A family is named after its first token.

| Action | Code |
|---|---|
| `Login`, `IssueSession` | `login`: `authenticate`, then `issue_refresh_token` |
| `Authorize`, `IssueCode` | `authorize_post`: `authenticate`, then `issue_code` |
| `ReadCode`, `SpendCode`, `IssueSession` | `token_endpoint`: `consume_code` (SELECT; UPDATE), then `issue_refresh_token` |
| `ReadToken`, then `Rotate` or `RevokeFamily` | `consume_refresh_token`: SELECT; then the happy path's or the reuse branch's transaction |
| `Abort` | the process dies, or a write finds the database locked |
| `DisableUser`, `ExpireCode`, `ExpireToken` | `disable_user`; the clock |

A refused request writes nothing and is not a step. Left out: scopes (copied
along), JWT contents, client registration, hashing (secrets are model values).

### Attachments

`file` is what is at each (month, sha256) path (`absent`, `partial`, `whole`), `row` the
table by id, with SQLite's reuse of the largest id. An upload is `BeginUpload`
(validation and quota), `ProbeBlob` (`path.exists`), `OpenBlob` and `WriteBlob`
(`write_bytes` truncates, then writes), `FindRow` (deduplication), `InsertRow`.
A deletion is `BeginDelete`, `DeleteRow`, `CountReferences`, `UnlinkBlob`.
`disturbed` is a history variable: contents on which two requests overlapped
or whose write was cut short. Content is its sha256, each of one quota unit.

### Reminders

`row` is the table, `settings` the two columns of `users` that matter, `tick`
the local variables of `dispatch_reminders`: the fetched batch, the cache of
settings (`known`), the uncommitted marks, and whether the transaction holds
the write lock (`locked`), while which every other writer waits or fails. `Skip`,
`PushFails` and `PushUnanswered` are the branches that leave a row unmarked.
`Abandon` is a crash, or the locked database at the first UPDATE: everything
uncommitted is lost. Rows without a user are as rows of a user without topic
(topic 0). Deleting an item takes its reminders with it (`DeleteItem`).

`Due` is the comparison of the two texts: the stored one has a space where
`isoformat()` has a T, so only the dates count, and the stored text has lost
its offset. History: `faults`, `fate`, `changed`, and `is`, the identity of a
row's reminder across reuse of its id.

### NtfyAccounts

`topic`, `token` and `disabled` are columns of `users`, `account` is the ntfy
server's user table, and `req` what each process is in the middle of. An
operation is a `Begin` action, commands of the ntfy CLI (`AddAccount`,
`GrantAccess`, `ChangePassword`, `RemoveAccount`), and its write (`InsertUser`,
`SetTopic`, `SetDisabled`, `SetToken`). `CommandFails` covers a command that is
carried out and times out; `Abort` is a crash at any step, a failed write, or a removal
that failed and was only logged; a command that was carried out before its process was lost
is that command's step, then `Abort`. `DisableByHand` is the UPDATE of the administrator's
guide: it sets `disabled_at` and knows nothing of the account. A stored password is named after the topic
whose account it opens. `causes` is a history variable: what has gone wrong
for a user, as the comment at `Causes` lists it. Left out: deployments without
ntfy user management, and two operator processes at once.

### Items

`row` is the table, `req` what a request of `update_item`, `complete_item`,
`delete_item` or `undo_last` has loaded and is about to write; each is a `Begin`
action (load and test) and a `FinishWrite` or `FinishDelete` (the commit).
`Written` is the ORM's UPDATE: the columns that differ from what was loaded, of
whichever row has the id by then. (So is its DELETE.) A body is a set of statements, so that "must
contain the existing body verbatim" is inclusion; among the columns without a
rule of their own, `status` stands for all. History: `past`, which starts
anew with every item. Left out: items and requests without a user, the filter of
`undo_last` by source (it then deletes an item that `BeginDelete` could delete), and the
`DELETE FROM items WHERE user_id = N` that an operator may type (`docs/ADMIN_GUIDE.md:392`).

### AttachmentLinks

`att` is the attachments table by id (owner, content, item) and `link` what each
request about attachments has read and is about to do. The three functions
are three steps each:

| Action | Code |
|---|---|
| `FindExisting`, then `WriteLink` | `create_attachment` of a content the user has: its row gets the item, which nothing tests |
| `FindNone`, `TestItem`, then `InsertAttachment` | `create_attachment` of a new content; without an item nothing is tested |
| `ReadAttachment`, `TestItem`, then `WriteLink` | `link_to_item` |
| `ReadAttachment`, then `DeleteAttachment` | `delete_attachment` |
| `ItemStep` | a step of `Items`; a deletion clears the links (`ON DELETE SET NULL`) |

The database refuses a link to an item that is gone, and a second row of one
content. History: `causes` of a link and `reused` of a request, which say when
an id that the request holds was given to a new row. `POST /attachments` is
a coroutine and `pa_attach_image` runs in the other process; links and
deletions run on threads, so any two requests may overlap.

### Digests

`tick` is what `dispatch_digests` holds: its time, the rows it selected (`seen`)
and the uncommitted marks, while which the write lock is held. `Skip` is each
`continue` of the loop; `PushAcknowledged`, `PushFails` and `PushUnanswered` are the
outcomes of `publish`; `Commit` makes every `last_digest_at` visible at once.
`ReadSettings` and `WriteSettings` are the two halves of `set_notify_prefs`, which
merges the patch into preferences it read outside the transaction.

A zone is a pair of offsets and the instant of the change, so clocks go back or
forward. `SentToday` compares as Python does: two aware times of the same zone
are compared by wall time. `AtWall` is a wall time back in UTC; where the wall shows
it twice or never, the fold decides, which `replace(hour=0)` and `replace(hour=23)` keep
from the time of the tick. So `DayStart` and `DayEnd` depend on when in the day the digest is sent.

`Stored` is what the column `due_at` shows: SQLAlchemy's DateTime drops the offset that the
client gave, so an item due on 2026-05-23T05:00+09:00 is stored as 05:00 of the 23rd,
though it is due on the 22nd in UTC. `CountedToday` and `CountedOverdue` compare that text
with the bounds of the day: whatever is stored on the date of `day_start_utc` is less than it.
For a user in UTC that is the whole of today: nothing is ever "due today", all of it is
"overdue" (see Findings). Another case is in `TodayIsCounted` (`GoesForward`): on the
day that London's clocks go forward, its day ends an hour early in UTC, so what is due in the
first hour of tomorrow is "overdue" today.

### Migrations

`schema` is the set of tables and columns, `recorded` is `schema_versions`, `run` has
every run of `apply_migrations.py`: the container's, `setup.sh`'s, and the operator's
shells. `ReadApplied` fixes the pending files, `Execute` is one statement, `Fail` an
`ALTER TABLE` that is refused, `Record` the insertion and its commit (it fails if another
run has recorded the file). `InitDb` is `create_all`, a table at a time. `StartContainer`
is also the restart after a failure or `Crash`; `StartMcp` is the start held back by
`depends_on`, and every later one, which nothing holds back. A shell in the container ends
with it. History: `overlapped` and `preempted`.

### LoginThrottle and ApiContainer

`log` has the failures of one key, as ages; `Window` stands for every age
the next check drops. The code's list is a set of numbered failures here, since only its
length and the age of its entries are ever looked at. `Allow` or `Refuse`, `Verify`, then `RecordFailure` or
`ClearFailures` are the steps of `login`, each under its own lock.
`failures` is what the log would be if the process never ended. `ApiContainer` lets logins
happen while the container serves, and drops log and logins when it ends.

## Runs

| Run | Bounds | Shows |
|---|---|---|
| `sessions` | 2 users, 2 threads, the event loop, 1 connector, 1 code, 3 tokens | every safety and action property below, and `RefinesChain` |
| `sessions_reuse` | 1 user, 2 threads, 3 tokens | violation of `ReuseKillsFamily` |
| `attachments` | 2 users, 2 contents, 2 uploaders, 1 deleter, 2 months, quota 1 | `LossNeedsOverlap` and `QuotaOverrunBounded` |
| `reminders` | 2 users, 2 reminders and ids, 3 hours in 2 days, 1 fault, LIMIT 2 | the safety properties of the dispatcher |
| `reminders_live` | 2 users, 2 reminders, 1 fault, LIMIT 2 | `DueIsSettled` |
| `reminders_starved` | the same, LIMIT 1, no fault | violation of `DueIsSettled` |
| `reminders_early` | 1 reminder, a day of 4 hours, offsets 0 and +1 | violation of `NotBeforeFireAt` |
| `ntfy_accounts` | 1 user, 2 threads, the operator, 4 topics | the properties of `NtfyAccounts` |
| `items` | 2 users, 2 requests, 2 statements, 2 items one after the other on 1 id; 2 requests about attachments, 1 content and id | the safety and action properties of items and their attachments |
| `digests` | 2 users, 1 of whom changes settings; 1 request in each process; 3 hours, a day of 2; a zone whose first hour of a day comes twice, one that skips an hour, one whose last hour of a day comes twice; offsets of `due_at` from -1 to 1, items due up to a day outside the hours of the clock; 2 patches; 1 fault | the properties of `Digests` |
| `container` | the 7 files of the repository over any of the 8 earlier databases; container, `setup.sh` and 1 shell; 2 crashes; 2 logins at a time, window 2, threshold 2 | the properties of `Migrations` and `LoginThrottle` |
| `migrations_setup` | the same files, host only, no shell, no crash | violation of `SetupCompletes` |

Why these bounds are enough to be interesting: three tokens are a session, a
rotation, and a second rotation (of the same token or of its successor), or two
sessions side by side; two threads are the smallest race and the event loop is
a third worker. Two months and two users give a row whose blob has another
month's path and a blob shared between users. Two reminders with two ids allow
a reused id under a running tick; one id and two items do the same for `Items`,
where `BeginUndo` then has no older item to spare (2 ids were explored to 4 million
states without a violation, past the time of a run). Four topics are a creation and three rotations, so that
two can overlap and a third follow; users share nothing in `NtfyAccounts` but the operator.
Two deletions at a time were checked for `LossNeedsOverlap` with one content (1.3
million states); the run has one, to have the quota in it. LIMIT 100 is scaled to 1 or 2, against two
rows. The runs stop when the bounded sets of secrets, ids or hours are used up,
which is why they do not check for deadlock. Symmetry is used for safety and
action properties only, never in the liveness runs. The sessions run has no
tokens older than migration 007 (`Legacy`): the proofs cover them.

The `items` run looks at two slices of the composition, whose product is too
large: either nothing is attached, or items have no body and are only created and deleted
(what a link may go wrong on is that an item goes, and that its id comes back). Since
local hour 0 of the second local day comes twice in the eastern zone, a digest
could too; three hours hold that day and its neighbours. In the second zone a local hour is
skipped, and in the western one the last hour of a day comes twice. An offset of half a day
to either side is enough for a `due_at` to be stored on another date than it is meant. Two crashes
are one for the container and one for what follows it; a third run beside the container and the
shell would only be another shell. Two failures in a window of two ticks are the smallest
log in which entries of different ages lie side by side.

Properties:

- `ConnectorSingleUse`, `CodeOpensOneSession`, `ConnectorReuseKillsFamily`:
  single use of tokens and codes, and reuse detection, where the event loop
  serialises the requests. None of the UPDATEs tests what the SELECT saw, so
  these depend on the routes being coroutines (the mutant of the first lets threads serve connectors too).
- `FamilyHasOneOwner`, `SpentTokenStaysSpent`, `EndedFamilyStaysEnded`: what
  holds on every client, dashboard races included.
- `CutOffUserStaysOut`: a disabled user with nothing exchangeable, acceptable
  or in flight stays out. Its premise lists the windows `disable_user` leaves
  open: codes, logins and rotations already begun. A user disabled by hand keeps exchangeable
  tokens (`docs/ADMIN_GUIDE.md:203` says so), so the premise does not hold of them.
- `RefinesChain`: a connector's session has one current token at a time and is
  never resumed once over.
- `LossNeedsOverlap`: only overlapping requests or torn writes lose a blob.
- `QuotaOverrunBounded`: concurrent uploads, stored or on their way, overrun the
  quota by at most one attachment per other uploader.
- `DuplicatesNeedFailure`: one push per reminder, plus one per fault at most.
- `LostOnlyIfDisplaced`: a reminder is marked without a push only if it was
  given the id of a row deleted under a running tick.
- `StaleForOneTick`: a tick uses outdated settings only if they changed while it ran.
- `DueIsSettled`: no due reminder of a reachable user waits for ever, provided
  LIMIT covers all unfired due rows.
- `StrayNeedsCause`: an account that is not its user's current one stays only after
  a failure, two overlapping rotations, or an outdated backfill.
- `DisabledNeedsCause`: a disabled user keeps the account that pushes go to only
  after a failure, a rotation that overlapped or followed `disable_user` (an access
  token outlives it by up to an hour), or a backfill, or if the user was disabled by hand. Each
  of these does happen in the model; docs/NOTIFICATIONS.md:198 does not mention them.
- `CredentialsWork`: a stored password opens the current topic whatever failed or
  overlapped, except after the backfill took over an account or wrote to an outdated row.
- `Items!LossNeedsOverlap`: a statement goes from a decision only by an authorised rewrite,
  overlapping requests, or a reused id.
- `MeddlingNeedsReuse`: a request that changes or deletes another user's item had loaded an
  earlier item of the same id, which was deleted under it.
- `DoneStaysDone`: an update that overlaps a completion does not undo it: only the write of a
  request that loaded the item as done reopens it.
- `ForeignLinkNeedsCause`: an attachment belongs to another user's item only after the
  deduplication of an upload (`create_attachment` links the existing row before it tests
  the item) or a reused id. Both happen; the docstring of `link_to_item` ("Both must
  belong to user") holds of the rest.
- `LinksNeverDangle`: an `item_id` names an item that exists, whatever is deleted meanwhile.
- `AttachmentsAreOwn`: only a reused id lets a request change or delete another user's
  attachment.
- `RepeatsNeedFault`: at most one digest on a local day, whatever `digest_hour` and `tz`
  become in it and whichever way the clocks change; each fault repeats at most one.
- `QuietDayHasDigest`: without faults, a day has its digest if the settings have not changed
  since its digest hour began, whatever other users' settings and pushes do.
- `PatchesKept`: only patches that overlap lose a preference, and never the time zone.
- `TodayIsCounted`: what is due on the local day is counted by a digest of that day, unless
  its `due_at` was given by a clock further east than UTC and than the user's own; and what
  is counted as overdue is not due on a later day, unless it was given by a clock further
  west than both. When the last hour of the day comes twice (and the second has not begun), or
  the clocks go forward, only the comparison with the user's own clock is left.
- `RecordedIsApplied`, `RecordedInOrder`: the record never runs ahead of the schema, nor
  of itself, whichever runs overlap and wherever they are killed.
- `ServingIsReady`: neither container serves on half a schema. For the mcp container,
  which restarts on its own, this rests on the fact that the schema only grows.
- `BlockedNeedsCause`: a file that every later run will fail on was left by a crash, by
  two runs at once, or by `init_db.py`. All three happen in the model; the operator
  then has to repair the schema by hand.
- `UpgradeCompletes`: otherwise the container's restarts complete any earlier database.
- `FailuresBounded`: in any window, at most `Threshold + Threads - 1` failures per life of
  the process: the threads let in together exceed the documented 5.
- `RefusedForCause`: a login is refused only for failures of the last window since the
  last success.

**Fairness** is assumed in three places. `Reminders!FairSpec`: weak fairness of the
dispatcher's steps, since the scheduler starts the job every 60 seconds and every
HTTP call times out; strong fairness of an acknowledged push, per reminder: ntfy is not
down for ever. Users, faults and the clock are under no fairness, and faults
are bounded. `ApiContainer!ContainerSpec`: weak fairness of what a running script does next
and of the container's start (`restart: unless-stopped`); none of shells, logins and crashes.
`Migrations!FairSpec` (in the violation run only) adds an operator who runs `setup.sh` again
until it succeeds. Everything else is safety.

## Findings

1. Two dashboard refreshes that race can leave a family alive after its reuse
   was detected (`sessions_reuse`).
2. Rows that are never marked (realtime off, no topic, failing pushes) fill the
   dispatcher's LIMIT and starve all other users (`reminders_starved`).
3. A reminder is due from 00:00 UTC of its date on, because texts of different
   formats are compared (`reminders_early`).
4. `setup.sh` cannot finish on a new host: `init_db.py` has already made the column
   that `003_users.sql` adds (`migrations_setup`).

Windows in which the code does less than a comment or document says, which have no run of
their own since a passing property has them among its causes or premises:

- A refresh in flight gives a user who has just been disabled a new refresh token
  (`users.py:303-306`; premise of `CutOffUserStaysOut`).
- An upload of the same content during a deletion ends with a row without a
  blob (`attachments.py:6-9`; `disturbed` in `Attachments!LossNeedsOverlap`).
- Two overlapping updates of a decision, each of which appends to the text it
  loaded, lose the first addition (`README.md:49` of the repository; "overlapped" in
  `Items!LossNeedsOverlap`).
- A user disabled as `docs/ADMIN_GUIDE.md:195-205` says keeps a working ntfy account, to which
  reminders go on being pushed, since `dispatch_reminders` does not look at `disabled_at`.
  `docs/NOTIFICATIONS.md:198` says "Disabled user can no longer receive pushes", which
  takes `disable_user` ("by hand" in `DisabledNeedsCause`).
- For a user in UTC a digest counts what is due today as overdue, never as due today, by the
  comparison of texts that finding 3 is about (`docs/NOTIFICATIONS.md:148` has "todos due
  today" and the "overdue count" apart; `TodayIsCounted` takes either count for a mention).
- A `due_at` given with an offset is left out of the digest of the day it is due on, or is
  overdue a day early (`models.py:45`; premises of `TodayIsCounted`).
- An upload of a content the user has already is linked to an item of any user
  (`attachments.py:359`; "deduplicated" in `ForeignLinkNeedsCause`).

## Proofs

Every safety and action property of the passing runs is a theorem, for every value of the
constants that the modules' assumptions allow, and so is the refinement. Three kinds of assumption are common to
all: `None` is none of the values it stands beside; workers of different kinds are different; and bounds
are numbers. The others are named below.

### Sessions

`OAuthSessionsProofs` proves, for any sets of users, threads, connectors, codes, tokens and
legacy tokens, `Spec => []IInv` (`Inductive`), the type invariant, the four safety
invariants, and the three action properties of `OAuthSessions`. The assumptions are the ones
the module declares: the event loop is not a thread, the dashboard is not a connector, codes
and tokens are disjoint, legacy tokens are tokens, and `None` is none of the values.

The safety invariants are not inductive. `IInv` adds:

- `Marked`: only existing codes and tokens are used, revoked, expired or rows;
- `Lineage`: the parent, user, client and family of every token agree;
- `Remembers`: what a request in flight holds is what its row was inserted with;
- `LoopHolds`: the token or code the event loop is about to spend is still unspent. This is
  the fact that serialisation gives, and where the argument fails for threads;
- `OpenedUsed`: a code that opened a session is marked used.

With these, single use follows since `Rotate` on the event loop acts on a token without
successor; reuse kills a family since `RevokeFamily` finds no rotation of a connector's
family in flight. The action properties need `Lineage` and `Remembers` to rule out that a
late INSERT revives an ended family or user.

`OAuthSessionChainProofs` proves `RefinesChain`: each step, seen at one connector family, is
a step of `SessionChain` or a stutter. `ChainInv` adds to `IInv` that a family is named
after a token of its own (`Founded`), that a family has at most one exchangeable token
(`OneHead`), and that while the event loop holds a token it has read as fresh, its family
has no other (`HeldHead`). The last is why `Rotate`, a write based on an earlier SELECT,
replaces the chain's current secret.

### Container, migrations and throttle

`ApiContainerProofs` proves, for any files, tables of `models.py`, releases, sites, shells
and number of crashes, the type invariant, `RecordedIsApplied`, `RecordedInOrder`,
`ServingIsReady` and `BlockedNeedsCause`. The assumptions are `MigrationsAssumption`: shells
are not the container nor `setup.sh`, a release has a prefix of the files, and `models.py`
knows no object that no file makes. `IInv` adds to them:

- `Prefix`: the record is of the first n files. `RecordedInOrder` alone would do for the
  property, but a run's pending files must be an interval for its next file to be known;
- `RunOK`: a run in the middle of its files has the files from some c on pending and those
  before it recorded, and what it has executed of c is in the schema; one that is past its
  files has all of them recorded;
- `McpOK`: once the mcp container has started, every file is recorded.

`Record` is the step where they meet: the run's file is c and not recorded, those before it
are, so the record grows from c - 1 to c files, and its statements are in the schema.
Everything else follows since schema and record only grow, which is why overlapping runs do
no harm to these.

`BlockedNeedsCause` needs the opposite case and one more assumption, `FilesAssumption`: a
column is added by one statement, after the one that makes its table (true of
`migrations/`). `Orderly` says that as long as nothing was killed, no runs overlapped and
`init_db.py` made no column, one run is under way at most (`Alone`), exactly the files
before its own are recorded (`RecordedBefore`), and every column in the schema comes from a
recorded file or from what the run has executed (`ColumnsMade`). Then no statement is
refused (`NeverRefused`), so no run fails halfway through a file, which is the only other
way to leave one half done.

`ApiContainer!ContainerSpec` implies `Migrations!Spec`, the logins being stutters, and takes
the four properties over.

`FailuresBounded` and `RefusedForCause` rest on `ThrottleInv`, for any window, threshold,
finite set of threads and number of crashes. The log's fresh part is among the failures
since the last success (`Remembered`), whence `RefusedForCause`. In one life of the process
the fresh failures and the logins already let in are together at most `Threshold + Threads -
1` (`LifeBounded`): a login is let in only below the threshold, and turns into a failure
later. What the log does not know is from earlier lives, each of which left as many at most
(`PastBounded`); only a crash ends a container that serves (`DeployCrashes`). `Distinct`
says that no two failures are counted as one.

### Attachments, items and links

`AttachmentsProofs` proves, for any users, contents, months, workers and quota, `TypeOK`,
`LossNeedsOverlap` and `QuotaOverrunBounded`. For a content that nothing has disturbed, at
most one request is under way (`Single`), and what it has found or done is still so
(`Settled`): the file it writes is partial, what it stored is whole, no other file of the
content is partial, and a deletion about to unlink has seen no row left. For the quota, an
upload that starts finds its user's rows below the quota; all other uploads on their way are
those of other uploaders (`Roles`).

`AttachmentLinksProofs` proves the properties of `Items` first. `Held` says what a request
knows of an item whose id has not been reused under it: it is the item it loaded, of the
request's user; the text it will write to a decision contains the text it loaded; and, if no
other request overlapped, the row is as loaded. `Alone` says that two requests on one item
have left their mark on it. Then `AttachmentsLeaveItems` shows that the composition
implements `Items`, and `LinkInv` adds what the requests about attachments know: the row
read or the item tested still belongs to the user (`Tested`), or its id is on record as
reused. The greatest id of a nonempty bounded set, which SQLite's rule for new ids speaks
of, exists by a well-founded descent (`WellFoundedInduction`), since induction over sets is
out of reach.

### Notification accounts

`NtfyAccountsProofs` proves `TypeOK`, `StrayNeedsCause`, `DisabledNeedsCause` and
`CredentialsWork` for any users, threads and topics. `IInv` adds the steps each operation
goes through and what it holds at each (`Requests`), that topics belong to one user for good
(`Owned`), and that a topic that has been generated and not yet written is known to its
request alone (`Exclusive`). The properties themselves are not inductive, for they say
nothing of accounts in hand. `StrayCovered` and `DisabledCovered` name who is responsible
for such an account instead: the request that will remove it, or is filling it. When a
request gives up, its cause is recorded in the same step.

### Reminders and digests

`RemindersProofs` proves `TypeOK`, `DuplicatesNeedFailure`, `LostOnlyIfDisplaced` and
`StaleForOneTick` for any users, reminders, ids, LIMIT, hours and faults. The argument is an
accounting: whatever may still be pushed without a fault (rows not marked, the rest of the
batch) has been pushed at most `faults` times (`Budget`), so one more push keeps the bound.
For this a reminder has one row (`Single`), is in the batch once, and the row fetched is its
row still or another, displaced reminder's (`Fetch`).

`DigestsProofs` proves `TypeOK`, `RepeatsNeedFault`, `QuietDayHasDigest`, `PatchesKept` and
`TodayIsCounted`, for any length of day and any zones with one change of offset each.
`Repeats` is the accounting of the first: a user with a digest later than `last_digest_at`
has a fault to spare (`Behind`). `Served` is the duty of a tick: an hour that has had its
tick has had its digests, or the tick, which selected the present settings, has yet to come
to the user. `TodayIsCounted` is arithmetic with a symbolic day length, zone and offset: the bounds of the
day are within one clock change of midnight (`DigestsAssumption`: an offset is less than a
day).

The attempt to prove them changed the module in two places. `ZonesAssumption` is new: no
zone's clocks go back to an earlier day. (Going back from midnight to 23:00 is allowed; from
one minute past it, as in Newfoundland until 2011, is not.) Otherwise a user who moves to
such a zone could have a second digest without a fault. And `TodayIsCounted` names its
exceptions, a day that ends twice and clocks that go forward, which the first zones of the
run had not shown. The run has a zone of either kind since.

### What is only model-checked

`DueIsSettled` and `UpgradeCompletes`: liveness under fairness and ENABLED are out of the
prover's reach. The violation runs are counterexamples and have nothing to prove. No module
with a theorem uses recursion, and nothing is proved by induction over data.

## Not modelled

Image resizing and magic-byte checks, search, serialisation, the audit log,
settings and the static site: sequential, pure, or without
state. Client registration (one INSERT). Bearer authentication: it keeps no state, and what
a token outliving its user does is in `NtfyAccounts` (`ExpireAccess`). Real time: how long a
writer waits for the lock while a tick pushes, and a tick of the digests that lasts longer
than an hour (`QuietDayHasDigest` says nothing of the hours it skips). Which events `dispatch_digests`
names in its text. The age of what `undo_last` deletes, which the code does not look at.
Files leaked in the blob directory (a refused upload, or the same content of two months)
harm no reader and have no property. A statement of a migration that finds the database
locked is a `Crash`; `FailuresBounded` counts all crashes, the mcp container's among them,
and `UpgradeCompletes` says nothing of a host that runs `setup.sh`. The start-up race of `engine()` in `db.py` is
a matter of the library's pool.

## Plan

1. Refinements that say what a component promises in one specification: the reminder dispatcher as deliveries
   that are owed, made and repeated; the blob store as a set of contents.
2. `DueIsSettled`: its safety part, that a waiting reminder that LIMIT covers is in the next batch, as a theorem.
3. `Items`: requests without a user, which act on every row.
4. `OAuthSessions`: a run with tokens older than migration 007 (`Legacy`), and a property of what their reuse
   does and does not revoke.
