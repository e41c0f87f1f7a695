# A verification project for threads-cli

`threads-cli` is a command-line client of the Threads API. It ingests the
posts, replies and mentions of one account into a local SQLite store, publishes
posts, and deletes posts, locally and at the service, under a daily quota. These
TLA+ modules model the parts of it where order, failure and concurrency decide
the outcome; TLC checks them on small instances and TLAPS proves the most
important results for every instance.

All paths below are relative to `src/`.

## 1. The system

| Part | Code | State | Operations |
|---|---|---|---|
| Post model | `crates/threads-core/src/model` | none (values) | `Post::merge`, `Post::prefer_real` |
| Store | `crates/threads-store/src` | SQLite tables `users`, `posts` (and child tables), `edges`, `fetch_runs`, `deletions`, `audience_snapshots` and their demographics, FTS index | upserts, author resolution, deletes, run rows, audit rows, snapshots, queries, migrations |
| Ingest | `crates/threads-ingest/src/orchestrator` | of one run: seen ids, batch, queue, cursor | `ingest me`, `ingest engagement`, `ingest thread`, `audience refresh` |
| HTTP client | `crates/threads-provider-official/src/client` | of one call: attempts, delay | `execute`: send, retry, map errors |
| Provider | `crates/threads-provider-official/src/provider` | none | one method per endpoint; `dto_to_post` |
| Store, opening | `crates/threads-store/src/{store,migrations,private_io*}.rs` | the database file with its side files, the applied versions | `Store::open`: private files, WAL, migrations |
| Token store and login | `crates/threads-provider-official/src/{token_store,auth}*` | a token, in a file and in the keyring; of a login: state, listener, code | save, load, clear; OAuth callback and exchanges |
| CLI | `crates/threads-cli/src` | arguments, config file | `init`, `auth`, `ingest`, `post create`, `delete`, `audience`, reads |

What makes each part correct:

* *Post model, store*: a post is attributed to its author or to a placeholder of that
  author only, and keeps an author once it is known; users, posts and edges agree;
  nothing leaves the store or a thread but by what is meant to take it out.
* *Ingest*: a run without an error has written all it should have read; its row tells
  what was written; what one run wrote, another does not lose; every run ends.
* *HTTP client and provider*: bounded cost, no POST applied twice, errors that do not
  lie about the effect, every call returns.
* *Token store, login, audience*: a whole token in the file at any time; a token, a
  snapshot and a purge belong to the account that approved the login; a logout that
  succeeds leaves nothing behind.
* *Delete*: a post leaves the store only when the service has given it up; an audited
  success is one; the quota holds.
* *Publish*: nothing published twice or half-made; an error tells whether the command
  may be given again.
* *Open and migrations*: whoever has a database open finds the whole schema, in
  files nobody else can read; every open ends, and one that meets nobody succeeds.
* *Config and login*: the config file is one user's whole answer and is not
  replaced unasked; a login stores only a token its own URL was approved for.

How they interact. Every command is a process of its own. It calls the provider
(an await on the network, through the retry loop of the HTTP client), and the
store (a call that runs one SQLite transaction on a blocking thread). Processes
share the database file, the token, and the account at the service; nothing
locks across two calls. So the points where something else may happen are the
gaps between calls, and what is remembered across a gap (a listing, a quota, a
page, a batch, a placeholder already resolved) may be stale when it is used.

What is hard here:

* **Several endpoints describe one post differently.** Only some carry the
  owner, only others the thread links, none all. What the store holds depends
  on which fetches arrived in which order. A fetch without an owner is filed
  under a placeholder author `@username`, which is resolved later, and dropped,
  with a foreign key that cascades to posts.
* **Requests whose answer hides their effect.** A 5xx or a lost answer may come
  from a service that carried the request out.
* **Quotas checked before, used after** a prompt and minutes of requests.
* **Multi-step effects** (remote delete, local delete, audit row; container,
  polls, publish, store; batches, run row) cut off anywhere.
* **Termination** of loops driven by what the service answers.

`PROJECT.json` lists each hazard at its line with the properties that watch it.

## 2. The modules

```
PostModel <- PostTables <- Service <- PostStore            MCPostStore
                 ^            ^---- Ingest                 MCIngest
                 |
         PostTablesProofs <- PostStoreProofs
                 ^---------- IngestProofs

Transport <- HttpCall  (implements RemoteCall)             CallProofs
        ^--- Publish   (implements RemoteCall)  MCPublish  CallProofs
        ^--- DeleteFlow                   MCDeleteFlow     DeleteFlowProofs

TokenStore <- Audience                    MCAudience       AudienceProofs

StoreOpen     (implements Schema)                          StoreOpenProofs
Setup                                     MCSetup          SetupProofs
```

### Posts, tables and the store

`PostModel` is the in-memory post and the two rules that join a re-fetched post
with the stored one. Fields that all rules treat alike share one: `content`
stands for text, timestamp and permalink, `mentions` for the collections.
`PostTables` has the tables as one record `db` and every write of the store as
an operator from the tables before a transaction to the tables after it:
`Upsert` is the whole of `upsert_post_tx` (merge decision, reconciliation of
the placeholder, users row, posts row and children, edges), `Reconcile` is
`reconcile_author_tx` and `resolve_author`, including `ON DELETE CASCADE`, and
`DeleteRow` is `delete_post`. `ThreadRootedAt` and `EngagedAccounts` are what the
queries of `show --thread` and `audience engaged` compute from the tables.
`Service` says which fields the manifest requests from each endpoint (`OwnerFields`,
`ReplyFields`) and which post the provider makes of them (`DtoToPost`): this is
where `me/threads`, `user/mentions` and the reply edges differ. `SynthesizedPost` is
what `post create` makes up when it cannot fetch back what it published.

`PostStore` is the store under every command that writes posts, in any order
and without limit: each action is one transaction of one command. The service
is the environment: it renames accounts. `handle` is the username each account
holds, `unwritten` are the posts that `post create` has published and not stored yet,
`erased` is history. Such a post is on the service, and every other command may
ingest, resolve and delete it before its own command writes it, once, without a look
at what is stored.

`Ingest` is `ingest me`, `engagement` and `thread` in full: the run row, the
user and its resolution, the queue of edges with the depth test where the code
has it, pages with or without a next cursor, de-duplication by id, batches
that are written when full and at the end, failure at every call, and kills.
Concurrent runs share `db`, written by the same operators as in `PostStore`.
A page is a sequence of posts in any order and may repeat posts; posts vanish
from the service in between, and `delete` takes them out of the store. The store a run
starts from may hold posts of mine, fetched back or synthesized, and `post create`
may write others while the runs go (`Publish`). `unlinked` is history: the replies
that such a write has stored without their parent and no run has written since.

### Calls to the service

`Transport` holds the rules of the client: what is retried for which method,
which error an answer becomes, delays and caps. `HttpCall` is one call of
`transport::execute` as a state machine; the history variable `applied` counts
how often the service carried it out. `RemoteCall` is the abstract
specification: a call has its effect some number of times and returns once;
`Ok` is never a lie; a POST has its effect at most once, and not at all when
the result is a refusal. `HttpCall` implements it with `effects <- applied`.

`DeleteFlow` is `delete posts --apply` and `delete replies --apply`: listing,
quota check, and per candidate the requests, the local delete, the audit row,
for any number of concurrent processes, with crashes between any two steps, an
ingest that writes a page fetched earlier, and a clock for the 24 h window.
The retry loop is inlined (its waits do not matter to it); `audit` is the
`deletions` table with the process as history.

`Publish` is `post create`: quota, prompt, containers (one per carousel item,
then the carousel), polls, publish, store. The service counts usage, makes
containers and publishes, also when its answer is lost; what a container was asked
to be (`Item`, `Post`) decides which quota it counts for. Each invocation is
shown to implement `RemoteCall` as a single POST (`CommandsAreSafe`, and with its end
`CommandsAreSingleCalls`).

### The token and what is bound to it

`TokenStore` has the two places a token is kept in, the file and the keyring,
and the steps of `save`, `load` and `clear` on them: a save writes a temporary
file, renames it, then copies to the keyring and ignores a failure there; a load
reads the file and, when there is none, the keyring, if that answers; a clear empties the keyring and removes
the file, and reports either error. `temp` holds the temporary file of each process.

`Audience` is every command that writes the token or relies on the account it
is bound to: `auth login`, `auth logout`, `audience refresh` and
`audience purge --apply`, any number of each at once. `local[p]` is the memory
of a process and the place it has reached: one place for each point between two
calls. A refresh loads the token (`LoadToken`), loads it again when the provider
is opened (`OpenProvider`), asks who it is (`FetchMe`), counts followers and asks
for the breakdowns, writes one snapshot, reads mentions until a page has no
cursor or one it has met, and saves the token when it was not bound to an
account (`Finish`). What the refresh writes about users and posts is in `PostStore`
(`RecordMe`, `ResolveMe`, `FetchMention`). `owner`, who approved each login, is the
environment's; `quiet` is history: the logouts since whose start no token was saved
and none of whose own steps failed.

### Opening the store

`StoreOpen` is `Store::open`, which every command runs for itself. `file` has the
database and its side files, each absent, private, shared or alien (not a regular
file, or not the user's). An open makes or validates the parent directory
(`FindParent`), prepares the database, `-wal` and `-shm` one after the other
(`Find`, `Create`, `Reopen`), joins or switches to WAL (`Connect`, `Switch`), makes
the tracking table, reads the applied versions outside any transaction
(`ReadApplied`), and runs one transaction for each missing version: a deferred one,
which starts with a read or a write according to what its first statement finds
(`BeginReading`, `BeginWriting`), and whose upgrade to a writer fails at once when
somebody else has committed (`Upgrade`). A process may be killed at any step; then
another starts from what is on disk. SQLite is external: its write lock, busy
timeout, stale reads and the side files it removes and makes are modelled as the code
relies on them. `Schema` is the abstract specification: versions are
built one after another, and nobody enters before the last.

### Setting up

`Setup` is `init` and `auth login`. An `init` looks for a config (`Check`), asks
(`Prompt`), and writes a temporary file that it renames (`StartSave` to `Rename`);
the names of temporary files are by process id, which the system gives again, so
that dead processes may have left any of them. A login loads the config (`Load`),
listens (`Bind`) or waits for a pasted URL, takes one code (`Accept`, `Paste`),
exchanges it and stores the token. The browser, the user and the service are the
environment: a redirect arrives late, twice or at another login on the same port,
strangers connect (and may say nothing), a URL is approved after its login has gone, an exchange is
carried out and its answer lost. Logins are told apart by the state in their URLs,
which is taken for unguessable. How the token is saved is in `Audience`.

### Facts the models use

Three facts of the code behind `Audience`: the time of a snapshot is taken after
its last insight; times are stored as RFC 3339 text in UTC, which sorts as the times
do; and the cascade from `users` reaches snapshots of a placeholder only, of which
there are none.

## 3. What is checked

Definitions named here are in the module of the run; each is preceded by a
comment that says what it means for the code.

| Run | Module | Shows |
|---|---|---|
| `post_store` | `MCPostStore` | authors always have a users row, edges mirror rows, posts are never attributed to somebody else and keep their author but for a late synthesized write, nothing leaves the store but by delete, a reply fetch loses nothing, threads lose posts to three causes only, engagement is earned |
| `http_call` | `HttpCall` | at most 6 requests and 5 capped waits; implements `RemoteCall`, liveness included |
| `delete_flow` | `MCDeleteFlow` | an audited success is real for ever; the store gives a post up only after the service; each process keeps the quota; every batch ends |
| `ingest` | `MCIngest` | two concurrent runs beside a publish: run rows tell the truth; what was written stays, and hangs under the post it replies to unless its publish unlinks it (`RepliesHang`); a run that resolves me attributes all that earlier ones have left under my username (`LateAttribution`); a deleted post comes back only through a run that had fetched it before, or its publish (`DeletedPostsStayAway`) |
| `ingest_one` | `MCIngest` | one run of any of the three kinds beside a publish: a run without an error missed nothing, what a thread run has ingested `show --thread` finds (`ThreadsAreShown`), and every run ends |
| `publish` | `MCPublish` | bounded overshoot of the quota, whole posts only, each command is one POST |
| `audience` | `MCAudience` | the stored token and the snapshots are whole and bound to the right account, but for one race; a logout holds; every refresh ends |
| `open` | `StoreOpen` | implements `Schema`; the files of an open database are private; every open ends, and one that meets nobody succeeds whatever was left behind |
| `setup` | `MCSetup` | the config is whole and replaced unasked only by a race; a token comes from an approval of its own login; codes are exchanged once, with their own redirect URI; commands end |

### Disagreements between documents and code

Three runs are expected to be refuted. Each checks one sentence of the
repository.

| Run | Sentence | What the code does |
|---|---|---|
| `mentions_drop_links` | `docs/superpowers/specs/2026-05-20-publish-and-upsert-hardening-design.md:152`: "the `@` sentinel is the signal that the fetch is structurally incomplete" | a page of mentions is incomplete (it lacks `replied_to` and `root_post`) and names real owners: it is not merged, and drops the parent and root of a stored reply |
| `delete_posts_takes_replies` | `cli.rs:212`: "Delete top-level posts authored by you." | a reply published by the CLI and fetched back is stored without a parent and is deleted as a post |
| `unaudited_deletion` | `docs/architecture.md:150-151`: the audit table "records every attempt (success or failure)" | an attempt that ends in `RateLimit` leaves no row (`delete.rs:121`); when a 5xx before it hid the deletion, the post is gone and nothing says so |

Others were met that no run states:

* Two `delete` commands that check before either has recorded exceed the shared cap
  of 100 in 24 h (`docs/plans/delete.md:105`). `CapHoldsAlone` proves that it takes
  two.
* A deletion hidden by a 5xx whose retry is answered 404 is recorded as a failure, and
  the post stays in the store.
* A login between the two loads of a refresh has the old token saved with the new
  account, so that `purge`, "bound to the token's account"
  (`docs/followers-and-follow-feasibility.md:96-97`), removes the snapshots of an
  account the stored token does not authenticate. `MisbindingNeedsARace` shows that
  nothing else can do it.
* A refresh that was under way when a logout ran may save its token afterwards, which
  undoes the logout (`LogoutHolds` is about logouts since which nothing was saved).
* The replies that one `ingest me` stores are under a placeholder it resolved before,
  and become candidates of `delete replies` only with the next one
  (`docs/architecture.md:148-149`); `LateAttribution` shows that the next one catches up.
* `post create` fetches back what it published, with retries, and then writes it, whatever
  other commands have stored of it meanwhile or deleted (`post.rs:94-106`): a reply
  loses the parent an ingest has stored, a synthesized record takes the author away,
  and a post that was deleted is back in the store. `AttributionSticks`,
  `ThreadsHold`, `RepliesHang` and `DeletedPostsStayAway` name this one cause and
  show that there is no other of its kind.
* `ingest engagement` takes a reply that was published by the CLI, and so stored without
  its parent, for one of its seeds: it drops it when it meets it, and the thread stays broken
  there until `ingest me` or `ingest thread` (which `ThreadsAreShown` is about) write it again.
* `docs/architecture.md:100-103` has `ingest me` fetch the replies of each post; the
  code reads `me/replies`.
* A synthesized post has the empty user id, which passes for a real one
  (`store.rs:197-198`) and, once it is merged with a fetch that brings the username, takes
  over the placeholder rows of the same account. No resolution gives these to me, and so
  `delete` does not list them, until `me/threads` or a page of mentions writes them with
  their owner: this is the exception in `LateAttribution`. `AttributionSound` shows that
  the empty id never takes over anybody else's.
* The default redirect URI names port 0 (`commands/mod.rs:125-128`), which
  `bind_to_uri` keeps in the URL it shows: the redirect cannot arrive, although
  `auth.rs:93-95` has port 0 replaced by the one chosen.
* A connection to the listener that sends nothing, such as one a browser opens ahead,
  keeps a login waiting until it is killed: the read has no timeout
  (`auth.rs:180-184`).
* `init` asks for a redirect URI until it gets one, and so for ever when its input
  has ended (`init.rs:39-49`).
* An open that loses the race to create `-wal` looks again for a file the winner may
  have removed by closing, and fails (`private_io_unix.rs:82-84`).
* A carousel drops `--link-attachment` (`publish_params.rs:41-62`).

### Bounds, and why they are enough

* `post_store`: a thread of three posts by two accounts, one of which has two
  usernames, which are interchangeable; a reply of mine is being published. Every pair of endpoints meets on one post, a placeholder and a
  real row of one author coexist with a foreign one, edges of all four kinds
  occur with their target stored, deleted or never stored, and the state space
  is complete: no bound on steps.
* `http_call`: the real retry limit of 5; delays 1, 2, 4 and a cap of 6 that is
  reached, a `Retry-After` of 0 and of more than the cap.
* `delete_flow`: two processes, two posts, a cap of 1, one retry, a clock of
  two instants with a window of 0, so that rows leave the window, audit inserts that
  may fail. `MaxFailures` bounds the failure rows (batches that only fail are
  otherwise unbounded); it guards `List` only. `MaxTime` bounds the clock. The
  processes are interchangeable, so `BatchEnds` is checked of one of them, and only its
  steps are fair: the other may stop anywhere.
* `ingest`: a thread of four posts, of which two are mine: one is not in the store,
  fetched back or synthesized at the start, the other, a reply, is being published. Two runs
  that are `me` or `engagement`; batches of two, so that full and partial
  batches occur, pages of one, depth 1. `ingest_one` adds the thread run, and has
  depth 2 and one run.
* `publish`: two commands, with up to two media items, quotas of one, two polls,
  one retry.
* `audience`: one login, logout, refresh and purge, two accounts, one breakdown, two
  cursors (a circle of one and of two pages), two instants. The refresh is run again
  and again, so that two refreshes meet at one key and a token is saved back
  any number of times; the other commands run once. Accounts are interchangeable, so
  `MCAudience` fixes the one that approved the old token.
* `open`: two processes that open twice each, the four migrations of the code, every
  earlier schema, a database that is private, shared, alien or not there, side files
  like it or not there, kills at any step.
* `setup`: two `init`s and two logins, two process ids, so that they are distinct or
  one is used again, two names for a temporary file in place of 16, one redirect URI
  with a port beside one without, one with port 0 and one elsewhere. Users of `init`
  enter the first of them; the others are found in a config. The `init`s and the ids are interchangeable, so `MCSetup` fixes which has
  left a file; a config that is not private ends every command that needs it
  whatever it says, so one such config is enough.

`delete_flow`, `ingest`, `audience`, `publish`, `setup` and `post_store` take one to
three minutes each with two workers (between 100,000 and 4,200,000 states); the
others less. The type invariant of `Audience`, which is more than types (the file of the
token is never a torn one), is checked by its run; those of the other modules are
proved only.

Retry limits other than the code's are small only where the loop is inlined;
the proofs below hold for every value.

### Fairness

Only the steps of a command that is running are fair: requests end because the
client has a timeout (30 s; modelled as a lost answer), sleeps end because the
runtime wakes them, and store calls return. Nobody has to start a command, to
crash or to rename; of the commands of `Audience` only refreshes are fair, for a
login waits for its user. `Publish` also assumes the user answers the prompt;
`Setup` does not: users and browsers are never fair, so an `init` ends once it
has its answers, and a login once a request has reached its listener. An `Open` that
is not killed goes on; what a command then does with the store is its own affair
but for its transactions, which end. `RunEnds` in
`Ingest` rests on the service: a page with a next cursor brings something
new. The loops over `me/threads`, `me/replies` and replies have no check of
their own (the loop over mentions does), so without this they would not end.

## 4. What is proved

| Theorem | Module | Statement |
|---|---|---|
| `TypeCorrect`, `AuthorsAreKnown`, `EdgesAgree` | `PostStoreProofs` | the invariants of the store |
| `NothingLost` | | posts leave the store by delete only |
| `AttributionIsSound`, `AttributionIsPermanent` | | authors are never mixed up, and stay but for the late write of a synthesized post |
| `ReplyFetchesLoseNothing`, `ThreadsAlwaysHold` | | sparser fetches keep what is stored; threads lose posts to three causes only (a delete, a page of mentions, the late write of a publish), at any depth |
| `EngagementIsAlwaysEarned` | | nobody is ranked above what it wrote |
| `IngestTypeCorrect`, `FetchRunsTellTheTruth`, `WrittenPostsStay` | `IngestProofs` | any number of runs over one store: what their rows say is so, and what they wrote stays |
| `LateAttributionHolds`, `DeletedPostsDoNotReturn` | | a run that resolves me gets all that is mine and has an author; deleted posts come back by stale pages and late publishes only |
| `CompleteRunsAreComplete` | | a run without an error missed nothing, to any depth |
| `WrittenRepliesHang`, `IngestedThreadsAreShown` | | no write of any run unhooks a reply; a thread that was ingested is shown whole, at any depth, unless a publish has unlinked a reply since |
| `CostIsBounded`, `CallIsSafe` | `CallProofs` | bounded cost; the safety part of the refinement of `RemoteCall` |
| `PublishTypeCorrect`, `NothingIsHalfPublished` | | whatever is published is the whole post |
| `OvershootIsBounded` | | any number of commands exceed a quota by less than a post each |
| `CommandsAreCalls` | | each `post create` is a single POST: the safety part of the refinement of `RemoteCall` |
| `Typing`, `RecordedIsAlwaysBuilt`, `OpenStoreIsAlwaysComplete` | `StoreOpenProofs` | a version is recorded exactly when it is built; whoever has the store open finds all |
| `OpenImplementsSchema` | | concurrent opens implement `Schema` |
| `OpenFilesAreAlwaysPrivate`, `LoneOpensSucceed` | | nobody else reads the files of an open store; an open that meets nobody succeeds after any crashes |
| `AudienceTypeCorrect`, `SnapshotsAreAlwaysWhole`, `SnapshotsAreAlwaysTheAccounts` | `AudienceProofs` | snapshots are whole and filed under the account that was observed |
| `LogoutsHold`, `MisbindingsNeedARace` | | a logout leaves nothing; a token is stored under a wrong account only by the race of section 3 |
| `Typing`, `ConfigIsAlwaysWhole`, `OverwritesAlwaysNeedARace` | `SetupProofs` | the config under any number of `init`s and kills |
| `TokenIsAlwaysApproved`, `ExchangesAreAlwaysGood` | | any number of logins never take each other's codes |
| `DeleteTypeCorrect`, `AuditedSuccessIsReal`, `QuotaIsKept`, `CapHoldsAlone`, `ErasesFollowTheService` | `DeleteFlowProofs` | the safety of the delete command; with a single process the documented cap holds |
| `CallsAreShort`, `CommandsAreShort` | `CallProofs` | a call and a `post create` take a bounded number of steps, |
| `BatchesAreBounded`, `OpensAreShort` | `DeleteFlowProofs`, `StoreOpenProofs` | so do a batch of deletes, an open of the store, |
| `RunsAreShort`, `AudienceCommandsAreShort`, `SetupsAreShort` | `IngestProofs`, `AudienceProofs`, `SetupProofs` | an ingest run, a refresh, an `init` and a login, whatever runs beside them |

**Store.** The assumptions are those of the modules: placeholders are distinct
from account ids, the service's facts are typed, and usernames of different
accounts come from disjoint pools (a username that moves from one account to
another is outside the model: the store keys placeholders by username and
could not tell). `PostTablesProofs` says of each operator on the tables what it
does to users, rows and edges (`ReconcileEffect`, `WriteRowEffect`,
`UpsertEffect`, `DeleteRowEffect`); `PostStoreProofs` uses only those. The
inductive invariant is `StoreInv`: types, authors known, edges mirror rows, and
usernames stay in their pools. `AuthorsKnown` alone is not inductive: a
reconciliation drops a users row, and that no post is left under it needs that the
rows were moved first (`ReconcileEffect`); that its edges survive a change of
author needs that edges do not depend on it (`EdgesIgnoreAuthor`).
`StoreAndAttributionInv` adds attribution: when `Upsert` merges, the stored
author may replace the fetched one and then be reconciled with a username, which
is harmless only because both belong to the post's true author
(`WrittenAuthor`, `ReattributionSound`).

`PostStoreInv` adds that what a row says its post replies to, it does reply to:
merges and overwrites drop links, and never make one. Then the posts an author is credited
with were written by accounts it may stand for, and those that count as replies to me do
reply to posts of mine (`EngagementIsAlwaysEarned`).

A thread is what a recursive query reaches. The proof about it needs two facts, which
hold of any tables: what is within d replies of the root is what some traversal
with d levels reaches (`ReachedByDepth`), and if all links that are gone are those
of one post, then only what was below it is cut off (`OnlyBelowIsCutOff`). Each
action but the delete, the page of mentions and the publish is then shown to remove no link
(`NothingBreaks`), and these three to remove those of the post they name
(`BreaksOnlyBelow`).

**Ingest.** The assumptions are those of `Service`, with a finite number of
posts, and of `Ingest`: a batch and a page hold at least one post, and the root that
the service gives for a reply is where its parents lead. What
`UpsertAll` does to a batch of any length is shown by the least number of posts for
which it would not (`LeastNumber`): the tables stay good, and hold the batch. Good tables
(`Good`) are typed, sign the posts of mine by me, by a placeholder of my username or by
nobody, and keep a users row for every author.

`IngestInv` is, for each run: what it has met, other than what it started from, is
either stored or in its batch, once, so that the two counts add up (`Counted`); the
batch has room (`Room`); what a row reports is so (`Reported`); and a page of
`me/threads`, the only edge that names owners, holds posts of mine (`Fitting`).
`RunsAreAccounted` alone is not inductive: it speaks of runs that ended, and that
their counts are right is the work of every step before.
`WrittenPostsAreKept` needs that other runs, writing the same
posts with other fields, drop none, which is the store's `UpsertEffect` again.

`CoverInv` is what makes a complete run complete. What the open edge lists is
met, on the page, or owed by the service (`Awaiting`), and every edge a run has to read is
in its queue, being read, or has nothing new on it (`Settled`). For the engagement
run these are the children of each met post less than `MaxDepth` below its
seeds, and the hard part is the depth: the code carries a depth in the queue and does not
expand what is too deep, so an edge with a depth too large would cut off posts. `Levels` are the
sets of posts within n replies of the seeds, and `Shallow` says no edge in the queue is
deeper than its post is; it holds because a post is on the children of its
parent only. That vanished posts leave their replies unreachable is why
`Wanted` descends by posts that are on the service.

`LinkInv` is what keeps a thread together. What a run has written names its parent and has
its edge, unless the parent was deleted (`Hangs`), or its own publish has unlinked it: every batch entry names the parent
of a reply (`Telling`; the edge whose fields do not, `me/threads`, lists top-level posts), and
a post that was stored without one by publishing before is written over. `RepliesHang` alone is not
inductive, for it does not know what the batches hold. A thread run reads one
conversation and starts from nothing (`OneThread`), so a complete one has stored the conversation;
the levels of the service's tree are then compared with those of the query, one by one
(`HangingIsReached`), along a tree whose root is that of every reply (`ConversationIsClosed`).

**Calls.** `CallInv` relates attempts to time waited (each round is paid for by one
capped wait) and the history to the answer (a POST is final at its first
answer). `CallIsSafe` maps each step to a step or a stutter of `RemoteCall`. `CallProofs`
takes `HttpCall` as an instance, for a service that may send any natural number as its
Retry-After; `Call!CostBounded` is the invariant that `http_call` checks.

**Publishing.** The assumptions are that there are finitely many commands and at least one,
that totals and the number of polls are positive, and that "pending" is no outcome.
`PublishInv` says three things of each command. `Containers`: its item containers are in order and
finished, and a container made for the post itself has all of them; the service only
adds containers, so this stays. `Knows`: what the command is about to create, poll or
publish is the container it takes it for, also after answers were lost, which leave
containers that nobody refers to. `Effects`: nothing is published before the
publish request, and at most once by it, and what the answer says of that is so. And of
each quota `Account`: the usage is at most the total and the commands that have spent from it
(`Spent`), and strictly less while any command that was let in may still publish (`Admitted`);
usage that ages out only helps. `QuotaOvershoot` alone is not inductive, for it does not
know how many of the commands have published already. `CommandsAreCalls` shows the step of one command to be a
stutter of every other.

**Delete.** `FlowInv` strengthens the quota to an account of claims: the
audited deletions of a process, what it may still start and what it has in
flight together never exceed the cap. Leaving the window only helps, and a check
resets the claim to what is left. That successes are real needs that what a
process takes for one is one at each point (`SuccessesOK`), while retries, other
processes and crashes go on.

**Opening.** The assumptions are that there are finitely many processes and at least
one version. `SchemaInv` adds to the types that a version is recorded exactly when it
is built, that the versions built are the first k (`Prefix`), and that a process in
the loop over the migrations has not left out any that is missing (`Covered`).
Without `Prefix` two processes that apply different versions could leave a gap;
`Covered` is what makes it harmless that the versions are read outside the
transactions: others only add to what was read. The steps are first shown to do one
of four things to the schema (read it, commit a version, enter, nothing), and
each of the four to keep `SchemaInv` and to be a step or a stutter of `Schema`.

`OpenInv` is about the files and about being alone. `FilesInv` says which files an open has prepared at each place
it may be in: those it has passed, and all once it connects. They are private, or
side files that are gone; once it uses the WAL, none is gone. What another process closing may take away are the side
files, and what SQLite puts back has the mode of the database, which is private by
then. `AloneInv` says that while nobody's step has overlapped an open all others have
ended, so what it found missing is still missing when it creates it, what it has read is
still fresh when it upgrades, and the lock, which only a live process holds (`WriterInv`), is free.

**Setting up.** The `init`s and the logins have an inductive invariant each, and
each a lemma that the steps of the others leave it alone. `InitInv` says that the
file under the name an `init` has opened is its own, which needs that no two live
processes share an id, and is whole by the time it is renamed (`OwnTemp`), and that
the author of the config is done and cannot change its answer (`AuthorIsDone`).
`LoginInv` says that the URL a login shows is the one it will present, that a request
in a listener is a stray one or comes from an approval, and that a code that is kept is the login's own;
one that is spent belongs to a login that will not exchange again.

**Token and audience.** The assumptions are those of the modules: the processes that run
different commands are distinct, and what stands for no token or a torn one is not a
token. `AudienceInv` says of each place what a process
that has reached it has in memory (`Sound`): a login saves a token that is bound to who approved
it or to nobody, a refresh has read its account from the session its provider was opened with, and
holds as many breakdowns as it has asked for. So a snapshot is whole because it is written in one
transaction from one process's memory, whoever writes the same key. `Cleared`
says what a logout that is still quiet has emptied so far: the copy, then the file.

**Steps.** Each of the commands is given a measure, `StepsLeft` or `StepsAhead`: the most steps
it still has ahead of it, from where it is and what is left of its loops. That the measure
is a natural number below a bound needs the invariants above; every step of
the command then lowers it, and no step of anybody else and no kill raises it. What the
loops count down is where the code could go wrong. A call and a delete count
attempts; a `post create`, the containers it lacks and the polls
of the one it waits for, which start anew for each container; an open, the migrations it has not
looked at, also those that another process applies meanwhile; an `init`, the names it has
not tried. A refresh counts the cursors it has not met, which is what
`seen_cursors` is for, and so assumes that the service has finitely many. An ingest run counts
the posts it has not met and the edges in its queue together, because meeting one
queues the other, and for the edge it reads the posts the service still owes: a page that has a next
cursor brings one of these, which is the assumption named under fairness. The measure of a run
is a sum of products (`ReadCost`), which the provers treat as numbers of
their own (`Products`, `CostsTyped`).

**Recursion.** The models recurse through functions, which the provers know by their equations
once these are shown to have a solution (`DescentExists`, `TraversalExists`). What is said of all
their values is proved without an induction theorem: the numbers for which it fails have a least
element (`LeastNumber` in `PostTablesProofs`, from the library's theorem on well-founded orders).

**Only model-checked.** Liveness (`ImplementsRemoteCall`'s termination,
`BatchEnds`, `RunEnds`, `RefreshEnds`, `OpensEnd`, `CommandsEnd`, the termination in
`CommandsAreSingleCalls`), for which the prover has no fairness reasoning. The step bounds
above are what is proved of it: no command takes steps for ever. That it always can go on
until it ends, and does when its steps are fair, is left to TLC.

## 5. What is not modelled

* Full-text search, listings, the order of the ranking, and rendering: no state, no
  decision.
* Raw payloads and the FTS index: nothing decides by them.
* URL building, JSON shapes, redaction, the embedded manifest but for the fields it
  requests: string processing.
* The normalizer: the commands construct one, and no ingest calls its methods.
* The local checks of `post create` (token, scopes, length of text) that precede
  any call.
* Usernames that pass from one account to another, and a second account over one
  database.
* The expiry of a token, which only `auth status` shows; the checks of the owner and
  mode of its file, which refuse it and change nothing.
* The variables of the environment that take the place of what the config says, the
  scopes of the consent, and guesses at the state in an authorize URL.

## 6. Plan

1. *Store, calls, delete, ingest, publish, token and audience*: done, as above.
2. *Opening the store, config and login*: done, as above.
3. *Proofs about token and audience, ingest, threads, and the files of the store*: done, as above.
4. *Proofs about publishing*: done, as above.
5. *Proofs about threads that were ingested, and step bounds*: done, as above.
