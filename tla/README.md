# A TLA+ model of Cardigan

Cardigan keeps two CardDAV address books, iCloud's and Fastmail's, equal: it
polls both, compares them with what it last synced, and writes the
differences to the other side. Neither server offers a transaction, people edit
both while it works, and the process, the network, a server or another process
on the same database may come between any two of its steps. This directory
models what it does, checks the models with TLC and proves the central safety
results with TLAPS.

The repository is under `src/`; paths below are relative to
`src/crates/` unless they start with `src/`.

## 1. The system

| Component | State | Operations |
|---|---|---|
| Sync cycle (`core/src/service/{mod,listing,apply,executor,href}.rs`) | none between cycles but the store; within one: the listing, the snapshot, the plan, the operation being run | `run_cycle`: idle check, list both sides, fetch, plan, guard, record diagnostics, run operations, `finish` |
| Planner (`core/src/sync/{snapshot,sides,planner,cycle,plan}.rs`) | none | which cards to fetch, classifying a side, the decision table over a synced contact, holding and deferring |
| Pairing (`core/src/sync/pairing.rs`, `core/src/contact/vcard/identity.rs`) | none | cards no row knows: same UID, same content, same person, copy, skip |
| Guards (`core/src/sync/guard.rs`) | none | the limit on deletions in a cycle; holding merged deletes that cross two pairs |
| State store (`core/src/state/`, `core/src/repository.rs`, `core/src/test_support/state.rs`) | a row per synced contact, the conflict history, card failures, the Recreate journal, endpoints with their sync tokens, baseline skips | one transaction each: save, drop, record a conflict, record failures, journal, replayed, discovery, finish, reset |
| Database (`database/src/`) | the SQLite file, one connection a process | the repository's calls as SQL, transactions, error codes |
| Address books (`core/src/addressbook/`, `carddav/src/{write,multiget,sync,adapter}.rs`, `core/src/test_support.rs`) | the servers' cards, their ETags, the sync history | list, delta, multiget, conditional PUT and DELETE |
| CardDAV client, discovery, XML (`carddav/src/{client,discovery,href,error}.rs`, `carddav/src/xml/`) | the cached collection | requests, redirects, well-known, principal and home set, classes of errors, what a multistatus body says |
| Recreate journal and replay (`core/src/service/replay.rs`, `core/src/state/pending_recreate.rs`) | the Recreates that may have deleted their card | journal before the DELETE, replay before the next plan |
| Group relinking (`core/src/sync/relink.rs`) | the UIDs replaced in this cycle | rewrite a Fastmail group that lists one, then copy it |
| Photos (`core/src/sync/photo.rs`, `core/src/service/photos.rs`, `core/src/contact/{photo,fit}.rs`) | a hash per row and side | merge the photo apart from the rest, write it back, read back what a server made of it |
| vCards (`core/src/contact/vcard/`) | none | parsing, the canonical form that is hashed, match keys, rewriting UID, photos and group members in place |
| Daemon loop (`cardigan/src/{sync,commands}.rs`) | the next tick | poll, obey Retry-After, `--reset`, stop on a signal after a grace period |
| Reports (`core/src/sync/report.rs`, `core/src/service/summary.rs`) | none | what a plan skipped, what somebody has to mend, what a cycle wrote |
| Command line, configuration, logging, schema | none | wiring, wording, migrations |

One cycle, end to end: the loop calls `run_cycle`; unless a failure is due,
both sides are asked for the delta since the stored token and two empty answers
end the cycle. Otherwise journaled Recreates are replayed, both sides
are listed in full, the cards that changed and their counterparts are fetched,
the planner decides, the guard may stop the cycle, and the operations run one
after the other, each writing one or both servers and then one transaction. A card
whose operation fails is recorded as a failure and held until its backoff passes
or it is edited. Only a cycle that ran all its operations stores the tokens of
*its listing*.

Where this is hard, and what makes each part correct:

* **Between reading and writing.** The listing, the fetch and the write are
  different requests. A write must never replace a card that was not read, and
  what it replaces must be accounted for (`CounterpartWasRead`, `NoEditLost`,
  `EditBeatsDelete`).
* **Between writing and remembering.** The server is written before the row.
  After a crash, a lost answer or a refused transaction the next cycle has to
  recognise its own write, without an echo, a duplicate or silence
  (`UnchangedIsUnchanged`, `IdleIsInSync`, `NoDuplicates`).
* **Holding and releasing.** A held card must not let its contact read as deleted
  or as new, the cards of a failed operation must be released together, no
  hold may last when nothing needs it, and none may hold up the others
  (`NoDuplicates`, `Converges`, `Patient`, `OthersGetThrough`).
* **Replacing a UID.** A pair under two UIDs is resolved by DELETE and PUT; in
  between the card exists in the journal only (`NoVersionLost`), and groups list
  the UID that is going (`GroupsRelinked`, `GroupsReported`).
* **Pairing without memory.** A baseline that is cut off starts afresh from
  what it has done (`ReplansTheRest`, `NeverMultiplies`), and what it leaves
  for people has to be told them (`CycleAccounts`, `DuplicatesKeepOne`).
* **Photos that a server changes.** iCloud shrinks, re-encodes and drops
  photos, and serves them by reference; what the row records decides whether an
  original survives and whether the two sides ever agree
  (`RecordedIsThere`, `NoGapAtRest`, `FastmailKeepsItsPhoto`, `Rests`).
* **A listing is many requests.** Pages are continued from intermediate tokens
  while others write, multigets leave cards out, a collection moves to another
  host (`Atomic`, `MissingIsGone`, `DeletedIsGone`, `TokensStayHome`, `Follows`).
* **One database, several processes.** Nothing keeps `sync --once` from running
  beside the daemon (`Serializable`, `TokensStand`, `NeverReadOnly`, `CyclesEnd`).
* **Text.** A server rewrites what it saves: too little normalising makes an echo
  an edit, too much hides an edit (`EchoIsQuiet`, `OnlyEditsShow`).
* **Time.** Intervals, Retry-After, backoffs, delayed ticks and a shutdown
  all meet in one loop (`Spaced`, `Stops`, `IdleIsDone`), and two guards stand
  between a client's mistake and a deleted address book (`WithinLimit`,
  `OneIsLeft`).

`PROJECT.json` lists each hazard at its line with the properties that would
catch it.

## 2. The modules

    AddressBooks <- StateStore <- Planner <- SyncCycle <- MCSyncCycle, SyncCycle_proofs
    Pairing <- Reports <- Baseline <- MCBaseline, Baseline_proofs
    Pairing <- Pairing_proofs <- Baseline_proofs
    Photos <- PhotoCycle <- MCPhotoCycle, PhotoCycle_proofs
    Dav <- CardDav <- MCCardDav, CardDav_proofs               CardDav  => AtomicBook
    Dav <- MemoryBook, which MCCardDav compares with
    Tables <- Adapters <- Database, MemoryStore <- MCDatabase Database => AtomicStore
    Database <- Database_proofs
    Failures <- Daemon <- MCDaemon, Daemon_proofs
    VCards <- Cards <- MCCards

(`A <- B`: B extends A; `A => B`: A is shown to implement B, through
`INSTANCE B WITH ...`. AtomicStore extends Tables; AtomicBook_proofs extends
AtomicBook.) Each family looks at the same cycle from another side, and takes
as one step what another family takes apart:

| Family | What it has in detail | What it takes from another |
|---|---|---|
| SyncCycle | one request or transaction at a time, for synced contacts | a listing is one step (CardDav: `Atomic`); a transaction is one step (Database: `Serializable`); equal bodies have equal hashes (Cards: `EchoIsQuiet`, `OnlyEditsShow`) |
| Baseline | contacts that were never synced: the pairing passes, Recreates, groups, reports | edits of synced contacts (SyncCycle) |
| PhotoCycle | the photos of one contact | races within a cycle (SyncCycle) |
| CardDav | every HTTP request of one side | what the cycle does with the cards (SyncCycle) |
| Database | every SQL statement of the cycle's transactions, in several processes | what the cycle writes to the servers (SyncCycle) |
| Daemon | cycles over time, failures, guards, timers | the requests of an operation (SyncCycle) |
| Cards | every line of a card | when cards are read and written (SyncCycle) |

**AddressBooks.** `card[s][h]` is the card at href `h` of side `s`. A card is
its UID and a body; equal bodies have equal canonical hashes. An ETag is the
number of writes its href has had. `sinceStored` and `sinceListed` say whether
the side changed after a token was handed out: all that a delta is used for.
`Matches` is If-Match and If-None-Match. People write and delete any card at
any time.

**StateStore.** `rows`, `conflicts`, `failures`; one operator per transaction.
A failure's `due` says that its `next_retry_at` has passed.

**Planner.** `FetchList`, `HeldHrefs` and `Snapshot` are phase A;
`Appearances`, `Blocked`, `Duplicated`, `Uncertain` are `SideView::classify`;
`Status` and `RowOps` are the decision table; `PairOps` what happens to cards
without a row; `ReadFailures` the diagnostics; `MassDeletion` the guard;
`FailedCards` what a failed operation holds.

**SyncCycle.** One action is one request or one transaction, because between two
of them anybody else may act. `pc` is the step: `wait`, `check` and `list`,
`fetch` (one side after the other), `plan`, `apply`, and within an operation
`archive`, `put`, `readback`, `delete`, `save`. An operation ends in `Save`, in
`Refused` (412, a card gone at the read-back, a row that would share an href),
in `Rejected` (this card only) or in `Unsent`/`AnswerLost` (the cycle ends).
`Crash` is the process stopping, a failed listing, or an unreachable store.

**Pairing.** The passes as pure operators on two sets of cards: `UidPairs`,
`ContentMatches`, `IdentityMatches`, `Mutual` (unique both ways), and
`Ambiguous`, `LikelyDuplicates`, `Copied` for the rest.

**Reports.** What `BaselineReport` and `CycleSummary` say of a plan: the counts,
the skips with their candidates, the groups with members iCloud will not have,
and the synced duplicates of which all but one may go.

**Baseline.** Runs what Pairing decides. An operation is a record of what each
of its steps does; it runs those it has in the order archive, first PUT,
journal, DELETE, second PUT, save. Before a cycle lists, the journal is replayed
(`DropEntry`, `ReplayPut`, `ReplayRejected`, `ReplayAborted`), which leaves aliases
for `CopyGroup`.

**Photos.** `decide`'s table as operators: what each side's photo is worth
against the row (`NextState`), what is copied and where, how it is made to fit,
and what the row records after a write (`Landed`).

**PhotoCycle.** The contact operation with its photo plan merged in: list and
fetch, download, PUT of one side, PUT of the other, read-back, save. iCloud may
shrink, re-encode or drop what it is given and may give a photo a new URI.

**Dav.** What the client makes of one response: statuses and their error
classes, propstats, the hrefs of a multistatus in any spelling, pages merged.

**CardDav.** One side's adapter under a cycle. Discovery goes from the
entry through redirects and the principal to the home set; a delta or a listing
goes page by page; a multiget goes batch by batch; a PUT or DELETE is conditional, a
412 on a DELETE is probed, and the token is stored at the end. Others write
between any two requests, and the provider may move the collection.

**MemoryBook.** The in-memory address book the Rust tests run on. Three assumptions
that TLC evaluates with the run `Transport` are about it: `DeltasAreComplete` (a delta
brings whoever knew the book at its token up to date), `BooksAgree` (deltas,
listings and multigets are answered as by the adapter when a server tells it
the same) and `PhotosAreServed` (what the book makes of a photo it is given can be
fetched again), each after three calls and more.

**AtomicBook.** What the cycle relies on: a listing is the collection at one
instant, and its token tells of every change since. In `CardDav!Port` a listing
in progress is none yet, and the last page of a listing is its instant.

**Tables** and **AtomicStore.** The state store as the service knows it: every
transaction as one function on all tables; what a cycle loads is the tables of
one instant.

**Adapters.** The SQL statements of each repository call, on tables of rows
with ids and versions, and the calls of each transaction of the service.
**Database** runs them statement by statement on deferred transactions:
snapshot at the first read, lock at the first write, BUSY, BUSY_SNAPSHOT,
`query_only` on the connection, and processes that die.

**MemoryStore.** The in-memory repository the Rust tests run on. Two assumptions
that TLC evaluates with the run `Database` tie the three together: `AdaptersAgree`
(each transaction made of SQL calls does what Tables says, after any four
transactions) and `StoresAgree` (each call is answered by the tests' store as by
the SQL adapters, after any four calls on a table and more).

**Failures.** `CardFailure` and the backoff: attempts, doubling, the cap, when a
failure is due and what clears it.

**Daemon.** Time passes one unit a step. `cycle` holds what the running cycle
knows; a cycle lists, plans, is blocked or not, and runs its operations one by
one in the executor's order. The loop's state is the tick, the time
since the last one, the embargo of a Retry-After and the grace of a shutdown.

**VCards.** A card is a sequence of physical lines (first, folded, blank, junk)
over atoms of text. `Parse` and `Properties`, the canonical form, the match
keys, and the rewritings `WithUid`, `WithPhotosOf`, `WithMemberUids`.

**Cards.** A contact as both servers hold it. A server saves a card in
another spelling (order, folding, labels, case, escapes, line ends), people edit
it, the daemon looks, pairs, pushes, copies photos and relinks members, and a
new release may hash in another way (`Upgrade`: `CANONICAL_VERSION`).

A definition whose comment begins with "Faulty" is a plausible defect
of the definition after it; nothing uses it. Substituting it makes some
property fail, which shows that the property depends on the code being as it is.

### What the models abstract

**SyncCycle.** Different UIDs are different people, so pairing has only its first
pass there (the others are in Pairing and Baseline); there are no photos and no
stale hash versions (PhotoCycle, Cards); the operations of one rank
run in any order, where the code has a fixed one; a DELETE refused with 412 and
the probe that finds the card gone are one step (CardDav takes them apart); a
backoff passes only between cycles, because a cycle reads the clock once when it
starts.

**Baseline.** A contact leaves the model when its row is written, and people
edit only cards of unsynced contacts, since synced ones are the core's subject;
for the same reason cycles are never idle, and listing and fetching a side is one
step. An ETag stands for the card it was given to. A photo is a flag that the
Fastmail card keeps. `began` and `owed` are history variables: what the run
began with, and the versions people wrote and did not take back. A journal
entry whose contact was deleted on iCloud in the meantime gives its version up,
as the code does. `mint_href` is a hash, so a minted href is never the
owner's.

**PhotoCycle.** A picture stands for the hash of its bytes; `Fitted` is what
`fit` makes of it. Listing and fetching both sides is one step, and a contact that is
held waits for its next cycle.

**CardDav.** Revisions number the writes; a card's ETag is the revision it was
written at. A page is any beginning of the changes since the token sent, which is
what continuing from an intermediate token relies on. Statuses stand for the class
`StatusError` gives them.

**Database.** `mark_seen` changes only timestamps, which are left out. The
processes use one connection each, as `open_database` has it for SQLite. `hosts` is a
history variable: the URLs the provider has had the iCloud collection at, the last of
which, `home`, is where it is. A token is the URL it was listed from and the number of
resets before it (`Token`), all that is ever asked of one. `due` is `run_loop`'s `reset`:
whether the daemon's `--reset` is still to be done. A daemon that died is started again
with `--reset` or without.

**Daemon.** A contact has the same UID on both sides; what one operation does to a
server and the store is one step; a contact's fault stays until it is taken
away, so that attempts can add up. An ETag stands for the content of its card: an edit
that is taken back before the next listing looks like none, where SyncCycle's ETags tell.

**Cards.** An atom is a piece of text nothing here takes apart: a word, a separator,
an escape, a number. Where lines fold and what a photo's bytes are is left out.

## 3. What is checked

Every bound is a constant: `MaxEdits`, `MaxFaults`, `MaxRev`, `MaxHost`,
`MaxCycles`, `MaxOps`, `MaxResets`, `MaxMoves`, `MaxCrashes`, `Longest`, `MaxSaves`,
`MaxUpgrades`, `MaxEvents`, and in Baseline `Len(Faults)`, where `Faults[n]` says what
the n-th fault may be. Everything else is finite by itself. `MaxAttempts`,
`BackoffCap`, `MaxPages` and `MaxHops` are the code's own limits, scaled down. Contents
are interchangeable (`SYMMETRY`) in the safety runs of the core.

| Run | Instance | Shows |
|---|---|---|
| `OneContact` | one synced contact, two hrefs a side, three contents and an unreadable one, 2 edits anywhere, 1 fault of any kind, ETags sometimes missing | `TypeOK`, `CounterpartWasRead`, `NoEditLost`, `EditBeatsDelete` |
| `Echo` | servers that return the ETag, a store that does not refuse; 2 faults | `UnchangedIsUnchanged`, `IdleIsInSync` |
| `QuietCycles` | one contact, nothing synced, ETags sometimes missing, 4 edits on iCloud between cycles, 2 faults of any kind | `NoDuplicates` |
| `Settles` | two contacts that may take each other's hrefs, a guard at floor 1 and 50%, 2 edits, one crash, rejection or lost answer; fairness | `Converges` |
| `Recreate` | one person under two UIDs with the same or another content, Fastmail wins, 2 edits, 2 faults | `NoVersionLost` |
| `Interrupted` | all pairs of address books with up to two cards out of six faces, with and without a shared UID; groups of members who are paired, skipped or on one side; three nameless contacts in a chain; one UID under two names; one crash or failed store, then perhaps a rejected replay | `NeverMultiplies`, `ReplansTheRest`, `GroupsRelinked`, `GroupsReported`, `CycleAccounts`, `DuplicatesKeepOne` |
| `Photos` | one contact, new or never tracked, pictures that fit, are shrunk, do not fit or cannot be copied; 2 edits, 1 fault; fairness | `RecordedIsThere`, `NoGapAtRest`, `FastmailKeepsItsPhoto`, `Rests` |
| `Transport` | two cards, one of them with two spellings, batches of one, two pages, two revisions, one move, one failed request of four classes; fairness | `Atomic` (refines AtomicBook), `MissingIsGone`, `DeletedIsGone`, `TokensStayHome`, `Follows`; the assumptions `DeltasAreComplete`, `BooksAgree` and `PhotosAreServed` |
| `Database` | the daemon with two cycles and a second process with one, which may be a dry run; one process started with `--reset`, the daemon at first, after its crash, or the other; two contacts that want one href, a failing card; one crash, one move; fairness | `Serializable` (refines AtomicStore), `TokensStand`, `NeverReadOnly`, `CyclesEnd`; the assumptions `AdaptersAgree` and `StoresAgree` |
| `Daemon` | two contacts that look alike, an unreadable card, guard at floor 1 and 50%, a contact whose writes keep failing, Retry-After of 2 against a poll interval of 1, merged deletes, a signal at any moment, with and without `--reset`; 2 edits; fairness | `WithinLimit`, `OneIsLeft`, `Spaced`, `Patient`, `IdleIsDone`, `Stops`, `OthersGetThrough` |
| `Cards` | two texts of a contact and one of a group, either side the winner, one saving by a server, one edit, one release, two of them in all | `AlwaysParses`, `EchoIsQuiet`, `PhotosStay`, `OnlyEditsShow`, `OnlyMembersChange` |

The instances are small because the cycle treats contacts apart from each other
but for four things: an href another contact had, the deletion limit, the order of
operations and what ends a cycle, and pairing. The
first three need two contacts (`Settles`, `Daemon`; an href that another contact's *row* still
has, which the store refuses, takes three edits: `Converges` was checked so by hand, with no
fault and no unreadable card), the last up to two cards a
side: uniqueness fails with the second candidate, and a third adds no case to
`Mutual`; the reports' chains need three. Two hrefs let a card move and be
duplicated; two edits are an edit
on each side, or an edit followed by its deletion or by a race; three contents are the
synced one and two that differ from it and each other. Two faults let a recovery be
interrupted. Two cards and two pages let a card change between the page that
had it and the last one, in both orders. Two processes make every lock and snapshot
conflict there is: SQLite has one writer.

`Recreate` has Fastmail win because then the iCloud card is written
first and a Recreate has all of its six steps.

Deadlock is checked in the runs of SyncCycle and Baseline: that daemon can
always start another cycle. It is off in `Photos` and `Transport` (a daemon at rest with
no edits left), `Database` (processes end after `MaxCycles`), `Daemon` (a process that
was asked to stop has stopped) and `Cards` (the events are spent).

**Fairness**, of the program only; nothing is assumed of people or of faults.

* `Settles`, `Photos`, `Transport`: weak fairness of `Daemon`. `run_loop` polls
  until the process is told to stop, and every request ends in an answer, an error or a
  timeout. `Settles` adds strong fairness of each `BackoffPasses`: a backoff is a finite
  time, and the time between two cycles counts towards it.
* `Database`: weak fairness of each process's `Transact \/ Proceed`. A statement
  returns, with BUSY after its timeout if need be, and a process that
  has died holds no lock.
* `Daemon`: weak fairness of `Cycle \/ Stop \/ Pass` as one: time goes on, and a
  cycle does, but a cycle may take as long as `Longest` at each step.

**Where a statement stops**, because the code does, or accepts it:

* `NoVersionLost` is about contacts, not groups: relinking rewrites members.
* A replayed PUT that the server *rejects* leaves the entry, and pairing then
  copies the iCloud card; the journaled card's own photo is gone.
  `Recreate` leaves out that fault.
* A Recreate whose PUT or DELETE is rejected holds the iCloud card; the
  next replay creates the Fastmail card, which pairing then copies to iCloud, because a
  held card without a row does not hold its UID (below). `NeverMultiplies` is
  checked under crashes and failed stores, and proved under whatever makes no card fail
  (`Smooth`). It excepts a name that one UID has on one side alone: pairing by
  UID makes both cards the winner's, whatever third card has that name.
* The UIDs to rewrite in groups live as long as the cycle, or come from the replay.
  If the cycle stops after the Recreate was saved, the group is copied as it is;
  `GroupsReported` says that a report named it, or was itself lost with the cycle: it is
  logged only after `finish` (`core/src/service/apply.rs:154`).
* `GroupsReported` and `GroupsRelinked` are true of the address books of their run, not of all: see
  *NamelessMember*; and a group that lists Fastmail UIDs and is on *both* sides is adopted or
  merged as it is, not relinked (`relink.rs`).
* Whether a *nameless* card is copied depends on what the other side holds by then,
  so interrupting a cycle may turn a copy into a skip. `ReplansTheRest` is
  about the rest.
* `FastmailKeepsItsPhoto` leaves out a stop between a PUT and its row: see
  *ResizedFlowsBack* below.
* `OneIsLeft` requires that no cycle planned one of the two deletions without the other
  (`Unplanned`): the guard sees only the plan. See *DeferredHalf*.
* `NoDuplicates` is checked with up to two faults where an answer to a PUT may carry no ETag, and
  proved for any number where it does (`Calm`): in between see *GhostHold*.
* `OthersGetThrough` is about synced contacts: a Create that keeps timing out ends
  every cycle, holds nothing (`holds_on_abort`, so that the lost answer's card is met
  again), and starves every operation after it.
* `TokensStand` requires that no two sync cycles overlapped, and that the collection
  went back to no URL it had left. With
  `sync --once` inside a daemon's cycle a token can outlive the rows it speaks of; for a
  collection that comes back see *ReturnedHome*.
* `RecordedIsThere` and `NoGapAtRest` hold where nobody edits a card between the daemon's
  PUT and its read-back (`EditsAtReadBack`), and iCloud drops no photo whose read-back
  fails: the run has one fault, the theorems rule out that pair.
* `DeletedIsGone` is about the host the collection is at: a host it has left answers
  404, which counts as "already gone".
* `Atomic` and the theorems on it need servers that give every member an ETag
  (`Tagless = {}`): see *UntaggedMember*.

### A disagreement with what the code says

`StateOnlyFailure` checks `IdleIsInSync` with a store that may refuse a transaction, and
ends in a counterexample. "state update failed; the next cycle re-plans it"
(`core/src/service/apply.rs:238`): an Adopt, Refresh or Forget holds no card, so
nothing is recorded, the tokens are stored, and the next cycle is idle.

### Smaller ones, seen while modelling

They have no run of their own; each names the provision that keeps it out of one, or
the change that shows it.

* *HeldPair.* A held UID "must not reach pairing from the other side"
  (`core/src/sync/planner.rs:83`). The UID of a held card *without a row* is not known to
  be held (`core/src/sync/sides.rs:47-52`): its contact, turning up on the other side, is
  copied beside it. One contact alone cannot get there (`OneContactCopiedOnce`). Two can, if
  somebody puts Ann's card at the iCloud href where Bob's failed, and Ann's first PUT had
  lost its answer: her card is held by Bob's failure, and her copy on Fastmail is
  copied to iCloud, beside her card. `CopiedOnce` assumes iCloud's hrefs change no contact (`AtHome`).
  For that reason `QuietCycles` has one contact: with two, 3 edits and one fault `NoDuplicates`
  holds, and needs the planner's filter (`planner.rs:86`), with two faults it is false.
* *OwnPushWins.* The winner decides "when the same contact was edited on both sides"
  (`src/README.md:23`). After a stop between PUT and row (`executor.rs:77`), a second edit of
  the same side meets the daemon's own push and may lose to it. The text stays in the
  history.
* *TakenHref.* "New card present: it finished" (`core/src/service/replay.rs:17`), but the
  replay looks at the href alone. The card there may be another: one that an
  earlier Recreate minted there, held by a failure, does not hold its UID, so its iCloud card is
  paired with a second Fastmail card. That Recreate deletes the card, its PUT is refused,
  and the next replay drops the entry with the deleted card's photo. It takes a
  rejected PUT, a rejected DELETE and a crash after each, and edits in between.
* *EtaglessPut.* The missing ETag is read so that "the next poll recognises its own
  write" (`core/src/addressbook/port.rs:36-38`). An edit before the read-back passes for
  that write: `Echo` has `EtagReplies <- AlwaysEtag`.
* *UnlistedHeld.* "a row whose href is no longer listed on that side counts as due"
  (`core/src/service/listing.rs:255-256`). Not when the failure has no ETag: nothing
  equals nothing (`core/src/state/card_failure.rs:201`).
* *GhostHold.* Held cards of a contact are "held and released together" so that none is copied
  back (`core/src/service/listing.rs:250-253`). By *UnlistedHeld* a failure can outlive its card
  and hold the group: a failed read-back leaves one without an ETag at the href
  of a card that somebody then deletes. If the contact's card comes back at another href, which has
  a failure of its own, it is held until the backoff ends; a Fastmail card that a lost answer left
  without row and failure is not, and is copied to iCloud beside it. The way found takes three iCloud
  hrefs, eight edits and five faults (two lost answers, the read-back, two crashes), in a run of
  `MCSyncCycle` with `SometimesEtag` that is confined to that script. `CopiedOnce` assumes
  servers that return the ETag.
* *NamelessMember.* The report lists groups whose members are "not on iCloud after this cycle"
  (`core/src/sync/report.rs:331`), as far as its plan tells. Two nameless cards on Fastmail share
  a phone number, and a group lists the second. One plan copies all three, so nothing is
  reported. If the process stops with the group and the first card copied, the next
  plan skips the second as a likely duplicate of the first (`pairing.rs:440-457`), and no longer
  sees an operation on the group: it stays short of a member that no report names. With nameless
  members excepted TLC finds no such group in books that hold both, interrupted once.
* *DeferredHalf.* Of a merged delete, "both deletes are held" (`src/README.md:94-98`).
  A deletion on a side with an unreadable card is deferred (`planner.rs:61-74`) before
  `hold_cross_deletes` looks, so the other half is carried out alone. So is each half
  of a merged delete that two listings see one after the other, and the deletion of one
  contact while a backoff holds the other's card, whose deletion follows when it is over.
* *ResizedFlowsBack.* `a_resized_photo_never_flows_back`
  (`core/src/service/tests.rs:1796`). It does if the cycle stops, or loses the answer,
  between the iCloud PUT and the row: the shrunk picture is then a photo iCloud changed.
  By the same way a photo iCloud dropped takes Fastmail's away (`executor.rs:457-461`).
  `EditsAtReadBack = TRUE` breaks `RecordedIsThere`: an edit between PUT and read-back is
  recorded as the daemon's own (`executor.rs:299-320`).
* *UntaggedMember.* A member without an ETag is skipped from a delta
  (`carddav/src/sync.rs:57-66`), against "complete" (`core/src/addressbook/port.rs:20-25`):
  with `Tagless` not empty, `NothingMissed` fails.
* *ReturnedHome.* "a new collection's tokens say nothing" (`core/src/state/endpoint.rs:24-27`),
  but the row is compared by URL, and a daemon keeps its collections until a listing fails
  (`core/src/service/mod.rs:229-232`). If the collection moves away and back, and another
  process stored a token of the place in between, the daemon stores its own token with the
  other's URL: with `MaxMoves = 2` and without `Returned`, `TokensStand` fails.
* *LostRace.* BUSY_SNAPSHOT counts as transient by `database/src/error.rs:84-90`,
  but sqlx reports 517 and only the bare 5 and 6 are recognised, so it ends as
  `RepositoryError::Database`.
* *StaleUrls.* After a `sync --once --reset` that stops before its discovery, a running
  daemon that has its collections cached fails every `finish` with NotFound, until it
  is restarted or a listing fails.
* *TestStore.* The in-memory store updates a row to an href another row has; SQLite
  refuses. `StoresAgree` leaves that update out.
* *ResetHolds.* In a daemon started with `--reset`, a cycle that fails leaves the reset to
  do again, which erases the failures it recorded.
* Unfolding strips a second `\r` (`rewrite.rs`); `match_keys` takes the first FN, N and ORG, so a server that changes their
  order changes the keys; a Recreate with a conflict counts as `updated` and as
  `conflicts`; `Skip::candidate_count` may be 1 for a nameless match, against its comment
  (`pairing.rs:38-39`); `groups_with_unmapped_members` takes a contact whose iCloud card
  is gone, its deletion held, for one iCloud has.

## 4. What is proved

Eight modules hold proofs; all hold for every value of the constants that the named
assumptions allow, which TLC evaluates in the runs.

| Theorem | Statement |
|---|---|
| `SyncCycle_proofs!Invariance` | `Spec => []IInv` |
| `SyncCycle_proofs!TypeCorrect` | `Spec => []TypeOK` |
| `SyncCycle_proofs!CounterpartRead` | `Spec => []CounterpartWasRead` |
| `SyncCycle_proofs!EditsKept` | `Spec => NoEditLost` |
| `SyncCycle_proofs!EditsWin` | `Spec => EditBeatsDelete` |
| `SyncCycle_proofs!EchoesAreSound` | `EtagReplies = {TRUE} \/ ~EditsInCycle => (Spec => []UnchangedIsUnchanged)` |
| `SyncCycle_proofs!IdleMeansInSync` | the same, with `"store" \notin Faults`: `Spec => []IdleIsInSync` |
| `SyncCycle_proofs!CopiedOnce` | `Calm => (Spec /\ []AtHome(own) => []NoDuplicates)`, for each `own` |
| `SyncCycle_proofs!OneContactCopiedOnce` | `Calm`, one contact: `Spec => []NoDuplicates` |
| `CardDav_proofs!ListingsAreAtomic` | `Tagless = {} => (Spec => Atomic)`: CardDav implements AtomicBook |
| `AtomicBook_proofs!AtomicMissesNothing` | `Spec => [](TypeOK /\ NothingMissed)` |
| `CardDav_proofs!NothingIsMissed` | `Tagless = {} => (Spec => []NothingMissed)`, by the two before |
| `CardDav_proofs!MissingCardsAreGone` | `Tagless = {} => (Spec => []MissingIsGone)` |
| `CardDav_proofs!DeletedCardsAreGone` | `Spec => DeletedIsGone` |
| `CardDav_proofs!TokensAreSentHome` | `Spec => []TokensStayHome` |
| `Database_proofs!InvHolds` | `Spec => []Inv` |
| `Database_proofs!SerializableHolds` | `Spec => Serializable`: Database implements AtomicStore |
| `Database_proofs!TokensStandHolds` | `Spec => []TokensStand` |
| `Database_proofs!NeverReadOnlyHolds` | `Spec => []NeverReadOnly` |
| `Daemon_proofs!TypesHold` | `Spec => []TypeOK` |
| `Daemon_proofs!CyclesAreSpaced` | `Spec => Spaced` |
| `Daemon_proofs!DeletionsAreLimited` | `Spec => []WithinLimit` |
| `Daemon_proofs!ACardIsLeft` | `Spec => []OneIsLeft` |
| `Daemon_proofs!FailuresWait` | `Spec => Patient` |
| `Daemon_proofs!IdleMeansDone` | `Spec => IdleIsDone` |
| `PhotoCycle_proofs!RecordsTell` | `~EditsAtReadBack => (Spec => [](DropUnseen \/ IInv))` |
| `PhotoCycle_proofs!RecordedIsThereHolds`, `NoGapAtRestHolds` | `~EditsAtReadBack /\ SeenOrOne => (Spec => []RecordedIsThere)`, `[]NoGapAtRest` |
| `PhotoCycle_proofs!FastmailKeepsIt` | the same: `Spec => FastmailKeepsItsPhoto` |
| `Baseline_proofs!VersionsAreKept` | `ReplaysServed => (Spec /\ []~Clash => []NoVersionLost)` |
| `Baseline_proofs!DuplicatesLeaveOneHolds` | `IsFiniteSet(Uid) => (Spec => []DuplicatesKeepOne)` |
| `Baseline_proofs!CycleAccountsHolds` | `~ IsContent(None) => (Spec => []CycleAccounts)` |
| `Baseline_proofs!NeverMultipliesHolds` | `~ IsContent(None) => (Spec /\ []Smooth => []NeverMultiplies)` |
| `Baseline_proofs!ReplansTheRestHolds` | `~ IsContent(None) => (Spec /\ [](edits = 0) => []ReplansTheRest)` |
| `Pairing_proofs!NoCardIsPairedTwice`, `EveryCardIsSettled`, `CopiesAreNoMatch`, `NamelessCopiesAreAlone`, `SkipsAreNotCertain` | of the three passes, for any two sets of cards with no UID twice in one |

**SyncCycle.** Assumptions: `WinnerAssumption` (the winner is a side), `MintAssumption`
(one href per UID and the other way round: `mint_href` is a hash of the UID),
`BoundsAssumption` (the types of the constants; the synced contacts are at
different hrefs), `NoneAssumption` and `NoRowAssumption` (no card, row or failure is `None`). None of the three safety
properties is inductive: each is about the card a write
meets, and nothing in the state at that moment says what the plan knew of it.
`IInv` carries that knowledge along:

* `SnapSeen`: while the cycle reads, a fetched entry's card is what its href holds for as
  long as it has that ETag, and an entry is "unchanged" only for an href
  the fetch list left out. It survives every edit, because an edit gives a
  new ETag (`BooksStep`). From the fetch list's closure under counterparts follows
  `CounterpartWasRead`.
* `OpsGrounded`: every operation still to run carries the ETag and the content of
  the card it will replace; an Update or Delete replaces the content of the
  contact's row. The plan establishes it from `SnapSeen`, and the conditional request
  makes it count: what If-Match accepts is the card the plan knew.
* `OpsApart`: one operation per contact, so no operation changes the row another
  one relies on; `RowsApart`: an href is in one row, so a listed href belongs
  to one contact.
* `Archived`: a conflict's loser is in the history before its PUT.
* `Control`: each step has the operation it needs, and no plan outlives its cycle.

Each action has its lemma (`...KeepsIInv`), most of which use
`KnowledgeStep`: a step that leaves plans and rows alone and moves ETags only
upwards keeps all of it. TLC checked `IInv` as an invariant before it was proved.

`UnchangedIsUnchanged` takes a second layer, `TrueInv`: not only rows, but every
operation still to run and what the current one wrote are true of the cards they name
for as long as those keep their ETag (`RowsHold`, `OpsHold`, `WroteHolds`). A PUT breaks the
third when its answer carries no ETag and an edit comes before the read-back
(*EtaglessPut*), which is what its hypothesis excludes.

`IdleIsInSync` is about a token stored long ago, so `IdleInv` follows a contact through a
whole cycle, as long as nobody touches either side after the listing (`Quiet`). The snapshot
then is what is there (`SnapExact`), and from the plan to `finish` every contact is in sync, or has an
operation pending, or is `Excused` by a failure that `finish` will not clear
(`Accounts`: the decision table leaves nobody out, `PlanAccounts`). An operation that
writes ends `Quiet`, and with it what the tokens can say; one that only records finds its
cards as the plan saw them and its hrefs in nobody else's row (`Ready`), and resolves no
other contact's failure, since rows' operations come before pairs' (`QuietStep`). At `finish`
nothing is pending, and `Settled` is left. A store that refuses such a record
breaks it, which the run `StateOnlyFailure` shows. TLC checked `IdleInv` also with two contacts.

`NoDuplicates` has the hypotheses of its run (`Calm`: nothing synced yet, people edit iCloud only,
between cycles, and put no second card of a contact there; every card can be read), and asks for ETags
in the answers to PUTs. The run leaves them open and finds nothing, with 4 edits and 2 faults; with
more of both it is false (*GhostHold*). For more than one contact it also asks that no
iCloud href changes contact (`AtHome`, see *HeldPair*). Crashes, resets, lost answers,
rejections and refusing stores are all in. `AInv` says

* that each contact has hrefs of its own (`Place`): on Fastmail the minted one, on iCloud those
  given to it; cards, rows, failures and operations are at them. An
  operation on one contact therefore touches nothing of another (`Touches`, `OthersCared`), and
  a second card could only be on iCloud (`Alone`);
* that nobody changes anything between listing and plan (`ReadStill`), so a plan is made
  of what is there (`PlanReads`), and a card it does not see is a held one (`CardSeen`);
* what decides it: a copy is made to iCloud only of a contact that has no card there
  (`OpAlone`). A Fastmail card without a row, whose PUT was never recorded, looks new, and would be
  copied to iCloud if the contact's card there were held and it were not. `HeldTogether` rules that out:
  whenever such a contact's iCloud card is held and would stay so, its Fastmail card is held as well.
  A failed operation holds both (`FailedTogether`: a pair's two cards, the source and whatever it wrote);
  a PUT to Fastmail is refused only by a card whose failure the cycle keeps, because the plan saw
  it held; an edit releases both, since what is held carries an ETag; and the end of
  a cycle does not clear one failure and keep the other (`KeptTogether`).

`FailuresPlaced` (a failure's ETag is one its href has had) is what makes an edited card due, and
needs the ETags: a failed read-back records none (*GhostHold*). TLC checked `AInv` with two contacts and three hrefs.

**CardDav.** Assumption: `CardDavAssumptions` with `CanonicalAssumption` (every card has a
spelling, revisions tell cards apart). A listing under way is not
the collection of any instant: its first page may be old by the time the
last one comes. What `IInv` keeps instead is about the token sent last (`Scan`):
whatever has not changed since that token is merged as it is; when the last page
arrives its token is the present, and everything is. `Delta` says so of a delta that
turns out empty, `Stored` of the token and listing at rest, `Fresh` and `Dated` that
revisions only grow, `Asked` and `Homed` what a multiget asks for and whose
token is sent. With `IInv`, each action is a step of AtomicBook or a stutter.

**Database.** Assumptions: `DatabaseAssumptions` (types of the constants; the hrefs are
finitely many) and `NoneAssumption`. The proof has three layers.

* *The adapters.* On tables whose unique columns are unique (`Keyed`), each SQL call
  changes the view as its name says and leaves them `Keyed` (`...Went`). The
  journal and the history are listed by id (`Nth`, `Rank`): a removal shifts
  what comes after it, in order (`PendingRemoved`, by induction on the number of rows).
* *A transaction in the middle.* `Half(x, cs, t)` is what transaction `x` makes of the
  tables `t` while its calls `cs` are still to come. The order within `SetToSeq` is not
  known, so the argument is about sets of calls: taking one call out of `cs` is that
  call's effect (`ContactsStep`, `EndpointsStep`, `FailuresStep`, `ListsStep`), with none
  left it is `Outcome(x, t)`.
* *The processes.* `Inv`: the tables of an open connection are `Half` of the file's view,
  unless it went `stale`, and then it has written nothing; at most one connection holds the
  write lock, and it is not stale, so what it commits is the whole transaction on
  the tables as they are now. From it each action is AtomicStore's `Ask`, `Commit` or
  `Abort`, or a stutter. A load is the store's at its first query, not at its end:
  that is what the mapping's `Read` says. `NeverReadOnly` follows as well.

`TInv`, for `TokensStand`, relates three copies of a URL: the row's, the one a cycle
works with, the one a daemon has cached. While no cycles overlapped, a running cycle's
connection is never stale; as long as the collection came back nowhere, whoever still has
another URL than the present one has one the collection has left for good. So a cycle that
has listed stores its tokens with the URL it listed, if with any (`TokensOK`).

**Daemon.** Assumption: `DaemonAssumption`, the types of the constants. `Timer`: what is left of the poll interval since the last cycle, and of
the time a server asked for, is never more than what is left until the next tick.
`Spaced` follows where a cycle starts, at tick 0. The loop recomputes the tick from
both after each cycle; losing either term (`TickAfterPoll`) breaks it.
`Sound` adds the types, `Readable` (a body to be pushed was listed) and `Limited`: the
cards a cycle has removed of a side and those it is still going to are within the limit;
each deletion moves one card from the second set to the first. `Planned` says that a
contact has one operation; `Survives` that of a deleted merged entry each half is still
there, or the other contact's remaining card is safe: it has its counterpart, or an edit no
deletion is due for. `Backoff` relates the
failure's attempts, its age and what the wait was promised to be (`DelayFacts`: doubling up
to the cap), through cycles that last longer than the wait.
`Resting`, for `IdleIsDone`, says what current tokens mean: every contact is `Done`, in sync or
waiting for something that is recorded. A cycle in which nobody changes a side knows each contact
as it is (`Listed`), and each is `Accounted` for: by an operation still to run, by a failure that
the end of the cycle keeps (`Stays`), or as one of a cross delete; that the decision
table and the pairing leave nobody out is `RowIsPlanned` and `PairIsPlanned`. An operation that
writes makes a token old; one that only records settles its contact. An adoption
also clears failures, which may be what keeps other contacts in doubt; those have been dealt with by
then, because rows come first (`RowsComeFirst`).

**PhotoCycle.** Assumptions: `CycleAssumption`, `StartsAssumption` (types; the contacts a
run starts with are recorded as they are). `IInv` is about
versions and URIs, which never repeat (`Fresh`): whoever read a card at a version knows
the picture it has as long as it has the version. `RowTells`, `SnapTells` and `OpTells`
say so of the record, of what a cycle listed and of what its operation will save;
`TokensTell` that while no failure is recorded, a card the tokens cover is the one the
record names; `NoGaps` that a record with a gap says so (`stripped`), or the other photo
cannot be copied. An operation establishes `OpTells` PUT by PUT: between PUT and read-back it holds
for whatever the server made of the photo.
The two hypotheses are where it fails: an edit between PUT and read-back is recorded as the daemon's
own, and a photo that iCloud dropped is recorded as landed when the read-back fails too
(`DropUnseen`). `RecordsTell` needs only the first; the other two take `SeenOrOne`:
at most one fault, or not both of those. See *ResizedFlowsBack* above for what
the code does there.
`OwnPhotos`, for `FastmailKeepsItsPhoto`, follows iCloud's picture from the card to the row, to
what a cycle read and to what it is about to save: as long as no write was left unsaved, each is
what iCloud has, or had before somebody changed it there (`Remembers`). So when a cycle finds
that iCloud's photo changed or went, a person did that, and a change by a person is all
that Fastmail is ever sent (`Meant`).

**Baseline.** Assumptions: `BooksAssumption` (a run begins with finitely many cards, one at
an href), `ContentAssumption` (what a card says is a record with a name), `BaselineBounds`,
`WinnerAssumption`. `VersionsAreKept` has two hypotheses besides, each where the code does lose a version.
`ReplaysServed`: no server rejects a card put back from the journal, as in the run. `Clash`: no
Recreate is about to delete the only card with its version while another card is at the href of
the new one; see *TakenHref*. Why a version is never lost is not in any one
step: the entry is written two steps before the card goes, and dropped
cycles later by a replay that looks at listings only. `IInv` says

* what an entry is worth at each moment (`Counts`): it holds its version when neither of
  its cards is there, or was there when the replay looked, and it is not about to be
  saved. What was listed for a replay is all there is (`SeenCovers`), so between listing and
  replay nothing can make an entry superfluous;
* that no operation still to run has to do with an entry, but the one that wrote it
  (`JournalApart`), and no two have a UID in common (`OpsSane`). A PUT or DELETE therefore touches
  no other entry's hrefs, and "one entry for a UID" never replaces one;
* that a PUT over a card replaces one whose version is in the history, or a group
  (`PutSane`), and that history and entry were written before the step that needs them
  (`Control`).

That a plan is like this (`PlannedSane`) follows from Pairing's lemmas: no UID is in two
matches, or in a match and a copy, because the first pass takes every UID that both sides
have (`UidsApart`).

`CycleAccounts` is about the end of a plan, and `AInv` about every step towards it. While
a plan is run, each card of each side is `Accounted` for: it is synced, `Told` of by the
report or a failure, `InHand` (a card of the current operation or one it wrote), or
waits in an operation of `todo`. That a plan leaves no card out is `PlannedOwn`, from
`EveryCardIsSettled` and `SkipsAreNotCertain`. That running one operation takes no card
from another is `OpOwn` and `Planned`: the UIDs operations are about are disjoint. When
an operation ends, what was in hand has a row (`SaveAccounts`) or a failure
(`FailOpAccounts`, which covers the cards as they are after its PUTs). `Counting` is
the balance of the books: what a side holds is what was seen plus what was counted as added,
but for a card created and not yet counted (`Extra`) or deleted and not yet put back
(`Lacking`). The theorem needs nothing of the faults; its hypothesis says that `None` is no record.

`NeverMultiplies` compares what a side holds with what the run began with, which no plan
looks at. Its hypothesis `Smooth` says that no failure is recorded and nobody edits; what is
left is what interrupts a cycle: crashes, listings that fail, answers that are
lost, rejected replays, however many of them. `NInv` counts the UIDs under a name (`Within`),
and has three ideas.

* *A copy needs a counterpart for every card it joins.* A side gets a new card of a name only
  if all its own cards of that name are under UIDs the other side has as well
  (`CopyFits`), so it stays within the other side. For pairs under two UIDs that is true only once they are
  under one; that Recreates run before copies (`Rank`, `StartOpFits`) makes it so
  in time (`Renewing`, `RenewedOp`).
* *A card in the journal still counts.* Between DELETE and PUT its UID is `Awaited`: the
  count of a name does not drop with the DELETE, or a copy could take its place before the
  replay puts it back. Nothing is planned before the journal is replayed, and whoever replays sees
  Fastmail as it is (`Replays`, `ReplayKnows`).
* *Both cards of a UID are under the same of the names* (`Alike`). This is where a name that
  one UID has on one side only is excepted (`Disputed`), and why a rewritten card
  keeps its name (`Renames`).

That a plan is like this (`PlanFits`) is again Pairing's (`CopiedFrom`, `LeftOver`): with no card
held, what is copied has a name that nobody on the other side is left with. Whoever has it there
was paired, or has a row and so a card on both sides.

`ReplansTheRest` compares the plan that is half run with one that is never made, so `RInv`
carries the second along: what is still to run is what pairing would decide of the `Rest`, the cards
without a row that are not the current operation's (`Replanned`). Nothing is assumed of
faults: the cycles before may have failed in any way, and `HoldsFailures` says that
who failed or was held in *this* cycle still has a failure, so that `failures = {}` means nobody did. It comes down to
three facts.

* *Pairing does not mind who leaves, if they leave together* (Pairing_proofs, `PassesOff`). Cards X that
  take their partners of every pass with them (`Closed`) change no other match, and no other card's
  being left alone. Both cards of a match are such an X, in whichever pass they were
  matched (`UidPairCloses`, `ContentPairCloses`, `IdentityPairCloses`), and so is a card
  that nothing matches (`LooseCloses`). The one of the third pass is not obvious:
  a card that an earlier pass left over because its content is contested could become free when a
  pair leaves. It cannot, as an equal content would have made a second identity match (`IdentityHasNoTwin`).
* *What is copied is left alone* (`CopiedIsLoose`), and a named card left alone is copied. This is
  where nameless cards differ: they also ask what is known of the other side, which grows as copies are made.
* *An operation's own cards are out of sight from its first step to its row.* Starting one takes exactly a
  closed X off the rest (`StartOpReplans`), its steps touch no other card (`StepReplans`), and
  saving changes nothing more (`SaveRest`), because the UID a Recreate took away was on no other card (`OneHref`).

TLC checked `RInv` on the run's address books and on some with groups, with any one fault, before it was proved.

`DuplicatesKeepOne` is about one state only (`DuplicatesLeaveOne`): if every deleted contact's
first like it were deleted as well, take the smallest deleted one. Its first is
like it and has it as its own first, so their two lines say the same, and the second is
left out of the list.

**Pairing.** Set algebra over the passes: each pass takes its pairs off both sides
(`LeftSides`, `PassSides`), a mutual match is unique both ways, and the rest is split
into copied, skipped and likely duplicates by definitions that exclude each other.

**What the proofs found.** The old `TokensStand` was not invariant (*ReturnedHome*), the old
`OneIsLeft` not either, beyond the bounds of its run (a contact held by a backoff, whose ETag comes
back). `NoDuplicates` is not invariant beyond the bounds of its run either, where servers may leave out an
ETag: the step that would not go through was a hold by a failure without one, and TLC, given the
order of edits and faults, found the way there, *GhostHold*. `NoVersionLost` is not invariant beyond the faults of its run: the step that would not go through was
the DELETE of a Recreate that meets another card at its new href, and TLC then found the
way there, *TakenHref*. `CycleAccounts` was false after a fault its run left out: an Adopt
whose row cannot be stored records no failure, its contact is in the report only as one
in sync, and the one trace is the count of state errors; the property and the run have it now,
and `ReplansTheRest` excepts such a cycle. `GroupsReported` was about to be proved along with
`ReplansTheRest` when TLC, on larger address books, found *NamelessMember*. The old form of `NoVersionLost` also failed for groups, it now leaves their versions out. `IdleIsDone` was not inductive for two reasons, both of the model: with a
new contact on iCloud the daemon started with a token that covers it, and a contact without a row
could pass for one of a cross delete. Two definitions had `CASE` arms that overlap, which leaves TLA+ free to choose where the
code takes the first: `UpsertDiscovery` and Daemon's `Status`; they are conditionals now.

**How.** Numbers and finite sets are inducted on without the library's induction theorems:
a set that holds 0 and with each number the next holds all (`NatSetInduction`, from the
library's well-founded order on finite sets), which is first-order. Every inductive invariant was an `INVARIANT` of its
component's run in TLC before its proof was begun; that of PhotoCycle also with three
faults.

**Model-checked only.** Liveness (`Converges`, `Rests`, `Follows`, `CyclesEnd`,
`Stops`, `OthersGetThrough`), which the prover cannot reach. `NoDuplicates` where an answer to a PUT
carries no ETag, which holds for the bounds of its run and no further. Of Baseline, `NeverMultiplies` where
a row cannot be stored (the card fails, and is held), and
`GroupsRelinked` and `GroupsReported`, are checked for the address books of their run only,
and the last two are not true of all (*NamelessMember*). VCards and Cards,
whose parser and rewritings are folds over lines: what a fold computes for every input is
induction over its recursive definition.

## 5. What is not modelled

* The schema (`database/src/entities`, `migrations`): generated code and
  statements run once; the unique keys they create are in Adapters.
* TLS, authentication, building requests, the XML tokenizer and the text of
  requests, parsing Retry-After and dates: conversions that no state depends on.
* Scaling pixels (`fit`), base64, columns of folded lines: data below an atom or a picture.
* Arguments, configuration, logging, the wording and layout of reports, the
  `dump` command: they keep no state.
* Test harnesses, but for the in-memory store and address book, which the tests
  trust to be like the database and the adapter.
* `strip_photo` and `photo_size`, which nothing in production calls, and
  `keep_photo_state` (`planner.rs:314-319`), which no plan of the service reaches.

## 6. Plan

Done: the core cycle and pairing with their first proofs, then photos, transport,
database, daemon, reports and text, the two refinements, and the proofs of all safety
properties of transport and database, photos and daemon.

Next, in this order:

1. **Proofs**: what does keep `NoDuplicates` without ETags (fewer faults, or a failure that is due
   when its card is gone: *GhostHold*); `NeverMultiplies` through failures that hold both cards of a contact; `GroupsReported` with its
   nameless members excepted, as the composition of two plans that `RInv` now relates.
2. **Composition**: SyncCycle over AtomicBook's listings in place of its own, with
   both sides' delays between listing and token.
3. **Two daemons' worth of time**: Daemon's cycles over Database's processes, for how
   long a token stays wrong after an overlap.
4. **Photo downloads** request by request, with what `carddav/src/photo.rs` refuses.

The runs of section 3 stay few: related questions share an instance, and a
question that a newer model states better gives its run up.
