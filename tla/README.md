# A verification project for ferry-agent

Ferry delivers e-books to reading devices. This directory holds TLA+ models of
the parts of Ferry where several actors share state - HTTP requests, background
tasks, periodic loops, the agent on the owner's network, readers, relays, and
the pages of the web front with their answers that come late - with
the TLC configurations that check them and the TLAPS proofs of the properties
that matter most. `PROJECT.json` maps every definition to the lines it models;
this file says what is modelled, what is shown, and what is left.

Paths below are relative to the repository; `core` stands for
`src/ferry_agent`, `agent` for `gateway/agent/ferry_gateway_agent` and `ui` for
`web/components/app`.

## 1. The system

| Part | State it keeps | Operations | Talks to |
|---|---|---|---|
| Delivery jobs: `core/services/delivery.py`, `core/api/deliveries.py`, `core/services/delivery_sweeper.py` | table `delivery_jobs`, one advisory lock per job | create, run (mail, cloud, code, catalog), cancel, retry, sweep | mail quota, relay, cloud, short codes, catalog tokens, conversion cache |
| Mail policy: `core/services/mail_policy.py`, `core/api/mail.py` | counts over `delivery_jobs` and `mail_tests` rows | check, record | delivery requests and runs |
| Short codes: `core/services/tierc.py`, `core/api/tierc.py` | table `short_codes` | create, page, download, purge | delivery jobs, conversion cache |
| Catalog tokens: `core/services/opds.py`, `core/api/opds.py` | table `opds_tokens`, row lock on the owner | create, reuse, revoke, resolve, count a download | delivery jobs, rate limiter |
| Rate limiter: `core/services/rate_limit.py` | hits per client, in memory | allow | OPDS routes |
| Conversion cache: `core/services/converters.py`, `core/services/conversion_profiles.py` | files on a volume | look up, convert, serve, expire | deliveries, downloads |
| Library: `core/services/library.py`, `core/api/books.py` | `library_items`, `sources`, files | import (connector, upload, gateway), delete | quota, gateway results, watch folder |
| Cloud links: `core/services/crypto.py`, `core/api/devices.py` | pending OAuth states in memory, `devices.link_ref` | issue, callback, exchange, store, delete device | Dropbox, Google Drive |
| Gateway access: `core/services/gateways.py`, `core/api/gateways.py` | table `gateways` | create, recreate codes, pair, revoke, delete, check a key | the agent |
| Gateway jobs: same files | table `gateway_jobs` | create, poll, results, dead letter, purge | the agent, the library |
| Agent: `agent/worker.py` | state file, torrents and their data | pair, poll, search, fetch, upload, clean up | platform, Transmission, Prowlarr |
| Watch folder: `agent/watcher.py` | snapshots of file names | poll, upload, remove | platform's upload route |
| Prowlarr cache: `agent/prowlarr.py` | addresses by reference, in order of insertion | search, resolve | Prowlarr |
| Others | none of their own, or single rows | connectors, metadata, covers, signed links, health, MCP adapter | |

The web front is a Next.js application. A page is rendered by the server with
what it read, then lives in the browser: its view keeps a copy of the rows it was
given and changes it by the answers to its own requests.

| Part | State it keeps | Operations | Requests in flight |
|---|---|---|---|
| Library list and collection: `ui/library/library-view.tsx`, `library-collection.ts`, `library-query.ts` | rows, notices, the criteria (in the address), the page, the ticks | add, delete, refresh, remount on a changed list; filter, sort, turn pages | POST of a result, DELETE, pages of the list |
| Search, covers, uploads: `library-view.tsx`, `cover-image.tsx`, `upload-dropzone.tsx` | results and their flags, an object URL, a queue of files | type, filter, page, abort; read a cover; drop files | search, cover, one upload of each drop |
| Gateway job: `web/lib/use-gateway-job.ts` | the last status seen | poll each 3 s for 20 min, tell the outcome | overlapping polls |
| Actions on several books: `web/lib/run-batch.ts`, `bulk-actions.tsx` | snapshot, cursor, results | select, confirm, run | three at a time |
| Dialogs of a book: `book-detail-dialog.tsx`, `book-edit-dialog.tsx`, `deliver-dialog.tsx` | the book shown, its history, the edit form, the choices of a delivery | open, edit, delete, choose, send | history, PATCH, DELETE, ways of a device, POST |
| Deliveries: `ui/deliveries/` | rows under a filter, one detail | refresh, poll, cancel, retry | numbered refreshes, polls, actions |
| Devices: `ui/devices/` | rows, forms, a link being made | create, change, delete, test, link to a cloud | list, forms, polls of the link, another window's message |
| Sources: `ui/sources/` | rows, one notice | switch, try again | one PATCH per catalog |
| Gateways: `ui/gateways/` | rows, codes told once, the panel's jobs, a clock | create, recreate, revoke, delete, poll | list polls, creations, jobs |
| Settings and reader links: `ui/settings/` | form, what was saved, links, an address told once | save, refresh, test, create and revoke a link | PATCH, refreshes, POST |
| Palette and shell: `command-palette.tsx`, `app-sidebar.tsx`, `app-mobile-nav.tsx`, `onboarding.tsx`, `web/components/ui/sidebar.tsx` | text, entries, highlighted one; which navigation is open; first steps per user | search, run an entry; open, close, change of width; dismiss | search after 250 ms, first steps |

What is hard, and where:

* **Interleaved requests and tasks.** The platform is one asyncio process (or
  several) over PostgreSQL at READ COMMITTED. Between two awaits anything may
  happen; a row read before an await is often written after it. The ORM sends
  only the columns that differ from what was *loaded*, by primary key.
* **Crashes.** Background tasks live in memory and die with the process;
  commits that belong together are made apart (relay and status, item and job,
  code and status, file and row).
* **Unreliable channels.** The relay may take a message and report an error;
  the agent's polls, results, uploads and pairing requests may be served and
  their answers lost.
* **Late answers in the browser.** A page sends requests that nothing orders:
  an answer comes after the dialog shows something else, after a newer answer,
  after the row was deleted, or after the page is gone; or it is lost, and the
  page does not know whether the change was made. Some requests are aborted or
  numbered, some are not.
* **Bounds.** Quotas, attempts, downloads, windows and caches at their limits,
  where a check and the write it allows are separate.

What makes each part correct is stated by its properties (section 3); the list
of hazards, each at its line with the properties that cover it, is in
`PROJECT.json`.

## 2. Modules

Modules are independent state machines except where stated; the variables of
one, its initial states and its next-state relation bear a prefix of its own
(`LibInit`, `LibNext`, `libVars`), so that a `MC_` module can extend several.
DeliveryJobs and GatewayJobs are checked alone: their `.cfg`
gives the constants their values, and they have no `MC_` module.
Definitions keep the names of the code's functions where they model a whole
function, and a name of their own where they model one step of it. In every
module a *faulty variant* - what a plausible mistake would make of an operation,
named and commented as such - stands beside the operation it alters; no
specification uses it. There are more variants than properties: those that no
mutation run uses show further mistakes that the same properties catch
(`ActAnsweredKept`, `TickLateAnswered`, `UnlinkCovers`, `LateApplied`, ...).

### The platform and the agent

**DeliveryJobs** - the core. One row per job (`status`, `error`, `attempts`,
`route`, `stale`, `links`), the advisory `lock`, runs (`tpc`, `tjob`, `tn`),
cancel and retry requests (`hpc`, `hjob`), what each sweeper has selected
(`picked`). A run goes `dispatched` (`Start`/`StartRefused`: `run_delivery`,
`deliver_synchronously`), `prepare`, then by route `sending`/`backoff`/`accepted`
(tier A), `uploading`/`uploaded` (tier B), `coded` (tier C) or the catalog, then
`unlock`. Cuts fall where the code awaits between a read and the write that
depends on it. The download of a code is three steps (`ReadLink`, then `Download`
or `DownloadFails`), with the conversion between the reading of the rows and the
commit; whether it writes the status depends on what it *read*. A run whose last
commit fails too, in the handler that should note the failure, leaves the row as
it was (`LeaveUnsettled`). `copies`, `cancelled` and `unsettled` are history;
`copies` counts from the last time the job was queued, so that what a run sent
before a retry is not added to what comes after.
Abstractions: the lock and the read that follows it are one step (the read is
made under the lock); a request refused with 409 because the lock is taken
changes nothing; the error of a run is written with its outcome; a job's route
is fixed when it is created.

**DeliveryLifecycle** - the abstract specification of a job for its owner: no
locks, tasks or requests, one execution at a time, cancels and retries only
between executions, copies only during one; an execution may end without a word
(`GiveUp`). `DeliveryJobs` implements it under
`executing <- Executing(j)` (property `ImplementsLifecycle`).

**MailQuota** - the sends of users, each with a state, the `age` of its row or
time stamp (this hour, this day, older) and, apart from it, the age of its last
going to the relay (`relayed`); requests, runs, retries and test messages check
and record separately. What is counted is the ledger of rows; what the relay
gets is another thing: a retry sends under the row it has, whose `created_at` may
be old, and a deleted device takes its rows along (`EraseRow`).

**CatalogTokens** and **ShortCodes** - the two kinds of bounded access to
files. **DownloadGrants** is the abstract one: never more downloads than
granted, none after the grant is closed. `CatalogTokens` implements it
(`IsGrant`): `consume_download` is one conditional UPDATE. `ShortCodes` does
not: its decrement is a read, a conversion and a write, so its own property
speaks of requests that start after a file was sent.

**ConversionCache** - one entry: the `file` at its path, who has it `opened`,
who opened it `last`, and the callers. `last` stands for the fact that a
truncating open decides what the path will hold when conversions overlap.

**LibraryStorage** - rows, files, the `sources` row with its unique constraint,
importers and deleters. An import is look-up, fetch, quota check, file, sources
row, commit; every step can be the last. All books have size 1.

**OAuthLinks** - states (`about`, `stateExpired`, `pending`), devices and their
links, callbacks between consumption of a state and the store of the link.
`pending` is lost when the process restarts.

**GatewayPairing** - the row of one gateway with the *generation* of the key
and code it holds, owner's requests that load it and flush it later, and the
agent with its environment, its state file and its memory. `Flush` is the
ORM's UPDATE: columns equal to what was loaded are left alone. An agent that
finds an identity asks for no pairing and saves nothing (`Resume`); one that is
granted a pairing in an answer that is lost has spent its code (`unanswered`).

**GatewayJobs** - jobs, the agent's one loop, result handlers that outlive the
agent's patience, the gateway's status, torrents. `items[j]` counts the imports
made for job `j`, whatever becomes of them. Recreation and pairing are one
action here (the detail is GatewayPairing's), the import is `Lookup` and
`Store` (the detail is LibraryStorage's).

**WatchFolder** - one file name, the versions copied to it, the agent's
snapshot of it and the upload.

### The web front

Each module has the server's side of its page as far as the page can tell:
rows that move on, requests that are served, and answers that are lost or late.
Variables commented *observed* are read by no action: they record the
overlap or the loss that a property makes an exception of.

**LibraryView** - the list (`libItems`) against the server's rows: the load by
pages, notices and panels, additions of results, uploads, arrivals from a
gateway with the refresh they start, deletions. A load that changes the key of
the page (`app/bibliotheque/page.tsx:46-52`) mounts a new view, and the requests
of the old one come to nothing. A book is in doubt (`libDoubt`) only for what
happened to that book, or for a page of the list that failed or was read across
a change: another book's refresh under way puts none in doubt by itself.
A result of a connector is looked up by its reference first (`LookUp`), and the
answer may be the book that the library has; a gateway's makes another. An answer
is put in front of the list whatever is listed (`Prepend`), so that a book may be
listed twice (`libDouble`). Which results are marked as in the library is read
again at each search (`SearchMarks`).
**Collection** - the criteria, the order and the pages they cut from whatever
the list is; selection and ticks outlive a filter as in the code. What is left
of a list when rows go (`Left`, `BooksInOrder`) is a recursive function, so that
it can be reasoned about. **BookSearch** (with the covers of what it finds, whose
names begin with `Cover`) and **UploadQueue** - requests that are aborted, dropped
or go on without their component.

**JobPolling** - ticks that do not wait for the previous answer, answers in any
order, React's effect as a step of its own. **BulkActions** - workers over one
cursor.

**BookDetail**, **DeliverDialog** - every answer returns with the book or device
it was asked for, and the dialog may be about another by then. The choices of
`DeliverDialog` (device, way, format) outlive its closing.

**DeliveriesView** - a row is its number of moves, so that an answer is older
when it is less; four kinds of answers write it.

**DevicesView**, **DeviceForm**, **CloudLink** - the list and its forms; what
the fields of a form allow and the server makes of them; the runs of
`startLink`, which share the dialog's state and end only when they read that
they are cancelled.

**SourcesView**, **GatewaysView**, **GatewayActivity**, **SettingsView**,
**ReaderCatalog** - the pages of the account. `GatewayActivity` measures ages in
ticks of the page's clock, which may lag. `GatewaysView` has one row per gateway:
a creation whose gateway a poll has read already is listed twice by the code, and
both rows, which change by their identifier, are one here. In `ReaderCatalog` the
list is what the page was first given, whatever is read later: a save of the
settings above it renders the page again, which tells anew whether the links can
be read (`PageRefreshed`) and leaves the list; deliveries make links of their own
(`device_catalog`), and links expire by the server's clock and, a minute later,
by the page's (`LinkExpires`, `SetNow`).

**CommandPalette**, **Shell** - what is over and around the pages.

## 3. Runs

Modules that share nothing are checked by one run: its first variable (`about`,
`bearer`, `limit`) is chosen at the start and says which of them the behavior is
of, and the others keep their first state. So the behaviors are exactly those of
each module alone; the state spaces add up and are not multiplied. Where such a
run's property is a conjunction, it names the parts, defined in the modules, and
holds their type invariants too. `BookIsTheOneShown`, `DeliveriesAreTrue`,
`LinksAreAttended` and `LibraryIsServers`, each about one module, stand in it;
those about several (`StorageHolds`, `UsedOnce`, `FolderIsSafe`,
`ShownIsAskedFor`, `PagesAreServers`, `WorkEnds`) stand in the `MC_` module.

Deadlock is checked unless the configuration says otherwise: it is switched off
where the system may really stop (a deleted gateway, an owner who does nothing
more, a bound reached).

| Run | Bounds | Shows |
|---|---|---|
| `delivery` | 1 job, all routes, 2 runs in memory, 2 requests, 2 sweepers, 2 attempts, 3 runs in all, a crash | type, `MutualExclusion`, `CancelledNeverExecutes`, `TruthfulStatus`, `AttemptsBoundCopies`, `RequeuedAtRest`, `RegressionHasCause`, the implementation of `DeliveryLifecycle`, `QueuedIsResolved`, `LockIsReleased` |
| `gateway` | 2 jobs, 2 handlers, 2 attempts | `DoneHasItem`, `DuplicateNeedsOverlap`, `ResultsAreKept` (`DoneIsFinal`, `DataKeptUntilSettled`), `JobsSettle` |
| `limits` | MailQuota: 2 users, 4 sends, 2 in an hour, 3 in a day; LibraryStorage: 2 importers, 1 deleter, 1 reference, quota 1, 3 files; ConversionCache: 3 callers | `QuotasHold`, `StorageHolds` (`OverrunIsBounded`, `RowsHaveFiles`), the type of the cache, `BrokenNeedsCause`, `WholeAtRest` |
| `quota_sends` | 1 user, 4 sends, 2 in an hour, 3 in a day | that `SendsStayWithinQuotas` is violated |
| `agent` | GatewayPairing: 2 generations of codes, 2 requests, 2 launches; WatchFolder: 3 versions, 2 interruptions | `LastCodesWork`, `KeysAreEarned`, `FirstStartPairs`, `FolderIsSafe` (`RemovedIsImported`, `CopiesNeedInterruptions`), `LeftAloneArrives` |
| `capabilities` | ShortCodes: 2 codes, 2 jobs, 3 requests; CatalogTokens: 2 tokens, 2 deliveries, 2 downloads, 1 revocation, limits 1 and none; OAuthLinks: 2 states, 2 devices, 2 providers, 3 callbacks | `UsedOnce` (`LaterRequestsRefused`, `SingleUse`), `OneCatalogPerReader`, implementation of `DownloadGrants` (`IsGrant`), `LinkAsAsked` |
| `web_library` | LibraryView: 3 books, 2 results, one of a gateway and one of a connector, pages of 1; Collection: 3 books, pages of 2; DeliverDialog: 2 devices, one a Kindle, 2 ways; BookSearch: 2 texts, 2 pages, 2 covers; CommandPalette: 2 texts; Shell: 2 users, 2 first steps | `LibraryIsServers`, `SentWasOffered`, `ShownIsAskedFor` |
| `web_dialogs` | BookDetail: 2 books, 1 delivery; DeliveriesView: 1 delivery; CloudLink: 2 devices, 2 runs of `startLink` | `BookIsTheOneShown`, `DeliveriesAreTrue`, `LinksAreAttended` |
| `web_settings` | DevicesView: 2 devices; DeviceForm: 3 brands; SourcesView: 3 catalogs; GatewaysView: 1 gateway, 2 issues of codes; GatewayActivity: 2 gateways; SettingsView: 4 values, one with blanks, 2 refreshes; ReaderCatalog: 2 links | `PagesAreServers`, `SwitchesAreServers`, `CodesShownWork` |
| `web_live` | JobPolling: 2 polls in flight; BulkActions: 3 books, 2 at a time; UploadQueue: 2 drops of 2 files; GatewaysView: 1 gateway, 1 issue of codes | `OutcomeToldOnce`, `EachBookAskedOnce`, `WorkEnds` (`FetchIsTold`, `BatchEnds`, `DroppedFilesSettle`, `PairingIsSeen`) |

The pages' properties say that what is shown is what the server has, *at rest*:
no request of the row is in flight and no answer about it was lost or overtaken.
What each exception is, and the code that makes it needed, is in the comment of
the property; the models reach every one of them.

Runs with a liveness property use no symmetry. `web_dialogs` takes the two books
as alike, `capabilities` and `limits` their requests and rows: nothing orders or
names them.

The bounds are the least that let the interesting cases meet. A race needs two
actors of a kind, so two, except deletions of books: `FilesMatchRows` is proved
for any number of them; the sweeper's race with a retry needs a second run
of the same job; a late result needs a second attempt; a code recreated over a
pairing needs two generations; a daily quota that binds apart from the hourly
one needs a second user. A late answer needs two things to be
shown in turn, so two books, devices, texts or polls; a list that differs from
the server's in one link and shows another needs two; a worker that takes a
second item needs more items than workers; a page that turns needs one more book
than a page holds; a switch in doubt beside one that crosses another needs
three catalogs. Counters that the code bounds itself
(attempts, copies, downloads) need no bound of ours; those of ours are named:
`MaxRuns`, `MaxCrashes`, `LastJob`, `Sends`, `LastGen`, `MaxLaunches`,
`LastToken`, `MaxCount`, `LastVersion`, `MaxInterruptions`, `LastItem`,
`MaxPolls`, `MaxPage`, `MaxColPage`, `MaxCodes`, `MaxRefreshes`, `LinkRuns`,
`OnlineWindow`, `CodesWindow`; a comment says *Bound* where an action has one of
its own (one list read at a time, one poll of a detail at a time, one download
of a job at a time).

### Where the code and its documents part

Three runs check one property each, which states what a docstring or a comment
says, and TLC finds a behaviour that breaks it.

| Run | Property | What happens | What does hold |
|---|---|---|---|
| `sweeper_spares` | `SweeperSparesAnnouncedJobs` | the sweeper fails a job that became sent after it was selected | `RegressionHasCause` |
| `conversion_raises` | `ImpossibleRaises` | an output that failed, was cut off or was refused stays in the cache, and the next call serves it | `BrokenNeedsCause` |
| `quota_sends` | `SendsStayWithinQuotas` | what is counted is rows by `created_at`: the retry of an older row, or a delivery whose device was deleted, is a send that no count has | `QuotasHold` |

The models hold other behaviours that a document of the repository does not
lead one to expect. No run of their own shows them; the properties of section 3
are stated with the exception each of them needs.

* The run of a delivery counts its own row in the quota (`RunRefused`): the
  last delivery that the request admits is refused by its run, where a test
  message is sent. ADR 0018 speaks of the same quota.
* A run that can write neither its end nor its failure leaves the job queued,
  with what it sent: a run that was dispatched earlier and waits (after a cancel
  and a retry) counts its attempts from one, and sends again (`unsettled`, in
  `AttemptsBoundCopies`).
* A pairing whose answer is lost has spent its code: the agent is refused until
  the owner recreates the codes (`unanswered`, in `FirstStartPairs`).
* Codes recreated over a pairing in progress disconnect the gateway
  (`clashed`, in `LastCodesWork` and `KeysAreEarned`).
* An agent restarted with a saved identity never presents its new code: hence
  `~mem.id` in `FirstStartPairs`. Nor does it save the key it was started with.
* Two overlapping downloads of a one-download short code are both served:
  hence `LaterRequestsRefused`, of requests that come after.
* A torrent is kept "for retry" after a refusal that ended its job
  (`RetainForRetry`): `DataKeptUntilSettled` is the half that holds.
* A book copied over one that is being uploaded is removed unread
  (`overwritten`, in `RemovedIsImported` and `LeftAloneArrives`).
* Two imports that each fit pass the storage check together:
  `OverrunIsBounded` says by how much.
* A device deleted during an OAuth exchange, or a network failure of it, ends
  in an error page rather than in a redirect (`StoreFindsNothing`,
  `ExchangeFails`).

Of the web front:

* `use-gateway-job.ts`: an older answer that overtakes the final one puts the
  book back to "fetching", and the interval is already cleared (`fetchCrossed`,
  in `FetchIsTold`).
* `library-view.tsx`: a deletion during a refresh is undone on the page until it
  is read again, and a page of the list that fails is left out without a word
  (`libDoubt`); one `addingId` for all results lets a result be asked twice
  (`DoubleAddNeedsOverlap`); the key of the page drops what was going on when the
  list changed. A result that the library has already (added twice, or with a
  search that was made before) is answered with the book there is, and that book
  is listed twice until the list is read again (`libDouble`).
  Dismissing "unavailable" leaves the panel of an empty library,
  which the comments at `library-collection.ts:20` and `:280` mean to avoid.
* Ticked books stay in the actions on several when the filter hides them.
* `book-detail-dialog.tsx`: the delivery of another book than the one shown
  replaces its loaded history; the answer of an edit reopens the dialog of a book
  deleted since (`detCrossed`, `detLate`).
* `library-view.tsx`, the search: an aborted request leaves `searching` set when the page goes
  back to the collection.
* `delivery-detail-dialog.tsx`: polls of the detail are neither ordered nor
  cancelled (`delList[j] < delKnown[j]`); a lost answer of a retry leaves a row
  "failed" that nothing polls (`delActLost`).
* `cloud-link-dialog.tsx`: an address that comes late sets the phase of whatever
  dialog is open (`lnkLate`); the window's message names no device (`lnkMixed`).
* `devices-view.tsx`: a list read before a change is applied after it
  (`devBack`); a creation tried again after a lost answer makes two devices
  (`devLost`). A device that becomes a Kindle keeps its cloud link.
* `gateways-view.tsx`: one `recreatingId`, and buttons that are not disabled:
  two recreations may be under way, and the codes of the first are shown though
  dead (`gwBehind`). A gateway can be revoked or deleted while its codes are asked
  for or shown, which then stay on the page though no agent can pair with them
  (`gwUndone`). Back closes a creation without clearing it (`gwLeft`).
* `reader-catalog-section.tsx`: a page first rendered without the list keeps an
  empty one; once a save of the settings has the page rendered again with the
  links readable, it says that there are none although readers use some. Nor does
  it learn of the links that deliveries make (`catUnread`).
* `settings-form.tsx`: what is typed while a save is under way is overwritten
  by its answer (`setOver`).
* `app-sidebar.tsx` turns the phone's sheet off, so the header's trigger does
  nothing there; the sidebar's cookie is written and never read; a change of
  language drops the query.

### Fairness

* `DeliveryJobs`: weak fairness of each run's steps and of each admitted
  request (asyncio runs what is ready, calls have timeouts), of ageing, and of
  the sweeper's selection; strong fairness of its write, which a request
  holding the row lock can only delay. No fairness of the owner, the reader or
  crashes, which `MaxCrashes` bounds.
* `GatewayJobs`: weak fairness of the agent's poll, of the time limit on each of
  its waits (`AgentFails`), and of the backoff's clock. Handlers' answers are
  covered by the agent's timeout.
* `GatewayPairing`: weak fairness of the agent's steps, strong fairness of
  `pair_gateway`: a request that is repeated for ever is at some time answered.
* `WatchFolder`: weak fairness of the loop's steps and of the platform's
  answers; interruptions are bounded.
* `JobPolling`: weak fairness of the clock, of the interval's last tick and of
  React's effects; nothing is assumed of the network or of the server.
* `BulkActions`, `UploadQueue`: weak fairness of requests' ends and of the loops:
  a browser ends each request, with an answer or an error.
* `GatewaysView`: weak fairness of the interval, strong fairness of reading and
  of answering the list: of requests sent for ever, one is served and answered.

## 4. Proofs

| Module | Theorems of |
|---|---|
| `DeliveryJobs_proofs` | DeliveryJobs, and that it implements DeliveryLifecycle |
| `GatewayJobs_proofs` | GatewayJobs |
| `Capabilities_proofs` | ShortCodes, OAuthLinks, CatalogTokens, that the last implements DownloadGrants, and MC_Capabilities |
| `Limits_proofs` | MailQuota, LibraryStorage, MC_Limits, ConversionCache |
| `Agent_proofs` | GatewayPairing, WatchFolder, MC_Agent |
| `LibraryPage_proofs` | DeliverDialog, BulkActions, JobPolling, BookDetail, BookSearch, CommandPalette, Shell, LibraryView, Collection, MC_WebLibrary |
| `AccountPages_proofs` | SourcesView, GatewaysView, DeliveriesView, CloudLink, DevicesView, DeviceForm, SettingsView, GatewayActivity, ReaderCatalog, MC_WebSettings |

Every safety property that a run checks is stated by a theorem. They hold for
every value of the constants. All follow one plan: the initial states satisfy an
inductive invariant, each action preserves it (one lemma per action or kind of
action, one step per part of the invariant that the action can disturb), so it
holds always, and each property follows. Every invariant was first checked by
TLC. A property of an `MC_` module that is about several components follows from
theirs: one lemma says that a step of the composition is a step or a stutter of
each part (`PartSteps`, `PageSteps`), another that its behaviors are behaviors
of each (`PartsAreAll`, `PagesAreAll`). So `BearersUseOnce` (`UsedOnce`),
`StorageIsKept` (`StorageHolds`), `FolderIsAlwaysSafe` (`FolderIsSafe`),
`ShownIsAlwaysAskedFor` (`ShownIsAskedFor`) and `PagesAreAlwaysServers`
(`PagesAreServers`) are of the specifications that the runs check. Below: what
each invariant adds to the property, and the assumptions on constants, which the
runs evaluate.

**DeliveryJobs.** `MutualExclusion` is not inductive: the model keeps the lock
and the program counters apart as the code does. `OwnerInv` ties them (whoever
is engaged on a job holds its lock); `ExistsInv` says that only created jobs
are named; `QueueInv` that a cancelled job is out of the queue and that a run
about to unlock has left the queue; `RouteInv` that a run is on a step of its
route; `CountInv` what a run knows of attempts and copies at each step, which
is what `TruthfulStatus` and `AttemptsBoundCopies` need; `QueueInv` and
`CountInv` except a job that a run left without a word (`unsettled`), whose later
runs find copies they did not send. Proved:
`TypeCorrect`, `LockExcludes` (`MutualExclusion`), `CancelHolds`
(`CancelledNeverExecutes`), `StatusIsTruthful` (`TruthfulStatus`),
`CopiesAreCounted` (`AttemptsBoundCopies`), `RequeueIsSafe` (the action
property `RequeuedAtRest`). `RegressionsHaveCause` (`RegressionHasCause`) needs
more than a state of the job: `LinkInv` says that a link can be used while its
job is executed only since an earlier run, and `AnnouncedInv` that a run finds
its job announced only where it announced it itself, by the cloud, or where a
reader used such a link. `JobsAreLifecycles` (`ImplementsLifecycle`) goes
action by action: `Executing(j)` changes only where a run begins its work on a
job or ends it, those steps are the abstract beginnings and ends, and every
other step is an abstract one or a stutter. Assumptions: `JobsAssumption`,
`ActorsAssumption`, `BoundsAssumption` - distinct identities and natural
bounds.

**GatewayJobs.** An item and the status "done" of its job are committed apart,
by handlers that outlive the request they answer. `HandlersInv` and `AgentInv`
say whose job each is at work on, `ItemInv` that a handler about to finish a
fetch has found or stored its book, `OverlapInv` that without an overlap what a
handler looked up is still so, `DoneInv` that nobody is at work on a done job,
`AttemptsInv` that only the dead letter exceeds the attempts, and `AnswerInv`
carries what the agent was told to the removal of its data. Proved, for any
number of jobs, handlers and attempts: `DoneJobsHaveItems` (`DoneHasItem`),
`DuplicatesNeedOverlap` (`DuplicateNeedsOverlap`), `WhatWasBroughtIsKept`
(`ResultsAreKept`). Assumptions: `LastJobAssumption`, `HandlersAssumption`,
`MaxAttemptsAssumption`.

**CatalogTokens.** A delivery reads in one step that a reader has no token it
can use, and creates one in another: `NoneWasFound` is what the lock of the
owner's row carries from the first to the second. `RowsOK`, `HandlersOK` and
`RowsInOrder` type the table and what handlers know of it. Proved: `OneCatalog`
(`OneCatalogPerReader`), `TokensAreGrants` (`IsGrant`: initial states and steps
map to those of DownloadGrants). Assumptions: `BoundsAreNat`,
`LimitsArePositive`, `NobodyIsNoDelivery`.

**ShortCodes, OAuthLinks.** `ReadWhenValid` (a request that converts read one
download left) and `ServedIsSpent` give `CodesAreSpent`
(`LaterRequestsRefused`); no assumption. `OnePlace` puts a state of a cloud link
in one place - unissued, pending, held by one callback, used - and `RightRoute`
carries the comparison of the provider over the exchange with it:
`StatesServeOnce` (`SingleUse`), `LinksAreAsAsked` (`LinkAsAsked`). Assumptions:
`NoStateIsNone`, `NoDeviceIsNone`.

**MailQuota.** A check is a count apart from the commit it allows. For a run,
its own row is among those counted, so the sends let through, it included, are
fewer than the quota; for a test message, `OneTest` (the lock) and `TestHasRoom`
keep the room that its check found, whatever runs pass in between;
`RelayedAreRecorded` says that nothing goes to the relay before its row is there.
What is bounded are the sends that went to the relay within the hour, or day,
*and are recorded in it*: the sends themselves are not (`quota_sends`). Proved:
`QuotasAreKept` (`QuotasHold`). Assumptions: `SendsAssumption` (the sends are
finitely many), `QuotaAssumption`.

**LibraryStorage.** `OwnItem` says that an import has its file to itself until
its row is committed, `WrittenBefore` that names are not used again, `FileFirst`
that a deletion at the row has removed the file, `SourceHeld` who holds the row
of a source. Proved: `OverrunBounded` (`OverrunIsBounded`, by counting the
imports past the check), `FilesMatchRows` (`RowsHaveFiles`). Assumptions:
`ImportersAssumption`, `BoundIsNat`, `QuotaIsPositive`, `NoRefIsNone`.

**MC_Limits.** `PartsAreAll`: a behavior of the composed specification is one of
each part, so that the theorems about the parts are about the run.

**ConversionCache.** `OpenInv` (an opened entry exists and is fresh),
`PartialInv` and `SmallInv` (a broken file has its converter at work, its
caller about to refuse it, or a failure behind it) and `OverlapInv` (while the
last converter to open the path runs, every other caller has met it) make
`BrokenNeedsCause` inductive; the crux is a second conversion that truncates a
file another caller was just given. Proved: `CacheTypeCorrect`,
`BrokenHasCause` (`BrokenNeedsCause`), `WholeWhenAtRest` (`WholeAtRest`). No
assumption.

**GatewayPairing.** Handlers write back, column by column, a row that they
loaded earlier (`FlushWrites`). `RowIsLatest` says that the row carries the last
generation or none, `SnapsAreEarlier` that within a generation a revocation is
not undone, so that a stale write either belongs to an older generation or
changes nothing back; `RevokedWereIssued`, `PairedIsEarned` and `AgentHasKey`
follow keys from the code to the agent. Proved: `LastCodesPair`
(`LastCodesWork`), `KeysAreAlwaysEarned` (`KeysAreEarned`). Assumption:
`PairingBoundsAreNat`.

**WatchFolder.** `OpenedIsThere` says that a version the owner left alone is the
one the upload opened, `AnsweredIsImported` that a whole one that was answered
is in the library, `NextNeedsInterruption` that a version imported once more
than there were interruptions is not sent again without another. Proved:
`CopiesAreInterruptions` (`CopiesNeedInterruptions`), `RemovedWasImported`
(`RemovedIsImported`). Assumption: `WatchBoundsAreNat`.

**DeliverDialog.** A way of delivery is sent from the dialog's state, which an
answer filled: nothing about the POST alone is inductive. `MethodIsKnown` and
`FieldIsKnown` follow the way that is chosen, and those the field lists, back to
an answer for the device that is chosen, and `AsksAreForDevice` says that a
request still attended was sent for it - which is what an answer that comes
after a change of device would break. Proved: `OnlyOfferedIsSent`
(`SentWasOffered`), for any books, devices and ways. Assumption:
`SendAssumption`, that Kindles are devices, formats are the four of the code,
and "none" is neither a device nor a way.

**BulkActions.** `RunShape` gives a run one cell per book of its snapshot;
`AskedBelowCursor` says that the cursor parts the books asked, once, from the
others; `CarriedApart`, `TakenOrSettled` and `FreeAtTheEnd` that what was taken
is carried by one worker or has settled. Proved: `BooksAreAskedOnce`
(`EachBookAskedOnce`), for any finite set of books and any number of workers
(`BatchAssumption`).

**JobPolling.** `StatusesWereHad` follows a status from the row to the request,
the snapshot and the page; `ToldOnce` says that one outcome at most was told.
Proved: `OutcomesAreToldOnce` (`OutcomeToldOnce`), with nothing assumed of the
network, the order of answers, or the number of polls in flight.

**SourcesView.** `SwitchesAreServers` says nothing of a catalog whose change is
under way. `PendingIsOfItsRow` says that such a change asks for the contrary of
the row, `DoneIsServers` that the server has what was asked for once it has
answered, `RowIsServers` that until then the row is the server's, and
`NoticeIsOfItsRow` that the notice offers a change from the row as it is; the
last is kept because any change takes the notice away. Proved:
`SwitchesShowTheServer` (`SwitchesAreServers`), for any set of catalogs.
Assumption: `SourcesAssumption`, that upload and torrent gateway, the two rows
without a switch, are no catalogs.

**GatewaysView.** The codes shown were the server's when they were issued; that
they are so still is `ShownIsLast` and, while a creation is open, `FormIsLast`.
`AsksAreLast` says that two recreations of a gateway in flight are seen as such
and that an answer has codes of a gateway that stands, `ConfirmAlone` that a
revocation or deletion that is sent was noted for the codes asked for or shown,
and `OnlyCreatedKnown` that the page names no gateway that does not exist.
Proved: `CodesOnThePageWork` (`CodesShownWork`), for any gateways and any number
of issues (`GatewaysAssumption`).

**BookDetail.** Some answers are heeded only if the dialog still shows the book
they were asked for, and some are written whatever it shows. `LoadedIsServers`
and `PostedIsServers` follow the deliveries from the server to what was loaded
and to the answer of a POST; `LiveAsksAreForItem` says that a request not
cancelled is for the book shown, `HistoryIsComing` that its deliveries were
loaded, failed, come, or were dropped by another book's; `FormIsOfItem` that
something is typed only in an open form. Proved: `DialogShowsItsBook`
(`BookIsTheOneShown`), for any books and deliveries; no assumption.

**LibraryView.** A refresh reads the list page by page while the list moves.
`RefreshesFit` says of each one what it has read: if the list has not moved, the
server's first rows, as many as its pages hold (`UpTo`), and when all of
it was one page, the server's list but for the books that moved since;
`LoadFits` says that of a load that is not shown yet. `WaysFit` ties the way a
book is coming by to whether the server can have it, `RowsDiffer` says that the
server lists a row once (so that a list read from it mends a doubled row), and
`OneIsAsked` that without an overlap one result is
asked for, the one the page remembers. The proof needs what a deletion leaves
of a list (`LeftIs`) and that the pages of a list make the list (`NextPage`,
`PagesCover`). Proved: `LibInvariance`, `ListsAreServers` and, of the
composition, `LibraryIsAlwaysServers` (`LibraryIsServers`), for any books, lists
and size of a page. Assumption: `LibAssumption` - a page holds a book at least,
a list the server starts from has no book twice, results of gateways are results.

**Collection.** The property is of a state, with no history: what is proved is
arithmetic. `SliceIs` says what a page is, `PagesFollow` that each begins
where the one before ends, and the order of what is displayed comes from what
filtering leaves of an order, by induction over it. Proved:
`CollectionsAreWhole` (`PagesAreWhole`), for any books, orders, criteria and
size of a page. Assumption: `CollectionAssumption` - both orders are of all the
books, none twice; a book with no reference is not a gateway's; the pages hold a
book at least.

**BookSearch, CommandPalette, Shell.** `SearchInv` adds that a request
attended was sent from the sources, and that results on the page there are of
the criteria; `CoverInv` that the only object address alive is that of
the running effect; `PaletteInv` that a text is waited for by a timer or by a
request and not both, and that the active entry is one of those there are, so
that books which come late move none the user has seen. Shell's property is
inductive with its types. Proved: `SearchesAreCurrent`,
`CoversAreOfTheirBooks`, `PalettesAreCurrent`, `NavigationStays` and, with
`CollectionsAreWhole`, `ShownIsAlwaysAskedFor` (`ShownIsAskedFor`). Assumptions:
`SearchAssumption`, `CoverAssumption`, `PaletteAssumption`, `ShellAssumption` -
bounds are numbers, markers are no texts, books or users.

**DeliveriesView.** Four kinds of answers write a row, in any order.
`RowsWereServers` says of every row that is on the page or comes with an answer
that it is not newer than the server's, and that it is the first one, with the
server further on, only if an action on it was answered, waits for its answer, or
lost it. `LiveIsOfFilter` and `LoadIsOfDetail` say what the requests that are
attended were sent for, `ActedIsNewer` that an action's row is not the one from
before it. Proved: `RowsInvariance`, `DeliveriesAreAlwaysTrue`
(`DeliveriesAreTrue`), for any jobs; no assumption.

**CloudLink.** The runs of `startLink` share one phase, one flag and one device.
`CancelledIsOver` says what a run that finds the polls cancelled may conclude;
`RunsHaveDevices`, `OkIsLinked` and `ConfirmedIsLinked` follow a device from the
window's outcome to what the owner is told. Proved: `LinkDialogInvariance`,
`LinksAreAlwaysAttended` (`LinksAreAttended`), for any devices and runs; no
assumption.

**DevicesView.** `NoneIsAhead` says that a device on the page, or in a list or
an answer under way, is not further than the server's; `ChangesAreCaught` that
whatever the server has done is known to the page, or was read for it, or is
unanswered or lost; `OneFormAtATime` whose request that can be. Assumption:
`DevicesAssumption`. **DeviceForm.** `FormInv` keeps the fields of an open form
of one brand, and what is stored a device that a form could mean. Assumption:
`FormAssumption`, of the brands and models.

**SettingsView.** The property is of the form at rest. `SavedInTheEnd` says that
between saves what is saved is the server's once no refresh waits, and that the
last refresh reads the server after the last save; `TypedStays` that with
nothing typed during a wait there is one save or one refresh under way, never
both. Assumption: `SettingsAssumption`.

**GatewayActivity.** `ListIsNotYounger` says that the list, read earlier, has a
gateway for no younger than it is; `PanelIsOfItsGateway` that a panel is mounted
anew when the gateway it is about is another, so that what it shows is not older
than the last news of it. Assumption: `ActivityAssumption`. **ReaderCatalog.**
`ListedAreLive` says that what is listed and what is not revoked differ by the
one link whose creation or revocation is served and not answered, and by those
the page was never given, which are none of its own (`UnreadAreOthers`);
`CreationIsOpen` and `RevocationIsOpen` keep the two requests apart, and
`SpentStay` that a link used up is not live again. Assumption:
`CatAssumption`. Proved of these pages, together with SourcesView and
GatewaysView: `PagesAreAlwaysServers` (`PagesAreServers`).

**Induction.** The library's induction theorems take an operator as a parameter,
which the provers used cannot instantiate. Induction over a *set* of numbers needs
none: `LeastNat` (a set of naturals that is not empty has a least element, from
the order being well-founded) gives `Induct` (a set with 0 and every successor
has them all). That proves that the recursive functions `Left` and
`BooksInOrder` are defined for every list, and what they keep.

Only model-checked: liveness, as fairness and ENABLED are beyond the provers
used - `QueuedIsResolved`, `LockIsReleased`, `JobsSettle`, `FirstStartPairs`,
`LeftAloneArrives`, `WorkEnds` (with UploadQueue, which has no other property).

## 5. Not modelled, and why

The map of `PROJECT.json` covers about a third of the lines of the web front;
what it leaves are generated types, public and documentation pages, primitives
of the design system, tests, and the markup and wording of the pages.

* Device edits and deletion cascades in DeliveryJobs (ShortCodes and MailQuota
  have the cascade); the bulk endpoint, a loop of creations.
* The loss of the database connection that holds a run's lock while the run
  goes on.
* Two-hop conversions (pdf to epub to mobi), two entries of the cache;
  temporary files; the mixture a reader may see of two versions of a file
  that is being written: an upload sends the content as of its opening.
* The rate limiter of the OPDS routes and the agent's Prowlarr cache: both are
  changed by one caller at a time, in one sequential operation.
* Collisions of random codes, keys and tokens; encryption and hashing are
  taken as injective and opaque.
* Connectors, metadata, signed download links, health, users, authentication,
  the MCP adapter, images and migrations: stateless, read-only, or single-row
  edits. `PROJECT.json` lists each with its reason.
* In the web front: the address of a delivery's file kept from an older row
  (`mergeDeliveryJobs`, `deliveries-state.ts:56-78`); the conversion profile of a
  device's form and the cloud state of a row; the comparison of the agent's
  version with the platform's; the storage gauge; which book a title's order puts
  first (given by a constant); the two modes of the shelf, looks, focus and
  keyboard of the design system's primitives.
* Books deleted by their owner while a gateway's result is looked up
  (`GatewayJobs`); who writes last in two overlapping conversions is taken to be
  who opened the file last (`ConversionCache`).
* Two tabs of one account, but for what a module's server does by itself and the
  storage they share in Shell.

## 6. What would come next

1. Abstract specifications of the pages: a list that is the server's, at rest,
   which LibraryView, DevicesView and ReaderCatalog implement in one way.
2. An abstract work queue that GatewayJobs implements: a job is offered a
   bounded number of times and ends once.
3. DeliveryJobs with device edits and deletion, and with the loss of the lock's
   connection; resolution of cloud uploads when no crash comes.
4. The composition of JobPolling with LibraryView and GatewayJobs: a fetched book
   arrives on the page that asked for it.
5. The safety half of the liveness properties, proved: that no reachable state
   is one from which what is waited for cannot come (no lock without a holder, no
   worker that carries nothing, no watched name in flight without an upload).
