# A TLA+ verification project for domain-os

domain-os is a domain registry: it keeps the domains registered under a set of
TLDs, with their hosts, contacts and sponsoring registrars, serves registrars
and administrators through an HTTP API, and runs Temporal workflows that expire,
purge and restore domains as time passes.  The modules in this directory model
what changes its state: the status and the life cycle of a domain, the API
operations that change a domain, the workflows that drive them, and the calendar
of phases that a TLD is sold in; around them hosts, contacts, registrars with
their accreditations, and the quotes for a name; and the jobs that work through
many rows, which are lists read page by page, the registrar sync and the escrow
tool.

Paths are relative to `src/`; `DS` stands for
`internal/application/services/domain_service.go`, `PS` and `ES` for
`phase_service.go` and `escrow_service.go` beside it.

## 1. Inventory

### Components

| Component | State it keeps | Operations | Interacts with |
|---|---|---|---|
| Domain status (`entities/domainStatus.go`) | 18 flags | set, unset, validate, automatic ok/inactive | part of the entity |
| Domain entity (`entities/domain.go`) | one row: status, dates, renewed years, grace-period dates, drop-catch flag, hosts | register, renew, force-renew, mark for deletion, expire, restore, add/remove host, set/unset status | called between a load and a save of the row |
| Domain service, controller, repository (`DS`, `rest/domain_controller.go`, `postgres/domain_repository.go`) | tables `domains`, `domain_hosts`; Linked flag in `hosts`; `nndns` | every write endpoint of a domain | concurrent HTTP requests share the tables; no lock, no transaction around a method |
| Life-cycle workflows (`workflows/expiryLoop.go`, `purgeLoop.go`, `restoreWorkflow.go`, `activities/`, `schedules/`) | Temporal's workflow state | list, then one activity per domain | activities are HTTP calls to the API, retried by Temporal |
| Hosts and addresses (`entities/host.go`, `services/host_service.go`) | tables `hosts`, `host_addresses`, `domain_hosts` | create, bulk-create, add and remove addresses, delete, link to and unlink from a domain | linked to domains of the same registrar |
| Contacts (`entities/contact.go`, `services/contact_service.go`) | table `contacts`: status, RoID | create, bulk-create, update, delete; set and unset status of the entity | named by domains |
| TLDs and phases (`entities/tld.go`, `phase.go`, `services/phase_service.go`, `tld_service.go`) | tables `tlds`, `phases`, `phase_prices`, `phase_fees`, `premium_lists` | add, end, delete phases, set policy and premium list, price and fee CRUD, escrow flag, delete TLD | grace periods and prices of every domain operation |
| Prices, fees, premium lists, FX, quotes (`entities/priceEngine.go`, `quote.go`, `fx.go`) | price tables, premium labels, exchange rates | quote; add and delete labels; refresh the rates | read by register and renew |
| Registrars and accreditations (`services/registrar_service.go`, `accreditation_service.go`) | tables `registrars`, `accreditations` | create, bulk-create, update, set status, delete, accredit, deaccredit | registrars sponsor domains, hosts and contacts |
| Registrar sync (`workflows/syncRegistrarsWorkflow.go`, `services/sync_service.go`) | table `iana_registrars` (and `spec5_labels`), Temporal's workflow state | refresh the table, count, list, create | downloads the list of IANA; activities are HTTP calls |
| Lists and cursors (`rest/*_controller.go`, `postgres/*`) | none of their own | fetch one page, compose the next link | read tables that others change |
| NNDNs (`entities/nndn.go`) | blocked names | create, delete, list | availability check; created by a purge |
| Transfers, whois, EPP server | none; none; sessions | none in use; read; greeting and login | - |
| Escrow import and analysis (`services/escrow_service.go`, `entities/rde*.go`) | CSV and JSON files beside the deposit, counters of the result | analyze a deposit, import its objects with many workers | HTTP calls to the API |
| RoID generator (`infrastructure/snowflakeidgenerator`) | node number, sequence | next identifier | keys of domains, hosts, contacts |
| Events and brokers (`rest/event_middelware.go`, ...) | - | publish | after the response |

### What is hard about it

*Read, modify, write, without a lock.*  Every method of `DomainService` loads a
row, calls a method of the entity and saves the whole row with GORM's `Save`
(`domain_repository.go:88`).  Requests on one domain overlap between these
statements: updates get lost, and a row may be saved after it was deleted or
after its name was registered again.

*Hosts that were not loaded.*  The entity recomputes `inactive` from `d.Hosts`,
which is empty whenever the caller did not ask for the hosts.

*Several statements per operation.*  Adding or removing a host, removing all
hosts, deleting and purging write two or three tables in separate statements;
a failure, a crash or another request may come between any two of them.

*Retries at two levels.*  An activity is attempted three times, each attempt an
HTTP request that the API may go on serving after Temporal has given it up; a
workflow that failed is started again by its schedule an hour later.

*Validation on a loaded calendar.*  A phase is compared with the phases its TLD
was loaded with, and written later, by `Save` or by name.  One careful answer per
endpoint has to keep the whole calendar in order over any sequence of them: a
phase that ends, gets a later end, is deleted and is created again.

*Tables that are replaced.*  The lists of IANA registrars, of Specification 5 labels
and of exchange rates are emptied by one statement and filled by another, by
requests that overlap and may die in between; lists and quotes read them meanwhile.

*Reading page by page.*  A list is read by one request per page, in four styles of
cursor, while rows come and go.

*Many workers on shared counters.*  The escrow import sends its objects with up to a
hundred goroutines, which increment the counters of the result without a lock, and
relies on files that an earlier run of the tool left behind.

*Time.*  Expiry, redemption and purge dates are compared with `time.Now()` at
different moments of a request.

### What makes it correct

- the status of a stored domain never contradicts itself, and its dates account
  for its renewals and never let it be restored and purged at the same time;
- a purge happens after the purge date only, blocks the name when it was
  flagged, and leaves no association behind;
- a deletion is undone only by the operations meant for it;
- a save never lands on somebody else's registration of the same name;
- every expired, purgeable or restored domain is dealt with in the end;
- at most one GA phase of a TLD is in force at a time, the past of the calendar is
  not rewritten, and no row refers to one that is gone;
- addresses, associations, accreditations and contacts of a domain refer to rows
  that exist, and identities stay with their objects, whatever stale row is saved;
- the linked flag of a host follows the endpoints that add it to domains and remove it
  from them (registration and purge leave the flag alone); statuses of hosts and
  contacts stay coherent over any sequence of changes;
- an accreditation was given to a registrar that met ICANN's conditions;
- a quote is the sum of its lines, and a premium name is never quoted as a plain one;
- a list misses no row that was there all the time and repeats none (that of the
  purgeable domains does, finding 5);
- a reference table is one published list or empty, and the sync ends;
- what an import reports as being in the registry is there, with the status the
  deposit gave it; and all is there that the tool can send and the API accepts.

## 2. Modules

| Module | Models | Follows |
|---|---|---|
| `DomainStatus` | the flags, `Validate`, `SetStatus`, `UnSetStatus`, automatic ok and inactive | `entities/domainStatus.go`, `domain.go:75-113` |
| `DomainEntity` | a row and the entity's methods, as set-valued functions ({} is an error) | `entities/domain.go` |
| `HostRemoval` | what the loop of `RemoveAllDomainHosts` does, in closed form | `DS:574-592` |
| `HostDetach` | the same loop, iteration by iteration, over Go's slice and backing array, retried by the purge activity | `DS:563-616`, `domain.go:305-318`, `purgeLoop.go` |
| `DomainRequests` | the write endpoints: processes that serve requests, one action per database statement | `DS`, `domain_controller.go`, `domain_repository.go`, `host_repository.go` |
| `LifecycleWorkflows` | ExpiryLoop, PurgeLoop and RestoreWorkflow calling `DomainRequests` | `workflows/`, `activities/`, `schedules/`, the worker's `main` |
| `PhaseEntity` | the validations of a phase and of a calendar, as predicates | `entities/phase.go`, `tld.go` |
| `TldPhases` | the write endpoints of one TLD's calendar: processes that load and validate, then write | `PS`, `tld_service.go`, `phase_controller.go`, `phase_repository.go`, `tld_repository.go`, the price, fee and premium list repositories |
| `HostStatus`, `ContactStatus` | the flags of a host and of a contact, and the methods that change them | `entities/host.go`, `contact.go` |
| `HostLifecycle` | hosts, addresses and associations, one action per statement | `services/host_service.go`, `DS`, `host_repository.go`, `hostAddress_repository.go`, `host_controller.go` |
| `ContactLifecycle` | contacts, their RoIDs and their use, one action per statement | `services/contact_service.go`, `contact_controller.go`, `contact_repository.go` |
| `Registrars` | registrars and accreditations, one action per statement | `services/registrar_service.go`, `accreditation_service.go`, their repositories and controllers |
| `Quotes` | the quote in its four queries, the price engine, premium labels and exchange rates that change meanwhile | `DS` (`GetQuote`), `entities/priceEngine.go`, `quote.go`, `fx.go`, `fx_repository.go` |
| `Paging` | the page, the cursor and the next link of every list endpoint | `rest/*_controller.go`, `postgres/*_repository.go`, `rest/response/` |
| `Listing` | a client that reads any of these lists to its end while rows change | the same |
| `ReferenceTable` | what readers of a refreshed table may rely on: an abstract specification | `services/sync_service.go` |
| `TableRefresh` | the refreshes themselves, statement by statement | `services/sync_service.go`, `ianaRegistrar_repository.go`, `infrastructure/web/ianaregistrars/` |
| `RegistrarSync` | the daily sync workflow on top of `TableRefresh` and `Paging` | `workflows/syncRegistrarsWorkflow.go`, `activities/` |
| `EscrowImport` | both modes of the escrow tool: files, workers, counters, deaths, failed calls | `ES`, `cmd/cli/escrow/` |
| `DepositStatus` | the status of one object on its way from the deposit into the registry | `entities/rdeDomain.go`, `rdeHost.go`, `rdeContact.go` |
| `MCDomainRequests`, `MCLifecycleWorkflows`, `MCTldPhases`, `MCAdministration`, `MCBatchJobs` | instances for TLC: sets of commands, of phases, of objects | - |
| `DomainRequestsProofs`, `DomainTableProofs`, `DomainSerialProofs`, `LifecycleProofs`, `TldPhasesProofs`, `HostProofs`, `AdministrationProofs`, `BatchProofs` | lemmas and theorems | - |

`DomainEntity` extends `DomainStatus`; `DomainRequests` extends both and
`HostRemoval`; `LifecycleWorkflows` extends `DomainRequests` and lets its own
worker processes serve the requests of the activities, while other processes
serve those of clients.  `TldPhases` extends `PhaseEntity` and shares no state with
the others: what a domain operation reads of the calendar, the grace periods and
whether a phase is current, is a constant or a failure (`Abort`) there.

`MCAdministration` puts hosts, contacts, registrars and quotes into one instance, and
`MCBatchJobs` the purge loop, a listing, the sync, the escrow tool and the object of a
deposit.  The parts of either share no table, so that `part` chooses, in the initial
state, which one moves; every interleaving within a part is explored.  `RegistrarSync`
composes `TableRefresh`, whose requests its activities start, with the pages of
`Paging`.  `DepositStatus` composes the status rules of domains, hosts and contacts.

The operators marked `Mutant:` are defective
variants of the definition below them, kept to show that each property is able to
fail.

### How the state corresponds to the code

A *status* is the set of the flags that are true.  A *row* keeps the fields some
decision depends on: RoID (0 for no row), registrar, status, creation and expiry
dates, renewed years, the add-period end, redemption end and purge date, and the
drop-catch flag.  Contacts, labels, authInfo and DNS data decide nothing here
and are left out.  The Go zero time is 0, time counts ticks from 1, a year is
`YEAR` ticks and a day is one tick.

`db` is the `domains` table, `links` the `domain_hosts` table (the hosts of the
row of each name), `linked` the Linked flag in the `hosts` table (which neither
registration nor purge touches), `nndn` the names with an NNDN, `nextRoid` the
identifier generator, and `req` what each process holds: its command, the row and hosts it loaded and when, and the place
it has reached (`pc`).  `edited` is a history variable: the RoIDs an
administrator created or edited, whose dates and status are his responsibility.

A process is a goroutine of the HTTP server.  A handler is a path of actions:
accept the request with its first statement (`LoadDomain`, `DomainNotFound`,
`CheckDomainAvailability`, `CreateDomain`, ...), then one action for each
further statement, with the computation around it.  `Abort` ends a handler at
any place between two statements: a failing query, a missing TLD, phase, price
or host address.

`SaveOr` is GORM 1.25.5's `Save`, as the repository uses it: it updates by
primary key; if that changes no row it inserts, which the unique name makes fail
when the name belongs to another row, and the foreign key when associations were
loaded that refer to the deleted row.  So a request that loaded a row before it was
purged may put it back; `Saveable` says when.  `Save` adds join rows and never
deletes one.  PostgreSQL's constraints, GORM and Temporal are modelled as far as
the code relies on them and are marked external in the map.

Abstractions: RoIDs given by an administrator are fresh, like generated ones;
the two reads of the availability check are one step (nothing modelled deletes
an NNDN between them); the price, fee and exchange-rate checks are part of
`Abort`, except for the range of years a quote accepts; the delete with a
foreign key and the delete of an absent name behave as PostgreSQL makes them.

The workflows read their list in one step, execute the activities for one domain
after the other in any order, and any free worker serves an attempt.  A list
activity that fails is a run that was not started; the list limit of 1000 is
not modelled.  `Lose` is an attempt that timed out or whose response was lost:
its process keeps serving it while the next attempt runs.

In `TldPhases`, `tld` is the row of the TLD with its escrow-import flag, `phases` the
rows of the `phases` table by id, `charges` the keys of `phase_prices` and
`phase_fees`, `lists` the names of `premium_lists`, and `lastId` the sequence behind
the ids.  An entity phase is its name, type, start, end, premium list and a value that
stands for its policy.  Prices and fees are keys without amounts.  A handler is two
actions: a `Load...` action loads, validates with the clock of that moment and puts
the write it goes for into `req`; the action named after the write performs it, or
`Fail` does nothing.  A refused request changes nothing and has no action.
`UpdatePhase` is GORM's `Save` again: it inserts a phase that was deleted meanwhile.
`UpdateTLD` saves a TLD with the phases it was loaded with, and inserts those that are
gone, without touching the ones that are there.  A phase is deleted by its name
within the TLD, which need not be the row that was validated.  `interleaved` is a
history variable: whether any step has come between a load and its write.

In `HostLifecycle`, `hosts` is the `hosts` table by identifier, `addresses` and `uses` the
tables `host_addresses` and `domain_hosts`, and `hostReq` what a process is about to do
next, with the rows it loaded.  `PutBack` is what GORM does with associated rows when a
domain is saved: an INSERT with ON CONFLICT DO NOTHING of every host the domain was
loaded with, so that a host deleted meanwhile comes back.  `disturbed` is a history
variable like `interleaved`, and so are `overtaken` of `ContactLifecycle` and `rarOvertaken`
of `Registrars`.  In `ContactLifecycle`, `contact` is a contact in memory, because SetStatus
and UnSetStatus of the entity are called by no endpoint; the PUT takes a whole status.
In `Registrars`, `qualified` is a history variable: what the rows of the table once
qualified for.  A registrar that Append inserts for an accreditation has neither name
nor status (`Ghost`), as GORM writes it.  Refused requests change nothing and have no
action; `HostFail`, `ContactFail` and `RarFail` end a request between two statements.

In `Quotes`, `quote` is a request with what it has loaded so far; `LoadPhase`,
`LoadDomain`, `LoadPremiumLabels` and `LoadRateAndAnswer` are its queries.  Amounts are
integers of minor units with the rounding of `FX.Convert`.  `labels` is the premium list
in the order of its ids, of which a quote sees one page of the labels that contain the
name; `fx` is the table of rates.

In `Listing`, `rows` is the table, by the order of its key, and `listing` the client: its
endpoint, its next request, and what it has read.  `steady` is a history variable, the
rows that were there from the first page on.  Each endpoint is an operator of `Paging`
that names the style of its repository, of its cursor and of its next link.  The
purgeable domains are two of them, with and without the `tld` parameter: the service
passes TLD and cursor in the order of the interface, the repository takes them in the
other one, and `ListPurgeableDomains` models what comes of it, as both are strings.

In `TableRefresh`, `table` is the table of a list, `refresh` each request with its place
and the list it downloaded, `current` the number of the list that the source publishes.
In `RegistrarSync`, `sync` is the workflow: step, attempt, page, list.  An attempt that
timed out leaves its request in `refresh`, where it goes on.

In `EscrowImport`, `stored` is what the registry holds, by unique keys; `files` the files
beside the deposit, of which one that is being rewritten may be left with a part;
`tool` the run, with the commands still to be sent (`todo`, the channel); `worker` the
goroutines, and `counted` the counters, which are read and written in two actions.
`whole` and `answered` are history variables.

An object is a model value, and the constants are what the deposit says of it: its sponsor
(`Sponsor`), the registrars that created and updated it (`Agents`: CrRr, UpRr), the
contacts of a domain, its name servers, which of them lie directly below it
(`InBailiwick`), the hosts with addresses (`Glue`), and whether it is valid at all
(`Invalid`).  A command passes these checks, in the code's order:

| Check | In the model | In the code |
|---|---|---|
| the registrar mapping has an entry for ClID, CrRr and UpRr: a registrar the deposit lists or the sponsor of an object it counted | `Unsendable`, `Entries`, `AgentsOf` | `ES:1286-1311`, `1411-1436`, `1542-1567`, `2004-2011` |
| the sponsor is mapped to a ClID (an empty one is refused; an empty CrRr is not set) | `Acceptable` | `DS:90-152` and its twins |
| the contacts of a domain, and the domain and a host of its sponsor for a link | `Needs` | `DS:508-522` |
| a link: room on the domain, and an address for a host below it; an existing link first | `MayLink` | `domain.go:259-282` |
| the row is not there already | `Answer`, `Stores` | `host_service.go:33-72` and its twins |

A host and its addresses are two rows, stored by two statements (`Rows`), between which
a request may fail.

What validity means for the status is `DepositStatus`:
`said` is the sequence of status elements, `stage` where the object has got to.

## 3. Properties and runs

| Run | Instance | Shows |
|---|---|---|
| `RequestsSerial` | 1 process, 1 name, 1 host, 5 ticks, 1 registration; all life-cycle operations, -1 and 1 years | `PurgeIsDue`, `DeletionSticks`, `RenewalsAccumulate`, `TypeOK` |
| `RequestsHosts` | 1 process, 2 names, 4 hosts of 2 registrars, limit 2, 2 registrations | `HostLimit`, `SponsorsAgree`, `NoOrphanLinks` |
| `RequestsRace` | 2 processes, 1 name registered up to twice, 4 ticks | `StatusConsistent`, `RenewalAccounting`, `RedemptionBeforePurge`, `IncarnationStable` |
| `Workflows` | 3 workflows, 2 workers, 1 client, 1 name, 2 registrars; 1 failure, 2 client requests, 2 attempts, 3 ticks | `ExpiredHandled`, `PurgeableHandled`, `RestoredHandled`, `WorkflowsTypeOK` |
| `Phases` | 2 processes, 2 phase names, 1 premium list, 1 price, 2 phase rows, dates 0 to 3 | `GAPhasesDisjoint`, `StartedPhasesKept`, `HistoricPhasesFrozen`, `EndDatesMoveForward`, `CurrentPhaseProtectsTld`, `ReferentialIntegrity`, `TypeOK` |
| `Administration` | hosts: 2 processes, 2 hosts, 2 domains, 2 addresses, limit 1; contacts: 2 processes, 2 ids, 3 RoIDs, 3 statuses; registrars: 2 processes, 2 registrars, 1 gTLD; quotes: 2 labels, 2 currencies, 2 phases, pages of 1 | `ReferencesHold`, `AddressLimit`, `LinkedTellsUse`, `RoidsKept`, `ContactStatusCoherent`, `AccreditedOnceQualified`, `QuoteAddsUp`, `PremiumNeverUndercut`, `AdministrationTypeOK` |
| `BatchJobs` | purge: every set of up to 10 hosts, either order, 3 attempts; listing: 4 keys, pages of 0 to 2, 2 changes, every endpoint; sync: 3 requests, 2 lists, 2 attempts; escrow: 2 contacts, 2 hosts, 3 name servers of 2 domains, limit 1 host per domain, 2 NNDNs, 4 registrars of whom 3 are listed, 2 workers, 3 runs, 1 fault; deposit: up to 3 statuses in every order | `LoopSummary`, `PurgeCompletes`, `ListingComplete`, `TableIsOneList`, `SyncEnds`, `CountedAreStored`, `CleanImportCompletes`, `ImportKeepsStatus`, `BatchTypeOK` |
| `HostDetachAll` | 3 hosts | `AllHostsRemoved` is violated |
| `RequestsInactive` | 1 process, 1 host | `InactiveMatchesHosts` is violated |
| `WorkflowsRestore` | as `Workflows`, 2 failures, 3 client requests | `RestoreTriedAgain` is violated |
| `PurgeablePages` (module `Listing`) | 2 keys, pages of 1, no change | `PurgeableOnce` is violated |
| `SyncIana` | the sync of `BatchJobs` | `SyncedWhenDone` is violated |

What they say:

- *PurgeIsDue*: a purge deletes a row only after its purge date, without
  associations, and with the NNDN in place if it was flagged for drop catching,
  whatever failed half-way before.
- *DeletionSticks*: `pendingDelete` goes away by a restore, by an explicit unset,
  by an administrator's edit, or with the row, and not as a side effect of
  anything else.
- *RenewalsAccumulate*: the expiry date never moves back, but for an edit, or an
  auto-renewal by a negative number of years, which the endpoint accepts
  (`DS:1304`; the quote it asks for is for one year).
- *HostLimit*, *SponsorsAgree*, *NoOrphanLinks*: no order of adding, registering
  with, removing and half removing hosts exceeds the limit, mixes sponsors, or
  leaves an association without a row.
- *StatusConsistent*, *RenewalAccounting*, *RedemptionBeforePurge*,
  *IncarnationStable*: what is left of a row's integrity when requests overlap
  and lose updates.
- *LoopSummary*, *PurgeCompletes*: `RemoveAllDomainHosts`
  removes every second host only.  With k hosts it leaves (k-1) div 2, and it
  fails when k > 2; ten hosts become 4, 1 and 0, so that the three attempts of
  the purge activity are just enough.  `LoopSummary`, which also says that the entity
  and the associations agree after an early return, is what entitles
  `DomainRequests` to use `HostRemoval` instead of the loop.
- *ExpiredHandled*, *PurgeableHandled*, *RestoredHandled*: the workflows get
  through.  Each excludes one case the code does not get through: an expired
  domain that can be neither renewed nor expired (`serverDeleteProhibited`, a
  pending action), a flagged domain whose NNDN was created by a purge that
  failed before its last statement (`DS:400-407`: every later purge fails on the
  NNDN), and a restored domain whose status may not be updated.

- *GAPhasesDisjoint*: no sequence of creations, endings, moved ends, deletions and
  saves of other fields makes two GA phases with different starts intersect,
  although setting a first end is not compared with the calendar at all
  (`tld.go:215`), and moving one is compared with the phases that have not ended.
- *StartedPhasesKept*, *HistoricPhasesFrozen*, *EndDatesMoveForward*,
  *CurrentPhaseProtectsTld*: the past of a calendar stays, and a TLD with a current
  phase is neither deleted nor opened for an escrow import.
- *ReferentialIntegrity*: in every interleaving, with saves that insert deleted
  phases again, no phase is without its TLD, no price without its phase, and no two
  phases share a name.

- *ReferencesHold*: whatever interleaves, hosts, addresses, associations, contacts,
  accreditations and sponsored objects refer to rows that exist, keys and names stay
  unique, and stored statuses valid, although saves put deleted hosts and contacts back
  and an accreditation may insert a registrar without a name.
- *AddressLimit*, *LinkedTellsUse*: without overlapping requests no order of creations,
  additions and removals exceeds the addresses of a host, and the linked flag follows
  its use by several domains.
- *RoidsKept*: the PUT of a contact keeps its RoID, unless a deletion overtook it.
- *ContactStatusCoherent*: `IsValidContactStatus` looks at ok only, and yet no sequence
  of SetStatus and UnSetStatus combines pending operations or one with its prohibition.
- *AccreditedOnceQualified*: a registrar that was accredited met the conditions of
  `AccreditFor` at one time, whatever changed before the accreditation was stored.
- *QuoteAddsUp*, *PremiumNeverUndercut*: a quote's price is the sum of its lines, each
  converted as shown; and while a label is on the premium list its name is not quoted at
  the plain price, although the quote sees one page of the labels that contain it.
- *ListingComplete*: a listing that ends has every row that was there all the time, and
  none twice.  Its first half excludes the page size 0 and the list of active phases,
  which stop early; its second half the purgeable domains, whose next link leads to
  the first page again (finding 5), so that their list never ends.
- *TableIsOneList*: `TableRefresh` implements `ReferenceTable`.  Refreshes that overlap
  leave one published list or none, because an INSERT of a list that shares a key with
  the table fails as a whole.
- *SyncEnds*: every run of the sync comes to its end, whatever fails on the way.
- *CountedAreStored*: what the import counts as created or existing is in the registry;
  lost increments make the counters too small, never too large.
- *CleanImportCompletes*: an import that found whole files and had every call answered
  leaves everything importable in the registry, whatever earlier runs did: contacts,
  NNDNs, the hosts with their copies for other registrars, domains and delegations.
  Importable is what passes the checks of section 2; of a domain with more hosts than it
  may have no delegation is claimed, as it depends on the order which fit.  A delegation
  to a host below the domain that has no address is excepted (`Unaddressed`): the deposit
  has none, or an earlier run stopped between the host and its addresses, and the retry
  is told that the host exists and leaves it so.
- *ImportKeepsStatus*: an object of a deposit is refused only for what it says, in
  whatever order it says it, and arrives with exactly its own flags.

The properties of the calendar but `ReferentialIntegrity` are claimed as long as no
step came between a load and its write (`interleaved`).  With interleavings two
phases that overlap may both be created, and a phase that started may be deleted.

`PurgeIsDue`, `DeletionSticks`, `RenewalsAccumulate`, `HostLimit` and
`SponsorsAgree` are claimed for requests served one at a time.  Overlapping
requests may break them, for example by a save that overwrites a deletion with
the row loaded before it; nothing in the repository promises otherwise, so this
is recorded as a hazard and not as a finding.

### Bounds

`MaxTime`, `MaxExpiry`, `MaxRoid`, `MaxFailures` and `MaxCalls` bound counters
that the code does not; `MaxHosts` is the code's own limit of ten.  All grace
periods and the year are one tick in the request runs, so that five ticks hold a
registration, its add grace period, a deletion, a redemption, a restore and a
purge; with one registration more the race run lets a name change hands while a
request still holds the old row.  Two processes are the fewest that can lose an
update, and the statements of a third would interleave in the same way.  The
workflows run has two attempts and one failure, so that an attempt may outlive
its retry, and two client requests, so that a domain can be created and
restored, or replaced, while the workflows work on it.  In the workflows' run the
forced renewals that RestoreWorkflow repeats while an update prohibition stands
are cut off by `MaxExpiry`.

In the `Administration` run, two processes and two rows of each kind let a row be
deleted, and its key taken by another, under a pending save; two domains are the fewest
that can share a host; a limit of one address stands for ten, since the code only
compares with it.  `MaxHostId` and `MaxContactRoid` bound what is created, and the third
RoID is that of a contact created anew.  The statuses of requests are one without flags,
one that contradicts itself and one that calls itself ok wrongly.  The contact in memory
goes through every status.  Quotes have a currency without cents, a rate that does not
divide evenly, a label that is a part of another one, and pages of one label instead of
25, so that a page can be crowded.  Processes and registrars are symmetric; nothing tells
them apart but their row, and the run has no liveness property.

In the `BatchJobs` run, four keys with pages of one and two rows give first, middle, last
and empty pages, and two changes put a row before and behind the cursor.  Three requests
are the two attempts of the workflow and one of an administrator; two attempts instead
of three let one outlive the other.  The two lists of the source have one registrar in
common and one that is new.  The deposit has a host used by domains
of both registrars and created by one that occurs nowhere else (so that it cannot be
sent, though its copy can), a host with an address below one of the two domains
that use it, a domain with one host more than it may have, a contact of a
mapped registrar that no domain uses, a registrar that is unknown, and an invalid NNDN;
two
workers are the fewest that lose an increment, and three runs are an analysis, an import
that dies and one that is repeated.  Three status elements hold a pending operation, its
prohibition and a third flag, taken from eight names with one of each rule.

In the `Phases` run, `Horizon` bounds the clock and the dates, and `MaxId` the number of
phases ever inserted: an overlap, a shared name and a deletion by name concern two
phases.  Four dates hold a phase before, after, inside and next to another one.  Its
constraint `Bounded` keeps apart what does not interact: it explores the successors of
states in which one phase at most was edited or has a price, and those after an
interleaving up to time 1, for phases of one name.

### Fairness

`LifecycleWorkflows` assumes weak fairness of each workflow's own steps (Temporal
starts a schedule's run every hour and executes what a workflow asks for) and of
a worker's serving a request to its end (a goroutine runs until it has answered).
Nothing is assumed of clients and their requests, of the clock, and of failures,
which are bounded in number.  `HostDetach` assumes weak fairness of the loop and
its retry.  `RegistrarSync` assumes it of the workflow's steps and of each request's own
steps, for the same reasons, and nothing of the schedule, the administrators and the
publisher; in `MCBatchJobs` these assumptions are those of the part that runs
(`BatchFairness`).  The other modules have no liveness property and no fairness: a client
need not read on, and an operator need not start the escrow tool again.

Deadlock is checked in the `Phases` run and in the three request runs that pass, where
a process can always accept a request or give one up.  The workflows come to rest when nothing is left
to do, and the purge, the listing, the import and the deposit of `BatchJobs` end, so that it is
not checked there.  In the `Administration` run it is checked.

### Findings

1. `RemoveAllDomainHosts` ranges over the slice that `Domain.RemoveHost` compacts
   (`DS:575`, `domain.go:314`).  Its comment says it "purges/dissasociates all
   hosts from a domain"; with three or more it skips some and returns
   `ErrHostNotFound`.
2. `DomainStatus` says of inactive that it "is set automatically depending on the
   host associated with the Domain" (`domainStatus.go:62`); `SetStatus` and its
   kin load the domain without hosts and set it for a domain that has them.
3. `RestoreWorkflow` says that it puts a domain whose renewal failed back to
   pendingRestore (`restoreWorkflow.go:110`); the activity it executes for that is
   not registered with the worker.
4. `GetIANARegistrars` fails whenever its table has a row: the endpoint sets a cursor on
   every page with rows, and the page behind the last one has null for its data
   (`getIANARegistrars.go:50`).  The first import logs the error and goes on with an empty
   list (`syncRegistrarsWorkflow.go:84`), so that the workflow that is to "keep registrars
   in-sync with IANA and ICANN" creates none.
5. `DomainService.ListPurgeableDomains` passes clid, TLD and cursor (`DS:1587`), as the
   interface declares them; the repository takes clid, cursor and TLD
   (`domain_repository.go:310`).  The next link of a page, which "retrieves the next oage
   with the same filters applied" (`list_item_result.go:33`), returns the first page, and
   the TLD, by which one "can optionally filter" (`domain_controller.go:1125`), is parsed
   as a RoID and answered with 500.  The purge workflow sends neither.

Noticed while reading, without a run:

- `DomainController.Purge` documents that `serverDeleteProhibited` must not be set
  (`domain_controller.go:1228`); `PurgeDomain` looks at the purge date only, and a domain
  that was never deleted has the zero date.
- `OverlapsWith` (`phase.go:196`) does not report two phases with the same start, so
  that two such GA phases may be created; `GAPhasesDisjoint` leaves them out.
- A premium list may be set, and a price or a fee added, on a phase that has ended;
  removing a price or changing the policy is refused.
- The list of active GA phases does not look at the time (`PS`, `ListActiveGAPhases`).
- A page size of 0 makes the repositories that fetch one row more than asked read the
  last element of an empty slice; the next links of four lists drop the filters.
- `CanBeDeleted` of hosts and contacts, `CanBeUpdated` of contacts and the status rules
  of a contact beyond ok are asked by no endpoint; foreign keys are what keeps used ones.
- `GetHostAssociationCount` leaves its count at zero when the query fails, so that linked
  is unset for a host in use (`DS:675`).
- A plain name that is a part of a premium label gets an error instead of a price
  (`priceEngine.go:125`), and an amount converted to a currency without cents may be 0.
- An import that died leaves truncated files, which the next import takes as they are.
- A host that was created without its addresses stays so in every later import.
- The copy of a host for another registrar keeps the RoID (`ES:2004`).  When that is one
  of this registry, the primary key refuses the copy, the API answers that the host
  exists (`host_repository.go:31`), and the import counts it as existing.

## 4. Proofs

Checked by TLAPS for every value of the constants that the assumptions below admit:
any names, hosts, contacts, registrars, processes, commands, deposits and lists, any
grace periods, page sizes, limits and bounds.

| Theorem | Says |
|---|---|
| *Domains* (`DomainRequestsProofs`, `DomainTableProofs`) | |
| `TypeCorrect` | `Spec => []TypeOK` |
| `StatusesConsistent` | `Spec => []StatusConsistent` |
| `RowsGoodInvariant` | `Spec => []RowsGood`, the inductive invariant of these two |
| `IncarnationsStable` | `Spec => IncarnationStable` |
| `NoLinkOutlivesItsDomain` | `Spec => []NoOrphanLinks` |
| `RenewalsAccounted` | `Spec => []RenewalAccounting` |
| `RedemptionEndsBeforePurge` | `Spec => []RedemptionBeforePurge` |
| `LineageInvariant` | `Spec => []Lineage`, the inductive invariant of these two |
| `HostsOfTheRegistrar` | `Spec => []SponsorsAgree` |
| *Domains, one request at a time* (`DomainSerialProofs`) | |
| `HostsLimited` | `Alone => (Spec => []HostLimit)` |
| `PurgesAreDue` | `Alone => (Spec => PurgeIsDue)` |
| `DeletionsStick` | `Alone => (Spec => DeletionSticks)` |
| `RenewalsAddUp` | `Alone => (Spec => RenewalsAccumulate)` |
| *Workflows* (`LifecycleProofs`) | |
| `WorkflowsTypeCorrect` | `WorkflowsSpec => []WorkflowsTypeOK` |
| `WorkflowsKeepDomains` | `WorkflowsSpec` has the invariants and the action property above |
| `WorkflowsInvariant` | `WorkflowsSpec => [](ApiInv /\ WorkflowsInv)`, the inductive invariant of these two |
| *TLDs and phases* (`TldPhasesProofs`) | |
| `CalendarTypeCorrect` | `Spec => []TypeOK` |
| `TablesConsistent` | `Spec => []ReferentialIntegrity` |
| `GACalendarDisjoint` | `Spec => []GAPhasesDisjoint` |
| `StartedPhasesStay` | `Spec => StartedPhasesKept` |
| `CalendarInvariant` | `Spec => []IInv`, the inductive invariant of these four |
| `HistoryFrozen` | `Spec => HistoricPhasesFrozen` |
| `EndsMoveForward` | `Spec => EndDatesMoveForward` |
| `TldProtected` | `Spec => CurrentPhaseProtectsTld` |
| *Hosts* (`HostProofs`) | |
| `HostTablesStayConsistent` | `HostSpec => []HostTablesConsistent`, a part of `ReferencesHold` |
| `AddressesLimited` | `HostSpec => []AddressLimit` |
| `LinkedHostsAreUsed` | `HostSpec => []LinkedTellsUse` |
| *Contacts, registrars, the composition* (`AdministrationProofs`) | |
| `ContactTablesStayConsistent` | `ContactSpec => []ContactTablesConsistent`, a part of `ReferencesHold` |
| `RoidsStay` | `ContactSpec => RoidsKept` |
| `ContactStatusesCoherent` | `ContactSpec => []ContactStatusCoherent` |
| `AccreditationsWereEarned` | `RarSpec => []AccreditedOnceQualified` |
| `RegistrarTablesStayConsistent` | `RarSpec => []RegistrarTablesConsistent`, a part of `ReferencesHold` |
| `RegistrarsKeepInv` | `RarSpec => []RarInv`, the inductive invariant of these two |
| `QuotesAddUp` | `QuotesSpec => []QuoteAddsUp` |
| `QuotesKeepInv` | `QuotesSpec => []QuoteInv`, the inductive invariant of `QuotesAddUp` and `PremiumStaysPremium` |
| `PremiumStaysPremium` | `QuotesSpec => []PremiumNeverUndercut` |
| `ReferencesStay` | `AdministrationSpec => []ReferencesHold` |
| `AdministrationTypeCorrect` | `AdministrationSpec => []AdministrationTypeOK` |
| *Jobs* (`BatchProofs`) | |
| `RefreshesImplementTable` | `RefreshSpec => TableIsOneList`, a refinement |
| `RefreshesKeepLists` | `RefreshSpec => []RefreshInv`, its inductive invariant |
| `ListingsComplete` | `ListingSpec => []ListingComplete` |
| `ReadingsAdvance` | `ListingSpec => []ListingInv`, its inductive invariant |
| `CountsAreStored` | `EscrowSpec => []CountedAreStored` |
| `CleanImportsComplete` | `EscrowSpec => []CleanImportCompletes` |
| `EscrowInvariant` | `EscrowSpec => [](EscrowInv /\ ImportInv)`, the inductive invariant of these two |
| `LoopIsSummarised` | `Spec => []LoopSummary`, of `HostDetach` |
| `StatusesArrive` | `DepositSpec => []ImportKeepsStatus` |
| `JobsRunAlone` | `BatchSpec` implements the specification of each job |
| `JobsKeepTheirPromises` | `BatchSpec` has the six properties above |
| `BatchTypeCorrect` | `BatchSpec => []BatchTypeOK` |

### Domains

`StatusConsistent` is not inductive: a process saves a row it loaded earlier, so
the rows the processes hold must be consistent as well.  `RowsGood` says so, for
the row that was loaded (`row`) and the one `RemoveAllDomainHosts` loads for
itself (`dom`), along with the types.  The first part of `DomainRequestsProofs` shows that each
entity method maps good rows to good rows: `SetStatus` and `UnSetStatus` because
they validate their result, `RemoveHost` and the automatic ok and inactive, which
do not, because those two flags cannot make a status inconsistent when ok is set
only where nothing is prohibited or pending (`ConsistentUpToOK`).
The second part has one lemma per group of actions and puts them together in `NextGood`.

For `IncarnationStable` and `NoOrphanLinks`, `DomainTableProofs` shows that every step
does one of three things to a name (`TableStep`): it keeps the RoID of its row; it
creates a row where there was none; or it deletes a row that no association refers to.
A save updates by primary key or inserts where the name is free and without
associations; registrations and creations fail on an existing name; a deletion
fails on an association.  Both theorems follow from `TableStep`.

The dates need more than the present row.  A stale save overwrites the row of its RoID
or brings back a row that was deleted, so that what is claimed of rows in the table has
to hold of every row anybody holds (`Held`).  Every row held after a step is fresh or
descends from one held before it: the same RoID and registrar, and dates that are still
accounted for unless an administrator wrote them (`DescentStep`).  `Lineage` adds that
RoIDs in use were handed out, so that a fresh one meets no old row, and that rows with
one RoID belong to one registrar.
`RenewalAccounting` and `RedemptionBeforePurge` are read off it, and `SponsorsAgree`
too: the hosts a request adds are those of the registrar of the row it *holds*, and by
`OneRegistrar` that is the registrar of the row it overwrites (`SponsorInv`).  The run
checks `SponsorsAgree` with one process; the theorem is about any number.

The four properties of `DomainSerialProofs` are false of overlapping requests, since a
handler saves what it loaded; the runs that check them have one process, and the
theorems say so by the hypothesis `Alone`.  What is left to prove is that a request is
up to date at each of its statements (`UpToDate`), also when an earlier request died
between two of its own: a purge that died with the hosts gone or the NNDN created leaves
a state in which the next purge ends as it should.

### Workflows

`WorkflowsSpec` is not an instance of `Spec`: the workflows send commands that no client
may send, and a response stays until somebody takes it.  `WorkflowsStep` shows that
each of its steps is a step of the API, or a load for some well-typed command, or the
taking of a response (`ApiStep`), and the lemmas of `DomainTableProofs`, which are about
any command, carry the invariants over (`ApiInv`).  What does not carry over are the
properties of one request at a time.  That no process serves two workflows
rests on `Attended`: `Attempt` takes a worker at rest, so that a worker somebody waits
for must not be at rest; `ServeServes` shows that a handler never leaves a worker without a
next statement or an answer.

### TLDs and phases

`TldPhasesProofs` is about any number of phases, names, prices and processes, and any
horizon.  Its invariant `IInv` adds two things to the types and to
`ReferentialIntegrity`.  `IdsUsed`: every id in a row or in a pending write has been
handed out, so that a creation cannot meet a phase that a stale save put back.
`Serial`, as long as nothing was interleaved: at most one process is between its load
and its write, and what it found out still holds (`Fresh`).  That the validations are
enough is the content of two lemmas: `NoOverlapNoClash` for a creation, and
`EndKeepsApart` for an end, in the two cases of a first end and of a moved one.
`LoadPrepares` shows that a load makes its write fresh, `WriteKeepsIInv` that a fresh
write keeps the calendar disjoint.  The three properties about the past, about end dates
and about the TLD rest on `Checked`: the guard that was evaluated at the load still
holds at the write, time included, because a tick in between counts as interleaving;
`PermittedStep` says what such a write may change.

### Hosts, contacts, registrars

`TablesInv` of `HostProofs` covers the rows that requests carry, since a save may put a
deleted host back: they were in the table when they were loaded, with valid statuses,
generated ids and, in the set a domain is saved with, different keys.  `AddressLimit` and `LinkedTellsUse` hold as long as requests do not overlap, die
or meet an error half-way (`disturbed`).  Until then at most one process is busy, what it
loaded is what is stored (`Latest`), and the flag of each host tells the truth but for
the one association that this very request is changing (`Told`).

For registrars the invariant needs, of a pending accreditation, that it was earned
(`AppendsQualified`), and of every row, that what it qualifies for was recorded
(`RowsRecorded`): a registrar that is accredited already is accredited again without a
look at its status.  That no row is without a name rests on `LoadedIsThere`, which holds
until a step overtakes a request; `ProceedAlone` says that before it every other process
is idle.  For contacts it bounds the RoIDs of rows and of pending saves by the last
generated one, so that a new one is free, and, until a deletion overtook a save
(`SavesMatch`), the contact of a save is there with the RoID it was loaded with.  That the
statuses are coherent is an induction of its own over SetStatus and UnSetStatus.
`ReferencesStay` puts the three together: a step of the composition is a step of one
part and leaves the variables of the others alone.

For the types, `RarTyped` says what else a row can be that an association inserted: its
status may have been set since (`GhostWithStatus`), with the name still missing.

*Quotes.*  `QuoteInv` follows one record through the queries of a request.  What has been
loaded is typed (`Loaded`), and the answer is computed from that and nothing else,
whatever has changed in the tables since, so that `QuoteAddsUp` is shown where the answer
is made (`QuoteIsAnswered`): the price and the lines are sums over the same fees.
`PremiumNeverUndercut` needs `PremiumSeen`: the page that a quote reads is the first
labels that contain the name, in the order of their ids; a label that equals the name
contains it, so that the page is not empty, and with any entry at all the price of the
phase is not used.  The entry for the name itself may still be missing from the page.

### Jobs

*Refreshes* rest on one observation, `InsertFillsEmptyTable`: by `RefreshInv` the table
is empty or one published list, and every two lists share a key, so that an INSERT that
is not refused found it empty.

*Listings.*  `ReadUpToCursor` says that nothing beyond the cursor has been read, except
of the purgeable domains, and everything up to it that matches and was there all the
time, except of active phases and with pages of size 0.  A page is the smallest
matching keys above the cursor (`SmallestOfFew`), so that the next cursor, its largest,
leaves none behind, whatever was inserted or deleted meanwhile.

*The escrow tool.*  Workers read a counter, add one and write it back, so a counter may
lose an increment; it never has one too many.  Induction needs this of the stale values
as well: every value of a counter, in memory or read by a worker (`Seen`), counts some
of the commands that are settled, stored and in nobody's hands (`Settled`), and settling
one more is what a worker does before it writes.  `ImportInv` says of an import with whole
files and no failure that each of its commands is stored or still pending from the
moment its batch was due, or a delegation that is excused (`Excused`, which stays so:
`ExcusedStays`).  `WantedAcceptable` says that the registry accepts it, as what it
refers to came in an earlier batch, and `RoomForLink` that a domain whose hosts are no
more than the limit has room for one that is not linked yet.

*The removal of all hosts.*  The loop ranges over an array that every iteration shifts.
After `m` iterations, the array holds the hosts of even index in front and what the loop
has not reached behind them, the last one filling the end (`Source`, `Shifted`);
`FoundWhere` and `ShiftOnce` show one iteration.  With more than two hosts the next one
looked for is gone, which is the closed form that `DomainRequests` uses.  The array is an
enumeration of the hosts because `Ascending` is: ranks are an injection.

*Imported statuses.*  The status with which an object arrives is the flags of the
deposit, corrected for ok, inactive and linked, whatever the order of the elements:
`DomainArrives`, `HostArrives` and `ContactArrives`.

*Together.*  The variables of the jobs are disjoint but for the sync, whose steps on the
table are steps of its refreshes (`AttemptTyped`: the attempt under way has a request of
its own).  So `BatchSpec` implements each of the jobs, and has their properties.  The types
take one bound more for each job (`ListingBounds`, `SyncBounds`, `EscrowBounds`,
`StatusBounds`): a cursor is a key of the page it ends, which for the sync takes
published lists that are finite (`LargestExists`).

### Assumptions

The assumptions are the named ones of the modules.  TLC evaluates them in every run.

- `DomainEntity`, `DomainRequests`, `TldPhases`: which registrars, hosts, commands,
  policies and bounds there are.  Finitely many hosts, since the limit on them is counted.
- `Registrars`: updates carry a name.  `ContactLifecycle`: finitely many ids, statuses of
  known flags.  `HostLifecycle`: finitely many addresses, hosts of known keys and flags.
- `TableRefresh`: published lists are finite, and overlap, as IANA keeps terminated
  registrars on its list.
- `Quotes`: a label is like itself, a page has a row, amounts are integers, rates
  fractions, and the tables of a phase have their fields.
- `Listing`: page sizes are not negative, a filter is a set of keys.
- `EscrowImport`: a deposit is finite, its objects have sponsors, its domains contacts and
  name servers of the deposit; an association of a host is no object, so that it cannot
  be `Invalid`.
- `HostDetach`, `DepositStatus`, `RegistrarSync`, `LifecycleWorkflows`: bounds and the
  shape of constants.

### Only model-checked

Liveness under fairness is out of the prover's reach: `ExpiredHandled`,
`PurgeableHandled` and `RestoredHandled` of the workflows, `PurgeCompletes` and
`SyncEnds` of the jobs.  `Paging` is used in the proofs through the sets of keys a page selects; that its pages
are what the endpoints answer is a matter of the model, not of a proof.

## 5. Not modelled

- Of the escrow import: the API serves the link requests of one domain one after the
  other; the requests of a run that died are served before it or not at all; a host name
  occurs once in a deposit; the registry is empty at first but for registrars and the
  TLD.  RoIDs of hosts are left out: a deposit of this registry, whose RoIDs are taken
  over, has hosts that only their sponsor's domains use (`Domain.AddHost`), and the RoIDs
  of another registry are replaced.  `CountedAreStored` and `CleanImportCompletes` are
  about such deposits.
- An empty `<status s="">` on a host or a contact, which panics at `status.S[0]`
  (`rdeHost.go:122`).
- EPP (a skeleton that changes nothing), whois and the queries that no list endpoint or
  workflow makes (reads and formats).
- Transfers: an entity that no service uses.
- Events: sent after the response and never read back.
- The registrar sync behind the list it reads: the comparison, the status updates and
  the registrars 9995 and 9996.  No execution reaches it (finding 4), so that a model of
  it would have no behaviour to check; `CreateCommands` stands at its beginning.
- Texts: names and labels, addresses of registrars and contacts, authInfo, DNS records,
  reasons of NNDNs, the XML of a deposit, IDN tables.  They decide nothing that the
  properties are about, or are checked once and refused (`Invalid`).
- Several identifier generators with the same node number: whether two instances of the
  API collide depends on a hash and on clocks; `DomainRequests` has one generator.
- Registry operators, beyond their list: single statements on a row nothing else reads.
- The command line tools beside the escrow tool: callers of the API that send the same
  requests as the clients of the modules.
