# ByteBucket in TLA+

ByteBucket is a single-process, S3-compatible object store written in Go. It
keeps objects as plain files and everything else (users, settings, events,
request samples) in one bolt database, and serves two HTTP surfaces: the
storage API and the admin API. This directory holds TLA+ models of its
components, TLC configurations that check them on small instances, and TLAPS
proofs of every safety property the runs find to hold, for all instances.

`PROJECT.json` is the index: which definition models which lines of `src/`,
which run checks which property, which mutation of the model each property
catches, the findings and the hazards.

1. [The system](#1-the-system)
2. [Modules and their code](#2-modules-and-their-code)
3. [What the runs show](#3-what-the-runs-show)
4. [Bounds](#4-bounds)
5. [Fairness](#5-fairness)
6. [What is proved](#6-what-is-proved)
7. [What is only model-checked, and what is not modelled](#7-what-is-only-model-checked-and-what-is-not-modelled)
8. [Plan](#8-plan)

To run one: `tlc -config ObjectStoreRequests.cfg MCObjectRequests`; to check the
proofs of a module: `tlapm IPBanProofs.tla`. A configuration is named
after the MC module it belongs to (`ObjectStoreAclRace.cfg` belongs to
`MCObjectStore`).

## 1. The system

| Part | State | Operations | Where |
|---|---|---|---|
| Object storage | a data file and a `.meta` JSON sidecar per key; `.upload-*` temporary files; 256 stripe mutexes | PUT, COPY, DELETE (single and batch), GET, HEAD | `handlers/object.go`, `object_meta.go`, `locks.go` |
| Conditional requests | none of their own | `If-Match`, `If-None-Match` on writes; date conditions on reads | `handlers/conditional.go` |
| Canned ACLs | `acl` of the sidecar; `.acl.json` of the bucket | PutObjectAcl, PutBucketAcl, anonymous read check | `storage/acl.go`, `handlers/acl.go` |
| Buckets | a directory per bucket, directories inside for keys with `/` | create, delete, list | `handlers/bucket.go` |
| Multipart uploads | a staging directory per upload: manifest, part files; a gauge | create, upload part, complete, abort | `storage/multipart.go`, `handlers/multipart.go` |
| Listing | none; walks the bucket | ListObjects v1 and v2 with prefix, delimiter, paging | `handlers/bucket.go` |
| Tagging | `.tags.json` of an object | put, get, delete | `storage/tagging.go`, `handlers/tagging.go` |
| Bucket CORS | `.cors.json` of a bucket | put, get, delete; answer to a browser | `storage/bucket_cors.go`, `handlers/bucket_cors.go`, `middleware/bucket_cors.go` |
| Storage authentication | none; reads users, ACL documents and the clock | signed header, presigned link, anonymous read, policies, presigning | `auth/auth.go`, `handlers/presign.go` |
| Ranges and read preconditions | none of their own | `Range`, `If-Range`, `If-(Un)Modified-Since` of a GET | `handlers/object.go`, `conditional.go` |
| Failed-authentication ban | per-address counters and bans, bounded tables, settings | check, count, reap, reconfigure | `middleware/ipban.go` |
| Rate limiter | bounded table of token buckets, settings | allow, reap, reconfigure | `middleware/ratelimit.go` |
| Admin authentication | sessions and failure windows, bounded tables, in memory | login, logout, cookie, header credentials | `auth/` |
| User store | user records in bolt, secrets encrypted | create, update, delete, bootstrap | `storage/storage.go` |
| Event log | bounded channel, batch of the flusher, two bolt buckets | enqueue, flush, drain, prune, audit, query | `storage/events.go` |
| Request samples | counters, last snapshot, bolt bucket | count, sample, prune, chart | `sampler/`, `storage/request_samples.go` |
| Runtime settings | overrides in bolt, atomic cells | put, delete, load at the start | `handlers/*`, `storage/config.go`, `cmd/ByteBucket/main.go` |
| Cryptography, name validation, address resolution | none | pure functions of one request | `auth/`, `middleware/`, `storage/names.go` |

How they interact. A storage request passes the address resolution, the ban,
the rate limiter, the access log and authentication, and then runs its handler
to the end in its own goroutine. Handlers share state in three ways: through
the file system (no lock but the stripe that `finalizeObjectWrite` and
`removeObject` take), through tables in memory, each under one mutex, and
through bolt, one transaction at a time. Background goroutines are the event
flusher, the sampler and two janitors. The admin API changes settings in two
steps: persist, then apply to the cells the request path reads.

What is hard here:

- A handler is a long sequence of file-system calls, and most handlers take no
  lock: reads backfill sidecars, ACL changes and tag changes read, modify and
  replace, Complete publishes an object, DeleteBucket removes a tree.
- A process may be killed between any two calls, and the two files of an
  object are not replaced together.
- Temporary names shared by requests (`.meta.tmp`, `.tags.json.tmp`,
  `<part>.tmp`, `<key>.mpu.tmp`): a file is renamed while another request has
  it open.
- A check and the use of what was checked are apart: preconditions, emptiness
  of a bucket, ETags of parts, the ban check and the count, the lockout and the
  verification of a secret, the session and the user record; a signature, the
  clock and a policy; the ACL of an object and that of its bucket; the size a
  range was judged by and the file that is opened.
- Tables at their limit evict, and the eviction must not undo what the table
  is for.
- Persisting and applying a setting are two steps, and some settings are
  several keys and several cells.
- Events are in memory until they are flushed, and the process shuts down
  while requests are running.

What makes each part correct is stated as the properties of section 3.
`PROJECT.json` lists under `hazards` each place where it could go wrong.

## 2. Modules and their code

Each component has a module `M`, a module `MCM` that gives its constants
values for TLC, and a configuration; ObjectStore has three MC modules, and
Sidecars, Access and Download share one. In all of them a goroutine is a
worker with a program counter or a request record; an operation that holds a
mutex, or is one bolt transaction, or one file-system call, is one step.
Definitions keep the names of the functions they model. The operators whose
names no action uses (`CreateInPlace`, `EnqueueSilently`, ...) are the mutated forms that
`PROJECT.json` lists under `mutants`. History variables, which no action of the
code reads, are marked in each module: they hold what a property compares the
state with, or the hypothesis under which it is stated.

**ObjectStore** (`handlers/object.go`, `object_meta.go`, `conditional.go`,
`bucket.go`, `locks.go`, `storage/acl.go`). One bucket. `data`, `meta`,
`metaTmp`, `temps`, `dirs` and `bacl` are the disk; `metaFd` and `tmpFd` say
who has the current file of a name open, so that a write after a rename or a
truncation goes to the right file; `lock` is the array of stripes; the rest are
locals of the handlers. Writing a file is two steps, the truncating open and
the write, with `Torn` content in between. `Start` reads the request and
chooses the first step as the router does; `Serve` groups the reads
(`GetObject`, `HeadObject`, `loadOrBackfillETag`, preconditions, the source of
a copy), `Write` is `finalizeObjectWrite`, `Remove` is `removeObject` with the
collapse of empty directories, `SetACL` is `SetObjectACL`, `Bucket` the bucket
handlers with `os.RemoveAll` file by file. `Crash` kills the process and starts
it again: locals and locks go, files stay. With `DiskFaults` a write may fail
half way. `Legacy` objects have data and no sidecar ETag. `MCObjectRequests`
chooses one of two mixes of requests for a whole behaviour. **SoloStore**, which
`MCObjectAll` instantiates, adds the history variable `solo`, that no two
requests have overlapped since the server was last idle, and names what has to
be kept apart for the promises the code makes without a lock (`Separate`,
`NoLateUpload`).

**AtomicStore**, **StoreRefinement**: what the object store promises to the
clients that change objects, and the mapping that shows ObjectStore implements
it. In AtomicStore an object is one value, bytes and metadata together; a
change is asked for, holds its object alone, and is acknowledged in the very
step that makes the object the value it asked for, or is refused and leaves
everything as it was. The mapping: an upload holds its object from the rename
of the data file to the end of the write of the sidecar, a delete from the
removal of the data file to its return, and at any other time the value of a
key is the bytes of its data file with the metadata of its sidecar.

**Sidecars** (`storage/tagging.go`, `bucket_cors.go`, `acl.go`, their handlers,
the CORS middleware). The documents beside an object and a bucket, each
replaced by writing `<name>.tmp` and renaming it. Files are inodes here,
because all writers of a document share one temporary name: `file` and `temp`
are what the names refer to, `fd` what a request has open, `bytes` the contents.
`os.WriteFile` is `Create` and `Write`, `os.ReadFile` is `Open` and `Read`. An
upload and a delete of the object (`Publish`, `Truncate`, `Fill`, `RemoveData`,
`RemoveMeta`) are there for what they do to the documents. `CORSAnswer` and what
it uses are the choice of a rule. The history variables are what a read may find: `acked`
what is in force, `since` all that was, or was being made so, while it read.

**Access** (`auth/auth.go`, `storage/storage.go`, `handlers/presign.go`,
`admin_handlers.go`, `bootstrapSuperUser`) extends Sidecars. `AuthMiddleware`
with its three ways in, one step for each thing it reads: the user record and
the signature, the clock, the ACL documents. Users are created, changed and
deleted, links are minted, and time passes in between. Cryptography is an input
of the request: whether the signature is the right one, over this body. The
history variables `granted` and `denied` hold what a request needs and had, or
lacked, at some instant since it came; `moved` counts changes of the ACL
documents.

**Download** (`DownloadObjectHandler`, `classifyRange`,
`evaluateGetConditional`) extends Access: what happens to a GET that was let
in, step by step, while the object is overwritten by shorter and empty
versions. `http.ServeContent` is external. `Deserved`, `Denoted` and `Demanded`
are a reference taken from RFC 7232 and 7233 and from the comments in the code,
with sets of byte positions where the code has arithmetic. `Next` of this
module is the composition of the three.

**Multipart** (`storage/multipart.go`, `handlers/multipart.go`, and
`finalizeObjectWrite` for the PUT beside it). One key. A part's bytes are a
model value, an object is the sequence of its parts. `Overlap` says whether
clients repeat a request that is still running. The history variable `alone`
says that so far requests came one after the other, none failed and the
process was not killed.

**Listing** (`handlers/bucket.go`). Keys are sequences of symbols, so prefix,
delimiter and order are computed, not assumed. The directory walk is not
atomic: it may or may not see what comes or goes during the walk. Its
specification is `ListingSpec`, so that one module can hold the proofs about
both components that answer in pages.

**IPBan**, **RateLimit** (`middleware/ipban.go`, `ratelimit.go`). The tables
with their caps, evictions and janitors, the two-step change of settings, and
every timing of requests against an integer clock. The history `hist` of IPBan
holds the failures of an address that a window can still reach, each with its
time and the start of the window it was counted in; that of RateLimit the times
of the requests a client got through. The token bucket is that of
`golang.org/x/time/rate`, modelled from its use.

**AdminSession** (`auth/admin_session.go`, `session.go`, `limiter.go`, with the
user records of `storage/storage.go`). A request is a sequence of steps
(`Credentials`, `Verify`, `Fail`, `Reset`, `Replace`, `Create`, `Cookie`,
`ReRead`, `Revoke`, `Logout`) between which users change and other requests run.
`mix`, chosen once, says which requests a behaviour is made of.

**EventLog** (`storage/events.go`, the event middleware, `serve` in
`cmd/ByteBucket/main.go`). The select loop of the flusher is the actions
`Receive`, `TickerFires` and `ContextDone`; `Drain`, `Flush` and `Swap` follow.
`load`, chosen once, bounds the requests and the audited actions.

**RequestSampler** (`sampler/sampler.go`, `storage/request_samples.go`,
`handlers/requests_chart.go`, the counter of the middleware). A tick stores
the delta of the counter under the current minute, then prunes (`SamplerSpec`);
`Width`, `WindowEnd`, `WindowStart`, `Bars`, `CanBack` are the windows of the
chart. The history variable
`spoilt` has the minutes that met a failed transaction or a second tick.

**RuntimeConfig** (the settings handlers, `storage/config.go`, the start in
`main.go`). All settings share one scheme and differ in a shape: the keys they
persist, the cells they apply, whether a bad value is clamped or refused,
whether the override can be deleted. The six shapes are definitions; a
behaviour is about one of them. The history variables `solo` and `split` tell
changes that overlapped, or failed between two keys, from the others.

## 3. What the runs show

| Run | Properties | Shows |
|---|---|---|
| `object_requests` | `TypeOK`, `LockDiscipline`, `ConsistentPair`, `EveryRequestAnswered`, `PreconditionHolds`, `BucketDeleteKeepsObjects`, `ImplementsStore` | uploads, conditional creates, copies and deletes of two keys on two stripes, two at a time: the lock is used correctly on every path, data and sidecar match whenever the stripe is free, every request is answered, and the handlers refine `AtomicStore`; every handler, one request after another: preconditions hold, a bucket with objects stays |
| `object_all` | `PublishedAlone`, `FilesHaveHomes`, `UploadRepairs` | every object and bucket handler at once, on a legacy object in a subdirectory, with failing writes and kills at any step: whatever the unlocked handlers do to the sidecar, nobody replaces the data of an upload between its rename and its sidecar; directory collapse and `os.RemoveAll` leave no file without its directory; no failed upload leaves its staged bytes; an upload that ran alone leaves a whole pair whatever a crash or a full disk left before |
| `acl_race` | `SettledPair`, violated | `SetObjectACL` reads and replaces the sidecar without the stripe and undoes an overwrite in between |
| `multipart_uploads` | `PartIntact`, `ObjectIntact`, `CommittedBytes`, `SettledUploads` | parts retried, listed wrongly, completed, aborted, failing and killed, beside a PUT of the key: a published part is whole, Complete publishes the bytes it was asked for, the object is never a mix or a part of one; when nothing overlapped or failed, sidecar, gauge and staging directories agree with the uploads |
| `listing_pages` | `ListingOrdered`, `ListingExact` | paging through a changing bucket gives what was there all along exactly once and in order |
| `ipban_tables` | `TablesSound`, `BanStands`, `BanIsEarned`, `SqueezeBound` | full tables, two requests in flight, one administrator, every timing: tables bounded, counters belong to the settings in force, a ban is earned inside one window and neither lost nor extended but by the documented eviction; at most 2·max−2 failures across a boundary go unpunished |
| `ratelimit_clients` | `TypeOK`, `AdmittedBound`, `ThrottledIsSpent` | the table stays bounded; a client gets its burst and refill, not more and not less, while the idle TTL refills a burst |
| `session_all` | `TypeOK`, `SessionHonoured`, `OnlyIdlestEvicted`, `LockoutBound` | no session is accepted after it expired or was revoked; only the one idle for longest is lost when the table is full; wrong secrets checked in one window stay within the limit plus the requests already past the gate |
| `eventlog_all` | `EveryEventAccounted`, `FlushKeepsNewest`, `AuditReadable`, `EventsSettle` | no event disappears uncounted, and none that was in the buffer at a shutdown is left out of the drain; a flush keeps the newest; the audit trail keeps the newest actions and pages show all of it when times differ; a buffered event is eventually stored or reported |
| `sampler_series` | `SeriesSound`, `ChartReaches` | late ticks, failing transactions, restarts, changes of the retention: a sample is lost before its time only to a failed store, a restart or a second tick of its minute, each is in exactly one bar the admin can reach, no window shows more requests than were served |
| `config_admins` | `EffectiveIsPersisted`, `AckedSurvives` | two admins, each of the six settings, crashes and failures between any two keys or cells: what was acknowledged survives, and after changes that neither overlapped nor failed half way what is in force is what is persisted |
| `front` | `DocumentsRegular`, `PreflightExact`, `Authorized`, `RightfulServed`, `AnswerMatches` | documents read while they are replaced, after failed writes and kills: each decodes and was in force since the read began; a browser gets the answer that the first fitting rule of such a configuration gives; who is let in had what it needs since it came, and who had it all the time is let in; a download gets the status and exactly the bytes its headers ask for, of one version that was there |

The type invariants of the modules without a `TypeOK` in this table are part of
another property there (`PartIntact`, `ListingExact`, `TablesSound`,
`EveryEventAccounted`, `SeriesSound`, `EffectiveIsPersisted`).

`acl_race` is a disagreement with `handlers/locks.go`, which says that data
file and sidecar "are always updated as a consistent pair"; see `findings`.

### What the code relies on

Some properties hold only because clients or operators do not do certain
things at once. Each hypothesis is explicit in the configuration or in the
property, and TLC finds the property violated when it is dropped:

| Property | Hypothesis | To drop it | What happens then |
|---|---|---|---|
| `SettledPair` | requests of a key do not overlap | `acl_race` is this run | a GET that backfills, or an ACL change, writes the sidecar of an upload under way |
| `PreconditionHolds` | same, and no write of a sidecar is killed or fails | drop the first conjunct of `Arrive` in `MCObjectRequests`; or `DiskFaults = TRUE` in `ObjectStoreRequests.cfg` (or the disjunct `Crash` in `MixNext` and `Crashes = TRUE`) | the precondition of a PUT is evaluated before the stripe is taken; and it trusts the sidecar that a failure or a kill left beside newer bytes |
| `BucketDeleteKeepsObjects` | requests do not overlap | the same conjunct | an upload after `bucketIsEmpty` is removed with the bucket |
| `UploadRepairs` (in `SoloStore`) | the upload ran alone | drop `solo` | a GET or an ACL change that read the broken sidecar puts it back |
| `DocumentsRegular` | a client changes a document again after the answer | `Overlap = TRUE` in `Front.cfg` | two writers share `<name>.tmp`: the slower one writes into the file the faster one renamed |
| `Authorized`, `RightfulServed` | at most one change of the ACL documents during an anonymous check | drop `moved[w] <= 1` | the object's ACL before one change and the bucket's after another are put together |
| `PartIntact` | a part is sent again after its answer | `Overlap = TRUE` in `MultipartUploads.cfg` | two uploads of one part share `<part>.tmp` |
| `CommittedBytes` | Complete comes after the answers to the parts | same | ETags are compared, then the part files are opened again |
| `ObjectIntact` | one Complete of a key at a time | same | two Completes share `<key>.mpu.tmp` |
| `SettledUploads` (sidecar) | no PUT beside a Complete | drop `alone` from `SidecarMatches` | Complete publishes without the stripe |
| `SettledUploads` (gauge, directories) | nothing overlaps, fails or is killed | drop `alone` from `GaugeMatches`, `NoOrphans` | overlapping aborts both decrement; a kill forgets the gauge or leaves a directory without a manifest |
| `AdmittedBound` | (TTL+1)·rps ≥ burst, the clock being an integer | a burst of 4 in `MCRateLimit` | the janitor drops a spent bucket and the client gets a full one |
| `EffectiveIsPersisted` | changes do not overlap or fail half way | drop `~split` | persisted in one order and applied in the other; one of two keys persisted by a refused change; the ban thresholds of one administrator with the reported settings of the other |
| `SeriesSound` | one tick in a minute | drop `spoilt` from `SeriesExact`, `StoreFails = FALSE` | a late tick and the next one share a minute and the second replaces the first |
| `AuditReadable` | times differ | drop the condition of `PagingComplete` | of events with equal times at a page boundary one is on no page |

Behaviours that are in the models and that no property excludes, since the
code does not:

- a process killed inside the in-place write of a sidecar leaves one that does
  not decode, and reads of the object fail until the next upload
  (`ObjectStore`); while an upload writes it, an anonymous read of a public
  object is answered 401 and a signed one 500 (`Access`, `Download`);
- `.upload-*` files are listed as objects (`Listing`);
- at a shutdown an event that comes during or after the drain is in a buffer
  nobody reads any more (`EventLog`);
- the ETag and the time a download is judged by may be those of the version
  before the one whose bytes are sent (`Download`);
- tags outlive their object and belong to the next one of that key
  (`Sidecars`);
- `Deny` rules of a policy have no effect, and a PUT of an object asks for
  `s3:CreateBucket`, so the write-only policy of `README.md` (`s3:PutObject`)
  does not allow one (`Access`);
- a presigned link ends after 15 minutes whatever lifetime up to 7 days it was
  given, because `validateTimestamp` is applied to links too (`Access`);
- `If-Unmodified-Since` compares the sub-second part of the file's time, which
  an HTTP date does not have; `AnswerMatches` leaves that case out (`Download`).

## 4. Bounds

- **ObjectStore**: two workers (one request at a time in the sequential mix of
  `object_requests`), one or two keys,
  one or two stripes, one or two directories, up to two bodies and two metadata
  values; the mixes of requests are named in `MCObjectStore`. No counter: the
  state space is finite as it is and explored completely. Every race known
  needs two requests, and the proofs cover any number. `object_all` has one
  key, in a subdirectory, so that collapse, `MkdirAll` and `os.RemoveAll` meet
  on one directory; its workers are symmetric, since no constant names one.
- **Multipart**: one upload, two part numbers, two bodies, two workers. The
  single-part list and the PUT have another body than the first part, so that a
  partial object is never one somebody asked for.
- **Listing**: small trees of keys with nested prefixes, pages of one and two
  entries (`ListMaxKeys` 2), `MaxChanges` 2 changes during a listing: enough
  for a change before, on and after the cursor.
- **IPBan**: three addresses on tables of `Limit` 2, so that every insertion
  may evict; two requests in flight; `MaxTime` 5, two windows and a boundary.
  Addresses and workers are symmetric.
- **RateLimit**: three clients on a table of two, TTL 1, `MaxTime` 4.
- **AdminSession**: table of two sessions, idle time 2, absolute lifetime 3,
  two failures in a window of 2, a limiter table of one for two addresses, up
  to three logins, `MaxTime` 3: a session can idle out, expire while used, and
  be evicted.
- **EventLog**: channel of 1, batch of 2, three requests or five audited
  actions, `MaxTime` 3.
- **RequestSampler**: two units in a minute, so a phase inside a minute exists;
  ticks late by up to one unit; `MaxTime` 8, four minutes; two requests.
- **Sidecars, Access, Download**: two workers; each behaviour has one of seven
  kinds of traffic (tags, CORS, bucket ACL, anonymous, signed, downloads, and
  downloads beside an overwrite or a change of the ACL), which `MCFront` names,
  and requests that cannot disturb each other are left to one worker. Five inodes: four names and a descriptor are the most in use. The
  clock counts to `MaxTime` 4 with a window of 2 and links of 1, 2 and 4, so
  that a link ends before, with and after the window, and both readings of the
  clock fall on either side. Versions of 3, 1 and 0 bytes, one written on a half
  second; `MaxInt` 7, beyond any size. CORS patterns with a wildcard in the
  middle and an origin one shorter than what it needs.
- **RuntimeConfig**: values on both sides of the valid range; nothing to bound.

Symmetry is used only in configurations without liveness. Deadlock is checked
wherever the program must go on. It is off in `EventLogAll`, where the process
ends by design, and in `AdminSessionAll`, whose behaviours end when the clock
and the logins are used up.

## 5. Fairness

`ObjectStore!FairSpec` assumes weak fairness of each worker's steps, since the
Go scheduler runs every runnable goroutine, and strong fairness of taking a
stripe, since `sync.Mutex` hands the lock to the longest waiter after 1 ms
(starvation mode). Nothing is assumed of clients: `Start` is not fair.

`EventLog!FairSpec` assumes weak fairness of the flusher's own steps and strong
fairness of receiving from the channel and of the ticker, since `select`
chooses among ready cases at random and starves none.

## 6. What is proved

The theorems hold for every value of the constants and are checked by TLAPS to
the last leaf. Each has the form `Spec => []Inv` or `Spec => [][A]_vars` (one is
a refinement) and all but `TrailKeepsNewest`, a part of `AuditReadable`, name a
property that a run checks. The invariants that carry the induction were checked
with TLC on the instances of the runs before they were proved. Eight modules
hold the proofs; `FrontProofs` is about Sidecars, Access and Download,
`PagingProofs` about EventLog and Listing, `AdminApiProofs` about RuntimeConfig
and RequestSampler.

| Theorem | Property | Inductive invariant |
|---|---|---|
| `ObjectStoreProofs!TypeCorrect` | `TypeOK` | `TypeInv` |
| `ObjectStoreProofs!FilesStayHome` | `FilesHaveHomes` | `TypeInv`, `HomesInv` |
| `ObjectStoreProofs!LocksAreDisciplined` | `LockDiscipline` | itself, with `TypeOK` |
| `ObjectStoreProofs!UploadsPublishAlone` | `PublishedAlone` | itself, with `LockDiscipline` |
| `ObjectStoreProofs!PairsAreConsistent` | `ConsistentPair` | `PairInv` |
| `ObjectStoreProofs!StoreIsAtomic` | `ImplementsStore` | `MapInv` |
| `ObjectStoreProofs!UploadRepairsHolds` | `UploadRepairs` | `RepairInv` |
| `ObjectStoreProofs!BucketDeleteKeepsObjectsHolds` | `BucketDeleteKeepsObjects` | `Emptied` |
| `ObjectStoreProofs!PreconditionHoldsApart` | `PreconditionHolds` | `HonestInv` |
| `MultipartProofs!PartIntactHolds`, `!ObjectIntactHolds`, `!CommittedBytesHolds`, `!SettledUploadsHolds` | `PartIntact`, `ObjectIntact`, `CommittedBytes`, `SettledUploads` | `Inv` |
| `FrontProofs!DocumentsRegularHolds`, `!PreflightExactHolds` | `DocumentsRegular`, `PreflightExact` | `DocInv` |
| `FrontProofs!AuthorizedHolds`, `!RightfulServedHolds` | `Authorized`, `RightfulServed` | `AccessInv`, with `DocInv` |
| `FrontProofs!AnswerMatchesHolds` | `AnswerMatches` | `DownInv`, with the two above |
| `IPBanProofs!TablesStaySound`, `!SqueezeIsBounded`, `!BansStand`, `!BansAreEarned` | `TablesSound`, `SqueezeBound`, `BanStands`, `BanIsEarned` | `Inv` |
| `RateLimitProofs!TypeCorrect`, `!ThrottlingIsEarned`, `!AdmissionIsBounded` | `TypeOK`, `ThrottledIsSpent`, `AdmittedBound` | `SpentInv`, `WithinInv` |
| `AdminSessionProofs!TypeCorrect`, `!SessionsAreHonoured`, `!OnlyIdlestGoes` | `TypeOK`, `SessionHonoured`, `OnlyIdlestEvicted` | `Inv` |
| `AdminSessionProofs!LockoutBoundHolds` | `LockoutBound` | `LockInv`, with `Inv` |
| `PagingProofs!EventsAreAccounted`, `!FlushesKeepNewest`, `!TrailKeepsNewest` | `EveryEventAccounted`, `FlushKeepsNewest`, half of `AuditReadable` | `Inv` |
| `PagingProofs!AuditReadableHolds` | `AuditReadable` | `Inv`, `Clocked` |
| `PagingProofs!ListingOrderedHolds`, `!ListingExactHolds` | `ListingOrdered`, `ListingExact` | `ListingInv` |
| `AdminApiProofs!LiveIsPersisted`, `!AckedValueSurvives` | `EffectiveIsPersisted`, `AckedSurvives` | `Inv` |
| `AdminApiProofs!SeriesSoundHolds`, `!ChartReachesHolds` | `SeriesSound`, `ChartReaches` | `SamplerInv` |

Assumptions. The modules' `ASSUME`s give the constants their types: sizes,
lifetimes and thresholds are positive numbers, settings are those that pass
validation, sentinels (`None`, `Torn`, a held object) are not ordinary values,
and clients, addresses or goroutines are finite in number where a table of them
is counted; sizes of files are numbers that fit the code's integers. TLC
evaluates them on every instance. Some theorems have a hypothesis besides:

- `LockedOnly` (`PairsAreConsistent`, `StoreIsAtomic`): only the handlers that
  take the stripe mutate objects, with no legacy object, crash or failing disk.
  `acl_race` shows that the part about the handlers is needed. The run
  `object_requests` checks one instance of it, the mix of uploads, copies and
  deletes.
- `[]Separate`, `~Crashes` and `~DiskFaults` (`PreconditionHoldsApart`): requests
  on one key do not overlap and no deletion of the bucket overlaps; other keys
  may be as busy as they like. A kill or a failure between the rename of the data
  file and the write of the sidecar leaves the sidecar of the version before
  beside the new bytes, and the next precondition believes it. The sequential mix of `object_requests`
  satisfies it.
- `NoLateUpload` (`BucketDeleteKeepsObjectsHolds`): no upload or copy renames its
  file into place between the emptiness check of a bucket deletion and the
  removal. Every other overlap is allowed, and crashes and disk faults.
- `~Overlap` (`MultipartProofs`): a part is sent again after its answer, a
  Complete comes after the answers to its parts, and no other Complete and no PUT
  of the key runs beside it. Creates, aborts, parts of other numbers or uploads,
  failing writes and kills come at any time.
- `~Overlap` (`FrontProofs`): changes of one document, or of one object, come one
  after the other. Reads, downloads, changes of other documents, of users, links
  and the clock, failing writes and kills come at any time. Section 3 says for
  both modules what happens otherwise.
- `EnoughNodes` (`FrontProofs`): the file system has an inode for every name and
  every descriptor a worker can hold.
- `Refills` (`AdmissionIsBounded`): a bucket of any settings that can be applied
  fills within `limiterTTL`. Section 3 says what happens otherwise; the run's
  instance satisfies it.

The arguments:

**ObjectStore.** `TypeOK` is not inductive: a step writes back a local that only
an earlier step has set. `TypeInv` adds `LocalsOK`, the data flow of the
handlers: at each program counter, the locals the next steps use hold values.
For the lock, each step either stays on its side of the critical section with
the locks unchanged (`StaysPut`), leaves and unlocks (`Leaves`), or is `Lock`.
Of two workers in the critical section with the same key `LockDiscipline`
leaves one, only `Rename` and `DelData` change the data file of a key under its
stripe, and `os.RemoveAll`, which takes no stripe, can only remove it: hence
`PublishedAlone`. `FilesHaveHomes` speaks of files and directories; the step
that could break it is the write into an open descriptor after the file and its
directory have gone, so `HomesInv` adds that a descriptor which still counts
belongs to a file that is there (`Opened`), and that a staged file without an
owner comes from a killed process (`Owned`). These four hold for every mix of
requests, with crashes and disk faults.

`ConsistentPair` speaks of keys whose stripe is free; the induction needs the
keys that are being changed too. `PairInv` has four parts: `OnlyLocked` (where
workers can be), `Homes` (directories of files exist, so that a rename finds
its target), `CleanPairs` (a key nobody is in the middle of has a matching pair)
and `DirtyKeys` (what the worker in the middle knows).

**AtomicStore.** `StoreIsAtomic` is a step simulation: the start of a PUT or a
DELETE, and `CpOpen` of a copy, is `Ask`; `Rename` and `DelData` are `Hold`;
`MetaWrite` and `DelDirs` are `Commit`; an error answer is `Refuse`; `Finish` is
`Rest`; every other step leaves the mapped variables alone. `MapInv` puts
together the invariants above and says which request can be at which step
(`RequestsInPlace`). `PublishedAlone` gives that an object has one holder, and
`CleanPairs` that its value is the one asked for once the holder has left.

**Promises without a lock.** `UploadRepairs`: a worker that runs alone knows what
it has left behind at each step (`Mended`), since nobody else moves between its
rename and its answer. `BucketDeleteKeepsObjects`: what `bucketIsEmpty` saw is
still so (`Emptied`), because only a rename puts data under a key.
`PreconditionHolds`: `HonestInv` says that a sidecar that decodes describes the
bytes beside it (`Right`), the window between rename and truncation excepted
(`Tagged`), and that what a request has read of its key is still so when it
renames (`Honest`); the backfill keeps that, since it hashes the bytes it finds.

**Multipart.** The `.tmp` file of a part, and that of the assembled object, has
one writer (`Waiting` keeps the requests that share it apart): it is torn while
written and afterwards whole, or gone if an abort came by (`PartsWhole`,
`ObjectWhole`). What Complete has streamed so far is the prefix of what it was
asked for, and an abort that removes a part before it is opened makes the
streaming fail, never skip (`Assembling`). While requests come one by one,
`Settled` says how far the one that is served has taken sidecar, gauge and
directories; the gauge is the cardinality of the set of uploads in progress.

**Documents and access.** `DocInv`: names refer to different inodes
(`NamesApart`), an inode that is being written belongs to the one writer of its
document (`Exclusive`, `Holding`), and what a name refers to decodes and was
acknowledged, or is what a killed change would have made it (`InForce`); a reader
that has opened an inode keeps it, whatever is renamed over the name, hence what
it reads was in force since it came (`Noted`, `Answered`). What the code computes
from prefixes and suffixes of a CORS origin is shown to be the wildcard of the
reference character by character (`PrefixChars` and the lemmas after it).
`AccessInv` says, step by step, what `AuthMiddleware` knows (`Credential`),
what the history has noted of the same moment (`Observed`), and that a check
that was passed was granted (`Passed`, `Settled`). `DownInv` follows the version
a download has looked at and the one it has opened: both are among those that
were there since it came (`Watched`, `Informed`), and the arithmetic of ranges
denotes the RFC's set of positions for any size up to `MaxInt`.

**RuntimeConfig.** While a change runs alone, `Stage` says how far it has come:
which keys hold its value, then which cells. `WholeOK` says that as long as no
two changes overlapped (`~split`) there is at most one, and `KnownOK` that an
acknowledged value is both persisted and in force. A crash replaces the cells
by what the keys say, which is the same value.

**IPBan.** The counter of an address must agree with what happened. `InWindows`
says that of two failures in the history either both were counted in one window,
with fewer than the maximum between them, or in windows that do not overlap;
`Agrees` that the counter is the number of those in the last window. Failures
at most a window apart then lie in two windows, each with fewer than the
maximum, which is the 2·max−2 of the code's comment, and the failure that
imposes a ban is the last of max in one window.

**RateLimit.** `Drawn` is what a bucket gave since an admission and still holds,
`Supply` the burst and the refill since then. Under `Refills` (`Within`) a
bucket has never given more than its supply, and a client without a bucket has
been away long enough to have a full one. Without any hypothesis (`Spent`) there
is an admission since which it has given all of it or holds the rest, so an
empty bucket is a used one.

**AdminSession.** `SessionHonoured` and `OnlyIdlestEvicted` compare an answer
with the history of the session: when it was used and made, and whether it was
ended. `Faithful` says that the table tells the same story for each entry, and
`RequestsSound` that a request in flight holds only tokens that were issued.
The capacity is what eviction restores, for any capacity.
`LockoutBound` counts secrets that were checked; the limiter counts failures that
have arrived. `Limited` bounds the first by the second plus the requests that
are between the gate and the counting; a goroutine is one such request, so there
are at most as many as workers.

**Paging.** Events move from buffer to batch to store in the order in which
they were made (`InOrder`), so keys are never shared and the count of a union
is a sum (`Account`); the final drain goes round at most `ChanCap` + 1 times and
`Draining` says that what it will not reach came after it began. That a prune
keeps the newest, however many go, needs a least element of a finite set in the
order of keys; it is taken from the well-foundedness of strict inclusion instead
of an induction on the number. The pages of the trail are a recursive function of
their number; that there is one, and what has been read after n pages, follows
from the least number for which it would not be so.

Listing: the byte order of keys is a strict total order, proved from the first
position in which two keys differ; sorting is by rank, so the sorted entries are
the set in that order. `ListingInv` says that every entry seen is at or before
the cursor and every entry of the next page after it (`EntriesInOrder`), that a
key that was there all along is out or still ahead (`Coming`), and that what is
out was there (`AllWitnessed`).

**RequestSampler.** Sums over minutes are folds. `TotalIsSize` shows that a sum
of natural numbers is the cardinality of a set of pairs, by which sums are
compared, split and extended without an induction over them. `Covered`: the
samples from any minute on, with what the next tick would take, are at most what
was served since one interval before it; `OnTime` bounds how far back a tick
reaches. `Kept` says that no prune reaches beyond what the retention ever let go.
For the chart, the windows counted back from the end of the bar in progress tile
the past (`OneWindow`), as bars tile a window (`OneBar`).

## 7. What is only model-checked, and what is not modelled

Only model-checked: `EveryRequestAnswered` and `EventsSettle`. They are liveness
properties, and liveness needs fairness and `ENABLED`, which are beyond the
prover. The theorems about promises that hold only without overlap have the
hypotheses of section 6; what TLC finds without them is in section 3, and
`SettledPair`, which is violated, is a finding.

Abstractions that matter. MD5 is injective. The disk is a POSIX file system
that keeps what was written; loss of unsynced data at a power failure is not
modelled (a crash is the death of the process). `Download` serves objects with a
stored ETag; the backfill of one without is in `ObjectStore`. The clock is an
integer that does not step back. `os.RemoveAll` removes in any order and may
meet new files. Each module has one bucket or one key where the code treats them
independently.

Not modelled:

- HMAC, canonicalisation of requests, encryption of secrets: cryptography and
  strings; `Access` takes the verdict about a signature as an input;
- XML and JSON documents and the limits on them: a document is accepted or
  refused;
- name validation, client address resolution, routing tables: string functions
  without state; the models take values that passed them;
- environment parsing, listeners;
- metrics other than the request counters, logging, rendering, the web UI: no
  state the rest of the program reads.

## 8. Plan

Done, in this order: ObjectStore with its proofs, Multipart, IPBan,
AdminSession, EventLog, RateLimit, RuntimeConfig, Listing, RequestSampler;
AtomicStore with the refinement, Sidecars, Access, Download, the repair of an
object after a crash and the drain at a shutdown.

Then the theorems of section 6: ObjectStore, its refinement of AtomicStore,
RuntimeConfig, IPBan, RateLimit, AdminSession, EventLog; and after them
Multipart, Sidecars, Access, Download, the promises of ObjectStore without a
lock, the paging of the audit trail, the lockout, Listing, RequestSampler.

What could come next:

1. Multipart with the object handlers on shared keys: Complete publishes without
   the stripe, so that `ConsistentPair` would need the hypothesis that a key is
   written in one way at a time.
2. The chain of ban, limiter, authentication and access log around one request:
   which of them sees a request, and what is counted when one of them refuses it.
3. The legacy objects of `ObjectStore` in `StoreIsAtomic`: a read that backfills
   a sidecar would be a step of AtomicStore that changes nothing.
