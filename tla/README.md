# anchor-lfs in TLA+

A verification development for anchor-lfs, a Git LFS server. It consists of TLA+
modules translated from the Go source under `src/`, TLC configurations that
check them on small instances, and TLAPS proofs of what matters most.
`PROJECT.json` maps every definition to the lines it models, and lists runs,
mutants, findings, hazards and theorems.

## The system

anchor-lfs serves Git LFS endpoints over HTTP. A client that has authenticated
(`auth/`) asks the batch API which objects to transfer and gets signed URLs
(`lfs/signer.go`); it uses them to upload to, or download from, a storage backend
(`storage/local.go`, `storage/s3.go`). The lock API (`lfs/locks.go`) keeps file
locks in one JSON file per endpoint. Several server processes may share a data
directory: the lock file is guarded by `flock`, objects are put in place by
rename. There is no database; all durable state is files or S3 objects.

| Part | State | Operations | What makes it hard |
|---|---|---|---|
| Lock store | `locks.json`, flock, per-process RWMutex and cache | Create, Unlock, List | processes and goroutines interleave; the cache trusts inode, mtime and size; the cached set is changed in place; saves fail or the process dies half way |
| Lock listing | sorted set, cursor | list, match | locks come and go between pages; equal time stamps; the clock jumps |
| Local storage | object files, temporary files, set of files being written | Put, sweep | racing uploads, crashes, power failures, a sweep that is not atomic |
| S3 storage | objects, multipart uploads | Put | lost answers, aborts, unknown sizes, part limits |
| GitHub authenticator | cache, lookups under way | Authenticate, sweeper | shared lookups, callers that leave, revocation while cached |
| Object API | responses being built | batch, verify, download, upload | bounded concurrent lookups into one slice, early stop, saturating sum |
| URL signer, start, stop | signing key in memory and in `signing.key` | Sign, Verify, load or generate the key, shutdown | restarts, half-written key file, shutdown timeout with handlers running |
| Lock API handlers | none of their own | create, list, verify, unlock | ownership decided with what authentication returned |
| Readiness | result cached for five seconds | probe | stale result, check under a mutex |
| Configuration, sanitising | maps of paths and directories taken, problems found | load, validate, check command | two endpoints must not share a directory; the order of endpoints must not matter; no problem may be lost |
| Start of the server | authenticators made | checks, registration of endpoints | endpoints share authenticators by the text of the API's URL |
| Rate limit, proxy, request ID, logging, metrics | none, or external | | |

## Modules

| Module | Models | Notes |
|---|---|---|
| `LockTypes` | locks, requests and answers of `lfs/locks.go` | shared by the next two |
| `LockTable` | the promise of the `LockStore` interface | abstract: each call takes effect at one instant, or fails and changes nothing |
| `LockStore` | `FileLockStore` | one action per statement that others can observe; implements `LockTable` |
| `LockStoreProofs` | | proofs about `LockStore` |
| `LockPaging` | `lockSet.list`, `match`, cursors, limits | |
| `LockApi`, `LockApiProofs` | the four lock handlers and `requireAuthResult` | extends `LockPaging` with owners and callers; the proofs are about both |
| `LocalStore`, `LocalStoreProofs` | `UploadHandler`, `Local.Put`, `RemoveStaleTempFiles`, `sweepTempFiles` | |
| `S3PartSize` | `partSizeFor` | pure arithmetic |
| `S3Put`, `S3PutProofs` | `S3.Put`, `putUnknownSize`, `putObject`, `putMultipart` | S3 itself is external; the proofs include those about `partSizeFor` |
| `GitHubAuth`, `GitHubAuthProofs` | `GitHub.Authenticate` and all it calls | GitHub itself is external |
| `SignedUrls`, `SignedUrlsProofs` | key handling and shutdown in `main.go`, `URLSigner`, `requireValidSignature` | |
| `Batch`, `BatchProofs` | `BatchHandler`, `processBatch`, `hasSpaceFor`, `VerifyHandler`, `DownloadHandler` | storage as `LocalStore` and `S3Put` establish it: whole objects, only ever added |
| `Settings` | defaults, environment, validation of `[options]` and `[storage]`, `effectiveConfig` | pure operators |
| `Endpoints` | `sanitise.Endpoint`, the loops of `Load` and `serve` over the endpoints | |
| `Readiness` | `GET /ready` | |
| `Service`, `ServiceProofs` | `Load`, the check command, `serve` up to its probes | composes the three above; the proofs are about settings, endpoints and readiness |

`MC*` modules give the constants their values. A definition whose comment starts
with "Mutant:" is a plausible mistake in the operation that follows it. It is
not part of the specification: it takes the operation's place in one extra run,
in which TLC must find the property violated.

### Lock store

`pc[w]` is the next statement of goroutine `w`: `mu` (lock the mutex), `peek` and
`faststat` (List's look at the cache), `flock`, `stat`, `read`, `decide`, `write`,
`rename`, `restat`, `funlock`, `munlock`. The set that `readLocks` returns *is*
the one in the cache, so `decide` changes the cached set before anything is
saved; `SaveFails` models the deletion of the entry on every error of
`saveLocks`. A file version carries a stamp for its inode and mtime together;
the constant `MtimeAdvances` says whether stamps may come back. Crashes drop a
process's memory, mutex and flock. A context is only examined on entry, so a
client that leaves later changes nothing.

### Lock paging

A walk reads page after page with the cursor of the last one, while locks are
created (with the time of a clock that may stand still or go back) and released.
`held` remembers the matching locks that were there all along.

### Lock API

`LockApi` adds to each lock its owner and to each request the `Result` of
authentication (authorized or not, name, maintainer or not; the no-op
authenticator's results are among them). A request is one step, as `LockStore`
implements an atomic table. `Fold` stands for `strings.EqualFold`. A client
lists or verifies page after page; `ours` and `theirs` collect what verify said.
Requests that are refused change nothing and are left out.

### Local storage

Each Put goes through `create`, `track`, `copy`, `rename`, `remove`, `return`,
and each sweep through `walk`, `info`, `unlink`, so that the check of the in-use
set, the look at the age and the removal are separate moments. Time is kept as
ages. `PowerLoss` cuts unsynced data short and may undo a rename that was not
written back; `Crash` only loses memory.

### S3

A request to S3 succeeds, fails, or succeeds with its answer lost. Bodies are
sequences of bytes, so that the joined parts can be compared with the content.
A body of unknown size that ends exactly where a buffer ends may show its end
with the last byte or with the next read, as an `io.Reader` may.

### GitHub authenticator

One token and one endpoint: keys share only the mutex and the sweeper. A lookup
runs in its own goroutine with a set of waiters (singleflight's `DoChan`).
`Leave` models a cancelled request: `share` returns, and its result is assigned
to the variable that the function of a shared probe captured and may not have
read yet. `past` keeps what GitHub held earlier and for how long it has not.

### Signed URLs

A process is `down`, reads the key file, writes it in two steps (create and
write, as `os.WriteFile` does), serves, drains, closes its signer and exits; it
may be killed at any point. A signature is the key, target and expiry that went
into it.

### Batch

A lookup reads storage once, and may fail. `StartLookup` takes a slot before it
looks at the context, as the code does. Unsigned arithmetic has `MaxUint64` as a
constant.

### Configuration, start, readiness

`Service` starts with a command (check or serve), the settings of a file, the
environment and a list of endpoints. `Load` goes through the endpoints as the
code does: a loop of `validate`, with the maps of paths and directories taken,
then a loop of `parseGitHubURL`; both add to `problems`, and `EndLoop` decides. A
path is a sequence of characters in which a word stands for its letters, so
that path cleaning, the replacement of separators and the folding of case are
modelled by what they do. The other texts are abstracted to the cases that the
code tells apart ("junk" does not parse, upper case is another spelling of a
choice). Then check prints and exits, or serve checks the data directory and
the storage, registers the endpoints and listens; from there on `Readiness`
takes its steps. A storage check takes time, and its outcome may be decided at any
moment of it. `since[r][b]` is the time since resource `r` was last up or
down, which is what an answer is compared with.

## Runs

| Run | Instance | Shows |
|---|---|---|
| `lock_store` | 2 processes, 3 goroutines, 3 requests, 1 crash, fair | `OneLockPerPath`, `ReleasedOnlyByOwner`, `ListIsCurrent`, refinement of `LockTable` (`ImplementsLockTable`), and that every request returns (`EveryRequestReturns`) |
| `lock_store_stale` | stamps may come back | **violation** of `ListIsCurrent` |
| `lock_api` | 3 IDs, 3 paths, pages of 1 or 2, a clock of 2 values, 3 names of which two differ in case | `NothingMissed`, `PagesAscend`, `VerifyAgreesWithUnlock` |
| `local_store` | 2 processes with an upload each, both sweeping, 1 crash | `ObjectsIntact`, `AckedStored`, `LiveTempsKept` |
| `local_store_live` | 1 process, 2 uploads whose clients may fall silent for good, an idle timeout above the age limit, 1 power failure, fair | `ObjectsIntact`, `OwnTempsKept`, `OrphansSwept`, `UploadsEnd` |
| `github_auth` | 2 callers, 6 kinds of grant, 1 change, 1 leaver | `RevocationBounded`, `RefusalBounded`, `RejectedWithoutLeavers`, `ErrorsFromGitHub`, `NobodyForgotten` |
| `github_auth_race` | a caller leaves | **violation** of `RejectedOnlyIfInvalid` |
| `s3_put` | 2 uploads, bodies of 0 to 12 bytes, 3 kinds of content, 3 parts of 2 or 3, 1 crash | `ObjectWhole`, `AckedStored`, `PartsAcceptable`, `PartsCleared`, `EnoughParts` |
| `signed_urls` | 1 server, 3 starts, fair | `UrlsHonoured`, `CleanExit`, `StopEnds` |
| `signed_urls_torn` | a server dies during its first start | **violation** of `StartsUnaided` |
| `batch` | batches of up to 4 objects, 2 slots, sizes -1 to 6 in arithmetic modulo 8, fair | `RepliesComplete`, `AnswersTrue`, `GrantsFit`, `EveryBatchEnds` |
| `service` | each setting in the file and in the environment, up to 3 endpoints, 3 probes | `DirectoriesApart`, `RefusedForCause`, `AuthenticatorsOwn`, `CheckPrintsWhatServes`, `AnswersRecent`, `ProbesInTime` |

### Bounds, and why they are enough

- *Lock store.* Two goroutines in one process contend for the mutex, and with one
  in another process for the flock. Three requests allow a create, a release
  and an observer; the theorems remove the bound.
- *Lock API.* Three locks at a time and pages of one make walks of three pages, with
  changes in between, among them locks that take a released path.
  Two values of the clock give both equal and reversed time stamps. Two of the
  three names differ in case only. The theorems remove the bounds.
- *Local storage.* Two uploads of one object race for its path. In
  `local_store` the age limit is 2; a sweep may take 1, so that a file grows old
  during it, and the idle timeout is 1, below the age limit. In
  `local_store_live` the age limit is 1, the idle timeout 2, above it, and a sweep
  takes no time.
- *S3.* Three parts of two bytes, which grow to three, give a largest object of
  nine bytes. `max_upload_size` is 11, so there are bodies S3 refuses, bodies the
  server refuses, and ends within a part, at its edge and
  at the last part's edge. The content that matches the ID has 2 bytes (one PUT),
  3 (one PUT or a part, depending on whether the size is known) or 7 (several
  parts).
- *GitHub.* Two callers are enough to share, overtake and leave each other. The
  TTL is 3, the one for invalid tokens 1, and a lookup takes up to 1: an invalid
  token remembered for the full TTL would outlast the bound that
  `RejectedWithoutLeavers` states, which a TTL of 2 would not show. The six grants
  cover the cases that the code tells apart; a token that may not read its own
  user is also one without a permissions object, so that the refusal of the
  second call is met when the grant changes between the two.
- *Signed URLs.* Three starts: one that makes the key, one that loads it, one
  more. URLs are valid for 1 of 2 seconds. One handler at a time: handlers share
  nothing but the key, and the theorems cover any number.
- *Batch.* More objects than slots, so the loop blocks. The sum of three sizes
  exceeds the largest unsigned value.
- *Service.* One setting at a time, in the file, in the environment and in both,
  takes each of its cases, on top of three bases (all defaults, S3, deprecated
  logging): settings interact only through the backend, the logging defaults
  and the two addresses. All paths of up to three characters and some longer
  ones, by themselves; up to three of four paths whose directories clash;
  three endpoints, two of them with GitHub and several spellings of two APIs. The theorems on settings and
  endpoints remove these bounds. A result is kept for 2 and a storage check takes up to 2, as
  both are five seconds in the code, and the healthcheck waits for 4 (ten
  seconds). Three probes: one checks, one waits, one comes later.

`CHECK_DEADLOCK FALSE` is set where a bound on operations or starts lets a
finished system stop, and in `service`, where the program exits.

### Fairness

Weak fairness of a goroutine's next step: the Go scheduler runs every runnable
goroutine, and file operations return. In `LockStore` it is weak fairness of each
worker's `Step`, the failure of `flock` left out, so that a worker behind a lock
that nobody releases is not saved by an error. Nothing is assumed about who wins
a contended mutex or flock: as the number of requests is bounded,
`EveryRequestReturns` excludes deadlock and locks that are never released, not
starvation by an endless stream of others.

In `LocalStore` an upload that is waiting for data is not fair: its client may
fall silent at any point. Only the read deadline (`ReadTimesOut`) is sure to end
it, once nothing has come for the idle timeout; a timeout of zero "waits
indefinitely" (`lfs/handler.go`) and is not among the instances. Strong fairness
is used for time (a sweep may hold up the clock only for its own duration) and
for looking at and removing a given file, which says that the disk does not fail
for ever on one file.

In `SignedUrls` only the main goroutine is fair; handlers may hang for ever.
`LockApi`, `S3Put` and `Service` assume no fairness: they have safety properties
only. None is assumed of clients, crashes or GitHub's changes.

## What is proved

For every value of the constants (number of processes, goroutines, paths, IDs,
sizes):

| Theorem | Says |
|---|---|
| `LockStoreProofs!Inductive` | the inductive invariant `IInv` that the next two rows rest on |
| `LockStoreProofs!NoDoubleLock`, `OwnersKeepLocks` | the invariant and the action property of `lock_store`, whether or not stamps come back |
| `LockStoreProofs!TypeCorrect`, `CacheIsHonest` | types, and that a cached set is what its cached bytes say unless a writer is changing it |
| `LockStoreProofs!ListsAreCurrent`, `Refinement` | if stamps do not come back, List returns the file's locks and `LockStore` implements `LockTable` |
| `LockApiProofs!WalkMissesNothing`, `WalkRepeatsNothing` | the two properties of a walk |
| `LockApiProofs!HandlersImplementPaging` | the handlers' steps are steps of `LockPaging`, whose theorems therefore hold of them |
| `LockApiProofs!VerifyIsRight` | verify agrees with unlock |
| `LocalStoreProofs!Intact`, `OwnKept` | what is found under an object ID is its whole content, across crashes and power failures; a sweep never removes the file of an upload of its own process, however long that stalls |
| `LocalStoreProofs!AckedWhilePowered` | until the power fails, acknowledged objects are stored |
| `LocalStoreProofs!LiveKeptWithShortTimeout` | if an upload cannot stall for as long as the age limit, no sweep of any process removes its file |
| `S3PutProofs!PartSizeInRange`, `PartsSuffice` | part sizes fit S3's limits for every size up to its maximum |
| `S3PutProofs!Whole`, `Acked`, `Acceptable`, `Enough`, `Cleared` | the five safety properties of `s3_put`, for any bodies, sizes and limits |
| `GitHubAuthProofs!NobodyIsForgotten`, `ErrorsAreGitHubs` | who waits, waits for something under way, and gets an error only from GitHub |
| `GitHubAuthProofs!RevocationsTakeEffect`, `RefusalsAreGitHubs`, `RejectionsAreGitHubs` | how old what GitHub said may be when a caller is let in, refused, or told that the credentials are invalid |
| `ServiceProofs!DirectoriesAreApart`, `RefusesForCause`, `AuthenticatorsAreOwn` | the three properties of endpoints, for any number of them with any paths |
| `ServiceProofs!ProgramRunsLoops` | the program runs the loops that these are about |
| `ServiceProofs!AnswersAreRecent`, `ProbesAreInTime` | the two properties of readiness probes, for any number of them and any times |
| `ServiceProofs!PrintedIsServed` | what check prints is what serve would use, for any file and environment (but for secrets and an empty `s3_prefix`, see Findings) |
| `BatchProofs!RepliesAreComplete`, `AnswersAreTrue`, `UploadsFit` | the three safety properties of `batch`, for any number of requests, objects and slots, and any sizes |
| `BatchProofs!LookupsAreBounded` | a batch never has more lookups under way than `Concurrency` |
| `SignedUrlsProofs!TypeCorrect`, `ExitsCleanly` | for any number of servers |
| `SignedUrlsProofs!HonouredUrls` | `UrlsHonoured` for one server, or for any number with a configured key |

*The lock store's argument.* `OneLockPerPath` is not inductive: that a rename
keeps it depends on what the writer read. `IInv` adds
who holds the mutex and the flock at which step (`MutexInv`, `FlockInv`), which
locals are set (`ControlInv`, `AnswerInv`), that between the read and the rename
a writer's set is the file's set plus or minus its one lock (`WriterInv`), that
IDs in the file were issued (`IssuedInv`), and what a cache entry says of the
file (`CacheInv`). First come the parts about control and locks, then those about
the file and the cache. Most steps change neither the file nor the cache, and keep
what is known of them by frame lemmas (`OthersStay`, `Quiet`).
The refinement maps the table to the file's locks; the rename is the step at
which a writer's operation takes effect, and the answer is decided there.

*The lock API's argument.* What verify has collected must be related to the
pages: everything in earlier pages and in this one is in exactly one of `ours`
and `theirs`, by the comparison that unlock makes, and a lock's owner never
changes while it exists. With `NothingMissed`, which comes from `LockPaging`
through the refinement, every lock that was held all along is in one of them.

*The argument of local storage.* `Job` says that the file of an upload, as long as
it has a name, holds what was hashed, and is on disk before the rename. It is
inductive because no two uploads share a name (`NamesInv`) and everybody else
can only remove the file. `ObjectInv` extends `ObjectsIntact` to what a power
failure may bring back. `SpareInv` is about a sweep that already holds the name
of a file: the upload tracks its file while that is younger than the age limit
(`TrackInv`), so a sweep that did not see it tracked will find it too young, even
if the sweep takes long.

*The argument of S3.* What has been read is what the parts hold and what is in
the buffer (`Accounted`), so the joined parts are what was hashed. All parts but
the last are as long as the buffer (`AtTop`, `AtSend`, `Fitting`), and the buffer
is as long as `partSizeFor` says for the declared size or for `max_upload_size`
(`Sized`), so `PartsSuffice` gives `EnoughParts`. That joining one part more
appends it is proved by induction over the parts (`Induct`, from the least
counterexample).

*The argument of the GitHub authenticator.* `Waiting` says that callers and
lookups agree on who waits for what. `Knowing` gives for the cache entry, each
lookup and each caller how long ago GitHub said what it holds (`Said`,
`Rejected`): a lookup adds its own age to what it started from, an entry its age
in the cache, and each step passes on no more than the next holder may have.
The bounds in the properties are the largest of these sums.

*The argument of readiness.* `ReadyInv` says that one probe holds the mutex, that
its check has not outlasted the timeout (`OneChecks`, `CheckEnds`), and that others
have waited no longer than that check (`Queue`), which gives `ProbesInTime`. `Cached`
relates the age of the result to the time since the resources were as it
says. The data directory is looked at when the check begins. Storage may be found
in any condition that it has been in since (`seen`), and these are no older than
the check (`Watched`). Hence the one timeout more in `AnswersRecent`, which a
failure of the data directory, found at once, does not need.

*The endpoints' argument.* `EInv` says what the maps hold (`Taken`), what an
endpoint without a problem has passed (`Sound`, `Apart`, `ParsedWell`), and that
every problem has a cause that can be told from the endpoints alone, not from
how far the loop has got (`Caused`): the problem "path taken" of the code becomes
"another endpoint has the same directory", as equal paths have equal
directories. `Shared` says that there is one authenticator for a
base URL, nil among them.

*The settings' argument.* Settings that were loaded without a problem are `Settled`:
nothing that has a default is missing, choices are in lower case, the base URL
has lost its slash (doing any of this twice changes nothing, `TextsOnce`), and
the checks find nothing. Such settings, printed and loaded again, `Agree` with what
they were in everything that the checks and the server look at, so they have
the same problems, none (`SameProblems`), and the same effect (`ReloadSame`). That
the program gets past `validate` only with such settings is `SettingsChecked`, the
invariant of `Service`.

*The batch argument.* `Served` says what is known of one request at each of its
steps. While lookups run, those that have ended have answered, in the place of
their own object, what was then so (`Looked`); once all have ended, this holds of
the whole response (`Answered`). It stays so because storage only grows, and no
other request writes these responses (`OthersStay`). `GrantsFit` compares the space
with the sum that the code computes, which stops at the largest `uint64`.
`Saturates` shows by induction over the objects that this is the lesser of the
true sum and that largest value; so unless the space is unlimited, a sum that
fits is the true one. For the bound on lookups, `SlotsTaken` says that those
running have a slot each; a slot that was taken just as the client left is never
given back, which is harmless as that loop has ended.

*The signed URLs' argument.* `LifeInv` says at which points of its life
a process may have an exit code or have cut off a connection, and that only one
that serves or drains has open connections; this gives `CleanExit`. `KeyInv` says that the keys
of all running processes, of all URLs given out and of all answers to open
connections are one, and that while the key file is being made there is none of
these. It fails for two servers that start together on a new data directory,
hence the assumption.

*Assumptions.* The named `ASSUME`s of each module; TLC evaluates them in every
run. They say that constants have their types, that `None` and the other special
values differ from what they stand beside, that bounds are natural numbers,
that S3's usual part size is not above its largest, and that a storage check
times out before the healthcheck command does. Some theorems assume more, as
they state: `ListsAreCurrent` and `Refinement` assume `MtimeAdvances`; `HonouredUrls`
assumes `OneKey`; `LiveKeptWithShortTimeout` that `MaxStall` is below `MaxAge`;
`AckedWhilePowered` is about behaviours up to the first power failure;
`RefusalsAreGitHubs` that GitHub lets every token read the contents of a public
repository, as the code does when it skips that probe.

*Only model-checked.* Liveness, as fairness and `ENABLED` are beyond the prover.
Every safety property of a passing run is a theorem, some of them under the
assumptions just named.

## Findings

1. `auth/github.go:146` (`github_auth_race`). The function given to `share` for a
   probe captures `acc`, to which the result of `share` is assigned. If the caller
   that started the probe leaves, it overwrites `acc` with `access{}` while the
   probe is about to read it. Others who wait for the probe are then told that
   their credentials are invalid.
2. `lfs/locks.go:247` (`lock_store_stale`). A lock file that is replaced twice
   within the resolution of its modification time, with the inode reused and
   the size unchanged, looks like the cached one; List answers with locks that
   are gone. Writers read the bytes and are not affected.
3. `main.go:461` (`signed_urls_torn`). A server that dies while it writes
   `signing.key` leaves a short file, which every later start refuses.

Three more differences are excluded by how the properties are stated, and have no
run of their own:

- Two servers that start together on a new data directory can end up with
  different keys; no document promises otherwise, and `HonouredUrls` excludes it.
- Authenticators are looked up by the text of the base URL, nil without a
  `github_api_url` (`main.go:166`). An endpoint that spells out
  `https://api.github.com` and one that leaves it out ask the same API, but have an
  authenticator and a cache each, although "Endpoints pointing at the same GitHub
  instance share a single authenticator" (`main.go:162`). `AuthenticatorsOwn` says
  which endpoints do share: those with the same `github_api_url`. Endpoints of
  different APIs never do.
- An `s3_prefix` that is set to the empty string is used as such, but not printed
  by the check command (`s3_prefix,omitempty`, `config.go:51`), although it prints
  the "Effective configuration" (`cli.go:111`); what is printed means the default,
  `lfs/`. `CheckPrintsWhatServes` leaves out this case.

## Not modelled

- Parsing and formatting (JSON, TOML, headers, URLs, command line arguments),
  logging, metrics: no state, or none that anything reads back.
- The rate limiter's buckets are an external library, and its middleware passes
  or refuses a request by their answer; the other middleware (proxy headers,
  request IDs, access log) are functions of one request.
- The order of the start beyond the checks of directory and storage, the key
  (in `SignedUrls`), the endpoints and the listener: nothing else can fail there
  and leave something behind.
- Windows variants: other system calls for the same contract.
- Directory syncs: the code makes none. `LocalStore` models what that means for
  a power failure (an acknowledged object may be lost, never damaged).
- HMAC, SHA-256 and UUIDs are taken to be free of collisions.
