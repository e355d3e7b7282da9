# A formal model of tapestry_client

`tapestry_client` is the Python SDK through which companion apps talk to a
Tapestry deployment. Most of it is a thin, stateless wrapper around HTTP. The
hard part is the one thing it keeps: the app's *service credential*, which the
platform supersedes on every renewal, which all workers of an installation share
through one private file, and which is lost for good if a renewal goes wrong at
the wrong moment. This project models that part in most detail, then the file it
rests on, the background task that drives it and the way it is shut down, the
API calls that use it, and the webhooks that come back. Beside the library the
repository has a small tool that decides whether a test run may be believed; it
is modelled too.

All paths below are relative to the repository; `client.py`, `credentials.py`
and so on are in `src/tapestry_client/`.

## 1. The system

| Component | State | Operations | Interacts with |
|---|---|---|---|
| Service-credential renewal (`client.py:131-136, 315-392`) | credential and expiry in memory, `_pending_refresh`, `_refresh_lock` | `refresh_service_token`, `maybe_refresh_service_token`, `service_token_status`, the check at the head of `_request` | the file, its advisory lock, the platform, `on_token_refresh` |
| Service-token file (`credentials.py`) | the file, its temporary files, the lock file | `load`, `save`, `locked` | the operating system; every worker |
| Maintenance task and `aclose` (`client.py:138-177`) | `_maintenance_task`, the owned transport | `start_service_token_maintenance`, the loop, `aclose`, cancellation | renewal, the host's tasks, asyncio |
| Request plumbing (`client.py:199-298`, `exceptions.py`) | none of its own | `_request`, `_raise_for_response`, `_unwrap` | renewal, httpx |
| API methods (`client.py:398-1089`, `mail.py`, `purchases.py`, `documents.py`) | none | some fifty methods, one request each | request plumbing, schemas |
| TTL cache (`cache.py`) | an insertion-ordered dict | `get`, `set`, `in`, `invalidate`, `clear` | the clock; used by hosts |
| Webhook verification (`webhooks.py`) | none | `verify_webhook` | the host's consumer |
| Schemas (`schemas.py`, parts of the mixins) | none | validation | API methods |
| Test-evidence tools (`tools/ci/`) | one report file per lane | the hooks of `SuiteReport`, `audit` | pytest, git, CI |

What is hard, and what each component must guarantee:

* **Renewal.** Tasks of a worker and workers of an installation renew at the same
  time; the file can move on while a worker remembers an older credential;
  `service_token_status` and the constructor read it outside the lock; an answer
  may be lost, a request may arrive after its sender gave up, a process may die
  between any two steps, a save may fail before or after the rename. It must
  serialize renewals, ask the platform to supersede only what a restart would
  find, use nothing newer than what is stored, never go back, and not lock the
  installation out.
* **The file.** Processes and the machine may die between writing, syncing,
  renaming and syncing the directory. What is read must be whole, and what was
  saved must stay.
* **Maintenance and shutdown.** asyncio's cancellation meets `asyncio.shield`. A
  shutdown must not leave a renewal behind, must not close the transport under
  one, and should come to an end.
* **Calls.** They run beside renewals and may be answered with anything. A write
  must not be sent twice, a call that was checked must go on with what is in the
  file then (another worker may supersede it the moment after), and how a call
  ends must tell the host whether it had an effect.
* **Webhooks.** Verification is stateless and its window is open on both sides: an
  envelope may come early, late, twice, altered, or under a secret that was
  replaced meanwhile. What is verified must be authentic, and a consumer must be
  able to act once.
* **Test evidence.** Sessions may fail, be stopped, die and leave an old report,
  run with the wrong selection, run while somebody edits, or beside files that git
  does not track. The audit must not believe them as far as their reports can
  tell, and must believe a run that is in order.
* **Cache.** The limit, per-entry times to live, updates and lazy expiry must
  combine into "a live, recent entry is there, and nothing else is answered".

The list of hazards, each at its line and with the properties about it, is in
`PROJECT.json`.

## 2. The modules

| Module | Models | Instance for TLC | Proofs |
|---|---|---|---|
| `CredentialRotation` | renewal, several workers, several tasks each | `MCRotation` | `CredentialRotationProofs` |
| `CredentialChain` | abstract: issuer and file | | |
| `ServiceTokenStore` | `save`, `load`, `locked` step by step | `MCStore` | `ServiceTokenStoreProofs` |
| `DurableRegister` | abstract: a durable register | | |
| `MaintenanceShutdown` | maintenance task, `aclose`, cancellation | `MCShutdown` | `MaintenanceShutdownProofs` |
| `PlatformCalls` | the API methods and their answers | `MCCalls` | `PlatformCallsProofs` |
| `TTLCache` | the cache | `MCCache` | `TTLCacheProofs` |
| `WebhookDelivery` | `verify_webhook`, a platform that signs and repeats, a host that remembers | `MCWebhook` | `WebhookDeliveryProofs` |
| `TestEvidence` | the report plug-in and the audit | `MCEvidence` | `TestEvidenceProofs` |

How they fit together: `ServiceTokenStore` implements `DurableRegister`, and that is
why `CredentialRotation` may treat `save` and `load` as single steps;
`CredentialRotation` implements `CredentialChain`. `MaintenanceShutdown` takes a
renewal as an operation that runs and may end, whose inside is
`CredentialRotation`'s; `PlatformCalls` takes the check before a request as a step
that lets the call through or not. `TTLCache`, `WebhookDelivery` and `TestEvidence`
share no state with the others. There is no module that composes them all: each seam
is a single value (a record, an outcome, a credential number), and the product of
the state spaces would be out of reach.

In several modules definitions marked `Mutant:` stand before the definition
they distort. Nothing refers to them; they are plausible mistakes with which each
property has been shown to be sensitive to the code (`PROJECT.json`, "mutants").

### CredentialRotation

| Variable | Code |
|---|---|
| `current` | the one credential the platform accepts (external) |
| `due` | credentials within `service_token_refresh_window` of their expiry |
| `file` | the record in the private file |
| `mem` | `_service_token`, `_service_token_expires_at` (only whether it is known) |
| `pending` | `_pending_refresh` |
| `up` | whether the process runs |
| `refreshLock`, `fileLock` | `_refresh_lock`, `AsyncFileLock` |
| `pc`, `kind` | where each task awaits, what it was asked to do |
| `wire`, `late` | its HTTP exchange; renewal requests still under way after their sender gave up |

An action is what runs between two awaits, or the part of it up to the next
write of the file, because a process may die there. `Start` is `_refresh`;
`TakeRefreshLock` and `TakeFileLock` are the two `async with`; `PersistPending`
is lines 343-344, `LoadStored` line 345 with the early return 359-367,
`VerifyStorage` lines 368-372, `TakeReply` lines 374-375, `RunHook` 376-378.
`StartStatus` is the read outside the lock in `service_token_status`; its
`_request` does not check (lines 217-222), so it goes on to send. A failing load
there, or in a constructor, changes nothing: the status call raises, and the
process stays down.

`on_token_refresh` is the host's code and runs inside both locks. If it calls a
method of its own client, that call's check waits for the lock its own renewal
holds, and if it waits for anything else that never comes, it does not return
either: nothing bounds it (`HookReenters`, place `stuck`; `service_token_status`
and `mint_delegation_token` check nothing, and a callback that calls only them
is a plain `RunHook`). The task then never leaves, a worker's other tasks wait
behind its refresh lock, and other workers give up the file lock after 30 s
(`FileLockTimesOut`).

Credentials are numbered in the order the platform makes them. The platform is
modelled from how the code uses it: it accepts one credential, answers a renewal
that presents it with the next one or, while it is fresh, with the same one
("no-op", `client.py:389`), and refuses any other.

`Hazards` names the kinds of failure a run allows, `MaxFaults` how many may
strike: `save` (before the rename), `dirsync` (after it), `load`, `lock`
(directory or 30 s timeout), `refuse`, `late` (lost answer, or an answer that is
not JSON or does not validate), `cancel`, `hook` (the callback raises), `reenter`
(it calls back, or never returns), `crash`; `noop` is not a failure
but the platform's choice.

### ServiceTokenStore

The n-th save writes file n, so a file number stands for its record. `kept` is
the set of files the path may name after a loss of power: it grows at
`os.replace` and shrinks to one at the directory sync. `whole` and `synced` say
which files hold a complete record, in memory and on disk. `load` is two steps,
`lstat` and the read, and runs with or without the lock. The file system is a
POSIX one: rename is atomic, a synced file keeps its content, a rename lasts once
its directory is synced. On other systems the code does not sync the directory,
and `SavedSurvives` is not claimed. The sync of directories `mkdir` creates is
not modelled, nor is the mode check.

`chain` is the origin and seed each process is configured with, `of` the chain of
each record. `ReadFile` returns nothing for a record of another chain
(`credentials.py:65-66`), and `Reconfigure` is the restart of a process with other
settings. `save` overwrites whatever is there.

### MaintenanceShutdown

`place` is where each task that renews is suspended: before its first step,
behind `asyncio.shield` ("waiting"), at `await operation` after a cancellation
("finishing"), or in the 60 s sleep. `asked` holds the tasks with a cancellation
they have not seen. `Cancel` is `task.cancel()`: it reaches through to the
operation only while its task is finishing, and a library below may absorb it
even then. Nothing makes an operation end (`OperationEnds` has no fairness but in
`PromptSpec`). `Finish` is the `finally: raise` of
lines 333-334, which raises whatever is being handled: the `CancelledError`, or
the operation's own exception.

### PlatformCalls

`HasStore` says whether the client has a token file; without one nothing is
checked first. `Shape` lists every method by the shape of answer it decodes. A
call goes through `Call` (headers are built), `CheckEnds` (the renewal check),
`Send`, `Receive` or `GiveUp`. That `_request` takes the credential again from
memory after the check (line 223) is in `CredentialRotation` (`SendCall`). The
platform carries a request out (`Serve`), turns it down (`Refuse`), or fails
afterwards (`Break`); answers have a status and a kind of body. That a refusal
with a 4xx status had no effect, and that an event is recorded once per
idempotency key (`client.py:748, 754-756`), are assumptions about the platform.

### TTLCache

`entries` is the dict in insertion order, `now` the clock in ticks. `last` and
`answer` are the model's own record of what was set last and what was answered.

### WebhookDelivery

`signed` holds every signature the platform has made; any of them may arrive at
any time, any number of times or never, and with the event or the stamp of
another (`Receive`). `Verified` is `verify_webhook`: producer, window, and a digest
that only the holder of the secret can make (the HMAC is a primitive; a body that
does not parse changes nothing). `signing` and `held` are the secrets on either
side, `Skew` the difference of the clocks. `verify_webhook` leaves duplicates to
the consumer (`webhooks.py:40-41`); the consumer here, external, remembers the
events it acted on for `Retention`, and the module says how long that must be:
`2 * Window + RetrySpan`. Remembering for one window is not enough: an envelope
stamped one window ahead of the host is accepted, and so is its duplicate two
windows later.

### TestEvidence

`session` is the `SuiteReport` of the session that runs, with its configuration;
`reports` the file of each lane; `tree` the working tree (the content of its tracked
files as a number, the content last committed, the tests in the tracked files, and
the tests pytest finds with the untracked files beside them). `fact` and `truth` are
the model's own record of what a session did, which the audit cannot see: how often
each case was run and how it ended, on which content, and whether untracked files
had a part in what was found. A session is `Start` (options and revision), `Collect`
(import, marker, selection), `Run` (one attempt at a case, with the phases pytest
reports of it: `PhasesOf`), and `Finish`, which writes the file, or `Die`, which
does not. `Edit` changes tracked files; `Leave` adds or removes untracked ones, a
test or a `conftest.py` that leaves tests out, of which
`git status --untracked-files=no` (`pytest_report.py:58`) says nothing. `Accepts` is `audit` and
`main`. pytest, git and the developer are external.

A case is in `unit_tests` or elsewhere and has the marker `isolated_unit` or not;
the marker decides the owner. A case that the unit runner refuses for want of its
fixtures is one that is `not_set_up`. The configuration is that of
`pytest-unit.ini` or of `pyproject.toml`. The hash of the lock file is left out, so
the model's audit accepts more than the real one. `oddities` counts whatever is not
as in the CI workflow.

## 3. What is checked

| Run | Shows | Distinct states |
|---|---|---|
| `rotation_faults` | two workers, three tasks, no-ops and any one failure of any kind | 1,422,801 |
| `rotation_live` | two workers, failures that lose no message and no process, fair scheduling | 14,992 |
| `rotation_noop`, `rotation_unreported` | findings 1 and 2 | |
| `store` | two processes of one chain or two, three saves, two deaths or losses of power | 669,691 |
| `shutdown` | one request, two closers, two cancellations | 4,181 |
| `shutdown_hangs` | finding 3 | |
| `calls` | two calls of every kind of method | 77,477 |
| `cache` | three keys, two entries, five sets, four ticks | 196,160 |
| `cache_evicts` | finding 4 | |
| `webhooks` | two events, two organizations, two producers, two secrets each, five ticks | 1,064,238 |
| `evidence` | three cases, four trees, three reports, one edit, untracked files, one oddity | 1,205,803 |

The properties:

* `RenewalsSerialized`: one task in the whole installation is inside the lock's
  block. `NeverAheadOfFile`: a renewal presents exactly the credential in the file,
  and what a process holds or a call carries is not newer than the file, but for
  the seed of a process that has saved nothing yet. It may be older: other workers
  learn of a rotation when they next check. `ChecksEndCurrent`: a call that is let
  past its check leaves its worker with the very record in the file.
  `UnsavedIsCurrent`: a pending renewal is worth saving again.
  `MemoryNeverRegresses`, `FileNeverRegresses`: neither goes back.
  `ImplementsChain`: the platform is asked to supersede stored credentials only,
  and the file only takes the platform's last one.
* `CurrentCredentialHeld`: the accepted credential is always somewhere in the
  installation. `OperationsReturn`: whoever asks gets an answer or an exception,
  unless a callback of the same worker does not return. `WorkersConverge`: all
  workers end up with the accepted credential, unless such a callback keeps the
  file lock.
* `RecordsAreWhole`, `SavedSurvives`, `LoadsAreFresh`, `TemporariesAccounted` and
  `ImplementsRegister`, for the file; `LoadsStayInChain`: no process takes up the
  credential of another origin or seed. With two chains a load may come back
  without a record, but only because the other chain has saved since
  (`LoadsAreFresh`).
* `NoRenewalLeftBehind`, `TransportOutlivesMaintenance`,
  `OneCancellationSparesRenewal`: what a shutdown waits for, in which order, and
  how much the shield absorbs. `CloseHangsOnRenewalOnly`: a close that never ends
  has met the failure of finding 3, or a renewal of the maintenance task that never
  ends itself. `CloseForgottenOnFailedRenewalOnly` is about single steps: the
  maintenance task hears of every close, and only that failure makes it forget.
* `NeverReplayed`, `OutcomeTellsEffect`, `CreatedOnce`, for calls. `Bounded`,
  `RecentKept`, `AnswersAreLast`, for the cache; `RecentKept` says what eviction by
  insertion, as the code and its comment have it, leaves in the cache.
* `ActsOnce`: a host that remembers long enough acts once, whatever the clocks.
  `ActsAreAuthentic`: it acts on what was signed for that event under the secret
  it holds at that moment.
* `AcceptedMeansPassed`: what the audit accepts passed in its own lane, in one
  attempt, and ran in no other. `AcceptedCoversTree`: it was the commit the reports
  name, and all its tests; as long as git answers, nobody changes files under a
  session, and no untracked test or `conftest.py` has a part in what is collected,
  none of which the reports could show. `CleanRunAccepted`: sessions as CI runs
  them are accepted.

**Bounds.** Two workers, one of them with two tasks, have every pair of actors
that meets in the code: two tasks at the asyncio lock, two workers at the file
lock, a locked renewal and an unlocked read. A credential can be superseded
twice, so that one can be two behind, and one failure is enough for each
hand-over to fail. Two constraints bound `rotation_faults` (`MCRotation`).
`RetryComesFirst` leaves out the states in which finding 1 starts, another
worker in the file lock while a renewal is pending that is no newer than the
file; a worker's own retry of it stays in. `LastIsFresh` keeps the last
credential of the run from ageing, as nothing could replace it. Several failures
in a row, stale retries of one worker among them, are for the theorems
`ChainImplemented` and `FileMovesForward`, which have no such bound. In `store`,
two processes and three saves let a save fail, another process save over it and
a third one follow; two deaths let a loss of power follow a death. In
`shutdown`, two cancellations are what it takes to get past the shield. In
`calls`, two calls meet at the idempotency key; methods with the same shape and
the same way to the platform behave alike, so one of each kind is taken
(`OneOfEach`). In `cache`, a third key evicts, and four ticks outlast every time
to live; the times include zero and less, which `set` does not refuse. In
`webhooks` the window is one tick and the platform's clock two ahead, so that an
envelope becomes valid only after it was sent, and five ticks outlast the host's
memory of three. In `cache_evicts` two times to live suffice. In `evidence`
three reports are one per lane, or one too few when one is repeated; one oddity
is one thing that goes wrong in one of them, one change under a session, or
untracked files that come. A session that dies is the oddity and writes no
report, so that three others may still be accepted, its own file's former report
among them; a broken case is the oddity, and that it is run again and passes is
not another. A third case is absent, in either lane, or in the wrong place.

**Symmetry.** Tasks of one worker, processes, calls and keys differ in nothing
but their name, and the modules that choose among them do so only with `\E` and
`\A`. It is used in runs without liveness properties only.

**Deadlock** is checked but in `shutdown`, `shutdown_hangs`, `calls` and
`evidence`, where everything really ends (the calls are made, the sessions over).

**Fairness.** `rotation_live` assumes that the event loop resumes what can run
(weak fairness of `Advance`), that an exchange ends (`Serve`; httpx has a timeout
of 10 s), that the asyncio lock serves its waiters in order (strong fairness of
`TakeRefreshLock`), that the maintenance task asks again every minute (strong
fairness of `Start(t, "maybe")`) and that a supervisor restarts a process. Strong
fairness of `TakeFileLock` is an approximation: the file lock is polled and
serves nobody in order, but a waiter polls for 30 s while a holder stays for one
exchange of 10 s at most. Where it gives up all the same, that is the `lock`
failure; behind a callback that does not return the timeout always comes (weak
fairness of `FileLockTimesOut`). `shutdown` needs weak fairness only: the loop
resumes tasks and sleeps end. It is not assumed that requests are made, that a host
closes, or that an operation ends: the exchange and the file lock have timeouts,
but `_refresh_lock` (`client.py:339`) and the host's callback (376-378) have none.
`shutdown_hangs` does assume that operations end (`PromptSpec`), so that its
counterexample is finding 3 and not a callback that never returns.

## 4. Where the code and its own words part

1. **`rotation_noop`.** A no-op answer that could not be saved stays in
   `_pending_refresh`. If another worker then rotates and saves, the retry of
   `client.py:343-344` writes the superseded credential over the current one,
   without looking at the file; `credentials.py:3-4` says that the file holds the
   current replacement. A failed directory sync has the same effect with two
   workers (the file holds the record already, but the renewal stays pending), and
   `CurrentCredentialHeld` fails with it: the installation may be locked out. This
   is what `RetryComesFirst` leaves out of `rotation_faults`, and what `SafeStorage`
   in the proofs says.
2. **`rotation_unreported`.** A renewal completed by the retry is never passed to
   `on_token_refresh`, "invoked after a successful service-token refresh"
   (`client.py:88-89`).
3. **`shutdown_hangs`.** If the maintenance task is cancelled during a renewal
   and the renewal fails with a `TapestryClientError`, that error replaces the
   `CancelledError`, the loop logs it and goes to sleep, and `aclose` waits for
   ever without closing the transport ("Close the underlying HTTP transport if the
   client owns it", `client.py:169`).
4. **`cache_evicts`.** `set` evicts the oldest insertion (`cache.py:45-50`), not "the
   entry with the earliest expiry" (`cache.py:19-20`). With the default time to live
   only, the two agree; with times of their own, a long-lived entry goes while one
   that expires earlier stays.

More things the models showed, for the reader of the code. The comment
"Finish receiving and persisting an issued replacement before shutdown"
(`client.py:324`) is true of one cancellation; two closes, or a cancelled one, do
stop a renewal, and `OneCancellationSparesRenewal` states what is left. And if the
maintenance task ends with an exception that is not a `TapestryClientError`, every
later `aclose` raises it and leaves the transport open.

A callback that calls its own client, or never returns, stops that client for good,
`aclose` included, and costs every other worker 30 s and a `CredentialStorageError`
per renewal, until the process ends. With two chains on one file
(`credentials.py:66`) the last to save wins: a worker of the first chain that
restarts starts from its seed, and if another worker of that chain has renewed
since, the seed is superseded.

A method that does not read its answer
(`client.py:886, 965`; `mail.py:140, 155, 181`) returns normally after a 3xx, which
carried nothing out; `OutcomeTellsEffect` therefore speaks of methods that read
it.

A lane whose last session died is audited by its former report. Locally that may
pass, and rightly so if the revision is the same; CI starts from a fresh checkout.
That is also why untracked files, which no report shows, do no harm there; locally
an untracked test is audited as one of the commit.

## 5. What is proved

TLAPS checks the theorems below for every value of the constants: any number of
workers, tasks, closers, processes, chains, calls, organizations, cases and
sessions, any bounds. They rest on the named
`ASSUME`s of each module only (tasks have owners, "nobody" is nobody, bounds are
naturals, the closers are finite, and, for `WebhookDelivery`, the host remembers
long enough: `RetentionAssumption`).

* **`CredentialRotationProofs`.** `TypeCorrect` and `RenewalsAreSerialized` hold
  without further conditions: `LockHeld` (whoever is between the two ends of the
  block holds the file lock) is inductive beside the types. So does
  `ChecksLeaveCurrent`: between reading the file and going on to send, only the
  holder of the lock can change it. `ChainImplemented`, `FileMovesForward`,
  `MemoryMovesForward` and `FileIsNeverBehind` (`NeverAheadOfFile`) assume
  `SafeStorage`: there is one worker, or neither failure of finding 1 can occur.
  `UnsavedStaysCurrent` assumes the latter. None of these properties is inductive:
  that a reply may be saved depends on the file not having moved since its
  request, which depends on who holds the lock and on no stale renewal being
  pending. `Promise` says so: the file is behind the issuer, memory is behind the
  file, a pending renewal is the issuer's last one with no newer answer on its
  way, a request presents what the file holds, an answer is that or the next one,
  late requests present something stored.
  `NeverLockedOut` (`CurrentCredentialHeld`) adds `NothingLost`: no exchange, task or
  process is lost (`late`, `cancel`, `crash`), which leaves failed saves, loads, locks
  and callbacks, refusals and no-ops. It needs both: with two workers TLC finds a
  violation under `dirsync` alone, under `save` together with `noop`, and under each
  of `late`, `cancel` and `crash` alone, where an answer is lost with the credential
  in it. The proof follows the accepted credential from the answer into
  the file or into `pending`, and from there into the file: a save fails without the
  pending renewal being forgotten, and is overtaken by none.
* **`ServiceTokenStoreProofs`.** `WholeRecords`, `SavesAreDurable`, `FreshLoads`
  and `RegisterImplemented`, from one invariant: a save holds the lock (`Turn`),
  its temporary file is newer than every file the path may name and as far on disk
  as its step says (`Progress`), and a load has seen nothing newer than what was
  acknowledged when it began (`FloorReached`). `NothingLeftBehind` counts
  temporary files against the holder of the lock and the failures. `ChainsApart`
  holds for any number of chains and reconfigurations: what a process loaded is of
  its chain, and it forgets it when it is configured anew.
* **`MaintenanceShutdownProofs`.** `RenewalsAreAwaited` and `TransportClosedLast`,
  from `Orderly`: an operation runs only under a task that waits for it, and no closer
  is past the join while the maintenance task lives. `OneCancellationIsNotEnough`, by
  counting: whoever is asked, or finishing, cost one close or cancellation, and an
  operation that was stopped cost two. `ClosesAreHeard`, for any number of overlapping
  closes and cancellations: a task that was started and cancelled is asked, finishing
  or over, and each of its steps leaves it so but the one of finding 3. That
  a close ends when none of that happens and every operation does is
  `CloseHangsOnRenewalOnly`, which takes fairness.
* **`PlatformCallsProofs`.** `CallsAreNotReplayed`, `OutcomesAreTrue` and
  `EventCreatedOnce`. The invariant follows an answer from the platform to the
  host: a request on its way has had no effect yet, an answer's status tells what
  was done, and one call at most holds, or is about to hold, a 201 for the event.
* **`TTLCacheProofs`.** `NeverOverfull`, `RecentSurvive` and `AnswersCurrent`, for
  every limit, sequence of sets and clock. The invariant is about the order of the
  dict (`Ascending`): from one entry to a later one, at least as many sets have
  happened as there are places between them, because `set` takes a key out before it
  appends it. So when the limit pushes out the first entry, `max_size` later ones are
  there, and that entry's last set is `max_size` sets ago. `Current` says that each
  entry is its key's last set, which is what `get` answers. Of removal, the lemmas
  `Removed` and `WithoutKeeps` say that it keeps the order and moves no other entry.
* **`WebhookDeliveryProofs`.** `ActedOnce`: every signature of an event is stamped
  between its first sending and the end of its retries, and if the host acted on
  the event, it did so when one of those stamps was in its window; so by the time
  it forgets, none of them is any more. `ActedOnSigned`: a digest of the held secret
  is one the platform has made.
* **`TestEvidenceProofs`.** `AcceptanceIsEarned`, from `RecordInv`: a case that was
  not run has no phases, one that was run once has those of its end, and one that
  was run again has a failed one (only a broken case is run again); with the lemma
  that of all ends only "passed" has three clean phases. `AcceptanceCovers`, from
  `AboutInv`: reports of the same content are about the same tests unless untracked
  files had a part in them, a report without errors has all that its configuration
  collects, and when git calls the tree unmodified, the content of its tracked files
  is the commit. That the inventory was collected with the full
  configuration is not checked by the audit directly; it follows, because the unit
  lane would otherwise have a case the inventory gives to the integration lane.
  `CleanRunsAccepted`, the converse, from `PlainInv` beside the types and
  `RecordInv`: a session that was begun, collected and run as in the workflow
  has in its report exactly what
  its lane collects and selects of the tests it found, each selected case in one
  passed attempt, and exit status 0. Whatever went before, edits and broken sessions
  included, plays no part.

Every safety property of the passing runs is the subject of a theorem. Only
model-checked is what holds under fairness (`OperationsReturn`, `WorkersConverge`,
`CloseHangsOnRenewalOnly`), which is beyond the prover, and the four properties
that the code violates.

## 6. What is not modelled

* The renewal of a client without a token file: `_refresh_locked` with the refresh
  lock alone. It has no file, no other workers and nothing a restart could find;
  its one promise, that tasks of a client take turns, is that of the same lock.
* The mode check of the file and the creation of its directory: they end in an
  exception that changes nothing.
* Schemas, paths, parameters, texts of errors, `Retry-After`, and the exports of
  `__init__.py`: data that no property tells apart.
* Of the test evidence: paths given to pytest on the command line, the hash of the
  lock file, durations, the description of the platform, other markers than
  `isolated_unit`, and files that are no report at all (`main` refuses them).
* The store under the renewal, step by step: `ImplementsRegister` is the seam. Its
  product with `CredentialRotation` is beyond TLC.

## 7. Plan

Done: the nine modules above, in the order renewal, shutdown, file, cache, calls,
webhooks, test evidence; then the theorems, until each safety property had one.

Next: the hazards that bite between the modules. The first is the seam between the
file and the renewal, of which the two refinements prove one side each.
