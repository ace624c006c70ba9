# A model of maison-kopia-engine

TLA+ specifications of the adapter between Maison and kopia (`cmd/maison-engine`,
`internal/kopia`, `internal/proto`), the TLC runs that check them on small instances, and
theorems about them checked by TLAPS. Paths below are relative to the repository.

## The system

Maison runs one adapter process per verb (`maison-engine <verb> …`), or lets one of them,
`serve`, live as the container's process. An adapter keeps nothing in memory from one verb to
the next. What lasts is

* the **repository directory**: `repository.config`, `repository.password`,
  `repository.password.next` / `.candidate` / `.initial`, `needs-recovery`, `needs-secret`,
  `connect.json`, `credentials.env`, `adapter.json`, and the lock file `.secret.lock`;
* the **repository** in the storage, which only kopia reads and writes: the key it asks for,
  the snapshots with their tags and pins, and the policies.

So the hard part is not inside one process. It is what several processes find in shared files
they change in several steps, each of which may fail, and any of which may be the last.

| Component | State | Operations | Interacts through | Correct when |
|---|---|---|---|---|
| **Key change** `changepw.go`, `promote` of `recover.go` | `.password`, `.next`, the flock, the repository's key | `change-secret`; the settling every other verb starts with | files, flock, kopia child | the only key is never deleted; 0 and 14 are true; an interrupted change is settled |
| **Provisioning** `serve.go`, `Connect` of `repo.go`, `Probe` of `init.go` | `.config`, `.password`, marker, descriptor | one look (`Bootstrap`) of `serve` after the other; a host side's `connect` and `probe` | files, kopia | a minted key survives every failure; the box is provisioned or its owner asked; the identity is written once |
| **Owner's key** `init.go`, `recover.go` | the same, `.candidate`, `.initial` | `init`, `recover` | files, kopia | a failure leaves no half box; recovery is always possible |
| **Backups** `snapshot.go`, `policy.go`, `pinAll` | snapshots, tags, pins, policy | `snapshot`, `commit`, `abort`, `delete`, `list`, `list-all`, `ensure-retention` | repository | what commit answers is there and stays; torn passes do not; every verb ends |
| **Restore** `restore.go` | the destination | `materialize`, `restore-in-place`, `entries` | repository | one backup, the asked one; entries only |
| **Running kopia** `run.go`, `progress.go` | two pipes, a goroutine, the tail of stderr | `run` | child process, emitter | no deadlock on the pipes, no output after the result |
| **Serve loop** `serve.go`, `main.go` | timer, backoff | poll, reap | signals | looks again within the backoff; reaps orphans |
| **Output** `proto.go`, `exit.go` | one mutex, `done` | `Progress`, `Log`, `Result`, `CodeFor` | stdout | one result, last |
| **Dispatch** `main.go`, `keep.go` | none | flags, verb table | | settles before the verbs that open the repository |
| **Pure functions** `source.go`, `repo.go` | none | `ValidSource`, `storageArgs`, `endpointHost`, `scanProgress` | | parse what they claim to |

What is hard: a `SIGKILL` or a deadline between any two steps; a kopia that outlives its killed
adapter (`main.go:318-320`) and does its work when nobody waits for it; a call whose outcome is unknown;
a look at a file that is stale when acted on; kopia ids that a pin makes stale; two verbs at
once. `PROJECT.json` lists the hazards one by one, each at its line, with the property that
covers it or the reason why none does.

## The modules

| Module | What it is |
|---|---|
| `KeyCustody` | what a key change promises, seen from the keys alone |
| `KeyChange` | `change-secret` and the settling, as processes |
| `KeyChangeProofs` | theorems about `KeyChange`, and that it implements `KeyCustody` |
| `Provision` | `serve`'s looks, a host side's `connect` and `probe`, `init` and `recover`, over the same files |
| `ProvisionProofs` | theorems about `Provision` |
| `ProvisionAnswers` | more of them: what the answers of its verbs and looks are worth |
| `Backup` | the life of a backup in the repository |
| `BackupProofs` | theorems about `Backup` |
| `Restore` | listing and restoring, while the repository changes |
| `RestoreProofs` | theorems about `Restore` |
| `Serve` | the loop of `serve`, with time and child signals |
| `ServeProofs` | theorems about `Serve` |
| `KopiaCall` | what a verb gets from a call of kopia, without the pipes |
| `Run` | one run of kopia: its pipes, the goroutines, the answer |
| `RunProofs` | theorems about `Run`, and that it implements `KopiaCall` |
| `MC…` | values of the constants |

The `map` of `PROJECT.json` gives the lines each definition models. Every module has one action
per step between two calls that another process can see or that can fail; what a Go function
does between two such calls is one action. Logging is left out. Operators named like an action
with a suffix (`TryNextTrusting`) and introduced by *Mutant* are wrong versions of the code:
each property is checked to fail when one of them takes the place of the real one.

### KeyChange

A process `p` runs a `change-secret` (`verb[p] = "change"`) or a verb that settles first
(`"settle"`). Its `pc` follows the source:

    settling    stat → tryLock → readNext → tryCurrent → dropStale | tryNext → promoteNext → dropPromoted
    change      waitLock → readSecret → check → change → promote → drop
                                                     ↘ (kopia failed) readNext …, under the same lock

`got[p]` is the Go local `next`, `refused` the processes whose child was refused
(`isWrongPassword(err)`), and `Unsettled` is what either caller makes of `settleUnresolved`.
`kopia repository change-password` is a child of its own (`kid[p]`): it opens the repository
with the key it was started with (`cur[p]`) and then rewrites the block that wraps the master
key. `promote` may fail before or after its rename (the last `chown`). `removeNext` may fail,
which is only logged. `Kill` is a `SIGKILL` or a crash: the kernel releases the flock.

Two constants describe the world around the code. `Retry` lets the caller run `change-secret`
again on a `.next` that was left behind; `Orphans` lets a kopia child outlive its adapter. With
both `FALSE` the key is never lost, for any number of processes and keys (proved). With either
one `TRUE` it can be: `GivesUpTheKey` and `KeyLostByOrphan` show how. With retries and no orphans
it is lost in one place at most, where `change-secret` removes `.next` on a path that does not
answer 0 (`GivenUpOnly`, proved). `Request` assumes what
the callers of this code do: one change at a time, and replacement keys that are new.

### Provision

`serve` and one verb at a time share the directory. `resident` says whether the box has a
`serve` or a host side. The initial states are a box without a configuration and without markers,
whose storage is empty, holds a repository from an earlier box (the owner has its key), or holds
this box's own (the data disk with the minted password was kept). A password may have been minted
and not be used yet.

`Connect` (`CheckConfig`, `ConnectRepo`, `CreateRepo`, `BlankConnected`: the look at the configuration
is a step before kopia's connect, and what was seen may have changed by then) is the same code for `serve`'s look and
for the verb; `Answer` is what the two make of its errors. A host side (`HostRuns`) runs `connect`
where the box has a password and `probe` where it has none, again and again until the box is
configured or marked, and marks the box for what they answer (`HostMarks`): `needs-recovery` for a
repository the box has no key for, `needs-secret` for an empty storage. The host side is not in this
repository, and both are external in the map: what it does is read off the documented exit codes
and off the markers the code finds. `init` is typed only where `needs-secret` is there, `recover`
also where it is not called for any more.

`repository.config` is `none`, `raw` (with the credentials kopia persisted), `blanked`, or
`torn` (the write in place of `blankPersistedCredentials` stopped half way, so that
`readConfig` fails). A call that ends with the context is an error even if kopia had finished
(`run.go:232-234`): outcome `cancelled` with the effect. A create may leave a repository
without having written the configuration. `RestartServe` is a crash or a stop of the container
at any point of a look; `Tick` is the poll, whose timing is the module `Serve`. It ends every process in the
container; `KillVerb` ends the verb alone.

The kopia of a killed verb goes on. `stray` holds the connects and creates that are still to come into
force (`Call` is what the verb had asked for), `StrayGoes` is one of them doing so, or giving up, and
`late` says that one has connected. A call that the storage refuses changes nothing and leaves no stray.
A create that is late makes the repository and then connects. `MaxStrays` bounds how many there are at a
time. A late connect writes the identity its verb had read, so it is the one exception of `LineageOnce`;
the keys are safe from it and `PasswordOpens` holds too: on a box that is not marked, no verb but one with
the password on the disk, or with none there, can have left a kopia whose key the repository opens
(`Strayed`, proved).

### Backup

`snaps` holds the snapshots of one source. A snapshot's place in time and its pin are its id,
because pinning rewrites the manifest under a new id (`recover.go:235-241`): a list taken
before a pin names snapshots that are not found any more. Three verbs may run at once, each a
loop over a list it took earlier: Maison's job (`snapshot`, `snapshot`, `commit`, or `abort`
when one failed), a delete asked for by the owner, and the pinning at the end of a recover. A
recover's box counts as configured from the moment its key is promoted, so a backup may start
while it pins. A create applies the retention: anything not pinned and not among the newest
`latest` may go; whether another tier keeps it is left open.

A call that fails has ended: `run` waits for its kopia, and kills it when the context ends, so a
failed create has saved its manifest by then or never will. A killed adapter is different
(`KillJob`): its kopia is reparented and goes on. `orphans` are the snapshots still being taken that
way; `OrphanEnds` saves one, with the retention that goes with it, or loses it. A snapshot's place in
time is when it was begun (`StartTime`), and that is the order of kopia's list. `strayRules` are the
policy calls, and `OrphanSets` one of them coming into force, perhaps in the next backup; `upset`
says that it did since the rules were last cleared, and a snapshot keeps it as a tag of its history.
`abort` may answer nil without having looked (`snapshot.go:156-158`, a box whose key cannot be read):
`cleaned` records for each answer whether it had a list, and `missed`, the places of the snapshots of
its stamp that an orphan was taking while it listed. The orphans of deletions, pins and
`ensure-retention` are left out: one such call is over in a request or two, and what it does late is
what another verb may do then, too: an owner's delete, `PinNext`, `EnsureRetention`.

Faults are counted here instead of ended by a calm: `MaxFaults` calls fail or verbs are
killed in one behaviour.

### Restore

One verb at a time (`materialize`, `restore-in-place`, `entries`) beside a repository that
changes under it. `Resolve` is `snapshotID`: the first snapshot of the source's list that
carries the stamp and is no first pass; from there on the verb has an id and no snapshot. An id
is a place in time and a version, because a pin gives the snapshot a new one (`IdOf`); `Finds`
says whether kopia still knows it. A restore by entries is one `Ls`, one `Select` (every name is
looked up before the first is restored) and one `RestoreEntry` per name. `dest` tells for each
top-level member where its content comes from: `{0}` is what the box had, `{i}` the i-th
snapshot, and `{0, i}` a merge. A restore that fails or is killed leaves any of the members it is about
old, new or merged (`Between`). A restore in place that is killed may leave its kopia at work (`KillOrphaning`): `stray` is what that may
still write, member by member (`OrphanWrites`), and `stirred` that it did since the verb that runs now
began. A `materialize` has a directory of its own that its caller throws away, so nothing is left to
stir. Snapshots of other tools (a tag that is no app's name, no tag at
all) and first passes are in the repository too. `sourceTag` and `sourceIDFor` are each
other's inverse on the valid ids; `ListedRestorable` needs more, that an id made from any tag is
checked.

The names `kopia ls -l` prints are taken for the members themselves; `splitList`, which drops
blank names, comes before `Ask`. So `--entries ","` is, in the code and in the model, a restore
without `--entries`: of the whole destination.

### Serve

The loop of `Serve` with `due`, `done`, `wait` and the timer (`left`, in ticks of the poll). A
look is one action when it needs no kopia, and otherwise `LookConnects`, the child's exit and
`CallEnds`: what happens in it step by step is `Provision`'s `Bootstrap`. `chan` is the channel
of capacity 1 that `signal.Notify` writes to without blocking, `orphans` and `zombies` the
children that PID 1 inherits, and `own` the kopia of the look, which `reap`'s `wait4(-1)` could
take too (`stolen`). Time passes only while serve has nothing to do but wait (`WaitTick`) or its
kopia runs (`CallTick`). The kopia calls of a look take at most `CallMax`: an assumption, because
serve gives them no deadline. `age`, `restarts`, `quiet` and `fails` are history for the
properties.

### Run

`kopia.run` and the answer of the verb after it: kopia writes to two bounded pipes, `main` is
the goroutine that copies stdout and then waits for the other (`join`) and for the child
(`wait`), `scan` the goroutine that reads stderr into `lastLines` (`buf`, `n`) and emits
progress. `0` in the pipe of stderr is a line over the scanner's 1 MiB: the scan ends with the
rest unread (`gaveUp`). `Cancel` is a signal or the deadline of `--timeout`; `Killed` is what
`exec.CommandContext` then does. kopia may exit before it has written everything, or hang. One
run stands for the last one of a verb; what earlier runs of the verb emitted came before it.
`KopiaCall` is what the caller sees of it: kopia runs or it does not, its work may be cut short, and
one answer comes when it is gone. That `Run` implements it (`CallPromised`) is what lets the other
modules take a call of kopia for a step. The
environment and arguments of the child, and what a progress line says, are left out.

## What TLC checks

| Run | Checks | Bounds |
|---|---|---|
| `KeyChange` | `TypeOK`, `OkMeansChanged`, `WrongMeansUnchanged`, `KeyKept`, refinement of `KeyCustody`, `ChangeSettles` | 2 processes, 3 keys |
| `KeyChangeWild` | `LockHeld`, `ChangeAnswers` with retries and orphans | 2 processes, 2 keys |
| `Provision` | `TypeOK`, `KeySafe`, `PasswordOpens`, `OkMeansOpened`, `LineageOnce`, `Provisioned`, `RecoverEnds` | 2 minted, 2 owner's keys, 2 identities, 1 late kopia at a time |
| `Backup` | `TypeOK`, `RulesExact`, `AbortClean`, `PinHonest`, `CommitHonest`, `CommittedKept`, `FloorEnough`, `VerbsEnd` | 2 backups, 1 fault, 1 request, 1 pattern |
| `Restore` | `TypeOK`, `Faithful`, `RefusedUntouched`, `ListedRestorable`, `OnlyNamed` | 2 snapshots of 6 shapes, 2 verbs, 2 members, 1 fault |
| `Serve` | `TypeOK`, `BackedOff`, `PickedUp`, `StatusKept`, `OrphansReaped`, `ServeStops` | poll 1, cap 5, calls up to 2 ticks, 3 orphans |
| `Run` | `TypeOK`, `OutputWhole`, `TailLast`, refinement of `KopiaCall`, `CancelEnds`, `RunEnds` | pipes of 2, 3 chunks, 5 lines, a ring of 2 |

Why the bounds are enough. A change concerns at most the key of the repository, the one in
`.password` and the one in `.next`; a third key makes all three differ, and a second process is
one that settles while another changes (three processes were also run: 102,690 states, nothing
new; the safety part is proved for every number). In `Provision` two minted keys tell the kept
from the new one, and two owner's keys the right from the wrong (758,796 states, two and a half minutes); the
proofs have any number of late kopias. In `Backup` the second backup is the one
that retention makes room for; the safety properties were also run with two faults (3.6 million states, nothing new), and
`MaxFaults = 1` keeps the run short. `Inherited = 6` stands for kopia's own `--keep-latest`,
more than the run ever takes. In `Restore` two snapshots are the asked one and the one it may be
taken for (the other pass, the other source, the later one), and a second verb starts on what the
first left, or beside the kopia the first left; of the two members one may be named and the other
not, and one may be the box's only (2.6 million states). In `Serve` the backoff goes 1, 2, 4, 5, so that the cap is not a power of two of the poll;
the proofs hold for every value. In `Run` each output is longer than its pipe, so that kopia blocks,
and the lines go more than twice round the ring of 2 (8 in the code).

`CHECK_DEADLOCK FALSE` is set for all but the runs of `KeyChange`: a provisioned box rests, and so does a
repository when nothing is asked of it; a run that has answered and a serve that was stopped are
over. `KeyChange` never stops: `status` is polled.

The other runs each show something a comment or a document says and the code does not do; each
checks one property and TLC finds it violated.

| Run | Says | Does |
|---|---|---|
| `GivesUpTheKey` | "neither does the new one: nothing was changed" (`changepw.go:190-192`) | an outage at the second question counts as "neither": a repeated change drops the only key |
| `KeyLostByOrphan` | the lock keeps a probe from deleting "the only copy of the key kopia is about to require" (`changepw.go:20-24`) | the lock dies with the adapter, the kopia child does not |
| `MarkerOnGuess` | `ErrRepositoryExists` is for a repository "this box has no password for" (`repo.go:166-167`) | a connect that failed in passing ends there too |
| `CredentialsStay` | credentials "must not be persisted into the config" (`docs/kopia-mapping.md:120`) | a crash between connect and blanking leaves them for good |
| `TornKept` | a floor of 2 keeps retention from evicting "the consistent snapshot in favour of the torn one" (`policy.go:22-25`) | not if a torn one was left behind, and nothing sweeps it (`snapshot.go:122`) |

Further differences that were met while modelling and that no run is spent on:

* `init.go:167-170`: a failure before the key is promoted undoes the connect. A failure of the
  create itself returns at once (`init.go:160`), and `run` answers an error whenever the context has
  ended, also if kopia had finished (`run.go:232-234`): the configuration stays without a password.
  The comment says that the next attempt "answers 13 and goes through `recover`"; it answers "already
  connected" (`init.go:148`), and so does `recover`, which refuses a readable configuration without the
  marker (`recover.go:127`). `Provision` has the behaviour, and none of its properties speaks of that box:
  `RecoverEnds` begins with a marker.
* `repo.go:159`: "Identity is written exactly ONCE". A `connect` or `recover` that is killed leaves its kopia
  at work (`main.go:318-320`), which writes the configuration anew whenever it is done, with the identity
  its verb had read: `late` in `LineageOnce`.
* `snapshot.go:148-149`: an aborted backup leaves nothing that a later list could offer. The kopia of a killed
  `snapshot` may save the second pass after the abort has looked (`missed` in `AbortClean`), and an abort on a
  box whose key cannot be read answers nil without looking (`looked`). Likewise the rules of a killed
  job's policy call may come into force in the next backup (`upset` in `RulesExact`), and a killed restore
  may still write into the directory that the next one restores to (`stirred` in `Faithful`).
* `docs/protocol.md:347-348`, `snapshot.go:75-76`: an interrupted `snapshot` leaves nothing that `list` would
  return. `List` filters on the pass only (`snapshot.go:190`), so a second pass is listed before its
  commit. `Backup` has the behaviour.
* `serve.go:55-56`: a corrected file "is picked up the same hour". Every child signal starts the
  timer anew (`serve.go:94, 107-109`), so the bound is one backoff longer for each (`PickedUp`): four orphans in
  an hour, each a little less than 15 minutes after the last, put the look off past it.
* `main.go:46-47`: on a signal "the process exits non-zero". `commit` goes on after a deletion that
  failed because the context ended (`snapshot.go:135-138`), `pinAll` after a batch, and `status` and `capabilities`
  report what they have: these answer 0.
* The exit codes 11 and 12 are defined (`exit.go`) and no code produces them.

### Fairness

* A process that can take a step takes it, and kopia answers (`WF` per process): the operating
  system schedules, and `run` waits for its child. That every kopia ends is an assumption. Where it does
  not, a verb goes on until its `--timeout`, and `ChangeAnswers` does not cover a change that waits for
  a holder whose kopia hangs. The kopia of a killed verb need not ever end (no fairness on `OrphanEnds`,
  `OrphanSets`, `StrayGoes` and `OrphanWrites`).
* `WF(CalmDown)`: outages and kills end. Without it nothing is ever settled. It restricts
  liveness only; safety is checked with failures at every point.
* `KeyChange`: a settling verb is started again and again (`WF(∃p : Settle(p))`): Maison polls
  `status`. `SF(WaitLock)`: Linux wakes a `flock` waiter at each release, and the settling
  verbs, which only try the lock, do not have it at every moment.
* `Provision`: `WF(RestartServe)`: the container's restart policy. `WF(HostRuns)` and
  `WF(HostMarks)`: a host side runs its script again and acts on what it is answered. `SF(TypeRightKey)`: the
  owner enters the right key again as long as the box asks for it and the verb is free.
  `RecoverEnds` needs that and nothing more: how often an earlier attempt was cut short does
  not matter.
* `Backup`: each verb that runs goes on; nobody has to ask for one.
* `Serve`: the loop runs (`WF(Main)`), its timer goes on, and kopia ends. `SF(Stopped)` and
  `SF(ChildSignal)`: Go's `select` picks at random among the branches that are ready, so a
  branch that is ready time and again is taken.
* `Run`: the two goroutines are scheduled, a kill arrives, and kopia goes on with its work as
  long as it has not hung. `RunEnds` leaves out a kopia that hangs and a scanner that gave up:
  there `run` waits until it is cancelled, and `CancelEnds` says that this is enough.

## What is proved

`KeyChangeProofs`, for every set of processes and keys:

* `TypeCorrect` and `LockAlwaysHeld`, whatever `Retry` and `Orphans` are. The invariant is
  `Base`: the types, the lock, where a child and a key that was read can be (`Places`), and
  that one `change-secret` runs at a time (`OneChange`). Neither `TypeOK` nor `LockHeld` is
  inductive alone: that `promote` installs a key needs `got[p]` to be one, which
  `ReadSecret`'s refusal of an empty file and `TryCurrent`'s test give. A process acts on
  `.next` only after it took the lock, and only the holder lets it go.
* `Refinement` (`Spec => CustodyKept`) and from it `KeyNeverLost` (`Spec => KeyKept`), under
  `Retry = FALSE` and `Orphans = FALSE`. The invariant adds `Known`: what a settling process
  read is what `.next` holds while it has the lock, and a child was started with the key in
  `.password` and writes the one in `.next`; and `NotTheOnly`: where a process is about to remove
  `.next`, the repository does not ask for the key in it unless `.password` holds it too. Each step
  of `KeyChange` is then an `Offer`, a `Rekey`, a `Forget` or a stutter of `KeyCustody`, and custody
  alone gives the action property.
* `LostOnlyWhereGivenUp` (`Spec => GivenUpOnly`), with `Retry` left open. `Known` does not need
  that nobody retries, and without `NotTheOnly` one step is left that need not be one of
  `KeyCustody`: the removal of `.next` by a `change-secret` that does not answer 0.
* `OkAlwaysChanged` and `WrongAlwaysUnchanged`: what the exit codes 0 and 14 mean. `Answered` and
  `Refusals` carry them from where a result is chosen to the exit: the lock is kept between, so nobody
  else changes either key, and a refused process that promotes `.next` all the same installs the key
  the box has already, by `NotTheOnly`. So 14 needs both assumptions; 0 needs only `Orphans = FALSE`.
* `AlwaysEndsSettled`, with `Retry` left open: when nothing fails any more, who had the lock, or found no
  `.next`, ends with the repository's key in `.password` and `.next` gone; the giving up after a retry is
  the one exception. It needs `Doubted` beside `Known`: the key of `.next` is asked for only after the
  current one was refused, and nobody changes either meanwhile.
* `NobodyEverStuck` and `VerbsAreFinite`, whatever `Retry` and `Orphans` are. A verb at work can take
  a step (`Able`), or waits for the lock while its holder can: the lock is never left to a process
  that is gone. And what a process and its child have still to do (`Left`) is a natural number that
  their steps lower and that no other process raises.

The proofs rest on `KeyChangeAssumption`: the four special values are no keys and no
processes. TLC evaluates it in every run.

`ProvisionProofs`, for any number of keys and identities: `TypeCorrect`, `KeyAlwaysSafe`,
`PasswordAlwaysOpens` and `LineageWrittenOnce`. `KeySafe` is not inductive: that `Unmint` may remove
a password needs that one minted in this look does not open the repository there is (`MintedNow`),
which holds because the only create with it ends the look; and that `promote` may replace one needs
that the repository's key is then the owner's (`OwnersNow`). `PasswordOpens` is part of the
invariant, but needs to know who may write a configuration beside a password: `serve` and the verbs of a host side are never on one box (`OneSide`, `Places`); a look past
the marker is a look at a box without one, and a look that creates or gives up found no configuration
(`Looking`); a recover works where the box waits for it or where the configuration cannot be read
(`Recovering`), and has the box to itself where a look found none (`Alone`); what a connect found before its
kopia began is so still, unless a stray connected (`Since`); what strays have yet to do is right when they do it
(`Strayed`); an owner chooses a key only where there is no password (`Choosing`); a configuration
has a repository behind it (`Configured`); and on a box with a `serve` its password does not go again
(`Kept`). `LineageOnce` follows from the same, by `Since`. All rest on
`ProvisionAssumption`: the minted keys are not the owner's, and `None` is neither.

`ProvisionAnswers` adds `Answers` to that invariant: a configuration a typed verb works on stays until
the verb is done (`Installed`), a look that comes to its connect has a password and no recover is at
work beside a look that connected (`LookHas`), and a host's `connect` starts with a password and over
nothing (`HostHas`). From it follow `OkAlwaysOpened`, what exit code 0 of `init` and `recover` means,
and what is left of liveness when nothing fails any more (`calm`): the right key typed on a marked
box is taken (`RightKeyAlwaysTaken`), a look is put off only by a torn configuration
(`LookAlwaysSettles`), and `connect` and `probe` give the host side an answer it can act on
(`HostAlwaysSettles`).

`BackupProofs`, for any number of backups, faults and requests, any patterns and any `--keep-latest`:
every safety property of the run, `TypeCorrect`, `RulesAlwaysExact`, `AbortAlwaysClean`,
`PinAlwaysHonest`, `CommitAlwaysHonest`, `CommittedAlwaysKept` and `FloorAlwaysEnough`. A verb's list
goes stale while it works, so its invariants are about what is still true of a stale list: while no
deletion of an abort has failed, each snapshot of the stamp is in its list or is the pinned form of
one that is (`Deleting`, by `Kin`); a commit's candidate is there under its old id or its pinned one
unless it was asked away (`Committing`). `Clock` bounds how many snapshots a backup takes and says
that no two have one place in time, `Fresh` that a backup that is taken has a stamp nobody has asked
to delete, `Policy` that the rules are in place when a snapshot is taken, unless they are `upset`. For the
orphans, `Straying` says that each was begun under the rules of its backup, and was in sight (`missed`) of
every abort of its stamp that looked; `Newest` that a commit's snapshot is the last that was begun, so
that an orphan that saves an older one cannot make retention take it. The theorems have the exceptions
of the properties and no more: `AbortAlwaysClean` speaks of an abort that had a list, and of what no
orphan was taking when it got it. Retention needs `Undone` too: a
backup that is not over has no answer yet. That a list has an oldest and a newest snapshot follows
from the well-founded order of the naturals, and that the repository is finite from the places in
time, which are one for each snapshot. `VerbsRunOut` says that no verb goes on for ever: each list is
finite, each of its steps takes something off what a verb has to do (`Nearer`), and no other verb gives it
more. All rest on `BackupAssumption`.

`RunProofs`, for pipes, outputs and tails of any length: `TypeCorrect`, `OutputIsWhole`,
`ChildIsGone` and `ResultIsLast`, from `Flow` (what was written is in the pipe or read) and
`Order` (what has ended when the main goroutine is at each place); and `TailIsLast`, from
`Lines` (the pipe holds the last lines written) and `Ring` (each of the last `Places` lines is in
its own place, `OwnPlaces`). `RunIsACall` maps each step of `Run` to one of `KopiaCall` or a stutter.
`RunIsFinite` gives a number that every step lowers, and `RunNeverStuck` says that until the answer is
given somebody can go on, unless kopia hangs or its stderr was given up and nobody has cancelled. All
rest on `RunAssumption`: a pipe and a ring hold something.

`RestoreProofs`, for any sources, stamps, names, lists of entries and shapes of snapshots, and
any number of snapshots, verbs and faults: `TypeCorrect`, `AlwaysFaithful`, `RefusedAlwaysUntouched`,
`ListedAlwaysRestorable` and `OnlyNamedTouched`. `Faithful` speaks of the end of a verb; what makes it
inductive is that the resolved id names a snapshot of the asked source and stamp and no first pass,
which no later pin or delete changes, and that every entry not in `todo` any more is that
snapshot's. An orphan's write sets `stirred`, and the invariant keeps what it may have touched out of its
claims; that a `materialize` has none beside it is part of `Untouched`. It rests on `RestoreAssumption`: the reserved tag and the empty one are no names of
apps.

`ServeProofs`, for any poll, cap, length of a call and number of orphans: `TypeCorrect`,
`PickedUpInTime`, `StatusAlwaysKept`, `LooksBackOff` and `SignalAlwaysStands`. `PickedUp` needs where the
loop is: from `top` a whole backoff may still come, in a look only its calls have passed (`Timing`), and
that a kopia of serve's is there only in a look (`OwnChild`). `BackedOff` compares `wait`, which the code
doubles (`serve.go:81-87`), with a power of two. The library's induction takes an operator as a parameter, so
that the power is what its recursion says (`DoublesExist`) and that the backoff grows (`BackoffGrows`) is
proved from the least counterexample of a set of naturals (`Least`). `SignalStands` is the part of
`OrphansReaped` without fairness: while an orphan waits to be collected, a signal is in the channel or
serve is collecting, though most signals are dropped.

Only model-checked: liveness, which needs fairness and ENABLED. The theorems give its safety half
where there is one to say:

| Model-checked | Proved of it |
|---|---|
| `ChangeSettles` | `AlwaysEndsSettled`, `VerbsAreFinite` |
| `ChangeAnswers` | `NobodyEverStuck`, `VerbsAreFinite` |
| `RecoverEnds`, `Provisioned` | `RightKeyAlwaysTaken`, `LookAlwaysSettles`, `HostAlwaysSettles` |
| `VerbsEnd` | `VerbsRunOut` |
| `RunEnds`, `CancelEnds` | `RunIsFinite`, `RunNeverStuck` |
| `OrphansReaped` | `SignalAlwaysStands` |
| `ServeStops` | nothing |

Every other property of a passing run is a theorem. `GivenUpOnly`, `NobodyStuck`, `EndsSettled`, the measures,
`SignalStands` and the other statements of `ProvisionAnswers` are no properties of a run: they are proved for
every value of the constants, those of the runs included.

## What is not modelled

kopia itself: its effect is taken from how the code uses it and from `docs/kopia-mapping.md`,
and the definitions concerned are marked external.

`Status`, `Caps` and `Prepare` change nothing on the box but by settling, which `KeyChange` has; what
they answer is read from the files one after the other. `storageArgs`, `endpointHost`, `connectOpts`,
`parseKeep`, `splitList` and the parsing of progress lines (`progress.go`) are functions of strings
with one caller each. Flag parsing has no state, and `CodeFor` maps one error to one number. The
content of the descriptor is left out of `Provision`. The Dockerfile and the workflow have no
behaviour.

## The plan

Done: `KeyChange`, `Provision`, `Backup`, `Run`, `Restore` and `Serve`, each with its proofs. What is left:

1. The safety half of `ServeStops`: what a cancelled `serve` still does.
2. `Status` as a reader of several files beside the verbs that change them.
3. `Provision` and `KeyChange` over one directory: a `change-secret` beside a `recover`, which share
   `repository.password` and no lock.
4. A way out of the box that a cancelled `init` leaves (configured, without a password or a marker), as a
   liveness property, should the code get one.
