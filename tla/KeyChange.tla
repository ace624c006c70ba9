------------------------------ MODULE KeyChange ------------------------------
(***************************************************************************)
(* The replacement of the repository's key: `change-secret`, and the       *)
(* settling of an interrupted one that every other verb begins with        *)
(* (src/internal/kopia/changepw.go).  Each verb is an operating-system     *)
(* process of its own; they share the repository directory (the files      *)
(* repository.password and repository.password.next, the flock on          *)
(* .secret.lock) and the repository in the storage, which only the kopia   *)
(* child of `repository change-password` rewrites.                         *)
(*                                                                         *)
(* A process may be killed between any two steps, and any call may fail,   *)
(* until the environment becomes calm.                                     *)
(***************************************************************************)
CONSTANTS
    Procs,      \* the adapter processes that may be running at once
    Keys,       \* repository keys
    NoKey,      \* no such file
    Blank,      \* a file that holds no key once it is trimmed
    NoProc,     \* nobody has the lock
    Retry,      \* may the caller run change-secret again on a .next that was left behind?
    Orphans     \* does a kopia child outlive the adapter process that started it?

ASSUME KeyChangeAssumption ==
    /\ NoKey \notin Keys
    /\ Blank \notin Keys
    /\ NoKey # Blank
    /\ NoProc \notin Procs
    /\ Retry \in BOOLEAN
    /\ Orphans \in BOOLEAN

VARIABLES
    repoKey,    \* the key the repository asks for
    password,   \* the content of repository.password
    next,       \* the content of repository.password.next
    lock,       \* the process that has .secret.lock
    pc,         \* where each process is
    verb,       \* what it runs: a change-secret, or a verb that settles first
    got,        \* its `next`: the key it read from .next
    cur,        \* the key its kopia child was started with
    kid,        \* its `kopia repository change-password` child
    refused,    \* the processes whose child answered "invalid repository password"
    result,     \* what change-secret returns
    calm        \* no call fails and nothing is killed any more

repository == <<repoKey>>
files == <<password, next>>
locals == <<verb, got, cur, refused, result>>
vars == <<repoKey, password, next, lock, pc, verb, got, cur, kid, refused,
          result, calm>>

-----------------------------------------------------------------------------

Settling == {"readNext", "tryCurrent", "dropStale", "tryNext", "promoteNext",
             "dropPromoted"}
Changing == {"waitLock", "readSecret", "check", "change", "promote", "drop"}
Labels == Settling \cup Changing \cup {"idle", "stat", "tryLock", "exit"}

(* The exit codes of change-secret: 0, 14, 10 and 1. *)
Results == {"none", "ok", "wrongPassword", "notConfigured", "error"}

TypeOK ==
    /\ repoKey \in Keys
    /\ password \in Keys
    /\ next \in Keys \cup {NoKey, Blank}
    /\ lock \in Procs \cup {NoProc}
    /\ pc \in [Procs -> Labels]
    /\ verb \in [Procs -> {"none", "settle", "change"}]
    /\ got \in [Procs -> Keys \cup {NoKey, Blank}]
    /\ cur \in [Procs -> Keys \cup {NoKey}]
    /\ kid \in [Procs -> {"none", "opening", "writing", "written", "refused"}]
    /\ refused \subseteq Procs
    /\ result \in [Procs -> Results]
    /\ calm \in BOOLEAN

(* A box with a repository, and at rest.  That its password opens the      *)
(* repository is not assumed.                                              *)
Init ==
    /\ repoKey \in Keys
    /\ password \in Keys
    /\ next = NoKey
    /\ lock = NoProc
    /\ pc = [p \in Procs |-> "idle"]
    /\ verb = [p \in Procs |-> "none"]
    /\ got = [p \in Procs |-> NoKey]
    /\ cur = [p \in Procs |-> NoKey]
    /\ kid = [p \in Procs |-> "none"]
    /\ refused = {}
    /\ result = [p \in Procs |-> "none"]
    /\ calm = FALSE

-----------------------------------------------------------------------------
(* Building blocks.                                                        *)

GoTo(p, there) == pc' = [pc EXCEPT ![p] = there]

(* change-secret ends with this result, once the process reaches "exit". *)
Return(p, r) == result' = [result EXCEPT ![p] = r]

Fails == ~calm

(* removeNext: a failure to remove the file is logged and nothing else. *)
RemoveNext ==
    \/ next' = NoKey
    \/ Fails /\ UNCHANGED next

(* promote, when it returns nil: the rename put the key in place. *)
PromoteOK(p) == password' = got[p]

(* promote, when it returns an error: the key was not installed, or it was *)
(* and only the ownership of repository.config could not be set.           *)
PromoteFails(p) == Fails /\ password' \in {password, got[p]}

(* Mutant: change-secret gives .next up whenever kopia failed. *)
UnsettledEager(p) ==
    IF verb[p] = "change"
    THEN GoTo(p, "drop") /\ Return(p, "error")
    ELSE GoTo(p, "exit") /\ Return(p, "none")

(* What settleLocked's caller does with an outcome that leaves .next: a    *)
(* settling verb ignores it; change-secret gives .next up if its own kopia *)
(* child was refused, and keeps it otherwise.                              *)
Unsettled(p) ==
    IF verb[p] = "change" /\ p \in refused
    THEN GoTo(p, "drop") /\ Return(p, "wrongPassword")
    ELSE /\ GoTo(p, "exit")
         /\ Return(p, IF verb[p] = "change" THEN "error" ELSE "none")

-----------------------------------------------------------------------------
(* The caller.                                                             *)

NoChange == \A p \in Procs : verb[p] # "change"

Start(p, v, there) ==
    /\ pc[p] = "idle"
    /\ kid[p] = "none"
    /\ verb' = [verb EXCEPT ![p] = v]
    /\ GoTo(p, there)

(* Maison writes a replacement key and runs change-secret.  It writes .next *)
(* only where there is none, runs one change-secret at a time, and mints    *)
(* its keys: a replacement is the repository's key only if it is also the   *)
(* box's.                                                                   *)
Request(p, k) ==
    /\ NoChange
    /\ next = NoKey
    /\ k = repoKey => k = password
    /\ next' = k
    /\ Start(p, "change", "waitLock")
    /\ UNCHANGED <<repoKey, password, lock, got, cur, kid, refused, result, calm>>

(* The caller runs change-secret without having written .next for it: none *)
(* is there, or the one of an earlier attempt is.                          *)
Rerun(p) ==
    /\ NoChange
    /\ Retry \/ next = NoKey
    /\ Start(p, "change", "waitLock")
    /\ UNCHANGED <<repoKey, password, next, lock, got, cur, kid, refused, result, calm>>

(* Any verb that opens the repository begins with SettleNext. *)
Settle(p) ==
    /\ Start(p, "settle", "stat")
    /\ UNCHANGED <<repoKey, password, next, lock, got, cur, kid, refused, result, calm>>

-----------------------------------------------------------------------------
(* SettleNext and settleLocked.                                            *)

Stat(p) ==
    /\ pc[p] = "stat"
    /\ GoTo(p, IF next = NoKey THEN "exit" ELSE "tryLock")
    /\ UNCHANGED <<repository, files, lock, locals, kid, calm>>

(* Mutant: a busy lock does not keep a verb from settling. *)
TryLockRegardless(p) ==
    /\ pc[p] = "tryLock"
    /\ lock' = p
    /\ GoTo(p, "readNext")
    /\ UNCHANGED <<repository, files, locals, kid, calm>>

(* lockSecret(false): a busy lock, or an error, ends the settling. *)
TryLock(p) ==
    /\ pc[p] = "tryLock"
    /\ \/ lock = NoProc /\ lock' = p /\ GoTo(p, "readNext")
       \/ (lock # NoProc \/ Fails) /\ GoTo(p, "exit") /\ UNCHANGED lock
    /\ UNCHANGED <<repository, files, locals, kid, calm>>

ReadNext(p) ==
    /\ pc[p] = "readNext"
    /\ \/ /\ next # NoKey
          /\ got' = [got EXCEPT ![p] = next]
          /\ GoTo(p, "tryCurrent")
          /\ UNCHANGED result
       \/ /\ next = NoKey \/ Fails
          /\ Unsettled(p)
          /\ UNCHANGED got
    /\ UNCHANGED <<repository, files, lock, verb, cur, kid, refused, calm>>

(* `repository status` with repository.password, read afresh. *)
TryCurrent(p) ==
    /\ pc[p] = "tryCurrent"
    /\ \/ password = repoKey /\ GoTo(p, "dropStale") /\ UNCHANGED result
       \/ password # repoKey /\ got[p] # Blank /\ GoTo(p, "tryNext") /\ UNCHANGED result
       \/ (Fails \/ (password # repoKey /\ got[p] = Blank)) /\ Unsettled(p)
    /\ UNCHANGED <<repository, files, lock, verb, got, cur, kid, refused, calm>>

(* The current key opens the repository: the change never happened. *)
DropStale(p) ==
    /\ pc[p] = "dropStale"
    /\ RemoveNext
    /\ GoTo(p, "exit")
    /\ Return(p, IF verb[p] = "settle" THEN "none"
                 ELSE IF p \in refused THEN "wrongPassword" ELSE "error")
    /\ UNCHANGED <<repository, password, lock, verb, got, cur, kid, refused, calm>>

(* Mutant: a refused current key is taken for proof of the new one. *)
TryNextTrusting(p) ==
    /\ pc[p] = "tryNext"
    /\ GoTo(p, "promoteNext")
    /\ UNCHANGED <<repository, files, lock, locals, kid, calm>>

(* Mutant: only change-secret itself completes a change. *)
TryNextOnlyChange(p) ==
    /\ pc[p] = "tryNext"
    /\ IF verb[p] = "change" /\ got[p] = repoKey
       THEN GoTo(p, "promoteNext") /\ UNCHANGED result
       ELSE Unsettled(p)
    /\ UNCHANGED <<repository, files, lock, verb, got, cur, kid, refused, calm>>

(* `repository status` with the key of .next. *)
TryNext(p) ==
    /\ pc[p] = "tryNext"
    /\ \/ got[p] = repoKey /\ GoTo(p, "promoteNext") /\ UNCHANGED result
       \/ (got[p] # repoKey \/ Fails) /\ Unsettled(p)
    /\ UNCHANGED <<repository, files, lock, verb, got, cur, kid, refused, calm>>

(* Mutant: a promote that failed is logged, and .next goes all the same. *)
PromoteNextHasty(p) ==
    /\ pc[p] = "promoteNext"
    /\ PromoteOK(p) \/ PromoteFails(p)
    /\ GoTo(p, "dropPromoted")
    /\ UNCHANGED <<repository, next, lock, locals, kid, calm>>

PromoteNext(p) ==
    /\ pc[p] = "promoteNext"
    /\ \/ PromoteOK(p) /\ GoTo(p, "dropPromoted") /\ UNCHANGED result
       \/ PromoteFails(p) /\ Unsettled(p)
    /\ UNCHANGED <<repository, next, lock, verb, got, cur, kid, refused, calm>>

DropPromoted(p) ==
    /\ pc[p] = "dropPromoted"
    /\ RemoveNext
    /\ GoTo(p, "exit")
    /\ Return(p, IF verb[p] = "change" THEN "ok" ELSE "none")
    /\ UNCHANGED <<repository, password, lock, verb, got, cur, kid, refused, calm>>

-----------------------------------------------------------------------------
(* ChangeSecret.                                                           *)

(* lockSecret(true) waits for whoever has the lock. *)
WaitLock(p) ==
    /\ pc[p] = "waitLock"
    /\ \/ lock = NoProc /\ lock' = p /\ GoTo(p, "readSecret") /\ UNCHANGED result
       \/ Fails /\ GoTo(p, "exit") /\ Return(p, "error") /\ UNCHANGED lock
    /\ UNCHANGED <<repository, files, verb, got, cur, kid, refused, calm>>

(* Mutant: an empty key is not told from a key. *)
ReadSecretUnchecked(p) ==
    /\ pc[p] = "readSecret"
    /\ \/ next # NoKey /\ GoTo(p, "check") /\ got' = [got EXCEPT ![p] = next] /\ UNCHANGED result
       \/ next = NoKey /\ GoTo(p, "exit") /\ Return(p, "notConfigured") /\ UNCHANGED got
    /\ UNCHANGED <<repository, files, lock, verb, cur, kid, refused, calm>>

ReadSecret(p) ==
    /\ pc[p] = "readSecret"
    /\ \/ next \in Keys /\ GoTo(p, "check") /\ got' = [got EXCEPT ![p] = next] /\ UNCHANGED result
       \/ next = Blank /\ GoTo(p, "drop") /\ Return(p, "wrongPassword") /\ UNCHANGED got
       \/ next = NoKey /\ GoTo(p, "exit") /\ Return(p, "notConfigured") /\ UNCHANGED got
       \/ Fails /\ GoTo(p, "exit") /\ Return(p, "error") /\ UNCHANGED got
    /\ UNCHANGED <<repository, files, lock, verb, cur, kid, refused, calm>>

(* The box must have a key to change from.  Whether it waits for recovery  *)
(* or has lost its configuration is not this module's state: either answer *)
(* is possible while anything may fail.                                    *)
Check(p) ==
    /\ pc[p] = "check"
    /\ \/ Fails /\ GoTo(p, "drop") /\ Return(p, "notConfigured") /\ UNCHANGED <<cur, kid>>
       \/ Fails /\ GoTo(p, "drop") /\ Return(p, "error") /\ UNCHANGED <<cur, kid>>
       \/ got[p] = password /\ GoTo(p, "drop") /\ Return(p, "ok") /\ UNCHANGED <<cur, kid>>
       \/ /\ got[p] # password
          /\ cur' = [cur EXCEPT ![p] = password]
          /\ kid' = [kid EXCEPT ![p] = "opening"]
          /\ GoTo(p, "change")
          /\ UNCHANGED result
    /\ UNCHANGED <<repository, files, lock, verb, got, refused, calm>>

(* runChangePassword returns. *)
Change(p) ==
    /\ pc[p] = "change"
    /\ \/ kid[p] = "written" /\ GoTo(p, "promote") /\ UNCHANGED refused
       \/ /\ kid[p] = "refused"
          /\ refused' = refused \cup {p}
          /\ GoTo(p, "readNext")
       \* kopia failed in another way, or the context ended and killed it.
       \/ Fails /\ GoTo(p, "readNext") /\ UNCHANGED refused
    /\ kid' = [kid EXCEPT ![p] = "none"]
    /\ UNCHANGED <<repository, files, lock, verb, got, cur, result, calm>>

(* Mutant: a promote that failed is reported as a success. *)
PromoteUnchecked(p) ==
    /\ pc[p] = "promote"
    /\ PromoteOK(p) \/ PromoteFails(p)
    /\ GoTo(p, "drop")
    /\ Return(p, "ok")
    /\ UNCHANGED <<repository, next, lock, verb, got, cur, kid, refused, calm>>

(* A promote that fails leaves .next to SettleNext. *)
Promote(p) ==
    /\ pc[p] = "promote"
    /\ \/ PromoteOK(p) /\ GoTo(p, "drop") /\ Return(p, "ok")
       \/ PromoteFails(p) /\ GoTo(p, "exit") /\ Return(p, "error")
    /\ UNCHANGED <<repository, next, lock, verb, got, cur, kid, refused, calm>>

(* removeNext on the way out. *)
Drop(p) ==
    /\ pc[p] = "drop"
    /\ RemoveNext
    /\ GoTo(p, "exit")
    /\ UNCHANGED <<repository, password, lock, locals, kid, calm>>

(* Mutant: a lock file that the end of its process does not release. *)
ForgottenLock(p) ==
    /\ pc' = [pc EXCEPT ![p] = "idle"]
    /\ verb' = [verb EXCEPT ![p] = "none"]
    /\ refused' = refused \ {p}
    /\ result' = [result EXCEPT ![p] = "none"]
    /\ UNCHANGED lock

(* The deferred unlock, and the end of the process. *)
Forgotten(p) ==
    /\ pc' = [pc EXCEPT ![p] = "idle"]
    /\ lock' = IF lock = p THEN NoProc ELSE lock
    /\ verb' = [verb EXCEPT ![p] = "none"]
    /\ refused' = refused \ {p}
    /\ result' = [result EXCEPT ![p] = "none"]

Exit(p) ==
    /\ pc[p] = "exit"
    /\ Forgotten(p)
    /\ got' = [got EXCEPT ![p] = NoKey]
    /\ cur' = [cur EXCEPT ![p] = NoKey]
    /\ UNCHANGED <<repository, files, kid, calm>>

-----------------------------------------------------------------------------
(* The kopia child of change-password, and what can happen to a process.   *)

(* It opens the repository with the key it was given ... *)
KopiaOpens(p) ==
    /\ kid[p] = "opening"
    /\ kid' = [kid EXCEPT ![p] = IF cur[p] = repoKey THEN "writing" ELSE "refused"]
    /\ UNCHANGED <<repository, files, lock, pc, locals, calm>>

(* ... and rewrites the block that wraps the master key, in one request. *)
KopiaWrites(p) ==
    /\ kid[p] = "writing"
    /\ repoKey' = got[p]
    /\ kid' = [kid EXCEPT ![p] = "written"]
    /\ UNCHANGED <<files, lock, pc, locals, calm>>

(* An orphan ends by itself, and `serve` reaps it. *)
OrphanEnds(p) ==
    /\ kid[p] \in {"written", "refused"}
    /\ pc[p] = "idle"
    /\ kid' = [kid EXCEPT ![p] = "none"]
    /\ got' = [got EXCEPT ![p] = NoKey]
    /\ cur' = [cur EXCEPT ![p] = NoKey]
    /\ UNCHANGED <<repository, files, lock, pc, verb, refused, result, calm>>

(* SIGKILL.  The kernel releases the flock; nothing kills the child. *)
Kill(p) ==
    /\ Fails
    /\ pc[p] # "idle"
    /\ Forgotten(p)
    /\ IF Orphans /\ kid[p] # "none"
       THEN UNCHANGED <<kid, got, cur>>
       ELSE /\ kid' = [kid EXCEPT ![p] = "none"]
            /\ got' = [got EXCEPT ![p] = NoKey]
            /\ cur' = [cur EXCEPT ![p] = NoKey]
    /\ UNCHANGED <<repository, files, calm>>

(* From here on nothing fails. *)
CalmDown ==
    /\ Fails
    /\ calm' = TRUE
    /\ UNCHANGED <<repository, files, lock, pc, locals, kid>>

-----------------------------------------------------------------------------

Step(p) ==
    \/ Stat(p) \/ TryLock(p)
    \/ ReadNext(p) \/ TryCurrent(p) \/ DropStale(p)
    \/ TryNext(p) \/ PromoteNext(p) \/ DropPromoted(p)
    \/ WaitLock(p) \/ ReadSecret(p) \/ Check(p) \/ Change(p) \/ Promote(p) \/ Drop(p)
    \/ Exit(p)

Kopia(p) == KopiaOpens(p) \/ KopiaWrites(p) \/ OrphanEnds(p)

Next ==
    \/ \E p \in Procs :
          \/ \E k \in Keys \cup {Blank} : Request(p, k)
          \/ Rerun(p) \/ Settle(p)
          \/ Step(p) \/ Kopia(p) \/ Kill(p)
    \/ CalmDown

Spec == Init /\ [][Next]_vars

(* A process that runs is scheduled, kopia answers, outages end, and       *)
(* Maison polls `status`.  The flock wakes its waiters each time it is     *)
(* released and a poll takes it only now and then: a change that waits is  *)
(* not overtaken for ever.                                                 *)
Fairness ==
    /\ \A p \in Procs : WF_vars(Step(p)) /\ WF_vars(Kopia(p)) /\ SF_vars(WaitLock(p))
    /\ WF_vars(\E p \in Procs : Settle(p))
    /\ WF_vars(CalmDown)

FairSpec == Spec /\ Fairness

-----------------------------------------------------------------------------
(* Properties.                                                             *)

HasLock == Settling \cup (Changing \ {"waitLock"})

(* lockSecret: whoever looks at .next in order to act on it has the lock,  *)
(* so two processes never do so at once.                                   *)
LockHeld == \A p \in Procs : pc[p] \in HasLock => lock = p

(* One of the two files holds the key the repository asks for. *)
KeyOnBox == repoKey \in {password, next}

(* changepw.go's reason to exist ("Deleting either key on a guess is the   *)
(* one unrecoverable move"): a box that holds the repository's key in one  *)
(* of its two files holds it after every step, whatever fails and whoever  *)
(* is killed.                                                              *)
KeyKept == [][KeyOnBox => KeyOnBox']_vars

(* "Deleting either key on a guess": of all the steps of a change and of a *)
(* settling, only the one where change-secret gives .next up, without the  *)
(* new key installed, can take the repository's key off the box, however   *)
(* often change-secret is run again (changepw.go:60-72, 131-135).          *)
GivenUpOnly ==
    [][KeyOnBox /\ ~KeyOnBox' => \E p \in Procs : Drop(p) /\ result[p] # "ok"]_vars

(* Exit code 0 of change-secret: the key that was asked for is installed,  *)
(* and unless the box had it already, it is the one that opens the         *)
(* repository.                                                             *)
OkMeansChanged ==
    \A p \in Procs :
        (pc[p] = "exit" /\ result[p] = "ok") =>
            /\ password = got[p]
            /\ cur[p] # NoKey => repoKey = got[p]

(* Exit code 14 of change-secret: the key of the box was refused, and it   *)
(* is still the key of the box.                                            *)
WrongMeansUnchanged ==
    \A p \in Procs :
        (pc[p] = "exit" /\ result[p] = "wrongPassword") =>
            cur[p] \in {NoKey, password}

(* What change-secret says where it gives .next up after kopia refused the *)
(* key of the box: "The current key does not open the repository and       *)
(* neither does the new one: nothing was changed".                         *)
NothingWasChanged ==
    \A p \in Procs :
        (pc[p] = "drop" /\ result[p] = "wrongPassword") => repoKey # next

(* An interrupted change is settled in the end: once the storage answers   *)
(* again, the polled `status` leaves the repository's key in               *)
(* repository.password and no .next.                                       *)
ChangeSettles ==
    (KeyOnBox /\ next # NoKey) ~> (password = repoKey /\ next = NoKey)

(* A change-secret that waits for the lock gets an answer: the lock is     *)
(* never left with nobody to release it.                                   *)
ChangeAnswers == \A p \in Procs : (pc[p] = "waitLock") ~> (pc[p] = "idle")

(* The whole protocol, seen from the keys alone. *)
Custody == INSTANCE KeyCustody WITH held <- {password, next} \cap Keys

CustodyKept == Custody!Spec
=============================================================================
