-------------------------------- MODULE Serve --------------------------------
(***************************************************************************)
(* The resident container's main process (Serve of                         *)
(* src/internal/kopia/serve.go, serveOpts and reap of                      *)
(* cmd/maison-engine/main.go): it looks at the files, waits for the poll,  *)
(* a child signal or the end of its context, and reaps the orphans that    *)
(* PID 1 inherits.  One look is what Provision models step by step; here   *)
(* it is what the loop sees of it: nothing to do yet, a failure, an end.   *)
(*                                                                         *)
(* Time is discrete, and passes only while serve waits or its kopia runs.  *)
(***************************************************************************)
EXTENDS Integers

CONSTANTS
    Poll,       \* ServeOpts.poll, in ticks
    Max,        \* maxBackoff
    CallMax,    \* bound: what the kopia calls of one look take together
    MaxOrphans, \* bound: orphans that serve ever inherits
    MaxFails    \* bound: failures in a row that are told apart

ASSUME ServeAssumption ==
    /\ Poll \in Nat \ {0} /\ Max \in Nat /\ Poll <= Max
    /\ CallMax \in Nat /\ MaxOrphans \in Nat /\ MaxFails \in Nat

VARIABLES
    pc,         \* where the loop is
    done, due, wait,  \* the locals of Serve
    left,       \* what is left of the timer
    cancelled,  \* the context has ended
    files,      \* the owner's connect.json and credentials.env
    own,        \* the kopia child of the look
    spent,      \* ticks its calls took so far
    chan,       \* signals in the channel of capacity 1
    orphans,    \* processes in the container without a parent but serve
    zombies,    \* those that have exited
    born,       \* orphans so far
    \* history
    age,        \* ticks since the last look began, or the files changed
    restarts,   \* child signals served in that time
    quiet,      \* ticks since the last look ended, up to Max
    fails       \* looks that failed since the last that did not, up to MaxFails

loop == <<pc, done, due, wait, left>>
look == <<own, spent>>
children == <<chan, orphans, zombies, born>>
hist == <<age, restarts, quiet, fails>>
vars == <<pc, done, due, wait, left, cancelled, files, own, spent,
          chan, orphans, zombies, born, age, restarts, quiet, fails>>

\* connect.json is missing or unreadable, or there is something to connect with
Files == {"absent", "present"}

Lesser(a, b) == IF a < b THEN a ELSE b

TypeOK ==
    /\ pc \in {"top", "call", "select", "reap", "ended"}
    /\ done \in BOOLEAN /\ due \in BOOLEAN /\ cancelled \in BOOLEAN
    /\ wait \in 1 .. Max /\ left \in 0 .. Max
    /\ files \in Files
    /\ own \in {"none", "running", "zombie", "stolen"}
    /\ spent \in 0 .. CallMax
    /\ chan \in 0 .. 1
    /\ orphans \in Nat /\ zombies \in Nat /\ born \in 0 .. MaxOrphans
    /\ orphans + zombies <= born
    /\ age \in Nat /\ restarts \in Nat
    /\ quiet \in 0 .. Max /\ fails \in 0 .. MaxFails

Init ==
    /\ pc = "top" /\ done = FALSE /\ due = TRUE /\ wait = Poll /\ left = 0
    /\ cancelled = FALSE
    /\ files \in Files
    /\ own = "none" /\ spent = 0
    /\ chan = 0 /\ orphans = 0 /\ zombies = 0 /\ born = 0
    /\ age = 0 /\ restarts = 0 /\ quiet = Max /\ fails = 0

-----------------------------------------------------------------------------
(* The look.                                                               *)

\* Mutant: the backoff is not capped.
FailedForGood ==
    /\ wait' = wait * 2
    /\ fails' = Lesser(fails + 1, MaxFails)
\* `wait` after a look that failed, and after one with nothing to do yet
Failed ==
    /\ wait' = Lesser(wait * 2, Max)
    /\ fails' = Lesser(fails + 1, MaxFails)
Idle == wait' = Poll /\ fails' = 0

\* Mutant: `due` stays set, so that whatever wakes the loop is a reason to look.
LookBeginsAnyhow ==
    /\ pc = "top" /\ ~done /\ due
    /\ due' = due
    /\ age' = 0 /\ restarts' = 0
LookBegins ==
    /\ pc = "top" /\ ~done /\ due
    /\ due' = FALSE
    /\ age' = 0 /\ restarts' = 0

\* A look that needs no kopia: there is nothing to connect with yet; the marker or a
\* configuration is there; a password could not be minted.
LookIdle ==
    /\ LookBegins /\ files = "absent"
    /\ Idle
    /\ pc' = "select" /\ left' = wait' /\ quiet' = 0
    /\ UNCHANGED <<done, cancelled, files, own, spent, children>>
LookDone ==
    /\ LookBegins
    /\ done' = TRUE /\ left' = 0
    /\ pc' = "select" /\ quiet' = 0
    /\ UNCHANGED <<wait, cancelled, files, own, spent, children, fails>>
LookFails ==
    /\ LookBegins /\ files # "absent"
    /\ Failed
    /\ pc' = "select" /\ left' = wait' /\ quiet' = 0
    /\ UNCHANGED <<done, cancelled, files, own, spent, children>>

\* A look that connects, and creates: kopia is a child of serve.
LookConnects ==
    /\ LookBegins /\ files # "absent"
    /\ own' = "running"
    /\ pc' = "call"
    /\ UNCHANGED <<done, wait, left, cancelled, files, spent, children, quiet, fails>>

KopiaExits ==
    /\ own = "running"
    /\ own' = "zombie" /\ chan' = 1
    /\ UNCHANGED <<loop, cancelled, files, spent, orphans, zombies, born, hist>>

\* cmd.Wait collects the child: connected, or a repository of another key; an error; or
\* one because the context has ended.  A connect and the create after it are one child.
CallEnds ==
    /\ pc = "call" /\ own = "zombie"
    /\ own' = "none" /\ spent' = 0
    /\ \/ done' = TRUE /\ UNCHANGED <<wait, fails>>
       \/ done' = FALSE /\ Failed
       \/ cancelled /\ done' = FALSE /\ Idle
    /\ pc' = "select" /\ left' = (IF done' THEN 0 ELSE wait') /\ quiet' = 0
    /\ UNCHANGED <<due, cancelled, files, children, age, restarts>>

-----------------------------------------------------------------------------
(* The select.                                                             *)

\* The timer is a new one each time round: it starts from `wait`.
Arm ==
    /\ pc = "top" /\ (done \/ ~due)
    /\ pc' = "select" /\ left' = (IF done THEN 0 ELSE wait)
    /\ UNCHANGED <<done, due, wait, cancelled, files, look, children, hist>>

\* Mutant: only a box that is provisioned waits for its context.
StoppedServed ==
    /\ pc = "select" /\ cancelled /\ done
    /\ pc' = "ended"
    /\ UNCHANGED <<done, due, wait, left, cancelled, files, look, children, hist>>
Stopped ==
    /\ pc = "select" /\ cancelled
    /\ pc' = "ended"
    /\ UNCHANGED <<done, due, wait, left, cancelled, files, look, children, hist>>

TimerFires ==
    /\ pc = "select" /\ ~done /\ left = 0
    /\ due' = TRUE /\ pc' = "top"
    /\ UNCHANGED <<done, wait, left, cancelled, files, look, children, hist>>

ChildSignal ==
    /\ pc = "select" /\ chan = 1
    /\ chan' = 0 /\ pc' = "reap"
    /\ UNCHANGED <<done, due, wait, left, cancelled, files, look, orphans, zombies, born, hist>>

\* wait4(-1, WNOHANG), until it finds no child that has exited
Collects ==
    \/ zombies > 0 /\ zombies' = zombies - 1 /\ UNCHANGED own
    \/ own = "zombie" /\ own' = "stolen" /\ UNCHANGED zombies
\* Mutant: one child for each signal.
ReapOneOnly ==
    /\ pc = "reap"
    /\ Collects
    /\ pc' = "top"
    /\ UNCHANGED <<done, due, wait, left, cancelled, files, spent, chan, orphans, born, hist>>
\* Mutant: signals are served by a goroutine of their own, beside a look.
ReapOneBeside ==
    /\ pc \in {"reap", "call"}
    /\ Collects
    /\ UNCHANGED <<loop, cancelled, files, spent, chan, orphans, born, hist>>
ReapOne ==
    /\ pc = "reap"
    /\ Collects
    /\ UNCHANGED <<loop, cancelled, files, spent, chan, orphans, born, hist>>

ReapEnd ==
    /\ pc = "reap" /\ zombies = 0 /\ own # "zombie"
    /\ pc' = "top" /\ restarts' = restarts + 1
    /\ UNCHANGED <<done, due, wait, left, cancelled, files, look, children, age, quiet, fails>>

-----------------------------------------------------------------------------
(* Around it.                                                              *)

\* Nobody waits for what is ready: time passes when nothing is.
WaitTick ==
    /\ pc = "select" /\ ~cancelled /\ chan = 0 /\ ~done /\ left > 0
    /\ left' = left - 1
    /\ age' = age + 1 /\ quiet' = Lesser(quiet + 1, Max)
    /\ UNCHANGED <<pc, done, due, wait, cancelled, files, look, children, restarts, fails>>
CallTick ==
    /\ own = "running" /\ spent < CallMax
    /\ spent' = spent + 1 /\ age' = age + 1
    /\ UNCHANGED <<loop, cancelled, files, own, children, restarts, quiet, fails>>

\* The owner drops, corrects or removes the files.
FilesChange ==
    /\ ~done /\ pc # "ended"
    /\ files' \in Files
    /\ age' = 0 /\ restarts' = 0
    /\ UNCHANGED <<loop, cancelled, look, children, quiet, fails>>

\* A verb that was killed leaves its kopia to PID 1 ...
Orphaned ==
    /\ born < MaxOrphans /\ pc # "ended"
    /\ orphans' = orphans + 1 /\ born' = born + 1
    /\ UNCHANGED <<loop, cancelled, files, look, chan, zombies, hist>>
\* ... and it ends some time: a signal, which is dropped if one is waiting already.
OrphanExits ==
    /\ orphans > 0 /\ pc # "ended"
    /\ orphans' = orphans - 1 /\ zombies' = zombies + 1 /\ chan' = 1
    /\ UNCHANGED <<loop, cancelled, files, look, born, hist>>

\* SIGTERM
Cancel ==
    /\ ~cancelled
    /\ cancelled' = TRUE
    /\ UNCHANGED <<loop, files, look, children, hist>>

Main ==
    \/ LookIdle \/ LookDone \/ LookFails \/ LookConnects
    \/ CallEnds
    \/ Arm \/ Stopped \/ TimerFires \/ ChildSignal \/ ReapOne \/ ReapEnd
World ==
    \/ KopiaExits \/ WaitTick \/ CallTick
    \/ FilesChange \/ Orphaned \/ OrphanExits \/ Cancel

Next == Main \/ World
Spec == Init /\ [][Next]_vars
FairSpec ==
    /\ Spec
    /\ WF_vars(Main) /\ WF_vars(WaitTick) /\ WF_vars(KopiaExits)
    /\ SF_vars(Stopped) /\ SF_vars(ChildSignal)

-----------------------------------------------------------------------------
(* What is wrong if it fails.                                              *)

\* What k failures in a row make the loop wait: the poll, doubled k times and capped.
PowerOf2[k \in Nat] == IF k = 0 THEN 1 ELSE 2 * PowerOf2[k - 1]
Backoff(k) == Lesser(Poll * PowerOf2[k], Max)

\* serve does not hammer a storage that refuses: a look starts no sooner after the
\* last one than the backoff its failures have earned, whatever child signals wake the
\* loop in between (serve.go:75-87, 97-106).
BackedOff == pc = "top" /\ due /\ ~done => quiet >= Backoff(fails)

\* What a look may be late by: the one that is under way, a whole backoff, and a whole
\* backoff more for each child signal, because the timer is started anew (serve.go:94).
Late(k) == CallMax + Max * (1 + k)

\* A file that the owner corrects is looked at in bounded time, if not always in a
\* short one.
PickedUp == age <= Late(restarts)

\* serve never collects the exit status of a kopia call of its own, which would make
\* cmd.Wait fail and the look with it (serve.go:40-42).
StatusKept == own # "stolen"

\* Whatever signals were dropped because one was waiting, no orphan stays a zombie
\* while serve runs (main.go:332-341).
OrphansReaped == zombies > 0 ~> (zombies = 0 \/ pc = "ended")

\* docker stop ends serve, in a look as well as in its waiting.
ServeStops == cancelled ~> pc = "ended"
=============================================================================
