------------------------------- MODULE Backup -------------------------------
(***************************************************************************)
(* The life of a backup in the repository (src/internal/kopia/snapshot.go, *)
(* policy.go, and pinAll of recover.go): snapshot in one pass or two,      *)
(* commit, abort, delete, retention, and the pinning that ends a recovery. *)
(*                                                                         *)
(* One source is modelled: every verb but pinAll filters on the source's   *)
(* tag.  A verb is a process that asks kopia one thing at a time; a list   *)
(* it got is only as good as the moment it was taken.  Three may run at    *)
(* once: Maison's backup job, a delete asked for on the page of backups,   *)
(* and a recover still pinning.  Any call may fail and any verb may be     *)
(* killed.  A call that fails has ended, because run waits for its kopia;  *)
(* the kopia of a killed job lives on, and may save its snapshot or set    *)
(* its policy later.                                                       *)
(***************************************************************************)
EXTENDS Naturals, FiniteSets

CONSTANTS
    MaxBackups,     \* bound: how many backups Maison starts
    MaxFaults,      \* bound: how many calls fail and verbs are killed
    MaxAsks,        \* bound: how many deletes and retention changes are asked for
    Patterns,       \* what an app may ask to leave out
    Latest,         \* the --keep-latest that Maison may ask for
    Inherited,      \* the repository's own --keep-latest
    Batch           \* pinBatch

ASSUME BackupAssumption ==
    /\ MaxBackups \in Nat /\ MaxAsks \in Nat /\ MaxFaults \in Nat
    /\ Latest \subseteq Nat
    /\ Inherited \in Nat /\ Inherited >= 2
    /\ Batch \in Nat \ {0}

Actors == {"maison", "user", "recover"}
Stamps == 1 .. MaxBackups
Times == 1 .. 2 * MaxBackups

(* A snapshot as kopia lists it: its place in time, the tags, whether it   *)
(* is pinned, the rules its content was taken under, and whether an orphan *)
(* had meddled with them.  Pinning rewrites the manifest under a new id,   *)
(* so the place and the pin are the id.                                    *)
Snapshot == [at : Times, stamp : Stamps, pass : {1, 2},
             pinned : BOOLEAN, rules : SUBSET Patterns, upset : BOOLEAN]

(* An abort or a delete that returned nil: whether it had a list to look   *)
(* at, and when the snapshots were begun that were being taken when it got *)
(* that list.                                                              *)
Answer == [stamp : Stamps, looked : BOOLEAN, missed : SUBSET Times]

VARIABLES
    snaps,      \* the snapshots in the repository
    ignore,     \* the ignore rules in the policy of the source
    latest,     \* its --keep-latest
    orphans,    \* the snapshots that the kopia of a killed job is still taking
    strayRules, \* the rules one is still adding; {} for one that clears them
    upset,      \* one has changed the rules since they were last cleared
    clock,      \* how many snapshots were ever begun
    pc,         \* where each actor's verb is
    stamp,      \* the stamp it works on
    todo,       \* what is left of the list it got
    missed,     \* when those were begun that an orphan was taking meanwhile
    errs,       \* the actors whose verb had a deletion fail
    pass,       \* the pass of Maison's snapshot
    want,       \* the rules Maison asks for
    found,      \* commit's `committed`, as a set of at most one snapshot
    counted,    \* the snapshots pinAll counts as pinned
    done,       \* the stamps whose commit answered with a backup
    unwanted,   \* the stamps a delete was asked for
    cleaned,    \* the aborts and deletes that returned nil
    asks,       \* how many deletes and retention changes were asked for
    faults      \* how many calls failed and verbs were killed

policy == <<ignore, latest>>
job == <<pass, want, found>>
answers == <<counted, done, cleaned>>
asked == <<unwanted, asks>>
strays == <<orphans, strayRules, upset, missed>>
vars == <<snaps, ignore, latest, orphans, strayRules, upset, clock, pc, stamp,
          todo, missed, errs, pass, want, found, counted, done, unwanted,
          cleaned, asks, faults>>

TypeOK ==
    /\ snaps \subseteq Snapshot
    /\ ignore \subseteq Patterns
    /\ latest >= 2 /\ latest \in Latest \cup {2, Inherited}
    /\ orphans \subseteq Snapshot
    /\ strayRules \subseteq SUBSET Patterns
    /\ upset \in BOOLEAN
    /\ clock \in 0 .. 2 * MaxBackups
    /\ pc \in [Actors -> {"idle", "clear", "add", "create", "list", "next",
                          "failed", "abortList", "abortNext", "pinList",
                          "pinNext", "over"}]
    /\ stamp \in [Actors -> Stamps \cup {0}]
    /\ todo \in [Actors -> SUBSET Snapshot]
    /\ missed \in [Actors -> SUBSET Times]
    /\ errs \subseteq Actors
    /\ pass \in {1, 2}
    /\ want \subseteq Patterns
    /\ found \subseteq Snapshot /\ Cardinality(found) <= 1
    /\ counted \subseteq Snapshot
    /\ done \subseteq Stamps /\ unwanted \subseteq Stamps /\ cleaned \subseteq Answer
    /\ asks \in 0 .. MaxAsks
    /\ faults \in 0 .. MaxFaults

Init ==
    /\ snaps = {}
    /\ ignore = {}
    /\ latest = Inherited
    /\ orphans = {} /\ strayRules = {} /\ upset = FALSE
    /\ clock = 0
    /\ pc = [a \in Actors |-> "idle"]
    /\ stamp = [a \in Actors |-> 0]
    /\ todo = [a \in Actors |-> {}]
    /\ missed = [a \in Actors |-> {}]
    /\ errs = {}
    /\ pass = 1
    /\ want = {}
    /\ found = {} /\ counted = {}
    /\ done = {} /\ unwanted = {} /\ cleaned = {}
    /\ asks = 0
    /\ faults = 0

-----------------------------------------------------------------------------
(* Building blocks.                                                        *)

At(a, there) == pc[a] = there
GoTo(a, there) == pc' = [pc EXCEPT ![a] = there]
(* A call that works, and one that fails or a verb that is killed. *)
Fine == UNCHANGED faults
Fault == faults < MaxFaults /\ faults' = faults + 1

IsPassOne(sn) == sn.pass = 1

(* What `list` returns. *)
Listed == {sn \in snaps : ~IsPassOne(sn)}

(* kopia lists a source's snapshots oldest first; the loops take them in   *)
(* that order.                                                             *)
Oldest(S) == CHOOSE sn \in S : \A other \in S : sn.at <= other.at

Newer(sn, S) == {other \in S : other.at > sn.at}

(* Mutant: the stamp is not compared. *)
CarryingAny(s) == snaps

Carrying(s) == {sn \in snaps : sn.stamp = s}

Handled(a, sn) == todo' = [todo EXCEPT ![a] = @ \ sn]

(* `kopia snapshot delete <id>` finds a snapshot only under the id it has  *)
(* now.                                                                    *)
KopiaDelete(sn, ok) ==
    \/ ok /\ Fine /\ sn \in snaps /\ snaps' = snaps \ {sn}
    \/ ~ok /\ Fine /\ sn \notin snaps /\ UNCHANGED snaps
    \/ ~ok /\ Fault /\ sn \in snaps /\ snaps' \in {snaps, snaps \ {sn}}

(* After a `snapshot create`, kopia applies the retention: what is neither *)
(* pinned nor among the newest `latest` may go; a daily or weekly tier may *)
(* still keep it.                                                          *)
Expirable(S) == {sn \in S : ~sn.pinned /\ Cardinality(Newer(sn, S)) >= latest}

KopiaCreate(sn) ==
    \E gone \in SUBSET Expirable(snaps \cup {sn}) : snaps' = (snaps \cup {sn}) \ gone

(* When they were begun: their place in time. *)
Begun(S) == {sn.at : sn \in S}

Taken == [at |-> clock + 1, stamp |-> stamp["maison"], pass |-> pass,
          pinned |-> FALSE, rules |-> ignore, upset |-> upset]

-----------------------------------------------------------------------------
(* snapshot.                                                               *)

Ask == asks < MaxAsks /\ asks' = asks + 1

(* Maison starts a backup under a fresh stamp: pass 1 first, or pass 2     *)
(* alone when the source is being destroyed.                               *)
Begin(p, rules) ==
    /\ At("maison", "idle")
    /\ stamp["maison"] < MaxBackups
    /\ stamp' = [stamp EXCEPT !["maison"] = @ + 1]
    /\ pass' = p
    /\ want' = rules
    /\ GoTo("maison", "clear")
    /\ UNCHANGED <<snaps, policy, clock, todo, errs, found, answers, asked,
                   strays, faults>>

(* Mutant: the rules are added to the ones the repository still holds. *)
ClearIgnoreMerged ==
    /\ At("maison", "clear")
    /\ GoTo("maison", IF want = {} THEN "create" ELSE "add")
    /\ UNCHANGED <<snaps, policy, clock, stamp, todo, errs, job, answers,
                   asked, strays, faults>>

(* EnsureIgnore, its first call. *)
ClearIgnore ==
    /\ At("maison", "clear")
    /\ \/ /\ Fine
          /\ ignore' = {} /\ upset' = FALSE
          /\ GoTo("maison", IF want = {} THEN "create" ELSE "add")
       \/ /\ Fault
          /\ ignore' \in {ignore, {}} /\ UNCHANGED upset
          /\ GoTo("maison", "failed")
    /\ UNCHANGED <<snaps, latest, orphans, strayRules, clock, stamp, todo,
                   missed, errs, job, answers, asked>>

(* Its second. *)
AddIgnore ==
    /\ At("maison", "add")
    /\ \/ Fine /\ ignore' = ignore \cup want /\ GoTo("maison", "create")
       \/ /\ Fault
          /\ ignore' \in {ignore, ignore \cup want}
          /\ GoTo("maison", "failed")
    /\ UNCHANGED <<snaps, latest, clock, stamp, todo, errs, job, answers,
                   asked, strays>>

(* A failed `snapshot create` may have saved its manifest.  After pass 1   *)
(* Maison runs pass 2, and gives the rules again or leaves the policy be.  *)
Create ==
    /\ At("maison", "create")
    /\ \/ /\ Fine
          /\ KopiaCreate(Taken)
          /\ clock' = clock + 1
          /\ pass' = 2
          /\ \E there \in IF pass = 1 THEN {"clear", "create"} ELSE {"list"} :
                GoTo("maison", there)
       \/ /\ Fault
          /\ \/ KopiaCreate(Taken) /\ clock' = clock + 1
             \/ UNCHANGED <<snaps, clock>>
          /\ GoTo("maison", "failed")
          /\ UNCHANGED pass
    /\ UNCHANGED <<policy, stamp, todo, errs, want, found, answers, asked,
                   strays>>

(* Maison aborts a backup that failed, unless it went down as well. *)
GiveUp ==
    /\ At("maison", "failed")
    /\ (Fine /\ GoTo("maison", "abortList")) \/ (Fault /\ GoTo("maison", "idle"))
    /\ UNCHANGED <<snaps, policy, clock, stamp, todo, errs, job, answers,
                   asked, strays>>

-----------------------------------------------------------------------------
(* commit.                                                                 *)

CommitList ==
    /\ At("maison", "list")
    /\ \/ /\ Fine
          /\ todo' = [todo EXCEPT !["maison"] = Carrying(stamp["maison"])]
          /\ GoTo("maison", "next")
       \/ Fault /\ GoTo("maison", "failed") /\ UNCHANGED todo
    /\ found' = {}
    /\ UNCHANGED <<snaps, policy, clock, stamp, errs, pass, want, answers,
                   asked, strays>>

(* Mutant: the loop does not skip a snapshot it has dropped. *)
CommitNextAny ==
    /\ At("maison", "next")
    /\ todo["maison"] # {}
    /\ LET sn == Oldest(todo["maison"])
       IN  /\ Handled("maison", {sn})
           /\ found' = {sn}
           /\ IF IsPassOne(sn) THEN \E ok \in BOOLEAN : KopiaDelete(sn, ok)
                               ELSE Fine /\ UNCHANGED snaps
    /\ UNCHANGED <<policy, clock, pc, stamp, errs, pass, want, answers, asked,
                   strays>>

(* A torn snapshot is dropped, and a failure to drop it is logged. *)
CommitNext ==
    /\ At("maison", "next")
    /\ todo["maison"] # {}
    /\ LET sn == Oldest(todo["maison"])
       IN  /\ Handled("maison", {sn})
           /\ IF IsPassOne(sn)
              THEN (\E ok \in BOOLEAN : KopiaDelete(sn, ok)) /\ UNCHANGED found
              ELSE Fine /\ found' = {sn} /\ UNCHANGED snaps
    /\ UNCHANGED <<policy, clock, pc, stamp, errs, pass, want, answers, asked,
                   strays>>

CommitEnd ==
    /\ At("maison", "next")
    /\ todo["maison"] = {}
    /\ \/ found = {} /\ GoTo("maison", "failed") /\ UNCHANGED done
       \/ /\ found # {}
          /\ done' = done \cup {stamp["maison"]}
          /\ GoTo("maison", "idle")
    /\ found' = {}
    /\ UNCHANGED <<snaps, policy, clock, stamp, todo, errs, pass, want, counted,
                   cleaned, asked, strays, faults>>

-----------------------------------------------------------------------------
(* abort, and delete, which is the same.                                   *)

(* The owner asks to delete a backup the page shows. *)
AskDelete(s) ==
    /\ At("user", "idle")
    /\ \E sn \in Listed : sn.stamp = s
    /\ Ask
    /\ stamp' = [stamp EXCEPT !["user"] = s]
    /\ unwanted' = unwanted \cup {s}
    /\ GoTo("user", "abortList")
    /\ UNCHANGED <<snaps, policy, clock, todo, errs, job, answers, strays,
                   faults>>

(* Where the box has no key at that moment there is no list, and the       *)
(* answer is nil all the same.                                             *)
AbortList(a) ==
    /\ At(a, "abortList")
    /\ \/ /\ Fine
          /\ todo' = [todo EXCEPT ![a] = Carrying(stamp[a])]
          /\ missed' = [missed EXCEPT ![a] = Begun({sn \in orphans : sn.stamp = stamp[a]})]
          /\ GoTo(a, "abortNext")
          /\ UNCHANGED cleaned
       \/ /\ Fault
          /\ GoTo(a, "idle")
          /\ \/ UNCHANGED cleaned
             \/ cleaned' = cleaned \cup {[stamp |-> stamp[a], looked |-> FALSE, missed |-> {}]}
          /\ UNCHANGED <<todo, missed>>
    /\ errs' = errs \ {a}
    /\ UNCHANGED <<snaps, policy, orphans, strayRules, upset, clock, stamp, job,
                   counted, done, asked>>

(* Mutant: a deletion that failed is logged, as commit does. *)
AbortNextLogged(a) ==
    /\ At(a, "abortNext")
    /\ todo[a] # {}
    /\ LET sn == Oldest(todo[a])
       IN  Handled(a, {sn}) /\ \E ok \in BOOLEAN : KopiaDelete(sn, ok)
    /\ UNCHANGED <<policy, clock, pc, stamp, errs, job, answers, asked, strays>>

(* Mutant: a deletion that failed is tried again. *)
AbortNextRetrying(a) ==
    /\ At(a, "abortNext")
    /\ todo[a] # {}
    /\ LET sn == Oldest(todo[a])
       IN  \E ok \in BOOLEAN :
              /\ KopiaDelete(sn, ok)
              /\ Handled(a, IF ok THEN {sn} ELSE {})
    /\ UNCHANGED <<policy, clock, pc, stamp, errs, job, answers, asked, strays>>

(* Each deletion is tried once, and the loop goes on after one that failed. *)
AbortNext(a) ==
    /\ At(a, "abortNext")
    /\ todo[a] # {}
    /\ LET sn == Oldest(todo[a])
       IN  /\ Handled(a, {sn})
           /\ \E ok \in BOOLEAN :
                 /\ KopiaDelete(sn, ok)
                 /\ errs' = IF ok THEN errs ELSE errs \cup {a}
    /\ UNCHANGED <<policy, clock, pc, stamp, job, answers, asked, strays>>

AbortEnd(a) ==
    /\ At(a, "abortNext")
    /\ todo[a] = {}
    /\ cleaned' = IF a \in errs THEN cleaned
                  ELSE cleaned \cup {[stamp |-> stamp[a], looked |-> TRUE, missed |-> missed[a]]}
    /\ GoTo(a, "idle")
    /\ UNCHANGED <<snaps, policy, clock, stamp, todo, errs, job, counted, done,
                   asked, strays, faults>>

-----------------------------------------------------------------------------
(* ensure-retention.                                                       *)

(* Mutant: --keep-latest is passed through. *)
FloorNone(k) == k

(* Mutant: the floor leaves no room for the second pass. *)
FloorOne(k) == IF k < 1 THEN 1 ELSE k

(* A backup needs room for both of its passes. *)
Floor(k) == IF k < 2 THEN 2 ELSE k

EnsureRetention(k) ==
    /\ At("maison", "idle")
    /\ Ask
    /\ (Fine /\ latest' = Floor(k)) \/ (Fault /\ UNCHANGED latest)
    /\ UNCHANGED <<snaps, ignore, clock, pc, stamp, todo, errs, job, answers,
                   unwanted, strays>>

-----------------------------------------------------------------------------
(* pinAll, the end of a recover.                                           *)

PinList ==
    /\ At("recover", "idle")
    /\ \/ /\ Fine
          /\ todo' = [todo EXCEPT !["recover"] = snaps]
          /\ GoTo("recover", "pinNext")
       \/ Fault /\ GoTo("recover", "over") /\ UNCHANGED todo
    /\ UNCHANGED <<snaps, policy, clock, stamp, errs, job, answers, asked,
                   strays>>

NextBatch ==
    LET left == todo["recover"]
    IN  {sn \in left : Cardinality({x \in left : x.at <= sn.at}) <= Batch}

Pinned(S) == {[sn EXCEPT !.pinned = TRUE] : sn \in S}

(* `kopia snapshot pin --add=... <id>...`: one id that is gone fails it,   *)
(* and it may have pinned some of the others.                              *)
KopiaPin(ids, ok) ==
    \/ /\ ok /\ Fine /\ ids \subseteq snaps
       /\ snaps' = (snaps \ ids) \cup Pinned(ids)
    \/ /\ ~ok /\ IF ids \subseteq snaps THEN Fault ELSE Fine
       /\ \E some \in SUBSET (ids \cap snaps) : snaps' = (snaps \ some) \cup Pinned(some)

(* Mutant: a batch is counted before it is tried. *)
PinNextCounting ==
    /\ At("recover", "pinNext")
    /\ todo["recover"] # {}
    /\ Handled("recover", NextBatch)
    /\ counted' = counted \cup NextBatch
    /\ \E ok \in BOOLEAN : KopiaPin(NextBatch, ok)
    /\ UNCHANGED <<policy, clock, pc, stamp, errs, job, done, cleaned, asked,
                   strays>>

(* A batch that failed is logged and not counted, and the next is tried. *)
PinNext ==
    /\ At("recover", "pinNext")
    /\ todo["recover"] # {}
    /\ Handled("recover", NextBatch)
    /\ \E ok \in BOOLEAN :
          /\ KopiaPin(NextBatch, ok)
          /\ counted' = IF ok THEN counted \cup NextBatch ELSE counted
    /\ UNCHANGED <<policy, clock, pc, stamp, errs, job, done, cleaned, asked,
                   strays>>

PinEnd ==
    /\ At("recover", "pinNext")
    /\ todo["recover"] = {}
    /\ GoTo("recover", "over")
    /\ UNCHANGED <<snaps, policy, clock, stamp, todo, errs, job, answers,
                   asked, strays, faults>>

-----------------------------------------------------------------------------
(* The environment.                                                        *)

(* Maison's verb is killed, between two calls or in one that takes a       *)
(* snapshot or sets a policy.  That kopia is reparented to serve and goes  *)
(* on.                                                                     *)
KillJob ==
    /\ Fault
    /\ pc["maison"] \in {"clear", "add", "create", "list", "next"}
    /\ \/ UNCHANGED <<orphans, strayRules, clock>>
       \/ /\ At("maison", "create")
          /\ orphans' = orphans \cup {Taken}
          /\ clock' = clock + 1
          /\ UNCHANGED strayRules
       \/ /\ At("maison", "clear") \/ At("maison", "add")
          /\ strayRules' = strayRules \cup {IF At("maison", "clear") THEN {} ELSE want}
          /\ UNCHANGED <<orphans, clock>>
    /\ GoTo("maison", "failed")
    /\ todo' = [todo EXCEPT !["maison"] = {}]
    /\ UNCHANGED <<snaps, policy, upset, stamp, missed, errs, job, answers,
                   asked>>

(* It ends sooner or later, with its snapshot saved or without, ...        *)
OrphanEnds(sn) ==
    /\ sn \in orphans
    /\ orphans' = orphans \ {sn}
    /\ KopiaCreate(sn) \/ UNCHANGED snaps
    /\ UNCHANGED <<policy, strayRules, upset, clock, pc, stamp, todo, missed,
                   errs, job, answers, asked, faults>>

(* ... or with its policy set.                                             *)
OrphanSets(rules) ==
    /\ rules \in strayRules
    /\ strayRules' = strayRules \ {rules}
    /\ \/ ignore' = (IF rules = {} THEN {} ELSE ignore \cup rules) /\ upset' = TRUE
       \/ UNCHANGED <<ignore, upset>>
    /\ UNCHANGED <<snaps, latest, orphans, clock, pc, stamp, todo, missed,
                   errs, job, answers, asked, faults>>

(* An abort, a delete or a recover is killed between two calls. *)
KillOther(a) ==
    /\ Fault
    /\ pc[a] \in {"abortList", "abortNext", "pinNext"}
    /\ GoTo(a, IF a = "recover" THEN "over" ELSE "idle")
    /\ todo' = [todo EXCEPT ![a] = {}]
    /\ UNCHANGED <<snaps, policy, clock, stamp, errs, job, answers, asked,
                   strays>>

Abort(a) == AbortList(a) \/ AbortNext(a) \/ AbortEnd(a)
Job == \/ ClearIgnore \/ AddIgnore \/ Create \/ GiveUp
       \/ CommitList \/ CommitNext \/ CommitEnd \/ Abort("maison")
Pinning == PinNext \/ PinEnd

Next ==
    \/ \E p \in {1, 2}, rules \in SUBSET Patterns : Begin(p, rules)
    \/ \E s \in Stamps : AskDelete(s)
    \/ \E k \in Latest : EnsureRetention(k)
    \/ Job \/ Abort("user")
    \/ PinList \/ Pinning
    \/ KillJob \/ \E a \in Actors : KillOther(a)
    \/ \E sn \in orphans : OrphanEnds(sn)
    \/ \E rules \in strayRules : OrphanSets(rules)

Spec == Init /\ [][Next]_vars

(* Every verb runs on.  Nothing has to be asked for. *)
FairSpec ==
    /\ Spec
    /\ WF_vars(Job) /\ WF_vars(Abort("user")) /\ WF_vars(Pinning)

-----------------------------------------------------------------------------
(* Properties.                                                             *)

(* What an app asked to leave out is left out of its backup, and nothing   *)
(* else is: every snapshot of Maison's backup was taken under exactly the  *)
(* rules it gave, those of an earlier backup and of a policy half          *)
(* installed included (EnsureIgnore; pass 2 may rely on pass 1's rules),   *)
(* unless the kopia of a killed job set them once more in between.         *)
RulesExact == \A sn \in Carrying(stamp["maison"]) : sn.upset \/ sn.rules = want

(* An abort or a delete that returned nil, and had a list to look at,      *)
(* leaves nothing of the stamp that list, or a restore, could find,        *)
(* whatever a recover pins meanwhile: nothing but what the kopia of a      *)
(* killed job was still taking when it looked, and saves afterwards.       *)
AbortClean ==
    \A ans \in cleaned :
        ans.looked => Begun(Carrying(ans.stamp)) \subseteq ans.missed

(* A snapshot that pinAll counts is pinned: none it counts is in the       *)
(* repository under an id that retention may still take.                   *)
PinHonest == counted \cap snaps \subseteq {sn \in Snapshot : sn.pinned}

(* commit answers with a consistent snapshot of its own stamp, which is in *)
(* the repository unless its deletion was asked for.                       *)
CommitHonest ==
    [][\A s \in done' \ done :
          \E sn \in found :
             /\ sn.stamp = s /\ ~IsPassOne(sn)
             /\ {sn} \cup Pinned({sn}) \subseteq Snapshot \ snaps => s \in unwanted]_vars

(* A backup that was committed goes when its deletion is asked for, or     *)
(* when two newer snapshots push it out: no other backup's commit or abort *)
(* and no retention Maison asks for takes it.                              *)
CommittedKept ==
    [][\A sn \in Listed :
          /\ sn.stamp \in done
          /\ {sn} \cup Pinned({sn}) \subseteq Snapshot \ snaps'
          => \/ sn.stamp \in unwanted
             \/ Cardinality(Newer(sn, snaps')) >= 2]_vars

(* A snapshot may have been saved, in time or late. *)
Saves == clock' # clock \/ orphans' # orphans

(* Retention never leaves a source with a torn snapshot only: where there  *)
(* was a consistent one, a snapshot that is taken leaves one.              *)
ConsistentKept == [][Saves /\ Listed # {} => Listed' # {}]_vars

(* The same, as long as no earlier backup left its torn snapshot behind or *)
(* may still save it: the floor under --keep-latest is enough for the two  *)
(* passes of one backup.                                                   *)
FloorEnough ==
    [][ /\ Saves /\ Listed # {}
        /\ \A sn \in snaps \cup orphans : IsPassOne(sn) => sn.stamp = stamp["maison"]
        => Listed' # {}]_vars

(* No verb works for ever, whatever the others delete or rewrite under it. *)
VerbsEnd == \A a \in Actors : pc[a] \notin {"idle", "over"} ~> pc[a] \in {"idle", "over"}

=============================================================================
