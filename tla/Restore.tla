------------------------------- MODULE Restore -------------------------------
(***************************************************************************)
(* Listing and restoring (src/internal/kopia/restore.go, and List,         *)
(* ListAll, snapshotID of snapshot.go): a verb resolves a source and a     *)
(* stamp to one of kopia's ids, and then names that id in one call of      *)
(* kopia or several, while backups, retention and a recover's pinning go   *)
(* on.                                                                     *)
(*                                                                         *)
(* What a file holds is told by where it comes from: 0 is what the box had *)
(* before, i the i-th snapshot, and several a merge of them.  The kopia of *)
(* a killed restore lives on, and a restore over the same directory may    *)
(* find it still writing.                                                  *)
(***************************************************************************)
EXTENDS Integers, Sequences, FiniteSets

CONSTANTS
    ComposeNames, \* what a compose project may be called
    userDataTag,  \* the tag of the user-data set
    OtherTags,    \* tags of snapshots that this adapter did not take
    NoTag,        \* what `tag` reads from a snapshot without one
    Stamps,
    Names,        \* top-level members of a destination, and of backups
    Shapes,       \* bound: the snapshots that are taken, as records
    Flags,        \* bound: the lists --entries is given
    MaxSnaps,     \* bound: snapshots
    MaxAsks,      \* bound: restores and listings
    MaxFaults     \* bound: calls that fail, processes killed

Tags == ComposeNames \cup {userDataTag, NoTag} \cup OtherTags
Passes == {"1", "2", NoTag}

ASSUME RestoreAssumption ==
    /\ Stamps # {}
    /\ userDataTag \notin ComposeNames
    /\ NoTag \notin ComposeNames \cup {userDataTag} \cup Stamps \cup OtherTags
    /\ OtherTags \cap (ComposeNames \cup {userDataTag}) = {}
    /\ NoTag \notin {"1", "2"}
    /\ Shapes \subseteq [source : Tags, stamp : Stamps \cup {NoTag}, pass : Passes,
                         has : SUBSET Names]
    /\ Flags \subseteq Seq(STRING)
    /\ MaxSnaps \in Nat /\ MaxAsks \in Nat /\ MaxFaults \in Nat

VARIABLES
    \* the repository
    taken,      \* the snapshots, in the order they were taken
    alive,      \* those that are still there
    pinned,     \* those that a recover has pinned: each has a new id
    \* the box
    dest,       \* what each member of the destination holds
    before,     \* the same, when the verb began
    stray,      \* what the kopia of a killed restore may still write there
    stirred,    \* it wrote since the verb began
    \* the verb
    verb, pc,
    asked,      \* --source-id and --stamp
    entries,    \* --entries
    id,         \* the id it resolved
    have,       \* the members that `kopia ls` answered
    todo,       \* the entries not restored yet
    result,     \* what it answers
    asks, faults

repo == <<taken, alive, pinned>>
strays == <<stray, stirred>>
box == <<dest, before, strays>>
request == <<verb, asked, entries>>
vars == <<taken, alive, pinned, dest, before, stray, stirred, verb, pc, asked, entries, id, have, todo,
          result, asks, faults>>

-----------------------------------------------------------------------------
(* Source ids (internal/proto/source.go) and the tags they are filed under. *)

AppPrefix == "app:"
UserDataID == <<"userdata">>
SplitSource(source) == source[2]
ValidSource(source) ==
    \/ source = UserDataID
    \/ Len(source) = 2 /\ SplitSource(source) \in ComposeNames
sourceTag(source) == IF source = UserDataID THEN userDataTag ELSE SplitSource(source)
sourceIDFor(tag) == IF tag = userDataTag THEN UserDataID ELSE <<AppPrefix, tag>>

\* The sources a caller may name
Sources == {UserDataID} \cup {<<AppPrefix, t>> : t \in Tags}

-----------------------------------------------------------------------------
(* Listings.                                                               *)

\* kopia's id of a snapshot: a pin gives it another
IdOf(i) == [place |-> i, version |-> IF i \in pinned THEN 1 ELSE 0]
NoId == [place |-> 0, version |-> 0]

snapshotsFor(source) == {i \in alive : taken[i].source = sourceTag(source)}

Backup(i, source) == [source |-> source, stamp |-> taken[i].stamp, place |-> i]
List(source) ==
    {Backup(i, source) : i \in {j \in snapshotsFor(source) :
        taken[j].pass # "1" /\ taken[j].stamp # NoTag}}
\* Mutant: ids that came from the repository are returned as they are.
ListAllTrusting ==
    {Backup(i, sourceIDFor(taken[i].source)) : i \in {j \in alive :
        /\ taken[j].source # NoTag /\ taken[j].stamp # NoTag /\ taken[j].pass # "1"}}
ListAll ==
    {Backup(i, sourceIDFor(taken[i].source)) : i \in {j \in alive :
        /\ taken[j].source # NoTag /\ taken[j].stamp # NoTag /\ taken[j].pass # "1"
        /\ ValidSource(sourceIDFor(taken[j].source))}}

\* Mutant: any snapshot that carries the stamp.
CarriesAny(i, stamp) == taken[i].stamp = stamp
Carries(i, stamp) == taken[i].stamp = stamp /\ taken[i].pass # "1"
\* The first of them in kopia's list, which is in order of time
Candidates(source, stamp) == {i \in snapshotsFor(source) : Carries(i, stamp)}
First(S) == CHOOSE i \in S : \A j \in S : i <= j

-----------------------------------------------------------------------------

TypeOK ==
    /\ taken \in Seq(Shapes) /\ Len(taken) <= MaxSnaps
    /\ alive \subseteq 1 .. Len(taken) /\ pinned \subseteq 1 .. Len(taken)
    /\ dest \in [Names -> SUBSET (0 .. MaxSnaps)]
    /\ before \in [Names -> SUBSET (0 .. MaxSnaps)]
    /\ stray \subseteq [name : Names, holds : SUBSET (0 .. MaxSnaps)]
    /\ stirred \in BOOLEAN
    /\ verb \in {"none", "materialize", "restore-in-place", "entries"}
    /\ pc \in {"idle", "resolve", "whole", "ls", "select", "entry", "done"}
    /\ asked \in [source : Sources, stamp : Stamps]
    /\ entries \in Flags \cup {<<>>}
    /\ id \in [place : 0 .. MaxSnaps, version : {0, 1}]
    /\ have \subseteq Names
    /\ todo \in Seq(Names)
    /\ result \in {"none", "ok", "refused", "failed", "killed"}
    /\ asks \in 0 .. MaxAsks /\ faults \in 0 .. MaxFaults

Nothing == [n \in Names |-> {}]
Init ==
    /\ taken = <<>> /\ alive = {} /\ pinned = {}
    /\ dest = [n \in Names |-> {0}] /\ before = dest
    /\ stray = {} /\ stirred = FALSE
    /\ verb = "none" /\ pc = "idle"
    /\ asked = [source |-> UserDataID, stamp |-> CHOOSE s \in Stamps : TRUE]
    /\ entries = <<>> /\ id = NoId /\ have = {} /\ todo = <<>>
    /\ result = "none" /\ asks = 0 /\ faults = 0

-----------------------------------------------------------------------------
(* The verbs.                                                              *)

\* Maison names a fresh directory for a materialize, and the live one, a plain list of
\* names or none, for a restore in place.
Ask ==
    /\ pc \in {"idle", "done"} /\ asks < MaxAsks
    /\ asks' = asks + 1
    /\ asked' \in [source : Sources, stamp : Stamps]
    /\ \/ /\ verb' = "materialize" /\ entries' = <<>>
          /\ dest' = Nothing /\ stray' = {}
       \/ /\ verb' = "restore-in-place" /\ entries' \in Flags
          /\ \/ dest' = [n \in Names |-> {0}] /\ stray' = {}
             \/ UNCHANGED <<dest, stray>>
       \/ verb' = "entries" /\ entries' = <<>> /\ UNCHANGED <<dest, stray>>
    /\ before' = dest' /\ stirred' = FALSE
    /\ pc' = "resolve" /\ result' = "none"
    /\ id' = NoId /\ have' = {} /\ todo' = <<>>
    /\ UNCHANGED <<repo, faults>>

Answer(r) == pc' = "done" /\ result' = r
MayFail == faults < MaxFaults /\ faults' = faults + 1

\* snapshotID: one list, and the id is a value of its own from here on.
Resolve ==
    /\ pc = "resolve"
    /\ ValidSource(asked.source)
    /\ Candidates(asked.source, asked.stamp) # {}
    /\ id' = IdOf(First(Candidates(asked.source, asked.stamp)))
    /\ pc' = (IF verb = "entries" \/ entries # <<>> THEN "ls" ELSE "whole")
    /\ UNCHANGED <<repo, box, request, have, todo, result, asks, faults>>
NotFound ==
    /\ pc = "resolve"
    /\ ~ValidSource(asked.source) \/ Candidates(asked.source, asked.stamp) = {}
    /\ Answer("refused")
    /\ UNCHANGED <<repo, box, request, id, have, todo, asks, faults>>

\* What kopia finds under an id: nothing, if the snapshot went or was pinned since.
Finds == id.place \in alive /\ id = IdOf(id.place)
Holds == taken[id.place].has

\* A restore that came to its end.  In place, the whole of it: --delete-extra removes
\* what the backup does not have.
Whole ==
    [n \in Names |->
        (IF n \in Holds THEN {id.place} ELSE {})
        \cup (IF verb = "materialize" THEN dest[n] ELSE {})]
\* Mutant: each entry is restored with the destination itself as its target.
OneWhole(n) == [m \in Names |-> IF m = n THEN {id.place} ELSE {}]
\* An entry into its own path: a plain file is overwritten, and a directory is restored
\* with --delete-extra, so nothing of it stays either.
One(n) == [dest EXCEPT ![n] = {id.place}]

\* What it leaves when it stops on the way: of each member the old, the new, or both.
Partly(new, S, T) ==
    [n \in Names |-> CASE n \in S            -> new[n]
                       [] n \in T \ S        -> dest[n] \cup new[n]
                       [] n \notin S \cup T -> dest[n]]
Between(new) == {Partly(new, S, T) : S \in SUBSET Names, T \in SUBSET Names}

RestoreWhole ==
    /\ pc = "whole" /\ Finds
    /\ dest' = Whole
    /\ Answer("ok")
    /\ UNCHANGED <<repo, before, strays, request, id, have, todo, asks, faults>>

Ls ==
    /\ pc = "ls" /\ Finds
    /\ have' = Holds
    /\ IF verb = "entries"
       THEN Answer("ok")
       ELSE pc' = "select" /\ UNCHANGED result
    /\ UNCHANGED <<repo, box, request, id, todo, asks, faults>>

\* selectEntries: every name is looked up before anything is written.
Wanted == {entries[k] : k \in DOMAIN entries}
\* Mutant: a name that the backup lacks is not looked for.
SelectAnything ==
    /\ pc = "select"
    /\ todo' = entries /\ pc' = "entry"
    /\ UNCHANGED <<repo, box, request, id, have, result, asks, faults>>
Select ==
    /\ pc = "select" /\ Wanted \subseteq have
    /\ todo' = entries /\ pc' = "entry"
    /\ UNCHANGED <<repo, box, request, id, have, result, asks, faults>>
\* Mutant: the names that the backup has are restored, and the first other one ends it.
RefuseLate ==
    /\ pc = "select" /\ ~(Wanted \subseteq have)
    /\ dest' = [n \in Names |-> IF n \in Wanted \cap have THEN {id.place} ELSE dest[n]]
    /\ Answer("refused")
    /\ UNCHANGED <<repo, before, strays, request, id, have, todo, asks, faults>>
Refuse ==
    /\ pc = "select" /\ ~(Wanted \subseteq have)
    /\ Answer("refused")
    /\ UNCHANGED <<repo, box, request, id, have, todo, asks, faults>>

RestoreEntry ==
    /\ pc = "entry" /\ todo # <<>> /\ Finds
    /\ dest' = One(Head(todo)) /\ todo' = Tail(todo)
    /\ UNCHANGED <<repo, before, strays, request, pc, id, have, result, asks, faults>>
EntriesEnd ==
    /\ pc = "entry" /\ todo = <<>>
    /\ Answer("ok")
    /\ UNCHANGED <<repo, box, request, id, have, todo, asks, faults>>

Writing ==
    \/ pc = "whole"
    \/ pc = "entry" /\ todo # <<>>
\* A call that does not find the id, or that fails; a restore may have begun.
Stale ==
    /\ pc = "ls" \/ Writing
    /\ ~Finds
    /\ Answer("failed")
    /\ UNCHANGED <<repo, box, request, id, have, todo, asks, faults>>
Breaks(r) ==
    /\ MayFail
    /\ pc \in {"resolve", "whole", "ls", "select", "entry"}
    /\ IF Writing /\ Finds
       THEN dest' \in Between(IF pc = "whole" THEN Whole ELSE One(Head(todo)))
       ELSE UNCHANGED dest
    /\ Answer(r)
    /\ UNCHANGED <<repo, before, stirred, request, id, have, todo, asks>>
CallFails == pc \notin {"select"} /\ Breaks("failed") /\ UNCHANGED stray

Kill == Breaks("killed") /\ UNCHANGED stray

\* The kopia of a killed restore is reparented to serve and goes on with what it has not
\* written yet. In a directory that a materialize was given it is out of everybody's way.
Ahead ==
    IF pc = "whole" THEN {[name |-> n, holds |-> Whole[n]] : n \in Names}
                    ELSE {[name |-> Head(todo), holds |-> {id.place}]}
KillOrphaning ==
    /\ MayFail
    /\ Writing /\ Finds /\ verb = "restore-in-place"
    /\ stray' = stray \cup Ahead
    /\ Answer("killed")
    /\ UNCHANGED <<repo, dest, before, stirred, request, id, have, todo, asks>>
OrphanWrites ==
    /\ \E w \in stray :
          /\ stray' = stray \ {w}
          /\ \E new \in {dest[w.name], dest[w.name] \cup w.holds, w.holds} :
                dest' = [dest EXCEPT ![w.name] = new]
    /\ stirred' = TRUE
    /\ UNCHANGED <<repo, before, request, pc, id, have, todo, result, asks, faults>>

-----------------------------------------------------------------------------
(* The repository meanwhile.                                               *)

Take ==
    /\ Len(taken) < MaxSnaps
    /\ \E s \in Shapes : taken' = Append(taken, s)
    /\ alive' = alive \cup {Len(taken')}
    /\ UNCHANGED <<pinned, box, request, pc, id, have, todo, result, asks, faults>>
Gone ==
    /\ \E i \in alive : alive' = alive \ {i}
    /\ UNCHANGED <<taken, pinned, box, request, pc, id, have, todo, result, asks, faults>>
Pin ==
    /\ \E i \in alive \ pinned : pinned' = pinned \cup {i}
    /\ UNCHANGED <<taken, alive, box, request, pc, id, have, todo, result, asks, faults>>

Verb ==
    \/ Resolve \/ NotFound \/ RestoreWhole \/ Ls \/ Select \/ Refuse
    \/ RestoreEntry \/ EntriesEnd \/ Stale
Next == Ask \/ Verb \/ CallFails \/ Kill \/ KillOrphaning \/ OrphanWrites \/ Take \/ Gone \/ Pin
Spec == Init /\ [][Next]_vars

-----------------------------------------------------------------------------
(* What is wrong if it fails.                                              *)

\* The members a restore is about: those named, or all of them.
Targets == IF entries = <<>> THEN Names ELSE Wanted

IsThere(i) == \A n \in Targets : dest[n] = (IF n \in taken[i].has THEN {i} ELSE {})
IsAsked(i) ==
    /\ taken[i].source = sourceTag(asked.source) /\ taken[i].stamp = asked.stamp
    /\ taken[i].pass # "1"

\* A restore that answers 0 has written ONE backup, of the asked source and stamp and
\* not a torn first pass, over every member it is about, and left nothing of what was
\* there: never a merge, and never entries of two backups, though each entry is a call
\* of its own and snapshots come, go and change their ids between them
\* (restore.go:28-37, 52-71). The exception is the kopia of an earlier restore, killed
\* over the same directory, that wrote since.
Faithful ==
    result = "ok" /\ verb # "entries" /\ ~stirred =>
        \E i \in 1 .. Len(taken) : IsAsked(i) /\ IsThere(i)

\* Members that --entries does not name are not touched, whatever fails: what a backup
\* excluded on purpose is out of reach of --delete-extra (restore.go:35-38). An earlier
\* restore that is still at work over them is another matter.
OnlyNamed ==
    [][verb = "restore-in-place" /\ entries # <<>> /\ asks' = asks /\ stray = {}
        => \A n \in Names \ Wanted : dest'[n] = dest[n]]_vars

\* A restore that was refused, because the backup is not there or lacks one of the
\* names, has written nothing (restore.go:125-142).
RefusedUntouched == result = "refused" => stirred \/ dest = before

\* What list-all groups under a source is what list answers for it, and a restore can
\* be asked for all of it: no torn pass, no source id that a restore refuses, and the
\* stamp resolves to a snapshot (snapshot.go:183-229).
ListedRestorable ==
    /\ ListAll = UNION {List(s) : s \in {t \in Sources : ValidSource(t)}}
    /\ \A b \in ListAll : ValidSource(b.source) /\ Candidates(b.source, b.stamp) # {}
=============================================================================
