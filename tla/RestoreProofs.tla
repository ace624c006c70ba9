---------------------------- MODULE RestoreProofs ----------------------------
(***************************************************************************)
(* Theorems about Restore, for any sources, names, snapshots, restores and *)
(* faults.                                                                 *)
(***************************************************************************)
EXTENDS Restore, SequenceTheorems, WellFoundedInduction, TLAPS

\* From the resolution on, the id names a snapshot that was asked for.
Chosen ==
    pc \in {"whole", "ls", "select", "entry"} =>
        id.place \in 1 .. Len(taken) /\ IsAsked(id.place)

\* What a verb is about, by its place.
Aim ==
    /\ verb # "restore-in-place" => entries = <<>>
    /\ pc = "whole" => entries = <<>>
    /\ pc \in {"select", "entry"} => verb = "restore-in-place" /\ entries # <<>>
    /\ pc = "ls" /\ verb # "entries" => verb = "restore-in-place" /\ entries # <<>>

\* Nothing is written before the names have been looked up, but by the kopia of an
\* earlier restore; and no such kopia writes where a materialize does.
Untouched ==
    /\ pc \in {"resolve", "whole", "ls", "select"} => stirred \/ dest = before
    /\ verb = "materialize" /\ pc # "done" => stray = {}
    /\ verb = "materialize" /\ pc \in {"resolve", "whole"} => dest = Nothing

\* The loop over the entries: each is restored already, or in the list.
Loop ==
    /\ pc = "select" => have = Holds
    /\ pc = "entry" =>
        /\ Wanted \subseteq Holds
        /\ \A n \in Wanted :
              stirred \/ dest[n] = {id.place} \/ \E k \in 1 .. Len(todo) : todo[k] = n
        /\ \A k \in 1 .. Len(todo) : todo[k] \in Wanted

Order == pc # "done" => result = "none"

Inv ==
    /\ TypeOK /\ Chosen /\ Aim /\ Untouched /\ Loop /\ Order
    /\ Faithful /\ RefusedUntouched

Meanwhile == Take \/ Gone \/ Pin

-----------------------------------------------------------------------------

LEMMA InitInv == Init => Inv
  <1> SUFFICES ASSUME Init PROVE Inv
    OBVIOUS
  <1> USE RestoreAssumption
  <1>1. TypeOK
    <2>1. taken \in Seq(Shapes) /\ Len(taken) = 0 /\ todo \in Seq(Names)
      BY EmptySeq DEF Init
    <2>2. dest \in [Names -> SUBSET (0 .. MaxSnaps)] /\ before \in [Names -> SUBSET (0 .. MaxSnaps)]
      BY DEF Init
    <2>3. id \in [place : 0 .. MaxSnaps, version : {0, 1}]
      BY DEF Init, NoId
    <2>4. asked \in [source : Sources, stamp : Stamps]
      BY DEF Init, Sources
    <2>5. /\ stray \subseteq [name : Names, holds : SUBSET (0 .. MaxSnaps)]
          /\ stirred \in BOOLEAN /\ have \subseteq Names
      BY DEF Init
    <2>6. /\ alive \subseteq 1 .. Len(taken) /\ pinned \subseteq 1 .. Len(taken)
          /\ Len(taken) <= MaxSnaps /\ asks \in 0 .. MaxAsks /\ faults \in 0 .. MaxFaults
      BY <2>1 DEF Init
    <2> HIDE RestoreAssumption
    <2>7. /\ verb = "none" /\ pc = "idle" /\ entries = <<>> /\ result = "none"
      BY DEF Init
    <2> QED BY <2>1, <2>2, <2>3, <2>4, <2>5, <2>6, <2>7 DEF TypeOK
  <1>2. Chosen /\ Aim /\ Untouched /\ Loop /\ Order /\ Faithful /\ RefusedUntouched
    BY DEF Init, Chosen, Aim, Untouched, Loop, Order, Faithful, RefusedUntouched
  <1> QED BY <1>1, <1>2 DEF Inv

-----------------------------------------------------------------------------
(* Backups come and go.                                                    *)

\* A snapshot that is there keeps its place and its shape.
LEMMA Append1 == ASSUME NEW t \in Seq(Shapes), NEW s \in Shapes
                 PROVE  /\ Append(t, s) \in Seq(Shapes)
                        /\ Len(Append(t, s)) = Len(t) + 1
                        /\ Len(t) \in Nat
                        /\ \A i \in 1 .. Len(t) : Append(t, s)[i] = t[i]
  BY SMT

LEMMA MeanwhileType == TypeOK /\ Meanwhile => TypeOK'
  <1> SUFFICES ASSUME TypeOK, Meanwhile PROVE TypeOK'
    OBVIOUS
  <1> USE RestoreAssumption DEF box, strays, request
  <1>1. CASE Take
    <2>1. PICK s \in Shapes : taken' = Append(taken, s)
      BY <1>1 DEF Take
    <2>2. taken' \in Seq(Shapes) /\ Len(taken') = Len(taken) + 1 /\ Len(taken) \in Nat
      BY <2>1, Append1 DEF TypeOK
    <2>3. Len(taken') <= MaxSnaps
      BY <1>1, <2>2 DEF Take
    <2>4. alive' \subseteq 1 .. Len(taken') /\ pinned' \subseteq 1 .. Len(taken')
      <3>1. 1 .. Len(taken) \subseteq 1 .. Len(taken') /\ Len(taken') \in 1 .. Len(taken')
        BY <2>2
      <3>2. alive \subseteq 1 .. Len(taken) /\ pinned \subseteq 1 .. Len(taken)
        BY DEF TypeOK
      <3>3. alive' = alive \cup {Len(taken')} /\ pinned' = pinned
        BY <1>1 DEF Take
      <3> QED BY <3>1, <3>2, <3>3
    <2>5. UNCHANGED <<box, request, pc, id, have, todo, result, asks, faults>>
      BY <1>1 DEF Take
    <2> QED BY <2>2, <2>3, <2>4, <2>5 DEF TypeOK
  <1>2. CASE Gone
    BY <1>2 DEF Gone, TypeOK
  <1>3. CASE Pin
    BY <1>3 DEF Pin, TypeOK
  <1> QED BY <1>1, <1>2, <1>3 DEF Meanwhile

LEMMA MeanwhileInv == Inv /\ Meanwhile => Inv'
  <1> SUFFICES ASSUME Inv, Meanwhile PROVE Inv'
    OBVIOUS
  <1>1. TypeOK'
    BY MeanwhileType DEF Inv
  <1>2. UNCHANGED <<box, request, pc, id, have, todo, result>>
    BY DEF Meanwhile, Take, Gone, Pin
  <1>3. Len(taken) <= Len(taken') /\ \A i \in 1 .. Len(taken) : taken'[i] = taken[i]
    <2>1. Len(taken) \in Nat
      BY DEF Inv, TypeOK
    <2>2. CASE Take
      <3>1. PICK s \in Shapes : taken' = Append(taken, s)
        BY <2>2 DEF Take
      <3> QED BY <3>1, Append1 DEF Inv, TypeOK
    <2>3. CASE Gone \/ Pin
      BY <2>1, <2>3 DEF Gone, Pin
    <2> QED BY <2>2, <2>3 DEF Meanwhile
  <1>4. Len(taken) \in Nat /\ Len(taken') \in Nat
    BY <1>1 DEF Inv, TypeOK
  <1>5. \A i \in 1 .. Len(taken) : i \in 1 .. Len(taken') /\ (IsAsked(i) => IsAsked(i)')
    BY <1>2, <1>3, <1>4 DEF IsAsked, request
  <1>6. Chosen'
    BY <1>2, <1>5 DEF Inv, Chosen
  <1>7. Aim' /\ Untouched' /\ Order' /\ RefusedUntouched'
    BY <1>2 DEF Inv, Aim, Untouched, Order, RefusedUntouched, box, strays, request
  <1>8. Loop'
    <2>1. pc \in {"select", "entry"} => Holds' = Holds
      BY <1>2, <1>3 DEF Inv, Chosen, Holds
    <2> QED BY <1>2, <2>1 DEF Inv, Loop, Wanted, box, strays, request
  <1>9. Faithful'
    <2>1. SUFFICES ASSUME result = "ok", verb # "entries", ~stirred PROVE Faithful'
      BY <1>2 DEF Faithful, box, strays, request
    <2>2. PICK i \in 1 .. Len(taken) : IsAsked(i) /\ IsThere(i)
      BY <2>1 DEF Inv, Faithful
    <2>3. i \in 1 .. Len(taken') /\ IsAsked(i)' /\ taken'[i] = taken[i]
      BY <2>2, <1>3, <1>5
    <2>4. Targets' = Targets /\ dest' = dest
      BY <1>2 DEF Targets, Wanted, box, strays, request
    <2>5. IsThere(i)'
      BY <2>2, <2>3, <2>4 DEF IsThere
    <2> QED BY <2>3, <2>5 DEF Faithful
  <1> QED BY <1>1, <1>6, <1>7, <1>8, <1>9 DEF Inv

-----------------------------------------------------------------------------
(* A verb begins.                                                          *)

LEMMA AskInv == Inv /\ Ask => Inv'
  <1> SUFFICES ASSUME Inv, Ask PROVE Inv'
    OBVIOUS
  <1> USE RestoreAssumption
  <1>1. TypeOK'
    <2>1. dest' \in [Names -> SUBSET (0 .. MaxSnaps)]
      BY DEF Ask, Inv, TypeOK, Nothing
    <2>2. entries' \in Flags \cup {<<>>} /\ verb' \in {"materialize", "restore-in-place", "entries"}
      BY DEF Ask
    <2>3. id' \in [place : 0 .. MaxSnaps, version : {0, 1}] /\ todo' \in Seq(Names)
      BY EmptySeq DEF Ask, NoId
    <2>4. asks' \in 0 .. MaxAsks
      BY DEF Ask, Inv, TypeOK
    <2> QED BY <2>1, <2>2, <2>3, <2>4 DEF Ask, Inv, TypeOK, repo
  <1>2. Chosen' /\ Loop' /\ Order' /\ Faithful' /\ RefusedUntouched'
    BY DEF Ask, Chosen, Loop, Order, Faithful, RefusedUntouched
  <1>3. Aim' /\ Untouched'
    BY DEF Ask, Aim, Untouched, Nothing
  <1> QED BY <1>1, <1>2, <1>3 DEF Inv

-----------------------------------------------------------------------------
(* It ends without having done all it should.                              *)

\* A call that broke off leaves every member with what it had, or with the backup's.
LEMMA Contents == ASSUME TypeOK, Chosen, pc \in {"whole", "entry"}
                  PROVE  /\ id.place \in 0 .. MaxSnaps
                         /\ Whole \in [Names -> SUBSET (0 .. MaxSnaps)]
                         /\ \A n \in Names : One(n) \in [Names -> SUBSET (0 .. MaxSnaps)]
  <1>1. id.place \in 0 .. MaxSnaps
    BY DEF TypeOK
  <1>2. dest \in [Names -> SUBSET (0 .. MaxSnaps)]
    BY DEF TypeOK
  <1> QED BY <1>1, <1>2 DEF Whole, One

LEMMA BreaksInv == ASSUME Inv, NEW r \in {"failed", "killed"}, Breaks(r),
                          UNCHANGED stray
                   PROVE  Inv'
  <1> USE RestoreAssumption
  <1>1. dest' \in [Names -> SUBSET (0 .. MaxSnaps)]
    <2>1. CASE UNCHANGED dest
      BY <2>1 DEF Inv, TypeOK
    <2>2. ASSUME Writing, dest' \in Between(IF pc = "whole" THEN Whole ELSE One(Head(todo)))
          PROVE  dest' \in [Names -> SUBSET (0 .. MaxSnaps)]
      <3> DEFINE new == IF pc = "whole" THEN Whole ELSE One(Head(todo))
      <3>1. pc = "entry" => Head(todo) \in Names
        BY <2>2 DEF Inv, TypeOK, Writing
      <3>2. new \in [Names -> SUBSET (0 .. MaxSnaps)]
        BY <3>1, <2>2, Contents DEF Inv, Writing
      <3>3. dest \in [Names -> SUBSET (0 .. MaxSnaps)]
        BY DEF Inv, TypeOK
      <3>4. dest' \in Between(new)
        BY <2>2
      <3> HIDE DEF new
      <3>5. PICK S \in SUBSET Names, T \in SUBSET Names : dest' = Partly(new, S, T)
        BY <3>4 DEF Between
      <3> QED BY <3>2, <3>3, <3>5 DEF Partly
    <2> QED BY <2>1, <2>2 DEF Breaks
  <1>2. TypeOK'
    BY <1>1 DEF Breaks, MayFail, Answer, repo, request, Inv, TypeOK
  <1>3. pc' = "done" /\ result' = r /\ UNCHANGED request
    BY DEF Breaks, Answer
  <1>4. Chosen' /\ Aim' /\ Untouched' /\ Loop' /\ Order' /\ Faithful' /\ RefusedUntouched'
    BY <1>3 DEF Inv, request, Chosen, Aim, Untouched, Loop, Order, Faithful, RefusedUntouched
  <1> QED BY <1>2, <1>4 DEF Inv

\* A killed restore whose kopia lives on: what it has yet to write is of its own backup.
LEMMA OrphaningInv == Inv /\ KillOrphaning => Inv'
  <1> SUFFICES ASSUME Inv, KillOrphaning PROVE Inv'
    OBVIOUS
  <1> USE RestoreAssumption
  <1>1. /\ pc \in {"whole", "entry"} /\ (pc = "entry" => todo # <<>>)
        /\ verb = "restore-in-place" /\ stray' = stray \cup Ahead
        /\ UNCHANGED <<repo, dest, before, stirred, request, id, have, todo, asks>>
    BY DEF KillOrphaning, Writing
  <1>2. Ahead \subseteq [name : Names, holds : SUBSET (0 .. MaxSnaps)]
    <2>1. id.place \in 0 .. MaxSnaps /\ Whole \in [Names -> SUBSET (0 .. MaxSnaps)]
      BY <1>1, Contents DEF Inv
    <2>2. CASE pc = "whole"
      BY <2>1, <2>2 DEF Ahead
    <2>3. CASE pc # "whole"
      <3>1. Head(todo) \in Names
        BY <1>1, <2>3 DEF Inv, TypeOK
      <3> QED BY <2>1, <2>3, <3>1 DEF Ahead
    <2> QED BY <2>2, <2>3
  <1>3. stray' \subseteq [name : Names, holds : SUBSET (0 .. MaxSnaps)]
    BY <1>1, <1>2 DEF Inv, TypeOK
  <1>4. TypeOK'
    BY <1>1, <1>3 DEF KillOrphaning, MayFail, Answer, repo, request, Inv, TypeOK
  <1>5. pc' = "done" /\ result' = "killed" /\ UNCHANGED request
    BY DEF KillOrphaning, Answer
  <1>6. Chosen' /\ Aim' /\ Untouched' /\ Loop' /\ Order' /\ Faithful' /\ RefusedUntouched'
    BY <1>5 DEF Inv, request, Chosen, Aim, Untouched, Loop, Order, Faithful, RefusedUntouched
  <1> QED BY <1>4, <1>6 DEF Inv

\* It writes: a restore over the same directory has no promise to keep from here on, and a
\* materialize is not over the same directory.
LEMMA OrphanWritesInv == Inv /\ OrphanWrites => Inv'
  <1> SUFFICES ASSUME Inv, OrphanWrites PROVE Inv'
    OBVIOUS
  <1>1. PICK w \in stray :
          /\ stray' = stray \ {w}
          /\ \E new \in {dest[w.name], dest[w.name] \cup w.holds, w.holds} :
                dest' = [dest EXCEPT ![w.name] = new]
    BY DEF OrphanWrites
  <1>2. /\ stirred' = TRUE
        /\ UNCHANGED <<repo, before, request, pc, id, have, todo, result, asks, faults>>
    BY DEF OrphanWrites
  <1>3. dest' \in [Names -> SUBSET (0 .. MaxSnaps)]
    <2>1. w.name \in Names /\ w.holds \in SUBSET (0 .. MaxSnaps)
      BY DEF Inv, TypeOK
    <2>2. dest \in [Names -> SUBSET (0 .. MaxSnaps)]
      BY DEF Inv, TypeOK
    <2> QED BY <1>1, <2>1, <2>2
  <1>4. stray' \subseteq [name : Names, holds : SUBSET (0 .. MaxSnaps)]
    BY <1>1 DEF Inv, TypeOK
  <1>5. TypeOK'
    BY <1>2, <1>3, <1>4 DEF Inv, TypeOK, repo, request
  <1>6. Chosen' /\ Aim' /\ Order' /\ Faithful' /\ RefusedUntouched'
    BY <1>2 DEF Inv, repo, request, Chosen, IsAsked, Aim, Order, Faithful, RefusedUntouched
  <1>7. Untouched'
    <2>1. ~(verb = "materialize" /\ pc # "done")
      BY <1>1 DEF Inv, Untouched
    <2> QED BY <2>1, <1>2 DEF Inv, Untouched, request
  <1>8. Loop'
    <2>1. Wanted' = Wanted /\ Holds' = Holds
      BY <1>2 DEF Wanted, Holds, repo, request
    <2> QED BY <2>1, <1>2 DEF Inv, Loop
  <1> QED BY <1>5, <1>6, <1>7, <1>8 DEF Inv

LEMMA RefusalInv == Inv /\ (NotFound \/ Refuse \/ Stale) => Inv'
  <1> SUFFICES ASSUME Inv, NotFound \/ Refuse \/ Stale PROVE Inv'
    OBVIOUS
  <1>1. TypeOK'
    BY DEF NotFound, Refuse, Stale, Answer, repo, box, strays, request, Inv, TypeOK
  <1>2. pc' = "done" /\ UNCHANGED <<box, request>>
    BY DEF NotFound, Refuse, Stale, Answer
  <1>3. Chosen' /\ Aim' /\ Untouched' /\ Loop' /\ Order'
    BY <1>2 DEF Inv, request, Chosen, Aim, Untouched, Loop, Order
  <1>4. result' \in {"refused", "failed"}
    BY DEF NotFound, Refuse, Stale, Answer
  <1>5. result' = "refused" => stirred \/ dest = before
    BY DEF NotFound, Refuse, Stale, Answer, Inv, Untouched
  <1>6. Faithful' /\ RefusedUntouched'
    BY <1>2, <1>4, <1>5 DEF Faithful, RefusedUntouched, box, strays
  <1> QED BY <1>1, <1>3, <1>6 DEF Inv

-----------------------------------------------------------------------------
(* It does what it should.                                                 *)

\* Of some snapshots one is the first.
LEMMA FirstIsOne == ASSUME NEW S, S \subseteq Nat, S # {} PROVE First(S) \in S
  <1>1. PICK x \in S : \A y \in S : ~(<<y, x>> \in OpToRel(<, Nat))
    BY WFMin, NatLessThanWellFounded
  <1>2. ASSUME NEW y \in S PROVE x <= y
    <2>1. y < x => <<y, x>> \in OpToRel(<, Nat)
      BY DEF OpToRel
    <2>2. ~(y < x)
      BY <2>1, <1>1
    <2>3. x \in Nat /\ y \in Nat
      OBVIOUS
    <2> QED BY <2>2, <2>3, SMT
  <1> QED BY <1>2 DEF First

LEMMA ResolveInv == Inv /\ Resolve => Inv'
  <1> SUFFICES ASSUME Inv, Resolve PROVE Inv'
    OBVIOUS
  <1> USE RestoreAssumption
  <1> DEFINE C == Candidates(asked.source, asked.stamp)
  <1>1. C # {} /\ C \subseteq alive /\ \A i \in C : IsAsked(i)
    BY DEF Resolve, Candidates, snapshotsFor, Carries, IsAsked
  <1>2. /\ C \subseteq 1 .. Len(taken) /\ C \subseteq Nat /\ Len(taken) \in Nat
        /\ Len(taken) <= MaxSnaps /\ MaxSnaps \in Nat
    <2>1. alive \subseteq 1 .. Len(taken) /\ Len(taken) \in Nat /\ Len(taken) <= MaxSnaps
      BY DEF Inv, TypeOK
    <2> HIDE DEF C
    <2> QED BY <1>1, <2>1
  <1>3. First(C) \in C
    BY <1>1, <1>2, FirstIsOne
  <1>4. id' = IdOf(First(C)) /\ id'.place \in C
    BY <1>3 DEF Resolve, IdOf
  <1>5. UNCHANGED <<repo, box, request, have, todo, result, asks, faults>>
    BY DEF Resolve
  <1>6. pc' \in {"ls", "whole"} /\ (pc' = "ls" <=> verb = "entries" \/ entries # <<>>)
    BY DEF Resolve
  <1> HIDE DEF C
  <1>7. TypeOK'
    <2>1. id' \in [place : 0 .. MaxSnaps, version : {0, 1}]
      <3>1. First(C) \in 0 .. MaxSnaps
        <4>1. First(C) \in 1 .. Len(taken)
          BY <1>2, <1>3
        <4> QED BY <4>1, <1>2
      <3> QED BY <3>1, <1>4 DEF IdOf
    <2> QED BY <2>1, <1>5, <1>6 DEF Inv, TypeOK, repo, box, strays, request
  <1>8. Chosen'
    BY <1>1, <1>2, <1>4, <1>5 DEF Chosen, IsAsked, repo, request
  <1>9. pc = "resolve" /\ result = "none"
    BY DEF Resolve, Inv, Order
  <1>10. Aim'
    BY <1>5, <1>6, <1>9 DEF Inv, TypeOK, Aim, request
  <1>11. Untouched' /\ Loop' /\ Order'
    BY <1>5, <1>6, <1>9 DEF Inv, Untouched, Loop, Order, box, strays, request
  <1>12. Faithful' /\ RefusedUntouched'
    BY <1>5, <1>9 DEF Faithful, RefusedUntouched
  <1> QED BY <1>7, <1>8, <1>10, <1>11, <1>12 DEF Inv

\* The whole of a backup, into a fresh directory or over what was there.
LEMMA WholeInv == Inv /\ RestoreWhole => Inv'
  <1> SUFFICES ASSUME Inv, RestoreWhole PROVE Inv'
    OBVIOUS
  <1>1. pc = "whole" /\ dest' = Whole /\ pc' = "done" /\ result' = "ok"
    BY DEF RestoreWhole, Answer
  <1>2. UNCHANGED <<repo, before, strays, request, id, have, todo, asks, faults>>
    BY DEF RestoreWhole
  <1>3. dest' \in [Names -> SUBSET (0 .. MaxSnaps)]
    BY <1>1, Contents DEF Inv
  <1>4. TypeOK'
    BY <1>1, <1>2, <1>3 DEF Inv, TypeOK, repo, strays, request
  <1>5. Chosen' /\ Aim' /\ Untouched' /\ Loop' /\ Order' /\ RefusedUntouched'
    BY <1>1, <1>2 DEF Inv, request, Chosen, Aim, Untouched, Loop, Order, RefusedUntouched
  <1>6. Faithful'
    <2>1. PICK i \in 1 .. Len(taken) : i = id.place /\ IsAsked(i)
      BY <1>1 DEF Inv, Chosen
    <2>2. Targets' = Names
      BY <1>1, <1>2 DEF Inv, Aim, Targets, request
    <2>3. \A n \in Names : dest'[n] = (IF n \in taken[i].has THEN {i} ELSE {})
      <3>1. verb = "materialize" => \A n \in Names : dest[n] = {}
        BY <1>1 DEF Inv, Untouched, Nothing
      <3> QED BY <3>1, <2>1, <1>1 DEF Whole, Holds
    <2>4. taken' = taken /\ IsAsked(i)'
      BY <2>1, <1>2 DEF IsAsked, request, repo
    <2>5. IsThere(i)'
      BY <2>2, <2>3, <2>4 DEF IsThere
    <2> QED BY <2>1, <2>4, <2>5 DEF Faithful
  <1> QED BY <1>4, <1>5, <1>6 DEF Inv

LEMMA LsInv == Inv /\ Ls => Inv'
  <1> SUFFICES ASSUME Inv, Ls PROVE Inv'
    OBVIOUS
  <1>1. pc = "ls" /\ have' = Holds /\ UNCHANGED <<repo, box, request, id, todo, asks, faults>>
    BY DEF Ls
  <1>2. \/ verb = "entries" /\ pc' = "done" /\ result' = "ok"
        \/ verb # "entries" /\ pc' = "select" /\ result' = result
    BY DEF Ls, Answer
  <1>3. id.place \in 1 .. Len(taken) /\ IsAsked(id.place)
    BY <1>1 DEF Inv, Chosen
  <1>4. Holds \subseteq Names
    <2>1. taken[id.place] \in Shapes
      BY <1>3, ElementOfSeq DEF Inv, TypeOK
    <2> QED BY <2>1, RestoreAssumption DEF Holds
  <1>5. TypeOK'
    BY <1>1, <1>2, <1>4 DEF Inv, TypeOK, repo, box, strays, request
  <1>6. Chosen'
    BY <1>1, <1>3 DEF Chosen, IsAsked, repo, request
  <1>7. Aim'
    BY <1>1, <1>2 DEF Inv, Aim, request
  <1>8. Untouched'
    BY <1>1, <1>2 DEF Inv, Untouched, box, strays, request
  <1>9. Loop' /\ Order'
    BY <1>1, <1>2 DEF Inv, Loop, Order, Holds, repo
  <1>10. Faithful' /\ RefusedUntouched'
    BY <1>1, <1>2 DEF Inv, Order, Faithful, RefusedUntouched, request
  <1> QED BY <1>5, <1>6, <1>7, <1>8, <1>9, <1>10 DEF Inv

\* The names are members of the backup before the first is restored.
LEMMA SelectInv == Inv /\ Select => Inv'
  <1> SUFFICES ASSUME Inv, Select PROVE Inv'
    OBVIOUS
  <1>1. /\ pc = "select" /\ Wanted \subseteq have /\ todo' = entries /\ pc' = "entry"
        /\ UNCHANGED <<repo, box, request, id, have, result, asks, faults>>
    BY DEF Select
  <1>2. have = Holds /\ have \subseteq Names
    BY <1>1 DEF Inv, Loop, TypeOK
  <1>3. entries \in Seq(STRING)
    BY RestoreAssumption, EmptySeq DEF Inv, TypeOK
  <1>4. \A k \in 1 .. Len(entries) : entries[k] \in Wanted
    BY <1>3, LenProperties DEF Wanted
  <1>5. \A n \in Wanted : \E k \in 1 .. Len(entries) : entries[k] = n
    BY <1>3, LenProperties DEF Wanted
  <1>6. entries \in Seq(Names)
    <2>1. \A k \in 1 .. Len(entries) : entries[k] \in Names
      BY <1>1, <1>2, <1>4
    <2> QED BY <2>1, <1>3
  <1>7. TypeOK'
    BY <1>1, <1>6 DEF Inv, TypeOK, repo, box, strays, request
  <1>8. Chosen' /\ Aim' /\ Untouched' /\ Order'
    BY <1>1 DEF Inv, Chosen, IsAsked, Aim, Untouched, Order, repo, box, strays, request
  <1>9. Loop'
    BY <1>1, <1>2, <1>4, <1>5 DEF Loop, Wanted, Holds, repo, request
  <1>10. Faithful' /\ RefusedUntouched'
    BY <1>1 DEF Inv, Order, Faithful, RefusedUntouched
  <1> QED BY <1>7, <1>8, <1>9, <1>10 DEF Inv

LEMMA TailOf == ASSUME NEW t \in Seq(Names), t # <<>>
                PROVE  /\ Head(t) = t[1] /\ Head(t) \in Names
                       /\ Tail(t) \in Seq(Names)
                       /\ 1 \in 1 .. Len(t)
                       /\ \A k \in 1 .. Len(Tail(t)) : k + 1 \in 1 .. Len(t) /\ Tail(t)[k] = t[k + 1]
                       /\ \A k \in 1 .. Len(t) : k # 1 => k - 1 \in 1 .. Len(Tail(t)) /\ Tail(t)[k - 1] = t[k]
  BY SMT

\* The head of the list is restored, and leaves it.
LEMMA EntryInv == Inv /\ RestoreEntry => Inv'
  <1> SUFFICES ASSUME Inv, RestoreEntry PROVE Inv'
    OBVIOUS
  <1>1. /\ pc = "entry" /\ todo # <<>> /\ dest' = One(Head(todo)) /\ todo' = Tail(todo)
        /\ UNCHANGED <<repo, before, strays, request, pc, id, have, result, asks, faults>>
    BY DEF RestoreEntry
  <1>2. todo \in Seq(Names)
    BY DEF Inv, TypeOK
  <1>3. Head(todo) \in Names /\ Head(todo) = todo[1] /\ todo' \in Seq(Names)
    BY <1>1, <1>2, TailOf
  <1>4. dest' \in [Names -> SUBSET (0 .. MaxSnaps)]
    BY <1>1, <1>3, Contents DEF Inv
  <1>5. TypeOK'
    BY <1>1, <1>3, <1>4 DEF Inv, TypeOK, repo, strays, request
  <1>6. Chosen' /\ Aim' /\ Untouched' /\ Order'
    BY <1>1 DEF Inv, Chosen, IsAsked, Aim, Untouched, Order, repo, strays, request
  <1>7. Loop'
    <2>1. Wanted' = Wanted /\ Holds' = Holds /\ pc' = "entry" /\ id' = id /\ stirred' = stirred
      BY <1>1 DEF Wanted, Holds, repo, strays, request
    <2>2. \A k \in 1 .. Len(todo') : todo'[k] \in Wanted
      BY <1>1, <1>2, TailOf DEF Inv, Loop
    <2>3. ASSUME NEW n \in Wanted
          PROVE  stirred \/ dest'[n] = {id.place} \/ \E k \in 1 .. Len(todo') : todo'[k] = n
      <3>1. n \in Names
        <4>1. Wanted \subseteq Holds /\ id.place \in 1 .. Len(taken)
          BY <1>1 DEF Inv, Loop, Chosen
        <4>2. taken[id.place] \in Shapes
          BY <4>1, ElementOfSeq DEF Inv, TypeOK
        <4> QED BY <4>1, <4>2, RestoreAssumption DEF Holds
      <3>2. CASE n = Head(todo)
        BY <3>1, <3>2, <1>1 DEF One, Inv, TypeOK
      <3>3. ASSUME n # Head(todo), dest[n] = {id.place} PROVE dest'[n] = {id.place}
        BY <3>1, <3>3, <1>1 DEF One, Inv, TypeOK
      <3>4. ASSUME n # Head(todo), NEW k \in 1 .. Len(todo), todo[k] = n
            PROVE  \E j \in 1 .. Len(todo') : todo'[j] = n
        <4>1. k # 1
          BY <3>4, <1>3
        <4> QED BY <4>1, <3>4, <1>1, <1>2, TailOf
      <3>5. stirred \/ dest[n] = {id.place} \/ \E k \in 1 .. Len(todo) : todo[k] = n
        BY <1>1 DEF Inv, Loop
      <3> QED BY <3>2, <3>3, <3>4, <3>5
    <2>4. Wanted \subseteq Holds
      BY <1>1 DEF Inv, Loop
    <2> QED BY <2>1, <2>2, <2>3, <2>4 DEF Loop
  <1>8. Faithful' /\ RefusedUntouched'
    BY <1>1 DEF Inv, Order, Faithful, RefusedUntouched
  <1> QED BY <1>5, <1>6, <1>7, <1>8 DEF Inv

LEMMA EndInv == Inv /\ EntriesEnd => Inv'
  <1> SUFFICES ASSUME Inv, EntriesEnd PROVE Inv'
    OBVIOUS
  <1>1. /\ pc = "entry" /\ todo = <<>> /\ pc' = "done" /\ result' = "ok"
        /\ UNCHANGED <<repo, box, request, id, have, todo, asks, faults>>
    BY DEF EntriesEnd, Answer
  <1>2. TypeOK'
    BY <1>1 DEF Inv, TypeOK, repo, box, strays, request
  <1>3. Chosen' /\ Aim' /\ Untouched' /\ Loop' /\ Order' /\ RefusedUntouched'
    BY <1>1 DEF Inv, request, box, strays, Chosen, Aim, Untouched, Loop, Order, RefusedUntouched
  <1>4. Faithful'
    <2> SUFFICES ASSUME ~stirred PROVE Faithful'
      BY <1>1 DEF Faithful, box, strays
    <2>1. PICK i \in 1 .. Len(taken) : i = id.place /\ IsAsked(i)
      BY <1>1 DEF Inv, Chosen
    <2>2. \A n \in Wanted : dest[n] = {i} /\ n \in taken[i].has
      BY <2>1, <1>1, EmptySeq DEF Inv, Loop, Holds
    <2>3. Targets' = Wanted
      BY <1>1 DEF Inv, Aim, Targets, Wanted, request
    <2>4. taken' = taken /\ dest' = dest /\ IsAsked(i)'
      BY <2>1, <1>1 DEF IsAsked, request, repo, box, strays
    <2>5. IsThere(i)'
      BY <2>2, <2>3, <2>4 DEF IsThere
    <2> QED BY <2>1, <2>4, <2>5 DEF Faithful
  <1> QED BY <1>2, <1>3, <1>4 DEF Inv

-----------------------------------------------------------------------------

LEMMA Invariance == Spec => []Inv
  <1>1. ASSUME Inv, UNCHANGED vars PROVE Inv'
    <2> USE <1>1 DEF vars
    <2>1. TypeOK'
      BY DEF Inv, TypeOK
    <2>2. Chosen' /\ Aim' /\ Untouched' /\ Order' /\ RefusedUntouched'
      BY DEF Inv, Chosen, IsAsked, Aim, Untouched, Nothing, Order, RefusedUntouched
    <2>3. Loop'
      BY DEF Inv, Loop, Wanted, Holds
    <2>4. Faithful'
      <3>1. \A i \in 1 .. Len(taken) : (IsAsked(i) => IsAsked(i)') /\ (IsThere(i) => IsThere(i)')
        BY DEF IsAsked, IsThere, Targets, Wanted
      <3> QED BY <3>1 DEF Inv, Faithful
    <2> QED BY <2>1, <2>2, <2>3, <2>4 DEF Inv
  <1>2. Inv /\ [Next]_vars => Inv'
    BY <1>1, MeanwhileInv, AskInv, BreaksInv, RefusalInv, ResolveInv, WholeInv, LsInv,
       SelectInv, EntryInv, EndInv, OrphaningInv, OrphanWritesInv DEF Next, Verb, Meanwhile, CallFails, Kill
  <1> QED BY <1>2, InitInv, PTL DEF Spec

\* Every variable keeps its type; only members of the backup are ever restored by name.
THEOREM TypeCorrect == Spec => []TypeOK
  <1>1. Inv => TypeOK
    BY DEF Inv
  <1> QED BY <1>1, Invariance, PTL

\* A restore that answers 0 has put one backup there, the one that was asked for, however
\* many entries it took and whatever happened to the snapshots meanwhile; unless the kopia
\* of a restore killed before was still writing over the same directory.
THEOREM AlwaysFaithful == Spec => []Faithful
  <1>1. Inv => Faithful
    BY DEF Inv
  <1> QED BY <1>1, Invariance, PTL

-----------------------------------------------------------------------------
(* Listings.                                                               *)

LEMMA TagOfSource == ASSUME NEW s \in Sources, ValidSource(s)
                     PROVE  /\ sourceIDFor(sourceTag(s)) = s
                            /\ sourceTag(s) # NoTag
  <1> USE RestoreAssumption
  <1>1. CASE s = UserDataID
    BY <1>1 DEF sourceTag, sourceIDFor
  <1>2. CASE s # UserDataID
    <2>1. PICK t \in Tags : s = <<AppPrefix, t>>
      BY <1>2 DEF Sources
    <2>2. SplitSource(s) = t /\ t \in ComposeNames
      BY <2>1, <1>2 DEF ValidSource, SplitSource
    <2> QED BY <2>1, <2>2, <1>2 DEF sourceTag, sourceIDFor
  <1> QED BY <1>1, <1>2

LEMMA SourceOfTag == ASSUME NEW t \in Tags, ValidSource(sourceIDFor(t))
                     PROVE  /\ sourceIDFor(t) \in Sources
                            /\ sourceTag(sourceIDFor(t)) = t
  <1>1. CASE t = userDataTag
    BY <1>1 DEF sourceIDFor, sourceTag, Sources
  <1>2. CASE t # userDataTag
    <2>1. sourceIDFor(t) = <<AppPrefix, t>>
      BY <1>2 DEF sourceIDFor
    <2>2. <<AppPrefix, t>> # UserDataID /\ SplitSource(<<AppPrefix, t>>) = t
      BY DEF UserDataID, SplitSource
    <2> QED BY <2>1, <2>2 DEF sourceTag, Sources
  <1> QED BY <1>1, <1>2

\* list-all is list for every source, and all it lists can be restored.
THEOREM ListedAlwaysRestorable == Spec => []ListedRestorable
  <1> DEFINE Shown(i) == taken[i].stamp # NoTag /\ taken[i].pass # "1"
             Valid == {t \in Sources : ValidSource(t)}
  <1>1. ASSUME TypeOK PROVE ListedRestorable
    <2>1. \A i \in alive : taken[i].source \in Tags
      <3>1. \A i \in alive : taken[i] \in Shapes
        BY <1>1, ElementOfSeq DEF TypeOK
      <3> QED BY <3>1, RestoreAssumption
    <2>2. ASSUME NEW b \in ListAll
          PROVE  /\ ValidSource(b.source) /\ Candidates(b.source, b.stamp) # {}
                 /\ \E s \in Valid : b \in List(s)
      <3>1. PICK i \in alive : /\ b = Backup(i, sourceIDFor(taken[i].source))
                               /\ Shown(i) /\ ValidSource(sourceIDFor(taken[i].source))
        BY DEF ListAll
      <3> DEFINE s == sourceIDFor(taken[i].source)
      <3>2. s \in Sources /\ sourceTag(s) = taken[i].source
        BY <3>1, <2>1, SourceOfTag
      <3>3. i \in snapshotsFor(s)
        BY <3>2 DEF snapshotsFor
      <3>4. b.source = s /\ b.stamp = taken[i].stamp
        BY <3>1 DEF Backup
      <3> HIDE DEF s
      <3>5. b = Backup(i, s)
        BY <3>1 DEF s
      <3>6. ValidSource(s)
        BY <3>1 DEF s
      <3>7. i \in Candidates(b.source, b.stamp)
        BY <3>1, <3>3, <3>4 DEF Candidates, Carries
      <3>8. b \in List(s)
        BY <3>1, <3>3, <3>5 DEF List
      <3> QED BY <3>2, <3>4, <3>6, <3>7, <3>8
    <2>3. ASSUME NEW s \in Valid, NEW b \in List(s) PROVE b \in ListAll
      <3>1. PICK i \in snapshotsFor(s) : b = Backup(i, s) /\ Shown(i)
        BY <2>3 DEF List
      <3>2. i \in alive /\ taken[i].source = sourceTag(s)
        BY DEF snapshotsFor
      <3>3. sourceIDFor(taken[i].source) = s /\ taken[i].source # NoTag
        BY <3>2, TagOfSource
      <3> QED BY <3>1, <3>2, <3>3 DEF ListAll
    <2>4. ListAll = UNION {List(s) : s \in Valid}
      BY <2>2, <2>3
    <2> QED BY <2>2, <2>4 DEF ListedRestorable
  <1> QED BY <1>1, TypeCorrect, PTL

-----------------------------------------------------------------------------

\* What is refused has written nothing: where that is not what there was before, the
\* kopia of a killed restore wrote it.
THEOREM RefusedAlwaysUntouched == Spec => []RefusedUntouched
  <1>1. Inv => RefusedUntouched
    BY DEF Inv
  <1> QED BY <1>1, Invariance, PTL

\* A restore of named entries, whole or broken off, touches no other member; nor does
\* anything else, while no kopia of an earlier restore is at work there.
THEOREM OnlyNamedTouched == Spec => OnlyNamed
  <1> DEFINE A == verb = "restore-in-place" /\ entries # <<>> /\ asks' = asks /\ stray = {}
                    => \A n \in Names \ Wanted : dest'[n] = dest[n]
  <1>1. ASSUME Inv, Next PROVE A
    <2>1. SUFFICES ASSUME verb = "restore-in-place", entries # <<>>, asks' = asks, stray = {},
                          NEW n \in Names, n \notin Wanted
                   PROVE  dest'[n] = dest[n]
      OBVIOUS
    <2>2. ASSUME pc = "entry", todo # <<>> PROVE One(Head(todo))[n] = dest[n]
      <3>1. Head(todo) \in Wanted
        BY <1>1, <2>2, TailOf DEF Inv, TypeOK, Loop
      <3> QED BY <1>1, <3>1, <2>1 DEF One, Inv, TypeOK
    <2>3. pc # "whole"
      BY <1>1, <2>1 DEF Inv, Aim
    <2>4. CASE Ask
      BY <1>1, <2>4, <2>1 DEF Ask, Inv, TypeOK
    <2>5. CASE RestoreEntry
      BY <2>5, <2>2 DEF RestoreEntry
    <2>6. CASE CallFails \/ Kill
      <3>1. CASE Writing
        <4>1. pc = "entry" /\ todo # <<>>
          BY <3>1, <2>3 DEF Writing
        <4>2. dest' = dest \/ dest' \in Between(One(Head(todo)))
          BY <4>1, <2>6, <2>3 DEF CallFails, Kill, Breaks
        <4> DEFINE new == One(Head(todo))
        <4>3. new[n] = dest[n]
          BY <4>1, <2>2
        <4> HIDE DEF new
        <4>4. ASSUME dest' \in Between(new) PROVE dest'[n] = dest[n]
          <5>1. PICK S \in SUBSET Names, T \in SUBSET Names : dest' = Partly(new, S, T)
            BY <4>4 DEF Between
          <5>2. dest'[n] \in {new[n], dest[n], dest[n] \cup new[n]}
            BY <5>1, <2>1 DEF Partly
          <5> QED BY <5>2, <4>3
        <4> QED BY <4>2, <4>4 DEF new
      <3>2. CASE ~Writing
        BY <3>2, <2>6 DEF CallFails, Kill, Breaks
      <3> QED BY <3>1, <3>2
    <2>7. CASE RestoreWhole
      BY <2>7, <2>3 DEF RestoreWhole
    <2>8. CASE Meanwhile
      BY <2>8 DEF Meanwhile, Take, Gone, Pin, box, strays
    <2>9. CASE Resolve \/ NotFound \/ Ls \/ Select \/ Refuse \/ EntriesEnd \/ Stale
      BY <2>9 DEF Resolve, NotFound, Ls, Select, Refuse, EntriesEnd, Stale, box, strays
    <2>10. CASE KillOrphaning
      BY <2>10 DEF KillOrphaning
    <2>11. ~OrphanWrites
      BY <2>1 DEF OrphanWrites
    <2> QED BY <1>1, <2>4, <2>5, <2>6, <2>7, <2>8, <2>9, <2>10, <2>11 DEF Next, Verb, Meanwhile
  <1>2. Inv /\ [Next]_vars => [A]_vars
    BY <1>1
  <1> QED BY <1>2, Invariance, PTL DEF Spec, OnlyNamed
=============================================================================
