--------------------------- MODULE KeyChangeProofs ---------------------------
(***************************************************************************)
(* Theorems about KeyChange, for every number of processes and keys.       *)
(*                                                                         *)
(* The first part holds whatever the constants are: types, and the lock.   *)
(* The rest is about a kopia child that dies with its adapter (~Orphans).  *)
(* What is said there of the caller (~Retry: it does not run change-secret *)
(* again on a .next left behind) is named where it is needed.  KeyKept is  *)
(* false without either, and the third part says how far.                  *)
(***************************************************************************)
EXTENDS KeyChange, Naturals, TLAPS

(* Where the children, the keys that were read and the verbs can be. *)
Places ==
    \A p \in Procs :
        /\ kid[p] # "none" => pc[p] \in {"change", "idle"} /\ got[p] \in Keys
        /\ pc[p] \in {"check", "change", "promote", "promoteNext"} => got[p] \in Keys
        /\ pc[p] \in Changing => verb[p] = "change"
        /\ pc[p] = "idle" => verb[p] = "none"

OneChange ==
    \A p, q \in Procs : verb[p] = "change" /\ verb[q] = "change" => p = q

Base == TypeOK /\ LockHeld /\ Places /\ OneChange

-----------------------------------------------------------------------------
(* Part one: any constants.                                                *)

(* The initial state has its types, and the lock is free. *)
LEMMA BaseInit == Init => Base
BY KeyChangeAssumption
   DEF Init, Base, TypeOK, LockHeld, Places, OneChange, HasLock, Settling,
       Changing, Labels, Results

(* The steps that begin a process. *)
LEMMA BaseStart ==
    ASSUME Base, NEW p \in Procs,
           (\E k \in Keys \cup {Blank} : Request(p, k)) \/ Rerun(p) \/ Settle(p)
    PROVE  Base'
<1> USE KeyChangeAssumption
        DEF Base, TypeOK, LockHeld, Places, OneChange, HasLock, Settling,
            Changing, Labels, Results, Start, GoTo, NoChange
<1>1. ASSUME NEW k \in Keys \cup {Blank}, Request(p, k) PROVE Base'
      BY <1>1 DEF Request
<1>2. CASE Rerun(p) BY <1>2 DEF Rerun
<1>3. CASE Settle(p) BY <1>3 DEF Settle
<1> QED BY <1>1, <1>2, <1>3

(* The steps of SettleNext and settleLocked. *)
LEMMA BaseSettling ==
    ASSUME Base, NEW p \in Procs,
           \/ Stat(p) \/ TryLock(p) \/ ReadNext(p) \/ TryCurrent(p) \/ DropStale(p)
           \/ TryNext(p) \/ PromoteNext(p) \/ DropPromoted(p)
    PROVE  Base'
<1> USE KeyChangeAssumption
        DEF Base, TypeOK, LockHeld, Places, OneChange, HasLock, Settling,
            Changing, Labels, Results, repository, files, locals, GoTo, Return
<1>1. CASE Stat(p) BY <1>1 DEF Stat
<1>2. CASE TryLock(p) BY <1>2 DEF TryLock
<1>3. CASE ReadNext(p) BY <1>3 DEF ReadNext, Unsettled
<1>4. CASE TryCurrent(p) BY <1>4 DEF TryCurrent, Unsettled
<1>5. CASE DropStale(p) BY <1>5 DEF DropStale, RemoveNext
<1>6. CASE TryNext(p) BY <1>6 DEF TryNext, Unsettled
<1>7. CASE PromoteNext(p)
      BY <1>7 DEF PromoteNext, PromoteOK, PromoteFails, Unsettled
<1>8. CASE DropPromoted(p) BY <1>8 DEF DropPromoted, RemoveNext
<1> QED BY <1>1, <1>2, <1>3, <1>4, <1>5, <1>6, <1>7, <1>8

(* The steps of ChangeSecret, and the end of a process. *)
LEMMA BaseChanging ==
    ASSUME Base, NEW p \in Procs,
           \/ WaitLock(p) \/ ReadSecret(p) \/ Check(p) \/ Change(p) \/ Promote(p)
           \/ Drop(p) \/ Exit(p)
    PROVE  Base'
<1> USE KeyChangeAssumption
        DEF Base, TypeOK, LockHeld, Places, OneChange, HasLock, Settling,
            Changing, Labels, Results, repository, files, locals, GoTo, Return
<1>1. CASE WaitLock(p) BY <1>1 DEF WaitLock
<1>2. CASE ReadSecret(p) BY <1>2 DEF ReadSecret
<1>3. CASE Check(p) BY <1>3 DEF Check
<1>4. CASE Change(p) BY <1>4 DEF Change
<1>5. CASE Promote(p) BY <1>5 DEF Promote, PromoteOK, PromoteFails
<1>6. CASE Drop(p) BY <1>6 DEF Drop, RemoveNext
<1>7. CASE Exit(p) BY <1>7 DEF Exit, Forgotten
<1> QED BY <1>1, <1>2, <1>3, <1>4, <1>5, <1>6, <1>7

(* What kopia and the environment do. *)
LEMMA BaseOutside ==
    ASSUME Base, NEW p \in Procs, Kopia(p) \/ Kill(p) \/ CalmDown
    PROVE  Base'
<1> USE KeyChangeAssumption
        DEF Base, TypeOK, LockHeld, Places, OneChange, HasLock, Settling,
            Changing, Labels, Results, repository, files, locals
<1>1. CASE KopiaOpens(p) BY <1>1 DEF KopiaOpens
<1>2. CASE KopiaWrites(p) BY <1>2 DEF KopiaWrites
<1>3. CASE OrphanEnds(p) BY <1>3 DEF OrphanEnds
<1>4. CASE Kill(p) BY <1>4 DEF Kill, Forgotten
<1>5. CASE CalmDown BY <1>5 DEF CalmDown
<1> QED BY <1>1, <1>2, <1>3, <1>4, <1>5 DEF Kopia

(* Base is an invariant. *)
LEMMA BaseStep == Base /\ [Next]_vars => Base'
<1> SUFFICES ASSUME Base, [Next]_vars PROVE Base'
    OBVIOUS
<1>1. ASSUME NEW p \in Procs,
             \/ \E k \in Keys \cup {Blank} : Request(p, k)
             \/ Rerun(p) \/ Settle(p) \/ Step(p) \/ Kopia(p) \/ Kill(p)
      PROVE  Base'
  BY <1>1, BaseStart, BaseSettling, BaseChanging, BaseOutside DEF Step
<1>2. CASE CalmDown
  <2>1. CASE Procs = {}
    BY <1>2, <2>1 DEF CalmDown, Base, TypeOK, LockHeld, Places, OneChange,
                      repository, files, locals
  <2>2. CASE Procs # {}
    BY <1>2, <2>2, BaseOutside
  <2> QED BY <2>1, <2>2
<1>3. CASE UNCHANGED vars
  BY <1>3 DEF vars, Base, TypeOK, LockHeld, Places, OneChange
<1> QED BY <1>1, <1>2, <1>3 DEF Next

LEMMA BaseAlways == Spec => []Base
BY BaseInit, BaseStep, PTL DEF Spec

(* Every variable keeps its type: a password is always a key, although it  *)
(* is installed from what was read from .next.                             *)
THEOREM TypeCorrect == Spec => []TypeOK
<1>1. Base => TypeOK
  BY DEF Base
<1> QED BY <1>1, BaseAlways, PTL

(* lockSecret: two processes never act on .next at once, whatever is       *)
(* killed, retried or orphaned.                                            *)
THEOREM LockAlwaysHeld == Spec => []LockHeld
<1>1. Base => LockHeld
  BY DEF Base
<1> QED BY <1>1, BaseAlways, PTL

-----------------------------------------------------------------------------
(* What of "a change gets an answer" needs no fairness, for any constants: *)
(* a verb has a bounded number of steps, and the lock is never left with   *)
(* nobody to release it.                                                   *)

(* How far a verb is from its end, and its kopia child from its own. *)
Way(p) ==
    CASE pc[p] \in {"waitLock", "stat"}      -> 13
      [] pc[p] \in {"readSecret", "tryLock"} -> 12
      [] pc[p] = "check"                     -> 11
      [] pc[p] = "change"                    -> 10
      [] pc[p] = "readNext"                  -> 9
      [] pc[p] = "tryCurrent"                -> 8
      [] pc[p] \in {"dropStale", "tryNext"}  -> 7
      [] pc[p] = "promoteNext"               -> 6
      [] pc[p] \in {"promote", "dropPromoted"} -> 5
      [] pc[p] = "drop"                      -> 2
      [] pc[p] = "exit"                      -> 1
      [] OTHER                               -> 0

ChildWay(p) ==
    CASE kid[p] = "opening"               -> 3
      [] kid[p] = "writing"               -> 2
      [] kid[p] \in {"written", "refused"} -> 1
      [] OTHER                            -> 0

Left(p) == 4 * Way(p) + ChildWay(p)

LEMMA LeftType == \A p \in Procs : Way(p) \in Nat /\ ChildWay(p) \in 0 .. 3 /\ Left(p) \in Nat
<1> TAKE p \in Procs
<1>1. Way(p) \in Nat
  BY DEF Way
<1>2. ChildWay(p) \in 0 .. 3
  BY DEF ChildWay
<1> QED BY <1>1, <1>2 DEF Left

(* Less of the way is less, whatever the child does. *)
LEMMA LessWay ==
    ASSUME NEW v \in Nat, NEW w \in Nat, NEW c \in 0 .. 3, NEW d \in 0 .. 3,
           w < v \/ (w <= v /\ d < c)
    PROVE  4 * w + d < 4 * v + c
OBVIOUS

(* Who has the lock is on the way to release it, and who waits for kopia   *)
(* has a child.                                                            *)
Attended ==
    /\ \A p \in Procs : lock = p => pc[p] \in HasLock \cup {"exit"}
    /\ \A p \in Procs : pc[p] = "change" => kid[p] # "none"

LEMMA AttendedInit == Init => Attended
BY KeyChangeAssumption DEF Init, Attended

LEMMA AttendedStep ==
    ASSUME Base, Attended, [Next]_vars
    PROVE  Attended'
<1> USE KeyChangeAssumption
        DEF Base, TypeOK, LockHeld, Places, Attended, HasLock, Settling, Changing,
            repository, files, locals, GoTo, Return
<1>1. ASSUME NEW p \in Procs,
             (\E k \in Keys \cup {Blank} : Request(p, k)) \/ Rerun(p) \/ Settle(p)
      PROVE  Attended'
  BY <1>1 DEF Request, Rerun, Settle, Start
<1>2. ASSUME NEW p \in Procs,
             \/ Stat(p) \/ TryLock(p) \/ ReadNext(p) \/ TryCurrent(p) \/ DropStale(p)
             \/ TryNext(p) \/ PromoteNext(p) \/ DropPromoted(p)
      PROVE  Attended'
  BY <1>2 DEF Stat, TryLock, ReadNext, TryCurrent, DropStale, TryNext, PromoteNext,
              DropPromoted, Unsettled
<1>3. ASSUME NEW p \in Procs,
             \/ WaitLock(p) \/ ReadSecret(p) \/ Check(p) \/ Change(p) \/ Promote(p)
             \/ Drop(p) \/ Exit(p)
      PROVE  Attended'
  BY <1>3 DEF WaitLock, ReadSecret, Check, Change, Promote, Drop, Exit, Forgotten
<1>4. ASSUME NEW p \in Procs, Kopia(p) \/ Kill(p)
      PROVE  Attended'
  BY <1>4 DEF Kopia, KopiaOpens, KopiaWrites, OrphanEnds, Kill, Forgotten
<1>5. CASE CalmDown \/ UNCHANGED vars
  BY <1>5 DEF CalmDown, vars
<1> QED BY <1>1, <1>2, <1>3, <1>4, <1>5 DEF Next, Step

(* What a verb needs to go on by itself, or by its kopia child. *)
Able(p) ==
    \/ pc[p] \notin {"idle", "waitLock", "change"}
    \/ pc[p] = "waitLock" /\ lock = NoProc
    \/ pc[p] = "change" /\ kid[p] # "none"

(* Nobody waits for nothing: a verb at work can go on, or waits for the    *)
(* lock and whoever has that can.                                          *)
NobodyStuck ==
    \A p \in Procs : pc[p] # "idle" =>
        Able(p) \/ \E q \in Procs \ {p} : pc[p] = "waitLock" /\ lock = q /\ Able(q)

(* The lock of change-secret and of settling is never left with nobody to  *)
(* release it, whoever is killed and whatever its child goes on with.      *)
THEOREM NobodyEverStuck == Spec => []NobodyStuck
<1>1. Base /\ Attended => NobodyStuck
  <2> SUFFICES ASSUME Base, Attended, NEW p \in Procs, pc[p] # "idle", ~Able(p)
               PROVE  \E q \in Procs \ {p} : pc[p] = "waitLock" /\ lock = q /\ Able(q)
      BY DEF NobodyStuck
  <2>1. pc[p] = "waitLock" /\ lock \in Procs
    BY DEF Able, Attended, Base, TypeOK
  <2>2. pc[lock] \in HasLock \cup {"exit"}
    BY <2>1 DEF Attended
  <2>3. lock # p /\ Able(lock)
    BY <2>1, <2>2 DEF Able, Attended, HasLock, Settling, Changing
  <2> QED BY <2>1, <2>3
<1> QED BY BaseInit, BaseStep, AttendedInit, AttendedStep, <1>1, PTL DEF Spec

(* The steps of a verb, and of others. *)
LEMMA OwnStepNearer ==
    ASSUME Base, NEW p \in Procs, Step(p) \/ Kopia(p) \/ Kill(p)
    PROVE  Left(p)' < Left(p)
<1>1. /\ Way(p) \in Nat /\ ChildWay(p) \in 0 .. 3
      /\ Way(p)' \in Nat /\ ChildWay(p)' \in 0 .. 3
  BY DEF Way, ChildWay
<1>2. ASSUME \/ Way(p)' < Way(p)
             \/ Way(p)' <= Way(p) /\ ChildWay(p)' < ChildWay(p)
      PROVE  Left(p)' < Left(p)
  BY <1>1, <1>2, LessWay DEF Left
<1> USE DEF Base, TypeOK, repository, files, locals, GoTo, Return
<1>3. CASE \/ Stat(p) \/ TryLock(p) \/ ReadNext(p) \/ TryCurrent(p) \/ DropStale(p)
           \/ TryNext(p) \/ PromoteNext(p) \/ DropPromoted(p)
  <2>1. Way(p)' < Way(p)
    BY <1>3 DEF Stat, TryLock, ReadNext, TryCurrent, DropStale, TryNext, PromoteNext,
                DropPromoted, Unsettled, Way
  <2> QED BY <1>2, <2>1
<1>4. CASE \/ WaitLock(p) \/ ReadSecret(p) \/ Check(p) \/ Change(p) \/ Promote(p)
           \/ Drop(p) \/ Exit(p)
  <2>1. Way(p)' < Way(p)
    BY <1>4 DEF WaitLock, ReadSecret, Check, Change, Promote, Drop, Exit, Forgotten, Way
  <2> QED BY <1>2, <2>1
<1>5. CASE Kopia(p)
  <2>1. Way(p)' = Way(p) /\ ChildWay(p)' < ChildWay(p)
    BY <1>5 DEF Kopia, KopiaOpens, KopiaWrites, OrphanEnds, Way, ChildWay
  <2> QED BY <1>1, <1>2, <2>1
<1>6. CASE Kill(p)
  <2>1. Way(p)' < Way(p)
    BY <1>6 DEF Kill, Forgotten, Way, Labels, Settling, Changing
  <2> QED BY <1>2, <2>1
<1> QED BY <1>3, <1>4, <1>5, <1>6 DEF Step

LEMMA OthersLeave ==
    ASSUME Base, NEW p \in Procs, NEW q \in Procs \ {p},
           \/ \E k \in Keys \cup {Blank} : Request(p, k)
           \/ Rerun(p) \/ Settle(p) \/ Step(p) \/ Kopia(p) \/ Kill(p)
    PROVE  Left(q)' = Left(q)
<1> USE DEF Base, TypeOK, repository, files, locals, GoTo, Return
<1>1. UNCHANGED <<pc[q], kid[q]>>
  <2>1. CASE (\E k \in Keys \cup {Blank} : Request(p, k)) \/ Rerun(p) \/ Settle(p)
    BY <2>1 DEF Request, Rerun, Settle, Start
  <2>2. CASE Step(p)
    BY <2>2 DEF Step, Stat, TryLock, ReadNext, TryCurrent, DropStale, TryNext, PromoteNext,
                DropPromoted, Unsettled, WaitLock, ReadSecret, Check, Change, Promote,
                Drop, Exit, Forgotten
  <2>3. CASE Kopia(p) \/ Kill(p)
    BY <2>3 DEF Kopia, KopiaOpens, KopiaWrites, OrphanEnds, Kill, Forgotten
  <2> QED BY <2>1, <2>2, <2>3
<1> QED BY <1>1 DEF Left, Way, ChildWay

(* No verb goes round in settling: each of its steps, kopia's included,    *)
(* brings its end nearer, and only a verb that starts has more to do.      *)
THEOREM VerbsAreFinite ==
    Spec => /\ [](\A p \in Procs : Left(p) \in Nat)
            /\ [][\A p \in Procs :
                     /\ Step(p) \/ Kopia(p) \/ Kill(p) => Left(p)' < Left(p)
                     /\ Left(p) # 0 => Left(p)' <= Left(p)]_vars
<1> DEFINE Forth == \A p \in Procs :
                        /\ Step(p) \/ Kopia(p) \/ Kill(p) => Left(p)' < Left(p)
                        /\ Left(p) # 0 => Left(p)' <= Left(p)
<1>1. ASSUME Base, Next PROVE Forth
  <2> TAKE p \in Procs
  <2>1. Step(p) \/ Kopia(p) \/ Kill(p) => Left(p)' < Left(p)
    BY <1>1, OwnStepNearer
  <2>2. Left(p) \in Nat /\ Left(p)' \in Nat
    <3>1. /\ Way(p) \in Nat /\ ChildWay(p) \in Nat
          /\ Way(p)' \in Nat /\ ChildWay(p)' \in Nat
      BY DEF Way, ChildWay
    <3> QED BY <3>1 DEF Left
  <2>3. ASSUME Left(p) # 0 PROVE Left(p)' <= Left(p)
    <3>1. CASE \E q \in Procs :
                  \/ \E k \in Keys \cup {Blank} : Request(q, k)
                  \/ Rerun(q) \/ Settle(q) \/ Step(q) \/ Kopia(q) \/ Kill(q)
      <4>1. PICK q \in Procs :
                  \/ \E k \in Keys \cup {Blank} : Request(q, k)
                  \/ Rerun(q) \/ Settle(q) \/ Step(q) \/ Kopia(q) \/ Kill(q)
        BY <3>1
      <4>2. CASE q # p
        BY <2>2, <4>1, <4>2, <1>1, OthersLeave
      <4>3. CASE q = p
        <5>1. ~ \/ \E k \in Keys \cup {Blank} : Request(p, k)
                \/ Rerun(p) \/ Settle(p)
          BY <2>3 DEF Request, Rerun, Settle, Start, Left, Way, ChildWay
        <5> QED BY <2>1, <2>2, <4>1, <4>3, <5>1
      <4> QED BY <4>2, <4>3
    <3>2. CASE CalmDown
      <4>1. Left(p)' = Left(p)
        BY <3>2 DEF CalmDown, Left, Way, ChildWay
      <4> QED BY <2>2, <4>1
    <3> QED BY <1>1, <3>1, <3>2 DEF Next
  <2> QED BY <2>1, <2>3
<1>2. Base /\ [Next]_vars => [Forth]_vars
  BY <1>1
<1>3. \A p \in Procs : Left(p) \in Nat
  BY LeftType
<1> QED BY <1>2, <1>3, BaseAlways, PTL DEF Spec

-----------------------------------------------------------------------------
(* Part two: no orphans.                                                   *)

(* What a process that has the lock knows about the keys.                  *)
KeysKnown ==
    \A p \in Procs :
        /\ pc[p] \in {"tryCurrent", "tryNext", "promoteNext", "dropStale",
                      "dropPromoted", "check", "change", "promote"} =>
              next = got[p] /\ got[p] # NoKey
        /\ pc[p] \in {"promote", "promoteNext"} => repoKey = got[p]
        /\ pc[p] \in {"dropStale", "dropPromoted"} => repoKey = password
        /\ pc[p] = "drop" /\ result[p] = "ok" => next = password

(* What the kopia child of change-password knows, and what its adapter     *)
(* knows of it.                                                            *)
ChildKnown ==
    \A p \in Procs :
        /\ kid[p] # "none" => pc[p] = "change"
        /\ pc[p] = "change" => cur[p] = password
        /\ kid[p] = "writing" => repoKey = password
        /\ kid[p] = "written" => repoKey = got[p]
        /\ p \in refused => /\ verb[p] = "change"
                            /\ pc[p] \in Settling \cup {"drop", "exit"}

Known == KeysKnown /\ ChildKnown

KnownInv == Base /\ Known

(* Until the child has written, and for ever once it was refused, .next is *)
(* not the only copy of the key: the reason why giving it up is safe.  It  *)
(* is, where a caller runs change-secret again on a .next left behind.     *)
Unwritten(p) ==
    \/ pc[p] \in {"waitLock", "readSecret", "check", "drop"}
    \/ kid[p] \in {"opening", "writing", "refused"}
    \/ p \in refused

NotTheOnly ==
    \A p \in Procs : Unwritten(p) /\ next = repoKey => password = repoKey

Inv == KnownInv /\ NotTheOnly

(* What a step must keep. *)
Keeps == Known' /\ (Retry = FALSE /\ NotTheOnly => NotTheOnly')

(* At rest nobody knows anything. *)
LEMMA KnownInit == Init => Known /\ NotTheOnly
BY KeyChangeAssumption
   DEF Init, Known, KeysKnown, ChildKnown, NotTheOnly, Unwritten

(* Maison's own steps: the replacement it writes is new, or the box's own. *)
LEMMA KeepsStart ==
    ASSUME KnownInv, NEW p \in Procs,
           (\E k \in Keys \cup {Blank} : Request(p, k)) \/ Rerun(p) \/ Settle(p)
    PROVE  Keeps
<1> USE KeyChangeAssumption
        DEF Keeps, KnownInv, Known, Base, TypeOK, Places, LockHeld, KeysKnown, ChildKnown, NotTheOnly,
            Unwritten, HasLock, Settling, Changing, Start, GoTo, NoChange
<1>1. ASSUME NEW k \in Keys \cup {Blank}, Request(p, k) PROVE Keeps
      BY <1>1 DEF Request
<1>2. CASE Rerun(p) BY <1>2 DEF Rerun
<1>3. CASE Settle(p) BY <1>3 DEF Settle
<1> QED BY <1>1, <1>2, <1>3

(* The steps of settling: kopia is asked, and the answer stays true while  *)
(* the lock is held.                                                       *)
LEMMA KeepsSettling ==
    ASSUME KnownInv, NEW p \in Procs,
           \/ Stat(p) \/ TryLock(p) \/ ReadNext(p) \/ TryCurrent(p) \/ DropStale(p)
           \/ TryNext(p) \/ PromoteNext(p) \/ DropPromoted(p)
    PROVE  Keeps
<1> USE KeyChangeAssumption
        DEF Keeps, KnownInv, Known, Base, TypeOK, Places, LockHeld, KeysKnown, ChildKnown, NotTheOnly,
            Unwritten, HasLock, Settling, Changing, repository, files, locals, GoTo,
            Return
<1>1. CASE Stat(p) BY <1>1 DEF Stat
<1>2. CASE TryLock(p) BY <1>2 DEF TryLock
<1>3. CASE ReadNext(p) BY <1>3 DEF ReadNext, Unsettled
<1>4. CASE TryCurrent(p) BY <1>4 DEF TryCurrent, Unsettled
<1>5. CASE DropStale(p) BY <1>5 DEF DropStale, RemoveNext
<1>6. CASE TryNext(p) BY <1>6 DEF TryNext, Unsettled
<1>7. CASE PromoteNext(p)
      BY <1>7 DEF PromoteNext, PromoteOK, PromoteFails, Unsettled
<1>8. CASE DropPromoted(p) BY <1>8 DEF DropPromoted, RemoveNext
<1> QED BY <1>1, <1>2, <1>3, <1>4, <1>5, <1>6, <1>7, <1>8

(* The steps of ChangeSecret, and the end of a process. *)
LEMMA KeepsChanging ==
    ASSUME KnownInv, NEW p \in Procs,
           \/ WaitLock(p) \/ ReadSecret(p) \/ Check(p) \/ Change(p) \/ Promote(p)
           \/ Drop(p) \/ Exit(p)
    PROVE  Keeps
<1> USE KeyChangeAssumption
        DEF Keeps, KnownInv, Known, Base, TypeOK, Places, LockHeld, OneChange, KeysKnown, ChildKnown,
            NotTheOnly, Unwritten, HasLock, Settling, Changing, repository, files, locals,
            GoTo, Return
<1>1. CASE WaitLock(p) BY <1>1 DEF WaitLock
<1>2. CASE ReadSecret(p) BY <1>2 DEF ReadSecret
<1>3. CASE Check(p) BY <1>3 DEF Check
<1>4. CASE Change(p) BY <1>4 DEF Change
<1>5. CASE Promote(p) BY <1>5 DEF Promote, PromoteOK, PromoteFails
<1>6. CASE Drop(p) BY <1>6 DEF Drop, RemoveNext
<1>7. CASE Exit(p) BY <1>7 DEF Exit, Forgotten
<1> QED BY <1>1, <1>2, <1>3, <1>4, <1>5, <1>6, <1>7

(* kopia and the environment, when a child dies with its adapter. *)
LEMMA KeepsOutside ==
    ASSUME KnownInv, Orphans = FALSE, NEW p \in Procs, Kopia(p) \/ Kill(p)
    PROVE  Keeps
<1> USE KeyChangeAssumption
        DEF Keeps, KnownInv, Known, Base, TypeOK, Places, LockHeld, OneChange, KeysKnown, ChildKnown,
            NotTheOnly, Unwritten, HasLock, Settling, Changing, repository, files, locals
<1>1. CASE KopiaOpens(p) BY <1>1 DEF KopiaOpens
<1>2. CASE KopiaWrites(p) BY <1>2 DEF KopiaWrites
<1>3. CASE OrphanEnds(p) BY <1>3 DEF OrphanEnds
<1>4. CASE Kill(p) BY <1>4 DEF Kill, Forgotten
<1> QED BY <1>1, <1>2, <1>3, <1>4 DEF Kopia

(* Known is inductive, and so is NotTheOnly beside it without a retry. *)
LEMMA KeepsStep == ASSUME Orphans = FALSE PROVE KnownInv /\ [Next]_vars => Base' /\ Keeps
<1> SUFFICES ASSUME KnownInv, [Next]_vars PROVE Base' /\ Keeps
    OBVIOUS
<1>1. Base'
  BY BaseStep DEF KnownInv
<1>2. ASSUME NEW p \in Procs,
             \/ \E k \in Keys \cup {Blank} : Request(p, k)
             \/ Rerun(p) \/ Settle(p) \/ Step(p) \/ Kopia(p) \/ Kill(p)
      PROVE  Keeps
  BY <1>2, KeepsStart, KeepsSettling, KeepsChanging, KeepsOutside DEF Step
<1>3. ASSUME CalmDown PROVE Keeps
  BY <1>3 DEF CalmDown, Keeps, KnownInv, Known, KeysKnown, ChildKnown, NotTheOnly,
              Unwritten, Settling, repository, files, locals
<1>4. ASSUME UNCHANGED vars PROVE Keeps
  BY <1>4 DEF vars, Keeps, KnownInv, Known, KeysKnown, ChildKnown, NotTheOnly, Unwritten,
              Settling
<1> QED BY <1>1, <1>2, <1>3, <1>4 DEF Next

LEMMA KnownAlways == ASSUME Orphans = FALSE PROVE Spec => []KnownInv
<1>1. Init => KnownInv
  BY BaseInit, KnownInit DEF KnownInv
<1>2. KnownInv /\ [Next]_vars => KnownInv'
  BY KeepsStep DEF Keeps, KnownInv
<1> QED BY <1>1, <1>2, PTL DEF Spec

LEMMA InvAlways == ASSUME Retry = FALSE, Orphans = FALSE PROVE Spec => []Inv
<1>1. Init => Inv
  BY BaseInit, KnownInit DEF Inv, KnownInv
<1>2. Inv /\ [Next]_vars => Inv'
  BY KeepsStep DEF Inv, Keeps, KnownInv
<1> QED BY <1>1, <1>2, PTL DEF Spec

-----------------------------------------------------------------------------
(* The steps of KeyChange, seen from the keys alone.                       *)

Held == {password, next} \cap Keys

KeptOrChanged == UNCHANGED <<repoKey, Held>> \/ Custody!Next

(* Most steps change neither the repository's key nor a file. *)
LEMMA QuietStep ==
    ASSUME UNCHANGED <<repoKey, password, next>>
    PROVE  KeptOrChanged
BY DEF KeptOrChanged, Held

(* Removing .next forgets a key the repository does not ask for, unless    *)
(* repository.password holds it too.                                       *)
LEMMA RemoveForgets ==
    ASSUME TypeOK, RemoveNext, UNCHANGED <<repoKey, password>>,
           next = repoKey => password = repoKey
    PROVE  KeptOrChanged
<1>1. CASE next' = next
  BY <1>1 DEF KeptOrChanged, Held
<1>2. CASE next' = NoKey /\ (next \notin Keys \/ next = password)
  <2>1. Held' = Held
    BY <1>2, KeyChangeAssumption DEF Held
  <2> QED BY <2>1 DEF KeptOrChanged
<1>3. CASE next' = NoKey /\ next \in Keys /\ next # password
  <2>1. Held' = Held \ {next}
    BY <1>3, KeyChangeAssumption DEF Held
  <2>2. next # repoKey
    BY <1>3
  <2>3. Custody!Forget(next)
    BY <2>1, <2>2 DEF Custody!Forget, Held
  <2> QED BY <1>3, <2>3 DEF KeptOrChanged, Custody!Next
<1> QED BY <1>1, <1>2, <1>3 DEF RemoveNext, TypeOK

(* Promoting the key the repository asks for forgets the one it replaces.  *)
LEMMA PromoteForgets ==
    ASSUME TypeOK, NEW p \in Procs, UNCHANGED <<repoKey, next>>,
           password' \in {password, got[p]}, got[p] = next, got[p] = repoKey
    PROVE  KeptOrChanged
<1>1. CASE password' = password
  BY <1>1, QuietStep
<1>2. CASE password' = got[p] /\ password # got[p]
  <2>1. Held' = Held \ {password}
    BY <1>2 DEF Held
  <2>2. Custody!Forget(password)
    BY <1>2, <2>1 DEF Custody!Forget, Held
  <2> QED BY <2>2 DEF KeptOrChanged, Custody!Next, TypeOK
<1> QED BY <1>1, <1>2

(* Every step of KeyChange but the last of change-secret is a step of      *)
(* KeyCustody, or a stutter.                                               *)
LEMMA StepRefines ==
    ASSUME Orphans = FALSE, KnownInv, Next, \A p \in Procs : ~Drop(p)
    PROVE  KeptOrChanged
<1> USE DEF KnownInv, Base, Known, repository, files, locals
<1>1. ASSUME NEW p \in Procs, NEW k \in Keys \cup {Blank}, Request(p, k)
      PROVE  KeptOrChanged
  <2>1. CASE k \in Keys
    <3>1. Held' = Held \cup {k}
      BY <1>1, <2>1, KeyChangeAssumption DEF Request, Held
    <3>2. Custody!Offer(k)
      BY <1>1, <3>1 DEF Custody!Offer, Request, Held
    <3> QED BY <2>1, <3>2 DEF KeptOrChanged, Custody!Next
  <2>2. CASE k = Blank
    BY <1>1, <2>2, KeyChangeAssumption DEF Request, KeptOrChanged, Held
  <2> QED BY <2>1, <2>2
<1>2. ASSUME NEW p \in Procs,
             \/ Rerun(p) \/ Settle(p) \/ Stat(p) \/ TryLock(p) \/ ReadNext(p)
             \/ TryCurrent(p) \/ TryNext(p) \/ WaitLock(p) \/ ReadSecret(p) \/ Check(p)
             \/ Change(p) \/ Exit(p) \/ KopiaOpens(p) \/ OrphanEnds(p) \/ Kill(p)
      PROVE  KeptOrChanged
  <2>1. UNCHANGED <<repoKey, password, next>>
    BY <1>2 DEF Rerun, Settle, Stat, TryLock, ReadNext, TryCurrent, TryNext, WaitLock,
                ReadSecret, Check, Change, Exit, KopiaOpens, OrphanEnds, Kill
  <2> QED BY <2>1, QuietStep
<1>3. ASSUME NEW p \in Procs, DropStale(p) \/ DropPromoted(p)
      PROVE  KeptOrChanged
  BY <1>3, RemoveForgets DEF DropStale, DropPromoted, KeysKnown
<1>4. ASSUME NEW p \in Procs, PromoteNext(p) \/ Promote(p)
      PROVE  KeptOrChanged
  <2>1. got[p] = next /\ got[p] = repoKey
    BY <1>4 DEF PromoteNext, Promote, KeysKnown
  <2>2. password' \in {password, got[p]} /\ UNCHANGED <<repoKey, next>>
    BY <1>4 DEF PromoteNext, Promote, PromoteOK, PromoteFails
  <2> QED BY <2>1, <2>2, PromoteForgets
<1>5. ASSUME NEW p \in Procs, KopiaWrites(p)
      PROVE  KeptOrChanged
  <2>1. got[p] = next /\ got[p] \in Keys
    BY <1>5 DEF KopiaWrites, ChildKnown, KeysKnown, Places
  <2>2. Custody!Rekey(got[p])
    BY <1>5, <2>1 DEF KopiaWrites, Custody!Rekey, Held
  <2> QED BY <2>1, <2>2 DEF KeptOrChanged, Custody!Next
<1>6. ASSUME NEW p \in Procs, Step(p) \/ Kopia(p)
      PROVE  KeptOrChanged
  BY <1>2, <1>3, <1>4, <1>5, <1>6 DEF Step, Kopia
<1>7. ASSUME CalmDown PROVE KeptOrChanged
  BY <1>7, QuietStep DEF CalmDown
<1> QED BY <1>1, <1>2, <1>6, <1>7 DEF Next

(* And so is that one, where .next is not the only copy of the key. *)
LEMMA DropRefines ==
    ASSUME KnownInv, NEW p \in Procs, Drop(p), next = repoKey => password = repoKey
    PROVE  KeptOrChanged
BY RemoveForgets DEF Drop, KnownInv, Base, repository

LEMMA InvRefines ==
    ASSUME Orphans = FALSE, Inv, Next
    PROVE  KeptOrChanged
<1>1. CASE \A p \in Procs : ~Drop(p)
  BY <1>1, StepRefines DEF Inv
<1>2. ASSUME NEW p \in Procs, Drop(p) PROVE KeptOrChanged
  BY <1>2, DropRefines DEF Inv, NotTheOnly, Unwritten, Drop
<1> QED BY <1>1, <1>2

(* What a step of KeyCustody does to a box that holds the key. *)
LEMMA CustodyKeeps ==
    ASSUME Base, KeptOrChanged, KeyOnBox
    PROVE  KeyOnBox'
<1>1. repoKey \in Held
  BY DEF Base, TypeOK, KeyOnBox, Held
<1>2. repoKey' \in Held'
  BY <1>1 DEF KeptOrChanged, Custody!Next, Custody!Offer, Custody!Rekey,
              Custody!Forget, Held
<1> QED BY <1>2 DEF KeyOnBox, Held

(* KeyChange implements KeyCustody. *)
THEOREM Refinement == ASSUME Retry = FALSE, Orphans = FALSE PROVE Spec => CustodyKept
<1>1. Init => Custody!Init
  BY DEF Init, Custody!Init
<1>2. Inv /\ [Next]_vars => [Custody!Next]_(Custody!custody)
  <2> SUFFICES ASSUME Inv, [Next]_vars PROVE [Custody!Next]_(Custody!custody)
      OBVIOUS
  <2>1. CASE Next
    BY <2>1, InvRefines DEF KeptOrChanged, Held, Custody!custody
  <2>2. CASE UNCHANGED vars
    BY <2>2 DEF vars, Custody!custody
  <2> QED BY <2>1, <2>2
<1> QED BY <1>1, <1>2, InvAlways, PTL DEF Spec, CustodyKept, Custody!Spec

(* "Deleting either key on a guess is the one unrecoverable move": no step *)
(* of any number of processes, however they fail or are killed, takes the  *)
(* repository's key off a box that has it.                                 *)
THEOREM KeyNeverLost == ASSUME Retry = FALSE, Orphans = FALSE PROVE Spec => KeyKept
<1>1. Inv /\ [Next]_vars => [KeyOnBox => KeyOnBox']_vars
  BY InvRefines, CustodyKeeps DEF Inv, KnownInv
<1> QED BY <1>1, InvAlways, PTL DEF Spec, KeyKept

(* How far: whatever the caller runs again, the key can leave the box in   *)
(* one place only, where change-secret removes .next and does not answer 0. *)
THEOREM LostOnlyWhereGivenUp == ASSUME Orphans = FALSE PROVE Spec => GivenUpOnly
<1> DEFINE Given == \E p \in Procs : Drop(p) /\ result[p] # "ok"
<1>1. ASSUME KnownInv, Next, KeyOnBox, ~KeyOnBox' PROVE Given
  <2>1. ~KeptOrChanged
    BY <1>1, CustodyKeeps DEF KnownInv
  <2>2. PICK p \in Procs : Drop(p)
    BY <1>1, <2>1, StepRefines
  <2>3. ~(next = repoKey => password = repoKey)
    BY <1>1, <2>1, <2>2, DropRefines
  <2>4. result[p] # "ok"
    BY <1>1, <2>2, <2>3 DEF KnownInv, Known, KeysKnown, Drop
  <2> QED BY <2>2, <2>4
<1>2. KnownInv /\ [Next]_vars => [KeyOnBox /\ ~KeyOnBox' => Given]_vars
  BY <1>1
<1> QED BY <1>2, KnownAlways, PTL DEF Spec, GivenUpOnly

-----------------------------------------------------------------------------
(* What an interrupted change waits for.                                   *)

(* The key of .next is asked for only when the current one was refused,    *)
(* and that stays true while the lock is held.                             *)
Doubted == \A p \in Procs : pc[p] = "tryNext" => password # repoKey

LEMMA DoubtedStep ==
    ASSUME Orphans = FALSE PROVE KnownInv /\ Doubted /\ [Next]_vars => Doubted'
<1> SUFFICES ASSUME KnownInv, Doubted, [Next]_vars PROVE Doubted'
    OBVIOUS
<1> USE DEF KnownInv, Known, Base, TypeOK, LockHeld, HasLock, Settling, Changing, Doubted,
            repository, files, locals, GoTo
<1>1. ASSUME NEW p \in Procs,
             \/ \E k \in Keys \cup {Blank} : Request(p, k)
             \/ Rerun(p) \/ Settle(p)
      PROVE  Doubted'
  BY <1>1 DEF Request, Rerun, Settle, Start
<1>2. ASSUME NEW p \in Procs,
             \/ Stat(p) \/ TryLock(p) \/ ReadNext(p) \/ TryCurrent(p) \/ DropStale(p)
             \/ TryNext(p) \/ DropPromoted(p)
             \/ WaitLock(p) \/ ReadSecret(p) \/ Check(p) \/ Change(p) \/ Drop(p) \/ Exit(p)
      PROVE  Doubted'
  BY <1>2 DEF Stat, TryLock, ReadNext, TryCurrent, DropStale, TryNext, DropPromoted,
              WaitLock, ReadSecret, Check, Change, Drop, Exit, Unsettled, Forgotten
<1>3. ASSUME NEW p \in Procs, PromoteNext(p) \/ Promote(p) PROVE Doubted'
  <2>1. \A q \in Procs : q # p => pc[q] # "tryNext"
    BY <1>3 DEF PromoteNext, Promote
  <2> QED BY <1>3, <2>1 DEF PromoteNext, Promote, Unsettled
<1>4. ASSUME NEW p \in Procs, Kopia(p) \/ Kill(p) PROVE Doubted'
  <2>1. CASE KopiaWrites(p)
    <3>1. \A q \in Procs : q # p => pc[q] # "tryNext"
      BY <2>1 DEF KopiaWrites, ChildKnown
    <3>2. pc[p] # "tryNext"
      BY <2>1 DEF KopiaWrites, ChildKnown
    <3> QED BY <2>1, <3>1, <3>2 DEF KopiaWrites
  <2> QED BY <1>4, <2>1 DEF Kopia, KopiaOpens, OrphanEnds, Kill, Forgotten
<1>5. CASE CalmDown \/ UNCHANGED vars
  BY <1>5 DEF CalmDown, vars
<1> QED BY <1>1, <1>2, <1>3, <1>4, <1>5 DEF Next, Step

(* When nothing fails any more, whoever comes to its end leaves the box    *)
(* settled: the repository's key is in repository.password and .next is    *)
(* gone.  Only who found the lock taken, and the giving up after a retry,  *)
(* are no such end.                                                        *)
EndsSettled ==
    [][\A p \in Procs :
          (/\ calm /\ KeyOnBox
           /\ pc[p] \notin {"tryLock", "exit"} /\ pc'[p] = "exit"
           /\ ~(Retry /\ pc[p] = "drop" /\ result[p] # "ok"))
          => password' = repoKey' /\ next' = NoKey]_vars

(* The half of ChangeSettles that needs no fairness: a settling verb does  *)
(* not end with the work undone, for any number of processes and keys.     *)
THEOREM AlwaysEndsSettled == ASSUME Orphans = FALSE PROVE Spec => EndsSettled
<1> DEFINE Kept == Retry = FALSE => NotTheOnly
           Ends(p) == /\ calm /\ KeyOnBox
                      /\ pc[p] \notin {"tryLock", "exit"} /\ pc'[p] = "exit"
                      /\ ~(Retry /\ pc[p] = "drop" /\ result[p] # "ok")
           Settled == password' = repoKey' /\ next' = NoKey
<1>1. ASSUME KnownInv, Doubted, Kept, [Next]_vars, NEW p \in Procs, Ends(p) PROVE Settled
  <2> USE <1>1, KeyChangeAssumption
          DEF KnownInv, Known, Base, TypeOK, KeyOnBox, Fails, GoTo,
              repository, files, locals
  <2>1. calm /\ repoKey \in {password, next} /\ pc[p] \notin {"tryLock", "exit"}
        /\ pc'[p] = "exit"
    OBVIOUS
  <2>2. Step(p)
    <3>1. \A q \in Procs : q # p => ~Step(q)
      BY <2>1 DEF Step, Stat, TryLock, ReadNext, TryCurrent, DropStale, TryNext, PromoteNext,
                  DropPromoted, WaitLock, ReadSecret, Check, Change, Promote, Drop, Exit,
                  Unsettled, Forgotten
    <3>2. ASSUME NEW q \in Procs PROVE /\ ~Rerun(q) /\ ~Settle(q) /\ ~Kopia(q) /\ ~Kill(q)
                                      /\ \A k \in Keys \cup {Blank} : ~Request(q, k)
      BY <2>1 DEF Request, Rerun, Settle, Start, Kopia, KopiaOpens, KopiaWrites, OrphanEnds, Kill
    <3>3. ~CalmDown /\ ~UNCHANGED vars
      BY <2>1 DEF CalmDown, vars
    <3> QED BY <3>1, <3>2, <3>3 DEF Next
  <2>3. CASE Stat(p)
    BY <2>1, <2>3 DEF Stat
  <2>4. CASE ReadNext(p)
    BY <2>1, <2>4 DEF ReadNext, Unsettled
  <2>5. CASE TryCurrent(p)
    BY <2>1, <2>5 DEF TryCurrent, Unsettled, KeysKnown
  <2>6. CASE DropStale(p) \/ DropPromoted(p)
    BY <2>1, <2>6 DEF DropStale, DropPromoted, RemoveNext, KeysKnown
  <2>7. CASE TryNext(p)
    BY <2>1, <2>7 DEF TryNext, Unsettled, KeysKnown, Doubted
  <2>8. CASE ReadSecret(p)
    BY <2>1, <2>8 DEF ReadSecret
  <2>9. CASE Drop(p)
    <3>1. password = repoKey
      BY <2>1, <2>9 DEF Drop, KeysKnown, NotTheOnly, Unwritten
    <3> QED BY <2>1, <2>9, <3>1 DEF Drop, RemoveNext
  <2>10. CASE \/ TryLock(p) \/ PromoteNext(p) \/ WaitLock(p) \/ Check(p) \/ Change(p)
              \/ Promote(p) \/ Exit(p)
    BY <2>1, <2>10 DEF TryLock, PromoteNext, PromoteFails, WaitLock, Check, Change, Promote,
                       Exit, Forgotten
  <2> QED BY <2>2, <2>3, <2>4, <2>5, <2>6, <2>7, <2>8, <2>9, <2>10 DEF Step
<1>2. KnownInv /\ Doubted /\ Kept /\ [Next]_vars => [\A p \in Procs : Ends(p) => Settled]_vars
  BY <1>1
<1>3. Init => Doubted /\ Kept
  BY KnownInit DEF Init, Doubted
<1>4. KnownInv /\ Doubted /\ Kept /\ [Next]_vars => Doubted' /\ Kept'
  BY DoubtedStep, KeepsStep DEF Keeps
<1> QED BY <1>2, <1>3, <1>4, KnownAlways, PTL DEF Spec, EndsSettled

-----------------------------------------------------------------------------
(* The exit codes of change-secret.                                        *)

(* What holds from where the result 0 is chosen to where it is returned:   *)
(* the lock is kept until then, and with it what is installed.             *)
Answered ==
    \A p \in Procs :
        /\ result[p] # "none" => pc[p] \in {"drop", "exit"}
        /\ result[p] \in {"ok", "wrongPassword"} => lock = p
        /\ result[p] = "ok" =>
              /\ password = got[p]
              /\ cur[p] # NoKey => repoKey = got[p]
        /\ pc[p] \in {"idle", "waitLock", "readSecret", "check"} => cur[p] = NoKey
        /\ pc[p] = "dropPromoted" => password = got[p]

(* The same of a refusal: the key a refused child was started with stays   *)
(* the box's.  A change-secret that is run again and refused may find .next *)
(* good and install it before an error, so this needs NotTheOnly.          *)
Refusals ==
    \A p \in Procs :
        /\ result[p] = "wrongPassword" => cur[p] \in {NoKey, password}
        /\ p \in refused /\ pc[p] # "exit" => cur[p] = password

Answers == Answered' /\ (NotTheOnly /\ Refusals => Refusals')

LEMMA AnsweredInit == Init => Answered /\ Refusals
BY KeyChangeAssumption DEF Init, Answered, Refusals

(* Nothing is answered before a change has run. *)
LEMMA AnswersStart ==
    ASSUME KnownInv, Answered, NEW p \in Procs,
           (\E k \in Keys \cup {Blank} : Request(p, k)) \/ Rerun(p) \/ Settle(p)
    PROVE  Answers
<1> USE DEF KnownInv, Base, TypeOK, Answers, Answered, Refusals, Start, GoTo
<1>1. ASSUME NEW k \in Keys \cup {Blank}, Request(p, k) PROVE Answers
      BY <1>1 DEF Request
<1>2. CASE Rerun(p) BY <1>2 DEF Rerun
<1>3. CASE Settle(p) BY <1>3 DEF Settle
<1> QED BY <1>1, <1>2, <1>3

(* A refused process promotes nothing but the key the box has already, by  *)
(* NotTheOnly.                                                             *)
LEMMA AnswersSettling ==
    ASSUME KnownInv, Answered, NEW p \in Procs,
           \/ Stat(p) \/ TryLock(p) \/ ReadNext(p) \/ TryCurrent(p) \/ DropStale(p)
           \/ TryNext(p) \/ PromoteNext(p) \/ DropPromoted(p)
    PROVE  Answers
<1> USE KeyChangeAssumption
        DEF KnownInv, Base, TypeOK, LockHeld, HasLock, Settling, Changing, Answers,
            Answered, Refusals, repository, files, locals, GoTo, Return
<1>1. CASE Stat(p) BY <1>1 DEF Stat
<1>2. CASE TryLock(p) BY <1>2 DEF TryLock
<1>3. CASE ReadNext(p) BY <1>3 DEF ReadNext, Unsettled, Known, ChildKnown
<1>4. CASE TryCurrent(p) BY <1>4 DEF TryCurrent, Unsettled, Known, ChildKnown
<1>5. CASE DropStale(p) BY <1>5 DEF DropStale, Known, ChildKnown
<1>6. CASE TryNext(p) BY <1>6 DEF TryNext, Unsettled, Known, ChildKnown
<1>7. CASE PromoteNext(p)
  <2>1. NotTheOnly /\ p \in refused => password = got[p]
    BY <1>7 DEF PromoteNext, Known, KeysKnown, NotTheOnly, Unwritten
  <2>2. \A q \in Procs : q # p => pc[q] \notin HasLock /\ lock # q
    BY <1>7 DEF PromoteNext
  <2> QED BY <1>7, <2>1, <2>2 DEF PromoteNext, PromoteOK, PromoteFails, Unsettled,
                                  Known, ChildKnown
<1>8. CASE DropPromoted(p)
  BY <1>8 DEF DropPromoted, Known, KeysKnown, ChildKnown
<1> QED BY <1>1, <1>2, <1>3, <1>4, <1>5, <1>6, <1>7, <1>8

(* The steps of ChangeSecret, and the end of a process. *)
LEMMA AnswersChanging ==
    ASSUME KnownInv, Answered, NEW p \in Procs,
           \/ WaitLock(p) \/ ReadSecret(p) \/ Check(p) \/ Change(p) \/ Promote(p)
           \/ Drop(p) \/ Exit(p)
    PROVE  Answers
<1> USE KeyChangeAssumption
        DEF KnownInv, Base, TypeOK, LockHeld, HasLock, Settling, Changing, Answers,
            Answered, Refusals, Known, ChildKnown, KeysKnown, repository, files, locals,
            GoTo, Return
<1>1. CASE WaitLock(p) BY <1>1 DEF WaitLock
<1>2. CASE ReadSecret(p) BY <1>2 DEF ReadSecret
<1>3. CASE Check(p) BY <1>3 DEF Check
<1>4. CASE Change(p) BY <1>4 DEF Change
<1>5. CASE Promote(p) BY <1>5 DEF Promote, PromoteOK, PromoteFails
<1>6. CASE Drop(p) BY <1>6 DEF Drop
<1>7. CASE Exit(p) BY <1>7 DEF Exit, Forgotten
<1> QED BY <1>1, <1>2, <1>3, <1>4, <1>5, <1>6, <1>7

(* A child writes only while its adapter has the lock: not between another *)
(* one's result and its exit.                                              *)
LEMMA AnswersOutside ==
    ASSUME KnownInv, Answered, Orphans = FALSE, NEW p \in Procs, Kopia(p) \/ Kill(p)
    PROVE  Answers
<1> USE KeyChangeAssumption
        DEF KnownInv, Base, TypeOK, LockHeld, HasLock, Settling, Changing, Answers,
            Answered, Refusals, Known, ChildKnown, repository, files, locals
<1>1. CASE KopiaOpens(p) BY <1>1 DEF KopiaOpens
<1>2. CASE KopiaWrites(p) BY <1>2 DEF KopiaWrites
<1>3. CASE OrphanEnds(p) BY <1>3 DEF OrphanEnds
<1>4. CASE Kill(p) BY <1>4 DEF Kill, Forgotten
<1> QED BY <1>1, <1>2, <1>3, <1>4 DEF Kopia

LEMMA AnswersStep ==
    ASSUME Orphans = FALSE PROVE KnownInv /\ Answered /\ [Next]_vars => Answers
<1> SUFFICES ASSUME KnownInv, Answered, [Next]_vars PROVE Answers
    OBVIOUS
<1>1. ASSUME NEW p \in Procs,
             \/ \E k \in Keys \cup {Blank} : Request(p, k)
             \/ Rerun(p) \/ Settle(p) \/ Step(p) \/ Kopia(p) \/ Kill(p)
      PROVE  Answers
  BY <1>1, AnswersStart, AnswersSettling, AnswersChanging, AnswersOutside DEF Step
<1>2. CASE CalmDown \/ UNCHANGED vars
  BY <1>2 DEF CalmDown, vars, Answers, Answered, Refusals, repository, files, locals
<1> QED BY <1>1, <1>2 DEF Next

(* Exit code 0 of change-secret: the requested key is installed, and is    *)
(* the repository's if kopia was asked to change it, whatever the caller   *)
(* runs again.                                                             *)
THEOREM OkAlwaysChanged == ASSUME Orphans = FALSE PROVE Spec => []OkMeansChanged
<1>1. Init => Answered
  BY AnsweredInit
<1>2. KnownInv /\ Answered /\ [Next]_vars => Answered'
  BY AnswersStep DEF Answers
<1>3. Answered => OkMeansChanged
  BY DEF Answered, OkMeansChanged
<1> QED BY <1>1, <1>2, <1>3, KnownAlways, PTL DEF Spec

(* Exit code 14 of change-secret: the key that was refused is still the    *)
(* key of the box.                                                         *)
THEOREM WrongAlwaysUnchanged ==
    ASSUME Retry = FALSE, Orphans = FALSE PROVE Spec => []WrongMeansUnchanged
<1>1. Init => Answered /\ Refusals
  BY AnsweredInit
<1>2. Inv /\ Answered /\ Refusals /\ [Next]_vars => (Answered /\ Refusals)'
  BY AnswersStep DEF Answers, Inv
<1>3. Refusals => WrongMeansUnchanged
  BY DEF Refusals, WrongMeansUnchanged
<1> QED BY <1>1, <1>2, <1>3, InvAlways, PTL DEF Spec
=============================================================================
