---------------------------- MODULE BackupProofs ----------------------------
(***************************************************************************)
(* What commit, abort and pinAll answer is true, a backup is taken under   *)
(* the rules it was given, and a committed one is kept.  For any number of *)
(* backups, faults and requests, any patterns and any retention.           *)
(***************************************************************************)
EXTENDS Backup, FiniteSetTheorems, WellFoundedInduction, TLAPS

(* sn is x, under the id it had or the one a pin gave it. *)
Kin(x, sn) == sn = x \/ sn = [x EXCEPT !.pinned = TRUE]

(* Maison's job is before or in one of its snapshots; it has not failed.   *)
Taking == pc["maison"] \in {"clear", "add", "create"}
Working == Taking \/ pc["maison"] \in {"list", "next"}

Places ==
    /\ pc["maison"] \in {"idle", "clear", "add", "create", "list", "next",
                         "failed", "abortList", "abortNext"}
    /\ pc["user"] \in {"idle", "abortList", "abortNext"}
    /\ pc["recover"] \in {"idle", "pinNext", "over"}

(* A backup takes two snapshots at most, one after the other. *)
Clock ==
    /\ \A sn \in snaps \cup counted \cup todo["recover"] \cup orphans : sn.at <= clock
    /\ clock <= 2 * stamp["maison"]
    /\ pc["maison"] # "idle" => stamp["maison"] \in Stamps
    /\ Taking => clock + 3 <= 2 * stamp["maison"] + pass
    /\ \A x, y \in snaps : x.at = y.at => x = y
    /\ \A x, y \in orphans : x.at = y.at => x = y
    /\ \A x \in orphans : \A y \in snaps \cup counted \cup todo["recover"] : x.at # y.at

(* A backup that is taken has a stamp nobody has asked to delete, and no   *)
(* orphan is at work on it.                                                *)
Fresh ==
    /\ \A sn \in snaps \cup orphans : sn.stamp <= stamp["maison"]
    /\ stamp["user"] <= stamp["maison"]
    /\ \A ans \in cleaned : ans.stamp <= stamp["maison"]
    /\ Taking => /\ \A sn \in snaps : sn.stamp = stamp["maison"] => IsPassOne(sn)
                 /\ stamp["user"] < stamp["maison"]
                 /\ \A ans \in cleaned : ans.stamp # stamp["maison"]
    /\ Working => \A sn \in orphans : sn.stamp # stamp["maison"]

(* The policy holds what was asked by the time a snapshot is taken, if no  *)
(* orphan has set it meanwhile.                                            *)
Policy ==
    /\ pc["maison"] = "add" => upset \/ ignore = {}
    /\ pc["maison"] = "create" => upset \/ ignore = want

(* While no deletion has failed, what is left of the stamp is in the list, *)
(* or was when it was taken, or was still being taken then.                *)
Deleting ==
    \A a \in {"maison", "user"} : pc[a] = "abortNext" /\ a \notin errs =>
        \A sn \in Carrying(stamp[a]) :
            sn.at \in missed[a] \/ \E x \in todo[a] : Kin(x, sn)

(* What an orphan may still save was begun under the rules of its backup,  *)
(* and was being taken when an abort of its stamp got its list.            *)
Straying ==
    /\ \A sn \in orphans : sn.stamp = stamp["maison"] => sn.upset \/ sn.rules = want
    /\ \A a \in {"maison", "user"} : pc[a] = "abortNext" =>
          \A sn \in orphans : sn.stamp = stamp[a] => sn.at \in missed[a]
    /\ \A ans \in cleaned : ans.looked =>
          \A sn \in orphans : sn.stamp = ans.stamp => sn.at \in ans.missed

(* A commit's snapshot is the newest there can be, so that no orphan that  *)
(* saves an older one makes retention take it.                             *)
Newest ==
    pc["maison"] \in {"list", "next"} =>
        \A sn \in snaps : sn.stamp = stamp["maison"] => IsPassOne(sn) \/ sn.at = clock

(* A delete is about the stamp it was asked for. *)
Asked ==
    /\ pc["user"] # "idle" => stamp["user"] \in unwanted
    /\ pc["user"] # "abortNext" => todo["user"] = {}
    /\ \A sn \in todo["user"] : sn.stamp = stamp["user"]

(* The consistent snapshots a commit has listed are there, whatever a pin  *)
(* made of their ids, unless they were asked away.                         *)
Committing ==
    pc["maison"] = "next" =>
        /\ \A sn \in todo["maison"] \cup found : sn.stamp = stamp["maison"]
        /\ \A sn \in found : ~IsPassOne(sn)
        /\ stamp["maison"] \in unwanted
           \/ \A sn \in todo["maison"] \cup found :
                 IsPassOne(sn) \/ \E y \in snaps : Kin(sn, y)

Inv ==
    /\ TypeOK
    /\ Places /\ Clock /\ Fresh /\ Policy /\ Deleting /\ Asked /\ Committing
    /\ Straying /\ Newest
    /\ RulesExact /\ AbortClean /\ PinHonest

-----------------------------------------------------------------------------
(* Lists and snapshots.                                                    *)

(* A list has an oldest snapshot. *)
LEMMA OldestIn ==
    ASSUME NEW S \in SUBSET Snapshot, S # {}
    PROVE  Oldest(S) \in S /\ \A other \in S : Oldest(S).at <= other.at
  <1> DEFINE T == {sn.at : sn \in S}
  <1>1. T \subseteq Nat /\ T # {}
    BY BackupAssumption DEF Snapshot, Times
  <1>2. PICK t \in T : \A u \in T : ~ (<<u, t>> \in OpToRel(<, Nat))
    BY <1>1, NatLessThanWellFounded, WFMin
  <1>3. PICK sn \in S : sn.at = t
    BY <1>2
  <1>4. \A other \in S : sn.at <= other.at
    <2> TAKE other \in S
    <2>1. other.at \in T /\ other.at \in Nat /\ t \in Nat
      BY <1>1, <1>2
    <2>2. ~ (<<other.at, t>> \in OpToRel(<, Nat))
      BY <1>2, <2>1
    <2>3. ~ (other.at < t)
      BY <2>1, <2>2 DEF OpToRel
    <2> QED
      BY <1>3, <2>1, <2>3
  <1> QED
    BY <1>3, <1>4 DEF Oldest

(* Who goes somewhere moves nobody else. *)
LEMMA Goes ==
    ASSUME TypeOK, NEW a \in Actors,
           NEW there \in {"idle", "clear", "add", "create", "list", "next", "failed",
                          "abortList", "abortNext", "pinList", "pinNext", "over"},
           GoTo(a, there)
    PROVE  /\ pc' \in [Actors -> {"idle", "clear", "add", "create", "list", "next",
                                  "failed", "abortList", "abortNext", "pinList",
                                  "pinNext", "over"}]
           /\ pc'[a] = there /\ \A b \in Actors \ {a} : pc'[b] = pc[b]
  BY DEF TypeOK, GoTo

LEMMA ThreeActors == "maison" \in Actors /\ "user" \in Actors /\ "recover" \in Actors
  BY DEF Actors

(* A list of one actor is no other's. *)
LEMMA Lists ==
    ASSUME TypeOK, NEW a \in Actors, NEW S \in SUBSET Snapshot,
           todo' = [todo EXCEPT ![a] = S]
    PROVE  /\ todo' \in [Actors -> SUBSET Snapshot]
           /\ todo'[a] = S /\ \A b \in Actors \ {a} : todo'[b] = todo[b]
  BY DEF TypeOK

LEMMA Handles ==
    ASSUME TypeOK, NEW a \in Actors, NEW S, Handled(a, S)
    PROVE  /\ todo' \in [Actors -> SUBSET Snapshot]
           /\ todo'[a] = todo[a] \ S /\ \A b \in Actors \ {a} : todo'[b] = todo[b]
  BY DEF TypeOK, Handled

LEMMA Faulted ==
    ASSUME TypeOK, Fine \/ Fault
    PROVE  faults' \in 0 .. MaxFaults
  BY BackupAssumption DEF TypeOK, Fine, Fault

LEMMA Deleted ==
    ASSUME TypeOK, NEW sn, NEW ok \in BOOLEAN, KopiaDelete(sn, ok)
    PROVE  /\ snaps' \in {snaps, snaps \ {sn}}
           /\ ok => sn \in snaps /\ snaps' = snaps \ {sn}
           /\ faults' \in 0 .. MaxFaults
  BY Faulted DEF KopiaDelete

(* A pin gives some snapshots another id and leaves the rest. *)
LEMMA Pins ==
    ASSUME TypeOK, NEW ids, NEW ok \in BOOLEAN, KopiaPin(ids, ok)
    PROVE  /\ \E S \in SUBSET snaps :
                 /\ snaps' = (snaps \ S) \cup {[sn EXCEPT !.pinned = TRUE] : sn \in S}
                 /\ ok => S = ids
           /\ faults' \in 0 .. MaxFaults
  BY Faulted DEF KopiaPin, Pinned

(* A pin changes the id of a snapshot and nothing else.                    *)
LEMMA PinKeeps ==
    ASSUME NEW sn \in Snapshot
    PROVE  LET p == [sn EXCEPT !.pinned = TRUE]
           IN  /\ p \in Snapshot /\ p.pinned = TRUE
               /\ p.at = sn.at /\ p.stamp = sn.stamp /\ p.pass = sn.pass /\ p.rules = sn.rules
               /\ p.upset = sn.upset
               /\ [p EXCEPT !.pinned = TRUE] = p
  BY DEF Snapshot, Times

(* A pinned snapshot and the one it was carry the same tags.               *)
LEMMA KinAlike ==
    ASSUME NEW x \in Snapshot, NEW sn, Kin(x, sn)
    PROVE  /\ sn \in Snapshot
           /\ sn.at = x.at /\ sn.stamp = x.stamp /\ sn.pass = x.pass
           /\ Kin(x, [sn EXCEPT !.pinned = TRUE])
  BY PinKeeps DEF Kin

(* The next snapshot is one of the snapshots there can be.                 *)
LEMMA Takes ==
    ASSUME TypeOK, clock < 2 * MaxBackups, stamp["maison"] # 0
    PROVE  /\ Taken \in Snapshot /\ Taken.at = clock + 1 /\ Taken.stamp = stamp["maison"]
           /\ Taken.pass = pass /\ Taken.rules = ignore /\ Taken.upset = upset
  <1>1. stamp["maison"] \in Stamps
    BY ThreeActors DEF TypeOK
  <1>2. clock + 1 \in 1 .. 2 * MaxBackups
    BY BackupAssumption DEF TypeOK
  <1> QED
    BY <1>1, <1>2 DEF TypeOK, Taken, Snapshot, Times

(* A create adds at most the snapshot it takes.                            *)
LEMMA Creates ==
    ASSUME NEW sn, KopiaCreate(sn)
    PROVE  snaps' \subseteq snaps \cup {sn}
  BY DEF KopiaCreate

LEMMA InitInv == Init => Inv
  <1> SUFFICES ASSUME Init PROVE Inv
    OBVIOUS
  <1>1. /\ stamp["maison"] = 0 /\ stamp["user"] = 0 /\ todo["user"] = {}
        /\ todo["recover"] = {} /\ \A a \in Actors : pc[a] = "idle"
    BY ThreeActors DEF Init
  <1>2. TypeOK
    <2>1. latest \in Latest \cup {2, Inherited} /\ latest >= 2
      BY BackupAssumption DEF Init
    <2>2. Cardinality(found) <= 1
      BY FS_EmptySet DEF Init
    <2>3. missed \in [Actors -> SUBSET Times] /\ todo \in [Actors -> SUBSET Snapshot]
      BY DEF Init
    <2>4. latest = Inherited /\ clock \in 0 .. 2 * MaxBackups
      BY BackupAssumption DEF Init
    <2>5. /\ pc \in [Actors -> {"idle", "clear", "add", "create", "list", "next",
                                "failed", "abortList", "abortNext", "pinList",
                                "pinNext", "over"}]
          /\ stamp \in [Actors -> Stamps \cup {0}]
      BY DEF Init
    <2>6. /\ snaps = {} /\ ignore = {} /\ orphans = {} /\ strayRules = {}
          /\ errs = {} /\ pass \in {1, 2} /\ want = {} /\ found = {} /\ counted = {}
          /\ done = {} /\ unwanted = {} /\ cleaned = {}
          /\ asks \in 0 .. MaxAsks /\ faults \in 0 .. MaxFaults
      BY BackupAssumption DEF Init
    <2>7. upset \in BOOLEAN
      BY DEF Init
    <2> QED
      BY <2>1, <2>2, <2>3, <2>4, <2>5, <2>6, <2>7 DEF TypeOK
  <1> QED
    BY <1>1, <1>2, ThreeActors
    DEF Init, Inv, Places, Clock, Fresh, Policy, Deleting, Asked, Committing, Straying,
        Newest, RulesExact, AbortClean, PinHonest, Taking, Working, Carrying

-----------------------------------------------------------------------------
(* Maison's job.                                                           *)

LEMMA Begins ==
    ASSUME Inv, NEW p \in {1, 2}, NEW rules \in SUBSET Patterns, Begin(p, rules)
    PROVE  Inv'
  <1> USE ThreeActors DEF Inv, strays
  <1>1. /\ pc["maison"] = "idle" /\ stamp["maison"] < MaxBackups
        /\ stamp' = [stamp EXCEPT !["maison"] = stamp["maison"] + 1]
        /\ pass' = p /\ want' = rules /\ GoTo("maison", "clear")
        /\ UNCHANGED <<snaps, policy, clock, todo, errs, found, answers, asked, strays,
                       faults>>
    BY DEF Begin, At
  <1>2. /\ pc' \in [Actors -> {"idle", "clear", "add", "create", "list", "next",
                               "failed", "abortList", "abortNext", "pinList",
                               "pinNext", "over"}]
        /\ pc'["maison"] = "clear" /\ pc'["user"] = pc["user"]
        /\ pc'["recover"] = pc["recover"]
    BY <1>1, Goes DEF Actors
  <1>3. /\ stamp' \in [Actors -> Stamps \cup {0}]
        /\ stamp'["maison"] = stamp["maison"] + 1 /\ stamp'["user"] = stamp["user"]
        /\ stamp["maison"] \in Nat /\ stamp["user"] \in Nat
    BY <1>1, BackupAssumption DEF TypeOK, Stamps
  <1>4. TypeOK'
    BY <1>1, <1>2, <1>3 DEF TypeOK, policy, answers, asked
  <1>5. Places' /\ Policy' /\ Asked' /\ Committing' /\ Deleting'
    BY <1>1, <1>2, <1>3
    DEF Places, Policy, Asked, Committing, Deleting, Carrying, policy, answers, asked
  <1>6. Clock'
    BY <1>1, <1>2, <1>3 DEF Clock, Taking, TypeOK, answers
  <1>7. \A sn \in snaps \cup orphans : sn.stamp \in Nat /\ sn.stamp <= stamp["maison"]
    BY BackupAssumption DEF Fresh, TypeOK, Snapshot, Stamps
  <1>8. \A ans \in cleaned : ans.stamp \in Nat /\ ans.stamp <= stamp["maison"]
    BY BackupAssumption DEF Fresh, TypeOK, Answer, Stamps
  <1>9. Fresh' /\ RulesExact' /\ AbortClean' /\ PinHonest'
    BY <1>1, <1>2, <1>3, <1>7, <1>8
    DEF Fresh, Taking, Working, RulesExact, AbortClean, PinHonest, Carrying, answers
  <1>10. Straying' /\ Newest'
    BY <1>1, <1>2, <1>3, <1>7 DEF Straying, Newest, answers
  <1> QED
    BY <1>4, <1>5, <1>6, <1>9, <1>10

(* Where nothing is taken and no abort gets a list, no orphan is new, and  *)
(* what a commit has listed stays the newest.                              *)
LEMMA StraysStay ==
    ASSUME Inv, snaps' \subseteq snaps, orphans' \subseteq orphans,
           UNCHANGED <<missed, cleaned, clock, want>>,
           stamp'["maison"] = stamp["maison"],
           \A a \in {"maison", "user"} :
               pc'[a] = "abortNext" => pc[a] = "abortNext" /\ stamp'[a] = stamp[a],
           pc'["maison"] \in {"list", "next"} => pc["maison"] \in {"list", "next"}
    PROVE  Straying' /\ Newest'
  BY DEF Inv, Straying, Newest

LEMMA Ignores == ASSUME Inv, ClearIgnore \/ AddIgnore PROVE Inv'
  <1> USE ThreeActors DEF Inv, strays
  <1>1. /\ pc["maison"] \in {"clear", "add"}
        /\ UNCHANGED <<snaps, latest, orphans, strayRules, clock, stamp, todo, missed, errs,
                       job, answers, asked>>
        /\ upset' \in BOOLEAN
    BY DEF ClearIgnore, AddIgnore, At, TypeOK
  <1>2. faults' \in 0 .. MaxFaults
    BY Faulted DEF ClearIgnore, AddIgnore
  <1>3. PICK there \in {"add", "create", "failed"} :
           /\ GoTo("maison", there)
           /\ ignore' \in SUBSET Patterns
           /\ there = "add" => ignore' = {}
           /\ there = "create" => upset' \/ ignore' = want
    <2>1. CASE ClearIgnore
      <3>1. CASE Fine /\ ignore' = {} /\ GoTo("maison", IF want = {} THEN "create" ELSE "add")
        BY <3>1
      <3>2. CASE ignore' \in {ignore, {}} /\ GoTo("maison", "failed")
        BY <3>2 DEF TypeOK
      <3> QED
        BY <2>1, <3>1, <3>2 DEF ClearIgnore
    <2>2. CASE AddIgnore
      <3>1. (upset \/ ignore = {}) /\ want \in SUBSET Patterns /\ UNCHANGED upset
        BY <2>2 DEF AddIgnore, At, Policy, TypeOK
      <3>2. upset \/ ignore \cup want = want
        BY <3>1
      <3>3. CASE ignore' = ignore \cup want /\ GoTo("maison", "create")
        BY <3>1, <3>2, <3>3 DEF TypeOK
      <3>4. CASE ignore' \in {ignore, ignore \cup want} /\ GoTo("maison", "failed")
        BY <3>1, <3>4 DEF TypeOK
      <3> QED
        BY <2>2, <3>3, <3>4 DEF AddIgnore
    <2> QED
      BY <2>1, <2>2
  <1>4. /\ pc' \in [Actors -> {"idle", "clear", "add", "create", "list", "next",
                               "failed", "abortList", "abortNext", "pinList",
                               "pinNext", "over"}]
        /\ pc'["maison"] = there /\ pc'["user"] = pc["user"]
        /\ pc'["recover"] = pc["recover"]
    BY <1>3, Goes DEF Actors
  <1>5. TypeOK'
    BY <1>1, <1>2, <1>3, <1>4 DEF TypeOK, job, answers, asked
  <1>6. Places' /\ Policy' /\ Asked' /\ Committing' /\ Deleting'
    BY <1>1, <1>3, <1>4
    DEF Places, Policy, Asked, Committing, Deleting, Carrying, job, answers, asked
  <1>7. Clock' /\ Fresh'
    BY <1>1, <1>3, <1>4 DEF Clock, Fresh, Taking, Working, job, answers
  <1>8. RulesExact' /\ AbortClean' /\ PinHonest'
    BY <1>1 DEF RulesExact, AbortClean, PinHonest, Carrying, job, answers
  <1>9. Straying' /\ Newest'
    BY <1>1, <1>3, <1>4, StraysStay DEF job, answers
  <1> QED
    BY <1>5, <1>6, <1>7, <1>8, <1>9

LEMMA TakesOne == ASSUME Inv, Create PROVE Inv'
  <1> USE ThreeActors DEF Inv, strays
  <1>1. /\ pc["maison"] = "create"
        /\ UNCHANGED <<policy, stamp, todo, errs, want, found, answers, asked, strays>>
    BY DEF Create, At
  <1>2. faults' \in 0 .. MaxFaults
    BY Faulted DEF Create
  <1>3. /\ stamp["maison"] \in Stamps /\ stamp["maison"] <= MaxBackups
        /\ pass \in {1, 2} /\ clock \in Nat /\ clock + 3 <= 2 * stamp["maison"] + pass
        /\ upset \/ ignore = want
        /\ stamp["maison"] \in Nat /\ stamp["user"] \in Nat
        /\ stamp["user"] < stamp["maison"]
        /\ \A ans \in cleaned : ans.stamp # stamp["maison"]
        /\ \A sn \in orphans : sn.stamp # stamp["maison"]
        /\ \A sn \in snaps : sn.stamp = stamp["maison"] => IsPassOne(sn)
    BY <1>1, BackupAssumption DEF TypeOK, Clock, Taking, Working, Policy, Fresh, Stamps
  <1>4. /\ Taken \in Snapshot /\ Taken.at = clock + 1 /\ Taken.stamp = stamp["maison"]
        /\ Taken.pass = pass /\ (Taken.upset \/ Taken.rules = want)
    <2>1. clock < 2 * MaxBackups /\ stamp["maison"] # 0
      BY <1>3, BackupAssumption DEF Stamps
    <2> QED
      BY <1>3, <2>1, Takes
  <1>5. PICK there \in {"clear", "create", "list", "failed"} :
           /\ GoTo("maison", there)
           /\ \/ snaps' \subseteq snaps \cup {Taken} /\ clock' = clock + 1
              \/ UNCHANGED <<snaps, clock>> /\ there = "failed"
           /\ there \in {"clear", "create"} => pass = 1
           /\ there = "list" => pass = 2
           /\ pass' = IF there = "failed" THEN pass ELSE 2
    <2>1. CASE /\ KopiaCreate(Taken) /\ clock' = clock + 1 /\ pass' = 2
               /\ \E there \in IF pass = 1 THEN {"clear", "create"} ELSE {"list"} :
                     GoTo("maison", there)
      BY <1>3, <2>1, Creates
    <2>2. CASE /\ \/ KopiaCreate(Taken) /\ clock' = clock + 1
                  \/ UNCHANGED <<snaps, clock>>
               /\ GoTo("maison", "failed") /\ UNCHANGED pass
      BY <2>2, Creates
    <2> QED
      BY <2>1, <2>2 DEF Create
  <1>6. /\ pc' \in [Actors -> {"idle", "clear", "add", "create", "list", "next",
                               "failed", "abortList", "abortNext", "pinList",
                               "pinNext", "over"}]
        /\ pc'["maison"] = there /\ pc'["user"] = pc["user"]
        /\ pc'["recover"] = pc["recover"]
    BY <1>5, Goes DEF Actors
  <1>7. snaps' \subseteq snaps \cup {Taken} /\ clock' \in {clock, clock + 1}
        /\ (snaps' \subseteq snaps \/ clock' = clock + 1)
    BY <1>5
  <1>8. TypeOK'
    <2>1. snaps' \subseteq Snapshot
      BY <1>4, <1>7 DEF TypeOK
    <2>2. clock' \in 0 .. 2 * MaxBackups
      BY <1>3, <1>7, BackupAssumption DEF TypeOK
    <2> QED
      BY <1>1, <1>2, <1>3, <1>5, <1>6, <2>1, <2>2 DEF TypeOK, policy, answers, asked
  <1>9. Places' /\ Policy' /\ Asked' /\ Committing'
    BY <1>1, <1>3, <1>5, <1>6 DEF Places, Policy, Asked, Committing, policy, answers, asked
  <1>10. Clock'
    <2>1. \A sn \in snaps \cup counted \cup todo["recover"] \cup orphans :
             sn.at \in Nat /\ sn.at <= clock
      BY BackupAssumption DEF Clock, TypeOK, Snapshot, Times
    <2>2. \A sn \in (snaps \cup counted \cup todo["recover"] \cup orphans)' : sn.at <= clock'
      BY <1>1, <1>3, <1>4, <1>7, <2>1 DEF answers
    <2>3. \A x, y \in snaps' : x.at = y.at => x = y
      BY <1>3, <1>4, <1>7, <2>1 DEF Clock
    <2>4. clock' <= 2 * stamp'["maison"]
      BY <1>1, <1>3, <1>7
    <2>5. Taking' => clock' + 3 <= 2 * stamp'["maison"] + pass'
      BY <1>1, <1>3, <1>5, <1>6, <1>7 DEF Taking, Stamps
    <2>6. \A x \in orphans' : \A y \in (snaps \cup counted \cup todo["recover"])' : x.at # y.at
      BY <1>1, <1>3, <1>4, <1>7, <2>1 DEF Clock, answers
    <2> QED
      BY <1>1, <1>3, <2>2, <2>3, <2>4, <2>5, <2>6 DEF Clock
  <1>11. Fresh'
    <2>1. \A sn \in (snaps \cup orphans)' : sn.stamp <= stamp'["maison"]
      BY <1>1, <1>3, <1>4, <1>7 DEF Fresh
    <2>2. Taking' => \A sn \in snaps' : sn.stamp = stamp'["maison"] => IsPassOne(sn)
      BY <1>1, <1>4, <1>5, <1>6, <1>7 DEF Fresh, Taking, Working, IsPassOne
    <2> QED
      BY <1>1, <1>3, <2>1, <2>2 DEF Fresh, Taking, Working, answers
  <1>12. Deleting'
    BY <1>1, <1>3, <1>4, <1>6, <1>7, <1>5 DEF Deleting, Carrying
  <1>13. RulesExact' /\ AbortClean'
    <2>1. RulesExact'
      BY <1>1, <1>4, <1>7 DEF RulesExact, Carrying
    <2>2. ASSUME NEW ans \in cleaned, ans.looked, NEW sn \in snaps', sn.stamp = ans.stamp
          PROVE  sn.at \in ans.missed
      <3>1. sn \in snaps
        BY <1>3, <1>4, <1>7, <2>2
      <3> QED
        BY <2>2, <3>1 DEF AbortClean, Begun, Carrying
    <2> QED
      BY <1>1, <2>1, <2>2 DEF AbortClean, Begun, Carrying, answers
  <1>14. PinHonest'
    <2>1. Taken \notin counted
      BY <1>3, <1>4 DEF Clock
    <2> QED
      BY <1>1, <1>7, <2>1 DEF PinHonest, answers
  <1>15. Straying' /\ Newest'
    <2>1. Straying'
      BY <1>1, <1>6, <1>5, <1>3 DEF Straying, answers
    <2>2. Newest'
      BY <1>1, <1>3, <1>4, <1>5, <1>6 DEF Newest, IsPassOne
    <2> QED
      BY <2>1, <2>2
  <1> QED
    BY <1>8, <1>9, <1>10, <1>11, <1>12, <1>13, <1>14, <1>15

LEMMA GivesUp == ASSUME Inv, GiveUp PROVE Inv'
  <1> USE ThreeActors DEF Inv, strays
  <1>1. /\ UNCHANGED <<snaps, policy, clock, stamp, todo, errs, job, answers, asked, strays>>
        /\ faults' \in 0 .. MaxFaults /\ pc["maison"] # "idle"
    BY Faulted DEF GiveUp, At
  <1>2. PICK there \in {"abortList", "idle"} : GoTo("maison", there)
    BY DEF GiveUp
  <1>3. /\ pc' \in [Actors -> {"idle", "clear", "add", "create", "list", "next",
                               "failed", "abortList", "abortNext", "pinList",
                               "pinNext", "over"}]
        /\ pc'["maison"] = there /\ pc'["user"] = pc["user"]
        /\ pc'["recover"] = pc["recover"]
    BY <1>2, Goes DEF Actors
  <1>4. TypeOK'
    BY <1>1, <1>3 DEF TypeOK, policy, job, answers, asked
  <1>5. Places' /\ Policy' /\ Asked' /\ Committing' /\ Deleting'
    BY <1>1, <1>2, <1>3
    DEF Places, Policy, Asked, Committing, Deleting, Carrying, policy, job, answers, asked
  <1>6. Clock' /\ Fresh'
    BY <1>1, <1>2, <1>3 DEF Clock, Fresh, Taking, Working, job, answers
  <1>7. RulesExact' /\ AbortClean' /\ PinHonest'
    BY <1>1 DEF RulesExact, AbortClean, PinHonest, Carrying, job, answers
  <1>8. Straying' /\ Newest'
    BY <1>1, <1>2, <1>3, StraysStay DEF job, answers
  <1> QED
    BY <1>4, <1>5, <1>6, <1>7, <1>8

(* The kopia of a killed job may be at work on one snapshot of its backup. *)
LEMMA KillsJob == ASSUME Inv, KillJob PROVE Inv'
  <1> USE ThreeActors DEF Inv, strays
  <1>1. /\ UNCHANGED <<snaps, policy, upset, stamp, missed, errs, job, answers, asked>>
        /\ faults' \in 0 .. MaxFaults
        /\ pc["maison"] \in {"clear", "add", "create", "list", "next"}
        /\ todo' = [todo EXCEPT !["maison"] = {}] /\ GoTo("maison", "failed")
    BY Faulted DEF KillJob
  <1>2. /\ pc' \in [Actors -> {"idle", "clear", "add", "create", "list", "next",
                               "failed", "abortList", "abortNext", "pinList",
                               "pinNext", "over"}]
        /\ pc'["maison"] = "failed" /\ pc'["user"] = pc["user"]
        /\ pc'["recover"] = pc["recover"]
    BY <1>1, Goes DEF Actors
  <1>3. /\ todo' \in [Actors -> SUBSET Snapshot] /\ todo'["user"] = todo["user"]
        /\ todo'["recover"] = todo["recover"]
    BY <1>1 DEF TypeOK, Actors
  <1>4. /\ strayRules' \subseteq SUBSET Patterns
        /\ stamp["maison"] \in Nat /\ stamp["user"] \in Nat /\ clock \in Nat
    BY BackupAssumption DEF KillJob, TypeOK, Stamps
  <1>5. ASSUME UNCHANGED <<orphans, clock>>
        PROVE  TypeOK' /\ Clock' /\ Fresh' /\ Straying'
    <2>1. Clock' /\ Fresh'
      BY <1>1, <1>2, <1>3, <1>5 DEF Clock, Fresh, Taking, Working, job, answers
    <2>2. Straying'
      BY <1>1, <1>2, <1>5 DEF Straying, job, answers
    <2>3. TypeOK'
      BY <1>1, <1>2, <1>3, <1>4, <1>5 DEF TypeOK, policy, job, answers, asked
    <2> QED
      BY <2>1, <2>2, <2>3
  <1>6. ASSUME pc["maison"] = "create", orphans' = orphans \cup {Taken}, clock' = clock + 1
        PROVE  TypeOK' /\ Clock' /\ Fresh' /\ Straying'
    <2>1. /\ stamp["maison"] \in Stamps /\ stamp["maison"] <= MaxBackups
          /\ pass \in {1, 2} /\ clock + 3 <= 2 * stamp["maison"] + pass
          /\ upset \/ ignore = want
          /\ stamp["user"] < stamp["maison"]
          /\ \A ans \in cleaned : ans.stamp # stamp["maison"]
      BY <1>4, <1>6, BackupAssumption DEF TypeOK, Clock, Taking, Policy, Fresh, Stamps
    <2>2. /\ Taken \in Snapshot /\ Taken.at = clock + 1 /\ Taken.stamp = stamp["maison"]
          /\ Taken.upset \/ Taken.rules = want
      <3>1. clock < 2 * MaxBackups /\ stamp["maison"] # 0
        BY <1>4, <2>1, BackupAssumption DEF Stamps
      <3> QED
        BY <2>1, <3>1, Takes
    <2>3. TypeOK'
      <3>1. clock' \in 0 .. 2 * MaxBackups /\ orphans' \subseteq Snapshot
        BY <1>4, <1>6, <2>1, <2>2, BackupAssumption DEF TypeOK
      <3> QED
        BY <1>1, <1>2, <1>3, <1>4, <3>1 DEF TypeOK, policy, job, answers, asked
    <2>4. Clock'
      <3>1. \A sn \in snaps \cup counted \cup todo["recover"] \cup orphans :
               sn.at \in Nat /\ sn.at <= clock
        BY BackupAssumption DEF Clock, TypeOK, Snapshot, Times
      <3>2. clock' <= 2 * stamp["maison"] /\ ~Taking'
        BY <1>2, <1>4, <1>6, <2>1 DEF Taking
      <3> QED
        BY <1>1, <1>2, <1>3, <1>4, <1>6, <2>1, <2>2, <3>1, <3>2 DEF Clock, answers
    <2>5. Fresh'
      BY <1>1, <1>2, <1>4, <1>6, <2>2 DEF Fresh, Taking, Working, answers
    <2>6. Straying'
      BY <1>1, <1>2, <1>4, <1>6, <2>1, <2>2 DEF Straying, job, answers
    <2> QED
      BY <2>3, <2>4, <2>5, <2>6
  <1>7. Places' /\ Policy' /\ Asked' /\ Committing' /\ Deleting' /\ Newest'
    BY <1>1, <1>2, <1>3
    DEF Places, Policy, Asked, Committing, Deleting, Newest, Carrying, policy, job, answers,
        asked
  <1>8. RulesExact' /\ AbortClean' /\ PinHonest'
    BY <1>1 DEF RulesExact, AbortClean, PinHonest, Carrying, job, answers
  <1> QED
    BY <1>5, <1>6, <1>7, <1>8 DEF KillJob, At

(* A snapshot that goes takes no other with it. *)
LEMMA Shrinks ==
    ASSUME Inv, NEW sn, snaps' \in {snaps, snaps \ {sn}},
           UNCHANGED <<stamp, want, counted>>,
           cleaned' = cleaned
    PROVE  /\ snaps' \subseteq Snapshot
           /\ \A x, y \in snaps' : x.at = y.at => x = y
           /\ RulesExact' /\ AbortClean' /\ PinHonest'
  <1>1. snaps' \subseteq snaps
    OBVIOUS
  <1>2. AbortClean'
    BY <1>1 DEF Inv, AbortClean, Begun, Carrying
  <1> QED
    BY <1>1, <1>2 DEF Inv, TypeOK, Clock, RulesExact, PinHonest, Carrying

LEMMA ListsCommit == ASSUME Inv, CommitList PROVE Inv'
  <1> USE ThreeActors DEF Inv, strays
  <1>1. /\ pc["maison"] = "list" /\ found' = {}
        /\ UNCHANGED <<snaps, policy, clock, stamp, errs, pass, want, answers, asked, strays>>
        /\ faults' \in 0 .. MaxFaults
    BY Faulted DEF CommitList, At
  <1>2. PICK there \in {"next", "failed"} :
           /\ GoTo("maison", there)
           /\ \/ todo' = [todo EXCEPT !["maison"] = Carrying(stamp["maison"])]
              \/ there = "failed" /\ UNCHANGED todo
    BY DEF CommitList
  <1>3. /\ pc' \in [Actors -> {"idle", "clear", "add", "create", "list", "next",
                               "failed", "abortList", "abortNext", "pinList",
                               "pinNext", "over"}]
        /\ pc'["maison"] = there /\ pc'["user"] = pc["user"]
        /\ pc'["recover"] = pc["recover"]
    BY <1>2, Goes DEF Actors
  <1>4. /\ todo' \in [Actors -> SUBSET Snapshot] /\ todo'["user"] = todo["user"]
        /\ todo'["recover"] = todo["recover"]
        /\ there = "next" => todo'["maison"] = Carrying(stamp["maison"])
    <2>1. Carrying(stamp["maison"]) \in SUBSET Snapshot
      BY DEF Carrying, TypeOK
    <2> QED
      BY <1>2, <2>1 DEF TypeOK, Actors
  <1>5. TypeOK'
    BY <1>1, <1>3, <1>4, FS_EmptySet DEF TypeOK, policy, answers, asked
  <1>6. Places' /\ Policy' /\ Asked' /\ Deleting'
    BY <1>1, <1>2, <1>3, <1>4
    DEF Places, Policy, Asked, Deleting, Carrying, policy, answers, asked
  <1>7. Committing'
    BY <1>1, <1>2, <1>3, <1>4 DEF Committing, Carrying, Kin
  <1>8. Clock' /\ Fresh'
    BY <1>1, <1>2, <1>3, <1>4 DEF Clock, Fresh, Taking, Working, answers
  <1>9. RulesExact' /\ AbortClean' /\ PinHonest'
    BY <1>1 DEF RulesExact, AbortClean, PinHonest, Carrying, answers
  <1>10. Straying' /\ Newest'
    BY <1>1, <1>2, <1>3, StraysStay DEF answers
  <1> QED
    BY <1>5, <1>6, <1>7, <1>8, <1>9, <1>10

LEMMA CommitsNext == ASSUME Inv, CommitNext PROVE Inv'
  <1> USE ThreeActors DEF Inv, strays
  <1> DEFINE sn == Oldest(todo["maison"])
  <1>1. /\ pc["maison"] = "next" /\ todo["maison"] # {} /\ Handled("maison", {sn})
        /\ UNCHANGED <<policy, clock, pc, stamp, errs, pass, want, answers, asked, strays>>
    BY DEF CommitNext, At
  <1>2. sn \in todo["maison"] /\ sn \in Snapshot
    BY <1>1, OldestIn DEF TypeOK
  <1>3. /\ todo' \in [Actors -> SUBSET Snapshot]
        /\ todo'["maison"] = todo["maison"] \ {sn}
        /\ todo'["user"] = todo["user"] /\ todo'["recover"] = todo["recover"]
    BY <1>1, Handles DEF Actors
  <1>4. /\ snaps' \in {snaps, snaps \ {sn}} /\ faults' \in 0 .. MaxFaults
        /\ \/ IsPassOne(sn) /\ UNCHANGED found
           \/ ~IsPassOne(sn) /\ found' = {sn} /\ UNCHANGED snaps
    <2>1. CASE IsPassOne(sn)
      BY <2>1, Deleted DEF CommitNext
    <2>2. CASE ~IsPassOne(sn)
      BY <2>2, Faulted DEF CommitNext
    <2> QED
      BY <2>1, <2>2
  <1> HIDE DEF sn
  <1>5. /\ snaps' \subseteq Snapshot /\ \A x, y \in snaps' : x.at = y.at => x = y
        /\ RulesExact' /\ AbortClean' /\ PinHonest'
    BY <1>1, <1>4, Shrinks DEF answers
  <1>6. TypeOK'
    <2>1. found' \subseteq Snapshot /\ Cardinality(found') <= 1
      <3>1. CASE UNCHANGED found
        BY <3>1 DEF TypeOK
      <3>2. CASE found' = {sn}
        <4>1. Cardinality({sn}) = 1
          BY FS_Singleton
        <4> QED
          BY <1>2, <3>2, <4>1
      <3> QED
        BY <1>4, <3>1, <3>2
    <2> QED
      BY <1>1, <1>3, <1>4, <1>5, <2>1 DEF TypeOK, policy, answers, asked
  <1>7. Places' /\ Policy' /\ Asked'
    BY <1>1, <1>3 DEF Places, Policy, Asked, policy, answers, asked
  <1>8. Deleting'
    <2>1. SUFFICES ASSUME pc["user"] = "abortNext", "user" \notin errs,
                          NEW x \in snaps', x.stamp = stamp["user"]
                   PROVE  x.at \in missed["user"] \/ \E y \in todo["user"] : Kin(y, x)
      BY <1>1, <1>3 DEF Deleting, Carrying
    <2> QED
      BY <1>4, <2>1 DEF Deleting, Carrying
  <1>9. Committing'
    <2>1. (todo["maison"] \cup found)' \subseteq todo["maison"] \cup found
      BY <1>2, <1>3, <1>4
    <2>2. /\ \A x \in todo["maison"] \cup found : x.stamp = stamp["maison"]
          /\ \A x \in found : ~IsPassOne(x)
      BY <1>1 DEF Committing
    <2>3. CASE stamp["maison"] \in unwanted
      BY <1>1, <1>4, <2>1, <2>2, <2>3 DEF Committing, asked
    <2>4. CASE stamp["maison"] \notin unwanted
      <3>1. ASSUME NEW x \in todo["maison"] \cup found, ~IsPassOne(x)
            PROVE  \E y \in snaps' : Kin(x, y)
        <4>1. x \in Snapshot
          BY DEF TypeOK
        <4>2. PICK y \in snaps : Kin(x, y)
          BY <1>1, <2>4, <3>1 DEF Committing
        <4>3. ~IsPassOne(y)
          BY <3>1, <4>1, <4>2, KinAlike DEF IsPassOne
        <4> QED
          BY <1>4, <4>2, <4>3
      <3> QED
        BY <1>1, <1>4, <2>1, <2>2, <3>1 DEF Committing
    <2> QED
      BY <2>3, <2>4
  <1>10. Clock'
    BY <1>1, <1>3, <1>4, <1>5 DEF Clock, Taking, answers
  <1>11. Fresh'
    BY <1>1, <1>4 DEF Fresh, Taking, Working, answers
  <1>12. Straying' /\ Newest'
    BY <1>1, <1>4, StraysStay DEF answers
  <1> QED
    BY <1>5, <1>6, <1>7, <1>8, <1>9, <1>10, <1>11, <1>12

LEMMA CommitsEnd == ASSUME Inv, CommitEnd PROVE Inv'
  <1> USE ThreeActors DEF Inv, strays
  <1>1. /\ pc["maison"] = "next" /\ found' = {}
        /\ done' \in {done, done \cup {stamp["maison"]}}
        /\ found # {} => stamp["maison"] \in Stamps
        /\ UNCHANGED <<snaps, policy, clock, stamp, todo, errs, pass, want, counted,
                       cleaned, asked, strays, faults>>
    <2>1. stamp["maison"] \in Nat /\ \A sn \in found : sn \in Snapshot /\ sn.stamp = stamp["maison"]
      BY BackupAssumption DEF CommitEnd, At, Committing, TypeOK, Stamps
    <2> QED
      BY <2>1 DEF CommitEnd, At, Snapshot, Times
  <1>2. PICK there \in {"idle", "failed"} :
           GoTo("maison", there) /\ (there = "failed" => done' = done) /\ (there = "idle" => found # {})
    BY DEF CommitEnd
  <1>3. /\ pc' \in [Actors -> {"idle", "clear", "add", "create", "list", "next",
                               "failed", "abortList", "abortNext", "pinList",
                               "pinNext", "over"}]
        /\ pc'["maison"] = there /\ pc'["user"] = pc["user"]
        /\ pc'["recover"] = pc["recover"]
    BY <1>2, Goes DEF Actors
  <1>4. TypeOK'
    <2>1. done' \subseteq Stamps
      BY <1>1, <1>2 DEF TypeOK
    <2> QED
      BY <1>1, <1>3, <2>1, FS_EmptySet DEF TypeOK, policy, asked
  <1>5. Places' /\ Policy' /\ Asked' /\ Committing' /\ Deleting'
    BY <1>1, <1>2, <1>3
    DEF Places, Policy, Asked, Committing, Deleting, Carrying, policy, asked
  <1>6. Clock' /\ Fresh'
    BY <1>1, <1>2, <1>3 DEF Clock, Fresh, Taking, Working
  <1>7. RulesExact' /\ AbortClean' /\ PinHonest'
    BY <1>1 DEF RulesExact, AbortClean, PinHonest, Carrying
  <1>8. Straying' /\ Newest'
    BY <1>1, <1>2, <1>3, StraysStay
  <1> QED
    BY <1>4, <1>5, <1>6, <1>7, <1>8

-----------------------------------------------------------------------------
(* abort and delete.                                                       *)

LEMMA Asks == ASSUME Inv, NEW s \in Stamps, AskDelete(s) PROVE Inv'
  <1> USE ThreeActors DEF Inv, strays
  <1>1. /\ pc["user"] = "idle" /\ stamp' = [stamp EXCEPT !["user"] = s]
        /\ unwanted' = unwanted \cup {s} /\ GoTo("user", "abortList")
        /\ asks' \in 0 .. MaxAsks
        /\ UNCHANGED <<snaps, policy, clock, todo, errs, job, answers, strays, faults>>
    BY BackupAssumption DEF AskDelete, At, Ask, TypeOK
  <1>2. PICK sn \in snaps : sn.stamp = s /\ ~IsPassOne(sn)
    BY DEF AskDelete, Listed
  <1>3. /\ pc' \in [Actors -> {"idle", "clear", "add", "create", "list", "next",
                               "failed", "abortList", "abortNext", "pinList",
                               "pinNext", "over"}]
        /\ pc'["user"] = "abortList" /\ pc'["maison"] = pc["maison"]
        /\ pc'["recover"] = pc["recover"]
    BY <1>1, Goes DEF Actors
  <1>4. /\ stamp' \in [Actors -> Stamps \cup {0}]
        /\ stamp'["user"] = s /\ stamp'["maison"] = stamp["maison"]
        /\ s \in Nat /\ stamp["maison"] \in Nat
    BY <1>1, BackupAssumption DEF TypeOK, Stamps, Actors
  <1>5. TypeOK'
    BY <1>1, <1>3, <1>4 DEF TypeOK, policy, job, answers
  <1>6. Places' /\ Policy' /\ Deleting'
    BY <1>1, <1>3, <1>4 DEF Places, Policy, Deleting, Carrying, policy, job
  <1>7. Asked' /\ Committing'
    BY <1>1, <1>3, <1>4 DEF Asked, Committing, job
  <1>8. Clock'
    BY <1>1, <1>3, <1>4 DEF Clock, Taking, job, answers
  <1>9. Fresh'
    <2>1. s <= stamp["maison"] /\ (Taking => s < stamp["maison"])
      BY <1>2, <1>4 DEF Fresh
    <2> QED
      BY <1>1, <1>3, <1>4, <2>1 DEF Fresh, Taking, Working, answers
  <1>10. RulesExact' /\ AbortClean' /\ PinHonest'
    BY <1>1, <1>4 DEF RulesExact, AbortClean, PinHonest, Carrying, job, answers
  <1>11. Straying' /\ Newest'
    BY <1>1, <1>3, <1>4, StraysStay DEF job, answers
  <1> QED
    BY <1>5, <1>6, <1>7, <1>8, <1>9, <1>10, <1>11

LEMMA ListsAbort ==
    ASSUME Inv, NEW a \in {"maison", "user"}, AbortList(a)
    PROVE  Inv'
  <1> USE ThreeActors DEF Inv, strays
  <1>1. /\ pc[a] = "abortList" /\ a \in Actors /\ errs' = errs \ {a}
        /\ UNCHANGED <<snaps, policy, orphans, strayRules, upset, clock, stamp, job, counted,
                       done, asked>>
        /\ faults' \in 0 .. MaxFaults
    BY Faulted DEF AbortList, At
  <1>2. PICK there \in {"abortNext", "idle"} :
           /\ GoTo(a, there)
           /\ \/ /\ there = "abortNext" /\ UNCHANGED cleaned
                 /\ todo' = [todo EXCEPT ![a] = Carrying(stamp[a])]
                 /\ missed' = [missed EXCEPT
                                ![a] = Begun({sn \in orphans : sn.stamp = stamp[a]})]
              \/ /\ there = "idle" /\ UNCHANGED <<todo, missed>>
                 /\ cleaned' \in {cleaned, cleaned \cup {[stamp |-> stamp[a], looked |-> FALSE,
                                                        missed |-> {}]}}
    BY DEF AbortList
  <1>3. /\ pc' \in [Actors -> {"idle", "clear", "add", "create", "list", "next",
                               "failed", "abortList", "abortNext", "pinList",
                               "pinNext", "over"}]
        /\ pc'[a] = there /\ \A b \in Actors \ {a} : pc'[b] = pc[b]
    BY <1>1, <1>2, Goes
  <1>4. /\ todo' \in [Actors -> SUBSET Snapshot]
        /\ \A b \in Actors \ {a} : todo'[b] = todo[b]
        /\ there = "abortNext" => todo'[a] = Carrying(stamp[a])
        /\ there = "idle" => todo'[a] = todo[a]
    <2>1. Carrying(stamp[a]) \in SUBSET Snapshot
      BY DEF Carrying, TypeOK
    <2> QED
      BY <1>1, <1>2, <2>1 DEF TypeOK
  <1>11. /\ missed' \in [Actors -> SUBSET Times]
         /\ \A b \in Actors \ {a} : missed'[b] = missed[b]
         /\ there = "abortNext" =>
               \A sn \in orphans : sn.stamp = stamp[a] => sn.at \in missed'[a]
    <2>1. Begun({sn \in orphans : sn.stamp = stamp[a]}) \in SUBSET Times
      BY DEF Begun, TypeOK, Snapshot
    <2> QED
      BY <1>1, <1>2, <2>1 DEF TypeOK, Begun
  <1>12. stamp[a] \in Stamps
    BY <1>1 DEF Asked, Clock, TypeOK
  <1>13. /\ cleaned' \subseteq Answer
         /\ \A ans \in cleaned' : ans \in cleaned \/ (ans.stamp = stamp[a] /\ ~ans.looked)
    <2>1. CASE UNCHANGED cleaned
      BY <2>1 DEF TypeOK
    <2>2. CASE cleaned' = cleaned \cup {[stamp |-> stamp[a], looked |-> FALSE, missed |-> {}]}
      <3> DEFINE new == [stamp |-> stamp[a], looked |-> FALSE, missed |-> {}]
      <3>1. new \in Answer
        BY <1>12 DEF Answer
      <3>2. new.stamp = stamp[a] /\ ~new.looked
        OBVIOUS
      <3> HIDE DEF new
      <3> QED
        BY <2>2, <3>1, <3>2 DEF TypeOK, new
    <2> QED
      BY <1>2, <2>1, <2>2
  <1>5. TypeOK'
    BY <1>1, <1>3, <1>4, <1>11, <1>13 DEF TypeOK, policy, job, asked
  <1>6. Places' /\ Policy' /\ Asked' /\ Committing'
    BY <1>1, <1>2, <1>3, <1>4
    DEF Places, Policy, Asked, Committing, Carrying, policy, job, asked
  <1>7. Deleting'
    <2>1. SUFFICES ASSUME NEW b \in {"maison", "user"}, pc'[b] = "abortNext", b \notin errs',
                          NEW sn \in snaps, sn.stamp = stamp[b]
                   PROVE  sn.at \in missed'[b] \/ \E x \in todo'[b] : Kin(x, sn)
      BY <1>1 DEF Deleting, Carrying
    <2>2. CASE b = a
      BY <1>2, <1>3, <1>4, <2>1, <2>2 DEF Carrying, Kin
    <2>3. CASE b # a
      BY <1>1, <1>3, <1>4, <1>11, <2>1, <2>3 DEF Deleting, Carrying
    <2> QED
      BY <2>2, <2>3
  <1>8. Clock'
    <2>1. todo'["recover"] = todo["recover"]
      BY <1>4
    <2> QED
      BY <1>1, <1>2, <1>3, <2>1 DEF Clock, Taking, job
  <1>9. Fresh'
    <2>1. stamp["maison"] \in Nat /\ stamp[a] \in Nat
      BY <1>12, BackupAssumption DEF TypeOK, Stamps
    <2>2. stamp[a] <= stamp["maison"] /\ (Taking' => Taking /\ stamp[a] < stamp["maison"])
      BY <1>1, <1>2, <1>3, <2>1 DEF Fresh, Taking
    <2> QED
      BY <1>1, <1>2, <1>3, <1>13, <2>1, <2>2 DEF Fresh, Taking, Working
  <1>10. RulesExact' /\ AbortClean' /\ PinHonest'
    BY <1>1, <1>13 DEF RulesExact, AbortClean, PinHonest, Carrying, job
  <1>14. Straying' /\ Newest'
    BY <1>1, <1>2, <1>3, <1>11, <1>13 DEF Straying, Newest, job
  <1> QED
    BY <1>5, <1>6, <1>7, <1>8, <1>9, <1>10, <1>14

LEMMA AbortsNext ==
    ASSUME Inv, NEW a \in {"maison", "user"}, AbortNext(a)
    PROVE  Inv'
  <1> USE ThreeActors DEF Inv, strays
  <1> DEFINE sn == Oldest(todo[a])
  <1>1. /\ pc[a] = "abortNext" /\ a \in Actors /\ todo[a] # {} /\ Handled(a, {sn})
        /\ UNCHANGED <<policy, clock, pc, stamp, job, answers, asked, strays>>
    BY DEF AbortNext, At
  <1>2. sn \in todo[a] /\ sn \in Snapshot
    BY <1>1, OldestIn DEF TypeOK
  <1>3. /\ todo' \in [Actors -> SUBSET Snapshot] /\ todo'[a] = todo[a] \ {sn}
        /\ \A b \in Actors \ {a} : todo'[b] = todo[b]
    BY <1>1, Handles
  <1>4. PICK ok \in BOOLEAN :
           /\ KopiaDelete(sn, ok)
           /\ errs' = IF ok THEN errs ELSE errs \cup {a}
    BY DEF AbortNext
  <1> HIDE DEF sn
  <1>5. /\ snaps' \in {snaps, snaps \ {sn}}
        /\ ok => sn \in snaps /\ snaps' = snaps \ {sn}
        /\ faults' \in 0 .. MaxFaults
    BY <1>4, Deleted
  <1>6. /\ snaps' \subseteq Snapshot /\ \A x, y \in snaps' : x.at = y.at => x = y
        /\ RulesExact' /\ AbortClean' /\ PinHonest'
    BY <1>1, <1>5, Shrinks DEF job, answers
  <1>7. TypeOK'
    <2>1. errs' \subseteq Actors
      BY <1>1, <1>4 DEF TypeOK
    <2> QED
      BY <1>1, <1>3, <1>5, <1>6, <2>1 DEF TypeOK, policy, job, answers, asked
  <1>8. Places' /\ Policy' /\ Asked'
    BY <1>1, <1>3 DEF Places, Policy, Asked, policy, job, asked, Actors
  <1>9. Deleting'
    <2>1. SUFFICES ASSUME NEW b \in {"maison", "user"}, pc[b] = "abortNext", b \notin errs',
                          NEW y \in snaps', y.stamp = stamp[b]
                   PROVE  y.at \in missed[b] \/ \E x \in todo'[b] : Kin(x, y)
      BY <1>1 DEF Deleting, Carrying
    <2> SUFFICES ASSUME y.at \notin missed[b] PROVE \E x \in todo'[b] : Kin(x, y)
      OBVIOUS
    <2>2. PICK x \in todo[b] : Kin(x, y)
      <3>1. b \notin errs /\ y \in snaps
        BY <1>4, <1>5, <2>1
      <3> QED
        BY <2>1, <3>1 DEF Deleting, Carrying
    <2>3. CASE b = a /\ x = sn
      <3>1. ok /\ sn \in snaps /\ y \in snaps /\ y # sn
        BY <1>4, <1>5, <2>1, <2>3
      <3>2. y.at = sn.at
        BY <1>2, <2>2, <2>3, KinAlike
      <3> QED
        BY <3>1, <3>2 DEF Clock
    <2>4. CASE ~(b = a /\ x = sn)
      BY <1>1, <1>3, <2>2, <2>4
    <2> QED
      BY <2>3, <2>4
  <1>10. Committing'
    <2>1. SUFFICES ASSUME pc["maison"] = "next" PROVE Committing'
      BY <1>1 DEF Committing
    <2>2. a = "user" /\ todo'["maison"] = todo["maison"] /\ found' = found
      BY <1>1, <1>3, <2>1 DEF job
    <2>3. sn.stamp = stamp["user"] /\ stamp["user"] \in unwanted
      BY <1>1, <1>2, <2>2 DEF Asked
    <2>4. CASE stamp["maison"] \in unwanted
      BY <1>1, <2>1, <2>2, <2>4 DEF Committing, asked
    <2>5. CASE stamp["maison"] \notin unwanted
      <3>1. ASSUME NEW x \in todo["maison"] \cup found, ~IsPassOne(x)
            PROVE  \E y \in snaps' : Kin(x, y)
        <4>1. x \in Snapshot /\ x.stamp = stamp["maison"]
          BY <2>1 DEF TypeOK, Committing
        <4>2. PICK y \in snaps : Kin(x, y)
          BY <2>1, <2>5, <3>1 DEF Committing
        <4>3. y.stamp = stamp["maison"]
          BY <4>1, <4>2, KinAlike
        <4> QED
          BY <1>5, <2>3, <2>5, <4>2, <4>3
      <3> QED
        BY <1>1, <2>1, <2>2, <3>1 DEF Committing
    <2> QED
      BY <2>4, <2>5
  <1>11. Clock'
    <2>1. todo'["recover"] = todo["recover"]
      BY <1>3
    <2> QED
      BY <1>1, <1>5, <1>6, <2>1 DEF Clock, Taking, job, answers
  <1>12. Fresh'
    BY <1>1, <1>5 DEF Fresh, Taking, Working, answers
  <1>13. Straying' /\ Newest'
    BY <1>1, <1>5, StraysStay DEF job, answers
  <1> QED
    BY <1>6, <1>7, <1>8, <1>9, <1>10, <1>11, <1>12, <1>13

LEMMA AbortsEnd ==
    ASSUME Inv, NEW a \in {"maison", "user"}, AbortEnd(a)
    PROVE  Inv'
  <1> USE ThreeActors DEF Inv, strays
  <1> DEFINE ans == [stamp |-> stamp[a], looked |-> TRUE, missed |-> missed[a]]
  <1>1. /\ pc[a] = "abortNext" /\ todo[a] = {} /\ a \in Actors /\ GoTo(a, "idle")
        /\ cleaned' = IF a \in errs THEN cleaned ELSE cleaned \cup {ans}
        /\ UNCHANGED <<snaps, policy, clock, stamp, todo, errs, job, counted, done,
                       asked, strays, faults>>
    BY DEF AbortEnd, At
  <1>2. /\ pc' \in [Actors -> {"idle", "clear", "add", "create", "list", "next",
                               "failed", "abortList", "abortNext", "pinList",
                               "pinNext", "over"}]
        /\ pc'[a] = "idle" /\ \A b \in Actors \ {a} : pc'[b] = pc[b]
    BY <1>1, Goes
  <1>3. a \notin errs => \A sn \in Carrying(stamp[a]) : sn.at \in missed[a]
    BY <1>1 DEF Deleting
  <1>4. stamp[a] <= stamp["maison"] /\ (Taking' => stamp[a] < stamp["maison"])
    <2>1. stamp["maison"] \in Nat
      BY BackupAssumption DEF TypeOK, Stamps
    <2> QED
      BY <1>2, <2>1 DEF Fresh, Taking, Working
  <1>5. stamp[a] \in Stamps
    <2>1. CASE a = "user"
      BY <1>1, <2>1 DEF Asked, TypeOK
    <2>2. CASE a = "maison"
      BY <1>1, <2>2 DEF Clock
    <2> QED
      BY <2>1, <2>2
  <1>6. TypeOK'
    <2>1. ans \in Answer
      BY <1>1, <1>5 DEF TypeOK, Answer
    <2> QED
      BY <1>1, <1>2, <2>1 DEF TypeOK, policy, job, asked
  <1>11. ans.stamp = stamp[a] /\ ans.looked /\ ans.missed = missed[a]
    OBVIOUS
  <1> HIDE DEF ans
  <1>7. Places' /\ Policy' /\ Asked' /\ Committing' /\ Deleting'
    BY <1>1, <1>2
    DEF Places, Policy, Asked, Committing, Deleting, Carrying, policy, job, asked
  <1>8. Clock'
    BY <1>1, <1>2 DEF Clock, Taking, job
  <1>9. Fresh'
    <2>1. stamp["maison"] \in Nat /\ stamp[a] \in Nat /\ stamp' = stamp
      BY <1>1, BackupAssumption DEF TypeOK, Stamps
    <2>2. Taking' => Taking /\ a = "user"
      BY <1>2, ThreeActors DEF Taking
    <2>3. \A x \in cleaned' : x.stamp <= stamp["maison"]
      BY <1>1, <1>4, <1>11 DEF Fresh
    <2>4. Taking' => \A x \in cleaned' : x.stamp # stamp["maison"]
      BY <1>1, <1>4, <1>11, <2>1, <2>2 DEF Fresh
    <2> QED
      BY <1>1, <1>2, <2>1, <2>2, <2>3, <2>4 DEF Fresh, Working
  <1>10. RulesExact' /\ AbortClean' /\ PinHonest'
    BY <1>1, <1>3, <1>11 DEF RulesExact, AbortClean, PinHonest, Carrying, Begun, job
  <1>12. Straying' /\ Newest'
    BY <1>1, <1>2, <1>11 DEF Straying, Newest, job
  <1> QED
    BY <1>6, <1>7, <1>8, <1>9, <1>10, <1>12

-----------------------------------------------------------------------------
(* pinAll, and the rest.                                                   *)

LEMMA ListsPins == ASSUME Inv, PinList PROVE Inv'
  <1> USE ThreeActors DEF Inv, strays
  <1>1. /\ pc["recover"] = "idle"
        /\ UNCHANGED <<snaps, policy, clock, stamp, errs, job, answers, asked, strays>>
        /\ faults' \in 0 .. MaxFaults
    BY Faulted DEF PinList, At
  <1>2. PICK there \in {"pinNext", "over"} :
           /\ GoTo("recover", there)
           /\ todo' = [todo EXCEPT !["recover"] = snaps] \/ UNCHANGED todo
    BY DEF PinList
  <1>3. /\ pc' \in [Actors -> {"idle", "clear", "add", "create", "list", "next",
                               "failed", "abortList", "abortNext", "pinList",
                               "pinNext", "over"}]
        /\ pc'["recover"] = there /\ pc'["maison"] = pc["maison"]
        /\ pc'["user"] = pc["user"]
    BY <1>2, Goes DEF Actors
  <1>4. /\ todo' \in [Actors -> SUBSET Snapshot] /\ todo'["user"] = todo["user"]
        /\ todo'["maison"] = todo["maison"] /\ todo'["recover"] \subseteq snaps \cup todo["recover"]
    BY <1>2 DEF TypeOK, Actors
  <1>5. TypeOK'
    BY <1>1, <1>3, <1>4 DEF TypeOK, policy, job, answers, asked
  <1>6. Places' /\ Policy' /\ Asked' /\ Committing' /\ Deleting'
    BY <1>1, <1>2, <1>3, <1>4
    DEF Places, Policy, Asked, Committing, Deleting, Carrying, policy, job, asked
  <1>7. Clock' /\ Fresh'
    BY <1>1, <1>3, <1>4 DEF Clock, Fresh, Taking, Working, job, answers
  <1>8. RulesExact' /\ AbortClean' /\ PinHonest'
    BY <1>1 DEF RulesExact, AbortClean, PinHonest, Carrying, job, answers
  <1>9. Straying' /\ Newest'
    BY <1>1, <1>3, StraysStay DEF job, answers
  <1> QED
    BY <1>5, <1>6, <1>7, <1>8, <1>9

LEMMA PinsNext == ASSUME Inv, PinNext PROVE Inv'
  <1> USE ThreeActors DEF Inv, strays
  <1>1. /\ pc["recover"] = "pinNext" /\ Handled("recover", NextBatch)
        /\ UNCHANGED <<policy, clock, pc, stamp, errs, job, done, cleaned, asked, strays>>
    BY DEF PinNext, At
  <1>2. NextBatch \subseteq todo["recover"] /\ todo["recover"] \in SUBSET Snapshot
    BY DEF NextBatch, TypeOK
  <1>3. /\ todo' \in [Actors -> SUBSET Snapshot]
        /\ todo'["recover"] = todo["recover"] \ NextBatch
        /\ todo'["user"] = todo["user"] /\ todo'["maison"] = todo["maison"]
    BY <1>1, Handles DEF Actors
  <1>4. PICK ok \in BOOLEAN :
           /\ KopiaPin(NextBatch, ok)
           /\ counted' = IF ok THEN counted \cup NextBatch ELSE counted
    BY DEF PinNext
  <1>5. PICK S \in SUBSET snaps :
           /\ snaps' = (snaps \ S) \cup {[sn EXCEPT !.pinned = TRUE] : sn \in S}
           /\ ok => S = NextBatch
    BY <1>4, Pins
  <1>6. faults' \in 0 .. MaxFaults
    BY <1>4, Pins
  <1>7. \A y \in snaps' : \E z \in snaps :
           /\ Kin(z, y) /\ y \in Snapshot /\ z \in Snapshot
           /\ y.at = z.at /\ y.stamp = z.stamp /\ y.pass = z.pass /\ y.rules = z.rules
           /\ y.upset = z.upset
           /\ z \in S => y.pinned
           /\ z \notin S => y = z
    <2> TAKE y \in snaps'
    <2>1. CASE y \in snaps \ S
      BY <2>1 DEF Kin, TypeOK
    <2>2. CASE y \in {[sn EXCEPT !.pinned = TRUE] : sn \in S}
      <3>1. PICK z \in S : y = [z EXCEPT !.pinned = TRUE]
        BY <2>2
      <3>2. z \in snaps /\ z \in Snapshot
        BY <1>5 DEF TypeOK
      <3> QED
        BY <3>1, <3>2, PinKeeps DEF Kin
    <2> QED
      BY <1>5, <2>1, <2>2
  <1>8. \A z \in snaps : \E y \in snaps' : Kin(z, y)
    BY <1>5 DEF Kin
  <1>9. TypeOK'
    <2>1. snaps' \subseteq Snapshot /\ counted' \subseteq Snapshot
      BY <1>2, <1>4, <1>7 DEF TypeOK
    <2> QED
      BY <1>1, <1>3, <1>6, <2>1 DEF TypeOK, policy, job, asked
  <1>10. Places' /\ Policy' /\ Asked'
    BY <1>1, <1>3 DEF Places, Policy, Asked, policy, job, asked
  <1>11. Clock'
    <2>1. \A y \in snaps' : y.at <= clock
      BY <1>7 DEF Clock
    <2>2. \A sn \in counted' \cup todo'["recover"] : sn.at <= clock
      BY <1>2, <1>3, <1>4 DEF Clock
    <2>3. ASSUME NEW x \in snaps', NEW y \in snaps', x.at = y.at PROVE x = y
      <3>1. PICK u \in snaps : /\ Kin(u, x) /\ u \in Snapshot /\ x.at = u.at
                               /\ u \in S => x.pinned /\ x \in Snapshot
                               /\ u \notin S => x = u
        BY <1>7
      <3>2. PICK v \in snaps : /\ Kin(v, y) /\ v \in Snapshot /\ y.at = v.at
                               /\ v \in S => y.pinned /\ y \in Snapshot
                               /\ v \notin S => y = v
        BY <1>7
      <3>3. u = v
        BY <2>3, <3>1, <3>2 DEF Clock
      <3>4. CASE u \notin S
        BY <3>1, <3>2, <3>3, <3>4
      <3>5. CASE u \in S
        <4>1. x = [u EXCEPT !.pinned = TRUE] /\ y = [u EXCEPT !.pinned = TRUE]
          <5>1. x.pinned => x = [u EXCEPT !.pinned = TRUE]
            BY <3>1 DEF Kin, Snapshot, Times
          <5>2. y.pinned => y = [u EXCEPT !.pinned = TRUE]
            BY <3>2, <3>3 DEF Kin, Snapshot, Times
          <5> QED
            BY <3>1, <3>2, <3>3, <3>5, <5>1, <5>2
        <4> QED
          BY <4>1
      <3> QED
        BY <3>4, <3>5
    <2>4. \A y \in (snaps \cup counted \cup todo["recover"])' :
             \E z \in snaps \cup counted \cup todo["recover"] : y.at = z.at
      BY <1>2, <1>3, <1>4, <1>7
    <2>5. \A x \in orphans' : \A y \in (snaps \cup counted \cup todo["recover"])' : x.at # y.at
      BY <1>1, <2>4 DEF Clock
    <2> QED
      BY <1>1, <2>1, <2>2, <2>3, <2>5 DEF Clock, Taking, job
  <1>12. Fresh'
    BY <1>1, <1>7 DEF Fresh, Taking, Working, IsPassOne, job
  <1>13. Deleting'
    <2>1. SUFFICES ASSUME NEW b \in {"maison", "user"}, pc[b] = "abortNext", b \notin errs,
                          NEW y \in snaps', y.stamp = stamp[b], y.at \notin missed[b]
                   PROVE  \E x \in todo[b] : Kin(x, y)
      BY <1>1, <1>3 DEF Deleting, Carrying
    <2>2. PICK z \in snaps : /\ Kin(z, y) /\ z.stamp = y.stamp /\ z \in Snapshot
                             /\ z.at = y.at
      BY <1>7
    <2>3. PICK x \in todo[b] : Kin(x, z)
      BY <2>1, <2>2 DEF Deleting, Carrying
    <2>4. x \in Snapshot
      BY DEF TypeOK, Actors
    <2>5. Kin(x, y)
      BY <2>2, <2>3, <2>4, KinAlike DEF Kin
    <2> QED
      BY <2>5
  <1>14. Committing'
    <2>1. SUFFICES ASSUME pc["maison"] = "next", stamp["maison"] \notin unwanted,
                          NEW x \in todo["maison"] \cup found, ~IsPassOne(x)
                   PROVE  \E y \in snaps' : Kin(x, y)
      BY <1>1, <1>3 DEF Committing, job, asked
    <2>2. PICK z \in snaps : Kin(x, z)
      BY <2>1 DEF Committing
    <2>3. PICK y \in snaps' : Kin(z, y)
      BY <1>8
    <2>4. x \in Snapshot
      BY DEF TypeOK, Actors
    <2>5. Kin(x, y)
      BY <2>2, <2>3, <2>4, KinAlike DEF Kin
    <2> QED
      BY <2>5
  <1>15. RulesExact' /\ AbortClean'
    BY <1>1, <1>7 DEF RulesExact, AbortClean, Carrying, Begun, job
  <1>16. PinHonest'
    <2>1. SUFFICES ASSUME NEW y \in snaps', y \in counted' PROVE y.pinned
      BY <1>9 DEF PinHonest, TypeOK
    <2>2. PICK z \in snaps : (z \in S => y.pinned) /\ (z \notin S => y = z)
      BY <1>7
    <2>3. CASE z \in S
      BY <2>2, <2>3
    <2>4. CASE z \notin S
      BY <1>4, <1>5, <2>1, <2>2, <2>4 DEF PinHonest
    <2> QED
      BY <2>3, <2>4
  <1>17. Straying' /\ Newest'
    BY <1>1, <1>7 DEF Straying, Newest, IsPassOne, job
  <1> QED
    BY <1>9, <1>10, <1>11, <1>12, <1>13, <1>14, <1>15, <1>16, <1>17

LEMMA PinsEnd == ASSUME Inv, PinEnd PROVE Inv'
  <1> USE ThreeActors DEF Inv, strays
  <1>1. /\ pc["recover"] = "pinNext" /\ GoTo("recover", "over")
        /\ UNCHANGED <<snaps, policy, clock, stamp, todo, errs, job, answers, asked, strays, faults>>
    BY DEF PinEnd, At
  <1>2. /\ pc' \in [Actors -> {"idle", "clear", "add", "create", "list", "next",
                               "failed", "abortList", "abortNext", "pinList",
                               "pinNext", "over"}]
        /\ pc'["recover"] = "over" /\ pc'["maison"] = pc["maison"]
        /\ pc'["user"] = pc["user"]
    BY <1>1, Goes DEF Actors
  <1>3. TypeOK'
    BY <1>1, <1>2 DEF TypeOK, policy, job, answers, asked
  <1>4. Places' /\ Policy' /\ Asked' /\ Committing' /\ Deleting'
    BY <1>1, <1>2 DEF Places, Policy, Asked, Committing, Deleting, Carrying, policy, job, asked
  <1>5. Clock' /\ Fresh'
    BY <1>1, <1>2 DEF Clock, Fresh, Taking, Working, job, answers
  <1>6. RulesExact' /\ AbortClean' /\ PinHonest'
    BY <1>1 DEF RulesExact, AbortClean, PinHonest, Carrying, job, answers
  <1>7. Straying' /\ Newest'
    BY <1>1, <1>2, StraysStay DEF job, answers
  <1> QED
    BY <1>3, <1>4, <1>5, <1>6, <1>7

LEMMA Kills == ASSUME Inv, NEW a \in Actors, KillOther(a) PROVE Inv'
  <1> USE ThreeActors DEF Inv, strays
  <1>1. /\ pc[a] \in {"abortList", "abortNext", "pinNext"}
        /\ todo' = [todo EXCEPT ![a] = {}]
        /\ UNCHANGED <<snaps, policy, clock, stamp, errs, job, answers, asked, strays>>
        /\ faults' \in 0 .. MaxFaults
    BY Faulted DEF KillOther
  <1>2. PICK there \in {"idle", "over"} :
           GoTo(a, there) /\ (a = "recover" <=> there = "over")
    BY DEF KillOther
  <1>3. /\ pc' \in [Actors -> {"idle", "clear", "add", "create", "list", "next",
                               "failed", "abortList", "abortNext", "pinList",
                               "pinNext", "over"}]
        /\ pc'[a] = there /\ \A b \in Actors \ {a} : pc'[b] = pc[b]
    BY <1>2, Goes
  <1>4. /\ todo' \in [Actors -> SUBSET Snapshot] /\ todo'[a] = {}
        /\ \A b \in Actors \ {a} : todo'[b] = todo[b]
    BY <1>1 DEF TypeOK
  <1>5. TypeOK'
    BY <1>1, <1>3, <1>4 DEF TypeOK, policy, job, answers, asked
  <1>6. Places' /\ Policy' /\ Asked' /\ Committing' /\ Deleting'
    BY <1>1, <1>2, <1>3, <1>4
    DEF Places, Policy, Asked, Committing, Deleting, Carrying, policy, job, asked
  <1>7. Clock' /\ Fresh'
    <2>1. /\ Taking' => Taking
          /\ pc'["maison"] # "idle" => pc["maison"] # "idle"
          /\ todo'["recover"] \subseteq todo["recover"]
      BY <1>2, <1>3, <1>4 DEF Taking
    <2>2. Working' => Working
      BY <1>2, <1>3 DEF Working, Taking
    <2> QED
      BY <1>1, <2>1, <2>2 DEF Clock, Fresh, job, answers
  <1>8. RulesExact' /\ AbortClean' /\ PinHonest'
    BY <1>1 DEF RulesExact, AbortClean, PinHonest, Carrying, job, answers
  <1>9. Straying' /\ Newest'
    BY <1>1, <1>2, <1>3, StraysStay DEF job, answers
  <1> QED
    BY <1>5, <1>6, <1>7, <1>8, <1>9

LEMMA Retains == ASSUME Inv, NEW k \in Latest, EnsureRetention(k) PROVE Inv'
  <1> USE ThreeActors DEF Inv, strays
  <1>1. /\ asks' \in 0 .. MaxAsks /\ faults' \in 0 .. MaxFaults
        /\ latest' \in {latest, Floor(k)}
        /\ UNCHANGED <<snaps, ignore, clock, pc, stamp, todo, errs, job, answers, unwanted,
                       strays>>
    BY BackupAssumption, Faulted DEF EnsureRetention, Ask, TypeOK
  <1>2. latest' \in Latest \cup {2, Inherited} /\ latest' >= 2
    <2>1. k \in Nat
      BY BackupAssumption
    <2> QED
      BY <1>1, <2>1 DEF Floor, TypeOK
  <1>3. TypeOK'
    BY <1>1, <1>2 DEF TypeOK, job, answers
  <1>4. Places' /\ Policy' /\ Asked' /\ Committing' /\ Deleting'
    BY <1>1 DEF Places, Policy, Asked, Committing, Deleting, Carrying, job
  <1>5. Clock' /\ Fresh'
    BY <1>1 DEF Clock, Fresh, Taking, Working, job, answers
  <1>6. RulesExact' /\ AbortClean' /\ PinHonest'
    BY <1>1 DEF RulesExact, AbortClean, PinHonest, Carrying, job, answers
  <1>7. Straying' /\ Newest'
    BY <1>1, StraysStay DEF job, answers
  <1> QED
    BY <1>3, <1>4, <1>5, <1>6, <1>7

LEMMA OrphansEnd == ASSUME Inv, NEW sn \in orphans, OrphanEnds(sn) PROVE Inv'
  <1> USE ThreeActors DEF Inv, strays
  <1>1. /\ orphans' = orphans \ {sn} /\ sn \in Snapshot
        /\ UNCHANGED <<policy, strayRules, upset, clock, pc, stamp, todo, missed, errs, job,
                       answers, asked, faults>>
    BY DEF OrphanEnds, TypeOK
  <1>2. PICK gone \in SUBSET Expirable(snaps \cup {sn}) :
           snaps' \in {snaps, (snaps \cup {sn}) \ gone}
    BY DEF OrphanEnds, KopiaCreate
  <1>3. snaps' \subseteq snaps \cup {sn}
    BY <1>2
  <1>4. \A y \in snaps \cup orphans : y.at \in Nat /\ y.at <= clock
    BY BackupAssumption DEF Clock, TypeOK, Snapshot, Times
  <1>5. TypeOK'
    BY <1>1, <1>3 DEF TypeOK, policy, job, answers, asked
  <1>6. Places' /\ Policy' /\ Asked'
    BY <1>1 DEF Places, Policy, Asked, policy, job, asked
  <1>7. Clock'
    <2>1. \A x, y \in snaps' : x.at = y.at => x = y
      BY <1>3 DEF Clock
    <2>2. \A x \in orphans' : \A y \in snaps' \cup counted \cup todo["recover"] : x.at # y.at
      BY <1>1, <1>3 DEF Clock
    <2> QED
      BY <1>1, <1>3, <2>1, <2>2 DEF Clock, Taking, job, answers
  <1>8. Fresh'
    BY <1>1, <1>3 DEF Fresh, Taking, Working, job, answers
  <1>9. Deleting'
    BY <1>1, <1>3 DEF Deleting, Straying, Carrying
  <1>10. Committing'
    <2>1. SUFFICES ASSUME pc["maison"] = "next", stamp["maison"] \notin unwanted,
                          NEW x \in todo["maison"] \cup found, ~IsPassOne(x)
                   PROVE  \E y \in snaps' : Kin(x, y)
      BY <1>1 DEF Committing, job, asked
    <2>2. x \in Snapshot /\ x.stamp = stamp["maison"]
      BY <2>1 DEF TypeOK, Committing
    <2>3. PICK y \in snaps : Kin(x, y)
      BY <2>1 DEF Committing
    <2>4. y.at = clock
      BY <2>1, <2>2, <2>3, KinAlike DEF Newest, IsPassOne
    <2>5. Newer(y, snaps \cup {sn}) = {} /\ clock \in Nat
      BY <1>4, <2>4 DEF Newer, TypeOK
    <2>6. latest \in Nat /\ latest >= 2
      BY BackupAssumption DEF TypeOK
    <2>7. y \notin Expirable(snaps \cup {sn})
      BY <2>5, <2>6, FS_EmptySet DEF Expirable
    <2> QED
      BY <1>2, <2>3, <2>7
  <1>11. RulesExact' /\ AbortClean'
    BY <1>1, <1>3 DEF RulesExact, AbortClean, Straying, Carrying, Begun, job, answers
  <1>12. PinHonest'
    <2>1. sn \notin counted
      BY DEF Clock
    <2> QED
      BY <1>1, <1>3, <2>1 DEF PinHonest, answers
  <1>13. Straying'
    BY <1>1 DEF Straying, job, answers
  <1>14. Newest'
    BY <1>1, <1>3 DEF Newest, Fresh, Working
  <1> QED
    BY <1>5, <1>6, <1>7, <1>8, <1>9, <1>10, <1>11, <1>12, <1>13, <1>14

LEMMA OrphansSet == ASSUME Inv, NEW rules \in strayRules, OrphanSets(rules) PROVE Inv'
  <1> USE ThreeActors DEF Inv, strays
  <1>1. /\ strayRules' = strayRules \ {rules} /\ rules \in SUBSET Patterns
        /\ UNCHANGED <<snaps, latest, orphans, clock, pc, stamp, todo, missed, errs, job,
                       answers, asked, faults>>
        /\ \/ upset' = TRUE /\ ignore' \in {{}, ignore \cup rules}
           \/ UNCHANGED <<ignore, upset>>
    BY DEF OrphanSets, TypeOK
  <1>2. TypeOK'
    BY <1>1 DEF TypeOK, job, answers, asked
  <1>3. Places' /\ Policy' /\ Asked' /\ Committing' /\ Deleting'
    BY <1>1 DEF Places, Policy, Asked, Committing, Deleting, Carrying, job, asked
  <1>4. Clock' /\ Fresh'
    BY <1>1 DEF Clock, Fresh, Taking, Working, job, answers
  <1>5. RulesExact' /\ AbortClean' /\ PinHonest'
    BY <1>1 DEF RulesExact, AbortClean, PinHonest, Carrying, job, answers
  <1>6. Straying' /\ Newest'
    BY <1>1, StraysStay DEF job, answers
  <1> QED
    BY <1>2, <1>3, <1>4, <1>5, <1>6

-----------------------------------------------------------------------------
(* Every verb preserves the invariant.                                     *)

LEMMA NextInv == ASSUME Inv, [Next]_vars PROVE Inv'
  <1>1. CASE \E p \in {1, 2}, rules \in SUBSET Patterns : Begin(p, rules)
    BY <1>1, Begins
  <1>2. CASE \E s \in Stamps : AskDelete(s)
    BY <1>2, Asks
  <1>3. CASE \E k \in Latest : EnsureRetention(k)
    BY <1>3, Retains
  <1>4. CASE Job \/ Abort("user")
    BY <1>4, Ignores, TakesOne, GivesUp, ListsCommit, CommitsNext, CommitsEnd,
       ListsAbort, AbortsNext, AbortsEnd DEF Job, Abort
  <1>5. CASE PinList \/ Pinning
    BY <1>5, ListsPins, PinsNext, PinsEnd DEF Pinning
  <1>6. CASE KillJob \/ \E a \in Actors : KillOther(a)
    BY <1>6, KillsJob, Kills
  <1>7. CASE (\E sn \in orphans : OrphanEnds(sn)) \/ \E rules \in strayRules : OrphanSets(rules)
    BY <1>7, OrphansEnd, OrphansSet
  <1>8. CASE UNCHANGED vars
    <2> USE <1>8 DEF vars, policy, job, answers, asked
    <2>1. TypeOK' /\ Places' /\ Clock' /\ Fresh' /\ Policy' /\ Deleting' /\ Asked'
          /\ Committing' /\ Straying' /\ Newest'
      BY DEF Inv, TypeOK, Places, Clock, Fresh, Taking, Working, Policy, Deleting, Carrying,
         Asked, Committing, Straying, Newest
    <2> QED
      BY <2>1 DEF Inv, RulesExact, AbortClean, PinHonest, Carrying
  <1> QED
    BY <1>1, <1>2, <1>3, <1>4, <1>5, <1>6, <1>7, <1>8 DEF Next

LEMMA Invariance == Spec => []Inv
  BY InitInv, NextInv, PTL DEF Spec

(* Every variable keeps its type: the floor under --keep-latest holds, and *)
(* two snapshots are all that a backup takes, whatever fails.              *)
THEOREM TypeCorrect == Spec => []TypeOK
  <1>1. Inv => TypeOK
    BY DEF Inv
  <1> QED
    BY <1>1, Invariance, PTL

(* A snapshot of Maison's backup was taken under exactly the rules that    *)
(* were given for it, also when a policy was left half installed before or *)
(* its second pass relies on the rules of the first; the exception is the  *)
(* policy call of a killed job that came through in between.               *)
THEOREM RulesAlwaysExact == Spec => []RulesExact
  <1>1. Inv => RulesExact
    BY DEF Inv
  <1> QED
    BY <1>1, Invariance, PTL

(* After an abort or a delete that got a list and returned nil, all the    *)
(* repository ever has of the stamp is what the kopia of a killed job was  *)
(* still taking when the list was made: a pin that changed an id under the *)
(* loop makes it fail, and nothing else of the stamp is taken later.       *)
THEOREM AbortAlwaysClean == Spec => []AbortClean
  <1>1. Inv => AbortClean
    BY DEF Inv
  <1> QED
    BY <1>1, Invariance, PTL

(* pinAll counts no snapshot that is still there unpinned, whichever       *)
(* batches fail and whatever retention takes between them.                 *)
THEOREM PinAlwaysHonest == Spec => []PinHonest
  <1>1. Inv => PinHonest
    BY DEF Inv
  <1> QED
    BY <1>1, Invariance, PTL

(* commit answers only with a consistent snapshot of its stamp that the    *)
(* repository has, under its old id or its pinned one, unless the owner    *)
(* asked for its deletion while commit was running.                        *)
THEOREM CommitAlwaysHonest == Spec => CommitHonest
  <1> DEFINE Honest ==
        \A s \in done' \ done :
          \E sn \in found :
             /\ sn.stamp = s /\ ~IsPassOne(sn)
             /\ {sn} \cup Pinned({sn}) \subseteq Snapshot \ snaps => s \in unwanted
  <1>1. ASSUME Inv, [Next]_vars PROVE Honest
    <2> USE DEF Inv
    <2>1. SUFFICES ASSUME NEW s \in done' \ done
                   PROVE  \E sn \in found :
                             /\ sn.stamp = s /\ ~IsPassOne(sn)
                             /\ {sn} \cup Pinned({sn}) \subseteq Snapshot \ snaps
                                   => s \in unwanted
      OBVIOUS
    <2>2. CommitEnd
      BY <1>1, <2>1 DEF Next, Job, Abort, Pinning, Begin, AskDelete, EnsureRetention,
         ClearIgnore, AddIgnore, Create, GiveUp, CommitList, CommitNext, AbortList,
         AbortNext, AbortEnd, PinList, PinNext, PinEnd, KillJob, KillOther,
         OrphanEnds, OrphanSets, vars, answers
    <2>3. s = stamp["maison"] /\ found # {} /\ pc["maison"] = "next"
      BY <2>1, <2>2 DEF CommitEnd, At
    <2>4. PICK sn \in found : TRUE
      BY <2>3
    <2>5. sn.stamp = s /\ ~IsPassOne(sn)
      BY <1>1, <2>3, <2>4 DEF Committing
    <2>6. s \in unwanted \/ \E y \in snaps : Kin(sn, y)
      BY <1>1, <2>3, <2>4, <2>5 DEF Committing
    <2>7. CASE \E y \in snaps : Kin(sn, y)
      BY <2>4, <2>5, <2>7 DEF Kin, Pinned
    <2> QED
      BY <2>4, <2>5, <2>6, <2>7
  <1>2. Spec => [][Honest]_vars
    BY <1>1, Invariance, PTL DEF Spec
  <1> QED
    BY <1>2 DEF CommitHonest

-----------------------------------------------------------------------------
(* Retention.                                                              *)

(* A backup that is not over has no answer of its commit yet, an abort is  *)
(* about its own stamp, and before its first snapshot it has none.         *)
Undone ==
    /\ \A s \in done : s <= stamp["maison"]
    /\ pc["maison"] # "idle" => stamp["maison"] \notin done
    /\ pc["maison"] = "abortNext" => \A sn \in todo["maison"] : sn.stamp = stamp["maison"]
    /\ Taking /\ pass = 1 => \A sn \in snaps : sn.stamp # stamp["maison"]

LEMMA UndoneInv == ASSUME Inv, Undone, [Next]_vars PROVE Undone'
  <1> USE ThreeActors DEF Inv, strays
  <1>1. stamp["maison"] \in Nat /\ \A s \in done : s \in Nat
    BY BackupAssumption DEF TypeOK, Stamps
  <1>2. CASE \E p \in {1, 2}, rules \in SUBSET Patterns : Begin(p, rules)
    <2>1. /\ stamp'["maison"] = stamp["maison"] + 1 /\ pc'["maison"] = "clear"
          /\ UNCHANGED <<snaps, done>>
      BY <1>2 DEF Begin, GoTo, TypeOK, answers
    <2>2. \A sn \in snaps : sn.stamp \in Nat /\ sn.stamp <= stamp["maison"]
      BY BackupAssumption DEF Fresh, TypeOK, Snapshot, Times, Stamps
    <2> QED
      BY <1>1, <2>1, <2>2 DEF Undone
  <1>3. CASE \E s \in Stamps : AskDelete(s)
    <2>1. /\ stamp'["maison"] = stamp["maison"] /\ pc'["maison"] = pc["maison"]
          /\ UNCHANGED <<snaps, done, todo, pass>>
      BY <1>3 DEF AskDelete, GoTo, TypeOK, Actors, answers, job
    <2> QED
      BY <2>1 DEF Undone, Taking
  <1>4. CASE Create
    <2>1. /\ UNCHANGED <<stamp, done, todo>> /\ pc["maison"] = "create"
          /\ pc'["maison"] \in {"clear", "create", "list", "failed"}
          /\ pc'["maison"] \in {"clear", "create"} => pass' = 2
      BY <1>4 DEF Create, At, GoTo, TypeOK, answers
    <2> QED
      BY <2>1 DEF Undone, Taking
  <1>5. CASE CommitEnd
    <2>1. /\ UNCHANGED <<stamp, snaps, todo>> /\ pc["maison"] = "next"
          /\ \/ pc'["maison"] = "failed" /\ done' = done
             \/ pc'["maison"] = "idle" /\ done' = done \cup {stamp["maison"]}
      BY <1>5 DEF CommitEnd, At, GoTo, TypeOK
    <2> QED
      BY <1>1, <2>1 DEF Undone, Taking
  <1>6. CASE \E a \in {"maison", "user"} : AbortList(a)
    <2>1. PICK a \in {"maison", "user"} : AbortList(a)
      BY <1>6
    <2>2. /\ UNCHANGED <<stamp, snaps, done, pass>>
          /\ a = "user" => pc'["maison"] = pc["maison"] /\ todo'["maison"] = todo["maison"]
          /\ a = "maison" => /\ pc["maison"] = "abortList"
                             /\ pc'["maison"] \in {"idle", "abortNext"}
                             /\ pc'["maison"] = "abortNext" =>
                                   todo'["maison"] = Carrying(stamp["maison"])
      BY <2>1 DEF AbortList, At, GoTo, TypeOK, Actors, answers, job
    <2>3. CASE a = "user"
      BY <2>2, <2>3 DEF Undone, Taking
    <2>4. CASE a = "maison"
      BY <2>2, <2>4 DEF Undone, Taking, Carrying
    <2> QED
      BY <2>3, <2>4
  <1>7. CASE \E a \in {"maison", "user"} : AbortNext(a)
    <2>1. PICK a \in {"maison", "user"} : AbortNext(a)
      BY <1>7
    <2>2. /\ UNCHANGED <<stamp, done, pc, pass>> /\ todo'["maison"] \subseteq todo["maison"]
      BY <2>1 DEF AbortNext, Handled, TypeOK, answers, job
    <2>3. snaps' \subseteq snaps
      BY <2>1, Deleted DEF AbortNext
    <2> QED
      BY <2>2, <2>3 DEF Undone, Taking
  <1>8. CASE PinNext
    <2>1. /\ UNCHANGED <<stamp, done, pc, pass>> /\ todo'["maison"] = todo["maison"]
      BY <1>8 DEF PinNext, Handled, TypeOK, Actors, job
    <2>2. PICK S \in SUBSET snaps :
             snaps' = (snaps \ S) \cup {[sn EXCEPT !.pinned = TRUE] : sn \in S}
      BY <1>8, Pins DEF PinNext
    <2>3. ASSUME NEW y \in snaps' PROVE \E z \in snaps : y.stamp = z.stamp
      <3>1. CASE y \in snaps \ S
        BY <3>1
      <3>2. CASE y \in {[sn EXCEPT !.pinned = TRUE] : sn \in S}
        <4>1. PICK z \in S : y = [z EXCEPT !.pinned = TRUE]
          BY <3>2
        <4>2. z \in snaps /\ z \in Snapshot
          BY <2>2 DEF TypeOK
        <4> QED
          BY <4>1, <4>2, PinKeeps
      <3> QED
        BY <2>2, <3>1, <3>2
    <2> QED
      BY <2>1, <2>3 DEF Undone, Taking
  <1>9. CASE CommitNext
    <2>1. UNCHANGED <<stamp, done, pc, pass>> /\ pc["maison"] = "next"
      BY <1>9 DEF CommitNext, At, answers
    <2> QED
      BY <2>1 DEF Undone, Taking
  <1>10. CASE ClearIgnore \/ AddIgnore \/ GiveUp \/ CommitList \/ KillJob
    <2>1. /\ UNCHANGED <<stamp, snaps, done, pass>>
          /\ pc["maison"] # "idle" /\ pc'["maison"] # "abortNext"
          /\ Taking' => Taking
      BY <1>10 DEF ClearIgnore, AddIgnore, GiveUp, CommitList, KillJob, At, GoTo, TypeOK,
         Taking, answers, job
    <2> QED
      BY <2>1 DEF Undone
  <1>11. CASE \E a \in {"maison", "user"} : AbortEnd(a)
    <2>1. /\ UNCHANGED <<stamp, snaps, done, todo, pass>>
          /\ pc'["maison"] \in {"idle", pc["maison"]}
      BY <1>11 DEF AbortEnd, GoTo, TypeOK, job
    <2> QED
      BY <2>1 DEF Undone, Taking
  <1>12. CASE \E a \in Actors : KillOther(a)
    <2>1. /\ UNCHANGED <<stamp, snaps, done, pass>>
          /\ pc'["maison"] \in {"idle", pc["maison"]}
          /\ todo'["maison"] \in {{}, todo["maison"]}
      BY <1>12 DEF KillOther, GoTo, TypeOK, Actors, answers, job
    <2> QED
      BY <2>1 DEF Undone, Taking
  <1>13. CASE PinList \/ PinEnd
    <2>1. /\ UNCHANGED <<stamp, snaps, done, pass>> /\ pc'["maison"] = pc["maison"]
          /\ todo'["maison"] = todo["maison"]
      BY <1>13 DEF PinList, PinEnd, GoTo, TypeOK, Actors, answers, job
    <2> QED
      BY <2>1 DEF Undone, Taking
  <1>14. CASE (\E k \in Latest : EnsureRetention(k)) \/ UNCHANGED vars
    BY <1>14 DEF EnsureRetention, Undone, Taking, vars, answers, job
  <1>15. CASE \E sn \in orphans : OrphanEnds(sn)
    <2>1. PICK sn \in orphans : OrphanEnds(sn)
      BY <1>15
    <2>2. UNCHANGED <<stamp, done, todo, pc, pass>>
      BY <2>1 DEF OrphanEnds, answers, job
    <2>3. snaps' \subseteq snaps \cup {sn}
      BY <2>1, Creates DEF OrphanEnds
    <2>4. Taking => sn.stamp # stamp["maison"]
      BY DEF Fresh, Working
    <2> QED
      BY <2>2, <2>3, <2>4 DEF Undone, Taking
  <1>16. CASE \E rules \in strayRules : OrphanSets(rules)
    BY <1>16 DEF OrphanSets, Undone, Taking, answers, job
  <1> QED
    BY <1>2, <1>3, <1>4, <1>5, <1>6, <1>7, <1>8, <1>9, <1>10, <1>11, <1>12, <1>13, <1>14,
       <1>15, <1>16
    DEF Next, Job, Abort, Pinning

(* A backup has one first pass at most, saved or with an orphan. *)
OneTorn ==
    \A x, y \in snaps \cup orphans :
        IsPassOne(x) /\ IsPassOne(y) /\ x.stamp = y.stamp => x.at = y.at

LEMMA OneTornInv == ASSUME Inv, Undone, OneTorn, [Next]_vars PROVE OneTorn'
  <1> USE ThreeActors DEF Inv, strays
  <1>1. CASE Create \/ (KillJob /\ pc["maison"] = "create")
    <2>1. pc["maison"] = "create" /\ (snaps \cup orphans)' \subseteq snaps \cup orphans \cup {Taken}
      BY <1>1, Creates DEF Create, KillJob, At
    <2>2. Taken.stamp = stamp["maison"] /\ Taken.pass = pass
      BY DEF Taken
    <2>3. IsPassOne(Taken) => \A x \in snaps \cup orphans : x.stamp # stamp["maison"]
      BY <2>1, <2>2 DEF Undone, Fresh, Taking, Working, IsPassOne
    <2> QED
      BY <2>1, <2>2, <2>3 DEF OneTorn
  <1>2. CASE PinNext
    <2>1. PICK S \in SUBSET snaps :
             snaps' = (snaps \ S) \cup {[sn EXCEPT !.pinned = TRUE] : sn \in S}
      BY <1>2, Pins DEF PinNext
    <2>2. UNCHANGED orphans
      BY <1>2 DEF PinNext
    <2>3. ASSUME NEW y \in snaps'
          PROVE  \E z \in snaps : y.stamp = z.stamp /\ y.at = z.at /\ y.pass = z.pass
      <3>1. CASE y \in {[sn EXCEPT !.pinned = TRUE] : sn \in S}
        <4>1. PICK z \in S : y = [z EXCEPT !.pinned = TRUE]
          BY <3>1
        <4>2. z \in snaps /\ z \in Snapshot
          BY <2>1 DEF TypeOK
        <4> QED
          BY <4>1, <4>2, PinKeeps
      <3> QED
        BY <2>1, <3>1
    <2> QED
      BY <2>2, <2>3 DEF OneTorn, IsPassOne
  <1>3. CASE (snaps \cup orphans)' \subseteq snaps \cup orphans
    BY <1>3 DEF OneTorn, IsPassOne
  <1>4. ASSUME NEW a \in {"maison", "user"}, AbortNext(a)
        PROVE  (snaps \cup orphans)' \subseteq snaps \cup orphans
    BY <1>4, Deleted DEF AbortNext
  <1>5. CommitNext => (snaps \cup orphans)' \subseteq snaps \cup orphans
    BY Deleted DEF CommitNext
  <1>6. ASSUME NEW sn \in orphans, OrphanEnds(sn)
        PROVE  (snaps \cup orphans)' \subseteq snaps \cup orphans
    BY <1>6, Creates DEF OrphanEnds
  <1>7. KillJob /\ pc["maison"] # "create" => (snaps \cup orphans)' \subseteq snaps \cup orphans
    BY DEF KillJob, At
  <1> QED
    BY <1>1, <1>2, <1>3, <1>4, <1>5, <1>6, <1>7
    DEF Next, Job, Abort, Pinning, Begin, AskDelete, EnsureRetention, ClearIgnore, AddIgnore,
        GiveUp, CommitList, CommitEnd, AbortList, AbortEnd, PinList, PinEnd, KillOther,
        OrphanSets, vars

LEMMA UndoneAlways == Spec => [](Inv /\ Undone /\ OneTorn)
  <1>1. Init => Undone /\ OneTorn
    BY ThreeActors DEF Init, Undone, OneTorn, Taking
  <1> QED
    BY <1>1, UndoneInv, OneTornInv, Invariance, PTL DEF Spec

(* A list has a newest snapshot. *)
LEMMA NewestIn ==
    ASSUME NEW S \in SUBSET Snapshot, S # {}
    PROVE  \E t \in S : \A x \in S : x.at <= t.at
  <1> DEFINE T == {2 * MaxBackups - sn.at : sn \in S}
  <1>1. \A sn \in S : sn.at \in 1 .. 2 * MaxBackups
    BY DEF Snapshot, Times
  <1>2. T \subseteq Nat /\ T # {}
    BY <1>1, BackupAssumption
  <1>3. PICK m \in T : \A u \in T : ~ (<<u, m>> \in OpToRel(<, Nat))
    BY <1>2, NatLessThanWellFounded, WFMin
  <1>4. PICK t \in S : 2 * MaxBackups - t.at = m
    BY <1>3
  <1>5. ASSUME NEW x \in S PROVE x.at <= t.at
    <2>1. 2 * MaxBackups - x.at \in T
      OBVIOUS
    <2>2. ~ (<<2 * MaxBackups - x.at, m>> \in OpToRel(<, Nat))
      BY <1>3, <2>1
    <2>3. ~ (2 * MaxBackups - x.at < m)
      BY <1>2, <1>3, <2>1, <2>2 DEF OpToRel
    <2> QED
      BY <1>1, <1>4, <2>3, BackupAssumption
  <1> QED
    BY <1>5

LEMMA SnapsFinite == ASSUME Inv PROVE IsFiniteSet(snaps)
  <1> DEFINE f == [sn \in snaps |-> sn.at]
  <1>1. IsFiniteSet(1 .. 2 * MaxBackups)
    BY FS_Interval, BackupAssumption
  <1>2. f \in [snaps -> 1 .. 2 * MaxBackups]
    BY DEF Inv, TypeOK, Snapshot, Times
  <1>3. \A x, y \in snaps : f[x] = f[y] => x = y
    BY DEF Inv, Clock
  <1>4. f \in Injection(snaps, 1 .. 2 * MaxBackups)
    BY <1>2, <1>3 DEF Injection, IsInjective
  <1> QED
    BY <1>1, <1>4, FS_Injection

(* The newest two of a list are never expired. *)
LEMMA NewestKept ==
    ASSUME TypeOK, NEW S, NEW t \in S, NEW u, Newer(t, S) \subseteq {u}
    PROVE  t \notin Expirable(S)
  <1>1. IsFiniteSet({u}) /\ Cardinality({u}) = 1
    BY FS_Singleton
  <1>2. Newer(t, S) \in SUBSET {u}
    OBVIOUS
  <1>3. Cardinality(Newer(t, S)) <= 1 /\ Cardinality(Newer(t, S)) \in Nat
    BY <1>1, <1>2, FS_Subset, FS_CardinalityType
  <1>4. latest \in Nat /\ latest >= 2
    BY BackupAssumption DEF TypeOK
  <1>5. ~ (Cardinality(Newer(t, S)) >= latest)
    BY <1>3, <1>4
  <1> QED
    BY <1>5 DEF Expirable

(* What retention pushes out has two newer ones that stay. *)
LEMMA TwoStay ==
    ASSUME TypeOK, NEW S \in SUBSET Snapshot, IsFiniteSet(S),
           \A x, y \in S : x.at = y.at => x = y,
           NEW sn \in S, Cardinality(Newer(sn, S)) >= 2,
           NEW gone \in SUBSET Expirable(S)
    PROVE  Cardinality(Newer(sn, S \ gone)) >= 2
  <1>1. \A x \in S : x.at \in Nat
    BY BackupAssumption DEF Snapshot, Times
  <1>2. Newer(sn, S) \in SUBSET S /\ Newer(sn, S) \in SUBSET Snapshot
    BY DEF Newer
  <1>3. Newer(sn, S) # {}
    BY FS_EmptySet
  <1>4. PICK t \in Newer(sn, S) : \A x \in Newer(sn, S) : x.at <= t.at
    BY <1>2, <1>3, NewestIn
  <1>5. Newer(sn, S) \ {t} # {}
    <2>1. SUFFICES ASSUME Newer(sn, S) \subseteq {t} PROVE FALSE
      OBVIOUS
    <2>2. Newer(sn, S) \in SUBSET {t} /\ IsFiniteSet({t}) /\ Cardinality({t}) = 1
      BY <2>1, FS_Singleton
    <2>3. Cardinality(Newer(sn, S)) <= 1 /\ Cardinality(Newer(sn, S)) \in Nat
      BY <2>2, FS_Subset, FS_CardinalityType
    <2> QED
      BY <2>3
  <1>6. PICK u \in Newer(sn, S) \ {t} : \A x \in Newer(sn, S) \ {t} : x.at <= u.at
    <2>1. Newer(sn, S) \ {t} \in SUBSET Snapshot
      BY <1>2
    <2> QED
      BY <1>5, <2>1, NewestIn
  <1>7. t \in S /\ u \in S /\ t # u /\ t.at > sn.at /\ u.at > sn.at /\ sn.at \in Nat
        /\ t.at \in Nat /\ u.at \in Nat
    BY <1>1, <1>4, <1>6 DEF Newer
  <1>8. t \notin gone
    <2>1. Newer(t, S) \subseteq {t}
      BY <1>1, <1>4, <1>7 DEF Newer
    <2> QED
      BY <1>7, <2>1, NewestKept
  <1>9. u \notin gone
    <2>1. Newer(u, S) \subseteq {t}
      BY <1>1, <1>6, <1>7 DEF Newer
    <2> QED
      BY <1>7, <2>1, NewestKept
  <1>10. {t, u} \subseteq Newer(sn, S \ gone)
    BY <1>7, <1>8, <1>9 DEF Newer
  <1>11. IsFiniteSet(Newer(sn, S \ gone))
    <2>1. Newer(sn, S \ gone) \in SUBSET S
      BY DEF Newer
    <2> QED
      BY <2>1, FS_Subset
  <1>12. Cardinality({t, u}) = 2
    <2>1. IsFiniteSet({t}) /\ Cardinality({t}) = 1
      BY FS_Singleton
    <2>2. Cardinality({t} \cup {u}) = Cardinality({t}) + 1
      BY <1>7, <2>1, FS_AddElement
    <2>3. {t} \cup {u} = {t, u}
      OBVIOUS
    <2> QED
      BY <2>1, <2>2, <2>3
  <1>13. {t, u} \in SUBSET Newer(sn, S \ gone)
    BY <1>10
  <1>14. Cardinality({t, u}) <= Cardinality(Newer(sn, S \ gone))
    BY <1>11, <1>13, FS_Subset
  <1>15. Cardinality(Newer(sn, S \ gone)) \in Nat
    BY <1>11, FS_CardinalityType
  <1> QED
    BY <1>12, <1>14, <1>15

(* What a create finds and leaves. *)
LEMMA CreateEffect ==
    ASSUME Inv, Create, snaps' # snaps \/ clock' # clock
    PROVE  LET S == snaps \cup {Taken}
           IN  /\ pc["maison"] = "create" /\ Taken.at = clock + 1 /\ Taken.pass = pass
               /\ Taken \in Snapshot /\ S \in SUBSET Snapshot /\ IsFiniteSet(S)
               /\ \A x \in snaps : x.at <= clock /\ x.at \in Nat
               /\ \A x, y \in S : x.at = y.at => x = y
               /\ \E gone \in SUBSET Expirable(S) : snaps' = S \ gone
               /\ clock \in Nat /\ pass \in {1, 2}
  <1> USE ThreeActors DEF Inv, strays
  <1>1. pc["maison"] = "create" /\ KopiaCreate(Taken) /\ clock \in Nat
    BY DEF Create, At, TypeOK
  <1>2. /\ stamp["maison"] \in Stamps /\ pass \in {1, 2}
        /\ clock + 3 <= 2 * stamp["maison"] + pass
    BY <1>1 DEF Clock, Taking, TypeOK
  <1>3. clock < 2 * MaxBackups /\ stamp["maison"] # 0
    BY <1>1, <1>2, BackupAssumption DEF Stamps
  <1>4. Taken \in Snapshot /\ Taken.at = clock + 1 /\ Taken.pass = pass
    BY <1>3, Takes
  <1>5. IsFiniteSet(snaps \cup {Taken})
    BY SnapsFinite, FS_AddElement
  <1>6. \A x \in snaps : x.at \in Nat /\ x.at <= clock
    BY BackupAssumption DEF Clock, TypeOK, Snapshot, Times
  <1>7. \A x, y \in snaps \cup {Taken} : x.at = y.at => x = y
    BY <1>1, <1>4, <1>6 DEF Clock
  <1> QED
    BY <1>1, <1>2, <1>4, <1>5, <1>6, <1>7 DEF KopiaCreate, TypeOK

(* And what the kopia of a killed job does. *)
LEMMA OrphanEffect ==
    ASSUME Inv, NEW o \in orphans, OrphanEnds(o), snaps' # snaps
    PROVE  LET S == snaps \cup {o}
           IN  /\ S \in SUBSET Snapshot /\ IsFiniteSet(S)
               /\ \A x, y \in S : x.at = y.at => x = y
               /\ \E gone \in SUBSET Expirable(S) : snaps' = S \ gone
  <1> USE DEF Inv
  <1>1. KopiaCreate(o)
    BY DEF OrphanEnds
  <1>2. IsFiniteSet(snaps \cup {o})
    BY SnapsFinite, FS_AddElement
  <1>3. \A x, y \in snaps \cup {o} : x.at = y.at => x = y
    BY DEF Clock
  <1> QED
    BY <1>1, <1>2, <1>3 DEF KopiaCreate, TypeOK

(* A backup that was committed goes when its deletion is asked for, or     *)
(* when two newer snapshots push it out, however often retention runs, an  *)
(* abort sweeps or a recover pins, and whatever the kopia of a killed job  *)
(* saves late.                                                             *)
THEOREM CommittedAlwaysKept == Spec => CommittedKept
  <1> DEFINE Kept ==
        \A sn \in Listed :
          /\ sn.stamp \in done
          /\ {sn} \cup Pinned({sn}) \subseteq Snapshot \ snaps'
          => \/ sn.stamp \in unwanted
             \/ Cardinality(Newer(sn, snaps')) >= 2
  <1>1. ASSUME Inv, Undone, [Next]_vars PROVE Kept
    <2> USE ThreeActors DEF Inv
    <2>1. SUFFICES ASSUME NEW sn \in snaps, ~IsPassOne(sn), sn.stamp \in done,
                          sn \notin snaps', [sn EXCEPT !.pinned = TRUE] \notin snaps'
                   PROVE  \/ sn.stamp \in unwanted
                          \/ Cardinality(Newer(sn, snaps')) >= 2
      BY DEF Listed, Pinned
    <2>2. \/ Create \/ \E o \in orphans : OrphanEnds(o)
          \/ CommitNext \/ AbortNext("maison") \/ AbortNext("user") \/ PinNext
      BY <1>1, <2>1 DEF Next, Job, Abort, Pinning, Begin, AskDelete, EnsureRetention,
         ClearIgnore, AddIgnore, GiveUp, CommitList, CommitEnd, AbortList,
         AbortEnd, PinList, PinEnd, KillJob, KillOther,
         OrphanSets, vars
    <2>3. CASE Create \/ \E o \in orphans : OrphanEnds(o)
      <3>1. PICK S \in SUBSET Snapshot :
               /\ IsFiniteSet(S) /\ sn \in S
               /\ \A x, y \in S : x.at = y.at => x = y
               /\ \E gone \in SUBSET Expirable(S) : snaps' = S \ gone
        <4>1. CASE Create
          BY <1>1, <2>1, <4>1, CreateEffect
        <4>2. CASE \E o \in orphans : OrphanEnds(o)
          BY <1>1, <2>1, <4>2, OrphanEffect
        <4> QED
          BY <2>3, <4>1, <4>2
      <3>2. PICK gone \in SUBSET Expirable(S) : snaps' = S \ gone
        BY <3>1
      <3>3. latest \in Nat /\ latest >= 2
        BY <1>1, BackupAssumption DEF TypeOK
      <3>4. sn \in Expirable(S)
        BY <2>1, <3>1, <3>2
      <3>5. IsFiniteSet(Newer(sn, S)) /\ Cardinality(Newer(sn, S)) \in Nat
        <4>1. Newer(sn, S) \in SUBSET S
          BY DEF Newer
        <4> QED
          BY <3>1, <4>1, FS_Subset, FS_CardinalityType
      <3>6. Cardinality(Newer(sn, S)) >= 2
        BY <3>3, <3>4, <3>5 DEF Expirable
      <3>7. Cardinality(Newer(sn, S \ gone)) >= 2
        BY <1>1, <3>1, <3>6, TwoStay
      <3> QED
        BY <3>2, <3>7
    <2>4. CASE CommitNext
      <3>1. IsPassOne(Oldest(todo["maison"])) \/ UNCHANGED snaps
        BY <2>4 DEF CommitNext
      <3>2. IsPassOne(Oldest(todo["maison"])) =>
               snaps' \in {snaps, snaps \ {Oldest(todo["maison"])}}
        BY <1>1, <2>4, Deleted DEF CommitNext
      <3> QED
        BY <2>1, <3>1, <3>2
    <2>5. CASE AbortNext("maison")
      <3>1. pc["maison"] = "abortNext" /\ todo["maison"] # {}
        BY <2>5 DEF AbortNext, At
      <3>2. Oldest(todo["maison"]) \in todo["maison"]
        BY <1>1, <3>1, OldestIn DEF TypeOK
      <3>3. snaps' \in {snaps, snaps \ {Oldest(todo["maison"])}}
        BY <1>1, <2>5, Deleted DEF AbortNext
      <3>4. Oldest(todo["maison"]).stamp \notin done
        BY <1>1, <3>1, <3>2 DEF Undone
      <3> QED
        BY <2>1, <3>3, <3>4
    <2>6. CASE AbortNext("user")
      <3>1. pc["user"] = "abortNext" /\ todo["user"] # {}
        BY <2>6 DEF AbortNext, At
      <3>2. Oldest(todo["user"]) \in todo["user"]
        BY <1>1, <3>1, OldestIn DEF TypeOK
      <3>3. snaps' \in {snaps, snaps \ {Oldest(todo["user"])}}
        BY <1>1, <2>6, Deleted DEF AbortNext
      <3>4. Oldest(todo["user"]).stamp \in unwanted
        BY <1>1, <3>1, <3>2 DEF Asked
      <3> QED
        BY <2>1, <3>3, <3>4
    <2>7. CASE PinNext
      <3>1. PICK T \in SUBSET snaps :
               snaps' = (snaps \ T) \cup {[x EXCEPT !.pinned = TRUE] : x \in T}
        BY <1>1, <2>7, Pins DEF PinNext
      <3> QED
        BY <2>1, <3>1
    <2> QED
      BY <2>2, <2>3, <2>4, <2>5, <2>6, <2>7
  <1>2. Spec => [][Kept]_vars
    BY <1>1, UndoneAlways, PTL DEF Spec
  <1> QED
    BY <1>2 DEF CommittedKept

(* The floor under --keep-latest is enough for the two passes of a backup: *)
(* where no earlier one left its torn snapshot behind or may still save    *)
(* it, a snapshot that is saved, in time or late, leaves a source that had *)
(* a consistent one with a consistent one.                                 *)
THEOREM FloorAlwaysEnough == Spec => FloorEnough
  <1> DEFINE Enough ==
        /\ Saves /\ Listed # {}
        /\ \A sn \in snaps \cup orphans : IsPassOne(sn) => sn.stamp = stamp["maison"]
        => Listed' # {}
  <1>1. ASSUME Inv, Undone, OneTorn, [Next]_vars PROVE Enough
    <2> USE ThreeActors DEF Inv
    <2> SUFFICES ASSUME Saves, Listed # {}, snaps' # snaps,
                        \A sn \in snaps \cup orphans :
                            IsPassOne(sn) => sn.stamp = stamp["maison"]
                 PROVE  Listed' # {}
      BY DEF Listed
    <2>7. CASE \E o \in orphans : OrphanEnds(o)
      <3>1. PICK o \in orphans : OrphanEnds(o)
        BY <2>7
      <3>2. PICK S \in SUBSET Snapshot :
               /\ S = snaps \cup {o}
               /\ \A x, y \in S : x.at = y.at => x = y
               /\ \E gone \in SUBSET Expirable(S) : snaps' = S \ gone
        BY <1>1, <3>1, OrphanEffect
      <3> DEFINE L == {sn \in S : ~IsPassOne(sn)}
      <3>3. PICK t \in L : \A x \in L : x.at <= t.at
        <4>1. L \in SUBSET Snapshot /\ L # {}
          BY <3>2 DEF Listed
        <4> QED
          BY <4>1, NewestIn
      <3>4. \E u : Newer(t, S) \subseteq {u}
        <4>1. \A x \in Newer(t, S) : x \in S /\ IsPassOne(x)
          <5>1. \A x \in S : x.at \in Nat
            BY BackupAssumption DEF Snapshot, Times
          <5> QED
            BY <3>3, <5>1 DEF Newer
        <4>2. \A x, y \in Newer(t, S) : x = y
          <5>1. \A x \in S : x \in snaps \cup orphans
            BY <3>2
          <5>2. TAKE x, y \in Newer(t, S)
          <5>3. /\ x \in S /\ y \in S /\ IsPassOne(x) /\ IsPassOne(y)
                /\ x \in snaps \cup orphans /\ y \in snaps \cup orphans
            BY <4>1, <5>1
          <5>4. x.stamp = stamp["maison"] /\ y.stamp = stamp["maison"]
            BY <5>3
          <5>5. x.at = y.at
            BY <1>1, <5>3, <5>4 DEF OneTorn
          <5> QED
            BY <3>2, <5>3, <5>5
        <4>3. CASE Newer(t, S) = {}
          BY <4>3
        <4>4. CASE Newer(t, S) # {}
          <5>1. PICK u \in Newer(t, S) : TRUE
            BY <4>4
          <5> QED
            BY <4>2, <5>1
        <4> QED
          BY <4>3, <4>4
      <3>5. t \in S /\ t \notin Expirable(S)
        BY <1>1, <3>3, <3>4, NewestKept
      <3> QED
        BY <3>2, <3>3, <3>5 DEF Listed
    <2>1. Create \/ \E o \in orphans : OrphanEnds(o)
      BY <1>1 DEF Next, Job, Abort, Pinning, Begin, AskDelete, EnsureRetention,
         ClearIgnore, AddIgnore, GiveUp, CommitList, CommitNext, CommitEnd, AbortList,
         AbortNext, AbortEnd, PinList, PinNext, PinEnd, KillJob, KillOther, OrphanSets,
         Saves, strays, vars
    <2> SUFFICES ASSUME Create PROVE Listed' # {}
      BY <2>1, <2>7
    <2> DEFINE S == snaps \cup {Taken}
    <2>2. /\ pc["maison"] = "create" /\ Taken.at = clock + 1 /\ Taken.pass = pass
          /\ S \in SUBSET Snapshot /\ clock \in Nat /\ pass \in {1, 2}
          /\ \A x \in snaps : x.at <= clock /\ x.at \in Nat
          /\ \A x, y \in S : x.at = y.at => x = y
          /\ \E gone \in SUBSET Expirable(S) : snaps' = S \ gone
      BY <1>1, CreateEffect
    <2>3. PICK gone \in SUBSET Expirable(S) : snaps' = S \ gone
      BY <2>2
    <2>4. SUFFICES \E t \in S : ~IsPassOne(t) /\ t \notin Expirable(S)
      BY <2>3 DEF Listed
    <2>5. CASE pass = 2
      <3>1. Newer(Taken, S) \subseteq {Taken}
        BY <2>2 DEF Newer
      <3>2. Taken \notin Expirable(S)
        BY <1>1, <3>1, NewestKept
      <3> QED
        BY <2>2, <2>5, <3>2 DEF IsPassOne
    <2>6. CASE pass = 1
      <3>1. \A x \in snaps : ~IsPassOne(x)
        BY <1>1, <2>2, <2>6 DEF Undone, Taking
      <3>2. snaps \in SUBSET Snapshot /\ snaps # {}
        BY <1>1 DEF TypeOK, Listed
      <3>3. PICK t \in snaps : \A x \in snaps : x.at <= t.at
        BY <3>2, NewestIn
      <3>4. Newer(t, S) \subseteq {Taken}
        BY <2>2, <3>3 DEF Newer
      <3>5. t \notin Expirable(S)
        BY <1>1, <3>4, NewestKept
      <3> QED
        BY <3>1, <3>3, <3>5
    <2> QED
      BY <2>2, <2>5, <2>6
  <1>2. Spec => [][Enough]_vars
    BY <1>1, UndoneAlways, PTL DEF Spec
  <1> QED
    BY <1>2 DEF FloorEnough

-----------------------------------------------------------------------------
(* What of "no verb works for ever" needs no fairness: each step of a verb *)
(* brings its end nearer, and nobody else's takes it away again.           *)

(* How far a verb is from its end, its list left aside. *)
Stage(a) ==
    CASE pc[a] = "clear"     -> IF pass = 1 THEN 12 ELSE 9
      [] pc[a] = "add"       -> IF pass = 1 THEN 11 ELSE 8
      [] pc[a] = "create"    -> IF pass = 1 THEN 10 ELSE 7
      [] pc[a] = "list"      -> 6
      [] pc[a] = "next"      -> 5
      [] pc[a] = "failed"    -> 4
      [] pc[a] = "abortList" -> 3
      [] pc[a] = "abortNext" -> 2
      [] pc[a] = "pinNext"   -> 1
      [] OTHER               -> 0

Busy(a) == pc[a] \notin {"idle", "over"}

(* It is further on, or as far with less left of its list. *)
Nearer(a) ==
    \/ Stage(a)' < Stage(a)
    \/ /\ pc'[a] = pc[a]
       /\ todo'[a] \subseteq todo[a] /\ todo'[a] # todo[a]

(* Only its list and its pc say how much a verb has left, and who is       *)
(* not at work on a backup is as far whatever pass that is in.             *)
Rests(a) == pc'[a] = pc[a] /\ todo'[a] = todo[a] /\ Stage(a)' = Stage(a)

(* A list is finite, and the one pinAll got holds a snapshot once. *)
Limited ==
    /\ \A a \in Actors : IsFiniteSet(todo[a])
    /\ \A x, y \in todo["recover"] : x.at = y.at => x = y

(* Every batch pins something. *)
LEMMA SomeBatch ==
    ASSUME Inv, Limited, todo["recover"] # {}
    PROVE  NextBatch # {}
  <1> DEFINE left == todo["recover"]
             sn == Oldest(left)
             before == {x \in left : x.at <= sn.at}
  <1>1. left \in SUBSET Snapshot
    BY ThreeActors DEF Inv, TypeOK
  <1>2. sn \in left /\ \A other \in left : sn.at <= other.at
    BY <1>1, OldestIn
  <1>3. before = {sn}
    <2>1. \A x \in left : x.at \in Nat
      BY <1>1, BackupAssumption DEF Snapshot, Times
    <2>2. \A x \in before : x.at = sn.at
      BY <1>2, <2>1
    <2>3. \A x \in before : x = sn
      BY <1>2, <2>2 DEF Limited
    <2>4. sn \in before
      BY <1>2, <2>1
    <2> QED
      BY <2>3, <2>4
  <1>4. Cardinality(before) <= Batch
    <2>1. Cardinality({sn}) = 1
      BY FS_Singleton, Zenon
    <2>2. Cardinality(before) = 1
      BY <1>3, <2>1
    <2> HIDE DEF before
    <2> QED
      BY <2>2, BackupAssumption
  <1> QED
    BY <1>2, <1>4 DEF NextBatch

LEMMA LimitedInv == ASSUME Inv, Limited, [Next]_vars PROVE Limited'
  <1> USE ThreeActors DEF Inv, strays
  <1>1. \A a \in Actors : todo'[a] \subseteq todo[a] \/ todo'[a] \subseteq snaps
    <2>1. CASE CommitList \/ PinList
      <3>1. \/ UNCHANGED todo
            \/ \E a \in Actors, S \in SUBSET snaps : todo' = [todo EXCEPT ![a] = S]
        BY <2>1 DEF CommitList, PinList, Carrying
      <3>2. snaps \in SUBSET Snapshot
        BY DEF TypeOK
      <3> QED
        BY <3>1, <3>2, Lists
    <2>2. CASE \E a \in {"maison", "user"} : AbortList(a)
      <3>1. \/ UNCHANGED todo
            \/ \E a \in Actors, S \in SUBSET snaps : todo' = [todo EXCEPT ![a] = S]
        BY <2>2 DEF AbortList, Carrying
      <3>2. snaps \in SUBSET Snapshot
        BY DEF TypeOK
      <3> QED
        BY <3>1, <3>2, Lists
    <2>3. CASE CommitNext \/ PinNext \/ \E a \in {"maison", "user"} : AbortNext(a)
      <3>1. \E a \in Actors : \E S : Handled(a, S)
        BY <2>3 DEF CommitNext, PinNext, AbortNext
      <3> QED
        BY <3>1, Handles
    <2>4. CASE KillJob \/ \E a \in Actors : KillOther(a)
      <3>1. \E a \in Actors : todo' = [todo EXCEPT ![a] = {}]
        BY <2>4 DEF KillJob, KillOther
      <3> QED
        BY <3>1, Lists
    <2>5. CASE UNCHANGED todo
      BY <2>5
    <2> QED
      BY <2>1, <2>2, <2>3, <2>4, <2>5
      DEF Next, Job, Abort, Pinning, Begin, AskDelete, EnsureRetention, ClearIgnore,
          AddIgnore, Create, GiveUp, CommitEnd, AbortEnd, PinEnd, OrphanEnds, OrphanSets,
          vars
  <1>2. IsFiniteSet(snaps)
    BY SnapsFinite
  <1>3. \A a \in Actors : IsFiniteSet(todo'[a])
    BY <1>1, <1>2, FS_Subset DEF Limited
  <1>4. \A x, y \in todo'["recover"] : x.at = y.at => x = y
    BY <1>1 DEF Limited, Clock
  <1> QED
    BY <1>3, <1>4 DEF Limited

(* An abort or a delete goes on, whoever it works for. *)
LEMMA AbortNearer ==
    ASSUME Inv, NEW a \in {"maison", "user"}, Abort(a)
    PROVE  Nearer(a) /\ \A b \in Actors \ {a} : Rests(b)
  <1> USE ThreeActors DEF Inv, strays
  <1>1. a \in Actors /\ UNCHANGED pass
    BY DEF Abort, AbortList, AbortNext, AbortEnd, job
  <1>2. CASE AbortList(a)
    <2>1. PICK there \in {"abortNext", "idle"} : GoTo(a, there)
      BY <1>2 DEF AbortList
    <2>2. /\ pc[a] = "abortList" /\ pc'[a] = there
          /\ \A b \in Actors \ {a} : pc'[b] = pc[b]
      BY <1>1, <1>2, <2>1, Goes DEF AbortList, At
    <2>3. Carrying(stamp[a]) \in SUBSET Snapshot
      BY DEF Carrying, TypeOK
    <2>4. \A b \in Actors \ {a} : todo'[b] = todo[b]
      BY <1>1, <1>2, <2>3, Lists DEF AbortList
    <2> QED
      BY <1>1, <2>2, <2>4 DEF Nearer, Rests, Stage
  <1>3. CASE AbortNext(a)
    <2> DEFINE sn == Oldest(todo[a])
    <2>1. UNCHANGED pc /\ todo[a] # {} /\ Handled(a, {sn})
      BY <1>3 DEF AbortNext
    <2>2. sn \in todo[a]
      BY <1>1, <2>1, OldestIn DEF TypeOK
    <2>3. todo'[a] = todo[a] \ {sn} /\ \A b \in Actors \ {a} : todo'[b] = todo[b]
      BY <1>1, <2>1, Handles
    <2> QED
      BY <1>1, <2>1, <2>2, <2>3 DEF Nearer, Rests, Stage
  <1>4. CASE AbortEnd(a)
    <2>1. /\ pc[a] = "abortNext" /\ pc'[a] = "idle" /\ UNCHANGED todo
          /\ \A b \in Actors \ {a} : pc'[b] = pc[b]
      BY <1>1, <1>4, Goes DEF AbortEnd, At
    <2> QED
      BY <1>1, <2>1 DEF Nearer, Rests, Stage
  <1> QED
    BY <1>2, <1>3, <1>4 DEF Abort

(* So does Maison's job, from a pass to the next and from a commit that    *)
(* fails to the abort that follows it.                                     *)
LEMMA JobNearer ==
    ASSUME Inv, Job \/ KillJob
    PROVE  Nearer("maison") /\ \A b \in Actors \ {"maison"} : Rests(b)
  <1> USE ThreeActors DEF Inv, strays
  <1>0. pc["user"] \in {"idle", "abortList", "abortNext"}
        /\ pc["recover"] \in {"idle", "pinNext", "over"}
    BY DEF Places
  <1>1. CASE Abort("maison")
    BY <1>1, AbortNearer
  <1>2. CASE ClearIgnore \/ AddIgnore \/ GiveUp \/ Create
    <2>1. /\ pc["maison"] \in {"clear", "add", "failed", "create"}
          /\ UNCHANGED todo /\ pass \in {1, 2}
      BY <1>2 DEF ClearIgnore, AddIgnore, GiveUp, Create, At, TypeOK
    <2>2. PICK there \in {"add", "create", "failed", "abortList", "idle", "clear", "list"} :
             /\ GoTo("maison", there)
             /\ pc["maison"] = "clear" => there \in {"add", "create", "failed"} /\ UNCHANGED pass
             /\ pc["maison"] = "add" => there \in {"create", "failed"} /\ UNCHANGED pass
             /\ pc["maison"] = "failed" => there \in {"abortList", "idle"}
             /\ pc["maison"] = "create" =>
                   \/ there = "failed"
                   \/ pass = 1 /\ pass' = 2 /\ there \in {"clear", "create"}
                   \/ there = "list"
      <3>1. CASE ClearIgnore
        BY <3>1 DEF ClearIgnore, At, job
      <3>2. CASE AddIgnore
        BY <3>2 DEF AddIgnore, At, job
      <3>3. CASE GiveUp
        BY <3>3 DEF GiveUp, At
      <3>4. CASE Create
        BY <3>4 DEF Create, At
      <3> QED
        BY <1>2, <3>1, <3>2, <3>3, <3>4
    <2>3. /\ pc'["maison"] = there
          /\ \A b \in Actors \ {"maison"} : pc'[b] = pc[b]
      BY <2>2, Goes
    <2>4. Stage("maison")' < Stage("maison")
      BY <2>1, <2>2, <2>3 DEF Stage
    <2>5. \A b \in Actors \ {"maison"} : Rests(b)
      BY <1>0, <2>1, <2>3 DEF Rests, Stage, Actors
    <2> QED
      BY <2>4, <2>5 DEF Nearer
  <1>3. CASE CommitList \/ CommitEnd \/ KillJob
    <2>1. /\ pc["maison"] \in {"clear", "add", "create", "list", "next"}
          /\ \A b \in Actors \ {"maison"} : todo'[b] = todo[b]
      <3>1. Carrying(stamp["maison"]) \in SUBSET Snapshot
        BY DEF Carrying, TypeOK
      <3> QED
        BY <1>3, <3>1, Lists DEF CommitList, CommitEnd, KillJob, At
    <2>2. PICK there \in {"next", "failed", "idle"} :
             /\ GoTo("maison", there)
             /\ there = "next" => pc["maison"] = "list"
      BY <1>3 DEF CommitList, CommitEnd, KillJob, At
    <2>3. /\ pc'["maison"] = there
          /\ \A b \in Actors \ {"maison"} : pc'[b] = pc[b]
      BY <2>2, Goes
    <2>4. Stage("maison")' < Stage("maison")
      BY <2>1, <2>2, <2>3 DEF Stage
    <2>5. \A b \in Actors \ {"maison"} : Rests(b)
      BY <1>0, <2>1, <2>3 DEF Rests, Stage, Actors
    <2> QED
      BY <2>4, <2>5 DEF Nearer
  <1>4. CASE CommitNext
    <2> DEFINE sn == Oldest(todo["maison"])
    <2>1. UNCHANGED <<pc, pass>> /\ todo["maison"] # {} /\ Handled("maison", {sn})
      BY <1>4 DEF CommitNext
    <2>2. sn \in todo["maison"]
      BY <2>1, OldestIn DEF TypeOK
    <2>3. /\ todo'["maison"] = todo["maison"] \ {sn}
          /\ \A b \in Actors \ {"maison"} : todo'[b] = todo[b]
      BY <2>1, Handles
    <2> QED
      BY <2>1, <2>2, <2>3 DEF Nearer, Rests, Stage
  <1> QED
    BY <1>1, <1>2, <1>3, <1>4 DEF Job

(* And the pinning, a batch that fails included. *)
LEMMA PinNearer ==
    ASSUME Inv, Limited, Pinning
    PROVE  Nearer("recover") /\ \A b \in Actors \ {"recover"} : Rests(b)
  <1> USE ThreeActors DEF Inv, strays
  <1>1. CASE PinNext
    <2>1. UNCHANGED <<pc, pass>> /\ todo["recover"] # {} /\ Handled("recover", NextBatch)
      BY <1>1 DEF PinNext, job
    <2>2. NextBatch # {} /\ NextBatch \subseteq todo["recover"]
      BY <2>1, SomeBatch DEF NextBatch
    <2>3. /\ todo'["recover"] = todo["recover"] \ NextBatch
          /\ \A b \in Actors \ {"recover"} : todo'[b] = todo[b]
      BY <2>1, Handles
    <2> QED
      BY <2>1, <2>2, <2>3 DEF Nearer, Rests, Stage
  <1>2. CASE PinEnd
    <2>1. /\ pc["recover"] = "pinNext" /\ pc'["recover"] = "over" /\ UNCHANGED <<todo, pass>>
          /\ \A b \in Actors \ {"recover"} : pc'[b] = pc[b]
      BY <1>2, Goes DEF PinEnd, At, job
    <2> QED
      BY <2>1 DEF Nearer, Rests, Stage
  <1> QED
    BY <1>1, <1>2 DEF Pinning

(* A verb that is killed is over, or Maison's abort is next. *)
LEMMA KillNearer ==
    ASSUME Inv, NEW a \in Actors, KillOther(a)
    PROVE  Nearer(a) /\ \A b \in Actors \ {a} : Rests(b)
  <1> USE ThreeActors DEF Inv, strays
  <1>1. /\ pc[a] \in {"abortList", "abortNext", "pinNext"} /\ UNCHANGED pass
        /\ GoTo(a, IF a = "recover" THEN "over" ELSE "idle")
        /\ todo' = [todo EXCEPT ![a] = {}]
    BY DEF KillOther, job
  <1>2. PICK there \in {"over", "idle"} : GoTo(a, there)
    BY <1>1
  <1>3. pc'[a] = there /\ \A b \in Actors \ {a} : pc'[b] = pc[b]
    BY <1>2, Goes
  <1>4. \A b \in Actors \ {a} : todo'[b] = todo[b]
    BY <1>1, Lists
  <1> QED
    BY <1>1, <1>3, <1>4 DEF Nearer, Rests, Stage

(* What the kopia of a killed job does is nobody's verb. *)
LEMMA OrphansRest ==
    ASSUME NEW a \in Actors,
           \/ \E sn \in orphans : OrphanEnds(sn)
           \/ \E rules \in strayRules : OrphanSets(rules)
    PROVE  Rests(a)
  BY DEF OrphanEnds, OrphanSets, Rests, Stage, job

(* What starts a verb leaves the ones at work alone. *)
LEMMA StartsRest ==
    ASSUME Inv, NEW a \in Actors, Busy(a),
           \/ \E p \in {1, 2}, rules \in SUBSET Patterns : Begin(p, rules)
           \/ \E s \in Stamps : AskDelete(s)
           \/ \E k \in Latest : EnsureRetention(k)
           \/ PinList
    PROVE  Rests(a)
  <1> USE ThreeActors DEF Inv, strays
  <1>0. pc["user"] \in {"idle", "abortList", "abortNext"}
        /\ pc["recover"] \in {"idle", "pinNext", "over"}
    BY DEF Places
  <1>1. CASE \E p \in {1, 2}, rules \in SUBSET Patterns : Begin(p, rules)
    <2>1. pc["maison"] = "idle" /\ GoTo("maison", "clear") /\ UNCHANGED todo
      BY <1>1 DEF Begin, At
    <2>2. \A b \in Actors \ {"maison"} : pc'[b] = pc[b]
      BY <2>1, Goes
    <2>3. a \in {"user", "recover"}
      BY <2>1 DEF Busy, Actors
    <2> QED
      BY <1>0, <2>1, <2>2, <2>3 DEF Rests, Stage
  <1>2. CASE \E s \in Stamps : AskDelete(s)
    <2>1. pc["user"] = "idle" /\ GoTo("user", "abortList") /\ UNCHANGED <<todo, pass>>
      BY <1>2 DEF AskDelete, At, job
    <2>2. \A b \in Actors \ {"user"} : pc'[b] = pc[b]
      BY <2>1, Goes
    <2> QED
      BY <2>1, <2>2 DEF Rests, Stage, Busy
  <1>3. CASE \E k \in Latest : EnsureRetention(k)
    BY <1>3 DEF EnsureRetention, job, Rests, Stage
  <1>4. CASE PinList
    <2>1. /\ pc["recover"] = "idle" /\ UNCHANGED pass
          /\ \E there \in {"pinNext", "over"} : GoTo("recover", there)
          /\ \/ UNCHANGED todo
             \/ todo' = [todo EXCEPT !["recover"] = snaps]
      BY <1>4 DEF PinList, At, job
    <2>2. \A b \in Actors \ {"recover"} : pc'[b] = pc[b]
      BY <2>1, Goes
    <2>3. snaps \in SUBSET Snapshot
      BY DEF TypeOK
    <2>4. \A b \in Actors \ {"recover"} : todo'[b] = todo[b]
      BY <2>1, <2>3, Lists
    <2> QED
      BY <2>1, <2>2, <2>4 DEF Rests, Stage, Busy
  <1> QED
    BY <1>1, <1>2, <1>3, <1>4

(* No verb works for ever: every list is finite, each step of a verb, its  *)
(* being killed included, brings its end nearer, and what the others do to *)
(* the repository meanwhile gives it nothing more to do.  A deletion, a    *)
(* pin or a snapshot that fails is not tried again.                        *)
THEOREM VerbsRunOut ==
    Spec => /\ [](\A a \in Actors : IsFiniteSet(todo[a]))
            /\ [][/\ \A a \in Actors : Busy(a) => Nearer(a) \/ Rests(a)
                  /\ Job => Nearer("maison")
                  /\ Abort("user") => Nearer("user")
                  /\ Pinning => Nearer("recover")]_vars
  <1> DEFINE OnlyForth == /\ \A a \in Actors : Busy(a) => Nearer(a) \/ Rests(a)
                          /\ Job => Nearer("maison")
                          /\ Abort("user") => Nearer("user")
                          /\ Pinning => Nearer("recover")
  <1>1. Init => Limited
    BY ThreeActors, FS_EmptySet DEF Init, Limited
  <1>2. Inv /\ Limited /\ [Next]_vars => [OnlyForth]_vars
    <2> SUFFICES ASSUME Inv, Limited, Next PROVE OnlyForth
      OBVIOUS
    <2>1. \A a \in Actors : Busy(a) => Nearer(a) \/ Rests(a)
      <3> TAKE a \in Actors
      <3> HAVE Busy(a)
      <3>1. CASE Job \/ KillJob
        BY <3>1, JobNearer
      <3>2. CASE Abort("user")
        BY <3>2, AbortNearer
      <3>3. CASE Pinning
        BY <3>3, PinNearer
      <3>4. CASE \E b \in Actors : KillOther(b)
        BY <3>4, KillNearer
      <3>5. CASE \/ \E p \in {1, 2}, rules \in SUBSET Patterns : Begin(p, rules)
                 \/ \E s \in Stamps : AskDelete(s)
                 \/ \E k \in Latest : EnsureRetention(k)
                 \/ PinList
        BY <3>5, StartsRest
      <3>6. CASE \/ \E sn \in orphans : OrphanEnds(sn)
                 \/ \E rules \in strayRules : OrphanSets(rules)
        BY <3>6, OrphansRest
      <3> QED
        BY <3>1, <3>2, <3>3, <3>4, <3>5, <3>6 DEF Next
    <2> QED
      BY <2>1, JobNearer, AbortNearer, PinNearer
  <1>3. Limited => \A a \in Actors : IsFiniteSet(todo[a])
    BY DEF Limited
  <1> QED
    BY InitInv, NextInv, LimitedInv, <1>1, <1>2, <1>3, PTL DEF Spec
=============================================================================
