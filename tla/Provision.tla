------------------------------ MODULE Provision ------------------------------
(***************************************************************************)
(* How a box gets its repository: `serve`, which provisions a box without  *)
(* a host side (src/internal/kopia/serve.go, Bootstrap and the Connect of  *)
(* repo.go); the verbs `connect` and `probe`, which a host side runs; and  *)
(* the verbs that Maison runs with a key the owner typed, `init` (init.go) *)
(* and `recover` (recover.go).                                             *)
(*                                                                         *)
(* They share the files of the repository directory.  kopia's own effect   *)
(* is taken from how the code uses it: a connect writes repository.config  *)
(* if the key is the repository's, a create makes a repository where there *)
(* is none and then writes repository.config.  The kopia of a killed verb  *)
(* outlives it, and may connect or create long after.                      *)
(***************************************************************************)
EXTENDS FiniteSets, Naturals

CONSTANTS
    MintKeys,   \* keys `serve` mints: they exist nowhere but on the box
    OwnerKeys,  \* keys the owner has, chosen for `init` or kept for `recover`
    Idents,     \* the user@host identities connect.json may name
    None,       \* no repository, no such file, no such key
    MaxStrays   \* bound: kopias whose verb was killed, at a time

ASSUME ProvisionAssumption ==
    /\ MintKeys \cap OwnerKeys = {}
    /\ None \notin MintKeys \cup OwnerKeys \cup Idents
    /\ MaxStrays \in Nat

Keys == MintKeys \cup OwnerKeys

VARIABLES
    repo,       \* the key of the repository in the storage, or None
    config,     \* repository.config: with or without the storage's credentials
    ident,      \* the identity repository.config pins
    password,   \* repository.password
    marker,     \* needs-recovery
    needsSecret,\* needs-secret
    connect,    \* connect.json: the identity it names
    adapter,    \* adapter.json
    resident,   \* is there a `serve` on this box, or a host side?
    stray,      \* what the kopias of killed verbs have yet to do
    late,       \* one of them has connected
    pc,         \* where `serve` and the verb are
    job,        \* the verb that runs
    key,        \* the key the verb was given; the one `serve` minted in this look
    opts,       \* the identity read from connect.json
    result,     \* what the verb returned
    calm        \* nothing fails any more

onDisk == <<config, ident, password, marker, needsSecret, connect, adapter>>
strays == <<stray, late>>
vars == <<repo, config, ident, password, marker, needsSecret, connect, adapter,
          resident, stray, late, pc, job, key, opts, result, calm>>

Actors == {"serve", "verb"}

Calls == [call : {"connect", "create"}, key : Keys, ident : Idents \cup {None}]

ServeLabels == {"marker", "config", "files", "mint", "check", "connect", "create",
                "blank", "unmint", "mark", "adapter", "wait", "done", "down"}
VerbLabels == {"idle", "check", "connect", "create", "blank", "promote",
               "undo", "clear", "exit"}
Results == {"none", "ok", "notConfigured", "exists", "wrongPassword", "error",
            "existing", "empty"}

TypeOK ==
    /\ repo \in Keys \cup {None}
    /\ config \in {"none", "raw", "blanked", "torn"}
    /\ ident \in Idents \cup {None}
    /\ password \in Keys \cup {None}
    /\ marker \in BOOLEAN
    /\ needsSecret \in BOOLEAN
    /\ connect \in Idents \cup {None}
    /\ adapter \in BOOLEAN
    /\ resident \in BOOLEAN
    /\ stray \subseteq Calls /\ late \in BOOLEAN
    /\ pc \in [Actors -> ServeLabels \cup VerbLabels]
    /\ pc["serve"] \in ServeLabels /\ pc["verb"] \in VerbLabels
    /\ job \in {"none", "connect", "probe", "init", "recover"}
    /\ key \in [Actors -> Keys \cup {None}]
    /\ opts \in [Actors -> Idents \cup {None}]
    /\ result \in Results
    /\ calm \in BOOLEAN

(* A box without a configuration, as `serve` or the host side finds it: a  *)
(* storage that is empty, holds a repository of the owner's from an earlier *)
(* box, or the one of this box, whose data disk with the minted password   *)
(* was kept.  A host side may also have minted one that is not used yet.   *)
Init ==
    /\ resident \in BOOLEAN
    /\ password \in MintKeys \cup {None}
    /\ repo \in OwnerKeys \cup {None, password}
    /\ marker = FALSE /\ needsSecret = FALSE
    /\ config = "none"
    /\ ident = None
    /\ connect \in Idents \cup {None}
    /\ adapter = FALSE
    /\ stray = {} /\ late = FALSE
    /\ pc = [a \in Actors |-> IF a = "verb" THEN "idle"
                              ELSE IF resident THEN "marker" ELSE "down"]
    /\ job = "none"
    /\ key = [a \in Actors |-> None]
    /\ opts = [a \in Actors |-> None]
    /\ result = "none"
    /\ calm = FALSE

-----------------------------------------------------------------------------

At(a, label) == pc[a] = label

GoTo(a, label) == pc' = [pc EXCEPT ![a] = label]

Fails == ~calm

(* readConfig succeeds. *)
Readable == config \in {"raw", "blanked"}

(* `kopia repository connect` with key k and identity i.  A call that ends *)
(* with the context is "cancelled" even if kopia had finished.             *)
KopiaConnect(k, i, out) ==
    \/ /\ repo = k /\ repo # None
       /\ out = "ok" \/ (Fails /\ out = "cancelled")
       /\ config' = "raw"
       /\ ident' = i
    \/ /\ \/ out = "wrongPassword" /\ repo \notin {k, None}
          \/ out = "notInitialized" /\ repo = None
          \/ out \in {"cancelled", "failed"} /\ Fails
       /\ UNCHANGED <<config, ident>>

(* `kopia repository create`: first the repository, then the file. *)
KopiaCreate(k, i, out) ==
    \/ /\ repo = None
       /\ repo' = k
       /\ out = "ok" \/ (Fails /\ out = "cancelled")
       /\ config' = "raw"
       /\ ident' = i
    \/ /\ repo = None /\ Fails
       /\ repo' = k
       /\ out \in {"cancelled", "failed"}
       /\ UNCHANGED <<config, ident>>
    \/ /\ \/ out = "exists" /\ repo # None
          \/ out \in {"cancelled", "failed"} /\ Fails
       /\ UNCHANGED <<repo, config, ident>>

(* blankPersistedCredentials: the file is read, and written in place; one  *)
(* that cannot be parsed is left as it is.                                 *)
Blank(ok) ==
    \/ ok /\ Readable /\ config' = "blanked"
    \/ ok /\ config = "torn" /\ UNCHANGED config
    \/ ~ok /\ config = "none" /\ UNCHANGED config
    \/ ~ok /\ config # "none" /\ Fails /\ config' \in {config, "torn"}

-----------------------------------------------------------------------------
(* serve: one look at the directory after the other.                       *)

Serve(from) == resident /\ At("serve", from)

Verb(v, from) == job = v /\ At("verb", from)

(* The verb returns r, after its deferred removal of the typed key. *)
Return(r) == GoTo("verb", "exit") /\ result' = r

Tick ==
    /\ Serve("wait")
    /\ GoTo("serve", "marker")
    /\ key' = [key EXCEPT !["serve"] = None]
    /\ UNCHANGED <<repo, onDisk, resident, strays, job, opts, result, calm>>

LookMarker ==
    /\ Serve("marker")
    /\ GoTo("serve", IF marker THEN "adapter" ELSE "config")
    /\ UNCHANGED <<repo, onDisk, resident, strays, job, key, opts, result, calm>>

LookConfig ==
    /\ Serve("config")
    /\ GoTo("serve", IF Readable THEN "adapter" ELSE "files")
    /\ UNCHANGED <<repo, onDisk, resident, strays, job, key, opts, result, calm>>

LookFiles ==
    /\ Serve("files")
    /\ \/ /\ connect # None
          /\ opts' = [opts EXCEPT !["serve"] = connect]
          /\ GoTo("serve", "mint")
       \/ /\ connect = None \/ Fails
          /\ GoTo("serve", "wait")
          /\ UNCHANGED opts
    /\ UNCHANGED <<repo, onDisk, resident, strays, job, key, result, calm>>

(* A password is minted only where there is none, and is on the disk before *)
(* anything is created with it.                                            *)
Mint ==
    /\ Serve("mint")
    /\ \/ /\ password # None
          /\ GoTo("serve", "check")
          /\ UNCHANGED <<password, key>>
       \/ /\ password = None
          /\ \E k \in MintKeys \ {repo} :
                /\ password' = k
                /\ key' = [key EXCEPT !["serve"] = k]
          /\ GoTo("serve", "check")
       \/ /\ password = None /\ Fails
          /\ GoTo("serve", "wait")
          /\ UNCHANGED <<password, key>>
    /\ UNCHANGED <<repo, config, ident, marker, needsSecret, connect, adapter,
                   resident, strays, job, opts, result, calm>>

(* What Connect answers to serve's look, and to a host side as its verb.   *)
Answer(a, r) ==
    IF a = "verb" THEN Return(IF r = "cancelled" THEN "error" ELSE r)
    ELSE /\ GoTo("serve", CASE r = "ok" -> "adapter"
                            [] r \in {"exists", "wrongPassword"} -> "unmint"
                            [] r = "cancelled" -> "down"
                            [] OTHER -> "wait")
         /\ UNCHANGED result

Connecting(a, from) == IF a = "serve" THEN Serve(from) ELSE Verb("connect", from)
Onward(a, there) == GoTo(a, there) /\ UNCHANGED result

(* Connect: an existing configuration is left alone, and there must be a   *)
(* password.                                                               *)
CheckConfig(a) ==
    /\ Connecting(a, "check")
    /\ \/ config # "none" /\ Answer(a, IF Readable THEN "ok" ELSE "error")
       \/ config = "none" /\ password # None /\ Onward(a, "connect")
       \/ config = "none" /\ password = None /\ Answer(a, "notConfigured")
       \/ Fails /\ Answer(a, "error")
    /\ UNCHANGED <<repo, onDisk, resident, strays, job, key, opts, calm>>

(* Mutant: a refused key is a failure like any other, and is tried again. *)
ConnectRepoRetrying(a) ==
    /\ Connecting(a, "connect")
    /\ \E out \in {"ok", "wrongPassword", "notInitialized"} :
          /\ KopiaConnect(password, opts[a], out)
          /\ CASE out = "ok" -> Onward(a, "blank")
               [] out = "wrongPassword" -> Answer(a, "error")
               [] OTHER -> Onward(a, "create")
    /\ UNCHANGED <<repo, password, marker, needsSecret, connect, adapter,
                   resident, strays, job, key, opts, calm>>

(* A key that is refused ends it; whatever else a connect says, a create is *)
(* tried.                                                                  *)
ConnectRepo(a) ==
    /\ Connecting(a, "connect")
    /\ \E out \in {"ok", "wrongPassword", "notInitialized", "failed", "cancelled"} :
          /\ KopiaConnect(password, opts[a], out)
          /\ CASE out = "ok" -> Onward(a, "blank")
               [] out \in {"wrongPassword", "cancelled"} -> Answer(a, out)
               [] OTHER -> Onward(a, "create")
    /\ UNCHANGED <<repo, password, marker, needsSecret, connect, adapter,
                   resident, strays, job, key, opts, calm>>

(* Mutant: a minted password is removed after any create that failed. *)
CreateRepoUnminting(a) ==
    /\ Connecting(a, "create")
    /\ \E out \in {"ok", "exists", "failed"} :
          /\ KopiaCreate(password, opts[a], out)
          /\ IF out = "ok" THEN Onward(a, "blank") ELSE Answer(a, "exists")
    /\ UNCHANGED <<password, marker, needsSecret, connect, adapter, resident,
                   strays, job, key, opts, calm>>

CreateRepo(a) ==
    /\ Connecting(a, "create")
    /\ \E out \in {"ok", "exists", "failed", "cancelled"} :
          /\ KopiaCreate(password, opts[a], out)
          /\ IF out = "ok" THEN Onward(a, "blank")
             ELSE Answer(a, IF out = "failed" THEN "error" ELSE out)
    /\ UNCHANGED <<password, marker, needsSecret, connect, adapter, resident,
                   strays, job, key, opts, calm>>

BlankConnected(a) ==
    /\ Connecting(a, "blank")
    /\ \E ok \in BOOLEAN : Blank(ok) /\ Answer(a, IF ok THEN "ok" ELSE "error")
    /\ UNCHANGED <<repo, ident, password, marker, needsSecret, connect, adapter,
                   resident, strays, job, key, opts, calm>>

(* Exit 13 or 14: the storage holds a repository the password does not     *)
(* open.  One minted in this look is removed.                              *)
Unmint ==
    /\ Serve("unmint")
    /\ \/ key["serve"] # None /\ password' = None
       \/ (key["serve"] = None \/ Fails) /\ UNCHANGED password
    /\ GoTo("serve", "mark")
    /\ UNCHANGED <<repo, config, ident, marker, needsSecret, connect, adapter,
                   resident, strays, job, key, opts, result, calm>>

WriteMarker ==
    /\ Serve("mark")
    /\ marker' = TRUE \/ (Fails /\ UNCHANGED marker)
    /\ GoTo("serve", "adapter")
    /\ UNCHANGED <<repo, config, ident, password, needsSecret, connect, adapter,
                   resident, strays, job, key, opts, result, calm>>

(* The descriptor is the last thing a look writes; a failure is logged. *)
WriteAdapter ==
    /\ Serve("adapter")
    /\ adapter' = TRUE \/ (Fails /\ UNCHANGED adapter)
    /\ GoTo("serve", "done")
    /\ UNCHANGED <<repo, config, ident, password, marker, needsSecret, connect,
                   resident, strays, job, key, opts, result, calm>>

-----------------------------------------------------------------------------
(* init and recover, with the key the owner typed.                         *)

Continue(there) == GoTo("verb", there) /\ UNCHANGED result

(* Maison runs a verb: recover where `status` calls for it, and perhaps     *)
(* again when it no longer does; init where the host side left the choice  *)
(* of the key to the owner.                                                *)
Type(v, k) ==
    /\ At("verb", "idle")
    /\ v = "init" => needsSecret
    /\ v = "recover" => marker \/ config # "none"
    /\ job' = v
    /\ key' = [key EXCEPT !["verb"] = k]
    /\ Continue("check")
    /\ UNCHANGED <<repo, onDisk, resident, strays, opts, calm>>

(* Mutant: nothing is refused. *)
RefusedNever == FALSE

(* Mutant: a configuration is refused even while the box waits for recovery. *)
RefusedAlways == config # "none"

(* An existing configuration is never connected over, unless the box waits *)
(* for recovery.                                                           *)
Refused == IF job = "init" THEN config # "none" ELSE Readable /\ ~marker

Check ==
    /\ At("verb", "check") /\ job \in {"init", "recover"}
    /\ \/ Refused /\ Return("error") /\ UNCHANGED opts
       \/ ~Refused /\ connect = None /\ Return("notConfigured") /\ UNCHANGED opts
       \/ /\ ~Refused /\ connect # None
          /\ opts' = [opts EXCEPT !["verb"] = connect]
          /\ Continue(IF job = "init" THEN "create" ELSE "connect")
       \/ Fails /\ Return("error") /\ UNCHANGED opts
    /\ UNCHANGED <<repo, onDisk, resident, strays, job, key, calm>>

(* Recover connects, and never creates. *)
RecoverConnect ==
    /\ Verb("recover", "connect")
    /\ \E out \in {"ok", "wrongPassword", "notInitialized", "failed", "cancelled"} :
          /\ KopiaConnect(key["verb"], opts["verb"], out)
          /\ CASE out = "ok" -> Continue("blank")
               [] out = "wrongPassword" -> Return("wrongPassword")
               [] OTHER -> Return("error")
    /\ UNCHANGED <<repo, password, marker, needsSecret, connect, adapter,
                   resident, strays, job, key, opts, calm>>

(* Init creates, and never connects. *)
InitCreate ==
    /\ Verb("init", "create")
    /\ \E out \in {"ok", "exists", "failed", "cancelled"} :
          /\ KopiaCreate(key["verb"], opts["verb"], out)
          /\ CASE out = "ok" -> Continue("blank")
               [] out = "exists" -> Return("exists")
               [] OTHER -> Return("error")
    /\ UNCHANGED <<password, marker, needsSecret, connect, adapter, resident,
                   strays, job, key, opts, calm>>

BlankTyped ==
    /\ At("verb", "blank") /\ job \in {"init", "recover"}
    /\ \E ok \in BOOLEAN : Blank(ok) /\ Continue(IF ok THEN "promote" ELSE "undo")
    /\ UNCHANGED <<repo, ident, password, marker, needsSecret, connect, adapter,
                   resident, strays, job, key, opts, calm>>

(* Mutant: a promote that failed does not keep the markers. *)
PromoteUnchecked ==
    /\ At("verb", "promote")
    /\ password' = key["verb"] \/ (Fails /\ UNCHANGED password)
    /\ Continue("clear")
    /\ UNCHANGED <<repo, config, ident, marker, needsSecret, connect, adapter,
                   resident, strays, job, key, opts, calm>>

(* Mutant: another argument is written for the key. *)
PromoteIdentity ==
    /\ At("verb", "promote")
    /\ password' = opts["verb"]
    /\ Continue("clear")
    /\ UNCHANGED <<repo, config, ident, marker, needsSecret, connect, adapter,
                   resident, strays, job, key, opts, calm>>

(* promote: an error may come before or after the rename. *)
Promote ==
    /\ At("verb", "promote")
    /\ \/ password' = key["verb"] /\ Continue("clear")
       \/ Fails /\ password' \in {password, key["verb"]} /\ Continue("undo")
    /\ UNCHANGED <<repo, config, ident, marker, needsSecret, connect, adapter,
                   resident, strays, job, key, opts, calm>>

UndoConnect ==
    /\ At("verb", "undo")
    /\ config' = "none" \/ (Fails /\ UNCHANGED config)
    /\ Return("error")
    /\ UNCHANGED <<repo, ident, password, marker, needsSecret, connect, adapter,
                   resident, strays, job, key, opts, calm>>

(* Both verbs end the recovery state, and init the needs-secret one. *)
ClearMarkers ==
    /\ At("verb", "clear")
    /\ marker' = FALSE \/ (Fails /\ UNCHANGED marker)
    /\ IF job = "init"
       THEN needsSecret' = FALSE \/ (Fails /\ UNCHANGED needsSecret)
       ELSE UNCHANGED needsSecret
    /\ Return("ok")
    /\ UNCHANGED <<repo, config, ident, password, connect, adapter, resident,
                   strays, job, key, opts, calm>>

Gone ==
    /\ GoTo("verb", "idle")
    /\ job' = "none"
    /\ result' = "none"
    /\ key' = [key EXCEPT !["verb"] = None]
    /\ opts' = [opts EXCEPT !["verb"] = None]

(* The answers that a host side marks the box for.                         *)
Marked ==
    /\ job \in {"connect", "probe"}
    /\ result \in {"exists", "wrongPassword", "existing", "empty"}

Exit ==
    /\ At("verb", "exit") /\ ~Marked
    /\ Gone
    /\ UNCHANGED <<repo, onDisk, resident, strays, calm>>

-----------------------------------------------------------------------------
(* The owner, the host side, and what goes wrong.                          *)

(* connect.json is dropped in, or edited. *)
DropConnect ==
    /\ \E i \in Idents \ {connect} : connect' = i
    /\ Fails
    /\ UNCHANGED <<repo, config, ident, password, marker, needsSecret, adapter,
                   resident, strays, pc, job, key, opts, result, calm>>

(* A host side asks until the box is configured, or waits for the owner: it *)
(* connects with the password the box has, or probes.                      *)
HostRuns ==
    /\ ~resident /\ ~marker /\ config = "none"
    /\ At("verb", "idle")
    /\ \/ /\ password # None /\ connect # None
          /\ job' = "connect" /\ Continue("check")
          /\ opts' = [opts EXCEPT !["verb"] = connect]
       \/ /\ password = None
          /\ job' = "probe" /\ Continue("check")
          /\ UNCHANGED opts
    /\ UNCHANGED <<repo, onDisk, resident, strays, key, calm>>

(* Probe connects with a random key, to a configuration of its own that it *)
(* removes: a refused key tells that there is a repository, and only       *)
(* kopia's own word that there is none.                                    *)
Probe ==
    /\ Verb("probe", "check")
    /\ \/ connect = None /\ Return("notConfigured")
       \/ connect # None /\ repo # None /\ Return("existing")
       \/ connect # None /\ repo = None /\ Return("empty")
       \/ Fails /\ Return("error")
    /\ UNCHANGED <<repo, onDisk, resident, strays, job, key, opts, calm>>

(* What the host side makes of an answer: the owner is asked for the old   *)
(* key, or to choose one.                                                  *)
HostMarks ==
    /\ At("verb", "exit") /\ Marked
    /\ marker' = (result # "empty") /\ needsSecret' = (result = "empty")
    /\ Gone
    /\ UNCHANGED <<repo, config, ident, password, connect, adapter, resident,
                   strays, calm>>

(* What the verb has kopia do. *)
Call ==
    [call  |-> pc["verb"],
     key   |-> IF job = "connect" THEN password ELSE key["verb"],
     ident |-> opts["verb"]]

(* A verb is killed, and the kopia it runs is reparented and goes on; or it *)
(* does not, as where the storage refuses what it asks for.                *)
KillVerb ==
    /\ Fails
    /\ pc["verb"] # "idle"
    /\ Gone
    /\ \/ UNCHANGED stray
       \/ /\ pc["verb"] \in {"connect", "create"}
          /\ repo \in {None, Call.key}
          /\ stray' = stray \cup {Call} /\ Cardinality(stray') <= MaxStrays
    /\ UNCHANGED <<repo, onDisk, resident, late, calm>>

(* It does what it was called for, in its own time, and nobody hears of it. *)
StrayGoes(s) ==
    /\ \/ /\ s.call = "create" /\ repo = None
          /\ repo' = s.key
          /\ stray' = (stray \ {s}) \cup {[s EXCEPT !.call = "connect"]}
          /\ UNCHANGED <<config, ident, late>>
       \/ /\ s.call = "connect" /\ repo = s.key
          /\ config' = "raw" /\ ident' = s.ident /\ late' = TRUE
          /\ stray' = stray \ {s}
          /\ UNCHANGED repo
       \/ stray' = stray \ {s} /\ UNCHANGED <<repo, config, ident, late>>
    /\ UNCHANGED <<password, marker, needsSecret, connect, adapter,
                   resident, pc, job, key, opts, result, calm>>

(* SIGTERM, a crash or a reboot at any point; the container starts again.  *)
RestartServe ==
    /\ Fails \/ At("serve", "down")
    /\ resident
    /\ GoTo("serve", "marker")
    /\ key' = [key EXCEPT !["serve"] = None]
    /\ opts' = [opts EXCEPT !["serve"] = None]
    /\ UNCHANGED <<repo, onDisk, resident, strays, job, result, calm>>

CalmDown ==
    /\ Fails
    /\ calm' = TRUE
    /\ UNCHANGED <<repo, onDisk, resident, strays, pc, job, key, opts, result>>

-----------------------------------------------------------------------------

Bootstrap ==
    \/ Tick \/ LookMarker \/ LookConfig \/ LookFiles \/ Mint
    \/ CheckConfig("serve") \/ ConnectRepo("serve")
    \/ CreateRepo("serve") \/ BlankConnected("serve")
    \/ Unmint \/ WriteMarker \/ WriteAdapter

Hosted ==
    \/ CheckConfig("verb") \/ ConnectRepo("verb")
    \/ CreateRepo("verb") \/ BlankConnected("verb")
    \/ Probe

Typed ==
    \/ Check \/ RecoverConnect \/ InitCreate \/ BlankTyped \/ Promote
    \/ UndoConnect \/ ClearMarkers \/ Exit

Next ==
    \/ Bootstrap \/ Hosted \/ Typed
    \/ \E v \in {"init", "recover"}, k \in OwnerKeys : Type(v, k)
    \/ DropConnect \/ HostRuns \/ HostMarks
    \/ KillVerb \/ RestartServe \/ CalmDown
    \/ \E s \in stray : StrayGoes(s)

Spec == Init /\ [][Next]_vars

(* The owner enters the key the box asks for. *)
TypeRightKey == repo \in OwnerKeys /\ Type("recover", repo)

(* Processes are scheduled and the poll timer fires, a stopped container   *)
(* is started again, a host side runs its script again, outages end, and   *)
(* the owner enters the right key for as long as the box asks for it.      *)
Fairness ==
    /\ WF_vars(Bootstrap) /\ WF_vars(Hosted \/ Typed)
    /\ WF_vars(RestartServe) /\ WF_vars(CalmDown)
    /\ WF_vars(HostRuns) /\ WF_vars(HostMarks)
    /\ SF_vars(TypeRightKey)

FairSpec == Spec /\ Fairness

-----------------------------------------------------------------------------
(* Properties.                                                             *)

(* "Once the create succeeds this file is the only key to every snapshot,  *)
(* and a crash between the two must not lose it": a repository's key is in *)
(* repository.password or with the owner, at every moment, and so is never *)
(* the removed one.                                                        *)
KeySafe == repo \in OwnerKeys \cup {None, password}

(* A configured box that does not wait for recovery has no password but    *)
(* the repository's: what serve minted, and what an owner typed, never     *)
(* stays beside a configuration it does not open.                          *)
PasswordOpens ==
    (config # "none" /\ ~marker /\ password # None) => password = repo

(* Exit code 0 of init and recover: the box has a configuration, and its   *)
(* password opens the repository (init.go:171-186, recover.go:155-170).    *)
OkMeansOpened ==
    (job \in {"init", "recover"} /\ At("verb", "exit") /\ result = "ok") =>
        config # "none" /\ password = repo

(* "Identity is written exactly ONCE": a configuration is replaced by one  *)
(* of another identity only where the box waits for recovery, or once the  *)
(* kopia of a killed verb has connected late.                              *)
LineageOnce ==
    [][(Readable /\ Readable' /\ ident' # ident) => marker \/ late']_vars

(* A box is provisioned in the end, or found to need its owner: serve is   *)
(* not left waiting once connect.json is there, and a host side that acts  *)
(* on the answers of connect and probe has a configuration, or a reason to *)
(* ask for a key.  The exception is a configuration that was half written  *)
(* when its credentials were blanked: Connect takes it for an error of its *)
(* own for ever.                                                           *)
Provisioned ==
    connect # None ~>
        \/ config = "torn"
        \/ resident /\ At("serve", "done")
        \/ ~resident /\ (config # "none" \/ marker \/ needsSecret)

(* The way out of needs-recovery: the owner's key, however often recover   *)
(* was cut short before, leaves the box configured and opened by it.       *)
RecoverEnds ==
    (marker /\ connect # None /\ repo \in OwnerKeys) ~>
        (~marker /\ Readable /\ password = repo)

(* repo.go: "ErrRepositoryExists is returned when the storage already      *)
(* holds a repository this box has no password for".                       *)
MarkerMeansNoKey == At("serve", "mark") => password # repo

(* A provisioned box at rest has no storage credentials in its             *)
(* configuration.                                                          *)
CredentialsBlanked ==
    (At("serve", "done") /\ At("verb", "idle") /\ ~marker) => config # "raw"
=============================================================================
