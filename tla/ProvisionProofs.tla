--------------------------- MODULE ProvisionProofs ---------------------------
(***************************************************************************)
(* Whatever fails and whoever is killed: a repository's key is on the box  *)
(* or with its owner, a configured box has no password but the             *)
(* repository's, and its identity is written once.  For any number of keys *)
(* and identities.                                                         *)
(***************************************************************************)
EXTENDS Provision, TLAPS

USE DEF strays

(* A box has a serve or a host side, and only the latter leaves the choice *)
(* of the key to the owner.                                                *)
OneSide ==
    /\ ~resident => pc["serve"] = "down"
    /\ job \in {"connect", "probe", "init"} \/ needsSecret => ~resident

(* Where each verb can be, and what a host side's verbs can have answered. *)
Places ==
    /\ pc["verb"] = "idle" => job = "none" /\ result = "none"
    /\ job = "none" => pc["verb"] = "idle"
    /\ job = "connect" => pc["verb"] \in {"check", "connect", "create", "blank", "exit"}
    /\ job = "probe" => pc["verb"] \in {"check", "exit"}
    /\ job = "init" => pc["verb"] # "connect"
    /\ job = "recover" => pc["verb"] # "create"
    /\ job = "connect" => result # "empty"
    /\ job \in {"connect", "probe"} => ~marker

(* A key is minted in this look, and is still the password, or it is not    *)
(* there.                                                                  *)
MintedNow ==
    /\ pc["serve"] \in {"marker", "config", "files", "mint"} => key["serve"] = None
    /\ (pc["serve"] \in {"check", "connect", "create", "unmint"} /\ key["serve"] # None)
          => /\ repo \in OwnerKeys \cup {None}
             /\ password = key["serve"] /\ password \in MintKeys

(* A verb has the owner's key, and installs it where it is the repository's. *)
OwnersNow ==
    job \in {"init", "recover"} =>
        /\ key["verb"] \in OwnerKeys
        /\ pc["verb"] \in {"blank", "promote", "clear"} => repo = key["verb"]
        /\ pc["verb"] = "clear" => password = repo

(* A look past the marker is a look at a box without one. *)
Looking ==
    resident /\ pc["serve"] \in {"config", "files", "mint", "check", "connect", "create",
                                 "blank", "unmint", "mark"} => ~marker

(* recover is at work where the box waits for it, or where it found a      *)
(* configuration.                                                          *)
Recovering ==
    job = "recover" /\ pc["verb"] \in {"check", "connect", "blank", "promote", "undo", "clear"}
        => marker \/ config # "none"

(* A look that found no configuration has the box to itself: a recover had *)
(* nothing to start from, and one that starts where a killed verb's kopia  *)
(* connected meanwhile is refused.                                         *)
Alone ==
    resident /\ pc["serve"] \in {"connect", "create", "blank", "unmint", "mark"} =>
        /\ config # "torn"
        /\ job = "recover" => pc["verb"] \in {"check", "exit"}

(* What a connect found before its kopia began is so still, unless another *)
(* kopia connected late.                                                   *)
Since ==
    /\ resident /\ pc["serve"] = "connect" => config = "none" \/ late
    /\ job = "connect" /\ pc["verb"] = "connect" => config = "none" \/ late
    /\ job = "recover" /\ pc["verb"] = "connect" => marker \/ config = "torn" \/ late

(* What the kopias of killed verbs have yet to do is right when they do it: *)
(* the key they create with is on the box or with the owner, and no wrong  *)
(* password is beside what they connect.                                   *)
Strayed ==
    \A s \in stray :
        /\ s.call = "create" => ~resident
        /\ s.call = "create" /\ repo = None
              => s.key = password \/ (s.key \in OwnerKeys /\ password = None)
        /\ s.call = "connect" /\ s.key = repo /\ ~marker
              => password = repo \/ (~resident /\ password = None)

(* The owner is left to choose a key where there is none. *)
Choosing ==
    (needsSecret \/ job \in {"probe", "init"}) /\ repo = None => password = None

(* A connect or create has a password, and a configuration a repository. *)
Configured ==
    /\ resident /\ pc["serve"] \in {"connect", "create"} => password # None
    /\ job = "connect" /\ pc["verb"] \in {"connect", "create"} => password # None
    /\ config # "none" => repo # None

(* On a box with a serve, the password of a configuration does not go. *)
Kept == resident /\ ~marker /\ config # "none" => password = repo

Inv ==
    /\ TypeOK
    /\ OneSide /\ Places /\ MintedNow /\ OwnersNow /\ Looking /\ Recovering
    /\ Choosing /\ Configured /\ Kept /\ Alone /\ Since /\ Strayed
    /\ KeySafe /\ PasswordOpens

-----------------------------------------------------------------------------
(* Helpers.                                                                *)

LEMMA TwoActors == "serve" \in Actors /\ "verb" \in Actors /\ "serve" # "verb"
  BY DEF Actors

(* Who goes somewhere moves nobody else. *)
PcOK ==
    /\ pc \in [Actors -> ServeLabels \cup VerbLabels]
    /\ pc["serve"] \in ServeLabels /\ pc["verb"] \in VerbLabels

LEMMA ServeMoves ==
    ASSUME TypeOK, NEW label \in ServeLabels, GoTo("serve", label)
    PROVE  PcOK' /\ pc'["serve"] = label /\ pc'["verb"] = pc["verb"]
  BY TwoActors DEF TypeOK, GoTo, PcOK

LEMMA VerbMoves ==
    ASSUME TypeOK, NEW label \in VerbLabels, GoTo("verb", label)
    PROVE  PcOK' /\ pc'["verb"] = label /\ pc'["serve"] = pc["serve"]
  BY TwoActors DEF TypeOK, GoTo, PcOK

(* Who is given a key takes nobody else's. *)
LEMMA Given ==
    ASSUME TypeOK, NEW a \in Actors, NEW k \in Keys \cup {None},
           key' = [key EXCEPT ![a] = k]
    PROVE  /\ key' \in [Actors -> Keys \cup {None}] /\ key'[a] = k
           /\ \A b \in Actors \ {a} : key'[b] = key[b]
  BY DEF TypeOK

LEMMA Named ==
    ASSUME TypeOK, NEW a \in Actors, NEW i \in Idents \cup {None},
           opts' = [opts EXCEPT ![a] = i]
    PROVE  opts' \in [Actors -> Idents \cup {None}]
  BY DEF TypeOK

(* A connect writes a configuration if the key is the repository's. *)
LEMMA Connects ==
    ASSUME TypeOK, NEW k, NEW i \in Idents \cup {None}, NEW out, KopiaConnect(k, i, out)
    PROVE  /\ config' \in {"none", "raw", "blanked", "torn"}
           /\ ident' \in Idents \cup {None}
           /\ \/ repo = k /\ repo # None /\ config' = "raw"
              \/ config' = config /\ ident' = ident /\ out # "ok"
           /\ out = "ok" => repo = k /\ repo # None
           /\ out = "wrongPassword" => config' = config /\ repo # None
  BY DEF KopiaConnect, TypeOK

(* A create makes a repository with the given key, and only where there is none. *)
LEMMA Creates ==
    ASSUME TypeOK, NEW k \in Keys \cup {None}, NEW i \in Idents \cup {None}, NEW out,
           KopiaCreate(k, i, out)
    PROVE  /\ config' \in {"none", "raw", "blanked", "torn"}
           /\ ident' \in Idents \cup {None}
           /\ repo' \in {repo, k} /\ (repo' # repo => repo = None)
           /\ \/ repo = None /\ repo' = k /\ config' = "raw"
              \/ config' = config /\ ident' = ident /\ out # "ok"
           /\ out = "ok" => repo' = k
           /\ out = "exists" => repo' = repo /\ repo # None /\ config' = config
  BY DEF KopiaCreate, TypeOK

LEMMA Blanks ==
    ASSUME TypeOK, NEW ok \in BOOLEAN, Blank(ok)
    PROVE  /\ config' \in {"none", "raw", "blanked", "torn"}
           /\ config' = "none" <=> config = "none"
           /\ config = "torn" => config' = "torn"
           /\ ok => config # "none"
           /\ Readable' => Readable
  BY DEF Blank, TypeOK, Readable

LEMMA InitInv == Init => Inv
  <1> SUFFICES ASSUME Init PROVE Inv
    OBVIOUS
  <1>1. /\ pc["verb"] = "idle" /\ (pc["serve"] = IF resident THEN "marker" ELSE "down")
        /\ PcOK
    BY TwoActors DEF Init, PcOK, ServeLabels, VerbLabels
  <1>2. /\ key \in [Actors -> Keys \cup {None}] /\ opts \in [Actors -> Idents \cup {None}]
        /\ key["serve"] = None
    BY TwoActors DEF Init
  <1>3. TypeOK
    BY <1>1, <1>2 DEF Init, TypeOK, PcOK, Keys, Results
  <1> QED
    BY <1>1, <1>2, <1>3, ProvisionAssumption
    DEF Init, Inv, OneSide, Places, MintedNow, OwnersNow, Looking, Recovering,
        Choosing, Configured, Kept, Alone, Since, Strayed, KeySafe, PasswordOpens

-----------------------------------------------------------------------------
(* serve.                                                                  *)

LEMMA Looks ==
    ASSUME Inv, Tick \/ LookMarker \/ LookConfig \/ LookFiles
    PROVE  Inv'
  <1> USE ProvisionAssumption DEF Inv, OneSide, Places, MintedNow, OwnersNow, Looking,
          Recovering, Choosing, Configured, Kept, Alone, Since, Strayed, KeySafe, PasswordOpens, Readable
  <1>1. CASE Tick
    <2>1. GoTo("serve", "marker") /\ key' = [key EXCEPT !["serve"] = None] /\ resident
          /\ UNCHANGED <<repo, onDisk, resident, strays, job, opts, result, calm>>
      BY <1>1 DEF Tick, Serve
    <2>2. PcOK' /\ pc'["serve"] = "marker" /\ pc'["verb"] = pc["verb"]
      BY <2>1, ServeMoves DEF ServeLabels
    <2>3. /\ key' \in [Actors -> Keys \cup {None}] /\ key'["serve"] = None
          /\ key'["verb"] = key["verb"]
      BY <2>1, Given, TwoActors
    <2>4. TypeOK'
      BY <2>1, <2>2, <2>3 DEF TypeOK, PcOK, onDisk
    <2> QED
      BY <2>1, <2>2, <2>3, <2>4 DEF onDisk
  <1>2. CASE LookMarker
    <2>1. pc["serve"] = "marker" /\ resident
          /\ UNCHANGED <<repo, onDisk, resident, strays, job, key, opts, result, calm>>
      BY <1>2 DEF LookMarker, Serve, At
    <2>2. PICK label \in {"adapter", "config"} :
             GoTo("serve", label) /\ (label = "config" => ~marker)
      BY <1>2 DEF LookMarker
    <2>3. PcOK' /\ pc'["serve"] = label /\ pc'["verb"] = pc["verb"]
      BY <2>2, ServeMoves DEF ServeLabels
    <2>4. TypeOK'
      BY <2>1, <2>3 DEF TypeOK, PcOK, onDisk
    <2> QED
      BY <2>1, <2>2, <2>3, <2>4 DEF onDisk
  <1>3. CASE LookConfig
    <2>1. pc["serve"] = "config" /\ resident
          /\ UNCHANGED <<repo, onDisk, resident, strays, job, key, opts, result, calm>>
      BY <1>3 DEF LookConfig, Serve, At
    <2>2. PICK label \in {"adapter", "files"} : GoTo("serve", label)
      BY <1>3 DEF LookConfig
    <2>3. PcOK' /\ pc'["serve"] = label /\ pc'["verb"] = pc["verb"]
      BY <2>2, ServeMoves DEF ServeLabels
    <2>4. TypeOK'
      BY <2>1, <2>3 DEF TypeOK, PcOK, onDisk
    <2> QED
      BY <2>1, <2>2, <2>3, <2>4 DEF onDisk
  <1>4. CASE LookFiles
    <2>1. pc["serve"] = "files" /\ resident
          /\ UNCHANGED <<repo, onDisk, resident, strays, job, key, result, calm>>
      BY <1>4 DEF LookFiles, Serve, At
    <2>2. PICK label \in {"mint", "wait"} : GoTo("serve", label)
      BY <1>4 DEF LookFiles
    <2>3. PcOK' /\ pc'["serve"] = label /\ pc'["verb"] = pc["verb"]
      BY <2>2, ServeMoves DEF ServeLabels
    <2>4. opts' \in [Actors -> Idents \cup {None}]
      <3>1. CASE opts' = [opts EXCEPT !["serve"] = connect]
        BY <3>1, Named, TwoActors DEF TypeOK
      <3>2. CASE UNCHANGED opts
        BY <3>2 DEF TypeOK
      <3> QED
        BY <1>4, <3>1, <3>2 DEF LookFiles
    <2>5. TypeOK'
      BY <2>1, <2>3, <2>4 DEF TypeOK, PcOK, onDisk
    <2> QED
      BY <2>1, <2>2, <2>3, <2>5 DEF onDisk
  <1> QED
    BY <1>1, <1>2, <1>3, <1>4

LEMMA Mints == ASSUME Inv, Mint PROVE Inv'
  <1> USE ProvisionAssumption DEF Inv, OneSide, Places, MintedNow, OwnersNow, Looking,
          Recovering, Choosing, Configured, Kept, Alone, Since, Strayed, KeySafe, PasswordOpens
  <1>1. pc["serve"] = "mint" /\ resident /\ key["serve"] = None
        /\ UNCHANGED <<repo, config, ident, marker, needsSecret, connect, adapter,
                       resident, strays, job, opts, result, calm>>
    BY DEF Mint, Serve, At
  <1>2. PICK label \in {"check", "wait"} : GoTo("serve", label)
    BY DEF Mint
  <1>3. PcOK' /\ pc'["serve"] = label /\ pc'["verb"] = pc["verb"]
    BY <1>2, ServeMoves DEF ServeLabels
  <1>4. CASE UNCHANGED <<password, key>>
    <2>1. TypeOK'
      BY <1>1, <1>3, <1>4 DEF TypeOK, PcOK
    <2> QED
      BY <1>1, <1>2, <1>3, <1>4, <2>1
  <1>5. CASE password = None /\ \E k \in MintKeys \ {repo} :
                  password' = k /\ key' = [key EXCEPT !["serve"] = k]
    <2>1. PICK k \in MintKeys \ {repo} : password' = k /\ key' = [key EXCEPT !["serve"] = k]
      BY <1>5
    <2>2. /\ key' \in [Actors -> Keys \cup {None}] /\ key'["serve"] = k
          /\ key'["verb"] = key["verb"]
      BY <2>1, Given, TwoActors DEF Keys
    <2>3. TypeOK'
      BY <1>1, <1>3, <2>1, <2>2 DEF TypeOK, PcOK, Keys
    <2>4. config = "none" \/ marker
      BY <1>1, <1>5
    <2>5. repo \in OwnerKeys \cup {None} /\ k # repo
      BY <1>5, <2>1
    <2>6. MintedNow' /\ Strayed'
      <3>1. MintedNow'
        BY <1>1, <1>2, <1>3, <1>5, <2>1, <2>2, <2>5
      <3>2. \A s \in stray : s.key # None
        BY DEF TypeOK, Calls, Keys
      <3>3. \A s \in stray : s.call = "create" => FALSE
        BY <1>1
      <3>4. \A s \in stray : s.call = "connect" /\ s.key = repo => marker
        BY <1>1, <1>5, <3>2
      <3> QED
        BY <1>1, <3>1, <3>3, <3>4
    <2>7. Alone' /\ Since' /\ Configured' /\ Kept'
      BY <1>1, <1>2, <1>3, <1>5, <2>1, <2>4
    <2> HIDE DEF MintedNow, Strayed, Alone, Since, Configured, Kept
    <2> QED
      BY <1>1, <1>2, <1>3, <1>5, <2>1, <2>2, <2>3, <2>4, <2>6, <2>7
  <1> QED
    BY <1>4, <1>5 DEF Mint

LEMMA GivesUp == ASSUME Inv, Unmint \/ WriteMarker \/ WriteAdapter PROVE Inv'
  <1> USE ProvisionAssumption DEF Inv, OneSide, Places, MintedNow, OwnersNow, Looking,
          Recovering, Choosing, Configured, Kept, Alone, Since, Strayed, KeySafe, PasswordOpens
  <1>1. CASE Unmint
    <2>1. /\ pc["serve"] = "unmint" /\ resident /\ GoTo("serve", "mark")
          /\ \/ key["serve"] # None /\ password' = None
             \/ UNCHANGED password
          /\ UNCHANGED <<repo, config, ident, marker, needsSecret, connect, adapter,
                         resident, strays, job, key, opts, result, calm>>
      BY <1>1 DEF Unmint, Serve, At
    <2>2. PcOK' /\ pc'["serve"] = "mark" /\ pc'["verb"] = pc["verb"]
      BY <2>1, ServeMoves DEF ServeLabels
    <2>3. TypeOK'
      BY <2>1, <2>2 DEF TypeOK, PcOK
    <2> QED
      BY <2>1, <2>2, <2>3
  <1>2. CASE WriteMarker
    <2>1. /\ pc["serve"] = "mark" /\ resident /\ GoTo("serve", "adapter")
          /\ marker' \in {TRUE, marker}
          /\ UNCHANGED <<repo, config, ident, password, needsSecret, connect, adapter,
                         resident, strays, job, key, opts, result, calm>>
      BY <1>2 DEF WriteMarker, Serve, At
    <2>2. PcOK' /\ pc'["serve"] = "adapter" /\ pc'["verb"] = pc["verb"]
      BY <2>1, ServeMoves DEF ServeLabels
    <2>3. TypeOK'
      BY <2>1, <2>2 DEF TypeOK, PcOK
    <2> QED
      BY <2>1, <2>2, <2>3 DEF TypeOK
  <1>3. CASE WriteAdapter
    <2>1. /\ resident /\ GoTo("serve", "done") /\ adapter' \in {TRUE, adapter}
          /\ UNCHANGED <<repo, config, ident, password, marker, needsSecret, connect,
                         resident, strays, job, key, opts, result, calm>>
      BY <1>3 DEF WriteAdapter, Serve
    <2>2. PcOK' /\ pc'["serve"] = "done" /\ pc'["verb"] = pc["verb"]
      BY <2>1, ServeMoves DEF ServeLabels
    <2>3. TypeOK'
      BY <2>1, <2>2 DEF TypeOK, PcOK
    <2> QED
      BY <2>1, <2>2, <2>3
  <1> QED
    BY <1>1, <1>2, <1>3

(* What serve makes of an answer, and what a host side's verb may answer. *)
LEMMA ServeAnswered ==
    ASSUME NEW r, Answer("serve", r)
    PROVE  /\ UNCHANGED result
           /\ \E label \in {"adapter", "unmint", "down", "wait"} :
                 /\ GoTo("serve", label)
                 /\ label = "unmint" => r \in {"exists", "wrongPassword"}
  <1>1. CASE r = "ok"
    BY <1>1 DEF Answer
  <1>2. CASE r \in {"exists", "wrongPassword"}
    BY <1>2 DEF Answer
  <1>3. CASE r = "cancelled"
    BY <1>3 DEF Answer
  <1>4. CASE r \notin {"ok", "exists", "wrongPassword", "cancelled"}
    BY <1>4 DEF Answer
  <1> QED
    BY <1>1, <1>2, <1>3, <1>4

LEMMA VerbAnswered ==
    ASSUME NEW r \in {"ok", "notConfigured", "exists", "wrongPassword", "error", "cancelled"},
           Answer("verb", r)
    PROVE  GoTo("verb", "exit") /\ result' \in Results \ {"empty"}
  BY DEF Answer, Return, Results

(* The check of either changes nothing, and goes on without a configuration *)
(* only.                                                                   *)
LEMMA ServeChecks == ASSUME Inv, CheckConfig("serve") PROVE Inv'
  <1> USE ProvisionAssumption DEF Inv
  <1>1. /\ pc["serve"] = "check" /\ resident
        /\ UNCHANGED <<repo, onDisk, resident, strays, job, key, opts, calm>>
    BY DEF CheckConfig, Connecting, Serve, At
  <1>2. /\ UNCHANGED result
        /\ \E label \in {"adapter", "down", "wait", "connect"} :
              /\ GoTo("serve", label)
              /\ label = "connect" => config = "none" /\ password # None
    <2>1. ASSUME NEW r \in {"ok", "error", "notConfigured"}, Answer("serve", r)
          PROVE  UNCHANGED result /\ \E label \in {"adapter", "down", "wait"} : GoTo("serve", label)
      BY <2>1, ServeAnswered
    <2>2. \/ \E r \in {"ok", "error", "notConfigured"} : Answer("serve", r)
          \/ config = "none" /\ password # None /\ Onward("serve", "connect")
      BY DEF CheckConfig
    <2> QED
      BY <2>1, <2>2 DEF Onward
  <1>3. PICK label \in {"adapter", "down", "wait", "connect"} :
              /\ GoTo("serve", label)
              /\ label = "connect" => config = "none" /\ password # None
    BY <1>2
  <1>4. PcOK' /\ pc'["serve"] = label /\ pc'["verb"] = pc["verb"]
    BY <1>3, ServeMoves DEF ServeLabels
  <1>5. TypeOK'
    BY <1>1, <1>2, <1>4 DEF TypeOK, PcOK, onDisk
  <1>6. label = "connect" /\ job = "recover" => pc["verb"] \in {"check", "exit"}
    BY <1>1, <1>3 DEF Looking, Recovering, Places, TypeOK, VerbLabels
  <1> QED
    BY <1>1, <1>2, <1>3, <1>4, <1>5, <1>6
    DEF OneSide, Places, MintedNow, OwnersNow, Looking, Recovering, Choosing,
        Configured, Kept, Alone, Since, Strayed, KeySafe, PasswordOpens, onDisk

LEMMA ServeConnects == ASSUME Inv, ConnectRepo("serve") PROVE Inv'
  <1> USE ProvisionAssumption DEF Inv
  <1>1. /\ pc["serve"] = "connect" /\ resident
        /\ UNCHANGED <<repo, password, marker, needsSecret, connect, adapter,
                       resident, strays, job, key, opts, calm>>
    BY DEF ConnectRepo, Connecting, Serve, At
  <1>2. PICK out \in {"ok", "wrongPassword", "notInitialized", "failed", "cancelled"} :
           /\ KopiaConnect(password, opts["serve"], out)
           /\ CASE out = "ok" -> Onward("serve", "blank")
                [] out \in {"wrongPassword", "cancelled"} -> Answer("serve", out)
                [] OTHER -> Onward("serve", "create")
    BY DEF ConnectRepo
  <1>3. /\ config' \in {"none", "raw", "blanked", "torn"} /\ ident' \in Idents \cup {None}
        /\ \/ config' = config /\ ident' = ident
           \/ config' = "raw" /\ repo = password /\ repo # None
    <2>1. opts["serve"] \in Idents \cup {None}
      BY TwoActors DEF TypeOK
    <2> QED
      BY <1>2, <2>1, Connects
  <1>4. /\ UNCHANGED result
        /\ \E label \in {"adapter", "unmint", "down", "wait", "blank", "create"} :
              GoTo("serve", label)
    <2>1. CASE out = "ok"
      BY <1>2, <2>1 DEF Onward
    <2>2. CASE out \in {"wrongPassword", "cancelled"}
      <3>1. Answer("serve", out)
        BY <1>2, <2>2
      <3> QED
        BY <3>1, ServeAnswered
    <2>3. CASE out \in {"notInitialized", "failed"}
      <3>1. Onward("serve", "create")
        BY <1>2, <2>3
      <3> QED
        BY <3>1 DEF Onward
    <2> QED
      BY <2>1, <2>2, <2>3
  <1>5. PICK label \in {"adapter", "unmint", "down", "wait", "blank", "create"} :
           GoTo("serve", label)
    BY <1>4
  <1>6. PcOK' /\ pc'["serve"] = label /\ pc'["verb"] = pc["verb"]
    BY <1>5, ServeMoves DEF ServeLabels
  <1>7. TypeOK'
    BY <1>1, <1>3, <1>4, <1>6 DEF TypeOK, PcOK
  <1> QED
    BY <1>1, <1>3, <1>4, <1>6, <1>7
    DEF OneSide, Places, MintedNow, OwnersNow, Looking, Recovering, Choosing,
        Configured, Kept, Alone, Since, Strayed, KeySafe, PasswordOpens

LEMMA ServeCreates == ASSUME Inv, CreateRepo("serve") PROVE Inv'
  <1> USE ProvisionAssumption DEF Inv
  <1>1. /\ pc["serve"] = "create" /\ resident
        /\ UNCHANGED <<password, marker, needsSecret, connect, adapter, resident, strays,
                       job, key, opts, calm>>
    BY DEF CreateRepo, Connecting, Serve, At
  <1>2. /\ password \in Keys \cup {None} /\ opts["serve"] \in Idents \cup {None}
        /\ password # None
    BY <1>1, TwoActors DEF TypeOK, Configured
  <1>3. PICK out \in {"ok", "exists", "failed", "cancelled"} :
           /\ KopiaCreate(password, opts["serve"], out)
           /\ IF out = "ok" THEN Onward("serve", "blank")
              ELSE Answer("serve", IF out = "failed" THEN "error" ELSE out)
    BY DEF CreateRepo
  <1>4. /\ config' \in {"none", "raw", "blanked", "torn"}
        /\ ident' \in Idents \cup {None}
        /\ repo' \in {repo, password} /\ (repo' # repo => repo = None)
        /\ \/ repo = None /\ repo' = password /\ config' = "raw"
           \/ config' = config /\ ident' = ident /\ out # "ok"
        /\ out = "exists" => repo' = repo /\ repo # None /\ config' = config
    BY <1>2, <1>3, Creates
  <1>5. /\ UNCHANGED result
        /\ \E label \in {"adapter", "unmint", "down", "wait", "blank"} :
              GoTo("serve", label) /\ (label = "unmint" => out = "exists")
    <2>1. CASE out = "ok"
      BY <1>3, <2>1 DEF Onward
    <2>2. CASE out = "failed"
      <3>1. Answer("serve", "error")
        BY <1>3, <2>2
      <3> QED
        BY <3>1, ServeAnswered
    <2>3. CASE out = "exists"
      <3>1. Answer("serve", "exists")
        BY <1>3, <2>3
      <3> QED
        BY <2>3, <3>1, ServeAnswered
    <2>4. CASE out = "cancelled"
      <3>1. Answer("serve", "cancelled")
        BY <1>3, <2>4
      <3> QED
        BY <3>1, ServeAnswered
    <2> QED
      BY <2>1, <2>2, <2>3, <2>4
  <1>6. PICK label \in {"adapter", "unmint", "down", "wait", "blank"} :
           GoTo("serve", label) /\ (label = "unmint" => out = "exists")
    BY <1>5
  <1>7. PcOK' /\ pc'["serve"] = label /\ pc'["verb"] = pc["verb"]
    BY <1>6, ServeMoves DEF ServeLabels
  <1>8. TypeOK'
    BY <1>1, <1>2, <1>4, <1>5, <1>7 DEF TypeOK, PcOK
  <1> QED
    BY <1>1, <1>2, <1>4, <1>5, <1>6, <1>7, <1>8
    DEF OneSide, Places, MintedNow, OwnersNow, Looking, Recovering, Choosing,
        Configured, Kept, Alone, Since, Strayed, KeySafe, PasswordOpens

LEMMA ServeBlanks == ASSUME Inv, BlankConnected("serve") PROVE Inv'
  <1> USE ProvisionAssumption DEF Inv
  <1>1. /\ pc["serve"] = "blank" /\ resident
        /\ UNCHANGED <<repo, ident, password, marker, needsSecret, connect, adapter,
                       resident, strays, job, key, opts, calm>>
    BY DEF BlankConnected, Connecting, Serve, At
  <1>2. PICK ok \in BOOLEAN : Blank(ok) /\ Answer("serve", IF ok THEN "ok" ELSE "error")
    BY DEF BlankConnected
  <1>3. /\ config' \in {"none", "raw", "blanked", "torn"}
        /\ config' = "none" <=> config = "none"
        /\ config = "torn" => config' = "torn"
    BY <1>2, Blanks
  <1>4. /\ UNCHANGED result
        /\ \E label \in {"adapter", "down", "wait"} : GoTo("serve", label)
    <2>1. CASE ok
      <3>1. Answer("serve", "ok")
        BY <1>2, <2>1
      <3> QED
        BY <3>1, ServeAnswered
    <2>2. CASE ~ok
      <3>1. Answer("serve", "error")
        BY <1>2, <2>2
      <3> QED
        BY <3>1, ServeAnswered
    <2> QED
      BY <2>1, <2>2
  <1>5. PICK label \in {"adapter", "down", "wait"} : GoTo("serve", label)
    BY <1>4
  <1>6. PcOK' /\ pc'["serve"] = label /\ pc'["verb"] = pc["verb"]
    BY <1>5, ServeMoves DEF ServeLabels
  <1>7. TypeOK'
    BY <1>1, <1>3, <1>4, <1>6 DEF TypeOK, PcOK
  <1> QED
    BY <1>1, <1>3, <1>4, <1>6, <1>7
    DEF OneSide, Places, MintedNow, OwnersNow, Looking, Recovering, Choosing,
        Configured, Kept, Alone, Since, Strayed, KeySafe, PasswordOpens

-----------------------------------------------------------------------------
(* The verbs of a host side.                                               *)

LEMMA HostChecks == ASSUME Inv, CheckConfig("verb") PROVE Inv'
  <1> USE ProvisionAssumption, TwoActors DEF Inv
  <1>1. /\ pc["verb"] = "check" /\ job = "connect" /\ ~resident
        /\ UNCHANGED <<repo, onDisk, resident, strays, job, key, opts, calm>>
    BY DEF CheckConfig, Connecting, Verb, At, OneSide
  <1>2. /\ result' \in Results \ {"empty"}
        /\ \E label \in {"exit", "connect"} :
              /\ GoTo("verb", label)
              /\ label = "connect" => config = "none" /\ password # None
    <2>1. ASSUME NEW r \in {"ok", "error", "notConfigured"}, Answer("verb", r)
          PROVE  GoTo("verb", "exit") /\ result' \in Results \ {"empty"}
      BY <2>1, VerbAnswered
    <2>2. \/ \E r \in {"ok", "error", "notConfigured"} : Answer("verb", r)
          \/ config = "none" /\ password # None /\ Onward("verb", "connect")
      BY DEF CheckConfig
    <2>3. result \in Results \ {"empty"}
      BY <1>1 DEF TypeOK, Places
    <2> QED
      BY <2>1, <2>2, <2>3 DEF Onward
  <1>3. PICK label \in {"exit", "connect"} :
              /\ GoTo("verb", label)
              /\ label = "connect" => config = "none" /\ password # None
    BY <1>2
  <1>4. PcOK' /\ pc'["verb"] = label /\ pc'["serve"] = pc["serve"]
    BY <1>3, VerbMoves DEF VerbLabels
  <1>5. TypeOK'
    BY <1>1, <1>2, <1>4 DEF TypeOK, PcOK, onDisk
  <1> QED
    BY <1>1, <1>2, <1>3, <1>4, <1>5
    DEF OneSide, Places, MintedNow, OwnersNow, Looking, Recovering, Choosing,
        Configured, Kept, Alone, Since, Strayed, KeySafe, PasswordOpens, onDisk

LEMMA HostConnects == ASSUME Inv, ConnectRepo("verb") PROVE Inv'
  <1> USE ProvisionAssumption, TwoActors DEF Inv
  <1>1. /\ pc["verb"] = "connect" /\ job = "connect" /\ ~resident
        /\ UNCHANGED <<repo, password, marker, needsSecret, connect, adapter,
                       resident, strays, job, key, opts, calm>>
    BY DEF ConnectRepo, Connecting, Verb, At, OneSide
  <1>2. PICK out \in {"ok", "wrongPassword", "notInitialized", "failed", "cancelled"} :
           /\ KopiaConnect(password, opts["verb"], out)
           /\ CASE out = "ok" -> Onward("verb", "blank")
                [] out \in {"wrongPassword", "cancelled"} -> Answer("verb", out)
                [] OTHER -> Onward("verb", "create")
    BY DEF ConnectRepo
  <1>3. /\ config' \in {"none", "raw", "blanked", "torn"} /\ ident' \in Idents \cup {None}
        /\ \/ config' = config /\ ident' = ident
           \/ config' = "raw" /\ repo = password /\ repo # None
    <2>1. opts["verb"] \in Idents \cup {None}
      BY DEF TypeOK
    <2> QED
      BY <1>2, <2>1, Connects
  <1>4. /\ result' \in Results \ {"empty"}
        /\ \E label \in {"exit", "blank", "create"} : GoTo("verb", label)
    <2>1. result \in Results \ {"empty"}
      BY <1>1 DEF TypeOK, Places
    <2>2. CASE out = "ok"
      BY <1>2, <2>1, <2>2 DEF Onward
    <2>3. CASE out \in {"wrongPassword", "cancelled"}
      <3>1. Answer("verb", out)
        BY <1>2, <2>3
      <3> QED
        BY <2>3, <3>1, VerbAnswered
    <2>4. CASE out \in {"notInitialized", "failed"}
      <3>1. Onward("verb", "create")
        BY <1>2, <2>4
      <3> QED
        BY <2>1, <3>1 DEF Onward
    <2> QED
      BY <2>2, <2>3, <2>4
  <1>5. PICK label \in {"exit", "blank", "create"} : GoTo("verb", label)
    BY <1>4
  <1>6. PcOK' /\ pc'["verb"] = label /\ pc'["serve"] = pc["serve"]
    BY <1>5, VerbMoves DEF VerbLabels
  <1>7. TypeOK'
    BY <1>1, <1>3, <1>4, <1>6 DEF TypeOK, PcOK
  <1> QED
    BY <1>1, <1>3, <1>4, <1>6, <1>7
    DEF OneSide, Places, MintedNow, OwnersNow, Looking, Recovering, Choosing,
        Configured, Kept, Alone, Since, Strayed, KeySafe, PasswordOpens

LEMMA HostCreates == ASSUME Inv, CreateRepo("verb") PROVE Inv'
  <1> USE ProvisionAssumption, TwoActors DEF Inv
  <1>1. /\ pc["verb"] = "create" /\ job = "connect" /\ ~resident
        /\ UNCHANGED <<password, marker, needsSecret, connect, adapter, resident, strays,
                       job, key, opts, calm>>
    BY DEF CreateRepo, Connecting, Verb, At, OneSide
  <1>2. /\ password \in Keys \cup {None} /\ opts["verb"] \in Idents \cup {None}
        /\ password # None /\ result \in Results \ {"empty"}
    BY <1>1 DEF TypeOK, Configured, Places
  <1>3. PICK out \in {"ok", "exists", "failed", "cancelled"} :
           /\ KopiaCreate(password, opts["verb"], out)
           /\ IF out = "ok" THEN Onward("verb", "blank")
              ELSE Answer("verb", IF out = "failed" THEN "error" ELSE out)
    BY DEF CreateRepo
  <1>4. /\ config' \in {"none", "raw", "blanked", "torn"}
        /\ ident' \in Idents \cup {None}
        /\ repo' \in {repo, password} /\ (repo' # repo => repo = None)
        /\ \/ repo = None /\ repo' = password /\ config' = "raw"
           \/ config' = config /\ ident' = ident /\ out # "ok"
    BY <1>2, <1>3, Creates
  <1>5. /\ result' \in Results \ {"empty"}
        /\ \E label \in {"exit", "blank"} : GoTo("verb", label)
    <2>1. CASE out = "ok"
      BY <1>2, <1>3, <2>1 DEF Onward
    <2>2. CASE out = "failed"
      <3>1. Answer("verb", "error")
        BY <1>3, <2>2
      <3> QED
        BY <3>1, VerbAnswered
    <2>3. CASE out \in {"exists", "cancelled"}
      <3>1. Answer("verb", out)
        BY <1>3, <2>3
      <3> QED
        BY <2>3, <3>1, VerbAnswered
    <2> QED
      BY <2>1, <2>2, <2>3
  <1>6. PICK label \in {"exit", "blank"} : GoTo("verb", label)
    BY <1>5
  <1>7. PcOK' /\ pc'["verb"] = label /\ pc'["serve"] = pc["serve"]
    BY <1>6, VerbMoves DEF VerbLabels
  <1>8. TypeOK'
    BY <1>1, <1>2, <1>4, <1>5, <1>7 DEF TypeOK, PcOK
  <1> QED
    BY <1>1, <1>2, <1>4, <1>5, <1>7, <1>8
    DEF OneSide, Places, MintedNow, OwnersNow, Looking, Recovering, Choosing,
        Configured, Kept, Alone, Since, Strayed, KeySafe, PasswordOpens

LEMMA HostBlanks == ASSUME Inv, BlankConnected("verb") PROVE Inv'
  <1> USE ProvisionAssumption, TwoActors DEF Inv
  <1>1. /\ pc["verb"] = "blank" /\ job = "connect" /\ ~resident
        /\ UNCHANGED <<repo, ident, password, marker, needsSecret, connect, adapter,
                       resident, strays, job, key, opts, calm>>
    BY DEF BlankConnected, Connecting, Verb, At, OneSide
  <1>2. PICK ok \in BOOLEAN : Blank(ok) /\ Answer("verb", IF ok THEN "ok" ELSE "error")
    BY DEF BlankConnected
  <1>3. /\ config' \in {"none", "raw", "blanked", "torn"}
        /\ config' = "none" <=> config = "none"
        /\ config = "torn" => config' = "torn"
    BY <1>2, Blanks
  <1>4. GoTo("verb", "exit") /\ result' \in Results \ {"empty"}
    BY <1>2, VerbAnswered
  <1>5. PcOK' /\ pc'["verb"] = "exit" /\ pc'["serve"] = pc["serve"]
    BY <1>4, VerbMoves DEF VerbLabels
  <1>6. TypeOK'
    BY <1>1, <1>3, <1>4, <1>5 DEF TypeOK, PcOK
  <1> QED
    BY <1>1, <1>3, <1>4, <1>5, <1>6
    DEF OneSide, Places, MintedNow, OwnersNow, Looking, Recovering, Choosing,
        Configured, Kept, Alone, Since, Strayed, KeySafe, PasswordOpens

LEMMA Probes == ASSUME Inv, Probe PROVE Inv'
  <1> USE ProvisionAssumption DEF Inv
  <1>1. /\ job = "probe" /\ pc["verb"] = "check" /\ ~resident
        /\ GoTo("verb", "exit") /\ result' \in Results
        /\ UNCHANGED <<repo, onDisk, resident, strays, job, key, opts, calm>>
    BY DEF Probe, Verb, At, OneSide, Return, Results
  <1>2. PcOK' /\ pc'["verb"] = "exit" /\ pc'["serve"] = pc["serve"]
    BY <1>1, VerbMoves DEF VerbLabels
  <1>3. TypeOK'
    BY <1>1, <1>2 DEF TypeOK, PcOK, onDisk
  <1> QED
    BY <1>1, <1>2, <1>3
    DEF OneSide, Places, MintedNow, OwnersNow, Looking, Recovering, Choosing,
        Configured, Kept, Alone, Since, Strayed, KeySafe, PasswordOpens, onDisk

-----------------------------------------------------------------------------
(* init and recover.                                                       *)

LEMMA Checks == ASSUME Inv, Check PROVE Inv'
  <1> USE ProvisionAssumption, TwoActors DEF Inv
  <1>1. /\ pc["verb"] = "check" /\ job \in {"init", "recover"}
        /\ UNCHANGED <<repo, onDisk, resident, strays, job, key, calm>>
    BY DEF Check, At
  <1>2. /\ result' \in Results /\ opts' \in [Actors -> Idents \cup {None}]
        /\ \E label \in {"exit", "create", "connect"} :
              /\ GoTo("verb", label)
              /\ label = "create" => job = "init" /\ ~Refused
              /\ label = "connect" => job = "recover" /\ ~Refused
    <2>1. CASE (\E r \in Results : Return(r)) /\ UNCHANGED opts
      BY <2>1 DEF Return, TypeOK
    <2>2. CASE /\ ~Refused /\ connect # None
               /\ opts' = [opts EXCEPT !["verb"] = connect]
               /\ Continue(IF job = "init" THEN "create" ELSE "connect")
      <3>1. opts' \in [Actors -> Idents \cup {None}]
        BY <2>2, Named DEF TypeOK
      <3> QED
        BY <1>1, <2>2, <3>1 DEF Continue, TypeOK
    <2> QED
      BY <2>1, <2>2 DEF Check, Results
  <1>3. PICK label \in {"exit", "create", "connect"} :
              /\ GoTo("verb", label)
              /\ label = "create" => job = "init" /\ ~Refused
              /\ label = "connect" => job = "recover" /\ ~Refused
    BY <1>2
  <1>4. PcOK' /\ pc'["verb"] = label /\ pc'["serve"] = pc["serve"]
    BY <1>3, VerbMoves DEF VerbLabels
  <1>5. TypeOK'
    BY <1>1, <1>2, <1>4 DEF TypeOK, PcOK, onDisk
  <1>6. /\ label = "connect" => marker \/ config = "torn"
        /\ ~marker /\ config \notin {"none", "torn"} /\ job = "recover" => label = "exit"
    BY <1>1, <1>3 DEF Refused, Readable, TypeOK, Recovering
  <1> QED
    BY <1>1, <1>3, <1>4, <1>5, <1>6
    DEF OneSide, Places, MintedNow, OwnersNow, Looking, Recovering, Choosing,
        Configured, Kept, Alone, Since, Strayed, KeySafe, PasswordOpens, onDisk

LEMMA RecoverConnects == ASSUME Inv, RecoverConnect PROVE Inv'
  <1> USE ProvisionAssumption, TwoActors DEF Inv
  <1>1. /\ pc["verb"] = "connect" /\ job = "recover"
        /\ opts["verb"] \in Idents \cup {None} /\ result \in Results
        /\ UNCHANGED <<repo, password, marker, needsSecret, connect, adapter,
                       resident, strays, job, key, opts, calm>>
    BY DEF RecoverConnect, Verb, At, TypeOK
  <1>2. PICK out \in {"ok", "wrongPassword", "notInitialized", "failed", "cancelled"} :
           /\ KopiaConnect(key["verb"], opts["verb"], out)
           /\ CASE out = "ok" -> Continue("blank")
                [] out = "wrongPassword" -> Return("wrongPassword")
                [] OTHER -> Return("error")
    BY DEF RecoverConnect
  <1>3. /\ result' \in Results
        /\ \E label \in {"blank", "exit"} :
              GoTo("verb", label) /\ (label = "blank" => out = "ok")
    <2>1. CASE out = "ok"
      BY <1>1, <1>2, <2>1 DEF Continue
    <2>2. CASE out # "ok"
      <3>1. Return("wrongPassword") \/ Return("error")
        BY <1>2, <2>2
      <3> QED
        BY <3>1 DEF Return, Results
    <2> QED
      BY <2>1, <2>2
  <1>4. PICK label \in {"blank", "exit"} :
           GoTo("verb", label) /\ (label = "blank" => out = "ok")
    BY <1>3
  <1>5. /\ config' \in {"none", "raw", "blanked", "torn"} /\ ident' \in Idents \cup {None}
        /\ \/ repo = key["verb"] /\ config' = "raw"
           \/ config' = config /\ ident' = ident
        /\ out = "ok" => repo = key["verb"]
    BY <1>1, <1>2, Connects
  <1>6. PcOK' /\ pc'["verb"] = label /\ pc'["serve"] = pc["serve"]
    BY <1>4, VerbMoves DEF VerbLabels
  <1>7. TypeOK'
    BY <1>1, <1>3, <1>5, <1>6 DEF TypeOK, PcOK
  <1> QED
    BY <1>1, <1>4, <1>5, <1>6, <1>7
    DEF OneSide, Places, MintedNow, OwnersNow, Looking, Recovering, Choosing,
        Configured, Kept, Alone, Since, Strayed, KeySafe, PasswordOpens

LEMMA InitCreates == ASSUME Inv, InitCreate PROVE Inv'
  <1> USE ProvisionAssumption, TwoActors DEF Inv
  <1>1. /\ pc["verb"] = "create" /\ job = "init" /\ ~resident
        /\ opts["verb"] \in Idents \cup {None} /\ result \in Results
        /\ key["verb"] \in OwnerKeys /\ key["verb"] \in Keys \cup {None}
        /\ UNCHANGED <<password, marker, needsSecret, connect, adapter, resident, strays,
                       job, key, opts, calm>>
    BY DEF InitCreate, Verb, At, TypeOK, OneSide, OwnersNow
  <1>2. PICK out \in {"ok", "exists", "failed", "cancelled"} :
           /\ KopiaCreate(key["verb"], opts["verb"], out)
           /\ CASE out = "ok" -> Continue("blank")
                [] out = "exists" -> Return("exists")
                [] OTHER -> Return("error")
    BY DEF InitCreate
  <1>3. /\ result' \in Results
        /\ \E label \in {"blank", "exit"} :
              GoTo("verb", label) /\ (label = "blank" => out = "ok")
    <2>1. CASE out = "ok"
      BY <1>1, <1>2, <2>1 DEF Continue
    <2>2. CASE out # "ok"
      <3>1. Return("exists") \/ Return("error")
        BY <1>2, <2>2
      <3> QED
        BY <3>1 DEF Return, Results
    <2> QED
      BY <2>1, <2>2
  <1>4. PICK label \in {"blank", "exit"} :
           GoTo("verb", label) /\ (label = "blank" => out = "ok")
    BY <1>3
  <1>5. /\ config' \in {"none", "raw", "blanked", "torn"} /\ ident' \in Idents \cup {None}
        /\ repo' \in {repo, key["verb"]} /\ (repo' # repo => repo = None)
        /\ \/ repo = None /\ repo' = key["verb"] /\ config' = "raw"
           \/ config' = config /\ ident' = ident
        /\ out = "ok" => repo' = key["verb"]
    BY <1>1, <1>2, Creates
  <1>6. PcOK' /\ pc'["verb"] = label /\ pc'["serve"] = pc["serve"]
    BY <1>4, VerbMoves DEF VerbLabels
  <1>7. TypeOK'
    BY <1>1, <1>3, <1>5, <1>6 DEF TypeOK, PcOK
  <1>8. repo = None => config = "none" /\ password = None
    BY <1>1 DEF Configured, Choosing
  <1> QED
    BY <1>1, <1>4, <1>5, <1>6, <1>7, <1>8
    DEF OneSide, Places, MintedNow, OwnersNow, Looking, Recovering, Choosing,
        Configured, Kept, Alone, Since, Strayed, KeySafe, PasswordOpens

LEMMA TypedBlanks == ASSUME Inv, BlankTyped PROVE Inv'
  <1> USE ProvisionAssumption, TwoActors DEF Inv
  <1>1. /\ pc["verb"] = "blank" /\ job \in {"init", "recover"}
        /\ UNCHANGED <<repo, ident, password, marker, needsSecret, connect, adapter,
                       resident, strays, job, key, opts, calm>>
    BY DEF BlankTyped, At
  <1>2. PICK ok \in BOOLEAN : Blank(ok) /\ Continue(IF ok THEN "promote" ELSE "undo")
    BY DEF BlankTyped
  <1>3. /\ config' \in {"none", "raw", "blanked", "torn"}
        /\ config' = "none" <=> config = "none"
        /\ config = "torn" => config' = "torn"
    BY <1>2, Blanks
  <1>4. PICK label \in {"promote", "undo"} : GoTo("verb", label) /\ UNCHANGED result
    BY <1>2 DEF Continue
  <1>5. PcOK' /\ pc'["verb"] = label /\ pc'["serve"] = pc["serve"]
    BY <1>4, VerbMoves DEF VerbLabels
  <1>6. TypeOK'
    BY <1>1, <1>3, <1>4, <1>5 DEF TypeOK, PcOK
  <1> QED
    BY <1>1, <1>3, <1>4, <1>5, <1>6
    DEF OneSide, Places, MintedNow, OwnersNow, Looking, Recovering, Choosing,
        Configured, Kept, Alone, Since, Strayed, KeySafe, PasswordOpens

LEMMA Promotes == ASSUME Inv, Promote PROVE Inv'
  <1> USE ProvisionAssumption, TwoActors DEF Inv
  <1>1. /\ pc["verb"] = "promote" /\ password' \in {password, key["verb"]}
        /\ UNCHANGED <<repo, config, ident, marker, needsSecret, connect, adapter,
                       resident, strays, job, key, opts, calm>>
    BY DEF Promote, At
  <1>2. job \in {"init", "recover"} /\ key["verb"] \in OwnerKeys /\ repo = key["verb"]
    BY <1>1 DEF Places, OwnersNow, TypeOK
  <1>3. PICK label \in {"clear", "undo"} :
           /\ GoTo("verb", label) /\ UNCHANGED result
           /\ label = "clear" => password' = key["verb"]
    BY DEF Promote, Continue
  <1>4. PcOK' /\ pc'["verb"] = label /\ pc'["serve"] = pc["serve"]
    BY <1>3, VerbMoves DEF VerbLabels
  <1>5. TypeOK'
    BY <1>1, <1>2, <1>3, <1>4 DEF TypeOK, PcOK, Keys
  <1> QED
    BY <1>1, <1>2, <1>3, <1>4, <1>5
    DEF OneSide, Places, MintedNow, OwnersNow, Looking, Recovering, Choosing,
        Configured, Kept, Alone, Since, Strayed, KeySafe, PasswordOpens, Keys

LEMMA Undoes == ASSUME Inv, UndoConnect PROVE Inv'
  <1> USE ProvisionAssumption, TwoActors DEF Inv
  <1>1. /\ pc["verb"] = "undo" /\ config' \in {"none", config} /\ Return("error")
        /\ UNCHANGED <<repo, ident, password, marker, needsSecret, connect, adapter,
                       resident, strays, job, key, opts, calm>>
    BY DEF UndoConnect, At
  <1>2. job \in {"init", "recover"}
    BY <1>1 DEF Places, TypeOK
  <1>3. PcOK' /\ pc'["verb"] = "exit" /\ pc'["serve"] = pc["serve"]
    BY <1>1, VerbMoves DEF Return, VerbLabels
  <1>4. TypeOK'
    BY <1>1, <1>3 DEF TypeOK, PcOK, Return, Results
  <1> QED
    BY <1>1, <1>2, <1>3, <1>4
    DEF OneSide, Places, MintedNow, OwnersNow, Looking, Recovering, Choosing,
        Configured, Kept, Alone, Since, Strayed, KeySafe, PasswordOpens

LEMMA Clears == ASSUME Inv, ClearMarkers PROVE Inv'
  <1> USE ProvisionAssumption, TwoActors DEF Inv
  <1>1. /\ pc["verb"] = "clear" /\ marker' \in {FALSE, marker}
        /\ needsSecret' \in {FALSE, needsSecret} /\ Return("ok")
        /\ UNCHANGED <<repo, config, ident, password, connect, adapter, resident, strays,
                       job, key, opts, calm>>
    BY DEF ClearMarkers, At
  <1>2. /\ job \in {"init", "recover"} /\ password = repo
        /\ pc["verb"] = "clear" /\ repo \in OwnerKeys
    BY <1>1 DEF Places, OwnersNow, TypeOK
  <1>3. PcOK' /\ pc'["verb"] = "exit" /\ pc'["serve"] = pc["serve"]
    BY <1>1, VerbMoves DEF Return, VerbLabels
  <1>4. TypeOK'
    <2>1. marker' \in BOOLEAN /\ needsSecret' \in BOOLEAN /\ result' \in Results
      BY <1>1 DEF ClearMarkers, Return, Results, TypeOK
    <2> QED
      BY <1>1, <1>3, <2>1 DEF TypeOK, PcOK
  <1> QED
    BY <1>1, <1>2, <1>3, <1>4
    DEF OneSide, Places, MintedNow, OwnersNow, Looking, Recovering, Choosing,
        Configured, Kept, Alone, Since, Strayed, KeySafe, PasswordOpens, TypeOK

(* A verb that is gone leaves the files. *)
LEMMA Leaves ==
    ASSUME TypeOK, Gone
    PROVE  /\ PcOK' /\ pc'["verb"] = "idle" /\ pc'["serve"] = pc["serve"]
           /\ key' \in [Actors -> Keys \cup {None}] /\ key'["serve"] = key["serve"]
           /\ opts' \in [Actors -> Idents \cup {None}]
           /\ job' = "none" /\ result' = "none"
  <1>1. GoTo("verb", "idle") /\ key' = [key EXCEPT !["verb"] = None]
        /\ opts' = [opts EXCEPT !["verb"] = None] /\ job' = "none" /\ result' = "none"
    BY DEF Gone
  <1>2. PcOK' /\ pc'["verb"] = "idle" /\ pc'["serve"] = pc["serve"]
    BY <1>1, VerbMoves DEF VerbLabels
  <1>3. key' \in [Actors -> Keys \cup {None}] /\ key'["serve"] = key["serve"]
    BY <1>1, Given, TwoActors
  <1>4. opts' \in [Actors -> Idents \cup {None}]
    BY <1>1, Named, TwoActors
  <1> QED
    BY <1>1, <1>2, <1>3, <1>4

LEMMA Exits == ASSUME Inv, Exit PROVE Inv'
  <1> USE ProvisionAssumption DEF Inv
  <1>1. Gone /\ UNCHANGED <<repo, onDisk, resident, strays, calm>>
    BY DEF Exit
  <1>2. /\ PcOK' /\ pc'["verb"] = "idle" /\ pc'["serve"] = pc["serve"]
        /\ key' \in [Actors -> Keys \cup {None}] /\ key'["serve"] = key["serve"]
        /\ opts' \in [Actors -> Idents \cup {None}]
        /\ job' = "none" /\ result' = "none"
    BY <1>1, Leaves
  <1>3. TypeOK'
    BY <1>1, <1>2 DEF TypeOK, PcOK, onDisk, Results
  <1> QED
    BY <1>1, <1>2, <1>3
    DEF OneSide, Places, MintedNow, OwnersNow, Looking, Recovering, Choosing,
        Configured, Kept, Alone, Since, Strayed, KeySafe, PasswordOpens, onDisk

(* A killed verb leaves a kopia with the key that it was right to call it   *)
(* with.                                                                   *)
LEMMA Kills == ASSUME Inv, KillVerb PROVE Inv'
  <1> USE ProvisionAssumption, TwoActors DEF Inv
  <1>1. Gone /\ UNCHANGED <<repo, onDisk, resident, late, calm>>
    BY DEF KillVerb
  <1>2. /\ PcOK' /\ pc'["verb"] = "idle" /\ pc'["serve"] = pc["serve"]
        /\ key' \in [Actors -> Keys \cup {None}] /\ key'["serve"] = key["serve"]
        /\ opts' \in [Actors -> Idents \cup {None}]
        /\ job' = "none" /\ result' = "none"
    BY <1>1, Leaves
  <1>3. \/ stray' = stray
        \/ pc["verb"] \in {"connect", "create"} /\ stray' = stray \cup {Call}
    BY DEF KillVerb
  <1>4. ASSUME pc["verb"] \in {"connect", "create"}
        PROVE  /\ Call \in Calls
               /\ Call.call = "create" => ~resident
               /\ Call.call = "create" /\ repo = None
                     => Call.key = password \/ (Call.key \in OwnerKeys /\ password = None)
               /\ Call.call = "connect" /\ Call.key = repo /\ ~marker
                     => password = repo \/ (~resident /\ password = None)
    <2>1. /\ Call.call = pc["verb"] /\ Call.ident = opts["verb"]
          /\ Call.key = IF job = "connect" THEN password ELSE key["verb"]
      BY DEF Call
    <2>2. job \in {"connect", "init", "recover"}
      BY <1>4 DEF TypeOK, Places
    <2>3. opts["verb"] \in Idents \cup {None}
      BY DEF TypeOK
    <2>4. CASE job = "connect"
      <3>1. password \in Keys /\ ~resident
        BY <1>4, <2>4 DEF TypeOK, Configured, OneSide
      <3>2. Call \in Calls
        BY <1>4, <2>3, <2>4, <3>1 DEF Call, Calls
      <3> QED
        BY <2>1, <2>4, <3>1, <3>2
    <2>5. CASE job = "init"
      <3>1. key["verb"] \in OwnerKeys /\ ~resident
        BY <2>5 DEF OwnersNow, OneSide
      <3>2. Call \in Calls
        BY <1>4, <2>3, <2>5, <3>1 DEF Call, Calls, Keys
      <3>3. repo = None => password = None
        BY <2>5 DEF Choosing
      <3>4. pc["verb"] = "create"
        BY <1>4, <2>5 DEF Places
      <3> QED
        BY <2>1, <2>5, <3>1, <3>2, <3>3, <3>4
    <2>6. CASE job = "recover"
      <3>1. key["verb"] \in OwnerKeys /\ pc["verb"] = "connect"
        BY <1>4, <2>6 DEF OwnersNow, Places
      <3>2. Call \in Calls
        BY <1>4, <2>3, <2>6, <3>1 DEF Call, Calls, Keys
      <3>3. ~marker => password = repo \/ (~resident /\ password = None)
        BY <2>6, <3>1 DEF Recovering, PasswordOpens, Kept
      <3> QED
        BY <2>1, <2>6, <3>1, <3>2, <3>3
    <2> QED
      BY <2>2, <2>4, <2>5, <2>6
  <1>5. stray' \subseteq Calls
    BY <1>3, <1>4 DEF TypeOK
  <1>6. Strayed'
    BY <1>1, <1>3, <1>4 DEF Strayed, onDisk
  <1>7. TypeOK'
    BY <1>1, <1>2, <1>5 DEF TypeOK, PcOK, onDisk, Results
  <1> QED
    BY <1>1, <1>2, <1>6, <1>7
    DEF OneSide, Places, MintedNow, OwnersNow, Looking, Recovering, Choosing,
        Configured, Kept, Alone, Since, KeySafe, PasswordOpens, onDisk

(* What it does then harms nobody. *)
LEMMA StraysGo == ASSUME Inv, NEW s \in stray, StrayGoes(s) PROVE Inv'
  <1> USE ProvisionAssumption, TwoActors DEF Inv
  <1>1. UNCHANGED <<password, marker, needsSecret, connect, adapter,
                    resident, pc, job, key, opts, result, calm>>
    BY DEF StrayGoes
  <1>2. /\ s \in Calls /\ s.key \in Keys /\ s.key # None /\ s.ident \in Idents \cup {None}
        /\ [s EXCEPT !.call = "connect"] \in Calls
        /\ [s EXCEPT !.call = "connect"].call = "connect"
        /\ [s EXCEPT !.call = "connect"].key = s.key
    BY DEF TypeOK, Calls, Keys
  <1>3. CASE /\ s.call = "create" /\ repo = None /\ repo' = s.key
             /\ stray' = (stray \ {s}) \cup {[s EXCEPT !.call = "connect"]}
             /\ UNCHANGED <<config, ident, late>>
    <2>1. ~resident /\ (s.key = password \/ (s.key \in OwnerKeys /\ password = None))
      BY <1>3 DEF Strayed
    <2>2. TypeOK'
      BY <1>1, <1>2, <1>3 DEF TypeOK
    <2>3. Strayed'
      BY <1>1, <1>2, <1>3, <2>1 DEF Strayed
    <2>4. config = "none"
      BY <1>3 DEF Configured
    <2>5. job \in {"init", "recover"} => pc["verb"] \notin {"blank", "promote", "clear"}
      BY <1>3 DEF OwnersNow
    <2> QED
      BY <1>1, <1>2, <1>3, <2>1, <2>2, <2>3, <2>4, <2>5
      DEF OneSide, Places, MintedNow, OwnersNow, Looking, Recovering, Choosing,
          Configured, Kept, Alone, Since, KeySafe, PasswordOpens
  <1>4. CASE /\ s.call = "connect" /\ repo = s.key
             /\ config' = "raw" /\ ident' = s.ident /\ late' = TRUE
             /\ stray' = stray \ {s} /\ UNCHANGED repo
    <2>1. ~marker => password = repo \/ (~resident /\ password = None)
      BY <1>4 DEF Strayed
    <2>2. TypeOK'
      BY <1>1, <1>2, <1>4 DEF TypeOK
    <2>3. Strayed'
      BY <1>1, <1>4 DEF Strayed
    <2> QED
      BY <1>1, <1>2, <1>4, <2>1, <2>2, <2>3
      DEF OneSide, Places, MintedNow, OwnersNow, Looking, Recovering, Choosing,
          Configured, Kept, Alone, Since, KeySafe, PasswordOpens
  <1>5. CASE stray' = stray \ {s} /\ UNCHANGED <<repo, config, ident, late>>
    BY <1>1, <1>5
    DEF TypeOK, OneSide, Places, MintedNow, OwnersNow, Looking, Recovering, Choosing,
        Configured, Kept, Alone, Since, Strayed, KeySafe, PasswordOpens
  <1> QED
    BY <1>3, <1>4, <1>5 DEF StrayGoes

LEMMA Marks == ASSUME Inv, HostMarks PROVE Inv'
  <1> USE ProvisionAssumption DEF Inv
  <1>1. /\ Gone /\ job \in {"connect", "probe"}
        /\ marker' = (result # "empty") /\ needsSecret' = (result = "empty")
        /\ UNCHANGED <<repo, config, ident, password, connect, adapter, resident, strays, calm>>
    BY DEF HostMarks, Marked
  <1>2. /\ PcOK' /\ pc'["verb"] = "idle" /\ pc'["serve"] = pc["serve"]
        /\ key' \in [Actors -> Keys \cup {None}] /\ key'["serve"] = key["serve"]
        /\ opts' \in [Actors -> Idents \cup {None}]
        /\ job' = "none" /\ result' = "none"
    BY <1>1, Leaves
  <1>3. TypeOK'
    <2>1. marker' \in BOOLEAN /\ needsSecret' \in BOOLEAN
      BY <1>1
    <2> QED
      BY <1>1, <1>2, <2>1 DEF TypeOK, PcOK, Results
  <1>4. ~resident /\ ~marker
    BY <1>1 DEF OneSide, Places
  <1>5. CASE result = "empty"
    <2>1. needsSecret' /\ ~marker' /\ job = "probe"
      BY <1>1, <1>5 DEF Places
    <2> QED
      BY <1>1, <1>2, <1>3, <1>4, <2>1
      DEF OneSide, Places, MintedNow, OwnersNow, Looking, Recovering, Choosing,
          Configured, Kept, Alone, Since, Strayed, KeySafe, PasswordOpens
  <1>6. CASE result # "empty"
    <2>1. ~needsSecret' /\ marker'
      BY <1>1, <1>6
    <2> QED
      BY <1>1, <1>2, <1>3, <1>4, <2>1
      DEF OneSide, Places, MintedNow, OwnersNow, Looking, Recovering, Choosing,
          Configured, Kept, Alone, Since, Strayed, KeySafe, PasswordOpens
  <1> QED
    BY <1>5, <1>6

LEMMA Types ==
    ASSUME Inv, NEW v \in {"init", "recover"}, NEW k \in OwnerKeys, Type(v, k)
    PROVE  Inv'
  <1> USE ProvisionAssumption DEF Inv
  <1>1. /\ pc["verb"] = "idle" /\ GoTo("verb", "check")
        /\ v = "init" => needsSecret
        /\ v = "recover" => marker \/ config # "none"
        /\ job' = v /\ key' = [key EXCEPT !["verb"] = k]
        /\ UNCHANGED <<repo, onDisk, resident, strays, opts, result, calm>>
    BY DEF Type, At, Continue
  <1>2. PcOK' /\ pc'["verb"] = "check" /\ pc'["serve"] = pc["serve"]
    BY <1>1, VerbMoves DEF VerbLabels
  <1>3. /\ key' \in [Actors -> Keys \cup {None}] /\ key'["verb"] = k
        /\ key'["serve"] = key["serve"]
    BY <1>1, Given, TwoActors DEF Keys
  <1>4. TypeOK'
    BY <1>1, <1>2, <1>3 DEF TypeOK, PcOK, onDisk
  <1>5. v = "init" => ~resident
    BY <1>1 DEF OneSide
  <1> QED
    BY <1>1, <1>2, <1>3, <1>4, <1>5
    DEF OneSide, Places, MintedNow, OwnersNow, Looking, Recovering, Choosing,
        Configured, Kept, Alone, Since, Strayed, KeySafe, PasswordOpens, onDisk

LEMMA HostStarts == ASSUME Inv, HostRuns PROVE Inv'
  <1> USE ProvisionAssumption DEF Inv
  <1>1. /\ ~resident /\ ~marker /\ config = "none" /\ pc["verb"] = "idle"
        /\ UNCHANGED <<repo, onDisk, resident, strays, key, result, calm>>
    BY DEF HostRuns, At, Continue
  <1>2. /\ GoTo("verb", "check")
        /\ job' = "connect" \/ (job' = "probe" /\ password = None)
    BY DEF HostRuns, Continue
  <1>3. opts' \in [Actors -> Idents \cup {None}]
    <2>1. CASE opts' = [opts EXCEPT !["verb"] = connect]
      BY <2>1, Named, TwoActors DEF TypeOK
    <2>2. CASE UNCHANGED opts
      BY <2>2 DEF TypeOK
    <2> QED
      BY <2>1, <2>2 DEF HostRuns
  <1>4. PcOK' /\ pc'["verb"] = "check" /\ pc'["serve"] = pc["serve"]
    BY <1>2, VerbMoves DEF VerbLabels
  <1>5. TypeOK'
    BY <1>1, <1>2, <1>3, <1>4 DEF TypeOK, PcOK, onDisk
  <1> QED
    BY <1>1, <1>2, <1>4, <1>5
    DEF OneSide, Places, MintedNow, OwnersNow, Looking, Recovering, Choosing,
        Configured, Kept, Alone, Since, Strayed, KeySafe, PasswordOpens, onDisk

LEMMA Restarts == ASSUME Inv, RestartServe PROVE Inv'
  <1> USE ProvisionAssumption DEF Inv
  <1>1. /\ resident /\ GoTo("serve", "marker")
        /\ key' = [key EXCEPT !["serve"] = None]
        /\ opts' = [opts EXCEPT !["serve"] = None]
        /\ UNCHANGED <<repo, onDisk, resident, strays, job, result, calm>>
    BY DEF RestartServe
  <1>2. PcOK' /\ pc'["serve"] = "marker" /\ pc'["verb"] = pc["verb"]
    BY <1>1, ServeMoves DEF ServeLabels
  <1>3. /\ key' \in [Actors -> Keys \cup {None}] /\ key'["serve"] = None
        /\ key'["verb"] = key["verb"] /\ opts' \in [Actors -> Idents \cup {None}]
    BY <1>1, Given, Named, TwoActors
  <1>4. TypeOK'
    BY <1>1, <1>2, <1>3 DEF TypeOK, PcOK, onDisk
  <1> QED
    BY <1>1, <1>2, <1>3, <1>4
    DEF OneSide, Places, MintedNow, OwnersNow, Looking, Recovering, Choosing,
        Configured, Kept, Alone, Since, Strayed, KeySafe, PasswordOpens, onDisk

(* What else happens touches neither a key nor a configuration. *)
LEMMA Others == ASSUME Inv, DropConnect \/ CalmDown \/ UNCHANGED vars PROVE Inv'
  <1> USE DEF Inv
  <1>1. /\ connect' \in Idents \cup {None} /\ calm' \in BOOLEAN
        /\ UNCHANGED <<repo, config, ident, password, marker, needsSecret, adapter,
                       resident, strays, pc, job, key, opts, result>>
    BY DEF DropConnect, CalmDown, vars, onDisk, TypeOK
  <1> QED
    BY <1>1
    DEF TypeOK, OneSide, Places, MintedNow, OwnersNow, Looking, Recovering, Choosing,
        Configured, Kept, Alone, Since, Strayed, KeySafe, PasswordOpens

-----------------------------------------------------------------------------

LEMMA NextInv == ASSUME Inv, [Next]_vars PROVE Inv'
  <1>1. CASE Bootstrap
    BY <1>1, Looks, Mints, ServeChecks, ServeConnects, ServeCreates, ServeBlanks, GivesUp DEF Bootstrap
  <1>2. CASE Hosted
    BY <1>2, HostChecks, HostConnects, HostCreates, HostBlanks, Probes DEF Hosted
  <1>3. CASE Typed
    BY <1>3, Checks, RecoverConnects, InitCreates, TypedBlanks, Promotes, Undoes,
       Clears, Exits DEF Typed
  <1>4. CASE \E v \in {"init", "recover"}, k \in OwnerKeys : Type(v, k)
    BY <1>4, Types
  <1>5. CASE HostRuns \/ HostMarks \/ KillVerb \/ RestartServe
    BY <1>5, HostStarts, Marks, Kills, Restarts
  <1>6. CASE DropConnect \/ CalmDown \/ UNCHANGED vars
    BY <1>6, Others
  <1>7. CASE \E s \in stray : StrayGoes(s)
    BY <1>7, StraysGo
  <1> QED
    BY <1>1, <1>2, <1>3, <1>4, <1>5, <1>6, <1>7 DEF Next

LEMMA Invariance == Spec => []Inv
  BY InitInv, NextInv, PTL DEF Spec

(* Every variable keeps its type, the place of serve and of the verb in    *)
(* their code among them.                                                  *)
THEOREM TypeCorrect == Spec => []TypeOK
  <1>1. Inv => TypeOK
    BY DEF Inv
  <1> QED
    BY <1>1, Invariance, PTL

(* The key of the repository is on the box or with its owner at every      *)
(* moment, whoever minted it and wherever serve, a verb or the host side   *)
(* was killed.                                                             *)
THEOREM KeyAlwaysSafe == Spec => []KeySafe
  <1>1. Inv => KeySafe
    BY DEF Inv
  <1> QED
    BY <1>1, Invariance, PTL

(* A configured box that does not wait for recovery has no password beside *)
(* its configuration that does not open the repository, at every moment of *)
(* serve's looks, of connect, init and recover, and of their failures.     *)
THEOREM PasswordAlwaysOpens == Spec => []PasswordOpens
  <1>1. Inv => PasswordOpens
    BY DEF Inv
  <1> QED
    BY <1>1, Invariance, PTL

(* The identity of a configuration that can be read changes only on a box  *)
(* that waits for recovery: connect and init leave a configuration alone,  *)
(* recover replaces one that is marked, and a restart or an edited         *)
(* connect.json changes none.  What can change it is the kopia of a killed *)
(* verb, which connects late or is connected over.                         *)
THEOREM LineageWrittenOnce == Spec => LineageOnce
  <1> DEFINE Once == (Readable /\ Readable' /\ ident' # ident) => marker \/ late'
  <1>1. ASSUME Inv, [Next]_vars PROVE Once
    <2> USE DEF Inv
    <2>1. SUFFICES ASSUME Readable, ident' # ident PROVE marker \/ late'
      OBVIOUS
    <2>2. config \in {"raw", "blanked"}
      BY <2>1 DEF Readable
    <2>3. \/ ConnectRepo("serve") \/ ConnectRepo("verb")
          \/ CreateRepo("serve") \/ CreateRepo("verb")
          \/ RecoverConnect \/ InitCreate
          \/ \E s \in stray : StrayGoes(s)
      BY <1>1, <2>1 DEF Next, Bootstrap, Hosted, Typed, vars, onDisk,
         Tick, LookMarker, LookConfig, LookFiles, Mint, BlankConnected, Unmint,
         WriteMarker, WriteAdapter, Probe, Check, BlankTyped, Promote, UndoConnect,
         ClearMarkers, Exit, Type, DropConnect, HostRuns, HostMarks, KillVerb,
         RestartServe, CalmDown, CheckConfig
    <2>4. CASE ConnectRepo("serve") \/ ConnectRepo("verb")
      <3>1. late /\ late' = late
        BY <1>1, <2>2, <2>4 DEF ConnectRepo, Connecting, Serve, Verb, At, Since
      <3> QED
        BY <3>1
    <2>5. repo # None
      BY <1>1, <2>2 DEF Configured
    <2>6. CASE CreateRepo("serve") \/ CreateRepo("verb") \/ InitCreate
      BY <2>1, <2>5, <2>6 DEF CreateRepo, InitCreate, KopiaCreate
    <2>7. CASE RecoverConnect
      BY <1>1, <2>2, <2>7 DEF RecoverConnect, Verb, At, Since
    <2>8. CASE \E s \in stray : StrayGoes(s)
      BY <2>1, <2>8 DEF StrayGoes
    <2> QED
      BY <2>3, <2>4, <2>6, <2>7, <2>8
  <1>2. Spec => [][Once]_vars
    BY <1>1, Invariance, PTL DEF Spec
  <1> QED
    BY <1>2 DEF LineageOnce
=============================================================================
