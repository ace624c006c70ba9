-------------------------- MODULE ProvisionAnswers --------------------------
(***************************************************************************)
(* What the answers of init, recover, connect, probe and of serve's looks  *)
(* are worth, for any number of keys and identities: what exit code 0 of a *)
(* typed key means, and that nothing but a failure keeps the owner's right *)
(* key from being taken, a look from its end, and a host side from an      *)
(* answer it can act on.  The last three are what is left of Provisioned   *)
(* and RecoverEnds without fairness.                                       *)
(***************************************************************************)
EXTENDS ProvisionProofs

(* init or recover is at a place of its code. *)
Typing(label) == job \in {"init", "recover"} /\ At("verb", label)

(* What kopia connected, nobody disconnects but the verb itself.           *)
Installed ==
    /\ \A label \in {"blank", "promote", "clear"} : Typing(label) => config # "none"
    /\ OkMeansOpened

(* A look that checks has a password, and one that connected has a          *)
(* configuration it can read.                                              *)
LookHas ==
    /\ Serve("check") => password # None
    /\ Serve("blank") => Readable

(* A host side connects with a password, and not where it could not read.  *)
HostHas ==
    /\ Verb("connect", "check") => config # "torn" /\ password # None
    /\ Verb("connect", "blank") => config # "none"

Answers == Installed /\ LookHas /\ HostHas

-----------------------------------------------------------------------------
(* The invariant.                                                          *)

LEMMA AnswersFirst == Init => Answers
  <1> SUFFICES ASSUME Init PROVE Answers
    OBVIOUS
  <1>1. pc["verb"] = "idle" /\ job = "none"
    BY TwoActors DEF Init
  <1>2. ~Serve("check") /\ ~Serve("blank")
    BY TwoActors DEF Init, Serve, At
  <1> QED
    BY <1>1, <1>2 DEF Answers, Installed, OkMeansOpened, LookHas, HostHas, Typing, Verb, At

(* What is made of the check, and of what kopia says at a connect. *)
LEMMA CheckGoes ==
    ASSUME NEW a, CheckConfig(a)
    PROVE  \/ config # "none" /\ Answer(a, IF Readable THEN "ok" ELSE "error")
           \/ config = "none" /\ password # None /\ Onward(a, "connect")
           \/ password = None /\ Answer(a, "notConfigured")
           \/ Fails /\ Answer(a, "error")
  BY DEF CheckConfig

LEMMA ConnectGoes ==
    ASSUME NEW a, ConnectRepo(a)
    PROVE  \/ KopiaConnect(password, opts[a], "ok") /\ Onward(a, "blank")
           \/ \E out \in {"wrongPassword", "cancelled"} :
                 KopiaConnect(password, opts[a], out) /\ Answer(a, out)
           \/ /\ \E out \in {"notInitialized", "failed"} :
                    KopiaConnect(password, opts[a], out)
              /\ Onward(a, "create")
  <1>1. PICK out \in {"ok", "wrongPassword", "notInitialized", "failed", "cancelled"} :
           /\ KopiaConnect(password, opts[a], out)
           /\ CASE out = "ok" -> Onward(a, "blank")
                [] out \in {"wrongPassword", "cancelled"} -> Answer(a, out)
                [] OTHER -> Onward(a, "create")
    BY DEF ConnectRepo
  <1>2. CASE out = "ok"
    BY <1>1, <1>2
  <1>3. CASE out \in {"wrongPassword", "cancelled"}
    BY <1>1, <1>3
  <1>4. CASE out \in {"notInitialized", "failed"}
    <2>1. Onward(a, "create")
      BY <1>1, <1>4
    <2> QED
      BY <1>1, <1>4, <2>1
  <1> QED
    BY <1>2, <1>3, <1>4

LEMMA CreateGoes ==
    ASSUME NEW a, CreateRepo(a)
    PROVE  \/ KopiaCreate(password, opts[a], "ok") /\ Onward(a, "blank")
           \/ \E out \in {"exists", "cancelled"} :
                 KopiaCreate(password, opts[a], out) /\ Answer(a, out)
           \/ KopiaCreate(password, opts[a], "failed") /\ Answer(a, "error")
  <1>1. PICK out \in {"ok", "exists", "failed", "cancelled"} :
           /\ KopiaCreate(password, opts[a], out)
           /\ IF out = "ok" THEN Onward(a, "blank")
              ELSE Answer(a, IF out = "failed" THEN "error" ELSE out)
    BY DEF CreateRepo
  <1>2. CASE out = "ok"
    BY <1>1, <1>2
  <1>3. CASE out \in {"exists", "cancelled"}
    <2>1. Answer(a, out)
      BY <1>1, <1>3
    <2> QED
      BY <1>1, <1>3, <2>1
  <1>4. CASE out = "failed"
    BY <1>1, <1>4
  <1> QED
    BY <1>2, <1>3, <1>4

(* A look leaves the verb alone, and what opens the repository in place. *)
LEMMA LookLeaves ==
    ASSUME Inv, Bootstrap \/ RestartServe
    PROVE  /\ resident /\ resident' /\ UNCHANGED <<job, result>>
           /\ pc'["verb"] = pc["verb"]
           /\ config # "none" => config' # "none"
           /\ config # "none" /\ password = repo => UNCHANGED <<password, repo>>
  <1> USE TwoActors DEF Inv
  <1>1. CASE Tick \/ LookMarker \/ LookConfig \/ LookFiles \/ WriteMarker \/ WriteAdapter
              \/ RestartServe
    BY <1>1 DEF Tick, LookMarker, LookConfig, LookFiles, WriteMarker, WriteAdapter,
       RestartServe, Serve, GoTo, onDisk, TypeOK
  <1>2. CASE Mint
    <2>1. config # "none" => repo # None
      BY DEF Configured
    <2> QED
      BY <1>2, <2>1 DEF Mint, Serve, GoTo, TypeOK
  <1>3. CASE CheckConfig("serve") \/ ConnectRepo("serve")
    <2>1. config # "none" => config' # "none"
      BY <1>3 DEF CheckConfig, ConnectRepo, KopiaConnect, onDisk
    <2> QED
      BY <1>3, <2>1 DEF CheckConfig, ConnectRepo, Connecting, Serve, GoTo, Answer, Onward,
         TypeOK, onDisk
  <1>4. CASE CreateRepo("serve")
    <2>1. config # "none" => config' # "none" /\ repo' = repo
      BY <1>4 DEF CreateRepo, KopiaCreate, Configured
    <2> QED
      BY <1>4, <2>1 DEF CreateRepo, Connecting, Serve, GoTo, Answer, Onward, TypeOK
  <1>5. CASE BlankConnected("serve")
    <2>1. PICK ok \in BOOLEAN : Blank(ok) /\ Answer("serve", IF ok THEN "ok" ELSE "error")
      BY <1>5 DEF BlankConnected
    <2>2. config # "none" => config' # "none"
      BY <2>1, Blanks
    <2> QED
      BY <1>5, <2>1, <2>2
      DEF BlankConnected, Connecting, Serve, GoTo, Answer, TypeOK
  <1>6. CASE Unmint
    <2>1. password = repo => UNCHANGED password
      BY <1>6, ProvisionAssumption DEF Unmint, Serve, At, MintedNow
    <2> QED
      BY <1>6, <2>1 DEF Unmint, Serve, GoTo, TypeOK
  <1> QED
    BY <1>1, <1>2, <1>3, <1>4, <1>5, <1>6 DEF Bootstrap

(* A look that comes to its connect has a password, and one that connects  *)
(* has the box to itself.                                                  *)
LEMMA LooksKeep ==
    ASSUME Inv, Answers, Bootstrap \/ RestartServe
    PROVE  Answers'
  <1> USE TwoActors, ProvisionAssumption DEF Inv, Answers
  <1>1. /\ resident /\ resident' /\ UNCHANGED <<job, result>>
        /\ pc'["verb"] = pc["verb"]
        /\ config # "none" => config' # "none"
        /\ config # "none" /\ password = repo => UNCHANGED <<password, repo>>
    BY LookLeaves
  <1>2. Installed'
    BY <1>1 DEF Installed, OkMeansOpened, Typing, Verb, At
  <1>3. HostHas'
    BY <1>1 DEF OneSide, HostHas, Verb
  <1>4. LookHas'
    <2>1. CASE Mint
      <3>1. pc'["serve"] \in {"check", "wait"} /\ (pc'["serve"] = "check" => password' # None)
        BY <2>1 DEF Mint, GoTo, TypeOK, Keys
      <3> QED
        BY <3>1 DEF LookHas, Serve, At
    <2>2. CASE ConnectRepo("serve")
      <3>1. /\ pc'["serve"] # "check"
            /\ pc'["serve"] = "blank" => config' = "raw"
        <4>1. CASE \E r : Answer("serve", r)
          BY <4>1, ServeAnswered, ServeMoves DEF ServeLabels
        <4>2. CASE Onward("serve", "create")
          BY <4>2, ServeMoves DEF Onward, ServeLabels
        <4>3. CASE Onward("serve", "blank") /\ KopiaConnect(password, opts["serve"], "ok")
          BY <4>3, ServeMoves DEF Onward, ServeLabels, KopiaConnect
        <4> QED
          BY <2>2, <4>1, <4>2, <4>3, ConnectGoes
      <3> QED
        BY <3>1 DEF LookHas, Serve, At, Readable
    <2>3. CASE CreateRepo("serve")
      <3>1. /\ pc'["serve"] # "check"
            /\ pc'["serve"] = "blank" => config' = "raw"
        <4>1. CASE \E r : Answer("serve", r)
          BY <4>1, ServeAnswered, ServeMoves DEF ServeLabels
        <4>2. CASE Onward("serve", "blank") /\ KopiaCreate(password, opts["serve"], "ok")
          BY <4>2, ServeMoves DEF Onward, ServeLabels, KopiaCreate
        <4> QED
          BY <2>3, <4>1, <4>2, CreateGoes
      <3> QED
        BY <3>1 DEF LookHas, Serve, At, Readable
    <2>4. CASE BlankConnected("serve")
      <3>1. pc'["serve"] \notin {"check", "blank"}
        BY <2>4, ServeAnswered, ServeMoves DEF BlankConnected, ServeLabels
      <3> QED
        BY <3>1 DEF LookHas, Serve, At
    <2>5. CASE \/ Tick \/ LookMarker \/ LookConfig \/ LookFiles
               \/ Unmint \/ WriteMarker \/ WriteAdapter \/ RestartServe
      <3>1. pc'["serve"] \notin {"check", "blank"}
        BY <2>5 DEF Tick, LookMarker, LookConfig, LookFiles, Unmint, WriteMarker,
           WriteAdapter, RestartServe, GoTo, TypeOK
      <3> QED
        BY <3>1 DEF LookHas, Serve, At
    <2>6. CASE CheckConfig("serve")
      <3>1. pc'["serve"] \notin {"check", "blank"}
        <4>1. CASE \E r : Answer("serve", r)
          BY <4>1, ServeAnswered, ServeMoves DEF ServeLabels
        <4>2. CASE Onward("serve", "connect")
          BY <4>2, ServeMoves DEF Onward, ServeLabels
        <4> QED
          BY <2>6, <4>1, <4>2, CheckGoes
      <3> QED
        BY <3>1 DEF LookHas, Serve, At
    <2> QED
      BY <2>1, <2>2, <2>3, <2>4, <2>5, <2>6 DEF Bootstrap
  <1> QED
    BY <1>2, <1>3, <1>4

(* connect and probe, on a box without a serve. *)
LEMMA HostKeeps == ASSUME Inv, Answers, Hosted PROVE Answers'
  <1> USE TwoActors DEF Inv, Answers
  <1>1. job \in {"connect", "probe"} /\ UNCHANGED <<job, resident>> /\ ~resident
    BY DEF Hosted, CheckConfig, ConnectRepo, CreateRepo, BlankConnected, Probe, Connecting,
       Verb, OneSide
  <1>2. Installed' /\ LookHas'
    BY <1>1 DEF Installed, OkMeansOpened, LookHas, Typing, Verb, Serve
  <1>3. HostHas'
    <2>1. CASE ConnectRepo("verb")
      <3>1. CASE \E r : Answer("verb", r)
        BY <3>1 DEF Answer, Return, GoTo, HostHas, Verb, At, TypeOK
      <3>2. CASE Onward("verb", "create")
        BY <3>2 DEF Onward, GoTo, HostHas, Verb, At, TypeOK
      <3>3. CASE Onward("verb", "blank") /\ KopiaConnect(password, opts["verb"], "ok")
        BY <3>3 DEF Onward, GoTo, HostHas, Verb, At, TypeOK, KopiaConnect
      <3> QED
        BY <2>1, <3>1, <3>2, <3>3, ConnectGoes
    <2>2. CASE CreateRepo("verb")
      <3>1. CASE \E r : Answer("verb", r)
        BY <3>1 DEF Answer, Return, GoTo, HostHas, Verb, At, TypeOK
      <3>2. CASE Onward("verb", "blank") /\ KopiaCreate(password, opts["verb"], "ok")
        BY <3>2 DEF Onward, GoTo, HostHas, Verb, At, TypeOK, KopiaCreate
      <3> QED
        BY <2>2, <3>1, <3>2, CreateGoes
    <2>3. CASE BlankConnected("verb")
      BY <2>3 DEF BlankConnected, Answer, Return, GoTo, HostHas, Verb, At, TypeOK
    <2>4. CASE Probe
      BY <2>4 DEF Probe, Return, GoTo, HostHas, Verb, At, TypeOK
    <2>5. CASE CheckConfig("verb")
      <3>1. CASE \E r : Answer("verb", r)
        BY <3>1 DEF Answer, Return, GoTo, HostHas, Verb, At, TypeOK
      <3>2. CASE Onward("verb", "connect")
        BY <3>2 DEF Onward, GoTo, HostHas, Verb, At, TypeOK
      <3> QED
        BY <2>5, <3>1, <3>2, CheckGoes
    <2> QED
      BY <2>1, <2>2, <2>3, <2>4, <2>5 DEF Hosted
  <1> QED
    BY <1>2, <1>3

(* A verb with a typed key that is past its check is alone with what a     *)
(* connect needs: no look has connected.                                   *)
LEMMA AloneAtWork ==
    ASSUME Inv, Serve("blank"), job \in {"init", "recover"}
    PROVE  job = "recover" /\ pc["verb"] \in {"check", "exit"}
  BY DEF Inv, Alone, OneSide, Serve, At

LEMMA TypedKeeps == ASSUME Inv, Answers, Typed \/ KillVerb PROVE Answers'
  <1> USE TwoActors, ProvisionAssumption DEF Inv, Answers
  <1>1. CASE Exit \/ KillVerb
    <2>1. /\ job' = "none" /\ UNCHANGED <<onDisk, resident>>
          /\ pc'["serve"] = pc["serve"]
      BY <1>1, Leaves DEF Exit, KillVerb, Gone
    <2> QED
      BY <2>1 DEF Installed, OkMeansOpened, LookHas, HostHas, Typing, Verb, Serve, At,
         Readable, onDisk
  <1>2. CASE Check
    <2>1. /\ pc["verb"] = "check" /\ job \in {"init", "recover"}
          /\ UNCHANGED <<onDisk, resident, job>> /\ pc'["serve"] = pc["serve"]
          /\ \/ pc'["verb"] = "exit" /\ result' # "ok"
             \/ pc'["verb"] = "create" /\ job = "init" /\ ~Refused
             \/ pc'["verb"] = "connect" /\ job = "recover" /\ ~Refused
      BY <1>2 DEF Check, Return, Continue, At, GoTo, TypeOK
    <2>2. LookHas'
      BY <2>1 DEF LookHas, Serve, At, Readable, onDisk
    <2> QED
      BY <2>1, <2>2 DEF Installed, OkMeansOpened, HostHas, Typing, Verb, At
  <1>3. CASE RecoverConnect
    <2>1. /\ pc["verb"] = "connect" /\ job = "recover"
          /\ UNCHANGED <<password, marker, resident, job>> /\ pc'["serve"] = pc["serve"]
          /\ \/ pc'["verb"] = "exit" /\ result' # "ok"
             \/ pc'["verb"] = "blank" /\ config' = "raw"
      BY <1>3 DEF RecoverConnect, KopiaConnect, Return, Continue, Verb, At, GoTo, TypeOK
    <2>2. ~Serve("blank")
      BY <2>1, AloneAtWork
    <2> QED
      BY <2>1, <2>2 DEF Installed, OkMeansOpened, LookHas, HostHas, Typing, Serve, Verb, At
  <1>4. CASE InitCreate
    <2>1. /\ pc["verb"] = "create" /\ job = "init"
          /\ UNCHANGED <<password, marker, resident, job>> /\ pc'["serve"] = pc["serve"]
          /\ \/ pc'["verb"] = "exit" /\ result' # "ok"
             \/ pc'["verb"] = "blank" /\ config' = "raw"
      BY <1>4 DEF InitCreate, KopiaCreate, Return, Continue, Verb, At, GoTo, TypeOK
    <2>2. ~resident'
      BY <2>1 DEF OneSide
    <2> QED
      BY <2>1, <2>2 DEF Installed, OkMeansOpened, LookHas, HostHas, Typing, Serve, Verb, At
  <1>5. CASE BlankTyped
    <2>1. /\ pc["verb"] = "blank" /\ job \in {"init", "recover"}
          /\ UNCHANGED <<password, marker, resident, job>> /\ pc'["serve"] = pc["serve"]
          /\ pc'["verb"] \in {"promote", "undo"} /\ config' # "none"
      <3>1. config # "none"
        BY <1>5 DEF BlankTyped, Installed, Typing
      <3>2. PICK ok \in BOOLEAN : Blank(ok) /\ Continue(IF ok THEN "promote" ELSE "undo")
        BY <1>5 DEF BlankTyped
      <3>3. config' # "none"
        BY <3>1, <3>2, Blanks
      <3> QED
        BY <1>5, <3>2, <3>3 DEF BlankTyped, Continue, At, GoTo, TypeOK
    <2>2. ~Serve("blank")
      BY <2>1, AloneAtWork
    <2> QED
      BY <2>1, <2>2 DEF Installed, OkMeansOpened, LookHas, HostHas, Typing, Serve, Verb, At
  <1>6. CASE Promote
    <2>1. /\ pc["verb"] = "promote" /\ UNCHANGED <<config, marker, resident, job>>
          /\ pc'["serve"] = pc["serve"] /\ pc'["verb"] \in {"clear", "undo"}
          /\ password' \in {password, key["verb"]}
      BY <1>6 DEF Promote, Continue, At, GoTo, TypeOK
    <2>2. job \in {"init", "recover"} /\ key["verb"] # None /\ config # "none"
      BY <2>1 DEF Places, TypeOK, OwnersNow, Installed, Typing, At
    <2>3. ~Serve("blank")
      BY <2>1, <2>2, AloneAtWork
    <2> QED
      BY <2>1, <2>2, <2>3
      DEF Installed, OkMeansOpened, LookHas, HostHas, Typing, Serve, Verb, At
  <1>7. CASE UndoConnect
    <2>1. /\ pc["verb"] = "undo" /\ UNCHANGED <<password, marker, resident, job>>
          /\ pc'["serve"] = pc["serve"] /\ pc'["verb"] = "exit" /\ result' # "ok"
      BY <1>7 DEF UndoConnect, Return, At, GoTo, TypeOK
    <2>2. job \in {"init", "recover"}
      BY <2>1 DEF Places, TypeOK
    <2>3. ~Serve("blank")
      BY <2>1, <2>2, AloneAtWork
    <2> QED
      BY <2>1, <2>2, <2>3
      DEF Installed, OkMeansOpened, LookHas, HostHas, Typing, Serve, Verb, At
  <1>8. CASE ClearMarkers
    <2>1. /\ pc["verb"] = "clear" /\ UNCHANGED <<repo, config, password, resident, job>>
          /\ pc'["serve"] = pc["serve"] /\ pc'["verb"] = "exit"
      BY <1>8 DEF ClearMarkers, Return, At, GoTo, TypeOK
    <2>2. job \in {"init", "recover"} /\ password = repo /\ config # "none"
      BY <2>1 DEF Places, TypeOK, OwnersNow, Installed, Typing, At
    <2>3. ~Serve("blank")
      BY <2>1, <2>2, AloneAtWork
    <2> QED
      BY <2>1, <2>2, <2>3
      DEF Installed, OkMeansOpened, LookHas, HostHas, Typing, Serve, Verb, At
  <1> QED
    BY <1>1, <1>2, <1>3, <1>4, <1>5, <1>6, <1>7, <1>8 DEF Typed

LEMMA StartsKeep ==
    ASSUME Inv, Answers,
           \/ \E v \in {"init", "recover"}, k \in OwnerKeys : Type(v, k)
           \/ HostRuns
    PROVE  Answers'
  <1> USE TwoActors DEF Inv, Answers
  <1>1. /\ pc["verb"] = "idle" /\ UNCHANGED <<onDisk, resident>>
        /\ pc'["serve"] = pc["serve"] /\ pc'["verb"] = "check"
        /\ job' = "connect" => config = "none" /\ password # None
        /\ job' \in {"connect", "probe"} => ~resident
    BY DEF Type, HostRuns, Continue, GoTo, At, TypeOK
  <1> QED
    BY <1>1 DEF Installed, OkMeansOpened, LookHas, HostHas, Typing, Verb, Serve, At,
       Readable, onDisk

LEMMA MarksKeep == ASSUME Inv, Answers, HostMarks PROVE Answers'
  <1> USE TwoActors DEF Inv, Answers
  <1>1. job' = "none" /\ UNCHANGED resident /\ ~resident
    BY DEF HostMarks, Marked, Gone, OneSide
  <1> QED
    BY <1>1 DEF Installed, OkMeansOpened, LookHas, HostHas, Typing, Verb, Serve

(* The kopia of a killed verb writes a configuration, and takes none away; *)
(* and a repository it makes is not one that somebody waits for.           *)
LEMMA StrayKeeps == ASSUME Inv, Answers, NEW s \in stray, StrayGoes(s) PROVE Answers'
  <1> USE DEF Inv, Answers
  <1>1. /\ UNCHANGED <<password, marker, resident, pc, job, result>>
        /\ config' = config \/ config' = "raw"
    BY DEF StrayGoes
  <1>2. repo' # repo => config = "none" /\ config' = "none"
    BY DEF StrayGoes, Configured
  <1> QED
    BY <1>1, <1>2
    DEF Installed, OkMeansOpened, LookHas, HostHas, Typing, Verb, Serve, At, Readable

LEMMA AnswersKept == ASSUME Inv, Answers, [Next]_vars PROVE Answers'
  <1>1. CASE DropConnect \/ CalmDown \/ UNCHANGED vars
    <2>1. UNCHANGED <<repo, config, password, marker, resident, pc, job, result>>
      BY <1>1 DEF DropConnect, CalmDown, vars, onDisk
    <2> QED
      BY <2>1 DEF Answers, Installed, OkMeansOpened, LookHas, HostHas, Typing, Verb,
         Serve, At, Readable
  <1>2. CASE \E s \in stray : StrayGoes(s)
    BY <1>2, StrayKeeps
  <1> QED
    BY <1>1, <1>2, LooksKeep, HostKeeps, TypedKeeps, StartsKeep, MarksKeep DEF Next

LEMMA AnswersAlways == Spec => [](Inv /\ Answers)
  <1>1. Init => Inv /\ Answers
    BY InitInv, AnswersFirst
  <1>2. Inv /\ Answers /\ [Next]_vars => (Inv /\ Answers)'
    BY NextInv, AnswersKept
  <1> QED
    BY <1>1, <1>2, PTL DEF Spec

-----------------------------------------------------------------------------

(* Whatever fails around it, a typed key that was answered with 0 is the   *)
(* one in repository.password, and the box has a configuration.            *)
THEOREM OkAlwaysOpened == Spec => []OkMeansOpened
  <1>1. Inv /\ Answers => OkMeansOpened
    BY DEF Answers, Installed
  <1> QED
    BY <1>1, AnswersAlways, PTL

-----------------------------------------------------------------------------
(* When nothing fails any more.                                            *)

(* The right key, typed on a box that waits for it and knows its storage:  *)
(* recover is refused nowhere and undone nowhere, and ends with 0 and the  *)
(* marker gone, whatever earlier attempts and serve left on the disk.      *)
RightKeyTaken ==
    [][(/\ calm /\ marker /\ connect # None
        /\ job = "recover" /\ key["verb"] = repo
        /\ pc["verb"] \notin {"undo", "exit"})
       => /\ pc'["verb"] # "undo"
          /\ pc'["verb"] = "exit" => result' = "ok" /\ ~marker']_vars

(* Whatever earlier attempts, looks and crashes left: the way out of       *)
(* needs-recovery is open to the owner's key, for any keys and identities. *)
THEOREM RightKeyAlwaysTaken == Spec => RightKeyTaken
  <1> DEFINE Taken ==
        (/\ calm /\ marker /\ connect # None
         /\ job = "recover" /\ key["verb"] = repo
         /\ pc["verb"] \notin {"undo", "exit"})
        => /\ pc'["verb"] # "undo"
           /\ pc'["verb"] = "exit" => result' = "ok" /\ ~marker'
  <1>1. ASSUME Inv, Answers, [Next]_vars PROVE Taken
    <2> USE <1>1, TwoActors, ProvisionAssumption DEF Inv, Answers
    <2>1. SUFFICES ASSUME calm, marker, connect # None, job = "recover",
                          key["verb"] = repo, pc["verb"] \notin {"undo", "exit"}
                   PROVE  /\ pc'["verb"] # "undo"
                          /\ pc'["verb"] = "exit" => result' = "ok" /\ ~marker'
      OBVIOUS
    <2>2. repo \in OwnerKeys /\ repo # None
      BY <2>1 DEF OwnersNow
    <2>3. CASE pc'["verb"] = pc["verb"]
      BY <2>1, <2>3
    <2>4. CASE Check
      <3>1. ~Refused
        BY <2>1 DEF Refused
      <3>2. Continue("connect")
        BY <2>1, <2>4, <3>1 DEF Check, Fails
      <3> QED
        BY <3>2 DEF Continue, GoTo, TypeOK
    <2>5. CASE RecoverConnect
      <3>1. PICK out \in {"ok", "wrongPassword", "notInitialized", "failed", "cancelled"} :
               /\ KopiaConnect(key["verb"], opts["verb"], out)
               /\ CASE out = "ok" -> Continue("blank")
                    [] out = "wrongPassword" -> Return("wrongPassword")
                    [] OTHER -> Return("error")
        BY <2>5 DEF RecoverConnect
      <3>2. out = "ok"
        BY <2>1, <2>2, <3>1 DEF KopiaConnect, Fails
      <3>3. Continue("blank")
        BY <3>1, <3>2
      <3> QED
        BY <3>3 DEF Continue, GoTo, TypeOK
    <2>6. CASE BlankTyped
      <3>1. PICK ok \in BOOLEAN : Blank(ok) /\ Continue(IF ok THEN "promote" ELSE "undo")
        BY <2>6 DEF BlankTyped
      <3>2. config # "none"
        BY <2>6 DEF BlankTyped, Installed, Typing
      <3>3. ok
        BY <2>1, <3>1, <3>2 DEF Blank, Fails
      <3>4. Continue("promote")
        BY <3>1, <3>3
      <3> QED
        BY <3>4 DEF Continue, GoTo, TypeOK
    <2>7. CASE Promote
      BY <2>1, <2>7 DEF Promote, Fails, Continue, GoTo, TypeOK
    <2>8. CASE ClearMarkers
      BY <2>1, <2>8 DEF ClearMarkers, Fails, Return, GoTo, TypeOK
    <2>9. CASE Bootstrap \/ RestartServe
      BY <2>3, <2>9, LookLeaves
    <2>10. CASE DropConnect \/ CalmDown \/ UNCHANGED vars \/ \E s \in stray : StrayGoes(s)
      BY <2>3, <2>10 DEF DropConnect, CalmDown, vars, StrayGoes
    <2> QED
      BY <1>1, <2>1, <2>4, <2>5, <2>6, <2>7, <2>8, <2>9, <2>10
      DEF Next, Hosted, Typed, CheckConfig, ConnectRepo, CreateRepo, BlankConnected, Connecting, Verb,
          Probe, InitCreate, UndoConnect, Exit, Type, HostRuns, HostMarks, KillVerb,
          At, Fails, Places
  <1>2. Spec => [][Taken]_vars
    BY <1>1, AnswersAlways, PTL DEF Spec
  <1> QED
    BY <1>2 DEF RightKeyTaken

(* What serve's look goes on with. *)
LEMMA LookGoesOn ==
    ASSUME TypeOK, NEW r, Answer("serve", r)
    PROVE  /\ r = "ok" => pc'["serve"] = "adapter"
           /\ r \in {"exists", "wrongPassword"} => pc'["serve"] = "unmint"
  <1> USE TwoActors
  <1>1. CASE r = "ok"
    <2>1. GoTo("serve", "adapter")
      BY <1>1 DEF Answer
    <2> QED
      BY <1>1, <2>1 DEF GoTo, TypeOK
  <1>2. CASE r \in {"exists", "wrongPassword"}
    <2>1. GoTo("serve", "unmint")
      BY <1>2 DEF Answer
    <2> QED
      BY <1>2, <2>1 DEF GoTo, TypeOK
  <1> QED
    BY <1>1, <1>2

(* serve's look, once connect.json is there, comes to its end and is not   *)
(* put off to another one, except by a configuration that cannot be read.  *)
LookSettles ==
    [][(/\ calm /\ connect # None
        /\ pc["serve"] \notin {"wait", "down"} /\ pc'["serve"] \in {"wait", "down"})
       => config = "torn"]_vars

(* A look has its password and its configuration where it needs them, so   *)
(* that only a failure, or a configuration torn by one, puts it off.       *)
THEOREM LookAlwaysSettles == Spec => LookSettles
  <1> DEFINE Settles ==
        (/\ calm /\ connect # None
         /\ pc["serve"] \notin {"wait", "down"} /\ pc'["serve"] \in {"wait", "down"})
        => config = "torn"
  <1>1. ASSUME Inv, Answers, [Next]_vars PROVE Settles
    <2> USE <1>1, TwoActors, ProvisionAssumption DEF Inv, Answers
    <2>1. SUFFICES ASSUME calm, connect # None, config # "torn",
                          pc["serve"] \notin {"wait", "down"}
                   PROVE  pc'["serve"] \notin {"wait", "down"}
      OBVIOUS
    <2>2. CASE pc'["serve"] = pc["serve"]
      BY <2>1, <2>2
    <2>3. CASE \/ Tick \/ LookMarker \/ LookConfig \/ LookFiles \/ Mint
               \/ Unmint \/ WriteMarker \/ WriteAdapter \/ RestartServe
      BY <2>1, <2>3 DEF Tick, LookMarker, LookConfig, LookFiles, Mint, Unmint,
         WriteMarker, WriteAdapter, RestartServe, Fails, GoTo, TypeOK
    <2>4. CASE ConnectRepo("serve")
      <3>1. CASE \E out \in {"wrongPassword", "cancelled"} :
                    KopiaConnect(password, opts["serve"], out) /\ Answer("serve", out)
        <4>1. Answer("serve", "wrongPassword")
          BY <2>1, <3>1 DEF KopiaConnect, Fails
        <4> QED
          BY <4>1, LookGoesOn
      <3>2. CASE Onward("serve", "blank") \/ Onward("serve", "create")
        BY <3>2 DEF Onward, GoTo, TypeOK
      <3> QED
        BY <2>4, <3>1, <3>2, ConnectGoes
    <2>5. CASE CreateRepo("serve")
      <3>1. CASE \E out \in {"exists", "cancelled"} :
                    KopiaCreate(password, opts["serve"], out) /\ Answer("serve", out)
        <4>1. Answer("serve", "exists")
          BY <2>1, <3>1 DEF KopiaCreate, Fails
        <4> QED
          BY <4>1, LookGoesOn
      <3>2. CASE Onward("serve", "blank")
        BY <3>2 DEF Onward, GoTo, TypeOK
      <3>3. ~KopiaCreate(password, opts["serve"], "failed")
        BY <2>1 DEF KopiaCreate, Fails
      <3> QED
        BY <2>5, <3>1, <3>2, <3>3, CreateGoes
    <2>6. CASE BlankConnected("serve")
      <3>1. PICK ok \in BOOLEAN : Blank(ok) /\ Answer("serve", IF ok THEN "ok" ELSE "error")
        BY <2>6 DEF BlankConnected
      <3>2. ok
        BY <2>1, <2>6, <3>1 DEF BlankConnected, Connecting, LookHas, Readable, Blank, Fails
      <3>3. Answer("serve", "ok")
        BY <3>1, <3>2
      <3> QED
        BY <3>3, LookGoesOn
    <2>7. CASE Hosted \/ HostMarks
      <3>1. ~resident
        BY <2>7 DEF Hosted, ConnectRepo, CreateRepo, BlankConnected, Probe, Connecting,
           CheckConfig, Verb, HostMarks, Marked, OneSide
      <3> QED
        BY <2>1, <3>1 DEF OneSide
    <2>8. CASE \/ Typed \/ KillVerb \/ HostRuns \/ DropConnect \/ CalmDown \/ UNCHANGED vars
               \/ \E v \in {"init", "recover"}, k \in OwnerKeys : Type(v, k)
               \/ \E s \in stray : StrayGoes(s)
      <3>1. pc'["serve"] = pc["serve"]
        BY <2>8 DEF Typed, Check, RecoverConnect, InitCreate, BlankTyped, Promote,
           UndoConnect, ClearMarkers, Exit, Type, KillVerb, HostRuns, DropConnect,
           CalmDown, vars, StrayGoes, Gone, Return, Continue, GoTo, TypeOK
      <3> QED
        BY <2>2, <3>1
    <2>9. CASE CheckConfig("serve")
      <3>1. password # None
        BY <2>9 DEF CheckConfig, Connecting, LookHas
      <3>2. CASE config # "none" /\ Answer("serve", IF Readable THEN "ok" ELSE "error")
        <4>1. Readable
          BY <2>1, <3>2 DEF Readable, TypeOK
        <4>2. Answer("serve", "ok")
          BY <3>2, <4>1
        <4> QED
          BY <4>2, LookGoesOn
      <3>3. CASE Onward("serve", "connect")
        BY <3>3 DEF Onward, GoTo, TypeOK
      <3> QED
        BY <2>1, <2>9, <3>1, <3>2, <3>3, CheckGoes DEF Fails
    <2> QED
      BY <1>1, <2>3, <2>4, <2>5, <2>6, <2>7, <2>8, <2>9 DEF Next, Bootstrap
  <1>2. Spec => [][Settles]_vars
    BY <1>1, AnswersAlways, PTL DEF Spec
  <1> QED
    BY <1>2 DEF LookSettles

(* A host side that has storage gets an answer it can act on: connected,   *)
(* the owner's key is needed, or the owner is to choose one.  No error and *)
(* no "not configured" is left to ask again about.                         *)
HostSettles ==
    [][(/\ calm /\ connect # None /\ job \in {"connect", "probe"}
        /\ pc["verb"] # "exit" /\ pc'["verb"] = "exit")
       => result' \in {"ok", "exists", "wrongPassword", "existing", "empty"}]_vars

(* connect and probe find what HostRuns started them for: without a        *)
(* failure each gives the host side one of its five answers.               *)
THEOREM HostAlwaysSettles == Spec => HostSettles
  <1> DEFINE Asked == /\ calm /\ connect # None /\ job \in {"connect", "probe"}
                      /\ pc["verb"] # "exit" /\ pc'["verb"] = "exit"
  <1> DEFINE Told == result' \in {"ok", "exists", "wrongPassword", "existing", "empty"}
  <1>1. ASSUME Inv, Answers, [Next]_vars, Asked PROVE Told
    <2> USE <1>1, TwoActors DEF Inv, Answers
    <2>1. calm /\ connect # None /\ pc'["verb"] = "exit"
      BY DEF Asked
    <2>2. pc'["verb"] # pc["verb"] /\ job \in {"connect", "probe"} /\ ~resident
      BY DEF Asked, OneSide
    <2>3. Hosted
      <3>1. ~Bootstrap /\ ~RestartServe
        BY <2>2, LookLeaves
      <3>2. ~Typed
        BY <2>1, <2>2 DEF Typed, Check, RecoverConnect, InitCreate, BlankTyped, Promote,
           UndoConnect, ClearMarkers, Exit, Verb, Gone, GoTo, At, Places, TypeOK, VerbLabels
      <3>3. ~HostRuns /\ ~HostMarks /\ ~KillVerb
        BY <2>1 DEF HostRuns, HostMarks, Gone, GoTo, Continue, KillVerb, TypeOK, Fails
      <3>4. \A v \in {"init", "recover"}, k \in OwnerKeys : ~Type(v, k)
        BY <2>1 DEF Type, Continue, GoTo, TypeOK
      <3>5. /\ ~DropConnect /\ ~CalmDown /\ ~UNCHANGED vars
            /\ \A s \in stray : ~StrayGoes(s)
        BY <2>2 DEF DropConnect, CalmDown, vars, StrayGoes
      <3> QED
        BY <3>1, <3>2, <3>3, <3>4, <3>5 DEF Next
    <2>4. CASE ConnectRepo("verb")
      <3>1. ~Onward("verb", "blank") /\ ~Onward("verb", "create")
        BY <2>1 DEF Onward, GoTo, TypeOK
      <3>2. \E out \in {"wrongPassword", "cancelled"} :
               KopiaConnect(password, opts["verb"], out) /\ Answer("verb", out)
        BY <2>4, <3>1, ConnectGoes
      <3>3. Answer("verb", "wrongPassword")
        BY <2>1, <3>2 DEF KopiaConnect, Fails
      <3> QED
        BY <3>3 DEF Answer, Return
    <2>5. CASE CreateRepo("verb")
      <3>1. ~Onward("verb", "blank") /\ ~KopiaCreate(password, opts["verb"], "failed")
        BY <2>1 DEF Onward, GoTo, TypeOK, KopiaCreate, Fails
      <3>2. \E out \in {"exists", "cancelled"} :
               KopiaCreate(password, opts["verb"], out) /\ Answer("verb", out)
        BY <2>5, <3>1, CreateGoes
      <3>3. Answer("verb", "exists")
        BY <2>1, <3>2 DEF KopiaCreate, Fails
      <3> QED
        BY <3>3 DEF Answer, Return
    <2>6. CASE BlankConnected("verb")
      <3>1. PICK ok \in BOOLEAN : Blank(ok) /\ Answer("verb", IF ok THEN "ok" ELSE "error")
        BY <2>6 DEF BlankConnected
      <3>2. ok
        BY <2>1, <2>6, <3>1 DEF BlankConnected, Connecting, HostHas, Blank, Fails
      <3>3. Answer("verb", "ok")
        BY <3>1, <3>2
      <3> QED
        BY <3>3 DEF Answer, Return
    <2>7. CASE Probe
      BY <2>1, <2>7 DEF Probe, Return, Fails
    <2>8. CASE CheckConfig("verb")
      <3>1. config # "torn" /\ password # None
        BY <2>8 DEF CheckConfig, Connecting, HostHas
      <3>2. ~Onward("verb", "connect")
        BY <2>1 DEF Onward, GoTo, TypeOK
      <3>3. config # "none" /\ Answer("verb", IF Readable THEN "ok" ELSE "error")
        BY <2>1, <2>8, <3>1, <3>2, CheckGoes DEF Fails
      <3>4. Answer("verb", "ok")
        BY <3>1, <3>3 DEF Readable, TypeOK
      <3> QED
        BY <3>4 DEF Answer, Return
    <2> QED
      BY <2>3, <2>4, <2>5, <2>6, <2>7, <2>8 DEF Hosted
  <1>2. Spec => [][Asked => Told]_vars
    BY <1>1, AnswersAlways, PTL DEF Spec
  <1> QED
    BY <1>2 DEF HostSettles
=============================================================================
