----------------------------- MODULE KeyCustody -----------------------------
(***************************************************************************)
(* What replacing a repository's key promises, and nothing of how: the     *)
(* repository is opened by one key, the box holds some keys on disk, and a *)
(* box that holds the repository's key never lets go of it.                *)
(***************************************************************************)
CONSTANT Keys

VARIABLES
    repoKey,    \* the key that opens the repository
    held        \* the keys the box has on disk

custody == <<repoKey, held>>

OnBox == repoKey \in held

Init ==
    /\ repoKey \in Keys
    /\ held \in SUBSET Keys

(* The caller puts another key beside the one the box has. *)
Offer(k) ==
    /\ held' = held \cup {k}
    /\ UNCHANGED repoKey

(* The repository starts to ask for a key the box has. *)
Rekey(k) ==
    /\ k \in held
    /\ repoKey' = k
    /\ UNCHANGED held

(* A key leaves the disk: never the one the repository asks for. *)
Forget(k) ==
    /\ repoKey # k
    /\ held' = held \ {k}
    /\ UNCHANGED repoKey

Next == \E k \in Keys : Offer(k) \/ Rekey(k) \/ Forget(k)

Spec == Init /\ [][Next]_custody
=============================================================================
