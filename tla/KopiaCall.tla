------------------------------ MODULE KopiaCall ------------------------------
(***************************************************************************)
(* What a verb gets when it calls kopia, and nothing of pipes, goroutines  *)
(* and signals: the call changes the world only while kopia runs, nobody   *)
(* is answered meanwhile, and the one answer is true of a kopia that is no *)
(* longer there.  This is what lets the other modules take a call of kopia *)
(* for a step: done or not done, and over when its answer is looked at.    *)
(***************************************************************************)
EXTENDS Naturals

CONSTANT
    Out         \* chunks kopia has to write

VARIABLES
    kopia,      \* "none", "running" or "over"
    well,       \* it ended by itself and without an error
    written,    \* chunks it wrote
    handed,     \* chunks its caller has
    told,       \* progress lines that were passed on
    cancelled,  \* the caller has given up
    answer      \* "none", "result", "error" or "cancelled"

call == <<kopia, well, written, handed, told, cancelled, answer>>

Init ==
    /\ kopia = "none" /\ well = FALSE
    /\ written = 0 /\ handed = 0 /\ told = 0
    /\ cancelled = FALSE /\ answer = "none"

(* kopia. *)
Starts ==
    /\ kopia = "none" /\ answer = "none" /\ ~cancelled
    /\ kopia' = "running"
    /\ UNCHANGED <<well, written, handed, told, cancelled, answer>>
Works ==
    /\ kopia = "running" /\ written < Out
    /\ written' = written + 1
    /\ UNCHANGED <<kopia, well, handed, told, cancelled, answer>>
Ends ==
    /\ kopia = "running"
    /\ kopia' = "over"
    /\ well' \in BOOLEAN /\ (well' => written = Out)
    /\ UNCHANGED <<written, handed, told, cancelled, answer>>

(* The caller. *)
GivesUp ==
    /\ answer = "none" /\ ~cancelled
    /\ cancelled' = TRUE
    /\ UNCHANGED <<kopia, well, written, handed, told, answer>>

(* What it hears.  Some progress may be passed on after kopia has ended. *)
Tells ==
    /\ kopia # "none" /\ answer = "none"
    /\ told' = told + 1
    /\ UNCHANGED <<kopia, well, written, handed, cancelled, answer>>
Succeeds ==
    /\ kopia = "over" /\ well /\ answer = "none"
    /\ answer' = "result" /\ handed' = written
    /\ UNCHANGED <<kopia, well, written, told, cancelled>>
Fails ==
    /\ kopia = "none" \/ (kopia = "over" /\ ~well)
    /\ answer = "none" /\ answer' = "error"
    /\ UNCHANGED <<kopia, well, written, handed, told, cancelled>>
Stops ==
    /\ kopia # "running" /\ cancelled
    /\ answer = "none" /\ answer' = "cancelled"
    /\ UNCHANGED <<kopia, well, written, handed, told, cancelled>>

Next == Starts \/ Works \/ Ends \/ GivesUp \/ Tells \/ Succeeds \/ Fails \/ Stops

Spec == Init /\ [][Next]_call
=============================================================================
