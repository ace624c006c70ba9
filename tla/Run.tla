--------------------------------- MODULE Run ---------------------------------
(***************************************************************************)
(* One invocation of kopia (src/internal/kopia/run.go) and what the        *)
(* adapter answers after it (internal/proto/proto.go, main.go): the child  *)
(* writes to two bounded pipes, the main goroutine drains stdout, another  *)
(* scans stderr and emits progress, and a third kills the child when the   *)
(* context ends.                                                           *)
(*                                                                         *)
(* What is written is counted: the k-th chunk on stdout, the k-th line on  *)
(* stderr.                                                                 *)
(***************************************************************************)
EXTENDS Integers, Sequences

CONSTANTS
    Pipe,       \* what a pipe holds
    Out,        \* bound: chunks kopia writes to stdout
    Err,        \* bound: lines kopia writes to stderr
    Places      \* len(lastLines.buf)

ASSUME RunAssumption ==
    /\ Pipe \in Nat \ {0}
    /\ Out \in Nat /\ Err \in Nat
    /\ Places \in Nat \ {0}

VARIABLES
    child,      \* the kopia process
    status,     \* how it ended
    wrote,      \* chunks it wrote to stdout
    said,       \* lines it wrote to stderr
    stdout,     \* chunks in the one pipe
    stderr,     \* lines in the other; 0 is one over the scanner's 1 MiB
    main,       \* where the main goroutine is
    scan,       \* the goroutine that scans stderr
    copied,     \* chunks in `out`
    buf, n,     \* lastLines
    cancelled,  \* the context has ended
    emitted,    \* progress lines emitted
    answer      \* what the adapter answers

pipes == <<wrote, said, stdout, stderr>>
tail == <<buf, n>>
vars == <<child, status, wrote, said, stdout, stderr, main, scan, copied, buf, n,
          cancelled, emitted, answer>>

TypeOK ==
    /\ child \in {"none", "running", "hung", "exited"}
    /\ status \in {"none", "ok", "failed", "killed"}
    /\ wrote \in 0 .. Out /\ said \in 0 .. Err
    /\ stdout \in 0 .. Pipe
    /\ stderr \in Seq(0 .. Err) /\ Len(stderr) <= Pipe
    /\ main \in {"start", "copy", "join", "wait", "check", "result", "done"}
    /\ scan \in {"none", "scanning", "gaveUp", "ended"}
    /\ copied \in 0 .. Out
    /\ buf \in [0 .. Places - 1 -> 0 .. Err] /\ n \in 0 .. Err
    /\ cancelled \in BOOLEAN
    /\ emitted \in 0 .. Err
    /\ answer \in {"none", "result", "error", "cancelled"}

Init ==
    /\ child = "none" /\ status = "none"
    /\ wrote = 0 /\ said = 0 /\ stdout = 0 /\ stderr = <<>>
    /\ main = "start" /\ scan = "none"
    /\ copied = 0
    /\ buf = [i \in 0 .. Places - 1 |-> 0] /\ n = 0
    /\ cancelled = FALSE
    /\ emitted = 0
    /\ answer = "none"

-----------------------------------------------------------------------------
(* lastLines: a ring of the last Places lines.                              *)

(* Mutant: the index is not reduced. *)
AddStraight(line) == buf' = [i \in DOMAIN buf \cup {n} |-> IF i = n THEN line ELSE buf[i]]

Add(line) == buf' = [buf EXCEPT ![n % Places] = line]

(* Mutant: the ring is read from its first place. *)
StringUnrolled == [k \in 1 .. (IF n > Places THEN Places ELSE n) |-> buf[k - 1]]

(* String: the lines in the order they came. *)
String ==
    LET count == IF n > Places THEN Places ELSE n
    IN  [k \in 1 .. count |-> buf[(n - count + k - 1) % Places]]

-----------------------------------------------------------------------------
(* kopia.                                                                  *)

WriteOut ==
    /\ child = "running"
    /\ wrote < Out /\ stdout < Pipe
    /\ wrote' = wrote + 1 /\ stdout' = stdout + 1
    /\ UNCHANGED <<child, status, said, stderr, main, scan, copied, tail, cancelled,
                   emitted, answer>>

WriteErr ==
    /\ child = "running"
    /\ said < Err /\ Len(stderr) < Pipe
    /\ said' = said + 1
    /\ \E line \in {0, said + 1} : stderr' = Append(stderr, line)
    /\ UNCHANGED <<child, status, wrote, stdout, main, scan, copied, tail, cancelled,
                   emitted, answer>>

(* It exits once it has written what it had to. *)
ChildExits ==
    /\ child = "running"
    /\ wrote = Out /\ said = Err
    /\ child' = "exited"
    /\ status' \in {"ok", "failed"}
    /\ UNCHANGED <<pipes, main, scan, copied, tail, cancelled, emitted, answer>>

(* It may fail early, or wait for its storage for ever. *)
ChildFails ==
    /\ child = "running"
    /\ \/ child' = "exited" /\ status' = "failed"
       \/ child' = "hung" /\ UNCHANGED status
    /\ UNCHANGED <<pipes, main, scan, copied, tail, cancelled, emitted, answer>>

-----------------------------------------------------------------------------
(* run.                                                                    *)

(* SIGTERM, SIGINT, or the deadline of --timeout. *)
Cancel ==
    /\ ~cancelled
    /\ main # "done"
    /\ cancelled' = TRUE
    /\ UNCHANGED <<child, status, pipes, main, scan, copied, tail, emitted, answer>>

(* Mutant: the child is started without the context. *)
KilledNever == FALSE /\ UNCHANGED vars

(* exec.CommandContext kills the child when the context ends. *)
Killed ==
    /\ cancelled
    /\ child \in {"running", "hung"}
    /\ child' = "exited"
    /\ status' = "killed"
    /\ UNCHANGED <<pipes, main, scan, copied, tail, cancelled, emitted, answer>>

(* The environment cannot be read or kopia cannot be started; and nothing  *)
(* is started once the context has ended.                                  *)
StartChild ==
    /\ main = "start"
    /\ \/ /\ ~cancelled
          /\ child' = "running" /\ scan' = "scanning" /\ main' = "copy"
          /\ UNCHANGED answer
       \/ /\ cancelled
          /\ answer' = "cancelled" /\ main' = "done"
          /\ UNCHANGED <<child, scan>>
       \/ /\ answer' = "error" /\ main' = "done"
          /\ UNCHANGED <<child, scan>>
    /\ UNCHANGED <<status, pipes, copied, tail, cancelled, emitted>>

(* Mutant: stdout is read after stderr, by the same goroutine. *)
CopyAfter ==
    /\ main = "copy" /\ scan # "scanning"
    /\ stdout > 0
    /\ stdout' = stdout - 1 /\ copied' = copied + 1
    /\ UNCHANGED <<child, status, wrote, said, stderr, main, scan, tail, cancelled,
                   emitted, answer>>

(* io.Copy from stdout. *)
Copy ==
    /\ main = "copy"
    /\ stdout > 0
    /\ stdout' = stdout - 1 /\ copied' = copied + 1
    /\ UNCHANGED <<child, status, wrote, said, stderr, main, scan, tail, cancelled,
                   emitted, answer>>

(* Mutant: the copy ends with the process and not with its output. *)
CopyEndEarly ==
    /\ main = "copy"
    /\ child = "exited"
    /\ main' = "join"
    /\ UNCHANGED <<child, status, pipes, scan, copied, tail, cancelled, emitted, answer>>

(* Mutant: a cancelled run does not wait for its child. *)
CopyEndLeaving ==
    /\ main = "copy"
    /\ \/ stdout = 0 /\ child = "exited" /\ main' = "join" /\ UNCHANGED answer
       \/ cancelled /\ answer' = "cancelled" /\ main' = "done"
    /\ UNCHANGED <<child, status, pipes, scan, copied, tail, cancelled, emitted>>

(* It ends where the pipe is empty and nobody has its other end. *)
CopyEnd ==
    /\ main = "copy"
    /\ stdout = 0 /\ child = "exited"
    /\ main' = "join"
    /\ UNCHANGED <<child, status, pipes, scan, copied, tail, cancelled, emitted, answer>>

(* The scanning goroutine: each line goes to the tail and is emitted; one  *)
(* that does not fit ends the scan with the rest unread.                   *)
Scan ==
    /\ scan = "scanning"
    /\ stderr # <<>>
    /\ stderr' = Tail(stderr)
    /\ IF Head(stderr) = 0
       THEN scan' = "gaveUp" /\ UNCHANGED <<tail, emitted>>
       ELSE /\ Add(Head(stderr)) /\ n' = n + 1
            /\ emitted' = emitted + 1
            /\ UNCHANGED scan
    /\ UNCHANGED <<child, status, wrote, said, stdout, main, copied, cancelled, answer>>

ScanEnd ==
    /\ scan = "scanning"
    /\ stderr = <<>> /\ child = "exited"
    /\ scan' = "ended"
    /\ UNCHANGED <<child, status, pipes, main, copied, tail, cancelled, emitted, answer>>

(* wg.Wait. *)
Join ==
    /\ main = "join"
    /\ scan \in {"gaveUp", "ended"}
    /\ main' = "wait"
    /\ UNCHANGED <<child, status, pipes, scan, copied, tail, cancelled, emitted, answer>>

(* cmd.Wait. *)
Wait ==
    /\ main = "wait"
    /\ child = "exited"
    /\ main' = "check"
    /\ UNCHANGED <<child, status, pipes, scan, copied, tail, cancelled, emitted, answer>>

(* The context is asked first, then the child. *)
Check ==
    /\ main = "check"
    /\ \/ cancelled /\ answer' = "cancelled" /\ main' = "done"
       \/ ~cancelled /\ status # "ok" /\ answer' = "error" /\ main' = "done"
       \/ ~cancelled /\ status = "ok" /\ main' = "result" /\ UNCHANGED answer
    /\ UNCHANGED <<child, status, pipes, scan, copied, tail, cancelled, emitted>>

(* The verb's result, and exit code 0. *)
Result ==
    /\ main = "result"
    /\ answer' = "result"
    /\ main' = "done"
    /\ UNCHANGED <<child, status, pipes, scan, copied, tail, cancelled, emitted>>

-----------------------------------------------------------------------------

Kopia == WriteOut \/ WriteErr \/ ChildExits
Scanner == Scan \/ ScanEnd
Main == StartChild \/ Copy \/ CopyEnd \/ Join \/ Wait \/ Check \/ Result

Next == Kopia \/ ChildFails \/ Scanner \/ Main \/ Killed \/ Cancel

Spec == Init /\ [][Next]_vars

(* The goroutines are scheduled, and kopia goes on unless it hangs. *)
FairSpec ==
    /\ Spec
    /\ WF_vars(Main) /\ WF_vars(Scanner) /\ WF_vars(Killed) /\ WF_vars(Kopia)

-----------------------------------------------------------------------------
(* Properties.                                                             *)

(* A verb that answers with a result has read all that kopia wrote.        *)
OutputWhole == main = "result" => copied = wrote

(* "At most one per invocation, and last": no progress follows the answer, *)
(* whatever is still in the pipe of stderr.                                *)
ResultLast == [][answer # "none" => UNCHANGED <<answer, emitted>>]_vars

(* The error of a kopia that failed ends with the last lines it wrote, in  *)
(* their order.                                                            *)
TailLast ==
    (answer = "error" /\ scan = "ended") =>
        LET count == IF said > Places THEN Places ELSE said
        IN  String = [k \in 1 .. count |-> said - count + k]

(* "It must not exit while leaving a child holding files open": when the   *)
(* adapter has answered, kopia is gone.                                    *)
ChildGone == answer # "none" => child \in {"none", "exited"}

(* A run of kopia is a call: nothing is answered while kopia is there, no  *)
(* progress follows the answer, and a result is the whole output of a      *)
(* kopia that ended well (run.go:228-241).                                 *)
Call == INSTANCE KopiaCall WITH
    kopia <- CASE child = "none" -> "none"
               [] child = "exited" -> "over"
               [] OTHER -> "running",
    well <- status = "ok",
    written <- wrote,
    handed <- IF answer = "result" THEN copied ELSE 0,
    told <- emitted

CallPromised == Call!Spec

(* A cancelled adapter ends, even if kopia hangs, and even if the scanner  *)
(* has given stderr up.                                                    *)
CancelEnds == cancelled ~> main = "done"

(* Unless kopia hangs, or writes a line the scanner cannot hold, run ends  *)
(* by itself: kopia is never blocked on a pipe that nobody reads.          *)
RunEnds == <>(main = "done" \/ child = "hung" \/ scan = "gaveUp")
=============================================================================
