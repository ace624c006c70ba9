------------------------------ MODULE RunProofs ------------------------------
(***************************************************************************)
(* What run promises of its child's output, for pipes, outputs and tails   *)
(* of any size.                                                            *)
(***************************************************************************)
EXTENDS Run, TLAPS

(* What is in the pipes is what was written and not read; a line of stderr *)
(* that was kept was emitted.                                              *)
Flow ==
    /\ copied + stdout = wrote
    /\ n + Len(stderr) <= said
    /\ emitted = n

(* Where the main goroutine is, and what has ended by then.                *)
Order ==
    /\ main = "start" => child = "none" /\ scan = "none"
    /\ main \in {"join", "wait", "check", "result"} => child = "exited" /\ stdout = 0
    /\ main \in {"wait", "check", "result"} => scan \in {"gaveUp", "ended"}
    /\ main = "done" => child \in {"none", "exited"} /\ scan # "scanning"
    /\ answer # "none" => main = "done"

Inv == TypeOK /\ Flow /\ Order

-----------------------------------------------------------------------------

(* The ring's index is one of its places. *)
LEMMA IndexInRing == ASSUME NEW k \in Nat PROVE k % Places \in 0 .. Places - 1
  BY RunAssumption

LEMMA InitInv == Init => Inv
  <1> SUFFICES ASSUME Init PROVE Inv
    OBVIOUS
  <1>1. TypeOK
    <2>1. stderr \in Seq(0 .. Err) /\ Len(stderr) = 0
      BY DEF Init
    <2>2. buf \in [0 .. Places - 1 -> 0 .. Err]
      BY RunAssumption DEF Init
    <2>3. Len(stderr) <= Pipe
      BY <2>1, RunAssumption
    <2>4. /\ wrote \in 0 .. Out /\ said \in 0 .. Err /\ stdout \in 0 .. Pipe
          /\ copied \in 0 .. Out /\ n \in 0 .. Err /\ emitted \in 0 .. Err
      BY RunAssumption DEF Init
    <2>5. /\ child = "none" /\ status = "none" /\ main = "start" /\ scan = "none"
          /\ cancelled = FALSE /\ answer = "none"
      BY DEF Init
    <2> QED
      BY <2>1, <2>2, <2>3, <2>4, <2>5 DEF TypeOK
  <1>2. Flow /\ Order
    BY DEF Init, Flow, Order
  <1> QED
    BY <1>1, <1>2 DEF Inv

(* kopia's own steps. *)
LEMMA ChildStep == Inv /\ (Kopia \/ ChildFails \/ Killed) => Inv'
  <1> SUFFICES ASSUME Inv, Kopia \/ ChildFails \/ Killed PROVE Inv'
    OBVIOUS
  <1> USE RunAssumption DEF Inv, TypeOK, Flow, Order, pipes, tail
  <1>1. CASE WriteOut
    BY <1>1 DEF WriteOut
  <1>2. CASE WriteErr
    <2> PICK line \in {0, said + 1} : stderr' = Append(stderr, line)
      BY <1>2 DEF WriteErr
    <2>1. said' = said + 1 /\ said' \in 0 .. Err /\ line \in 0 .. Err
      BY <1>2 DEF WriteErr
    <2>2. stderr' \in Seq(0 .. Err) /\ Len(stderr') = Len(stderr) + 1
      BY <2>1
    <2> QED
      BY <1>2, <2>1, <2>2 DEF WriteErr
  <1>3. CASE ChildExits
    BY <1>3 DEF ChildExits
  <1>4. CASE ChildFails
    BY <1>4 DEF ChildFails
  <1>5. CASE Killed
    BY <1>5 DEF Killed
  <1> QED
    BY <1>1, <1>2, <1>3, <1>4, <1>5 DEF Kopia

(* The scanning goroutine. *)
LEMMA ScannerStep == Inv /\ Scanner => Inv'
  <1> SUFFICES ASSUME Inv, Scanner PROVE Inv'
    OBVIOUS
  <1> USE RunAssumption DEF Inv, TypeOK, Flow, Order, pipes, tail
  <1>1. CASE Scan
    <2> DEFINE line == Head(stderr)
    <2>1. /\ stderr' \in Seq(0 .. Err)
          /\ Len(stderr') = Len(stderr) - 1
          /\ line \in 0 .. Err
      <3>1. stderr # <<>> /\ stderr' = Tail(stderr)
        BY <1>1 DEF Scan
      <3>2. Len(stderr) \in Nat \ {0}
        BY <3>1
      <3>3. stderr' \in Seq(0 .. Err) /\ Len(stderr') = Len(stderr) - 1
        <4> HIDE DEF Inv, TypeOK, Flow, Order
        <4>1. stderr \in Seq(0 .. Err)
          BY DEF Inv, TypeOK
        <4> QED
          BY <3>1, <3>2, <4>1
      <3>4. line \in 0 .. Err
        BY <3>1
      <3> QED
        BY <3>3, <3>4
    <2>2. CASE line = 0
      BY <1>1, <2>1, <2>2 DEF Scan
    <2>3. CASE line # 0
      <3>1. /\ buf' = [buf EXCEPT ![n % Places] = line]
            /\ n' = n + 1 /\ emitted' = emitted + 1
            /\ scan' = scan
        BY <1>1, <2>3 DEF Scan, Add
      <3>2. buf' \in [0 .. Places - 1 -> 0 .. Err]
        BY <3>1, <2>1, IndexInRing
      <3>3. n' \in 0 .. Err /\ n' + Len(stderr') <= said
        BY <3>1, <2>1
      <3> QED
        BY <1>1, <2>1, <3>1, <3>2, <3>3 DEF Scan
    <2> QED
      BY <2>2, <2>3
  <1>2. CASE ScanEnd
    BY <1>2 DEF ScanEnd
  <1> QED
    BY <1>1, <1>2 DEF Scanner

(* The main goroutine. *)
LEMMA MainStep == Inv /\ (Main \/ Cancel) => Inv'
  <1> SUFFICES ASSUME Inv, Main \/ Cancel PROVE Inv'
    OBVIOUS
  <1> USE RunAssumption DEF Inv, TypeOK, Flow, Order, pipes, tail
  <1>1. CASE StartChild
    BY <1>1 DEF StartChild
  <1>2. CASE Copy
    BY <1>2 DEF Copy
  <1>3. CASE CopyEnd
    BY <1>3 DEF CopyEnd
  <1>4. CASE Join
    BY <1>4 DEF Join
  <1>5. CASE Wait
    BY <1>5 DEF Wait
  <1>6. CASE Check
    BY <1>6 DEF Check
  <1>7. CASE Result
    BY <1>7 DEF Result
  <1>8. CASE Cancel
    BY <1>8 DEF Cancel
  <1> QED
    BY <1>1, <1>2, <1>3, <1>4, <1>5, <1>6, <1>7, <1>8 DEF Main

LEMMA NextInv == Inv /\ [Next]_vars => Inv'
  <1> SUFFICES ASSUME Inv, [Next]_vars PROVE Inv'
    OBVIOUS
  <1>1. CASE Next
    BY <1>1, ChildStep, ScannerStep, MainStep DEF Next
  <1>2. CASE UNCHANGED vars
    BY <1>2 DEF vars, Inv, TypeOK, Flow, Order
  <1> QED
    BY <1>1, <1>2

LEMMA Invariance == Spec => []Inv
  BY InitInv, NextInv, PTL DEF Spec

-----------------------------------------------------------------------------

(* Every variable keeps its type; that the ring of lastLines is never      *)
(* written outside its places is part of it.                               *)
THEOREM TypeCorrect == Spec => []TypeOK
  <1>1. Inv => TypeOK
    BY DEF Inv
  <1> QED
    BY Invariance, <1>1, PTL

(* run hands over what kopia wrote, whole: the copy ends with the output   *)
(* and not with the process, and cmd.Wait comes after the copy.            *)
THEOREM OutputIsWhole == Spec => []OutputWhole
  <1>1. Inv => OutputWhole
    BY DEF Inv, TypeOK, Flow, Order, OutputWhole
  <1> QED
    BY Invariance, <1>1, PTL

(* No adapter answers while its kopia is running.                          *)
THEOREM ChildIsGone == Spec => []ChildGone
  <1>1. Inv => ChildGone
    BY DEF Inv, Order, ChildGone
  <1> QED
    BY Invariance, <1>1, PTL

(* One answer, and nothing after it: the scanning goroutine has ended      *)
(* before the main one asks how kopia did.                                 *)
THEOREM ResultIsLast == Spec => ResultLast
  <1>1. Inv /\ [Next]_vars => [answer # "none" => UNCHANGED <<answer, emitted>>]_vars
    <2> SUFFICES ASSUME Inv, Next, answer # "none" PROVE UNCHANGED <<answer, emitted>>
      OBVIOUS
    <2>1. main = "done" /\ scan # "scanning"
      BY DEF Inv, Order
    <2>2. ~Main /\ ~Scanner
      BY <2>1 DEF Main, StartChild, Copy, CopyEnd, Join, Wait, Check, Result, Scanner,
                  Scan, ScanEnd
    <2>3. Kopia \/ ChildFails \/ Killed \/ Cancel
      BY <2>2 DEF Next
    <2> QED
      BY <2>3 DEF Kopia, WriteOut, WriteErr, ChildExits, ChildFails, Killed, Cancel
  <1> QED
    BY Invariance, <1>1, PTL DEF Spec, ResultLast
-----------------------------------------------------------------------------

(* Less than a whole number of turns apart, two lines have two places. *)
LEMMA NoMultiple ==
    ASSUME NEW p \in Nat \ {0}, NEW d \in Int, 0 < p * d, p * d < p
    PROVE  FALSE
  <1>1. CASE d <= 0
    BY <1>1
  <1>2. CASE d >= 1
    BY <1>2
  <1> QED
    BY <1>1, <1>2

LEMMA OwnPlaces ==
    ASSUME NEW p \in Nat \ {0}, NEW k \in Nat, NEW m \in Nat, k < m, m - k < p
    PROVE  k % p # m % p
  <1> SUFFICES ASSUME k % p = m % p PROVE FALSE
    OBVIOUS
  <1> DEFINE a == k \div p
             b == m \div p
  <1>1. a \in Int /\ b \in Int
    OBVIOUS
  <1>2. k = (p * a) + (k % p)
    OBVIOUS
  <1>3. m = (p * b) + (m % p)
    OBVIOUS
  <1> HIDE DEF a, b
  <1>4. p * a \in Int /\ p * b \in Int /\ k % p \in Int
    BY <1>1
  <1>5. m - k = p * b - p * a
    BY <1>2, <1>3, <1>4
  <1>6. p * b - p * a = p * (b - a)
    BY <1>1
  <1> QED
    BY <1>1, <1>5, <1>6, NoMultiple

(* The lines in the pipe are the last ones written, unless the scanner     *)
(* cannot hold them; the ring has the last ones scanned.                   *)
Lines ==
    /\ \A i \in 1 .. Len(stderr) : stderr[i] \in {0, said - Len(stderr) + i}
    /\ scan # "gaveUp" => n + Len(stderr) = said
    /\ scan = "ended" => Len(stderr) = 0 /\ child = "exited"

Ring == \A k \in 0 .. n - 1 : n - k <= Places => buf[k % Places] = k + 1

LEMMA InitLines == Init => Lines /\ Ring
  <1> SUFFICES ASSUME Init PROVE Lines /\ Ring
    OBVIOUS
  <1>1. Len(stderr) = 0 /\ said = 0 /\ n = 0 /\ scan = "none"
    BY DEF Init
  <1> QED
    BY <1>1 DEF Lines, Ring

(* A line that is added takes the place of one that is no longer asked for. *)
LEMMA AddedLine ==
    ASSUME TypeOK, Ring, n' = n + 1, Add(n + 1)
    PROVE  Ring'
  <1> SUFFICES ASSUME NEW k \in 0 .. n, n + 1 - k <= Places
               PROVE  buf'[k % Places] = k + 1
    BY DEF TypeOK, Ring
  <1>1. buf' = [buf EXCEPT ![n % Places] = n + 1]
    BY DEF Add
  <1>2. /\ n \in Nat /\ k \in Nat /\ Places \in Nat \ {0}
        /\ DOMAIN buf = 0 .. Places - 1
    BY RunAssumption DEF TypeOK
  <1>3. k % Places \in DOMAIN buf
    BY <1>2, IndexInRing
  <1>4. CASE k = n
    BY <1>1, <1>3, <1>4
  <1>5. CASE k # n
    <2>1. k < n /\ n - k < Places /\ k \in 0 .. n - 1 /\ n - k <= Places
      BY <1>2, <1>5
    <2>2. k % Places # n % Places
      BY <1>2, <2>1, OwnPlaces
    <2>3. buf[k % Places] = k + 1
      BY <2>1 DEF Ring
    <2> QED
      BY <1>1, <1>3, <2>2, <2>3
  <1> QED
    BY <1>4, <1>5

LEMMA ScanLines == Inv /\ Lines /\ Ring /\ Scan => Lines' /\ Ring'
  <1> SUFFICES ASSUME Inv, Lines, Ring, Scan PROVE Lines' /\ Ring'
    OBVIOUS
  <1>1. /\ scan = "scanning" /\ stderr # <<>> /\ stderr' = Tail(stderr)
        /\ said' = said /\ child' = child
    BY DEF Scan
  <1>2. stderr \in Seq(0 .. Err) /\ said \in Nat /\ n \in Nat
    BY RunAssumption DEF Inv, TypeOK
  <1>3. /\ Len(stderr) \in Nat \ {0} /\ Len(stderr') = Len(stderr) - 1
        /\ \A i \in 1 .. Len(stderr') : stderr'[i] = stderr[i + 1]
        /\ Head(stderr) = stderr[1]
    BY <1>1, <1>2
  <1>4. \A i \in 1 .. Len(stderr') : stderr'[i] \in {0, said' - Len(stderr') + i}
    <2> SUFFICES ASSUME NEW i \in 1 .. Len(stderr')
                 PROVE  stderr'[i] \in {0, said' - Len(stderr') + i}
      OBVIOUS
    <2>1. stderr'[i] = stderr[i + 1] /\ i + 1 \in 1 .. Len(stderr)
      BY <1>3
    <2>2. stderr[i + 1] \in {0, said - Len(stderr) + (i + 1)}
      BY <2>1 DEF Lines
    <2> QED
      BY <1>1, <1>2, <1>3, <2>1, <2>2
  <1>5. CASE Head(stderr) = 0
    <2>1. scan' = "gaveUp" /\ buf' = buf /\ n' = n
      BY <1>5 DEF Scan, tail
    <2> QED
      BY <1>4, <2>1 DEF Lines, Ring
  <1>6. CASE Head(stderr) # 0
    <2>1. Add(Head(stderr)) /\ n' = n + 1 /\ scan' = scan
      BY <1>6 DEF Scan
    <2>2. n + Len(stderr) = said
      BY <1>1 DEF Lines
    <2>3. Head(stderr) = n + 1
      <3>1. Head(stderr) \in {0, said - Len(stderr) + 1}
        BY <1>3 DEF Lines
      <3> QED
        BY <1>2, <1>3, <1>6, <2>2, <3>1
    <2>4. Ring'
      BY <2>1, <2>3, AddedLine DEF Inv
    <2>5. n' + Len(stderr') = said'
      BY <1>1, <1>2, <1>3, <2>1, <2>2
    <2> QED
      BY <1>1, <1>4, <2>1, <2>4, <2>5 DEF Lines
  <1> QED
    BY <1>5, <1>6

LEMMA NextLines == Inv /\ Lines /\ Ring /\ [Next]_vars => Lines' /\ Ring'
  <1> SUFFICES ASSUME Inv, Lines, Ring, [Next]_vars PROVE Lines' /\ Ring'
    OBVIOUS
  <1>1. ASSUME UNCHANGED <<said, stderr, scan, buf, n>>, child = "exited" => child' = "exited"
        PROVE  Lines' /\ Ring'
    BY <1>1 DEF Lines, Ring
  <1>2. CASE WriteErr
    <2>1. PICK line \in {0, said + 1} : stderr' = Append(stderr, line)
      BY <1>2 DEF WriteErr
    <2>2. /\ said' = said + 1 /\ child' = child /\ child = "running"
          /\ UNCHANGED <<scan, buf, n>>
      BY <1>2 DEF WriteErr, tail
    <2>3. stderr \in Seq(0 .. Err) /\ said \in Nat /\ n \in Nat
      BY RunAssumption DEF Inv, TypeOK
    <2>4. /\ Len(stderr') = Len(stderr) + 1 /\ Len(stderr) \in Nat
          /\ \A i \in 1 .. Len(stderr) : stderr'[i] = stderr[i]
          /\ stderr'[Len(stderr')] = line
      BY <2>1, <2>3
    <2>5. \A i \in 1 .. Len(stderr') : stderr'[i] \in {0, said' - Len(stderr') + i}
      <3> SUFFICES ASSUME NEW i \in 1 .. Len(stderr')
                   PROVE  stderr'[i] \in {0, said' - Len(stderr') + i}
        OBVIOUS
      <3>1. CASE i = Len(stderr')
        BY <2>2, <2>3, <2>4, <3>1
      <3>2. CASE i # Len(stderr')
        <4>1. i \in 1 .. Len(stderr) /\ stderr'[i] = stderr[i]
          BY <2>4, <3>2
        <4>2. stderr[i] \in {0, said - Len(stderr) + i}
          BY <4>1 DEF Lines
        <4> QED
          BY <2>2, <2>3, <2>4, <4>1, <4>2
      <3> QED
        BY <3>1, <3>2
    <2>6. scan' # "gaveUp" => n' + Len(stderr') = said'
      BY <2>2, <2>3, <2>4 DEF Lines
    <2>7. scan' # "ended"
      BY <2>2 DEF Lines
    <2> QED
      BY <2>2, <2>5, <2>6, <2>7 DEF Lines, Ring
  <1>3. CASE Scan
    BY <1>3, ScanLines
  <1>4. CASE ScanEnd
    <2>1. /\ scan' = "ended" /\ scan = "scanning"
          /\ Len(stderr) = 0 /\ child = "exited"
          /\ UNCHANGED <<said, stderr, child, buf, n>>
      BY <1>4 DEF ScanEnd, pipes, tail
    <2> QED
      BY <2>1 DEF Lines, Ring
  <1>5. CASE StartChild
    <2>1. /\ scan' \in {scan, "scanning"} /\ scan = "none" /\ child = "none"
          /\ UNCHANGED <<said, stderr, buf, n>>
      BY <1>5 DEF StartChild, Inv, Order, pipes, tail
    <2> QED
      BY <2>1 DEF Lines, Ring
  <1>6. CASE WriteOut \/ ChildExits \/ ChildFails \/ Killed
    BY <1>1, <1>6 DEF WriteOut, ChildExits, ChildFails, Killed, pipes, tail
  <1>7. CASE Copy \/ CopyEnd \/ Join \/ Wait \/ Check \/ Result \/ Cancel
    BY <1>1, <1>7 DEF Copy, CopyEnd, Join, Wait, Check, Result, Cancel, pipes, tail
  <1>8. CASE UNCHANGED vars
    BY <1>1, <1>8 DEF vars
  <1> QED
    BY <1>2, <1>3, <1>4, <1>5, <1>6, <1>7, <1>8 DEF Next, Kopia, Scanner, Main

(* The error of a kopia that failed ends with its last lines in their      *)
(* order, however long the ring is and however often it went round.        *)
THEOREM TailIsLast == Spec => []TailLast
  <1>1. Inv /\ Lines /\ Ring => TailLast
    <2> SUFFICES ASSUME Inv, Lines, Ring, scan = "ended"
                 PROVE  LET count == IF said > Places THEN Places ELSE said
                        IN  String = [k \in 1 .. count |-> said - count + k]
      BY DEF TailLast
    <2>1. n = said /\ said \in Nat /\ Places \in Nat \ {0}
      BY RunAssumption DEF Inv, TypeOK, Lines
    <2> DEFINE count == IF said > Places THEN Places ELSE said
    <2>2. count \in Nat /\ count <= said /\ count <= Places
      BY <2>1
    <2> HIDE DEF count
    <2>3. \A k \in 1 .. count : buf[(said - count + k - 1) % Places] = said - count + k
      <3> SUFFICES ASSUME NEW k \in 1 .. count
                   PROVE  buf[(said - count + k - 1) % Places] = said - count + k
        OBVIOUS
      <3> DEFINE j == said - count + k - 1
      <3>1. j \in 0 .. n - 1 /\ n - j <= Places /\ j + 1 = said - count + k
        BY <2>1, <2>2
      <3> HIDE DEF j
      <3>2. buf[j % Places] = j + 1
        BY <3>1 DEF Ring
      <3> QED
        BY <3>1, <3>2 DEF j
    <2>4. String = [k \in 1 .. count |-> buf[(said - count + k - 1) % Places]]
      BY <2>1 DEF String, count
    <2>5. String = [k \in 1 .. count |-> said - count + k]
      BY <2>3, <2>4
    <2> QED
      BY <2>5 DEF count
  <1> QED
    BY InitInv, NextInv, InitLines, NextLines, <1>1, PTL DEF Spec

-----------------------------------------------------------------------------

(* What is known of a kopia that was started, and of the verdict on it. *)
Verdict ==
    /\ main = "copy" => child # "none"
    /\ main \in {"copy", "join"} => scan # "none"
    /\ scan = "ended" => child = "exited"
    /\ main = "result" => status = "ok"

LEMMA VerdictInit == Init => Verdict
  BY DEF Init, Verdict

LEMMA VerdictStep == Inv /\ Verdict /\ [Next]_vars => Verdict'
  <1> SUFFICES ASSUME Inv, Verdict, [Next]_vars PROVE Verdict'
    OBVIOUS
  <1> USE DEF Inv, Order, Verdict, pipes, tail
  <1>1. CASE Kopia
    BY <1>1 DEF Kopia, WriteOut, WriteErr, ChildExits
  <1>2. CASE ChildFails \/ Killed
    BY <1>2 DEF ChildFails, Killed
  <1>3. CASE Scanner
    BY <1>3 DEF Scanner, Scan, ScanEnd
  <1>4. CASE Main
    BY <1>4 DEF Main, StartChild, Copy, CopyEnd, Join, Wait, Check, Result
  <1>5. CASE Cancel \/ UNCHANGED vars
    BY <1>5 DEF Cancel, vars
  <1> QED
    BY <1>1, <1>2, <1>3, <1>4, <1>5 DEF Next

(* The state of the call that a state of the run stands for. *)
Stage == CASE child = "none" -> "none" [] child = "exited" -> "over" [] OTHER -> "running"
Well == status = "ok"
Handed == IF answer = "result" THEN copied ELSE 0

CallStep == Call!Next \/ UNCHANGED <<Stage, Well, wrote, Handed, emitted, cancelled, answer>>

(* kopia's own steps: an output is work, an end is an end, a line of stderr *)
(* and a storage that does not answer are nothing yet.                     *)
LEMMA ChildCalls == Inv /\ Verdict /\ (Kopia \/ ChildFails \/ Killed) => CallStep
  <1> SUFFICES ASSUME Inv, Verdict, Kopia \/ ChildFails \/ Killed PROVE CallStep
    OBVIOUS
  <1> USE DEF CallStep, Stage, Well, Handed, pipes, tail
  <1>1. CASE WriteOut
    <2>1. Call!Works
      BY <1>1 DEF WriteOut, Call!Works
    <2> QED
      BY <2>1 DEF Call!Next
  <1>2. CASE WriteErr
    BY <1>2 DEF WriteErr
  <1>3. CASE ChildExits
    <2>1. Call!Ends
      BY <1>3 DEF ChildExits, Call!Ends
    <2> QED
      BY <2>1 DEF Call!Next
  <1>4. CASE ChildFails
    <2>1. CASE child' = "exited"
      <3>1. Call!Ends
        BY <1>4, <2>1 DEF ChildFails, Call!Ends
      <3> QED
        BY <3>1 DEF Call!Next
    <2>2. CASE child' # "exited"
      BY <1>4, <2>2 DEF ChildFails
    <2> QED
      BY <2>1, <2>2
  <1>5. CASE Killed
    <2>1. Call!Ends
      BY <1>5 DEF Killed, Call!Ends
    <2> QED
      BY <2>1 DEF Call!Next
  <1> QED
    BY <1>1, <1>2, <1>3, <1>4, <1>5 DEF Kopia

(* The scanning goroutine tells what it hears, while nobody is answered. *)
LEMMA ScannerCalls == Inv /\ Verdict /\ Scanner => CallStep
  <1> SUFFICES ASSUME Inv, Verdict, Scanner PROVE CallStep
    OBVIOUS
  <1> USE DEF CallStep, Stage, Well, Handed, pipes, tail
  <1>1. CASE ScanEnd
    BY <1>1 DEF ScanEnd
  <1>2. CASE Scan
    <2>1. child # "none" /\ answer = "none"
      <3>1. scan = "scanning"
        BY <1>2 DEF Scan
      <3>2. main \in {"copy", "join"}
        BY <3>1 DEF Inv, TypeOK, Order
      <3> QED
        BY <3>2 DEF Inv, Order, Verdict
    <2>2. CASE Head(stderr) = 0
      BY <1>2, <2>2 DEF Scan
    <2>3. CASE Head(stderr) # 0
      <3>1. Call!Tells
        BY <1>2, <2>1, <2>3 DEF Scan, Call!Tells
      <3> QED
        BY <3>1 DEF Call!Next
    <2> QED
      BY <2>2, <2>3
  <1> QED
    BY <1>1, <1>2 DEF Scanner

(* The main goroutine: it starts kopia, or answers one that is over. *)
LEMMA MainCalls == Inv /\ Verdict /\ (Main \/ Cancel) => CallStep
  <1> SUFFICES ASSUME Inv, Verdict, Main \/ Cancel PROVE CallStep
    OBVIOUS
  <1> USE DEF Inv, Order, CallStep, Stage, Well, Handed, pipes, tail
  <1>1. CASE StartChild
    <2>1. answer = "none" /\ child = "none"
      BY <1>1 DEF StartChild
    <2>2. Call!Starts \/ Call!Stops \/ Call!Fails
      BY <1>1, <2>1 DEF StartChild, Call!Starts, Call!Stops, Call!Fails
    <2> QED
      BY <2>2 DEF Call!Next
  <1>2. CASE Copy
    <2>1. answer = "none" /\ answer' = "none"
      BY <1>2 DEF Copy
    <2> QED
      BY <1>2, <2>1 DEF Copy
  <1>3. CASE CopyEnd \/ Join \/ Wait
    BY <1>3 DEF CopyEnd, Join, Wait
  <1>4. CASE Check
    <2>1. answer = "none" /\ child = "exited"
      BY <1>4 DEF Check
    <2>2. CASE answer' = "none"
      BY <1>4, <2>1, <2>2 DEF Check
    <2>3. CASE answer' # "none"
      <3>1. Call!Stops \/ Call!Fails
        BY <1>4, <2>1, <2>3 DEF Check, Call!Stops, Call!Fails
      <3> QED
        BY <3>1 DEF Call!Next
    <2> QED
      BY <2>2, <2>3
  <1>5. CASE Result
    <2>1. answer = "none" /\ child = "exited" /\ status = "ok"
      BY <1>5 DEF Result, Verdict
    <2>2. copied = wrote
      BY <1>5 DEF Result, TypeOK, Flow
    <2>3. Call!Succeeds
      BY <1>5, <2>1, <2>2 DEF Result, Call!Succeeds
    <2> QED
      BY <2>3 DEF Call!Next
  <1>6. CASE Cancel
    <2>1. answer = "none"
      BY <1>6 DEF Cancel
    <2>2. Call!GivesUp
      BY <1>6, <2>1 DEF Cancel, Call!GivesUp
    <2> QED
      BY <2>2 DEF Call!Next
  <1> QED
    BY <1>1, <1>2, <1>3, <1>4, <1>5, <1>6 DEF Main

(* Run implements KopiaCall: a call of kopia is a step for whoever makes   *)
(* it, whatever the pipes hold and whoever is cancelled or killed.         *)
THEOREM RunIsACall == Spec => CallPromised
  <1>1. Init => Call!Init
    BY DEF Init, Call!Init
  <1>2. Inv /\ Verdict /\ [Next]_vars => [Call!Next]_(Call!call)
    <2> SUFFICES ASSUME Inv, Verdict, [Next]_vars PROVE [Call!Next]_(Call!call)
      OBVIOUS
    <2>1. CASE Next
      BY <2>1, ChildCalls, ScannerCalls, MainCalls
         DEF Next, CallStep, Stage, Well, Handed, Call!call
    <2>2. CASE UNCHANGED vars
      BY <2>2 DEF vars, Call!call
    <2> QED
      BY <2>1, <2>2
  <1> QED
    BY InitInv, NextInv, VerdictInit, VerdictStep, <1>1, <1>2, PTL
       DEF Spec, CallPromised, Call!Spec

-----------------------------------------------------------------------------
(* What of "run ends" needs no fairness: no run is infinite, and none is    *)
(* stuck but on a kopia that nobody can help.                               *)

(* How much there is left to do: what kopia has to write counts twice,      *)
(* because somebody has to read it.                                         *)
Unread == 2 * (Out - wrote) + stdout + 2 * (Err - said) + Len(stderr)
ChildLeft == CASE child = "none" -> 3 [] child = "running" -> 2
               [] child = "hung" -> 1 [] OTHER -> 0
MainLeft == CASE main = "start" -> 6 [] main = "copy" -> 5 [] main = "join" -> 4
              [] main = "wait" -> 3 [] main = "check" -> 2 [] main = "result" -> 1
              [] OTHER -> 0
ScanLeft == CASE scan = "none" -> 2 [] scan = "scanning" -> 1 [] OTHER -> 0
CancelLeft == IF cancelled THEN 0 ELSE 1

Rank == Unread + ChildLeft + MainLeft + ScanLeft + CancelLeft

Ranked == /\ Unread \in Nat /\ ChildLeft \in Nat /\ MainLeft \in Nat
          /\ ScanLeft \in Nat /\ CancelLeft \in Nat

LEMMA RankType == Inv => Ranked
  <1> SUFFICES ASSUME Inv PROVE Ranked
    OBVIOUS
  <1>1. Unread \in Nat
    <2>1. /\ wrote \in Nat /\ wrote <= Out /\ said \in Nat /\ said <= Err
          /\ stdout \in Nat /\ Len(stderr) \in Nat
      BY RunAssumption DEF Inv, TypeOK
    <2> QED
      BY <2>1, RunAssumption DEF Unread
  <1>2. ChildLeft \in Nat /\ MainLeft \in Nat /\ ScanLeft \in Nat /\ CancelLeft \in Nat
    BY DEF ChildLeft, MainLeft, ScanLeft, CancelLeft
  <1> QED
    BY <1>1, <1>2 DEF Ranked

LEMMA LessInOne ==
    ASSUME NEW a \in Nat, NEW b \in Nat, NEW c \in Nat, NEW d \in Nat, NEW e \in Nat,
           NEW v \in Nat, NEW w \in Nat, NEW x \in Nat, NEW y \in Nat, NEW z \in Nat,
           v <= a, w <= b, x <= c, y <= d, z <= e,
           v < a \/ w < b \/ x < c \/ y < d \/ z < e
    PROVE  v + w + x + y + z < a + b + c + d + e
  OBVIOUS

(* Every step of kopia, of a goroutine or of the caller brings the end      *)
(* nearer, for pipes and outputs of any size: there is no infinite run.     *)
THEOREM RunIsFinite == Spec => [](Rank \in Nat) /\ [][Rank' < Rank]_vars
  <1>1. Inv /\ Ranked /\ Ranked' /\ [Next]_vars => [Rank' < Rank]_vars
    <2> SUFFICES ASSUME Inv, Ranked, Ranked', Next PROVE Rank' < Rank
      OBVIOUS
    <2>1. /\ Unread \in Nat /\ ChildLeft \in Nat /\ MainLeft \in Nat
          /\ ScanLeft \in Nat /\ CancelLeft \in Nat
      BY DEF Ranked
    <2>2. /\ Unread' \in Nat /\ ChildLeft' \in Nat /\ MainLeft' \in Nat
          /\ ScanLeft' \in Nat /\ CancelLeft' \in Nat
      BY DEF Ranked
    <2>3. ASSUME /\ Unread' <= Unread /\ ChildLeft' <= ChildLeft /\ MainLeft' <= MainLeft
                 /\ ScanLeft' <= ScanLeft /\ CancelLeft' <= CancelLeft,
                 \/ Unread' < Unread \/ ChildLeft' < ChildLeft \/ MainLeft' < MainLeft
                 \/ ScanLeft' < ScanLeft \/ CancelLeft' < CancelLeft
          PROVE  Rank' < Rank
      BY <2>1, <2>2, <2>3, LessInOne DEF Rank
    <2>4. /\ wrote \in Nat /\ said \in Nat /\ stdout \in Nat /\ stderr \in Seq(0 .. Err)
          /\ Out \in Nat /\ Err \in Nat
      BY RunAssumption DEF Inv, TypeOK
    <2>5. CASE WriteOut
      <3>1. Unread' < Unread
        BY <2>4, <2>5 DEF WriteOut, Unread
      <3>2. UNCHANGED <<ChildLeft, MainLeft, ScanLeft, CancelLeft>>
        BY <2>5 DEF WriteOut, ChildLeft, MainLeft, ScanLeft, CancelLeft
      <3> QED
        BY <3>1, <3>2, <2>1, <2>2, <2>3
    <2>6. CASE WriteErr
      <3>1. Len(stderr') = Len(stderr) + 1 /\ Len(stderr) \in Nat
        BY <2>4, <2>6, RunAssumption DEF WriteErr
      <3>2. Unread' < Unread
        BY <2>4, <2>6, <3>1 DEF WriteErr, Unread
      <3>3. UNCHANGED <<ChildLeft, MainLeft, ScanLeft, CancelLeft>>
        BY <2>6 DEF WriteErr, ChildLeft, MainLeft, ScanLeft, CancelLeft
      <3> QED
        BY <3>2, <3>3, <2>1, <2>2, <2>3
    <2>7. CASE ChildExits \/ ChildFails \/ Killed
      <3>1. UNCHANGED <<Unread, MainLeft, ScanLeft, CancelLeft>>
        BY <2>7 DEF ChildExits, ChildFails, Killed, pipes, Unread, MainLeft, ScanLeft,
                    CancelLeft
      <3>2. ChildLeft' < ChildLeft
        BY <2>7 DEF ChildExits, ChildFails, Killed, ChildLeft
      <3> QED
        BY <3>1, <3>2, <2>1, <2>2, <2>3
    <2>8. CASE Scan
      <3>1. Len(stderr') = Len(stderr) - 1 /\ Len(stderr) \in Nat
        BY <2>4, <2>8 DEF Scan
      <3>2. Unread' < Unread
        BY <2>4, <2>8, <3>1 DEF Scan, Unread
      <3>3. UNCHANGED <<ChildLeft, MainLeft, CancelLeft>> /\ ScanLeft' <= ScanLeft
        BY <2>8 DEF Scan, ChildLeft, MainLeft, ScanLeft, CancelLeft
      <3> QED
        BY <3>2, <3>3, <2>1, <2>2, <2>3
    <2>9. CASE ScanEnd
      <3>1. UNCHANGED <<Unread, ChildLeft, MainLeft, CancelLeft>> /\ ScanLeft' < ScanLeft
        BY <2>9 DEF ScanEnd, pipes, Unread, ChildLeft, MainLeft, ScanLeft, CancelLeft
      <3> QED
        BY <3>1, <2>1, <2>2, <2>3
    <2>10. CASE StartChild
      <3>1. UNCHANGED <<Unread, CancelLeft>> /\ MainLeft' < MainLeft
        BY <2>10 DEF StartChild, pipes, Unread, MainLeft, CancelLeft
      <3>2. ChildLeft' <= ChildLeft /\ ScanLeft' <= ScanLeft
        BY <2>10 DEF StartChild, Inv, Order, ChildLeft, ScanLeft
      <3> QED
        BY <3>1, <3>2, <2>1, <2>2, <2>3
    <2>11. CASE Copy
      <3>1. Unread' < Unread
        BY <2>4, <2>11 DEF Copy, Unread
      <3>2. UNCHANGED <<ChildLeft, MainLeft, ScanLeft, CancelLeft>>
        BY <2>11 DEF Copy, ChildLeft, MainLeft, ScanLeft, CancelLeft
      <3> QED
        BY <3>1, <3>2, <2>1, <2>2, <2>3
    <2>12. CASE CopyEnd \/ Join \/ Wait \/ Check \/ Result
      <3>1. UNCHANGED <<Unread, ChildLeft, ScanLeft, CancelLeft>>
        BY <2>12 DEF CopyEnd, Join, Wait, Check, Result, pipes, Unread, ChildLeft, ScanLeft,
                     CancelLeft
      <3>2. MainLeft' < MainLeft
        BY <2>12 DEF CopyEnd, Join, Wait, Check, Result, MainLeft
      <3> QED
        BY <3>1, <3>2, <2>1, <2>2, <2>3
    <2>13. CASE Cancel
      <3>1. UNCHANGED <<Unread, ChildLeft, MainLeft, ScanLeft>> /\ CancelLeft' < CancelLeft
        BY <2>13 DEF Cancel, pipes, Unread, ChildLeft, MainLeft, ScanLeft, CancelLeft
      <3> QED
        BY <3>1, <2>1, <2>2, <2>3
    <2> QED
      BY <2>5, <2>6, <2>7, <2>8, <2>9, <2>10, <2>11, <2>12, <2>13
         DEF Next, Kopia, Scanner, Main
  <1>2. Ranked => Rank \in Nat
    BY DEF Ranked, Rank
  <1> QED
    BY Invariance, RankType, <1>1, <1>2, PTL DEF Spec

(* What each of them needs for its next step. *)
KopiaReady ==
    /\ child = "running"
    /\ \/ wrote < Out /\ stdout < Pipe
       \/ said < Err /\ Len(stderr) < Pipe
       \/ wrote = Out /\ said = Err
ScannerReady == scan = "scanning" /\ (stderr # <<>> \/ child = "exited")
MainReady ==
    \/ main \in {"start", "check", "result"}
    \/ main = "copy" /\ (stdout > 0 \/ child = "exited")
    \/ main = "join" /\ scan \in {"gaveUp", "ended"}
    \/ main = "wait" /\ child = "exited"
KillReady == cancelled /\ child \in {"running", "hung"}

(* The pipes never make kopia, the copy and the scan wait for each other:   *)
(* until run has answered, somebody can go on, unless kopia hangs or its    *)
(* stderr has been given up, and nobody has cancelled it.                   *)
NeverStuck ==
    \/ main = "done"
    \/ KopiaReady \/ ScannerReady \/ MainReady \/ KillReady
    \/ ~cancelled /\ (child = "hung" \/ scan = "gaveUp")

(* Pipes of any size and outputs of any length: no order of reads, writes  *)
(* and ends leaves everybody waiting.                                      *)
THEOREM RunNeverStuck == Spec => []NeverStuck
  <1>1. Inv /\ Verdict => NeverStuck
    <2> SUFFICES ASSUME Inv, Verdict, main # "done", ~MainReady, ~ScannerReady, ~KillReady,
                        cancelled \/ (child # "hung" /\ scan # "gaveUp")
                 PROVE  KopiaReady
      BY DEF NeverStuck
    <2>1. main = "copy" \/ main = "join"
      BY DEF Inv, TypeOK, Order, MainReady
    <2>2. main = "copy" /\ stdout = 0 /\ child # "exited"
      <3>1. CASE main = "join"
        BY <3>1 DEF Inv, TypeOK, Order, MainReady, ScannerReady, Verdict
      <3>2. CASE main = "copy"
        BY <3>2 DEF Inv, TypeOK, MainReady
      <3> QED
        BY <2>1, <3>1, <3>2
    <2>3. child = "running" /\ ~cancelled /\ scan \notin {"gaveUp"}
      BY <2>2 DEF Inv, TypeOK, Verdict, KillReady
    <2>4. scan = "scanning" /\ stderr = <<>>
      BY <2>2, <2>3 DEF Inv, TypeOK, Verdict, ScannerReady
    <2> QED
      BY <2>2, <2>3, <2>4, RunAssumption DEF KopiaReady, Inv, TypeOK
  <1> QED
    BY InitInv, NextInv, VerdictInit, VerdictStep, <1>1, PTL DEF Spec
=============================================================================
