----------------------------- MODULE ServeProofs -----------------------------
(***************************************************************************)
(* Theorems about Serve, for any poll, cap, call and number of orphans:    *)
(* the types, that looks keep to the backoff and a corrected file is still *)
(* looked at in bounded time, and that serve collects every orphan and not *)
(* the child of its own look.                                              *)
(***************************************************************************)
EXTENDS Serve, TLAPS, WellFoundedInduction

\* Whose child there is, when.
OwnChild ==
    /\ pc = "call" => own \in {"running", "zombie"}
    /\ pc # "call" => own = "none"

\* How much later than now the next look may be.  After a child signal (`top`, not due)
\* the timer has still to be armed; in a look only its calls have passed.
Timing ==
    /\ pc = "select" /\ ~done => age + left <= Late(restarts)
    /\ pc = "top" /\ ~done /\ ~due => age + Max <= Late(restarts)
    /\ pc = "call" => age <= spent

\* What the loop still has to wait.  `due` is set by the timer and taken back by the look
\* it leads to, so that a child signal leaves it as it was.
Pacing ==
    /\ due => pc = "top" /\ ~done
    /\ wait >= Backoff(fails)
    /\ pc = "select" /\ ~done => quiet + left >= Backoff(fails)

IInv == TypeOK /\ OwnChild /\ Timing /\ PickedUp /\ Pacing /\ BackedOff

-----------------------------------------------------------------------------
(* Powers of two.                                                          *)

\* A set of natural numbers that is not empty has a least element.
LEMMA Least == ASSUME NEW S \in SUBSET Nat, S # {}
               PROVE  \E m \in S : \A n \in S : m <= n
  <1>1. PICK m \in S : \A n \in S : ~ (<<n, m>> \in OpToRel(<, Nat))
    BY NatLessThanWellFounded, WFMin, Zenon
  <1>2. \A n \in S : ~ (n < m)
    BY <1>1 DEF OpToRel
  <1> QED BY <1>2

\* A set with 0 and the successor of each of its elements is that of the naturals.
LEMMA AllNat == ASSUME NEW S \in SUBSET Nat, 0 \in S, \A n \in S : n + 1 \in S
                PROVE  S = Nat
  <1> SUFFICES ASSUME Nat \ S # {} PROVE FALSE
    OBVIOUS
  <1>1. PICK m \in Nat \ S : \A n \in Nat \ S : m <= n
    BY Least
  <1>2. m - 1 \in Nat /\ m - 1 \in S
    BY <1>1
  <1>3. (m - 1) + 1 \in S
    BY <1>2
  <1> QED BY <1>1, <1>3

\* h is PowerOf2 as far as n.
Doubles(h, n) ==
    /\ h \in [0 .. n -> Nat] /\ h[0] = 1
    /\ \A i \in 1 .. n : h[i] = 2 * h[i - 1]

LEMMA DoublesExist == \A n \in Nat : \E h : Doubles(h, n)
  <1> DEFINE S == {n \in Nat : \E h : Doubles(h, n)}
  <1>1. 0 \in S
    <2>1. Doubles([i \in 0 .. 0 |-> 1], 0)
      BY DEF Doubles
    <2> QED BY <2>1
  <1>2. ASSUME NEW n \in S PROVE n + 1 \in S
    <2>1. PICK h : Doubles(h, n)
      BY <1>2
    <2> DEFINE g == [i \in 0 .. n + 1 |-> IF i <= n THEN h[i] ELSE 2 * h[n]]
    <2>2. g \in [0 .. n + 1 -> Nat] /\ g[0] = 1
      BY <2>1, n \in Nat DEF Doubles
    <2>3. ASSUME NEW i \in 1 .. n + 1 PROVE g[i] = 2 * g[i - 1]
      <3>1. CASE i <= n
        BY <3>1, <2>1, n \in Nat DEF Doubles
      <3>2. CASE i = n + 1
        BY <3>2, <2>1, n \in Nat DEF Doubles
      <3> QED BY <3>1, <3>2, n \in Nat
    <2>4. Doubles(g, n + 1)
      BY <2>2, <2>3 DEF Doubles
    <2> QED BY <2>4, n \in Nat
  <1> HIDE DEF S
  <1>3. S = Nat
    BY <1>1, <1>2, AllNat DEF S
  <1> QED BY <1>3 DEF S

LEMMA DoublesAgree ==
    ASSUME NEW n \in Nat, NEW h, Doubles(h, n), NEW g, Doubles(g, n + 1)
    PROVE  h[n] = g[n]
  <1> DEFINE S == {i \in Nat : i <= n => h[i] = g[i]}
  <1>1. 0 \in S
    BY DEF Doubles
  <1>2. ASSUME NEW i \in S PROVE i + 1 \in S
    <2>1. ASSUME i + 1 <= n PROVE h[i + 1] = g[i + 1]
      <3>1. i + 1 \in 1 .. n /\ i + 1 \in 1 .. n + 1 /\ (i + 1) - 1 = i /\ h[i] = g[i]
        BY <1>2, <2>1
      <3> QED BY <3>1 DEF Doubles
    <2> QED BY <2>1, <1>2
  <1> HIDE DEF S
  <1>3. S = Nat
    BY <1>1, <1>2, AllNat DEF S
  <1> QED BY <1>3 DEF S

\* What the recursive function PowerOf2 computes: TLA+ defines it as some function that
\* meets its equation, and there is one.
LEMMA Unfolds == /\ PowerOf2[0] = 1
                 /\ \A k \in Nat : PowerOf2[k] \in Nat /\ PowerOf2[k + 1] = 2 * PowerOf2[k]
  <1> DEFINE H(n) == CHOOSE h : Doubles(h, n)
             g == [k \in Nat |-> H(k)[k]]
  <1>1. ASSUME NEW n \in Nat PROVE Doubles(H(n), n)
    BY DoublesExist
  <1> HIDE DEF H
  <1>2. g[0] = 1 /\ \A k \in Nat : g[k] \in Nat
    BY <1>1 DEF Doubles
  <1>3. ASSUME NEW k \in Nat PROVE g[k + 1] = 2 * g[k]
    <2>1. H(k)[k] = H(k + 1)[k]
      BY <1>1, DoublesAgree
    <2>2. H(k + 1)[k + 1] = 2 * H(k + 1)[(k + 1) - 1]
      BY <1>1 DEF Doubles
    <2> QED BY <2>1, <2>2
  <1>4. g = [k \in Nat |-> IF k = 0 THEN 1 ELSE 2 * g[k - 1]]
    <2>1. ASSUME NEW k \in Nat PROVE g[k] = IF k = 0 THEN 1 ELSE 2 * g[k - 1]
      <3>1. ASSUME k # 0 PROVE g[k] = 2 * g[k - 1]
        <4>1. k - 1 \in Nat /\ (k - 1) + 1 = k
          BY <3>1
        <4> HIDE DEF g
        <4> QED BY <4>1, <1>3
      <3> QED BY <3>1, <1>2
    <2> DEFINE r == [k \in Nat |-> IF k = 0 THEN 1 ELSE 2 * g[k - 1]]
    <2>2. \A k \in Nat : g[k] = r[k]
      <3> HIDE DEF g
      <3> QED BY <2>1
    <2>3. DOMAIN g = Nat /\ DOMAIN r = Nat /\ g = [k \in DOMAIN g |-> g[k]] /\ r = [k \in DOMAIN r |-> r[k]]
      OBVIOUS
    <2> HIDE DEF g, r
    <2>4. g = r
      BY <2>2, <2>3
    <2> QED BY <2>4 DEF r
  <1> HIDE DEF g
  <1>5. PowerOf2 = [k \in Nat |-> IF k = 0 THEN 1 ELSE 2 * PowerOf2[k - 1]]
    BY <1>4 DEF PowerOf2
  <1>6. PowerOf2[0] = 1
    BY <1>5
  <1>7. ASSUME NEW k \in Nat PROVE PowerOf2[k + 1] = 2 * PowerOf2[k]
    BY <1>5, k + 1 # 0, (k + 1) - 1 = k, k + 1 \in Nat
  <1> DEFINE S == {k \in Nat : PowerOf2[k] \in Nat}
  <1>8. 0 \in S /\ \A k \in S : k + 1 \in S
    BY <1>6, <1>7
  <1> HIDE DEF S
  <1>9. S = Nat
    BY <1>8, AllNat DEF S
  <1> QED BY <1>6, <1>7, <1>9 DEF S

\* A failure more never shortens the backoff, and at most doubles it.
LEMMA BackoffGrows ==
    ASSUME NEW k \in Nat
    PROVE  /\ Backoff(k) \in Nat /\ Backoff(k) <= Max
           /\ Backoff(0) = Poll
           /\ Backoff(k + 1) <= 2 * Backoff(k)
  <1>1. Poll \in Nat /\ Max \in Nat /\ Poll <= Max
    BY ServeAssumption
  <1>2. PowerOf2[0] = 1 /\ PowerOf2[k] \in Nat /\ PowerOf2[k + 1] = 2 * PowerOf2[k]
    BY Unfolds
  <1>3. Poll * PowerOf2[k] \in Nat
    BY <1>1, <1>2
  <1>4. Poll * PowerOf2[k + 1] = 2 * (Poll * PowerOf2[k])
    BY <1>1, <1>2
  <1>5. Poll * PowerOf2[0] = Poll
    BY <1>1, <1>2
  <1> QED BY <1>1, <1>3, <1>4, <1>5 DEF Backoff, Lesser

-----------------------------------------------------------------------------

\* A call and a backoff are within what a look may be late by.
LEMMA LateBase == ASSUME NEW k \in Nat
                  PROVE  /\ Late(k) \in Nat
                         /\ CallMax + Max <= Late(k)
                         /\ Late(k + 1) = Late(k) + Max
  <1>1. Max \in Nat /\ CallMax \in Nat
    BY ServeAssumption
  <1>2. Max * k \in Nat /\ Max * (1 + k) = Max + Max * k
    BY <1>1, SMT
  <1>3. Max * (1 + (k + 1)) = Max + Max + Max * k
    BY <1>1, SMT
  <1> QED BY <1>1, <1>2, <1>3, SMT DEF Late

LEMMA InitInv == Init => IInv
  <1> SUFFICES ASSUME Init PROVE IInv
    OBVIOUS
  <1>1. Poll \in 1 .. Max /\ Max \in Nat /\ CallMax \in Nat
    BY ServeAssumption
  <1>2. Late(0) \in Nat
    BY LateBase
  <1>3. TypeOK
    <2>1. wait \in 1 .. Max /\ left \in 0 .. Max /\ quiet \in 0 .. Max /\ spent \in 0 .. CallMax
      BY <1>1 DEF Init
    <2>2. born \in 0 .. MaxOrphans /\ fails \in 0 .. MaxFails
      BY ServeAssumption DEF Init
    <2>3. chan \in 0 .. 1 /\ orphans \in Nat /\ zombies \in Nat /\ orphans + zombies <= born
      BY DEF Init
    <2>4. age \in Nat /\ restarts \in Nat
      BY DEF Init
    <2>5. /\ pc \in {"top", "call", "select", "reap", "ended"}
          /\ own \in {"none", "running", "zombie", "stolen"}
          /\ done \in BOOLEAN /\ due \in BOOLEAN /\ cancelled \in BOOLEAN
          /\ files \in Files
      BY DEF Init
    <2> QED BY <2>1, <2>2, <2>3, <2>4, <2>5 DEF TypeOK
  <1>4. OwnChild /\ Timing
    BY DEF Init, OwnChild, Timing
  <1>5. PickedUp
    BY <1>2 DEF Init, PickedUp
  <1>6. Pacing /\ BackedOff
    BY <1>1, BackoffGrows DEF Init, Pacing, BackedOff
  <1> QED BY <1>3, <1>4, <1>5, <1>6 DEF IInv

-----------------------------------------------------------------------------

\* A failed look leaves a timer that can run.
LEMMA Waits == ASSUME TypeOK
               PROVE  /\ Failed => wait' \in 1 .. Max /\ fails' \in 0 .. MaxFails
                      /\ Idle => wait' \in 1 .. Max /\ fails' \in 0 .. MaxFails
  BY ServeAssumption DEF TypeOK, Failed, Idle, Lesser

LEMMA TypeStep == TypeOK /\ [Next]_vars => TypeOK'
  <1> SUFFICES ASSUME TypeOK, [Next]_vars PROVE TypeOK'
    OBVIOUS
  <1> USE ServeAssumption
  <1>1. CASE UNCHANGED vars
    BY <1>1 DEF TypeOK, vars
  <1>zero. 0 \in 0 .. Max /\ 0 \in 0 .. CallMax /\ 0 \in Nat /\ \A w \in 1 .. Max : w \in 0 .. Max
    OBVIOUS
  <1>begins. ASSUME LookBegins
        PROVE  /\ due' \in BOOLEAN /\ age' \in Nat /\ restarts' \in Nat
    BY <1>begins, <1>zero DEF LookBegins, TypeOK
  <1>2. CASE LookIdle
    <2>1. wait' \in 1 .. Max /\ fails' \in 0 .. MaxFails
      BY <1>2, Waits DEF LookIdle
    <2>2. left' \in 0 .. Max /\ quiet' \in 0 .. Max
      BY <1>2, <1>zero, <2>1 DEF LookIdle
    <2> QED BY <1>2, <2>1, <2>2, <1>begins DEF LookIdle, children, TypeOK
  <1>3. CASE LookDone
    <2>1. left' \in 0 .. Max /\ quiet' \in 0 .. Max
      BY <1>3, <1>zero DEF LookDone
    <2> QED BY <1>3, <2>1, <1>begins DEF LookDone, children, TypeOK
  <1>4. CASE LookFails
    <2>1. wait' \in 1 .. Max /\ fails' \in 0 .. MaxFails
      BY <1>4, Waits DEF LookFails
    <2>2. left' \in 0 .. Max /\ quiet' \in 0 .. Max
      BY <1>4, <1>zero, <2>1 DEF LookFails
    <2> QED BY <1>4, <2>1, <2>2, <1>begins DEF LookFails, children, TypeOK
  <1>5. CASE LookConnects
    BY <1>5 DEF LookConnects, LookBegins, children, TypeOK, Files
  <1>6. CASE CallEnds
    <2>1. wait' \in 1 .. Max /\ fails' \in 0 .. MaxFails
      BY <1>6, Waits DEF CallEnds, TypeOK
    <2>2. left' \in 0 .. Max /\ quiet' \in 0 .. Max /\ spent' \in 0 .. CallMax
      BY <1>6, <1>zero, <2>1 DEF CallEnds
    <2>3. done' \in BOOLEAN
      BY <1>6 DEF CallEnds
    <2> QED BY <1>6, <2>1, <2>2, <2>3 DEF CallEnds, children, TypeOK
  <1>7. CASE Arm
    BY <1>7 DEF Arm, look, children, hist, TypeOK
  <1>8. CASE Stopped
    BY <1>8 DEF Stopped, look, children, hist, TypeOK
  <1>9. CASE TimerFires
    BY <1>9 DEF TimerFires, look, children, hist, TypeOK
  <1>10. CASE ChildSignal
    BY <1>10 DEF ChildSignal, look, hist, TypeOK
  <1>11. CASE ReapOne
    BY <1>11 DEF ReapOne, Collects, loop, hist, TypeOK
  <1>12. CASE ReapEnd
    BY <1>12 DEF ReapEnd, look, children, TypeOK
  <1>13. CASE KopiaExits
    BY <1>13 DEF KopiaExits, loop, hist, TypeOK
  <1>14. CASE WaitTick
    BY <1>14 DEF WaitTick, look, children, Lesser, TypeOK
  <1>15. CASE CallTick
    BY <1>15 DEF CallTick, loop, children, TypeOK
  <1>16. CASE FilesChange
    BY <1>16 DEF FilesChange, loop, look, children, TypeOK
  <1>17. CASE Orphaned
    BY <1>17 DEF Orphaned, loop, look, hist, TypeOK
  <1>18. CASE OrphanExits
    BY <1>18 DEF OrphanExits, loop, look, hist, TypeOK
  <1>19. CASE Cancel
    BY <1>19 DEF Cancel, loop, look, children, hist, TypeOK
  <1> QED BY <1>1, <1>2, <1>3, <1>4, <1>5, <1>6, <1>7, <1>8, <1>9, <1>10, <1>11, <1>12,
             <1>13, <1>14, <1>15, <1>16, <1>17, <1>18, <1>19 DEF Next, Main, World

LEMMA OwnStep == TypeOK /\ OwnChild /\ [Next]_vars => OwnChild'
  BY DEF TypeOK, OwnChild, Next, Main, World, vars, LookIdle, LookDone, LookFails,
         LookConnects, LookBegins, CallEnds, Arm, Stopped, TimerFires, ChildSignal,
         ReapOne, Collects, ReapEnd, KopiaExits, WaitTick, CallTick, FilesChange,
         Orphaned, OrphanExits, Cancel, loop, look

-----------------------------------------------------------------------------

\* The clock: a step that begins a look or changes the files starts it anew, one that
\* lets time pass shortens the timer, and a child signal earns one more backoff.
LEMMA TimeStep == IInv /\ [Next]_vars => Timing' /\ PickedUp'
  <1> SUFFICES ASSUME IInv, [Next]_vars PROVE Timing' /\ PickedUp'
    OBVIOUS
  <1> USE ServeAssumption
  <1>1. TypeOK /\ TypeOK'
    BY TypeStep DEF IInv
  <1>2. /\ age \in Nat /\ restarts \in Nat /\ left \in Nat /\ wait \in 1 .. Max
        /\ left <= Max /\ spent \in Nat /\ spent <= CallMax /\ CallMax \in Nat /\ Max \in Nat
    BY <1>1 DEF TypeOK
  <1>3. wait' \in 1 .. Max /\ left' \in 0 .. Max /\ spent' \in 0 .. CallMax
    BY <1>1 DEF TypeOK
  <1>4. /\ Late(restarts) \in Nat /\ CallMax + Max <= Late(restarts)
        /\ Late(restarts + 1) = Late(restarts) + Max
    BY <1>2, LateBase
  <1>5. Late(0) \in Nat /\ CallMax + Max <= Late(0)
    BY LateBase
  <1>6. age <= Late(restarts)
    BY DEF IInv, PickedUp
  <1>7. ASSUME LookBegins, left' <= Max
        PROVE  age' = 0 /\ restarts' = 0 /\ age' + left' <= Late(restarts') /\ PickedUp'
    <2>1. age' = 0 /\ restarts' = 0
      BY <1>7 DEF LookBegins
    <2>2. age' + left' <= Late(0) /\ age' <= Late(0)
      BY <2>1, <1>3, <1>5, <1>2, <1>7
    <2> QED BY <2>1, <2>2 DEF PickedUp, Late
  <1>8. CASE LookIdle
    <2>1. age' + left' <= Late(restarts') /\ PickedUp'
      BY <1>8, <1>7, <1>3 DEF LookIdle
    <2> QED BY <1>8, <2>1 DEF LookIdle, Timing, Late
  <1>9. CASE LookDone
    BY <1>9, <1>7, <1>3 DEF LookDone, Timing, Late
  <1>10. CASE LookFails
    <2>1. age' + left' <= Late(restarts') /\ PickedUp'
      BY <1>10, <1>7, <1>3 DEF LookFails
    <2> QED BY <1>10, <2>1 DEF LookFails, Timing, Late
  <1>11. CASE LookConnects
    BY <1>11, <1>7, <1>2, <1>3 DEF LookConnects, Timing, Late
  <1>12. CASE CallEnds
    <2>1. age <= spent /\ age' = age /\ restarts' = restarts /\ pc' = "select"
      BY <1>12 DEF IInv, Timing, CallEnds
    <2>2. age' + left' <= Late(restarts)
      BY <2>1, <1>2, <1>3, <1>4
    <2> QED BY <2>1, <2>2, <1>6 DEF Timing, PickedUp, Late
  <1>13. CASE Arm
    <2>1. age' = age /\ restarts' = restarts /\ pc' = "select" /\ pc = "top" /\ done' = done
      BY <1>13 DEF Arm, hist
    <2>2. ASSUME ~done PROVE age' + left' <= Late(restarts)
      <3>1. age + Max <= Late(restarts)
        BY <1>13, <2>1, <2>2 DEF IInv, Timing, Arm
      <3> QED BY <3>1, <2>1, <1>2, <1>3, <1>4
    <2> QED BY <2>1, <2>2, <1>6 DEF Timing, PickedUp, Late
  <1>14. ASSUME age' = age, restarts' = restarts, pc' \notin {"select", "top", "call"}
         PROVE  Timing' /\ PickedUp'
    BY <1>14, <1>6 DEF Timing, PickedUp, Late
  <1>15. CASE Stopped
    BY <1>14, <1>15 DEF Stopped, hist
  <1>16. CASE TimerFires
    BY <1>16, <1>6 DEF TimerFires, hist, Timing, PickedUp, Late
  <1>17. CASE ChildSignal
    BY <1>14, <1>17 DEF ChildSignal, hist
  <1>18. CASE ReapOne
    BY <1>14, <1>18 DEF ReapOne, loop, hist
  <1>19. CASE ReapEnd
    <2>1. age' = age /\ restarts' = restarts + 1 /\ pc' = "top"
      BY <1>19 DEF ReapEnd
    <2>2. Late(restarts') = Late(restarts) + Max
      BY <2>1, <1>4
    <2>3. age' + Max <= Late(restarts') /\ age' <= Late(restarts')
      BY <2>1, <2>2, <1>2, <1>4, <1>6
    <2> QED BY <2>1, <2>3 DEF Timing, PickedUp, Late
  <1>20. ASSUME UNCHANGED <<pc, done, due, left, spent, age, restarts>>
         PROVE  Timing' /\ PickedUp'
    BY <1>20, <1>6 DEF IInv, Timing, PickedUp, Late
  <1>21. CASE KopiaExits \/ Orphaned \/ OrphanExits \/ Cancel \/ UNCHANGED vars
    BY <1>20, <1>21 DEF KopiaExits, Orphaned, OrphanExits, Cancel, loop, look, hist, vars
  <1>22. CASE WaitTick
    <2>1. /\ age' = age + 1 /\ left' = left - 1 /\ restarts' = restarts /\ pc' = "select"
          /\ left > 0 /\ age + left <= Late(restarts)
      BY <1>22 DEF WaitTick, IInv, Timing
    <2>2. age' + left' <= Late(restarts') /\ age' <= Late(restarts')
      BY <2>1, <1>2, <1>4
    <2> QED BY <2>1, <2>2 DEF Timing, PickedUp, Late
  <1>23. CASE CallTick
    <2>1. pc = "call" /\ pc' = "call" /\ age <= spent
      BY <1>23, <1>1 DEF CallTick, loop, IInv, OwnChild, Timing
    <2>2. age' = age + 1 /\ spent' = spent + 1 /\ restarts' = restarts
      BY <1>23 DEF CallTick
    <2>3. age' <= spent' /\ age' <= Late(restarts)
      BY <2>1, <2>2, <1>2, <1>3, <1>4
    <2> QED BY <2>1, <2>2, <2>3 DEF Timing, PickedUp, Late
  <1>24. CASE FilesChange
    <2>1. /\ age' = 0 /\ restarts' = 0 /\ left' = left /\ spent' = spent
      BY <1>24 DEF FilesChange, loop, look
    <2>2. age' + left' <= Late(restarts') /\ age' + Max <= Late(restarts') /\ age' <= spent'
          /\ age' <= Late(restarts')
      BY <2>1, <1>2, <1>5
    <2> QED BY <2>2 DEF Timing, PickedUp, Late
  <1> QED BY <1>8, <1>9, <1>10, <1>11, <1>12, <1>13, <1>15, <1>16, <1>17, <1>18, <1>19,
             <1>21, <1>22, <1>23, <1>24 DEF Next, Main, World

-----------------------------------------------------------------------------

\* A failed look waits for the backoff of one failure more, an idle one for the poll.
LEMMA Earns == ASSUME TypeOK, wait >= Backoff(fails)
               PROVE  (Failed \/ Idle) => wait' >= Backoff(fails')
  <1>1. wait \in 1 .. Max /\ fails \in 0 .. MaxFails /\ Max \in Nat /\ MaxFails \in Nat
    BY ServeAssumption DEF TypeOK
  <1>2. fails \in Nat /\ fails + 1 \in Nat
    BY <1>1
  <1>3. /\ Backoff(fails) \in Nat /\ Backoff(fails) <= Max
        /\ Backoff(fails + 1) \in Nat /\ Backoff(fails + 1) <= Max
        /\ Backoff(fails + 1) <= 2 * Backoff(fails)
        /\ Backoff(0) = Poll
    BY <1>2, BackoffGrows
  <1>4. CASE Failed
    <2>1. fails' = fails \/ fails' = fails + 1
      BY <1>4, <1>1 DEF Failed, Lesser
    <2>2. wait' >= Backoff(fails) /\ wait' >= Backoff(fails + 1)
      BY <1>4, <1>1, <1>3 DEF Failed, Lesser
    <2> QED BY <2>1, <2>2
  <1>5. CASE Idle
    BY <1>5, <1>3, ServeAssumption DEF Idle
  <1> QED BY <1>4, <1>5

\* The pace: the end of a look starts the timer with what its failures have earned, and a
\* child signal starts it anew, never with less.
LEMMA PaceStep == IInv /\ [Next]_vars => Pacing' /\ BackedOff'
  <1> SUFFICES ASSUME IInv, [Next]_vars PROVE Pacing' /\ BackedOff'
    OBVIOUS
  <1>1. TypeOK /\ TypeOK' /\ Pacing /\ BackedOff
    BY TypeStep DEF IInv
  <1>2. /\ wait \in Nat /\ left \in Nat /\ quiet \in Nat /\ quiet <= Max /\ Max \in Nat
        /\ wait' \in Nat /\ left' \in Nat /\ quiet' \in Nat
    BY <1>1, ServeAssumption DEF TypeOK
  <1>3. fails \in Nat /\ Backoff(fails) \in Nat /\ Backoff(fails) <= Max
    BY <1>1, ServeAssumption, BackoffGrows DEF TypeOK
  <1>4. ASSUME due' = FALSE, pc' = "select", wait' >= Backoff(fails'),
               done' \/ (quiet' = 0 /\ left' = wait')
        PROVE  Pacing' /\ BackedOff'
    BY <1>4, <1>2 DEF Pacing, BackedOff, Backoff, Lesser
  <1>5. CASE LookIdle \/ LookFails
    <2>1. wait' >= Backoff(fails')
      BY <1>1, <1>5, Earns DEF Pacing, LookIdle, LookFails
    <2> QED BY <2>1, <1>4, <1>5 DEF LookIdle, LookFails, LookBegins
  <1>6. CASE LookDone
    <2>1. wait' = wait /\ fails' = fails
      BY <1>6 DEF LookDone
    <2> QED BY <2>1, <1>1, <1>4, <1>6 DEF LookDone, LookBegins, Pacing, Backoff
  <1>7. CASE CallEnds
    <2>1. Failed \/ Idle \/ (wait' = wait /\ fails' = fails)
      BY <1>7 DEF CallEnds
    <2>2. wait' >= Backoff(fails')
      BY <2>1, <1>1, Earns DEF Pacing, Backoff
    <2>3. due = FALSE
      BY <1>7, <1>1 DEF Pacing, CallEnds, TypeOK
    <2> QED BY <2>2, <2>3, <1>4, <1>7 DEF CallEnds
  <1>8. ASSUME UNCHANGED <<wait, fails>>, due' = FALSE, pc' # "select"
        PROVE  Pacing' /\ BackedOff'
    BY <1>8, <1>1 DEF Pacing, BackedOff, Backoff
  <1>9. CASE LookConnects
    BY <1>8, <1>9 DEF LookConnects, LookBegins
  <1>10. CASE Arm
    <2>1. due = FALSE
      BY <1>10, <1>1 DEF Arm, Pacing, TypeOK
    <2>2. done' \/ quiet' + left' >= Backoff(fails)
      BY <1>10, <1>1, <1>2, <1>3 DEF Arm, hist, Pacing
    <2> QED BY <2>1, <2>2, <1>10, <1>1 DEF Arm, hist, Pacing, BackedOff, Backoff
  <1>11. ASSUME pc = "select" \/ pc = "reap" PROVE due = FALSE
    BY <1>11, <1>1 DEF Pacing, TypeOK
  <1>12. CASE Stopped \/ ChildSignal \/ ReapEnd
    <2>1. UNCHANGED <<wait, fails, due>> /\ pc' # "select" /\ (pc = "select" \/ pc = "reap")
      BY <1>12 DEF Stopped, ChildSignal, ReapEnd, hist
    <2> QED BY <2>1, <1>8, <1>11
  <1>13. CASE TimerFires
    <2>1. quiet >= Backoff(fails)
      BY <1>13, <1>1, <1>2, <1>3 DEF TimerFires, Pacing
    <2> QED BY <2>1, <1>13, <1>1 DEF TimerFires, hist, Pacing, BackedOff, Backoff
  <1>14. CASE WaitTick
    <2>1. /\ pc = "select" /\ pc' = "select" /\ UNCHANGED <<due, done, wait, fails>>
          /\ left' = left - 1 /\ quiet' = Lesser(quiet + 1, Max)
          /\ quiet + left >= Backoff(fails)
      BY <1>14, <1>1 DEF WaitTick, Pacing
    <2>2. quiet' + left' >= Backoff(fails)
      BY <2>1, <1>2, <1>3 DEF Lesser
    <2> QED BY <2>1, <2>2, <1>1 DEF Pacing, BackedOff, Backoff
  <1>15. ASSUME UNCHANGED <<pc, done, due, wait, left, quiet, fails>>
         PROVE  Pacing' /\ BackedOff'
    BY <1>15, <1>1 DEF Pacing, BackedOff, Backoff
  <1>16. CASE ReapOne \/ KopiaExits \/ CallTick \/ FilesChange \/ Orphaned \/ OrphanExits
              \/ Cancel \/ UNCHANGED vars
    BY <1>15, <1>16 DEF ReapOne, KopiaExits, CallTick, FilesChange, Orphaned, OrphanExits,
                        Cancel, loop, hist, vars
  <1> QED BY <1>5, <1>6, <1>7, <1>9, <1>10, <1>12, <1>13, <1>14, <1>16 DEF Next, Main, World

LEMMA Invariance == Spec => []IInv
  <1>1. IInv /\ [Next]_vars => IInv'
    BY TypeStep, OwnStep, TimeStep, PaceStep DEF IInv
  <1> QED BY <1>1, InitInv, PTL DEF Spec

-----------------------------------------------------------------------------

\* Every variable keeps its type; a timer is never started with nothing to wait for.
THEOREM TypeCorrect == Spec => []TypeOK
  <1>1. IInv => TypeOK
    BY DEF IInv
  <1> QED BY <1>1, Invariance, PTL

\* A changed file is looked at in the time of a call and a backoff, and a backoff more
\* for each child signal, whatever the owner, the storage and the orphans do.
THEOREM PickedUpInTime == Spec => []PickedUp
  <1>1. IInv => PickedUp
    BY DEF IInv
  <1> QED BY <1>1, Invariance, PTL

\* A look begins no sooner after the last than its failures have earned, for any poll and
\* any cap, whatever child signals come in between.
THEOREM LooksBackOff == Spec => []BackedOff
  <1>1. IInv => BackedOff
    BY DEF IInv
  <1> QED BY <1>1, Invariance, PTL

\* reap never takes the exit status of a look's own kopia.
THEOREM StatusAlwaysKept == Spec => []StatusKept
  <1>1. IInv => StatusKept
    BY DEF IInv, OwnChild, StatusKept
  <1> QED BY <1>1, Invariance, PTL

\* What of "no orphan stays a zombie" needs no fairness: one signal does for all the
\* orphans whose own was dropped, because serve takes it before it collects and collects
\* until there is none (main.go:324-341).
SignalStands == zombies > 0 => chan = 1 \/ pc = "reap"

\* While an orphan waits to be collected its signal, or another's, stands in the channel,
\* or serve is collecting: no order of exits, looks and signals loses it.
THEOREM SignalAlwaysStands == Spec => []SignalStands
  <1>1. Init => SignalStands
    BY DEF Init, SignalStands
  <1>2. IInv /\ SignalStands /\ [Next]_vars => SignalStands'
    <2> SUFFICES ASSUME IInv, SignalStands, [Next]_vars PROVE SignalStands'
      OBVIOUS
    <2>1. zombies \in Nat
      BY DEF IInv, TypeOK
    <2>2. CASE OrphanExits \/ KopiaExits
      BY <2>2 DEF OrphanExits, KopiaExits, SignalStands
    <2>3. CASE ChildSignal
      BY <2>3 DEF ChildSignal, SignalStands
    <2>4. CASE ReapOne \/ ReapEnd
      BY <2>4, <2>1 DEF ReapOne, ReapEnd, Collects, loop, children, SignalStands
    <2>5. ASSUME UNCHANGED <<chan, zombies>>, pc # "reap" \/ pc' = pc PROVE SignalStands'
      BY <2>5 DEF SignalStands
    <2>6. CASE LookIdle \/ LookDone \/ LookFails \/ LookConnects \/ CallEnds \/ Arm
      BY <2>5, <2>6 DEF LookIdle, LookDone, LookFails, LookConnects, LookBegins, CallEnds,
                        Arm, children
    <2>7. CASE Stopped \/ TimerFires
      BY <2>5, <2>7 DEF Stopped, TimerFires, children
    <2>8. CASE WaitTick \/ CallTick \/ FilesChange \/ Orphaned \/ Cancel \/ UNCHANGED vars
      BY <2>5, <2>8 DEF WaitTick, CallTick, FilesChange, Orphaned, Cancel, children, loop,
                        vars
    <2> QED BY <2>2, <2>3, <2>4, <2>6, <2>7, <2>8 DEF Next, Main, World
  <1> QED BY <1>1, <1>2, Invariance, PTL DEF Spec
=============================================================================
