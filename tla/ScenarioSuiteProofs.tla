--------------------------- MODULE ScenarioSuiteProofs ---------------------------
(***************************************************************************)
(* What a passed scenario is worth: that the checks of bond_lifecycle and   *)
(* persistence_faults, of link_auth and of radio_policy find every fault    *)
(* they are written for, in every combination, and fail no sound watch;    *)
(* but for what the theorems at the end except, where the scenario is too   *)
(* quick for the bridge or the watch.                                      *)
(*                                                                         *)
(* Each scenario has an inductive invariant of the same form: its types;   *)
(* as long as no check has failed, the faults ruled out so far (RadioFound, *)
(* LinkFound, BondFound) and where that leaves the watch (RadioPlace,      *)
(* LinkHeld, BondPlace); and that without faults no check has failed.      *)
(* BridgeInv is what the bonds need to know of connections whose end the   *)
(* bridge has not noticed.  A step of the scenario has a lemma that         *)
(* computes what its requests make of the watch and compares that with its  *)
(* checks.  SuiteInv, at the end, is the invariant of whichever runs.      *)
(***************************************************************************)
EXTENDS ScenarioSuite, SequenceTheorems, FunctionTheorems, FiniteSetTheorems,
        WellFoundedInduction, TLAPS

-----------------------------------------------------------------------------
(* radio_policy.                                                            *)

\* A non-empty set of natural numbers has a least element.
LEMMA LeastNumber ==
    ASSUME NEW T \in SUBSET Nat, T # {}
    PROVE  \E n \in T : \A m \in T : ~ (m < n)
<1>1. \E n \in T : \A m \in T : <<m, n>> \notin OpToRel(<, Nat)
  BY NatLessThanWellFounded, WFMin
<1> QED
  BY <1>1 DEF OpToRel

\* Induction over all smaller numbers, with a set rather than a predicate of them.
LEMMA StrongInduction ==
    ASSUME NEW T \in SUBSET Nat, \A n \in Nat : (\A m \in 0..(n - 1) : m \in T) => n \in T
    PROVE  T = Nat
<1> SUFFICES ASSUME Nat \ T # {} PROVE FALSE
  OBVIOUS
<1>1. PICK n \in Nat \ T : \A m \in Nat \ T : ~ (m < n)
  BY LeastNumber
<1>2. \A m \in 0..(n - 1) : m \in Nat /\ m < n
  BY <1>1
<1> QED
  BY <1>1, <1>2

-----------------------------------------------------------------------------
(* ADVANCE.                                                                  *)

\* One turn of it, and the first n.
Turn(f, left) ==
    [x \in Adverts!Radio |->
        IF x.timer = 0 THEN x
        ELSE IF left < x.timer THEN [x EXCEPT !.timer = @ - left]
        ELSE f[left - x.timer][Adverts!Due(x)]]
Turns(f, n) == f = [left \in 0..n |-> Turn(f, left)]

\* A turn depends on those with less time left only.
LEMMA TurnLocal ==
    ASSUME NEW left \in Nat, NEW f, NEW g, \A i \in 0..(left - 1) : f[i] = g[i]
    PROVE  Turn(f, left) = Turn(g, left)
<1> SUFFICES ASSUME NEW x \in Adverts!Radio, x.timer # 0, ~(left < x.timer)
             PROVE  f[left - x.timer] = g[left - x.timer]
  BY Zenon DEF Turn
<1>1. x.timer \in Nat
  BY DEF Adverts!Radio
<1>2. left - x.timer \in 0..(left - 1)
  BY <1>1
<1> QED
  BY <1>2

\* Two functions that take the first turns agree where both are defined.
LEMMA TurnsAgree ==
    ASSUME NEW m \in Nat, NEW n \in Nat, NEW f, NEW g, Turns(f, m), Turns(g, n)
    PROVE  \A k \in Nat : k <= m /\ k <= n => f[k] = g[k]
<1> DEFINE T == {k \in Nat : k <= m /\ k <= n => f[k] = g[k]}
<1>1. ASSUME NEW k \in Nat, \A i \in 0..(k - 1) : i \in T PROVE k \in T
  <2> SUFFICES ASSUME k <= m, k <= n PROVE f[k] = g[k]
    OBVIOUS
  <2>1. k \in 0..m /\ k \in 0..n
    OBVIOUS
  <2>2. f[k] = Turn(f, k) /\ g[k] = Turn(g, k)
    BY <2>1, Zenon DEF Turns
  <2>3. \A i \in 0..(k - 1) : f[i] = g[i]
    BY <1>1
  <2>4. Turn(f, k) = Turn(g, k)
    BY <2>3, TurnLocal
  <2> QED
    BY <2>2, <2>4
<1>2. T \in SUBSET Nat
  OBVIOUS
<1> HIDE DEF T
<1>3. T = Nat
  BY <1>1, <1>2, StrongInduction
<1> QED
  BY <1>3 DEF T

\* There is a function that takes the first n turns.
LEMMA TurnsExist == \A n \in Nat : \E f : Turns(f, n)
<1> DEFINE T == {n \in Nat : \E f : Turns(f, n)}
           C(i) == CHOOSE f : Turns(f, i)
<1>1. ASSUME NEW n \in Nat, \A i \in 0..(n - 1) : i \in T PROVE n \in T
  <2> DEFINE p == [i \in 0..(n - 1) |-> C(i)[i]]
             f == [left \in 0..n |-> IF left = n THEN Turn(p, n) ELSE p[left]]
  <2>1. \A i \in 0..(n - 1) : Turns(C(i), i)
    BY <1>1
  <2> HIDE DEF C
  <2>2. \A i \in 0..(n - 1), j \in Nat : j <= i => C(i)[j] = p[j]
    <3> SUFFICES ASSUME NEW i \in 0..(n - 1), NEW j \in Nat, j <= i PROVE C(i)[j] = p[j]
      OBVIOUS
    <3>1. i \in Nat /\ j \in 0..(n - 1) /\ j <= j
      OBVIOUS
    <3>2. Turns(C(i), i) /\ Turns(C(j), j)
      BY <2>1, <3>1
    <3>3. C(i)[j] = C(j)[j]
      BY <3>1, <3>2, TurnsAgree
    <3>4. p[j] = C(j)[j]
      BY <3>1
    <3> QED
      BY <3>3, <3>4
  <2>3. \A i \in 0..(n - 1) : p[i] = Turn(p, i)
    <3> SUFFICES ASSUME NEW i \in 0..(n - 1) PROVE p[i] = Turn(p, i)
      OBVIOUS
    <3>1. i \in Nat /\ i \in 0..i /\ \A j \in 0..(i - 1) : j \in Nat /\ j <= i
      OBVIOUS
    <3>2. C(i)[i] = Turn(C(i), i)
      BY <2>1, <3>1, Zenon DEF Turns
    <3>3. \A j \in 0..(i - 1) : C(i)[j] = p[j]
      BY <2>2, <3>1
    <3> HIDE DEF p
    <3>4. Turn(C(i), i) = Turn(p, i)
      BY <3>1, <3>3, TurnLocal
    <3>5. C(i)[i] = p[i]
      BY <2>2, <3>1
    <3> QED
      BY <3>2, <3>4, <3>5
  <2>4. \A i \in 0..(n - 1) : i \in 0..n /\ i # n /\ f[i] = p[i]
    OBVIOUS
  <2>5. n \in 0..n /\ f[n] = Turn(p, n)
    OBVIOUS
  <2>6. \A i \in 0..n : f[i] = Turn(p, i)
    BY <2>3, <2>4, <2>5
  <2>7. DOMAIN f = 0..n /\ f = [i \in 0..n |-> f[i]]
    OBVIOUS
  <2> HIDE DEF f, p
  <2>8. ASSUME NEW i \in 0..n PROVE Turn(p, i) = Turn(f, i)
    <3>1. i \in Nat /\ \A j \in 0..(i - 1) : j \in 0..(n - 1)
      OBVIOUS
    <3>2. \A j \in 0..(i - 1) : p[j] = f[j]
      BY <2>4, <3>1
    <3> QED
      BY <3>1, <3>2, TurnLocal
  <2>9. Turns(f, n)
    BY <2>6, <2>7, <2>8 DEF Turns
  <2> QED
    BY <2>9
<1>2. T \in SUBSET Nat
  OBVIOUS
<1> HIDE DEF T
<1>3. T = Nat
  BY <1>1, <1>2, StrongInduction
<1> QED
  BY <1>3 DEF T

\* ADVANCE is the last of these turns.
LEMMA ElapsedTurns == \A n \in Nat : Adverts!Elapsed[n] = Turn(Adverts!Elapsed, n)
<1> DEFINE C(n) == CHOOSE f : Turns(f, n)
           h    == [n \in Nat |-> C(n)[n]]
<1>1. \A n \in Nat : Turns(C(n), n)
  BY TurnsExist
<1> HIDE DEF C
<1>2. ASSUME NEW n \in Nat PROVE h[n] = Turn(h, n)
  <2>1. n \in 0..n /\ \A i \in 0..(n - 1) : i \in Nat /\ i <= n /\ i <= i
    OBVIOUS
  <2>2. h[n] = Turn(C(n), n)
    BY <1>1, <2>1, Zenon DEF Turns
  <2>3. \A i \in 0..(n - 1) : C(n)[i] = C(i)[i]
    <3> SUFFICES ASSUME NEW i \in 0..(n - 1) PROVE C(n)[i] = C(i)[i]
      OBVIOUS
    <3>1. Turns(C(n), n) /\ Turns(C(i), i) /\ i \in Nat /\ i <= n /\ i <= i
      BY <1>1, <2>1
    <3> QED
      BY <3>1, TurnsAgree
  <2>4. \A i \in 0..(n - 1) : C(n)[i] = h[i]
    BY <2>1, <2>3
  <2> HIDE DEF h
  <2>5. Turn(C(n), n) = Turn(h, n)
    BY <2>4, TurnLocal
  <2> QED
    BY <2>2, <2>5
<1>3. h = [n \in Nat |-> Turn(h, n)]
  <2>1. h = [n \in Nat |-> h[n]]
    OBVIOUS
  <2> HIDE DEF h
  <2> QED
    BY <1>2, <2>1
<1> HIDE DEF h
<1>4. \E f : f = [left \in Nat |-> Turn(f, left)]
  BY <1>3
<1>5. Adverts!Elapsed = [left \in Nat |-> Turn(Adverts!Elapsed, left)]
  BY <1>4, Zenon DEF Adverts!Elapsed, Turn
<1> QED
  BY <1>5

\* What it does to a radio, one timer at a time.
LEMMA AdvanceStep ==
    ASSUME NEW x \in Adverts!Radio, NEW n \in Nat
    PROVE  Adverts!Advance(x, n) =
               IF x.timer = 0 THEN x
               ELSE IF n < x.timer THEN [x EXCEPT !.timer = @ - n]
               ELSE Adverts!Advance(Adverts!Due(x), n - x.timer)
<1>1. Adverts!Elapsed[n] = Turn(Adverts!Elapsed, n)
  BY ElapsedTurns, Zenon
<1>2. Turn(Adverts!Elapsed, n)[x] =
          IF x.timer = 0 THEN x
          ELSE IF n < x.timer THEN [x EXCEPT !.timer = @ - n]
          ELSE Adverts!Elapsed[n - x.timer][Adverts!Due(x)]
  BY Zenon DEF Turn
<1> QED
  BY <1>1, <1>2, Zenon DEF Adverts!Advance

\* A radio whose timer is no longer than the longest delay.
Longest == Adverts!Delays[4] + 1
Ticking(x) == x \in Adverts!Radio /\ x.timer <= Longest

\* The times of the code.
LEMMA Times ==
    /\ Adverts!Delays[1] = 250 /\ Adverts!Delays[2] = 1000 /\ Adverts!Delays[3] = 4000
    /\ Adverts!Delays[4] = 60000 /\ Len(Adverts!Delays) = 4 /\ Adverts!FastTime = 30000
    /\ Longest = 60001 /\ Adverts!Minute = 60000
  BY SMT DEF Adverts!Delays, Adverts!FastTime, Adverts!Minute, Longest

\* The k-th retry delay, with and without the faults that change it.
LEMMA DelayFacts ==
    ASSUME NEW k \in Nat, k >= 1
    PROVE  /\ Adverts!Delay(k) \in Nat /\ Adverts!Delay(k) > 0 /\ Adverts!Delay(k) <= Longest
           /\ k = 1 /\ "retries early" \in faults => Adverts!Delay(k) = Adverts!Delays[1] - 1
           /\ k = 1 /\ "retries early" \notin faults /\ "retries late" \in faults =>
                 Adverts!Delay(k) = Adverts!Delays[1] + 1
           /\ "retries early" \notin faults /\ "retries late" \notin faults =>
                 /\ "never backs off" \in faults \/ k = 1 => Adverts!Delay(k) = Adverts!Delays[1]
                 /\ "never backs off" \notin faults =>
                       /\ k = 2 => Adverts!Delay(k) = Adverts!Delays[2]
                       /\ k = 3 => Adverts!Delay(k) = Adverts!Delays[3]
                       /\ k = 4 => Adverts!Delay(k) = Adverts!Delays[4]
<1> DEFINE backs == "never backs off" \in faults
           soon  == "retries early" \in faults
           late  == "retries late" \in faults
           step  == IF k < Len(Adverts!Delays) THEN k ELSE Len(Adverts!Delays)
           due   == IF backs THEN Adverts!Delays[1] ELSE Adverts!Delays[step]
           delay == Adverts!Delay(k)
<1>2. /\ soon => delay = due - 1
      /\ ~soon /\ late => delay = due + 1
      /\ ~soon /\ ~late => delay = due
  BY Zenon DEF Adverts!Delay, Adverts!Has
<1>3. /\ backs => due = Adverts!Delays[1]
      /\ ~backs => due = Adverts!Delays[step]
      /\ k < Len(Adverts!Delays) => step = k
      /\ ~(k < Len(Adverts!Delays)) => step = Len(Adverts!Delays)
  BY Zenon
<1> HIDE DEF step, due, delay, backs, soon, late
<1>4. step \in 1..4 /\ (k \in 1..4 => step = k)
  BY <1>3, Times, SMT
<1>5. /\ due \in {Adverts!Delays[1], Adverts!Delays[2], Adverts!Delays[3], Adverts!Delays[4]}
      /\ backs \/ k = 1 => due = Adverts!Delays[1]
      /\ ~backs => (k = 2 => due = Adverts!Delays[2]) /\ (k = 3 => due = Adverts!Delays[3]) /\ (k = 4 => due = Adverts!Delays[4])
  BY <1>3, <1>4
<1>6. delay \in Nat /\ delay > 0 /\ delay <= Longest
  <2>1. due \in Nat /\ due >= Adverts!Delays[1] /\ due <= Adverts!Delays[4]
    BY <1>5, Times, SMT
  <2> QED
    BY <1>2, <2>1, Times, SMT
<1>7. ~soon /\ ~late =>
          /\ backs \/ k = 1 => delay = Adverts!Delays[1]
          /\ ~backs => (k = 2 => delay = Adverts!Delays[2]) /\ (k = 3 => delay = Adverts!Delays[3]) /\ (k = 4 => delay = Adverts!Delays[4])
  BY <1>2, <1>5
<1>8. /\ k = 1 /\ soon => delay = Adverts!Delays[1] - 1
      /\ k = 1 /\ ~soon /\ late => delay = Adverts!Delays[1] + 1
  BY <1>2, <1>5
<1> QED
  BY <1>6, <1>7, <1>8, Zenon DEF delay, backs, soon, late

\* The fields that a GAP start and a timer change.
LEMMA RadioFields ==
    ASSUME NEW x \in Adverts!Radio
    PROVE  /\ x.starts \in Nat /\ x.stops \in Nat /\ x.injected \in 0..4 /\ x.failures \in Nat
           /\ x.actual \in {"Off", "Fast", "Slow", "Beacon"} /\ x.timer \in Nat
           /\ x.terminates \in Nat /\ x.link \in BOOLEAN /\ x.dirty \in BOOLEAN /\ x.writes \in Nat
  BY DEF Adverts!Radio

\* What a GAP start leaves alone.
Same(z, x) == z.terminates = x.terminates /\ z.writes = x.writes
Kept(z, x) ==
    /\ z.stops = x.stops /\ z.terminates = x.terminates /\ z.link = x.link
    /\ z.dirty = x.dirty /\ z.writes = x.writes

\* A GAP start.
LEMMA StartedFacts ==
    ASSUME NEW x \in Adverts!Radio, NEW mode \in {"Fast", "Slow"}
    PROVE  LET z == Adverts!Started(x, mode)
           IN  /\ Ticking(z) /\ Kept(z, x)
               /\ (mode = "Slow" /\ "starts twice" \in faults) => z.starts = x.starts + 2
               /\ ~(mode = "Slow" /\ "starts twice" \in faults) => z.starts = x.starts + 1
               /\ z.starts > x.starts
               /\ x.injected > 0 =>
                     /\ z.injected = x.injected - 1 /\ z.failures = x.failures + 1
                     /\ "claims to be on" \in faults => z.actual = mode
                     /\ "claims to be on" \notin faults => z.actual = "Off"
                     /\ "gives up" \in faults => z.timer = 0
                     /\ "gives up" \notin faults => z.timer = Adverts!Delay(x.failures + 1)
               /\ x.injected = 0 =>
                     /\ z.injected = 0 /\ z.failures = 0 /\ z.actual = mode
                     /\ mode = "Fast" => z.timer = Adverts!FastTime
                     /\ mode = "Slow" => z.timer = 0
<1> DEFINE twice == mode = "Slow" /\ "starts twice" \in faults
           claims == "claims to be on" \in faults
           quits == "gives up" \in faults
           more  == IF twice THEN 2 ELSE 1
           shown == IF claims THEN mode ELSE "Off"
           delay == Adverts!Delay(x.failures + 1)
           retry == IF quits THEN 0 ELSE delay
           fast  == IF mode = "Fast" THEN Adverts!FastTime ELSE 0
           z     == Adverts!Started(x, mode)
<1>1. /\ x.starts \in Nat /\ x.injected \in 0..4 /\ x.failures \in Nat /\ x.timer \in Nat
      /\ x.failures + 1 \in Nat /\ x.failures + 1 >= 1
  BY RadioFields
<1>2. delay \in Nat /\ delay <= Longest
  BY <1>1, DelayFacts, Zenon
<1>3. /\ (twice => more = 2) /\ (~twice => more = 1)
  BY Zenon
<1>18. (claims => shown = mode) /\ (~claims => shown = "Off")
  BY Zenon
<1>19. (quits => retry = 0) /\ (~quits => retry = delay)
  BY Zenon
<1>20. (mode = "Fast" => fast = Adverts!FastTime) /\ (mode # "Fast" => fast = 0)
  BY Zenon
<1>4. x.injected > 0 =>
          z = [x EXCEPT !.starts = x.starts + more, !.injected = x.injected - 1,
                        !.failures = x.failures + 1, !.actual = shown, !.timer = retry]
  BY Zenon DEF Adverts!Started, Adverts!Has
<1>5. ~(x.injected > 0) =>
          z = [x EXCEPT !.starts = x.starts + more, !.failures = 0, !.actual = mode, !.timer = fast]
  BY Zenon DEF Adverts!Started, Adverts!Has
<1> HIDE DEF twice, claims, quits, more, shown, delay, retry, fast, z
<1>6. more \in {1, 2}
  BY <1>3
<1>7. x.starts + more \in Nat /\ x.starts + more > x.starts
  BY <1>1, <1>6
<1>8. shown \in {"Off", "Fast", "Slow", "Beacon"}
  BY <1>18
<1>9. retry \in Nat /\ retry <= Longest
  BY <1>2, <1>19, Times, SMT
<1>10. fast \in Nat /\ fast <= Longest /\ (mode = "Fast" => fast = Adverts!FastTime) /\ (mode = "Slow" => fast = 0)
  BY <1>20, Times, SMT
<1>11. ASSUME x.injected > 0
       PROVE  /\ Ticking(z) /\ Kept(z, x)
              /\ z.starts = x.starts + more
              /\ z.injected = x.injected - 1 /\ z.failures = x.failures + 1
              /\ z.actual = shown /\ z.timer = retry
  <2> DEFINE starts == x.starts + more
             injected == x.injected - 1
             failures == x.failures + 1
  <2>1. injected \in 0..4
    BY <1>1, <1>11
  <2>2. starts \in Nat /\ failures \in Nat
    BY <1>1, <1>7
  <2>3. z = [x EXCEPT !.starts = starts, !.injected = injected, !.failures = failures,
                      !.actual = shown, !.timer = retry]
    BY <1>4, <1>11, Zenon
  <2> HIDE DEF starts, injected, failures
  <2>4. z \in Adverts!Radio
    BY <1>8, <1>9, <2>1, <2>2, <2>3 DEF Adverts!Radio
  <2>5. /\ z.starts = starts
        /\ z.stops = x.stops /\ z.terminates = x.terminates /\ z.link = x.link
        /\ z.dirty = x.dirty /\ z.writes = x.writes
        /\ z.injected = injected /\ z.failures = failures
        /\ z.actual = shown /\ z.timer = retry
    BY <2>3 DEF Adverts!Radio
  <2> QED
    BY <1>9, <2>4, <2>5, Zenon DEF Ticking, Kept, starts, injected, failures
<1>12. ASSUME ~(x.injected > 0)
       PROVE  /\ Ticking(z) /\ Kept(z, x)
              /\ z.starts = x.starts + more
              /\ z.injected = 0 /\ z.failures = 0
              /\ z.actual = mode /\ z.timer = fast
  <2> DEFINE starts == x.starts + more
  <2>1. x.injected = 0
    BY <1>1, <1>12
  <2>2. starts \in Nat
    BY <1>7
  <2>3. z = [x EXCEPT !.starts = starts, !.failures = 0, !.actual = mode, !.timer = fast]
    BY <1>5, <1>12, Zenon
  <2> HIDE DEF starts
  <2>4. z \in Adverts!Radio
    BY <1>10, <2>2, <2>3 DEF Adverts!Radio
  <2>5. /\ z.starts = starts
        /\ z.stops = x.stops /\ z.terminates = x.terminates /\ z.link = x.link
        /\ z.dirty = x.dirty /\ z.writes = x.writes
        /\ z.injected = x.injected /\ z.failures = 0
        /\ z.actual = mode /\ z.timer = fast
    BY <2>3 DEF Adverts!Radio
  <2> QED
    BY <1>10, <2>1, <2>4, <2>5, Zenon DEF Ticking, Kept, starts
<1>13. Ticking(z) /\ Kept(z, x) /\ z.starts = x.starts + more
  BY <1>11, <1>12
<1>14. z.starts > x.starts /\ (twice => z.starts = x.starts + 2) /\ (~twice => z.starts = x.starts + 1)
  BY <1>3, <1>7, <1>13
<1>15. x.injected = 0 => ~(x.injected > 0)
  OBVIOUS
<1>16. x.injected > 0 =>
          /\ z.injected = x.injected - 1 /\ z.failures = x.failures + 1
          /\ claims => z.actual = mode
          /\ ~claims => z.actual = "Off"
          /\ quits => z.timer = 0
          /\ ~quits => z.timer = delay
  BY <1>18, <1>19, <1>11, Zenon
<1>17. x.injected = 0 =>
          /\ z.injected = 0 /\ z.failures = 0 /\ z.actual = mode
          /\ mode = "Fast" => z.timer = Adverts!FastTime
          /\ mode = "Slow" => z.timer = 0
  BY <1>10, <1>12, <1>15, Zenon
<1> QED
  BY <1>13, <1>14, <1>16, <1>17, Zenon DEF twice, claims, quits, delay, z

\* The timer runs out, after a failed start or of fast advertising.
LEMMA DueFacts ==
    ASSUME NEW x \in Adverts!Radio
    PROVE  LET d == Adverts!Due(x)
           IN  /\ Ticking(d) /\ d.starts >= x.starts /\ Same(d, x)
               /\ x.failures > 0 => d.starts > x.starts
               /\ x.failures > 0 /\ "retries into slow" \in faults => d = Adverts!Started(x, "Slow")
               /\ x.failures > 0 /\ "retries into slow" \notin faults => d = Adverts!Started(x, "Fast")
               /\ x.failures = 0 /\ "stays fast" \in faults => d = [x EXCEPT !.timer = Adverts!FastTime]
               /\ x.failures = 0 /\ "stays fast" \notin faults =>
                     \E y \in Adverts!Radio :
                         /\ d = Adverts!Started(y, "Slow")
                         /\ "never stops" \in faults => y.stops = x.stops
                         /\ "never stops" \notin faults => y.stops = x.stops + 1
                         /\ y.starts = x.starts /\ y.injected = x.injected /\ y.failures = x.failures
<1> DEFINE slow == "retries into slow" \in faults
           stays == "stays fast" \in faults
           never == "never stops" \in faults
           once == IF never THEN 0 ELSE 1
           stops == x.stops + once
           y    == [x EXCEPT !.stops = stops]
           d    == Adverts!Due(x)
<1>1. x.failures \in Nat /\ x.stops \in Nat /\ x.starts \in Nat /\ x.timer \in Nat
  BY RadioFields
<1>2. /\ x.failures > 0 /\ slow => d = Adverts!Started(x, "Slow")
      /\ x.failures > 0 /\ ~slow => d = Adverts!Started(x, "Fast")
      /\ ~(x.failures > 0) /\ stays => d = [x EXCEPT !.timer = Adverts!FastTime]
      /\ ~(x.failures > 0) /\ ~stays => d = Adverts!Started(y, "Slow")
  BY Zenon DEF Adverts!Due, Adverts!Has
<1>3. /\ never => once = 0
      /\ ~never => once = 1
  BY Zenon
<1> HIDE DEF once, d, slow, stays, never
<1>4. stops \in Nat /\ (never => stops = x.stops) /\ (~never => stops = x.stops + 1)
  BY <1>1, <1>3
<1> HIDE DEF stops
<1>5. /\ y \in Adverts!Radio /\ y.stops = stops
      /\ y.starts = x.starts /\ y.injected = x.injected /\ y.failures = x.failures /\ Same(y, x)
  BY <1>4 DEF Adverts!Radio, Same
<1>6. [x EXCEPT !.timer = Adverts!FastTime] \in Adverts!Radio
  BY Times, SMT DEF Adverts!Radio
<1>7. [x EXCEPT !.timer = Adverts!FastTime].timer = Adverts!FastTime /\ [x EXCEPT !.timer = Adverts!FastTime].starts = x.starts
      /\ Same([x EXCEPT !.timer = Adverts!FastTime], x)
  BY DEF Adverts!Radio, Same
<1> HIDE DEF y
<1>8. Ticking(d) /\ d.starts >= x.starts /\ Same(d, x) /\ (x.failures > 0 => d.starts > x.starts)
  <2>1. CASE x.failures > 0
    <3>1. PICK mode \in {"Fast", "Slow"} : d = Adverts!Started(x, mode)
      BY <1>2, <2>1
    <3>2. Ticking(d) /\ d.starts > x.starts /\ Same(d, x)
      BY <3>1, StartedFacts DEF Kept, Same
    <3>3. d.starts \in Nat
      BY <3>2, RadioFields DEF Ticking
    <3> QED
      BY <1>1, <3>2, <3>3
  <2>2. CASE ~(x.failures > 0) /\ stays
    <3> DEFINE z == [x EXCEPT !.timer = Adverts!FastTime]
    <3>1. d = z
      BY <1>2, <2>2
    <3> HIDE DEF z
    <3>2. Ticking(z) /\ z.starts = x.starts /\ Same(z, x)
      BY <1>6, <1>7, Times, SMT DEF z, Ticking
    <3> QED
      BY <1>1, <2>2, <3>1, <3>2
  <2>3. CASE ~(x.failures > 0) /\ ~stays
    <3>1. d = Adverts!Started(y, "Slow")
      BY <1>2, <2>3
    <3>2. Ticking(d) /\ d.starts > y.starts /\ Same(d, y)
      BY <1>5, <3>1, StartedFacts DEF Kept, Same
    <3>3. d.starts \in Nat
      BY <3>2, RadioFields DEF Ticking
    <3> QED
      BY <1>1, <1>5, <2>3, <3>2, <3>3 DEF Same
  <2> QED
    BY <2>1, <2>2, <2>3
<1>9. x.failures = 0 => ~(x.failures > 0)
  OBVIOUS
<1>10. x.failures = 0 /\ ~stays =>
          \E r \in Adverts!Radio :
              /\ d = Adverts!Started(r, "Slow")
              /\ never => r.stops = x.stops
              /\ ~never => r.stops = x.stops + 1
              /\ r.starts = x.starts /\ r.injected = x.injected /\ r.failures = x.failures
  BY <1>2, <1>4, <1>5, <1>9, Zenon
<1> QED
  BY <1>2, <1>8, <1>9, <1>10, Zenon DEF d, slow, stays, never

\* However long it takes, the radio ticks, and has not taken back a start.
LEMMA AdvanceTyped ==
    ASSUME NEW n \in Nat, NEW x, Ticking(x)
    PROVE  Ticking(Adverts!Advance(x, n)) /\ Adverts!Advance(x, n).starts >= x.starts
           /\ Same(Adverts!Advance(x, n), x)
<1> DEFINE Fine(i) == \A y : Ticking(y) =>
                          Ticking(Adverts!Advance(y, i)) /\ Adverts!Advance(y, i).starts >= y.starts
                          /\ Same(Adverts!Advance(y, i), y)
           T == {i \in Nat : Fine(i)}
<1>1. ASSUME NEW i \in Nat, \A j \in 0..(i - 1) : j \in T PROVE i \in T
  <2> SUFFICES ASSUME NEW y, Ticking(y)
               PROVE  Ticking(Adverts!Advance(y, i)) /\ Adverts!Advance(y, i).starts >= y.starts
                      /\ Same(Adverts!Advance(y, i), y)
    OBVIOUS
  <2>1. y \in Adverts!Radio /\ y.timer \in Nat /\ y.timer <= Longest /\ y.starts \in Nat
    BY DEF Ticking, Adverts!Radio
  <2>2. CASE y.timer = 0
    BY <2>1, <2>2, AdvanceStep DEF Same
  <2>3. CASE y.timer # 0 /\ i < y.timer
    <3>1. Adverts!Advance(y, i) = [y EXCEPT !.timer = @ - i]
      BY <2>1, <2>3, AdvanceStep
    <3>2. y.timer - i \in Nat /\ y.timer - i <= Longest
      BY <2>1, <2>3, Times, SMT
    <3> QED
      BY <2>1, <3>1, <3>2 DEF Ticking, Adverts!Radio, Same
  <2>4. CASE y.timer # 0 /\ ~(i < y.timer)
    <3>1. Adverts!Advance(y, i) = Adverts!Advance(Adverts!Due(y), i - y.timer)
      BY <2>1, <2>4, AdvanceStep
    <3>2. i - y.timer \in 0..(i - 1)
      BY <2>1, <2>4
    <3>3. Fine(i - y.timer)
      BY <1>1, <3>2
    <3>4. Ticking(Adverts!Due(y)) /\ Adverts!Due(y).starts >= y.starts /\ Same(Adverts!Due(y), y)
      BY <2>1, DueFacts
    <3> DEFINE d == Adverts!Due(y)
               a == Adverts!Advance(d, i - y.timer)
    <3>5. Ticking(a) /\ a.starts >= d.starts /\ Same(a, d)
      BY <3>3, <3>4, Zenon
    <3>6. d.starts \in Nat /\ a.starts \in Nat
      BY <3>4, <3>5 DEF Ticking, Adverts!Radio
    <3> HIDE DEF d, a
    <3>7. a.starts >= y.starts /\ Same(a, y)
      BY <2>1, <3>4, <3>5, <3>6 DEF d, Same
    <3> QED
      BY <3>1, <3>5, <3>7 DEF a, d
  <2> QED
    BY <2>2, <2>3, <2>4
<1>2. T \in SUBSET Nat
  OBVIOUS
<1> HIDE DEF T
<1>3. T = Nat
  BY <1>1, <1>2, StrongInduction
<1>4. Fine(n)
  BY <1>3, Zenon DEF T
<1> QED
  BY <1>4, Zenon

\* The four cases of it that the scenario meets.
LEMMA AdvanceFacts ==
    ASSUME NEW x, Ticking(x), NEW n \in Nat
    PROVE  /\ x.timer = 0 => Adverts!Advance(x, n) = x
           /\ x.timer > n => Adverts!Advance(x, n) = [x EXCEPT !.timer = @ - n]
           /\ x.timer = n /\ n > 0 => Adverts!Advance(x, n) = Adverts!Due(x)
           /\ x.timer \in 1..n /\ Adverts!Due(x).timer = 0 => Adverts!Advance(x, n) = Adverts!Due(x)
           /\ x.timer \in 1..n /\ x.failures > 0 => Adverts!Advance(x, n).starts > x.starts
<1>1. x \in Adverts!Radio /\ x.timer \in Nat /\ x.starts \in Nat /\ x.failures \in Nat
  BY DEF Ticking, Adverts!Radio
<1> DEFINE d == Adverts!Due(x)
<1>2. Ticking(d) /\ d \in Adverts!Radio /\ d.timer \in Nat
  BY <1>1, DueFacts DEF Ticking, Adverts!Radio
<1>3. x.timer \in 1..n => Adverts!Advance(x, n) = Adverts!Advance(d, n - x.timer) /\ n - x.timer \in Nat
  BY <1>1, AdvanceStep
<1>4. d.timer = 0 => \A m \in Nat : Adverts!Advance(d, m) = d
  BY <1>2, AdvanceStep
<1>5. ASSUME d.timer # 0 PROVE Adverts!Advance(d, 0) = d
  <2>1. Adverts!Advance(d, 0) = [d EXCEPT !.timer = @ - 0]
    BY <1>2, <1>5, AdvanceStep
  <2>2. [d EXCEPT !.timer = @ - 0] = d
    <3> HIDE DEF d
    <3> QED
      BY <1>2 DEF Adverts!Radio
  <2> QED
    BY <2>1, <2>2
<1>6. ASSUME x.timer \in 1..n, x.failures > 0 PROVE Adverts!Advance(x, n).starts > x.starts
  <2> DEFINE a == Adverts!Advance(d, n - x.timer)
  <2>2. d.starts > x.starts /\ d.starts \in Nat
    BY <1>1, <1>2, <1>6, DueFacts, RadioFields
  <2>3. a.starts >= d.starts /\ Ticking(a)
    BY <1>2, <1>3, <1>6, AdvanceTyped
  <2>4. a.starts \in Nat
    BY <2>3 DEF Ticking, Adverts!Radio
  <2>5. Adverts!Advance(x, n) = a
    BY <1>3, <1>6
  <2> HIDE DEF a, d
  <2> QED
    BY <1>1, <2>2, <2>3, <2>4, <2>5
<1>7. x.timer = 0 => Adverts!Advance(x, n) = x
  BY <1>1, AdvanceStep
<1>8. x.timer > n => Adverts!Advance(x, n) = [x EXCEPT !.timer = @ - n]
  BY <1>1, AdvanceStep
<1>9. ASSUME x.timer = n, n > 0 PROVE Adverts!Advance(x, n) = d
  <2>1. x.timer \in 1..n /\ n - x.timer = 0
    BY <1>9
  <2> QED
    BY <1>3, <1>4, <1>5, <2>1
<1>10. ASSUME x.timer \in 1..n, d.timer = 0 PROVE Adverts!Advance(x, n) = d
  BY <1>3, <1>4, <1>10
<1> QED
  BY <1>6, <1>7, <1>8, <1>9, <1>10

\* The phase that is next, by its name.
LEMMA PhaseNames ==
    /\ Len(Adverts!Phases) = 11
    /\ \A i \in 1..11 :
          /\ Adverts!Phases[i] = "slow" <=> i = 1
          /\ Adverts!Phases[i] = "retry" <=> i = 2
          /\ Adverts!Phases[i] = "backoff" <=> i = 3
          /\ Adverts!Phases[i] = "recover" <=> i = 8
          /\ Adverts!Phases[i] = "beacon" <=> i = 9
          /\ Adverts!Phases[i] = "settle" <=> i = 10
          /\ Adverts!Phases[i] = "done" <=> i = 11
          /\ Adverts!Phases[i] = Adverts!Phases[1 + 3] <=> i = 4
          /\ Adverts!Phases[i] = Adverts!Phases[2 + 3] <=> i = 5
          /\ Adverts!Phases[i] = Adverts!Phases[3 + 3] <=> i = 6
          /\ Adverts!Phases[i] = Adverts!Phases[4 + 3] <=> i = 7
<1>1. Len(Adverts!Phases) = 11
  BY SMT DEF Adverts!Phases
<1>2. /\ Adverts!Phases[1] = "slow" /\ Adverts!Phases[2] = "retry" /\ Adverts!Phases[3] = "backoff"
      /\ Adverts!Phases[4] = "delay 1" /\ Adverts!Phases[5] = "delay 2" /\ Adverts!Phases[6] = "delay 3"
      /\ Adverts!Phases[7] = "delay 4" /\ Adverts!Phases[8] = "recover" /\ Adverts!Phases[9] = "beacon"
      /\ Adverts!Phases[10] = "settle" /\ Adverts!Phases[11] = "done"
  BY SMT DEF Adverts!Phases
<1>3. \A i \in 1..11 : \/ i = 1 \/ i = 2 \/ i = 3 \/ i = 4 \/ i = 5 \/ i = 6 \/ i = 7
                       \/ i = 8 \/ i = 9 \/ i = 10 \/ i = 11
  OBVIOUS
<1>4. 1 + 3 = 4 /\ 2 + 3 = 5 /\ 3 + 3 = 6 /\ 4 + 3 = 7
  OBVIOUS
<1> QED
  BY <1>1, <1>2, <1>3, <1>4

\* A phase fails the checks that do not hold.
LEMMA PhaseChecks ==
    ASSUME NEW name, NEW x, NEW checks, Adverts!Phase(name, x, checks),
           at \in 1..10, failed \subseteq (1..11) \X Adverts!Check, \A c \in checks : c[1] \in Adverts!Check
    PROVE  /\ Adverts!Phases[at] = name /\ at' = at + 1 /\ at' \in 1..11
           /\ radio' = x /\ faults' = faults
           /\ failed' \subseteq (1..11) \X Adverts!Check
           /\ failed' = {} <=> failed = {} /\ \A c \in checks : c[2]
<1>1. /\ Adverts!Phases[at] = name /\ at' = at + 1 /\ radio' = x /\ faults' = faults
      /\ failed' = failed \cup {<<at, c[1]>> : c \in {d \in checks : ~d[2]}}
  BY Zenon DEF Adverts!Phase
<1>2. at' \in 1..11
  BY <1>1
<1> DEFINE more == {<<at, c[1]>> : c \in {d \in checks : ~d[2]}}
<1>3. more \subseteq (1..11) \X Adverts!Check
  <2> SUFFICES ASSUME NEW c \in checks PROVE <<at, c[1]>> \in (1..11) \X Adverts!Check
    OBVIOUS
  <2>1. c[1] \in Adverts!Check /\ at \in 1..11
    OBVIOUS
  <2> QED
    BY <2>1
<1>4. more = {} <=> \A c \in checks : c[2]
  BY Zenon
<1> HIDE DEF more
<1>5. failed' = failed \cup more
  BY <1>1 DEF more
<1> QED
  BY <1>1, <1>2, <1>3, <1>4, <1>5, Zenon

-----------------------------------------------------------------------------
\* A radio that has failed k of the four injected starts and waits for the next.
Retrying(k) ==
    radio.failures = k /\ radio.injected = 4 - k /\ radio.timer = Adverts!Delay(k)

\* Faults of these kinds have failed a check.
Turning  == {"stays fast", "starts twice", "never stops"}
Trying   == {"claims to be on", "gives up", "retries early", "retries late", "retries into slow"}
Backing  == {"never backs off"}
Leaving  == {"refuses beacon", "ignores beacon", "keeps link", "writes the key", "writes at once"}
Settling == {"never writes"}

RadioFound ==
    /\ at >= 2 => faults \cap Turning = {}
    /\ at >= 3 => faults \cap Trying = {}
    /\ at >= 6 => faults \cap Backing = {}
    /\ at >= 10 => faults \cap Leaving = {}
    /\ at >= 11 => faults \cap Settling = {}

Advertises(x) == x.actual \in {"Fast", "Slow"}

\* Where the radio is as long as no check has failed.
RadioPlace ==
    /\ at = 4 => Retrying(1)
    /\ at = 5 => Retrying(2)
    /\ at = 6 => Retrying(3)
    /\ at = 7 => Retrying(4)
    /\ at = 8 => radio.failures = 0 /\ radio.injected = 0 /\ radio.timer = Adverts!FastTime
    /\ at = 9 => Advertises(radio)
    /\ at = 10 => radio.dirty /\ ~radio.link /\ radio.writes = 0

RadioTyped ==
    /\ faults \subseteq Adverts!Fault
    /\ at \in 1..11
    /\ Ticking(radio)
    /\ failed \subseteq (1..11) \X Adverts!Check
    /\ hurried \in BOOLEAN

RadioInv ==
    /\ RadioTyped
    /\ at = 1 => radio = Adverts!Booted
    /\ at <= 9 => radio.writes = 0 /\ radio.terminates = 0 /\ ~hurried
    /\ failed = {} => RadioFound /\ RadioPlace
    /\ faults = {} /\ ~hurried => failed = {}

\* A radio that has just booted.
LEMMA BootedFacts ==
    /\ Ticking(Adverts!Booted)
    /\ Adverts!Booted.actual = "Fast" /\ Adverts!Booted.timer = Adverts!FastTime
    /\ Adverts!Booted.failures = 0 /\ Adverts!Booted.injected = 0
    /\ Adverts!Booted.starts = 1 /\ Adverts!Booted.stops = 0
    /\ Adverts!Booted.terminates = 0 /\ Adverts!Booted.writes = 0
<1>1. Adverts!FastTime \in Nat /\ Adverts!FastTime <= Longest
  BY Times, SMT
<1> QED
  BY <1>1 DEF Adverts!Booted, Adverts!Radio, Ticking

\* Thirty seconds turn a sound watch slow.
LEMMA TurnsSlowStep ==
    ASSUME RadioInv, Adverts!TurnsSlow PROVE RadioInv'
<1> DEFINE x == Adverts!Advance(radio, Adverts!FastTime)
           p == radio.actual = "Fast"
           q == x.actual = "Slow"
           r == x.stops = radio.stops + 1
           s == x.starts = radio.starts + 1
           a == "begins fast"
           b == "slow"
           c == "one stop"
           d == "one start"
           checks == {<<a, p>>, <<b, q>>, <<c, r>>, <<d, s>>}
<1>1. Adverts!Phase("slow", x, checks) /\ hurried' = hurried
  BY Zenon DEF Adverts!TurnsSlow
<1>2. at = 1 /\ radio = Adverts!Booted
  BY <1>1, PhaseNames, Zenon DEF RadioInv, RadioTyped, Adverts!Phase
<1>3. failed \subseteq (1..11) \X Adverts!Check /\ at \in 1..10
  BY <1>2 DEF RadioInv, RadioTyped
<1>4. {a, b, c, d} \subseteq Adverts!Check
  BY DEF Adverts!Check
<1> HIDE DEF a, b, c, d, p, q, r, s
<1>5. (\A e \in checks : e[1] \in Adverts!Check) /\ ((\A e \in checks : e[2]) <=> p /\ q /\ r /\ s)
  BY <1>4
<1> HIDE DEF checks
<1>6. /\ at' = 2 /\ radio' = x /\ faults' = faults
      /\ failed' \subseteq (1..11) \X Adverts!Check
      /\ failed' = {} <=> failed = {} /\ p /\ q /\ r /\ s
  BY <1>1, <1>2, <1>3, <1>5, PhaseChecks
<1>7. Ticking(radio) /\ radio.timer = Adverts!FastTime /\ Adverts!FastTime \in Nat /\ Adverts!FastTime > 0
  BY <1>2, BootedFacts, Times, SMT
<1>8. x = Adverts!Due(radio)
  BY <1>7, AdvanceFacts
<1>9. Ticking(x) /\ Same(x, radio)
  BY <1>7, AdvanceTyped
<1> HIDE DEF x
<1>10. p /\ q /\ r /\ s <=> faults \cap Turning = {}
  <2>1. /\ radio \in Adverts!Radio /\ radio.failures = 0 /\ radio.injected = 0 /\ radio.actual = "Fast"
        /\ radio.stops = 0 /\ radio.starts = 1
    BY <1>2, BootedFacts DEF Ticking
  <2> DEFINE never == "never stops" \in faults
             twice == "starts twice" \in faults
  <2>2. CASE "stays fast" \in faults
    <3>1. x = [radio EXCEPT !.timer = Adverts!FastTime]
      BY <1>8, <2>1, <2>2, DueFacts
    <3>2. x.actual = "Fast"
      BY <2>1, <3>1 DEF Adverts!Radio
    <3> QED
      BY <2>2, <3>2 DEF q, Turning
  <2>3. CASE "stays fast" \notin faults
    <3>1. PICK y \in Adverts!Radio :
             /\ x = Adverts!Started(y, "Slow")
             /\ never => y.stops = radio.stops
             /\ ~never => y.stops = radio.stops + 1
             /\ y.starts = radio.starts /\ y.injected = radio.injected
      BY <1>8, <2>1, <2>3, DueFacts, Zenon
    <3>2. /\ x.actual = "Slow" /\ x.stops = y.stops
          /\ twice => x.starts = y.starts + 2
          /\ ~twice => x.starts = y.starts + 1
      BY <2>1, <3>1, StartedFacts, Zenon DEF Kept
    <3> HIDE DEF never, twice
    <3>3. (never => x.stops = 0) /\ (~never => x.stops = 1)
      BY <2>1, <3>1, <3>2
    <3>4. (twice => x.starts = 3) /\ (~twice => x.starts = 2)
      BY <2>1, <3>1, <3>2
    <3>5. p /\ q
      BY <2>1, <3>2 DEF p, q
    <3>6. (r <=> ~never) /\ (s <=> ~twice)
      BY <2>1, <3>3, <3>4 DEF r, s
    <3>7. (never <=> "never stops" \in faults) /\ (twice <=> "starts twice" \in faults)
      BY Zenon DEF never, twice
    <3>8. faults \cap Turning = {} <=> ~never /\ ~twice
      BY <2>3, <3>7 DEF Turning
    <3> QED
      BY <3>5, <3>6, <3>8
  <2> QED
    BY <2>2, <2>3
<1>11. RadioTyped' /\ radio'.writes = 0 /\ radio'.terminates = 0
  BY <1>1, <1>2, <1>6, <1>9, BootedFacts DEF RadioInv, RadioTyped, Same
<1>12. ~hurried' /\ (faults = {} /\ ~hurried => failed = {})
  BY <1>1, <1>2 DEF RadioInv
<1>13. failed' = {} => faults' \cap Turning = {}
  BY <1>6, <1>10
<1>14. faults' = {} => failed' = {}
  BY <1>1, <1>6, <1>10, <1>12
<1> QED
  <2>1. at' # 1 /\ (at' <= 9 => radio'.writes = 0 /\ radio'.terminates = 0 /\ ~hurried')
    BY <1>6, <1>11, <1>12
  <2>2. failed' = {} => RadioFound' /\ RadioPlace'
    BY <1>6, <1>13 DEF RadioFound, RadioPlace
  <2> QED
    BY <1>11, <1>14, <2>1, <2>2 DEF RadioInv

\* RESET starts anew, with failures to come.
LEMMA ResetFacts ==
    ASSUME Ticking(radio), NEW k \in 0..4
    PROVE  LET x == Adverts!Reset(radio, k)
           IN  /\ Ticking(x) /\ x.timer = Adverts!FastTime /\ x.failures = 0 /\ x.injected = k
               /\ x.actual = "Fast" /\ x.terminates = 0 /\ x.writes = radio.writes
<1> DEFINE n == radio.writes
           x == [Adverts!Booted EXCEPT !.injected = k, !.writes = n]
<1>1. n \in Nat
  BY RadioFields DEF Ticking
<1>2. Adverts!Reset(radio, k) = x
  BY Zenon DEF Adverts!Reset
<1>3. Adverts!Booted \in Adverts!Radio
  BY BootedFacts DEF Ticking
<1> HIDE DEF n
<1>4. x \in Adverts!Radio
  BY <1>1, <1>3 DEF Adverts!Radio
<1>5. /\ x.timer = Adverts!Booted.timer /\ x.failures = Adverts!Booted.failures /\ x.injected = k
      /\ x.actual = Adverts!Booted.actual /\ x.terminates = Adverts!Booted.terminates /\ x.writes = n
  BY <1>3 DEF Adverts!Radio
<1> HIDE DEF x
<1>6. x.timer <= Longest
  BY <1>5, BootedFacts DEF Ticking
<1> QED
  BY <1>2, <1>4, <1>5, <1>6, BootedFacts, Zenon DEF n, Ticking

\* Time that ends before the timer.
LEMMA Waited ==
    ASSUME NEW x, Ticking(x), NEW n \in Nat, x.timer > n
    PROVE  LET z == Adverts!Advance(x, n)
           IN  /\ Ticking(z) /\ z.timer = x.timer - n /\ z.starts = x.starts /\ z.actual = x.actual
               /\ z.failures = x.failures /\ z.injected = x.injected /\ Same(z, x)
<1> DEFINE left == x.timer - n
           z == [x EXCEPT !.timer = left]
<1>1. x \in Adverts!Radio /\ x.timer \in Nat /\ x.timer <= Longest
  BY RadioFields DEF Ticking
<1>2. Adverts!Advance(x, n) = z
  BY AdvanceFacts
<1>3. left \in Nat /\ left <= Longest
  BY <1>1, Times, SMT
<1> HIDE DEF left
<1>4. z \in Adverts!Radio
  BY <1>1, <1>3 DEF Adverts!Radio
<1>5. /\ z.timer = left /\ z.starts = x.starts /\ z.actual = x.actual
      /\ z.failures = x.failures /\ z.injected = x.injected /\ Same(z, x)
  BY <1>1 DEF Adverts!Radio, Same
<1> HIDE DEF z
<1> QED
  BY <1>2, <1>3, <1>4, <1>5, Zenon DEF left, Ticking

\* All but a millisecond of the timer, then that millisecond.
LEMMA OnTime ==
    ASSUME NEW x, Ticking(x), NEW n \in Nat, n > 1, x.timer = n
    PROVE  LET z == Adverts!Advance(x, n - 1)
           IN  /\ Ticking(z) /\ z.starts = x.starts /\ z.actual = x.actual
               /\ z.failures = x.failures /\ z.injected = x.injected
               /\ Adverts!Advance(z, 1) = Adverts!Due(z)
<1> DEFINE z == Adverts!Advance(x, n - 1)
<1>1. n - 1 \in Nat /\ x.timer > n - 1
  OBVIOUS
<1>2. /\ Ticking(z) /\ z.timer = x.timer - (n - 1) /\ z.starts = x.starts /\ z.actual = x.actual
      /\ z.failures = x.failures /\ z.injected = x.injected
  BY <1>1, Waited
<1> HIDE DEF z
<1>3. z.timer = 1
  BY <1>2
<1>4. Adverts!Advance(z, 1) = Adverts!Due(z)
  BY <1>2, <1>3, AdvanceFacts
<1> QED
  BY <1>2, <1>4, Zenon DEF z

\* The first of the injected failures.
LEMMA FirstTry ==
    ASSUME NEW x, Ticking(x), x.timer = Adverts!FastTime, x.failures = 0, x.injected > 0,
           faults \cap Turning = {}
    PROVE  LET z == Adverts!Advance(x, Adverts!FastTime)
           IN  /\ Ticking(z) /\ Same(z, x) /\ z.failures = 1 /\ z.injected = x.injected - 1
               /\ "claims to be on" \in faults => z.actual = "Slow"
               /\ "claims to be on" \notin faults => z.actual = "Off"
               /\ "gives up" \in faults => z.timer = 0
               /\ "gives up" \notin faults => z.timer = Adverts!Delay(1)
<1> DEFINE z == Adverts!Advance(x, Adverts!FastTime)
           claims == "claims to be on" \in faults
           quits == "gives up" \in faults
<1>1. Adverts!FastTime \in Nat /\ Adverts!FastTime > 0 /\ x \in Adverts!Radio
  <2>1. Adverts!FastTime \in Nat /\ Adverts!FastTime > 0
    BY Times, SMT
  <2> QED
    BY <2>1, Zenon DEF Ticking
<1>2. Ticking(z) /\ Same(z, x)
  BY <1>1, AdvanceTyped
<1>3. z = Adverts!Due(x)
  BY <1>1, AdvanceFacts
<1> HIDE DEF z
<1>4. PICK y \in Adverts!Radio :
         z = Adverts!Started(y, "Slow") /\ y.injected = x.injected /\ y.failures = x.failures
  <2>1. "stays fast" \notin faults
    BY DEF Turning
  <2> QED
    BY <1>1, <1>3, <2>1, DueFacts, Zenon
<1>5. /\ z.injected = y.injected - 1 /\ z.failures = y.failures + 1
      /\ claims => z.actual = "Slow"
      /\ ~claims => z.actual = "Off"
      /\ quits => z.timer = 0
      /\ ~quits => z.timer = Adverts!Delay(y.failures + 1)
  BY <1>4, StartedFacts, Zenon
<1> HIDE DEF claims, quits
<1>6. y.failures + 1 = 1 /\ z.failures = 1 /\ z.injected = x.injected - 1
  <2>1. y.failures = 0 /\ y.injected = x.injected
    BY <1>4
  <2>2. y.failures + 1 = 1
    BY <2>1
  <2>3. z.failures = y.failures + 1 /\ z.injected = y.injected - 1
    BY <1>5
  <2> QED
    BY <2>1, <2>2, <2>3
<1> QED
  BY <1>2, <1>5, <1>6, Zenon DEF z, claims, quits

\* One failure and a retry show each of the five faults of a watch that turns slow.
LEMMA OneRetry ==
    ASSUME NEW y0, Ticking(y0), y0.timer = Adverts!FastTime, y0.failures = 0, y0.injected = 1,
           faults \cap Turning = {}
    PROVE  LET y == Adverts!Advance(y0, Adverts!FastTime)
               z == Adverts!Advance(y, Adverts!Delays[1] - 1)
               x == Adverts!Advance(z, 1)
           IN  y.actual = "Off" /\ z.starts = y.starts /\ x.actual = "Fast" <=> faults \cap Trying = {}
<1> DEFINE y == Adverts!Advance(y0, Adverts!FastTime)
           z == Adverts!Advance(y, Adverts!Delays[1] - 1)
           x == Adverts!Advance(z, 1)
           claims == "claims to be on" \in faults
           quits == "gives up" \in faults
           soon  == "retries early" \in faults
           late == "retries late" \in faults
           slow == "retries into slow" \in faults
           n == Adverts!Delays[1]
           sound == y.actual = "Off" /\ z.starts = y.starts /\ x.actual = "Fast"
<1>1. n \in Nat /\ n - 1 \in Nat /\ n > 2
  BY Times, SMT
<1>2. y0.injected > 0 /\ y0.injected - 1 = 0
  OBVIOUS
<1>3. /\ Ticking(y) /\ y.failures = 1 /\ y.injected = y0.injected - 1
      /\ claims => y.actual = "Slow"
      /\ ~claims => y.actual = "Off"
      /\ quits => y.timer = 0
      /\ ~quits => y.timer = Adverts!Delay(1)
  BY <1>2, FirstTry, Zenon
<1>4. /\ soon => Adverts!Delay(1) = n - 1
      /\ ~soon /\ late => Adverts!Delay(1) = n + 1
      /\ ~soon /\ ~late => Adverts!Delay(1) = n
  <2>1. 1 \in Nat /\ 1 >= 1
    OBVIOUS
  <2> QED
    BY <2>1, DelayFacts, Zenon
<1>5. faults \cap Trying = {} <=> ~claims /\ ~quits /\ ~soon /\ ~late /\ ~slow
  BY DEF Trying
<1>6. \A d \in Adverts!Radio :
         /\ d.failures > 0 /\ slow => Adverts!Due(d) = Adverts!Started(d, "Slow")
         /\ d.failures > 0 /\ ~slow => Adverts!Due(d) = Adverts!Started(d, "Fast")
  BY DueFacts, Zenon
<1> HIDE DEF y, z, x, claims, quits, soon, late, slow, n
<1>7. y.injected = 0
  BY <1>2, <1>3
<1>8. ASSUME claims PROVE sound <=> faults \cap Trying = {}
  BY <1>3, <1>5, <1>8
<1>9. ASSUME ~claims /\ quits PROVE sound <=> faults \cap Trying = {}
  <2>1. y.timer = 0 /\ y.actual = "Off"
    BY <1>3, <1>9
  <2>2. z = y
    BY <1>1, <1>3, <2>1, AdvanceFacts DEF z, n
  <2>3. x = z
    BY <1>3, <2>1, <2>2, AdvanceFacts DEF x
  <2> QED
    BY <1>5, <1>9, <2>1, <2>2, <2>3
<1>10. ASSUME ~claims /\ ~quits /\ soon PROVE sound <=> faults \cap Trying = {}
  <2>1. y.timer = n - 1 /\ y.timer \in 1..(n - 1) /\ y.failures > 0
    BY <1>1, <1>3, <1>4, <1>10
  <2>2. z.starts > y.starts
    BY <1>1, <1>3, <2>1, AdvanceFacts DEF z, n
  <2>3. z.starts # y.starts
    <3>1. y.starts \in Nat
      BY <1>3, RadioFields DEF Ticking
    <3>2. Ticking(z)
      BY <1>1, <1>3, AdvanceTyped DEF z, n
    <3>3. z.starts \in Nat
      BY <3>2, RadioFields DEF Ticking
    <3> QED
      BY <2>2, <3>1, <3>3
  <2> QED
    BY <1>5, <1>10, <2>3
<1>11. ASSUME ~claims /\ ~quits /\ ~soon /\ late PROVE sound <=> faults \cap Trying = {}
  <2>1. y.timer = n + 1 /\ y.timer > n - 1 /\ y.actual = "Off"
    BY <1>1, <1>3, <1>4, <1>11
  <2>2. Ticking(z) /\ z.timer = y.timer - (n - 1) /\ z.actual = y.actual
    BY <1>1, <1>3, <2>1, Waited DEF z, n
  <2>3. z.timer > 1 /\ 1 \in Nat
    BY <1>1, <2>1, <2>2
  <2>4. x.actual = z.actual
    BY <2>2, <2>3, Waited DEF x
  <2> QED
    BY <1>5, <1>11, <2>1, <2>2, <2>4
<1>12. ASSUME ~claims /\ ~quits /\ ~soon /\ ~late PROVE sound <=> faults \cap Trying = {}
  <2>1. y.timer = n /\ n > 1 /\ y.actual = "Off"
    BY <1>1, <1>3, <1>4, <1>12
  <2>2. /\ Ticking(z) /\ z.starts = y.starts
        /\ z.failures = y.failures /\ z.injected = y.injected /\ x = Adverts!Due(z)
    BY <1>1, <1>3, <2>1, OnTime DEF z, x, n
  <2>3. z \in Adverts!Radio /\ z.failures > 0 /\ z.injected = 0
    BY <1>3, <1>7, <2>2 DEF Ticking
  <2>4. CASE slow
    <3>1. x = Adverts!Started(z, "Slow")
      BY <1>6, <2>2, <2>3, <2>4
    <3>2. x.actual = "Slow"
      BY <2>3, <3>1, StartedFacts
    <3> QED
      BY <1>5, <2>4, <3>2
  <2>5. CASE ~slow
    <3>1. x = Adverts!Started(z, "Fast")
      BY <1>6, <2>2, <2>3, <2>5
    <3>2. x.actual = "Fast"
      BY <2>3, <3>1, StartedFacts
    <3> QED
      BY <1>5, <1>12, <2>1, <2>2, <2>5, <3>2
  <2> QED
    BY <2>4, <2>5
<1>13. sound <=> faults \cap Trying = {}
  BY <1>8, <1>9, <1>10, <1>11, <1>12
<1> QED
  BY <1>13, Zenon DEF x, z, y, n

\* A failure and its retry.
LEMMA RetriesOnceStep ==
    ASSUME RadioInv, Adverts!RetriesOnce PROVE RadioInv'
<1> DEFINE y == Adverts!Advance(Adverts!Reset(radio, 1), Adverts!FastTime)
           z == Adverts!Advance(y, Adverts!Delays[1] - 1)
           x == Adverts!Advance(z, 1)
           p == y.actual = "Off"
           q == z.starts = y.starts
           r == x.actual = "Fast"
           a == "off"
           b == "waits"
           c == "fast"
           checks == {<<a, p>>, <<b, q>>, <<c, r>>}
<1>1. Adverts!Phase("retry", x, checks) /\ hurried' = hurried
  BY Zenon DEF Adverts!RetriesOnce
<1>2. at = 2
  BY <1>1, PhaseNames, Zenon DEF RadioInv, RadioTyped, Adverts!Phase
<1>3. failed \subseteq (1..11) \X Adverts!Check /\ at \in 1..10
  BY <1>2 DEF RadioInv, RadioTyped
<1>4. {a, b, c} \subseteq Adverts!Check
  BY DEF Adverts!Check
<1>5. failed = {} => (p /\ q /\ r <=> faults \cap Trying = {})
  <2>1. Ticking(radio) /\ 1 \in 0..4
    BY DEF RadioInv, RadioTyped
  <2>2. failed = {} => faults \cap Turning = {}
    BY <1>2 DEF RadioInv, RadioFound
  <2> QED
    BY <2>1, <2>2, ResetFacts, OneRetry, Zenon
<1>6. Ticking(x) /\ Same(x, radio)
  <2>1. Ticking(Adverts!Reset(radio, 1)) /\ Same(Adverts!Reset(radio, 1), radio)
    <3>1. Ticking(radio) /\ 1 \in 0..4 /\ radio.terminates = 0
      BY <1>2 DEF RadioInv, RadioTyped
    <3> QED
      BY <3>1, ResetFacts, Zenon DEF Same
  <2>2. Adverts!FastTime \in Nat /\ Adverts!Delays[1] - 1 \in Nat /\ 1 \in Nat
    BY Times, SMT
  <2>3. Ticking(y) /\ Same(y, Adverts!Reset(radio, 1))
    BY <2>1, <2>2, AdvanceTyped, Zenon
  <2>4. Ticking(z) /\ Same(z, y)
    BY <2>2, <2>3, AdvanceTyped, Zenon
  <2>5. Ticking(x) /\ Same(x, z)
    BY <2>2, <2>4, AdvanceTyped, Zenon
  <2> QED
    BY <2>1, <2>3, <2>4, <2>5, Zenon DEF Same
<1> HIDE DEF a, b, c, p, q, r
<1>7. (\A e \in checks : e[1] \in Adverts!Check) /\ ((\A e \in checks : e[2]) <=> p /\ q /\ r)
  BY <1>4
<1> HIDE DEF x, checks
<1>8. /\ at' = 3 /\ radio' = x /\ faults' = faults
      /\ failed' \subseteq (1..11) \X Adverts!Check
      /\ failed' = {} <=> failed = {} /\ p /\ q /\ r
  BY <1>1, <1>2, <1>3, <1>7, PhaseChecks
<1>9. RadioTyped' /\ radio'.writes = 0 /\ radio'.terminates = 0
  BY <1>1, <1>2, <1>6, <1>8 DEF RadioInv, RadioTyped, Same
<1>10. ~hurried' /\ (faults = {} /\ ~hurried => failed = {})
  BY <1>1, <1>2 DEF RadioInv
<1>11. failed' = {} => faults' \cap Turning = {} /\ faults' \cap Trying = {}
  BY <1>2, <1>5, <1>8 DEF RadioInv, RadioFound
<1>12. faults' = {} => failed' = {}
  BY <1>1, <1>5, <1>8, <1>10
<1> QED
  <2>1. at' # 1 /\ (at' <= 9 => radio'.writes = 0 /\ radio'.terminates = 0 /\ ~hurried')
    BY <1>8, <1>9, <1>10
  <2>2. failed' = {} => RadioFound' /\ RadioPlace'
    BY <1>8, <1>11 DEF RadioFound, RadioPlace
  <2> QED
    BY <1>9, <1>12, <2>1, <2>2 DEF RadioInv

\* Four failures to come, and the first of them.
LEMMA FailsFourTimesStep ==
    ASSUME RadioInv, Adverts!FailsFourTimes PROVE RadioInv'
<1> DEFINE y == Adverts!Reset(radio, 4)
           x == Adverts!Advance(y, Adverts!FastTime)
           quits == "gives up" \in faults
<1>1. Adverts!Phase("backoff", x, {}) /\ hurried' = hurried
  BY Zenon DEF Adverts!FailsFourTimes
<1>2. at = 3
  BY <1>1, PhaseNames, Zenon DEF RadioInv, RadioTyped, Adverts!Phase
<1>3. failed \subseteq (1..11) \X Adverts!Check /\ at \in 1..10
  BY <1>2 DEF RadioInv, RadioTyped
<1>4. Ticking(radio) /\ 4 \in 0..4 /\ radio.terminates = 0 /\ radio.writes = 0 /\ ~hurried
  BY <1>2 DEF RadioInv, RadioTyped
<1>5. /\ Ticking(y) /\ y.timer = Adverts!FastTime /\ y.failures = 0 /\ y.injected = 4 /\ Same(y, radio)
  BY <1>4, ResetFacts, Zenon DEF Same
<1>6. /\ at' = 4 /\ radio' = x /\ faults' = faults
      /\ failed' \subseteq (1..11) \X Adverts!Check
      /\ failed' = {} <=> failed = {}
  <2>1. /\ at' = at + 1 /\ radio' = x /\ faults' = faults
        /\ failed' \subseteq (1..11) \X Adverts!Check
        /\ failed' = {} <=> failed = {}
    <3> DEFINE checks == {}
    <3>1. (\A c \in checks : c[1] \in Adverts!Check) /\ (\A c \in checks : c[2])
      OBVIOUS
    <3>2. Adverts!Phase("backoff", x, checks)
      BY <1>1, Zenon
    <3> HIDE DEF checks, x
    <3> QED
      BY <1>3, <3>1, <3>2, PhaseChecks
  <2> QED
    BY <1>2, <2>1
<1>7. Ticking(x) /\ Same(x, y)
  <2>1. Adverts!FastTime \in Nat
    BY Times, SMT
  <2> QED
    BY <1>5, <2>1, AdvanceTyped, Zenon
<1>8. failed = {} => faults \cap Turning = {} /\ faults \cap Trying = {}
  BY <1>2 DEF RadioInv, RadioFound
<1>9. failed = {} => Retrying(1)'
  <2> SUFFICES ASSUME failed = {} PROVE Retrying(1)'
    OBVIOUS
  <2>1. ~quits /\ y.injected > 0
    <3>1. y.injected > 0
      BY <1>5
    <3>2. ~quits
      BY <1>8 DEF Trying
    <3> QED
      BY <3>1, <3>2
  <2>2. x.failures = 1 /\ x.injected = y.injected - 1 /\ (~quits => x.timer = Adverts!Delay(1))
    BY <1>5, <1>8, <2>1, FirstTry, Zenon
  <2>3. Adverts!Delay(1)' = Adverts!Delay(1)
    BY <1>6, Zenon DEF Adverts!Delay, Adverts!Has
  <2>4. radio'.failures = x.failures /\ radio'.injected = x.injected /\ radio'.timer = x.timer
    BY <1>6
  <2> HIDE DEF x, y, quits
  <2>5. radio'.injected = 4 - 1
    BY <1>5, <2>2, <2>4
  <2> QED
    BY <2>1, <2>2, <2>3, <2>4, <2>5 DEF Retrying
<1> HIDE DEF x, y, quits
<1>10. RadioTyped' /\ radio'.writes = 0 /\ radio'.terminates = 0
  BY <1>1, <1>4, <1>5, <1>6, <1>7 DEF RadioInv, RadioTyped, Same
<1>11. ~hurried' /\ (faults = {} /\ ~hurried => failed = {})
  BY <1>1, <1>4 DEF RadioInv
<1> QED
  <2>1. at' # 1 /\ (at' <= 9 => radio'.writes = 0 /\ radio'.terminates = 0 /\ ~hurried')
    BY <1>6, <1>10, <1>11
  <2>2. failed' = {} => RadioFound' /\ RadioPlace'
    <3>1. failed' = {} => faults' \cap Turning = {} /\ faults' \cap Trying = {} /\ Retrying(1)'
      BY <1>6, <1>8, <1>9
    <3> QED
      BY <1>6, <3>1 DEF RadioFound, RadioPlace
  <2>3. faults' = {} /\ ~hurried' => failed' = {}
    BY <1>6, <1>11, <1>1
  <2> QED
    BY <1>10, <2>1, <2>2, <2>3 DEF RadioInv

\* A retry on time, and the delay before the next one.
LEMMA NextRetry ==
    ASSUME NEW k \in 1..4, Ticking(radio), Retrying(k), radio.timer = Adverts!Delays[k],
           faults \cap Trying = {}
    PROVE  LET y == Adverts!Advance(radio, Adverts!Delays[k] - 1)
               x == Adverts!Advance(y, 1)
           IN  /\ y.starts = radio.starts /\ x.starts = radio.starts + 1
               /\ k < 4 => x.failures = k + 1 /\ x.injected = 3 - k /\ x.timer = Adverts!Delay(k + 1)
               /\ k = 4 => x.failures = 0 /\ x.injected = 0 /\ x.timer = Adverts!FastTime
<1> DEFINE n == Adverts!Delays[k]
           y == Adverts!Advance(radio, n - 1)
           x == Adverts!Advance(y, 1)
           quits == "gives up" \in faults
           slow == "retries into slow" \in faults
<1>1. n \in Nat /\ n > 1
  BY Times, SMT
<1>2. /\ Ticking(y) /\ y.starts = radio.starts
      /\ y.failures = radio.failures /\ y.injected = radio.injected /\ x = Adverts!Due(y)
  BY <1>1, OnTime
<1>3. ~quits /\ ~slow
  BY DEF Trying
<1> HIDE DEF n, y, x
<1>4. y \in Adverts!Radio /\ y.failures = k /\ y.injected = 4 - k /\ y.failures > 0 /\ y.starts \in Nat
  BY <1>2, RadioFields DEF Retrying, Ticking
<1>5. y.failures > 0 /\ ~slow => Adverts!Due(y) = Adverts!Started(y, "Fast")
  BY <1>4, DueFacts, Zenon
<1>6. x = Adverts!Started(y, "Fast")
  BY <1>2, <1>3, <1>4, <1>5
<1>7. /\ x.starts = y.starts + 1
      /\ y.injected > 0 =>
            /\ x.injected = y.injected - 1 /\ x.failures = y.failures + 1
            /\ ~quits => x.timer = Adverts!Delay(y.failures + 1)
      /\ y.injected = 0 => x.injected = 0 /\ x.failures = 0 /\ x.timer = Adverts!FastTime
  <2>1. "Fast" \in {"Fast", "Slow"} /\ "Fast" # "Slow"
    OBVIOUS
  <2> QED
    BY <1>4, <1>6, <2>1, StartedFacts, Zenon
<1> HIDE DEF quits, slow
<1>8. x.starts = radio.starts + 1 /\ y.starts = radio.starts
  BY <1>2, <1>7
<1>9. k < 4 => x.failures = k + 1 /\ x.injected = 3 - k /\ x.timer = Adverts!Delay(k + 1)
  BY <1>3, <1>4, <1>7
<1>10. k = 4 => x.failures = 0 /\ x.injected = 0 /\ x.timer = Adverts!FastTime
  BY <1>4, <1>7
<1> QED
  BY <1>8, <1>9, <1>10, Zenon DEF x, y, n

\* The four delays: the second one shows whether they grow.
LEMMA RetriesStep ==
    ASSUME RadioInv, NEW k \in 1..4, Adverts!Retries(k) PROVE RadioInv'
<1> DEFINE n == Adverts!Delays[k]
           y == Adverts!Advance(radio, n - 1)
           x == Adverts!Advance(y, 1)
           p == y.starts = radio.starts
           q == x.starts = radio.starts + 1
           a == "waits"
           b == "fires once"
           checks == {<<a, p>>, <<b, q>>}
           never == "never backs off" \in faults
<1>0. never <=> faults \cap Backing # {}
  BY DEF Backing
<1> HIDE DEF never
<1>1. Adverts!Phase(Adverts!Phases[k + 3], x, checks) /\ hurried' = hurried
  BY Zenon DEF Adverts!Retries
<1>2. at = k + 3
  <2>1. Adverts!Phases[at] = Adverts!Phases[k + 3] /\ at \in 1..11
    BY <1>1, Zenon DEF RadioInv, RadioTyped, Adverts!Phase
  <2>2. k = 1 \/ k = 2 \/ k = 3 \/ k = 4
    OBVIOUS
  <2>3. 1 + 3 = 4 /\ 2 + 3 = 5 /\ 3 + 3 = 6 /\ 4 + 3 = 7
    OBVIOUS
  <2> QED
    BY <2>1, <2>2, <2>3, PhaseNames
<1>3. failed \subseteq (1..11) \X Adverts!Check /\ at \in 1..10
  BY <1>2 DEF RadioInv, RadioTyped
<1>4. {a, b} \subseteq Adverts!Check
  BY DEF Adverts!Check
<1>5. Ticking(radio) /\ radio.terminates = 0 /\ radio.writes = 0 /\ ~hurried
  BY <1>2 DEF RadioInv, RadioTyped
<1>6. n \in Nat /\ n > 1 /\ n - 1 \in Nat /\ 1 \in Nat
  BY Times, SMT
<1>7. Ticking(x) /\ Same(x, radio)
  <2>1. Ticking(y) /\ Same(y, radio)
    BY <1>5, <1>6, AdvanceTyped, Zenon
  <2>2. Ticking(x) /\ Same(x, y)
    BY <1>6, <2>1, AdvanceTyped, Zenon
  <2> QED
    BY <2>1, <2>2, Zenon DEF Same
<1>8. failed = {} => faults \cap Turning = {} /\ faults \cap Trying = {} /\ Retrying(k)
  <2>1. k = 1 \/ k = 2 \/ k = 3 \/ k = 4
    OBVIOUS
  <2>2. failed = {} => /\ faults \cap Turning = {} /\ faults \cap Trying = {}
                       /\ (k = 1 => Retrying(1)) /\ (k = 2 => Retrying(2))
                       /\ (k = 3 => Retrying(3)) /\ (k = 4 => Retrying(4))
    BY <1>2 DEF RadioInv, RadioFound, RadioPlace
  <2> QED
    BY <2>1, <2>2
<1>9. failed = {} /\ k >= 3 => ~never
  BY <1>0, <1>2 DEF RadioInv, RadioFound
<1>10. faults \cap Trying = {} =>
          /\ never \/ k = 1 => Adverts!Delay(k) = Adverts!Delays[1]
          /\ ~never => Adverts!Delay(k) = n
  <2> SUFFICES ASSUME faults \cap Trying = {}
               PROVE  /\ never \/ k = 1 => Adverts!Delay(k) = Adverts!Delays[1]
                      /\ ~never => Adverts!Delay(k) = n
    OBVIOUS
  <2> DEFINE soon == "retries early" \in faults
             late == "retries late" \in faults
  <2>1. ~soon /\ ~late
    BY DEF Trying
  <2>2. k \in Nat /\ k >= 1 /\ (k = 1 \/ k = 2 \/ k = 3 \/ k = 4)
    OBVIOUS
  <2>3. ~soon /\ ~late =>
           /\ never \/ k = 1 => Adverts!Delay(k) = Adverts!Delays[1]
           /\ ~never =>
                 /\ k = 2 => Adverts!Delay(k) = Adverts!Delays[2]
                 /\ k = 3 => Adverts!Delay(k) = Adverts!Delays[3]
                 /\ k = 4 => Adverts!Delay(k) = Adverts!Delays[4]
    BY <2>2, DelayFacts, Zenon DEF never
  <2> HIDE DEF soon, late
  <2> QED
    BY <2>1, <2>2, <2>3
<1>11. failed = {} /\ p => ~never \/ k = 1
  <2> SUFFICES ASSUME failed = {}, never, k # 1 PROVE ~p
    OBVIOUS
  <2>1. k = 2
    BY <1>9
  <2>2. radio.timer = Adverts!Delays[1] /\ radio.failures > 0
    <3>1. radio.timer = Adverts!Delay(k) /\ radio.failures = k
      BY <1>8 DEF Retrying
    <3> QED
      BY <1>8, <1>10, <3>1
  <2>3. radio.timer \in 1..(n - 1)
    BY <2>1, <2>2, Times, SMT
  <2>4. y.starts > radio.starts
    BY <1>5, <1>6, <2>2, <2>3, AdvanceFacts
  <2>5. Ticking(y)
    BY <1>5, <1>6, AdvanceTyped, Zenon
  <2>6. y.starts \in Nat /\ radio.starts \in Nat
    BY <1>5, <2>5, RadioFields DEF Ticking
  <2> HIDE DEF y
  <2> QED
    BY <2>4, <2>6
<1>12. ASSUME failed = {}, ~never \/ k = 1
       PROVE  /\ p /\ q
              /\ k < 4 => x.failures = k + 1 /\ x.injected = 3 - k /\ x.timer = Adverts!Delay(k + 1)
              /\ k = 4 => x.failures = 0 /\ x.injected = 0 /\ x.timer = Adverts!FastTime
  <2>1. Retrying(k) /\ faults \cap Trying = {}
    BY <1>8, <1>12
  <2>2. Adverts!Delay(k) = n
    BY <1>10, <1>12, <2>1
  <2>3. radio.timer = n
    BY <2>1, <2>2 DEF Retrying
  <2> QED
    BY <1>5, <2>1, <2>3, NextRetry, Zenon
<1> HIDE DEF a, b, p, q, never
<1>13. (\A e \in checks : e[1] \in Adverts!Check) /\ ((\A e \in checks : e[2]) <=> p /\ q)
  BY <1>4
<1> HIDE DEF x, checks
<1>14. /\ at' = k + 4 /\ radio' = x /\ faults' = faults
       /\ failed' \subseteq (1..11) \X Adverts!Check
       /\ failed' = {} <=> failed = {} /\ p /\ q
  BY <1>1, <1>2, <1>3, <1>13, PhaseChecks
<1>15. RadioTyped' /\ radio'.writes = 0 /\ radio'.terminates = 0
  BY <1>1, <1>5, <1>7, <1>14 DEF RadioInv, RadioTyped, Same
<1>16. ~hurried' /\ (faults = {} /\ ~hurried => failed = {})
  BY <1>1, <1>5 DEF RadioInv
<1>17. failed' = {} => failed = {} /\ (~never \/ k = 1)
  BY <1>11, <1>14
<1>18. failed' = {} => RadioFound'
  <2>1. failed' = {} => faults' \cap Turning = {} /\ faults' \cap Trying = {}
    BY <1>8, <1>14
  <2>2. failed' = {} /\ k # 1 => faults' \cap Backing = {}
    BY <1>0, <1>14, <1>17
  <2> QED
    BY <1>14, <2>1, <2>2 DEF RadioFound
<1>19. failed' = {} => RadioPlace'
  <2> SUFFICES ASSUME failed' = {} PROVE RadioPlace'
    OBVIOUS
  <2>1. /\ k < 4 => x.failures = k + 1 /\ x.injected = 3 - k /\ x.timer = Adverts!Delay(k + 1)
        /\ k = 4 => x.failures = 0 /\ x.injected = 0 /\ x.timer = Adverts!FastTime
    BY <1>12, <1>17
  <2>2. Adverts!Delay(k + 1)' = Adverts!Delay(k + 1)
    BY <1>14, Zenon DEF Adverts!Delay, Adverts!Has
  <2>3. k < 4 => Retrying(k + 1)'
    <3>1. k < 4 => radio'.failures = k + 1 /\ radio'.injected = 3 - k /\ radio'.timer = Adverts!Delay(k + 1)'
      BY <1>14, <2>1, <2>2
    <3>2. 3 - k = 4 - (k + 1)
      OBVIOUS
    <3> QED
      BY <3>1, <3>2 DEF Retrying
  <2>4. k = 1 \/ k = 2 \/ k = 3 \/ k = 4
    OBVIOUS
  <2>5. CASE k < 4
    BY <1>14, <2>3, <2>4, <2>5 DEF RadioPlace
  <2>6. CASE k = 4
    BY <1>14, <2>1, <2>6 DEF RadioPlace
  <2> QED
    BY <2>4, <2>5, <2>6
<1>20. faults' = {} => failed' = {}
  <2>1. faults = {} => ~never
    BY <1>0
  <2>2. faults' = {} => failed = {} /\ ~never
    BY <1>1, <1>14, <1>16, <2>1
  <2>3. failed = {} /\ ~never => p /\ q
    BY <1>12
  <2> QED
    BY <1>14, <2>2, <2>3
<1> QED
  <2>1. at' # 1 /\ (at' <= 9 => radio'.writes = 0 /\ radio'.terminates = 0 /\ ~hurried')
    BY <1>14, <1>15, <1>16
  <2> QED
    BY <1>15, <1>18, <1>19, <1>20, <2>1 DEF RadioInv

\* A minute without failures.
LEMMA RecoversStep ==
    ASSUME RadioInv, Adverts!Recovers PROVE RadioInv'
<1> DEFINE x == Adverts!Advance(radio, Adverts!Minute)
           p == x.actual \in {"Fast", "Slow"}
           a == "recovers"
           checks == {<<a, p>>}
<1>1. Adverts!Phase("recover", x, checks) /\ hurried' = hurried
  BY Zenon DEF Adverts!Recovers
<1>2. at = 8
  BY <1>1, PhaseNames, Zenon DEF RadioInv, RadioTyped, Adverts!Phase
<1>3. failed \subseteq (1..11) \X Adverts!Check /\ at \in 1..10
  BY <1>2 DEF RadioInv, RadioTyped
<1>4. {a} \subseteq Adverts!Check
  BY DEF Adverts!Check
<1>5. Ticking(radio) /\ radio.terminates = 0 /\ radio.writes = 0 /\ ~hurried
  BY <1>2 DEF RadioInv, RadioTyped
<1>6. Ticking(x) /\ Same(x, radio)
  <2>1. Adverts!Minute \in Nat
    BY Times, SMT
  <2> QED
    BY <1>5, <2>1, AdvanceTyped, Zenon
<1>7. failed = {} => /\ faults \cap Turning = {} /\ faults \cap Trying = {} /\ faults \cap Backing = {}
                     /\ radio.failures = 0 /\ radio.injected = 0 /\ radio.timer = Adverts!FastTime
  BY <1>2 DEF RadioInv, RadioFound, RadioPlace
<1>8. failed = {} => p
  <2> SUFFICES ASSUME failed = {} PROVE p
    OBVIOUS
  <2> DEFINE d == Adverts!Due(radio)
  <2>1. radio \in Adverts!Radio
    BY <1>5 DEF Ticking
  <2>2. "stays fast" \notin faults
    BY <1>7 DEF Turning
  <2>3. PICK y \in Adverts!Radio :
           d = Adverts!Started(y, "Slow") /\ y.injected = radio.injected
    BY <1>7, <2>1, <2>2, DueFacts, Zenon
  <2>4. d.actual = "Slow" /\ d.timer = 0
    BY <1>7, <2>3, StartedFacts
  <2>5. radio.timer \in 1..Adverts!Minute /\ Adverts!Minute \in Nat
    <3>1. radio.timer = Adverts!FastTime
      BY <1>7
    <3> QED
      BY <3>1, Times, SMT
  <2>6. x = d
    BY <1>5, <2>4, <2>5, AdvanceFacts
  <2> QED
    BY <2>4, <2>6
<1>9. p => Advertises(x)
  BY DEF Advertises
<1> HIDE DEF a, p
<1>11. (\A e \in checks : e[1] \in Adverts!Check) /\ ((\A e \in checks : e[2]) <=> p)
  BY <1>4
<1> HIDE DEF x, checks
<1>12. /\ at' = 9 /\ radio' = x /\ faults' = faults
       /\ failed' \subseteq (1..11) \X Adverts!Check
       /\ failed' = {} <=> failed = {} /\ p
  BY <1>1, <1>2, <1>3, <1>11, PhaseChecks
<1>13. RadioTyped' /\ radio'.writes = 0 /\ radio'.terminates = 0
  BY <1>1, <1>5, <1>6, <1>12 DEF RadioInv, RadioTyped, Same
<1>14. ~hurried' /\ (faults = {} /\ ~hurried => failed = {})
  BY <1>1, <1>5 DEF RadioInv
<1>15. Advertises(x) => Advertises(radio)'
  BY <1>12 DEF Advertises
<1>16. failed' = {} => RadioFound' /\ RadioPlace'
  BY <1>7, <1>8, <1>9, <1>12, <1>15 DEF RadioFound, RadioPlace
<1> QED
  <2>1. at' # 1 /\ (at' <= 9 => radio'.writes = 0 /\ radio'.terminates = 0 /\ ~hurried')
    BY <1>12, <1>13, <1>14
  <2>2. faults' = {} => failed' = {}
    BY <1>1, <1>8, <1>12, <1>14
  <2> QED
    BY <1>13, <1>16, <2>1, <2>2 DEF RadioInv

\* What asking for beacon mode does.
LEMMA BeaconingFacts ==
    ASSUME Ticking(radio), NEW prompt \in BOOLEAN
    PROVE  LET x == Adverts!Beaconing(radio, prompt)
               sound == "ignores beacon" \notin faults
           IN  /\ Ticking(x) /\ x.dirty = TRUE /\ x.link = ~prompt
               /\ prompt /\ sound => x.actual = "Beacon"
               /\ ~(prompt /\ sound) => x.actual = radio.actual
               /\ prompt /\ sound /\ "keeps link" \notin faults => x.terminates = radio.terminates + 1
               /\ ~(prompt /\ sound /\ "keeps link" \notin faults) => x.terminates = radio.terminates
               /\ "writes the key" \notin faults /\ "writes at once" \notin faults =>
                     x.writes = radio.writes
               /\ "writes the key" \in faults \/ "writes at once" \in faults =>
                     x.writes # radio.writes
<1> DEFINE ignores == "ignores beacon" \in faults
           keeps == "keeps link" \in faults
           key == "writes the key" \in faults
           once == "writes at once" \in faults
           k == IF key THEN 1 ELSE 0
           o == IF once THEN 1 ELSE 0
           t == IF prompt /\ ~ignores /\ ~keeps THEN 1 ELSE 0
           actual == IF prompt /\ ~ignores THEN "Beacon" ELSE radio.actual
           writes == radio.writes + k + o
           terminates == radio.terminates + t
           down == ~prompt
           x == [radio EXCEPT !.timer = 0, !.dirty = TRUE, !.writes = writes, !.actual = actual,
                              !.terminates = terminates, !.link = down]
<1>1. Adverts!Beaconing(radio, prompt) = x
  BY Zenon DEF Adverts!Beaconing, Adverts!Has
<1>2. /\ (key => k = 1) /\ (~key => k = 0)
      /\ (once => o = 1) /\ (~once => o = 0)
      /\ (prompt /\ ~ignores /\ ~keeps => t = 1)
      /\ (~(prompt /\ ~ignores /\ ~keeps) => t = 0)
      /\ (prompt /\ ~ignores => actual = "Beacon")
      /\ (~(prompt /\ ~ignores) => actual = radio.actual)
  BY Zenon
<1>3. /\ radio \in Adverts!Radio /\ radio.terminates \in Nat /\ radio.writes \in Nat
      /\ radio.actual \in {"Off", "Fast", "Slow", "Beacon"} /\ down \in BOOLEAN /\ Longest \in Nat
  <2>1. Longest \in Nat
    BY Times, SMT
  <2> QED
    BY <2>1, RadioFields DEF Ticking
<1> HIDE DEF ignores, keeps, key, once, k, o, t, actual
<1>4. k \in {0, 1} /\ o \in {0, 1} /\ t \in {0, 1}
  BY <1>2
<1>5. actual \in {"Off", "Fast", "Slow", "Beacon"}
  BY <1>2, <1>3
<1>6. writes \in Nat /\ terminates \in Nat
  BY <1>3, <1>4
<1>7. /\ ~key /\ ~once => writes = radio.writes
      /\ key \/ once => writes # radio.writes
      /\ prompt /\ ~ignores /\ ~keeps => terminates = radio.terminates + 1
      /\ ~(prompt /\ ~ignores /\ ~keeps) => terminates = radio.terminates
  BY <1>2, <1>3, <1>4
<1> HIDE DEF writes, terminates, down
<1>8. x \in Adverts!Radio
  BY <1>3, <1>5, <1>6 DEF Adverts!Radio
<1>9. /\ x.dirty = TRUE /\ x.link = down /\ x.actual = actual /\ x.timer = 0
      /\ x.terminates = terminates /\ x.writes = writes
  BY <1>3 DEF Adverts!Radio
<1> HIDE DEF x
<1>10. x.timer <= Longest
  BY <1>3, <1>9
<1>11. Ticking(x)
  BY <1>8, <1>10 DEF Ticking
<1>12. /\ prompt /\ ~ignores => x.actual = "Beacon"
       /\ ~(prompt /\ ~ignores) => x.actual = radio.actual
       /\ prompt /\ ~ignores /\ ~keeps => x.terminates = radio.terminates + 1
       /\ ~(prompt /\ ~ignores /\ ~keeps) => x.terminates = radio.terminates
       /\ ~key /\ ~once => x.writes = radio.writes
       /\ key \/ once => x.writes # radio.writes
  BY <1>2, <1>7, <1>9, Zenon
<1> QED
  BY <1>1, <1>9, <1>11, <1>12, Zenon DEF ignores, keeps, key, once, down

\* Into beacon mode.
LEMMA TurnsBeaconStep ==
    ASSUME RadioInv, Adverts!TurnsBeacon PROVE RadioInv'
<1>1. PICK prompt \in BOOLEAN :
         /\ "refuses beacon" \notin faults
         /\ Adverts!Phase("beacon", Adverts!Beaconing(radio, prompt),
                {<<"link down", ~Adverts!Beaconing(radio, prompt).link>>,
                 <<"beacon", Adverts!Beaconing(radio, prompt).actual = "Beacon">>,
                 <<"terminated", Adverts!Beaconing(radio, prompt).terminates >= 1>>,
                 <<"no bond writes", Adverts!Beaconing(radio, prompt).writes = radio.writes>>})
         /\ hurried' = ~prompt
  BY Zenon DEF Adverts!TurnsBeacon, Adverts!Has
<1> DEFINE x == Adverts!Beaconing(radio, prompt)
           p == ~x.link
           q == x.actual = "Beacon"
           r == x.terminates >= 1
           s == x.writes = radio.writes
           a == "link down"
           b == "beacon"
           c == "terminated"
           d == "no bond writes"
           checks == {<<a, p>>, <<b, q>>, <<c, r>>, <<d, s>>}
           ignores == "ignores beacon" \in faults
           keeps == "keeps link" \in faults
           key == "writes the key" \in faults
           once == "writes at once" \in faults
<1>2. Adverts!Phase("beacon", x, checks)
  BY <1>1, Zenon
<1>3. at = 9
  BY <1>1, PhaseNames, Zenon DEF RadioInv, RadioTyped, Adverts!Phase
<1>4. failed \subseteq (1..11) \X Adverts!Check /\ at \in 1..10
  BY <1>3 DEF RadioInv, RadioTyped
<1>5. {a, b, c, d} \subseteq Adverts!Check
  BY DEF Adverts!Check
<1>6. Ticking(radio) /\ radio.terminates = 0 /\ radio.writes = 0 /\ ~hurried
  BY <1>3 DEF RadioInv, RadioTyped
<1>7. failed = {} => /\ faults \cap Turning = {} /\ faults \cap Trying = {} /\ faults \cap Backing = {}
                     /\ Advertises(radio)
  BY <1>3 DEF RadioInv, RadioFound, RadioPlace
<1>8. Advertises(radio) => radio.actual # "Beacon"
  BY DEF Advertises
<1>9. faults \cap Leaving = {} <=> ~ignores /\ ~keeps /\ ~key /\ ~once
  BY <1>1 DEF Leaving
<1>10. /\ Ticking(x) /\ x.dirty = TRUE /\ x.link = ~prompt
       /\ prompt /\ ~ignores => x.actual = "Beacon"
       /\ ~(prompt /\ ~ignores) => x.actual = radio.actual
       /\ prompt /\ ~ignores /\ ~keeps => x.terminates = radio.terminates + 1
       /\ ~(prompt /\ ~ignores /\ ~keeps) => x.terminates = radio.terminates
       /\ ~key /\ ~once => x.writes = radio.writes
       /\ key \/ once => x.writes # radio.writes
  BY <1>6, BeaconingFacts, Zenon
<1> HIDE DEF x, ignores, keeps, key, once
<1>11. failed = {} => (p /\ q /\ r /\ s <=> prompt /\ ~ignores /\ ~keeps /\ ~key /\ ~once)
  <2>1. p <=> prompt
    BY <1>10
  <2>2. failed = {} => (q <=> prompt /\ ~ignores)
    BY <1>7, <1>8, <1>10
  <2>3. r <=> prompt /\ ~ignores /\ ~keeps
    BY <1>6, <1>10
  <2>4. s <=> ~key /\ ~once
    BY <1>10
  <2> HIDE DEF p, q, r, s
  <2> QED
    BY <2>1, <2>2, <2>3, <2>4
<1>12. p => ~x.link
  OBVIOUS
<1>13. s => x.writes = 0
  BY <1>6
<1> HIDE DEF a, b, c, d, p, q, r, s
<1>14. (\A e \in checks : e[1] \in Adverts!Check) /\ ((\A e \in checks : e[2]) <=> p /\ q /\ r /\ s)
  BY <1>5
<1> HIDE DEF checks
<1>15. /\ at' = 10 /\ radio' = x /\ faults' = faults
       /\ failed' \subseteq (1..11) \X Adverts!Check
       /\ failed' = {} <=> failed = {} /\ p /\ q /\ r /\ s
  BY <1>2, <1>3, <1>4, <1>14, PhaseChecks
<1>16. RadioTyped'
  <2>1. hurried' \in BOOLEAN
    BY <1>1
  <2> QED
    BY <1>10, <1>15, <2>1 DEF RadioInv, RadioTyped
<1>17. failed' = {} => RadioFound' /\ RadioPlace'
  <2> SUFFICES ASSUME failed' = {} PROVE RadioFound' /\ RadioPlace'
    OBVIOUS
  <2>1. failed = {} /\ p /\ s
    BY <1>15
  <2>2. faults \cap Leaving = {}
    BY <1>9, <1>11, <1>15
  <2>3. RadioFound'
    BY <1>7, <1>15, <2>1, <2>2 DEF RadioFound
  <2>4. radio'.dirty /\ ~radio'.link /\ radio'.writes = 0
    BY <1>10, <1>12, <1>13, <1>15, <2>1
  <2>5. RadioPlace'
    BY <1>15, <2>4 DEF RadioPlace
  <2> QED
    BY <2>3, <2>5
<1>18. faults' = {} /\ ~hurried' => failed' = {}
  <2>1. faults = {} => failed = {}
    BY <1>6 DEF RadioInv
  <2>2. faults = {} => faults \cap Leaving = {}
    OBVIOUS
  <2> QED
    BY <1>1, <1>9, <1>11, <1>15, <2>1, <2>2
<1> QED
  BY <1>15, <1>16, <1>17, <1>18 DEF RadioInv

\* Beacon mode is refused, or its key is not committed in time.
LEMMA BeaconRaisesStep ==
    ASSUME RadioInv, Adverts!BeaconRaises PROVE RadioInv'
<1> DEFINE a == "accepted"
<1>1. PICK slow \in BOOLEAN :
         /\ slow \/ "refuses beacon" \in faults
         /\ Adverts!Phases[at] = "beacon"
         /\ at' = Len(Adverts!Phases)
         /\ failed' = failed \cup {<<at, a>>}
         /\ hurried' = slow /\ faults' = faults /\ radio' = radio
  BY Zenon DEF Adverts!BeaconRaises, Adverts!Has
<1>2. at = 9 /\ at' = 11
  BY <1>1, PhaseNames, Zenon DEF RadioInv, RadioTyped
<1>3. a \in Adverts!Check
  BY DEF Adverts!Check
<1> HIDE DEF a
<1>4. failed' \subseteq (1..11) \X Adverts!Check
  <2>1. <<at, a>> \in (1..11) \X Adverts!Check
    BY <1>2, <1>3
  <2> QED
    BY <1>1, <2>1 DEF RadioInv, RadioTyped
<1>5. failed' # {}
  BY <1>1
<1>6. ~(faults' = {} /\ ~hurried')
  BY <1>1
<1>7. RadioTyped'
  <2>1. faults \subseteq Adverts!Fault /\ Ticking(radio)
    BY DEF RadioInv, RadioTyped
  <2>2. faults' \subseteq Adverts!Fault /\ Ticking(radio') /\ hurried' \in BOOLEAN
    BY <1>1, <2>1, Zenon
  <2>3. at' \in 1..11
    BY <1>2
  <2>4. Ticking(radio)'
    BY <1>1, <2>1 DEF Ticking
  <2> QED
    BY <1>4, <2>2, <2>3, <2>4, Zenon DEF RadioTyped
<1> QED
  BY <1>2, <1>5, <1>6, <1>7 DEF RadioInv

\* The bond write that beacon mode leaves behind.
LEMMA SettlesStep ==
    ASSUME RadioInv, Adverts!Settles PROVE RadioInv'
<1> DEFINE x == Adverts!Settled(radio)
           p == x.writes = Adverts!Booted.writes + 1
           a == "one bond write"
           checks == {<<a, p>>}
           never == "never writes" \in faults
           once == "writes at once" \in faults
           k == IF never \/ once THEN 0 ELSE 1
           n == radio.writes + k
           y == [radio EXCEPT !.dirty = FALSE, !.writes = n]
<1>1. Adverts!Phase("settle", x, checks) /\ hurried' = hurried
  BY Zenon DEF Adverts!Settles
<1>2. at = 10
  BY <1>1, PhaseNames, Zenon DEF RadioInv, RadioTyped, Adverts!Phase
<1>3. failed \subseteq (1..11) \X Adverts!Check /\ at \in 1..10
  BY <1>2 DEF RadioInv, RadioTyped
<1>4. {a} \subseteq Adverts!Check
  BY DEF Adverts!Check
<1>5. Ticking(radio) /\ radio \in Adverts!Radio /\ radio.writes \in Nat
  <2>1. Ticking(radio)
    BY DEF RadioInv, RadioTyped
  <2> QED
    BY <2>1, RadioFields DEF Ticking
<1>6. failed = {} => /\ faults \cap Turning = {} /\ faults \cap Trying = {} /\ faults \cap Backing = {}
                     /\ faults \cap Leaving = {}
                     /\ radio.dirty /\ ~radio.link /\ radio.writes = 0
  BY <1>2 DEF RadioInv, RadioFound, RadioPlace
<1>7. /\ radio.link \/ ~radio.dirty => x = radio
      /\ ~(radio.link \/ ~radio.dirty) => x = y
  BY Zenon DEF Adverts!Settled, Adverts!Has
<1>8. /\ never \/ once => k = 0
      /\ ~(never \/ once) => k = 1
  BY Zenon
<1>9. faults \cap Leaving = {} => ~once
  BY DEF Leaving
<1>10. faults \cap Settling = {} <=> ~never
  BY DEF Settling
<1> HIDE DEF never, once, k, x
<1>11. n \in Nat /\ (never \/ once => n = radio.writes) /\ (~never /\ ~once => n = radio.writes + 1)
  BY <1>5, <1>8
<1> HIDE DEF n
<1>12. y \in Adverts!Radio /\ y.timer = radio.timer /\ y.writes = n
  BY <1>5, <1>11 DEF Adverts!Radio
<1> HIDE DEF y
<1>13. Ticking(x)
  BY <1>5, <1>7, <1>12 DEF Ticking
<1>14. failed = {} => (p <=> faults \cap Settling = {})
  <2> SUFFICES ASSUME failed = {} PROVE p <=> faults \cap Settling = {}
    OBVIOUS
  <2>1. x.writes = n /\ ~once /\ radio.writes = 0
    BY <1>6, <1>7, <1>9, <1>12
  <2>2. p <=> n = 1
    BY <2>1, BootedFacts
  <2> HIDE DEF p
  <2> QED
    BY <1>10, <1>11, <2>1, <2>2
<1> HIDE DEF a, p
<1>15. (\A e \in checks : e[1] \in Adverts!Check) /\ ((\A e \in checks : e[2]) <=> p)
  BY <1>4
<1> HIDE DEF checks
<1>16. /\ at' = 11 /\ radio' = x /\ faults' = faults
       /\ failed' \subseteq (1..11) \X Adverts!Check
       /\ failed' = {} <=> failed = {} /\ p
  BY <1>1, <1>2, <1>3, <1>15, PhaseChecks
<1>17. RadioTyped'
  BY <1>1, <1>13, <1>16 DEF RadioInv, RadioTyped
<1>18. failed' = {} => RadioFound' /\ RadioPlace'
  <2>1. failed' = {} => /\ faults' \cap Turning = {} /\ faults' \cap Trying = {} /\ faults' \cap Backing = {}
                        /\ faults' \cap Leaving = {} /\ faults' \cap Settling = {}
    BY <1>6, <1>14, <1>16
  <2> QED
    BY <1>16, <2>1 DEF RadioFound, RadioPlace
<1>19. faults' = {} /\ ~hurried' => failed' = {}
  <2>1. faults = {} /\ ~hurried => failed = {}
    BY DEF RadioInv
  <2> QED
    BY <1>1, <1>14, <1>16, <2>1
<1> QED
  BY <1>16, <1>17, <1>18, <1>19 DEF RadioInv

\* A watch that passes radio_policy has none of the fifteen faults.
LEMMA RadioHolds ==
    ASSUME RadioInv
    PROVE  Adverts!TypeOK /\ Adverts!Detects /\ Adverts!NoFalseAlarm
<1>1. Adverts!TypeOK
  <2>1. Longest = Adverts!Delays[Len(Adverts!Delays)] + 1
    <3>1. Len(Adverts!Delays) = 4
      BY Times, SMT
    <3> QED
      BY <3>1, Zenon DEF Longest
  <2>2. Len(Adverts!Phases) = 11
    BY PhaseNames
  <2>3. /\ faults \subseteq Adverts!Fault /\ at \in 1..11 /\ failed \subseteq (1..11) \X Adverts!Check
        /\ radio \in Adverts!Radio /\ radio.timer <= Longest /\ hurried \in BOOLEAN
    BY Zenon DEF RadioInv, RadioTyped, Ticking
  <2> QED
    BY <2>1, <2>2, <2>3, Zenon DEF Adverts!TypeOK
<1>2. Adverts!Detects
  <2> SUFFICES ASSUME Adverts!Phases[at] = "done", failed = {} PROVE faults = {}
    BY Zenon DEF Adverts!Detects
  <2>1. at = 11
    BY PhaseNames DEF RadioInv, RadioTyped
  <2>2. /\ faults \cap Turning = {} /\ faults \cap Trying = {} /\ faults \cap Backing = {}
        /\ faults \cap Leaving = {} /\ faults \cap Settling = {} /\ faults \subseteq Adverts!Fault
    BY <2>1 DEF RadioInv, RadioTyped, RadioFound
  <2>3. Adverts!Fault = Turning \cup Trying \cup Backing \cup Leaving \cup Settling
    BY DEF Adverts!Fault, Turning, Trying, Backing, Leaving, Settling
  <2> QED
    BY <2>2, <2>3
<1>3. Adverts!NoFalseAlarm
  BY DEF RadioInv, Adverts!NoFalseAlarm
<1> QED
  BY <1>1, <1>2, <1>3

\* radio_policy begins with its invariant,
LEMMA RadioStarts == Adverts!Init => RadioInv
<1> SUFFICES ASSUME Adverts!Init PROVE RadioInv
  OBVIOUS
<1>1. /\ faults \subseteq Adverts!Fault /\ at = 1 /\ radio = Adverts!Booted
      /\ failed = {} /\ hurried = FALSE
  BY DEF Adverts!Init
<1>2. RadioTyped
  <2>1. Ticking(radio)
    BY <1>1, BootedFacts
  <2>2. at \in 1..11
    BY <1>1
  <2>3. failed \subseteq (1..11) \X Adverts!Check /\ hurried \in BOOLEAN
    BY <1>1, Zenon
  <2> QED
    BY <1>1, <2>1, <2>2, <2>3, Zenon DEF RadioTyped
<1>3. radio.writes = 0 /\ radio.terminates = 0 /\ ~hurried
  BY <1>1, BootedFacts
<1>4. RadioFound /\ RadioPlace
  BY <1>1 DEF RadioFound, RadioPlace
<1> QED
  BY <1>1, <1>2, <1>3, <1>4 DEF RadioInv

\* and every phase keeps it.
LEMMA RadioKept == RadioInv /\ Adverts!Next => RadioInv'
<1> SUFFICES ASSUME RadioInv, Adverts!Next PROVE RadioInv'
  OBVIOUS
<1>1. CASE \E k \in DOMAIN Adverts!Delays : Adverts!Retries(k)
  <2>1. DOMAIN Adverts!Delays = 1..4
    BY SMT DEF Adverts!Delays
  <2> QED
    BY <1>1, <2>1, RetriesStep
<1> QED
  BY <1>1, TurnsSlowStep, RetriesOnceStep, FailsFourTimesStep, RecoversStep, TurnsBeaconStep,
     BeaconRaisesStep, SettlesStep, Zenon DEF Adverts!Next

-----------------------------------------------------------------------------
(* link_auth.  A line of the script has one lemma where it needs one.       *)

\* Two sequences, one after the other.
LEMMA Joined ==
    ASSUME NEW S, NEW a \in Seq(S), NEW b \in Seq(S)
    PROVE  /\ a \o b \in Seq(S) /\ Len(a \o b) = Len(a) + Len(b)
           /\ \A i \in 1..Len(a) : (a \o b)[i] = a[i]
           /\ \A i \in 1..Len(b) : (a \o b)[Len(a) + i] = b[i]
<1>1. Len(a) \in Nat /\ Len(b) \in Nat
  OBVIOUS
<1> DEFINE c == a \o b
<1>2. /\ c \in Seq(S) /\ Len(c) = Len(a) + Len(b)
      /\ \A i \in 1..(Len(a) + Len(b)) : c[i] = IF i <= Len(a) THEN a[i] ELSE b[i - Len(a)]
  BY ConcatProperties
<1> HIDE DEF c
<1>3. \A i \in 1..Len(a) : c[i] = a[i]
  BY <1>1, <1>2
<1>4. \A i \in 1..Len(b) : c[Len(a) + i] = b[i]
  <2> SUFFICES ASSUME NEW i \in 1..Len(b) PROVE c[Len(a) + i] = b[i]
    OBVIOUS
  <2>1. Len(a) + i \in 1..(Len(a) + Len(b)) /\ ~(Len(a) + i <= Len(a)) /\ (Len(a) + i) - Len(a) = i
    BY <1>1
  <2> QED
    BY <1>2, <2>1
<1> QED
  BY <1>2, <1>3, <1>4 DEF c

\* What the lines of the script of link_auth are.
LEMMA ScriptLines ==
    /\ Len(Link!Script) = 27
    /\ Link!Script[1] = Link!Do("connect")
    /\ Link!Script[2] = Link!Line("second", {"busy"})
    /\ Link!Script[3] = Link!Line("begin none", {"auth"})
    /\ Link!Script[4] = Link!Line("status", {"ok"})
    /\ Link!Script[5] = Link!Line("verify", {"auth"})
    /\ Link!Script[6] = Link!Do("force off")
    /\ Link!Script[7] = Link!Line("battery", {"closed"})
    /\ Link!Script[8] = Link!Do("close")
    /\ Link!Script[9] = Link!Do("connect secure")
    /\ Link!Script[10] = Link!Line("verify", {"ok"})
    /\ \A i \in {10, 17} :
          /\ Link!Script[i + 1] = Link!Line("begin two", {"ok"})
          /\ Link!Script[i + 2] = Link!Must("record")
          /\ Link!Script[i + 3] = Link!Do("close")
          /\ Link!Script[i + 4] = Link!Do("connect secure")
          /\ Link!Script[i + 5] = Link!Line("commit two", Link!Answers \ {"ok"})
          /\ Link!Script[i + 6] = Link!Do("close")
    /\ Link!Script[17] = Link!Do("connect secure")
    /\ Link!Script[24] = Link!Do("force on")
    /\ Link!Script[25] = Link!Line("linked", {"ok"})
    /\ Link!Script[26] = Link!Do("force off")
    /\ Link!Script[27] = Link!Line("unlinked", {"ok"})
<1> DEFINE c == Link!Do("connect")
           s == Link!Do("connect secure")
           x == Link!Do("close")
           n == Link!Do("force on")
           f == Link!Do("force off")
           a == Link!Line("second", {"busy"})
           b == Link!Line("begin none", {"auth"})
           d == Link!Line("status", {"ok"})
           e == Link!Line("verify", {"auth"})
           g == Link!Line("battery", {"closed"})
           h == Link!Line("verify", {"ok"})
           j == Link!Line("begin two", {"ok"})
           k == Link!Must("record")
           l == Link!Line("commit two", Link!Answers \ {"ok"})
           o == Link!Line("linked", {"ok"})
           u == Link!Line("unlinked", {"ok"})
           lines == {c, s, x, n, f, a, b, d, e, g, h, j, k, l, o, u}
           begin == <<c, a, b, d, e, f, g, x, s, h>>
           staging == <<j, k, x, s, l, x>>
           again == <<s>>
           end == <<n, o, f, u>>
<1>1. Link!Script = begin \o staging \o again \o staging \o end
  BY Zenon DEF Link!Script, Link!Staging
<1> HIDE DEF c, s, x, n, f, a, b, d, e, g, h, j, k, l, o, u
<1>2. begin \in Seq(lines) /\ staging \in Seq(lines) /\ again \in Seq(lines) /\ end \in Seq(lines)
  OBVIOUS
<1>3. Len(begin) = 10 /\ Len(staging) = 6 /\ Len(again) = 1 /\ Len(end) = 4
  OBVIOUS
<1>4. /\ begin[1] = c /\ begin[2] = a /\ begin[3] = b /\ begin[4] = d /\ begin[5] = e
      /\ begin[6] = f /\ begin[7] = g /\ begin[8] = x /\ begin[9] = s /\ begin[10] = h
  OBVIOUS
<1>5. /\ staging[1] = j /\ staging[2] = k /\ staging[3] = x /\ staging[4] = s /\ staging[5] = l
      /\ staging[6] = x
  OBVIOUS
<1>6. again[1] = s /\ end[1] = n /\ end[2] = o /\ end[3] = f /\ end[4] = u
  OBVIOUS
<1> HIDE DEF lines, begin, staging, again, end
<1> DEFINE p == begin \o staging
           q == p \o again
           r == q \o staging
           t == r \o end
<1>7. Link!Script = t
  BY <1>1
<1>8. /\ p \in Seq(lines) /\ Len(p) = 16
      /\ \A i \in 1..10 : p[i] = begin[i]
      /\ \A i \in 1..6 : p[10 + i] = staging[i]
  <2>1. /\ p \in Seq(lines) /\ Len(p) = Len(begin) + Len(staging)
        /\ \A i \in 1..Len(begin) : p[i] = begin[i]
        /\ \A i \in 1..Len(staging) : p[Len(begin) + i] = staging[i]
    BY <1>2, Joined
  <2> HIDE DEF p
  <2> QED
    BY <1>2, <1>3, <2>1
<1> HIDE DEF p
<1>9. /\ q \in Seq(lines) /\ Len(q) = 17
      /\ \A i \in 1..16 : q[i] = p[i]
      /\ q[16 + 1] = s
  <2>1. /\ q \in Seq(lines) /\ Len(q) = Len(p) + Len(again)
        /\ \A i \in 1..Len(p) : q[i] = p[i]
        /\ \A i \in 1..Len(again) : q[Len(p) + i] = again[i]
    <3>1. p \in Seq(lines) /\ again \in Seq(lines)
      BY <1>2, <1>8
    <3> QED
      BY <3>1, Joined
  <2> HIDE DEF q
  <2> QED
    BY <1>2, <1>8, <1>3, <1>6, <2>1
<1> HIDE DEF q
<1>10. /\ r \in Seq(lines) /\ Len(r) = 23
       /\ \A i \in 1..17 : r[i] = q[i]
       /\ \A i \in 1..6 : r[17 + i] = staging[i]
  <2>1. /\ r \in Seq(lines) /\ Len(r) = Len(q) + Len(staging)
        /\ \A i \in 1..Len(q) : r[i] = q[i]
        /\ \A i \in 1..Len(staging) : r[Len(q) + i] = staging[i]
    <3>1. q \in Seq(lines) /\ staging \in Seq(lines)
      BY <1>2, <1>9
    <3> QED
      BY <3>1, Joined
  <2> HIDE DEF r
  <2> QED
    BY <1>2, <1>9, <1>3, <2>1
<1> HIDE DEF r
<1>11. /\ Len(t) = 27
       /\ \A i \in 1..23 : t[i] = r[i]
       /\ \A i \in 1..4 : t[23 + i] = end[i]
  <2>1. /\ t \in Seq(lines) /\ Len(t) = Len(r) + Len(end)
        /\ \A i \in 1..Len(r) : t[i] = r[i]
        /\ \A i \in 1..Len(end) : t[Len(r) + i] = end[i]
    <3>1. r \in Seq(lines) /\ end \in Seq(lines)
      BY <1>2, <1>10
    <3> QED
      BY <3>1, Joined
  <2> HIDE DEF t
  <2> QED
    BY <1>2, <1>10, <1>3, <2>1
<1> HIDE DEF t
<1>12. \A i \in 1..10 : t[i] = begin[i]
  <2> SUFFICES ASSUME NEW i \in 1..10 PROVE t[i] = begin[i]
    OBVIOUS
  <2>1. i \in 1..16 /\ i \in 1..17 /\ i \in 1..23
    OBVIOUS
  <2>2. t[i] = r[i]
    BY <1>11, <2>1
  <2>3. r[i] = q[i]
    BY <1>10, <2>1
  <2>4. q[i] = p[i]
    BY <1>9, <2>1
  <2> QED
    BY <1>8, <2>2, <2>3, <2>4
<1>13. \A i \in 1..6 : t[10 + i] = staging[i]
  <2> SUFFICES ASSUME NEW i \in 1..6 PROVE t[10 + i] = staging[i]
    OBVIOUS
  <2>1. 10 + i \in 1..16 /\ 10 + i \in 1..17 /\ 10 + i \in 1..23
    OBVIOUS
  <2>2. t[10 + i] = r[10 + i]
    BY <1>11, <2>1
  <2>3. r[10 + i] = q[10 + i]
    BY <1>10, <2>1
  <2>4. q[10 + i] = p[10 + i]
    BY <1>9, <2>1
  <2> QED
    BY <1>8, <2>2, <2>3, <2>4
<1>14. t[17] = s
  BY <1>9, <1>10, <1>11
<1>15. \A i \in 1..6 : t[17 + i] = staging[i]
  <2> SUFFICES ASSUME NEW i \in 1..6 PROVE t[17 + i] = staging[i]
    OBVIOUS
  <2>1. 17 + i \in 1..23
    OBVIOUS
  <2> QED
    BY <1>10, <1>11, <2>1
<1>16. /\ t[1] = c /\ t[2] = a /\ t[3] = b /\ t[4] = d /\ t[5] = e
       /\ t[6] = f /\ t[7] = g /\ t[8] = x /\ t[9] = s /\ t[10] = h
  BY <1>4, <1>12
<1>17. \A i \in {10, 17} : /\ t[i + 1] = j /\ t[i + 2] = k /\ t[i + 3] = x
                           /\ t[i + 4] = s /\ t[i + 5] = l /\ t[i + 6] = x
  BY <1>5, <1>13, <1>15
<1>18. t[24] = n /\ t[25] = o /\ t[26] = f /\ t[27] = u
  <2>1. t[23 + 1] = n /\ t[23 + 2] = o /\ t[23 + 3] = f /\ t[23 + 4] = u
    BY <1>6, <1>11
  <2> QED
    BY <2>1
<1>19. Len(t) = 27
  BY <1>11
<1> QED
  BY <1>7, <1>14, <1>16, <1>17, <1>18, <1>19, Zenon DEF c, s, x, n, f, a, b, d, e, g, h, j, k, l, o, u

\* The faults of link_auth, by name.
Two == "serves two" \in faults
Skips == "skips authentication" \in faults
Demanding == "authenticates everything" \in faults
Denies == "denies everyone" \in faults
Ignores == "ignores force" \in faults
Keeps == "keeps staging" \in faults

\* What has become of the scenario's connection.
Idle == conn = "none"
Served == conn = "served"
Queued == conn = "busy"
Dropped == conn = "dropped"

Nothing == Link!Nothing
Begun == [have |-> 0, of |-> 2]
Recorded == [have |-> 1, of |-> 2]

\* The lines before which the scenario has no connection, and those before which
\* it has one that may be waiting.
Between == {1, 9, 14, 17, 21, 24, 25, 26, 27, 28}
Within == {10, 11, 12, 13, 15, 16, 18, 19, 20, 22, 23}

LinkTyped ==
    /\ faults \subseteq Link!Fault /\ at \in 1..28
    /\ Idle \/ Served \/ Queued \/ Dropped
    /\ secure \in BOOLEAN /\ link \in BOOLEAN /\ occupied \in BOOLEAN
    /\ staged \in {Nothing, Begun, Recorded}
    /\ failed \in BOOLEAN /\ hurried \in BOOLEAN

\* Who has the link: a connection that is served is alone with it, and a record is
\* only accepted once the list has been begun.
LinkHeld ==
    /\ Served => link /\ ~occupied
    /\ at \in Between => Idle
    /\ at \in Within => Served \/ Queued
    /\ at \in {12, 19} /\ Served /\ ~Link!Demands(TRUE) => staged = Begun

\* Until its first disconnect the scenario is alone with the watch.
LinkEarly ==
    /\ at <= 8 => ~occupied /\ ~secure /\ ~hurried
    /\ at \in 2..6 => Served
    /\ at \in 7..8 => IF Ignores THEN Served ELSE Dropped

\* What the checks so far have ruled out.
LinkFound ==
    /\ at > 2 => ~Two
    /\ at > 3 => ~Skips
    /\ at > 4 => ~Demanding
    /\ at > 7 => ~Ignores
    /\ at = 9 => ~occupied
    /\ at = 10 => Served /\ secure
    /\ at > 10 => ~Denies

\* Where the sound watch is that is given the time it needs.
LinkSound ==
    /\ at = 9 => ~occupied
    /\ at \in Within => Served /\ secure
    /\ at \in {25, 26, 27} => ~occupied
    /\ at \in {25, 26} => link
    /\ at = 27 => ~link

LinkInv ==
    /\ LinkTyped /\ LinkHeld /\ LinkEarly
    /\ ~failed => LinkFound
    /\ faults = {} /\ ~hurried => ~failed /\ LinkSound

-----------------------------------------------------------------------------
(* What the watch answers.                                                   *)

\* When a request is turned down for want of authentication.
LEMMA DemandFacts ==
    /\ Link!Demands(TRUE) <=> (secure /\ Denies) \/ (~secure /\ ~Skips)
    /\ Link!Demands(FALSE) <=> ~secure /\ Demanding
  BY Zenon DEF Link!Demands, Link!Has, Denies, Skips, Demanding

\* What a request hears on each kind of connection.
LEMMA HeardFacts ==
    ASSUME NEW protected \in BOOLEAN, NEW answer
    PROVE  /\ Queued => Link!Hears(protected, answer) = "busy"
           /\ Dropped => Link!Hears(protected, answer) = "closed"
           /\ (Idle \/ Served) /\ Link!Demands(protected) => Link!Hears(protected, answer) = "auth"
           /\ (Idle \/ Served) /\ ~Link!Demands(protected) => Link!Hears(protected, answer) = answer
<1>1. /\ Queued => ~Dropped /\ ~Idle /\ ~Served
      /\ Dropped => ~Idle /\ ~Served
  BY DEF Queued, Dropped, Idle, Served
<1> QED
  BY <1>1 DEF Link!Hears, Queued, Dropped

\* The answer to every operation of the script.
LEMMA AnswerFacts ==
    /\ Two => Link!Answer("second") = "ok"
    /\ ~Two => Link!Answer("second") = "busy"
    /\ \A op \in {"status", "battery"} : Link!Answer(op) = Link!Hears(FALSE, "ok")
    /\ \A op \in {"verify", "begin none", "begin two", "record"} :
          Link!Answer(op) = Link!Hears(TRUE, "ok")
    /\ staged \in {Nothing, Begun, Recorded} =>
          Link!Answer("commit two") = Link!Hears(TRUE, "refused")
    /\ link => Link!Answer("linked") = "ok" /\ Link!Answer("unlinked") = "refused"
    /\ ~link => Link!Answer("linked") = "refused" /\ Link!Answer("unlinked") = "ok"
    /\ \A op \in {"connect", "connect secure", "close", "force on", "force off"} :
          Link!Answer(op) = "ok"
<1>1. staged \in {Nothing, Begun, Recorded} => ~(staged.have = 2 /\ staged.of = 2)
  BY DEF Nothing, Begun, Recorded, Link!Nothing
<1> HIDE DEF Nothing, Begun, Recorded
<1> DEFINE complete == staged.have = 2 /\ staged.of = 2
<1>2. Link!Answer("commit two") = Link!Hears(TRUE, IF complete THEN "ok" ELSE "refused")
  BY DEF Link!Answer
<1> HIDE DEF complete
<1>3. staged \in {Nothing, Begun, Recorded} => Link!Answer("commit two") = Link!Hears(TRUE, "refused")
  BY <1>1, <1>2, Zenon DEF complete
<1>4. /\ Two => Link!Answer("second") = "ok"
      /\ ~Two => Link!Answer("second") = "busy"
  BY DEF Link!Answer, Link!Has, Two
<1>5. /\ \A op \in {"status", "battery"} : Link!Answer(op) = Link!Hears(FALSE, "ok")
      /\ \A op \in {"verify", "begin none", "begin two", "record"} :
             Link!Answer(op) = Link!Hears(TRUE, "ok")
  BY DEF Link!Answer
<1>6. /\ link => Link!Answer("linked") = "ok" /\ Link!Answer("unlinked") = "refused"
      /\ ~link => Link!Answer("linked") = "refused" /\ Link!Answer("unlinked") = "ok"
      /\ \A op \in {"connect", "connect secure", "close", "force on", "force off"} :
             Link!Answer(op) = "ok"
  BY DEF Link!Answer
<1> QED
  BY <1>3, <1>4, <1>5, <1>6

-----------------------------------------------------------------------------
(* One line of the script.                                                   *)

\* The operation of a line, once it is clear that the scenario goes on.
Does(op) ==
    CASE op = "connect"        -> Link!Connect(FALSE)
      [] op = "connect secure" -> Link!Connect(TRUE)
      [] op = "close"          -> Link!Close
      [] op = "force off"      -> Link!ForceOff
      [] op = "force on"       -> Link!ForceOn
      [] OTHER                 -> Link!Request(op)

\* A step of the script reads one line, and aborts or does it.
LEMMA Reads ==
    ASSUME Link!Step, NEW op, NEW want, NEW must \in BOOLEAN,
           Link!Script[at] = [op |-> op, want |-> want, must |-> must]
    PROVE  LET fails == Link!Answer(op) \notin want
               aborts == fails /\ (must \/ Link!Answer(op) = "closed")
           IN  /\ failed' \in BOOLEAN /\ (failed' <=> failed \/ fails)
               /\ aborts => Link!Close /\ at' = Len(Link!Script) + 1
               /\ ~aborts => Does(op) /\ at' = at + 1
               /\ faults' = faults
<1> DEFINE line == Link!Script[at]
           heard == Link!Answer(line.op)
           fails == heard \notin line.want
<1>1. /\ failed' = (failed \/ fails)
      /\ IF fails /\ (line.must \/ heard = "closed")
         THEN Link!Close /\ at' = Len(Link!Script) + 1
         ELSE at' = at + 1 /\ Does(line.op)
      /\ faults' = faults
  BY Zenon DEF Link!Step, Does
<1>2. line.op = op /\ line.want = want /\ line.must = must
  OBVIOUS
<1> HIDE DEF line
<1> QED
  BY <1>1, <1>2, Zenon

\* Which action of the watch each operation is.
LEMMA DoesFacts ==
    /\ Does("connect") => Link!Connect(FALSE)
    /\ Does("connect secure") => Link!Connect(TRUE)
    /\ Does("close") => Link!Close
    /\ Does("force off") => Link!ForceOff
    /\ Does("force on") => Link!ForceOn
    /\ \A op \in {"second", "begin none", "status", "verify", "battery", "begin two", "record",
                  "commit two", "linked", "unlinked"} : Does(op) => Link!Request(op)
  BY DEF Does

\* What the operations do.
LEMMA RequestFacts ==
    ASSUME NEW op, Link!Request(op)
    PROVE  /\ secure' = secure /\ link' = link /\ conn' = conn /\ occupied' = occupied
           /\ hurried' = hurried
           /\ Link!Answer(op) # "ok" => staged' = staged
           /\ Link!Answer(op) = "ok" /\ op = "begin none" => staged' = Nothing
           /\ Link!Answer(op) = "ok" /\ op = "begin two" => staged' = Begun
           /\ Link!Answer(op) = "ok" /\ op = "record" =>
                 staged' = [staged EXCEPT !.have = @ + 1]
           /\ op \notin {"begin none", "begin two", "record"} => staged' = staged
<1>1. /\ staged' = IF Link!Answer(op) # "ok" THEN staged
                   ELSE CASE op = "begin two" -> Begun
                          [] op = "begin none" -> Nothing
                          [] op = "record" -> [staged EXCEPT !.have = @ + 1]
                          [] OTHER -> staged
      /\ secure' = secure /\ link' = link /\ conn' = conn /\ occupied' = occupied
      /\ hurried' = hurried
  BY Zenon DEF Link!Request, Nothing, Begun
<1> DEFINE more == [staged EXCEPT !.have = @ + 1]
<1> HIDE DEF more, Nothing, Begun
<1> QED
  BY <1>1

\* A request that stages nothing.
LEMMA QuietFacts ==
    ASSUME NEW op \in {"second", "status", "verify", "battery", "commit two", "linked", "unlinked"},
           Link!Request(op)
    PROVE  /\ secure' = secure /\ link' = link /\ conn' = conn /\ occupied' = occupied
           /\ hurried' = hurried /\ staged' = staged
<1>1. op \notin {"begin none", "begin two", "record"}
  OBVIOUS
<1> QED
  BY <1>1, RequestFacts, Zenon

\* One record of the list that was begun.
LEMMA Records == [Begun EXCEPT !.have = @ + 1] = Recorded
  BY DEF Begun, Recorded

\* A link that goes down is neither up nor secure.
LEMMA DownFacts ==
    ASSUME Link!Down
    PROVE  link' = FALSE /\ secure' = FALSE /\ (staged' = staged \/ staged' = Nothing)
  BY Zenon DEF Link!Down, Nothing

\* A connection is served, or hears BUSY and changes nothing.
LEMMA ConnectFacts ==
    ASSUME NEW secured \in BOOLEAN, Link!Connect(secured)
    PROVE  /\ hurried' = (hurried \/ occupied)
           /\ occupied' = occupied /\ staged' = staged
           /\ occupied => Queued' /\ link' = link /\ secure' = secure
           /\ ~occupied => Served' /\ link' = TRUE /\ secure' = secured
  BY Zenon DEF Link!Connect, Link!watch, Queued, Served

\* Closing a served connection leaves the bridge occupied.
LEMMA CloseFacts ==
    ASSUME Link!Close
    PROVE  /\ Idle' /\ occupied' = (occupied \/ Served)
           /\ secure' = secure /\ link' = link /\ staged' = staged /\ hurried' = hurried
  BY Zenon DEF Link!Close, Link!watch, Idle, Served

\* FORCE_DISCONNECT, obeyed or ignored.
LEMMA ForceOffFacts ==
    ASSUME Link!ForceOff
    PROVE  /\ occupied' = occupied /\ hurried' = hurried
           /\ Ignores => conn' = conn /\ secure' = secure /\ link' = link /\ staged' = staged
           /\ ~Ignores => /\ link' = FALSE /\ secure' = FALSE
                          /\ staged' = staged \/ staged' = Nothing
                          /\ Served => Dropped'
                          /\ ~Served => conn' = conn
  BY Zenon DEF Link!ForceOff, Link!Down, Link!watch, Link!Has, Ignores, Served, Dropped, Nothing

\* FORCE_CONNECT, obeyed or ignored.
LEMMA ForceOnFacts ==
    ASSUME Link!ForceOn
    PROVE  /\ link' = (link \/ ~Ignores)
           /\ hurried' = (hurried \/ occupied)
           /\ secure' = secure /\ staged' = staged /\ conn' = conn /\ occupied' = occupied
  BY Zenon DEF Link!ForceOn, Link!Has, Ignores

\* A watch without faults.
LEMMA SoundFacts ==
    faults = {} => ~Two /\ ~Skips /\ ~Demanding /\ ~Denies /\ ~Ignores /\ ~Keeps
  BY DEF Two, Skips, Demanding, Denies, Ignores, Keeps

\* What is demanded of a link does not change unless the link does.
LEMMA DemandKept ==
    ASSUME faults' = faults, secure' = secure
    PROVE  Link!Demands(TRUE)' <=> Link!Demands(TRUE)
  BY Zenon DEF Link!Demands, Link!Has

\* The same faults, by name.
LEMMA SameFaults ==
    ASSUME faults' = faults
    PROVE  /\ (Two' <=> Two) /\ (Skips' <=> Skips) /\ (Demanding' <=> Demanding)
           /\ (Denies' <=> Denies) /\ (Ignores' <=> Ignores) /\ (Keeps' <=> Keeps)
  BY DEF Two, Skips, Demanding, Denies, Ignores, Keeps

\* A connection is in one state at a time.
LEMMA OneState ==
    /\ ~(Idle /\ Served) /\ ~(Idle /\ Queued) /\ ~(Idle /\ Dropped)
    /\ ~(Served /\ Queued) /\ ~(Served /\ Dropped) /\ ~(Queued /\ Dropped)
    /\ ~(Idle' /\ Served') /\ ~(Idle' /\ Queued') /\ ~(Idle' /\ Dropped')
    /\ ~(Served' /\ Queued') /\ ~(Served' /\ Dropped') /\ ~(Queued' /\ Dropped')
  BY DEF Idle, Served, Queued, Dropped

\* The states of the connection when it stays as it is.
LEMMA SameConn ==
    ASSUME conn' = conn
    PROVE  (Idle' <=> Idle) /\ (Served' <=> Served) /\ (Queued' <=> Queued) /\ (Dropped' <=> Dropped)
  BY DEF Idle, Served, Queued, Dropped

\* The lines that connect: the bridge serves the connection, or lets it wait.
LEMMA LineConnect ==
    ASSUME LinkInv, Link!Step, at \in {1, 9, 14, 17, 21} PROVE LinkInv'
<1> DEFINE secured == at # 1
<1>1. PICK op :
         /\ op \in {"connect", "connect secure"}
         /\ Link!Script[at] = [op |-> op, want |-> Link!Answers, must |-> FALSE]
         /\ op = "connect" <=> at = 1
  <2>1. CASE at = 1
    BY <2>1, ScriptLines DEF Link!Do, Link!Line
  <2>2. CASE at \in {9, 17}
    BY <2>2, ScriptLines DEF Link!Do, Link!Line
  <2>3. CASE at \in {14, 21}
    <3>1. PICK i \in {10, 17} : at = i + 4
      BY <2>3
    <3>2. Link!Script[at] = Link!Do("connect secure")
      BY <3>1, ScriptLines, Zenon
    <3>3. Link!Script[at] = [op |-> "connect secure", want |-> Link!Answers, must |-> FALSE]
      BY <3>2, Zenon DEF Link!Do, Link!Line
    <3>4. at # 1
      BY <2>3
    <3> QED
      BY <3>3, <3>4, Zenon
  <2> QED
    BY <2>1, <2>2, <2>3
<1>2. Link!Answer(op) = "ok" /\ "ok" \in Link!Answers
  BY <1>1, AnswerFacts DEF Link!Answers
<1>3. /\ failed' \in BOOLEAN /\ (failed' <=> failed)
      /\ faults' = faults /\ at' = at + 1 /\ Does(op)
  BY <1>1, <1>2, Reads, Zenon
<1>4. Link!Connect(secured)
  <2>1. CASE op = "connect"
    <3>1. secured = FALSE
      BY <1>1, <2>1
    <3> QED
      BY <1>3, <2>1, <3>1, DoesFacts, Zenon
  <2>2. CASE op = "connect secure"
    <3>1. secured = TRUE
      BY <1>1, <2>2
    <3> QED
      BY <1>3, <2>2, <3>1, DoesFacts, Zenon
  <2> QED
    BY <1>1, <2>1, <2>2
<1> HIDE DEF secured
<1>5. /\ hurried' = (hurried \/ occupied) /\ occupied' = occupied /\ staged' = staged
      /\ occupied => Queued' /\ link' = link /\ secure' = secure
      /\ ~occupied => Served' /\ link' = TRUE /\ secure' = secured
  <2>1. secured \in BOOLEAN
    BY DEF secured
  <2> QED
    BY <1>4, <2>1, ConnectFacts, Zenon
<1>6. /\ hurried' \in BOOLEAN /\ (hurried' <=> hurried \/ occupied)
      /\ occupied' = occupied /\ staged' = staged
      /\ occupied => Queued' /\ link' = link /\ secure' = secure
      /\ ~occupied => /\ Served' /\ link' = TRUE
                      /\ secure' \in BOOLEAN /\ (secure' <=> at # 1)
  BY <1>5, Zenon DEF secured
<1>7. LinkTyped'
  <2>1. at' \in 1..28
    BY <1>3
  <2>2. Served' \/ Queued'
    BY <1>6 DEF LinkInv, LinkTyped
  <2>3. secure' \in BOOLEAN /\ link' \in BOOLEAN
    BY <1>6 DEF LinkInv, LinkTyped
  <2> QED
    BY <1>3, <1>6, <2>1, <2>2, <2>3 DEF LinkInv, LinkTyped
<1>8. LinkHeld'
  <2>1. at' \notin Between /\ at' \notin {12, 19}
    BY <1>3 DEF Between
  <2>2. Served' \/ Queued'
    BY <1>6 DEF LinkInv, LinkTyped
  <2>3. Served' => ~occupied' /\ link'
    BY <1>6, OneState DEF LinkInv, LinkTyped
  <2> QED
    BY <2>1, <2>2, <2>3, OneState DEF LinkHeld
<1>9. LinkEarly'
  BY <1>3, <1>6, OneState DEF LinkInv, LinkEarly
<1>10. ~failed' => LinkFound'
  BY <1>3, <1>6, SameFaults DEF LinkInv, LinkFound
<1>11. faults' = {} /\ ~hurried' => ~failed' /\ LinkSound'
  BY <1>3, <1>6 DEF LinkInv, LinkSound, Within
<1> QED
  BY <1>7, <1>8, <1>9, <1>10, <1>11 DEF LinkInv

\* The lines that close the connection, which the bridge has yet to notice.
LEMMA LineClose ==
    ASSUME LinkInv, Link!Step, at \in {8, 13, 16, 20, 23} PROVE LinkInv'
<1>1. Link!Script[at] = [op |-> "close", want |-> Link!Answers, must |-> FALSE]
  <2>1. CASE at = 8
    BY <2>1, ScriptLines DEF Link!Do, Link!Line
  <2>2. CASE at \in {13, 16, 20, 23}
    <3>1. PICK i \in {10, 17} : at = i + 3 \/ at = i + 6
      BY <2>2
    <3>2. Link!Script[i + 3] = Link!Do("close") /\ Link!Script[i + 6] = Link!Do("close")
      BY ScriptLines
    <3> QED
      BY <3>1, <3>2 DEF Link!Do, Link!Line
  <2> QED
    BY <2>1, <2>2
<1>2. Link!Answer("close") = "ok" /\ "ok" \in Link!Answers
  BY AnswerFacts DEF Link!Answers
<1>3. /\ failed' \in BOOLEAN /\ (failed' <=> failed)
      /\ faults' = faults /\ at' = at + 1 /\ Does("close")
  BY <1>1, <1>2, Reads, Zenon
<1>4. Link!Close
  BY <1>3, DoesFacts, Zenon
<1>5. /\ Idle' /\ occupied' = (occupied \/ Served)
      /\ secure' = secure /\ link' = link /\ staged' = staged /\ hurried' = hurried
  BY <1>4, CloseFacts
<1>6. /\ Idle' /\ occupied' \in BOOLEAN /\ (occupied' <=> occupied \/ Served)
      /\ secure' = secure /\ link' = link /\ staged' = staged /\ hurried' = hurried
  BY <1>5
<1>7. LinkTyped'
  BY <1>3, <1>6 DEF LinkInv, LinkTyped
<1>8. LinkHeld'
  <2>1. at' \in Between /\ at' \notin Within /\ at' \notin {12, 19}
    BY <1>3 DEF Between, Within
  <2>2. ~Served'
    BY <1>6, OneState
  <2> QED
    BY <1>6, <2>1, <2>2 DEF LinkHeld
<1>9. LinkEarly'
  BY <1>3 DEF LinkInv, LinkEarly
<1>10. ~failed' => LinkFound'
  BY <1>3, <1>6, SameFaults, OneState DEF LinkInv, LinkFound, LinkEarly
<1>11. faults' = {} /\ ~hurried' => ~failed' /\ LinkSound'
  BY <1>3, <1>6, SoundFacts, OneState DEF LinkInv, LinkSound, LinkEarly, Within
<1> QED
  BY <1>7, <1>8, <1>9, <1>10, <1>11 DEF LinkInv

\* A second connection, which hears BUSY.
LEMMA LineSecond ==
    ASSUME LinkInv, Link!Step, at = 2 PROVE LinkInv'
<1>1. Link!Script[at] = [op |-> "second", want |-> {"busy"}, must |-> FALSE]
  BY ScriptLines, Zenon DEF Link!Line
<1>2. /\ Link!Answer("second") \notin {"busy"} <=> Two
      /\ Link!Answer("second") \notin {"busy"} => Link!Answer("second") # "closed"
  BY AnswerFacts
<1>3. failed' \in BOOLEAN /\ (failed' <=> failed \/ Two) /\ faults' = faults /\ at' = at + 1
  BY <1>1, <1>2, Reads, Zenon
<1>4. Link!Request("second")
  <2>1. Does("second")
    BY <1>1, <1>2, Reads, Zenon
  <2> QED
    BY <2>1, DoesFacts, Zenon
<1>5. /\ hurried' = hurried /\ occupied' = occupied /\ staged' = staged /\ secure' = secure
      /\ conn' = conn /\ link' = link
  BY <1>4, QuietFacts
<1>6. at' = 3
  BY <1>3
<1>7. (Served' <=> Served) /\ (Idle' <=> Idle) /\ (Queued' <=> Queued) /\ (Dropped' <=> Dropped)
  BY <1>5, SameConn
<1>8. LinkTyped'
  BY <1>3, <1>5, <1>6, <1>7 DEF LinkInv, LinkTyped
<1>9. LinkHeld'
  BY <1>5, <1>6, <1>7 DEF LinkInv, LinkHeld, LinkEarly, Between, Within
<1>10. LinkEarly'
  BY <1>5, <1>6, <1>7, SameFaults DEF LinkInv, LinkEarly
<1>11. ~failed' => LinkFound'
  BY <1>3, <1>5, <1>6, <1>7, SameFaults DEF LinkInv, LinkFound, LinkEarly
<1>12. faults' = {} /\ ~hurried' => ~failed' /\ LinkSound'
  BY <1>3, <1>5, <1>6, <1>7, SoundFacts DEF LinkInv, LinkSound, LinkEarly, Within
<1> QED
  BY <1>8, <1>9, <1>10, <1>11, <1>12 DEF LinkInv

\* What needs no authentication.
LEMMA LineStatus ==
    ASSUME LinkInv, Link!Step, at = 4 PROVE LinkInv'
<1>1. Link!Script[at] = [op |-> "status", want |-> {"ok"}, must |-> FALSE]
  BY ScriptLines, Zenon DEF Link!Line
<1>2. /\ Link!Answer("status") \notin {"ok"} <=> Demanding
      /\ Link!Answer("status") \notin {"ok"} => Link!Answer("status") # "closed"
  <2>1. Served /\ ~secure
    BY DEF LinkInv, LinkEarly
  <2>2. Link!Answer("status") = Link!Hears(FALSE, "ok")
    BY AnswerFacts, Zenon
  <2>3. /\ Link!Demands(FALSE) => Link!Answer("status") = "auth"
        /\ ~Link!Demands(FALSE) => Link!Answer("status") = "ok"
    BY <2>1, <2>2, HeardFacts, Zenon
  <2>4. Link!Demands(FALSE) <=> Demanding
    BY <2>1, DemandFacts, Zenon
  <2> QED
    BY <2>3, <2>4
<1>3. failed' \in BOOLEAN /\ (failed' <=> failed \/ Demanding) /\ faults' = faults /\ at' = at + 1
  BY <1>1, <1>2, Reads, Zenon
<1>4. Link!Request("status")
  <2>1. Does("status")
    BY <1>1, <1>2, Reads, Zenon
  <2> QED
    BY <2>1, DoesFacts, Zenon
<1>5. /\ hurried' = hurried /\ occupied' = occupied /\ staged' = staged /\ secure' = secure
      /\ conn' = conn /\ link' = link
  BY <1>4, QuietFacts
<1>6. at' = 5
  BY <1>3
<1>7. (Served' <=> Served) /\ (Idle' <=> Idle) /\ (Queued' <=> Queued) /\ (Dropped' <=> Dropped)
  BY <1>5, SameConn
<1>8. LinkTyped'
  BY <1>3, <1>5, <1>6, <1>7 DEF LinkInv, LinkTyped
<1>9. LinkHeld'
  BY <1>5, <1>6, <1>7 DEF LinkInv, LinkHeld, LinkEarly, Between, Within
<1>10. LinkEarly'
  BY <1>5, <1>6, <1>7, SameFaults DEF LinkInv, LinkEarly
<1>11. ~failed' => LinkFound'
  BY <1>3, <1>5, <1>6, <1>7, SameFaults DEF LinkInv, LinkFound, LinkEarly
<1>12. faults' = {} /\ ~hurried' => ~failed' /\ LinkSound'
  BY <1>3, <1>5, <1>6, <1>7, SoundFacts DEF LinkInv, LinkSound, LinkEarly, Within
<1> QED
  BY <1>8, <1>9, <1>10, <1>11, <1>12 DEF LinkInv

\* What needs it, asked without.
LEMMA LineVerify ==
    ASSUME LinkInv, Link!Step, at = 5 PROVE LinkInv'
<1>1. Link!Script[at] = [op |-> "verify", want |-> {"auth"}, must |-> FALSE]
  BY ScriptLines, Zenon DEF Link!Line
<1>2. /\ Link!Answer("verify") \notin {"auth"} <=> Skips
      /\ Link!Answer("verify") \notin {"auth"} => Link!Answer("verify") # "closed"
  <2>1. Served /\ ~secure
    BY DEF LinkInv, LinkEarly
  <2>2. Link!Answer("verify") = Link!Hears(TRUE, "ok")
    BY AnswerFacts, Zenon
  <2>3. /\ Link!Demands(TRUE) => Link!Answer("verify") = "auth"
        /\ ~Link!Demands(TRUE) => Link!Answer("verify") = "ok"
    BY <2>1, <2>2, HeardFacts, Zenon
  <2>4. Link!Demands(TRUE) <=> ~Skips
    BY <2>1, DemandFacts, Zenon
  <2> QED
    BY <2>3, <2>4
<1>3. failed' \in BOOLEAN /\ (failed' <=> failed \/ Skips) /\ faults' = faults /\ at' = at + 1
  BY <1>1, <1>2, Reads, Zenon
<1>4. Link!Request("verify")
  <2>1. Does("verify")
    BY <1>1, <1>2, Reads, Zenon
  <2> QED
    BY <2>1, DoesFacts, Zenon
<1>5. /\ hurried' = hurried /\ occupied' = occupied /\ staged' = staged /\ secure' = secure
      /\ conn' = conn /\ link' = link
  BY <1>4, QuietFacts
<1>6. at' = 6
  BY <1>3
<1>7. (Served' <=> Served) /\ (Idle' <=> Idle) /\ (Queued' <=> Queued) /\ (Dropped' <=> Dropped)
  BY <1>5, SameConn
<1>8. LinkTyped'
  BY <1>3, <1>5, <1>6, <1>7 DEF LinkInv, LinkTyped
<1>9. LinkHeld'
  BY <1>5, <1>6, <1>7 DEF LinkInv, LinkHeld, LinkEarly, Between, Within
<1>10. LinkEarly'
  BY <1>5, <1>6, <1>7, SameFaults DEF LinkInv, LinkEarly
<1>11. ~failed' => LinkFound'
  BY <1>3, <1>5, <1>6, <1>7, SameFaults DEF LinkInv, LinkFound, LinkEarly
<1>12. faults' = {} /\ ~hurried' => ~failed' /\ LinkSound'
  BY <1>3, <1>5, <1>6, <1>7, SoundFacts DEF LinkInv, LinkSound, LinkEarly, Within
<1> QED
  BY <1>8, <1>9, <1>10, <1>11, <1>12 DEF LinkInv

\* A request after the link was forced down.
LEMMA LineBattery ==
    ASSUME LinkInv, Link!Step, at = 7 PROVE LinkInv'
<1>1. Link!Script[at] = [op |-> "battery", want |-> {"closed"}, must |-> FALSE]
  BY ScriptLines, Zenon DEF Link!Line
<1>2. /\ Link!Answer("battery") \notin {"closed"} <=> Ignores
      /\ Link!Answer("battery") \notin {"closed"} => Link!Answer("battery") # "closed"
  <2>1. IF Ignores THEN Served ELSE Dropped
    BY DEF LinkInv, LinkEarly
  <2>2. Link!Answer("battery") = Link!Hears(FALSE, "ok")
    BY AnswerFacts, Zenon
  <2>3. /\ Ignores => Link!Answer("battery") = "ok" \/ Link!Answer("battery") = "auth"
        /\ ~Ignores => Link!Answer("battery") = "closed"
    BY <2>1, <2>2, HeardFacts, Zenon
  <2> QED
    BY <2>3
<1>3. failed' \in BOOLEAN /\ (failed' <=> failed \/ Ignores) /\ faults' = faults /\ at' = at + 1
  BY <1>1, <1>2, Reads, Zenon
<1>4. Link!Request("battery")
  <2>1. Does("battery")
    BY <1>1, <1>2, Reads, Zenon
  <2> QED
    BY <2>1, DoesFacts, Zenon
<1>5. /\ hurried' = hurried /\ occupied' = occupied /\ staged' = staged /\ secure' = secure
      /\ conn' = conn /\ link' = link
  BY <1>4, QuietFacts
<1>6. at' = 8
  BY <1>3
<1>7. (Served' <=> Served) /\ (Idle' <=> Idle) /\ (Queued' <=> Queued) /\ (Dropped' <=> Dropped)
  BY <1>5, SameConn
<1>8. LinkTyped'
  BY <1>3, <1>5, <1>6, <1>7 DEF LinkInv, LinkTyped
<1>9. LinkHeld'
  BY <1>5, <1>6, <1>7 DEF LinkInv, LinkHeld, LinkEarly, Between, Within
<1>10. LinkEarly'
  <2>1. ~occupied' /\ ~secure' /\ ~hurried' /\ (IF Ignores THEN Served ELSE Dropped)
    BY <1>5 DEF LinkInv, LinkEarly
  <2>2. IF Ignores' THEN Served' ELSE Dropped'
    BY <1>3, <1>7, <2>1, SameFaults, Zenon
  <2> QED
    BY <1>6, <2>1, <2>2 DEF LinkEarly
<1>11. ~failed' => LinkFound'
  BY <1>3, <1>5, <1>6, <1>7, SameFaults DEF LinkInv, LinkFound, LinkEarly
<1>12. faults' = {} /\ ~hurried' => ~failed' /\ LinkSound'
  BY <1>3, <1>5, <1>6, <1>7, SoundFacts DEF LinkInv, LinkSound, LinkEarly, Within
<1> QED
  BY <1>8, <1>9, <1>10, <1>11, <1>12 DEF LinkInv

\* What needs authentication, asked with it.
LEMMA LineVerified ==
    ASSUME LinkInv, Link!Step, at = 10 PROVE LinkInv'
<1>1. Link!Script[at] = [op |-> "verify", want |-> {"ok"}, must |-> FALSE]
  BY ScriptLines, Zenon DEF Link!Line
<1>2. /\ Link!Answer("verify") \notin {"ok"} <=> (Queued \/ Link!Demands(TRUE))
      /\ Link!Answer("verify") \notin {"ok"} => Link!Answer("verify") # "closed"
  <2>1. Served \/ Queued
    BY DEF LinkInv, LinkHeld, Within
  <2>2. Link!Answer("verify") = Link!Hears(TRUE, "ok")
    BY AnswerFacts, Zenon
  <2>3. /\ Queued => Link!Answer("verify") = "busy"
        /\ Served /\ Link!Demands(TRUE) => Link!Answer("verify") = "auth"
        /\ Served /\ ~Link!Demands(TRUE) => Link!Answer("verify") = "ok"
    BY <2>2, HeardFacts, Zenon
  <2> QED
    BY <2>1, <2>3, OneState
<1>3. failed' \in BOOLEAN /\ (failed' <=> failed \/ (Queued \/ Link!Demands(TRUE))) /\ faults' = faults /\ at' = at + 1
  BY <1>1, <1>2, Reads, Zenon
<1>4. Link!Request("verify")
  <2>1. Does("verify")
    BY <1>1, <1>2, Reads, Zenon
  <2> QED
    BY <2>1, DoesFacts, Zenon
<1>5. /\ hurried' = hurried /\ occupied' = occupied /\ staged' = staged /\ secure' = secure
      /\ conn' = conn /\ link' = link
  BY <1>4, QuietFacts
<1>6. at' = 11
  BY <1>3
<1>7. (Served' <=> Served) /\ (Idle' <=> Idle) /\ (Queued' <=> Queued) /\ (Dropped' <=> Dropped)
  BY <1>5, SameConn
<1>8. LinkTyped'
  BY <1>3, <1>5, <1>6, <1>7 DEF LinkInv, LinkTyped
<1>9. LinkHeld'
  BY <1>5, <1>6, <1>7 DEF LinkInv, LinkHeld, LinkEarly, Between, Within
<1>10. LinkEarly'
  BY <1>5, <1>6, <1>7, SameFaults DEF LinkInv, LinkEarly
<1>11. faults' = faults /\ (failed => failed') /\ (Served /\ secure => (failed' <=> failed \/ Denies))
  BY <1>3, DemandFacts, OneState, Zenon
<1>12. ~failed' => LinkFound'
  BY <1>5, <1>6, <1>7, <1>11, SameFaults DEF LinkInv, LinkFound, LinkEarly
<1>13. faults' = {} /\ ~hurried' => ~failed' /\ LinkSound'
  BY <1>5, <1>6, <1>7, <1>11, SoundFacts DEF LinkInv, LinkSound, LinkEarly, Within
<1> QED
  BY <1>8, <1>9, <1>10, <1>12, <1>13 DEF LinkInv

\* The link that was asked for.
LEMMA LineLinked ==
    ASSUME LinkInv, Link!Step, at = 25 PROVE LinkInv'
<1>1. Link!Script[at] = [op |-> "linked", want |-> {"ok"}, must |-> FALSE]
  BY ScriptLines, Zenon DEF Link!Line
<1>2. /\ Link!Answer("linked") \notin {"ok"} <=> ~link
      /\ Link!Answer("linked") \notin {"ok"} => Link!Answer("linked") # "closed"
  BY AnswerFacts DEF LinkInv, LinkTyped
<1>3. failed' \in BOOLEAN /\ (failed' <=> failed \/ ~link) /\ faults' = faults /\ at' = at + 1
  BY <1>1, <1>2, Reads, Zenon
<1>4. Link!Request("linked")
  <2>1. Does("linked")
    BY <1>1, <1>2, Reads, Zenon
  <2> QED
    BY <2>1, DoesFacts, Zenon
<1>5. /\ hurried' = hurried /\ occupied' = occupied /\ staged' = staged /\ secure' = secure
      /\ conn' = conn /\ link' = link
  BY <1>4, QuietFacts
<1>6. at' = 26
  BY <1>3
<1>7. (Served' <=> Served) /\ (Idle' <=> Idle) /\ (Queued' <=> Queued) /\ (Dropped' <=> Dropped)
  BY <1>5, SameConn
<1>8. LinkTyped'
  BY <1>3, <1>5, <1>6, <1>7 DEF LinkInv, LinkTyped
<1>9. LinkHeld'
  BY <1>5, <1>6, <1>7 DEF LinkInv, LinkHeld, LinkEarly, Between, Within
<1>10. LinkEarly'
  BY <1>5, <1>6, <1>7, SameFaults DEF LinkInv, LinkEarly
<1>11. ~failed' => LinkFound'
  BY <1>3, <1>5, <1>6, <1>7, SameFaults DEF LinkInv, LinkFound, LinkEarly
<1>12. faults' = {} /\ ~hurried' => ~failed' /\ LinkSound'
  BY <1>3, <1>5, <1>6, <1>7, SoundFacts DEF LinkInv, LinkSound, LinkEarly, Within
<1> QED
  BY <1>8, <1>9, <1>10, <1>11, <1>12 DEF LinkInv

\* The link that was taken down.
LEMMA LineUnlinked ==
    ASSUME LinkInv, Link!Step, at = 27 PROVE LinkInv'
<1>1. Link!Script[at] = [op |-> "unlinked", want |-> {"ok"}, must |-> FALSE]
  BY ScriptLines, Zenon DEF Link!Line
<1>2. /\ Link!Answer("unlinked") \notin {"ok"} <=> link
      /\ Link!Answer("unlinked") \notin {"ok"} => Link!Answer("unlinked") # "closed"
  BY AnswerFacts DEF LinkInv, LinkTyped
<1>3. failed' \in BOOLEAN /\ (failed' <=> failed \/ link) /\ faults' = faults /\ at' = at + 1
  BY <1>1, <1>2, Reads, Zenon
<1>4. Link!Request("unlinked")
  <2>1. Does("unlinked")
    BY <1>1, <1>2, Reads, Zenon
  <2> QED
    BY <2>1, DoesFacts, Zenon
<1>5. /\ hurried' = hurried /\ occupied' = occupied /\ staged' = staged /\ secure' = secure
      /\ conn' = conn /\ link' = link
  BY <1>4, QuietFacts
<1>6. at' = 28
  BY <1>3
<1>7. (Served' <=> Served) /\ (Idle' <=> Idle) /\ (Queued' <=> Queued) /\ (Dropped' <=> Dropped)
  BY <1>5, SameConn
<1>8. LinkTyped'
  BY <1>3, <1>5, <1>6, <1>7 DEF LinkInv, LinkTyped
<1>9. LinkHeld'
  BY <1>5, <1>6, <1>7 DEF LinkInv, LinkHeld, LinkEarly, Between, Within
<1>10. LinkEarly'
  BY <1>5, <1>6, <1>7, SameFaults DEF LinkInv, LinkEarly
<1>11. ~failed' => LinkFound'
  BY <1>3, <1>5, <1>6, <1>7, SameFaults DEF LinkInv, LinkFound, LinkEarly
<1>12. faults' = {} /\ ~hurried' => ~failed' /\ LinkSound'
  BY <1>3, <1>5, <1>6, <1>7, SoundFacts DEF LinkInv, LinkSound, LinkEarly, Within
<1> QED
  BY <1>8, <1>9, <1>10, <1>11, <1>12 DEF LinkInv

\* Asking, without authentication, for what needs it; a watch that allows it has
\* staged an empty list.
LEMMA LineBeginNone ==
    ASSUME LinkInv, Link!Step, at = 3 PROVE LinkInv'
<1>1. Link!Script[at] = [op |-> "begin none", want |-> {"auth"}, must |-> FALSE]
  BY ScriptLines, Zenon DEF Link!Line
<1>2. /\ Link!Answer("begin none") \notin {"auth"} <=> Skips
      /\ Link!Answer("begin none") # "closed"
  <2>1. Served /\ ~secure
    BY DEF LinkInv, LinkEarly
  <2>2. Link!Answer("begin none") = Link!Hears(TRUE, "ok")
    BY AnswerFacts, Zenon
  <2>3. /\ Link!Demands(TRUE) => Link!Answer("begin none") = "auth"
        /\ ~Link!Demands(TRUE) => Link!Answer("begin none") = "ok"
    BY <2>1, <2>2, HeardFacts, Zenon
  <2>4. Link!Demands(TRUE) <=> ~Skips
    BY <2>1, DemandFacts, Zenon
  <2> QED
    BY <2>3, <2>4
<1>3. /\ failed' \in BOOLEAN /\ (failed' <=> failed \/ Skips)
      /\ faults' = faults /\ at' = at + 1
  BY <1>1, <1>2, Reads, Zenon
<1>4. Link!Request("begin none")
  <2>1. Does("begin none")
    BY <1>1, <1>2, Reads, Zenon
  <2> QED
    BY <2>1, DoesFacts, Zenon
<1>5. /\ hurried' = hurried /\ occupied' = occupied /\ secure' = secure
      /\ conn' = conn /\ link' = link
      /\ staged' = staged \/ staged' = Nothing
  BY <1>4, RequestFacts, Zenon
<1>6. at' = 4
  BY <1>3
<1>7. (Served' <=> Served) /\ (Idle' <=> Idle) /\ (Queued' <=> Queued) /\ (Dropped' <=> Dropped)
  BY <1>5, SameConn
<1>8. LinkTyped'
  BY <1>3, <1>5, <1>6, <1>7 DEF LinkInv, LinkTyped
<1>9. LinkHeld'
  BY <1>5, <1>6, <1>7 DEF LinkInv, LinkHeld, LinkEarly, Between, Within
<1>10. LinkEarly'
  BY <1>5, <1>6, <1>7, SameFaults DEF LinkInv, LinkEarly
<1>11. ~failed' => LinkFound'
  BY <1>3, <1>5, <1>6, <1>7, SameFaults DEF LinkInv, LinkFound, LinkEarly
<1>12. faults' = {} /\ ~hurried' => ~failed' /\ LinkSound'
  BY <1>3, <1>5, <1>6, <1>7, SoundFacts DEF LinkInv, LinkSound, LinkEarly, Within
<1> QED
  BY <1>8, <1>9, <1>10, <1>11, <1>12 DEF LinkInv

\* Forcing the link down drops the connection, unless that is what is wrong.
LEMMA LineForceOff ==
    ASSUME LinkInv, Link!Step, at \in {6, 26} PROVE LinkInv'
<1>1. Link!Script[at] = [op |-> "force off", want |-> Link!Answers, must |-> FALSE]
  BY ScriptLines DEF Link!Do, Link!Line
<1>2. Link!Answer("force off") = "ok" /\ "ok" \in Link!Answers
  BY AnswerFacts DEF Link!Answers
<1>3. /\ failed' \in BOOLEAN /\ (failed' <=> failed)
      /\ faults' = faults /\ at' = at + 1
  BY <1>1, <1>2, Reads, Zenon
<1>4. Link!ForceOff
  <2>1. Does("force off")
    BY <1>1, <1>2, Reads, Zenon
  <2> QED
    BY <2>1, DoesFacts, Zenon
<1>5. /\ occupied' = occupied /\ hurried' = hurried
      /\ link' \in BOOLEAN /\ secure' \in BOOLEAN /\ (secure' => secure)
      /\ staged' = staged \/ staged' = Nothing
      /\ Ignores => (Served' <=> Served) /\ link' = link
      /\ ~Ignores => ~link' /\ (Served => Dropped')
      /\ Idle => Idle'
      /\ Idle' \/ Served' \/ Queued' \/ Dropped'
      /\ Served' => Served /\ Ignores
  <2>1. secure \in BOOLEAN /\ link \in BOOLEAN /\ (Idle \/ Served \/ Queued \/ Dropped)
    BY DEF LinkInv, LinkTyped
  <2>2. CASE Ignores
    <3>1. /\ occupied' = occupied /\ hurried' = hurried /\ secure' = secure /\ link' = link
          /\ staged' = staged /\ conn' = conn
      BY <1>4, <2>2, ForceOffFacts, Zenon
    <3> QED
      BY <2>1, <2>2, <3>1, SameConn
  <2>3. CASE ~Ignores
    <3>1. /\ occupied' = occupied /\ hurried' = hurried /\ secure' = FALSE /\ link' = FALSE
          /\ staged' = staged \/ staged' = Nothing
          /\ Served => Dropped'
          /\ ~Served => conn' = conn
      BY <1>4, <2>3, ForceOffFacts, Zenon
    <3>2. ~Served => (Served' <=> Served) /\ (Idle' <=> Idle) /\ (Queued' <=> Queued) /\ (Dropped' <=> Dropped)
      BY <3>1, SameConn
    <3>3. Idle => ~Served
      BY OneState
    <3>4. Served => ~Served'
      BY <3>1, OneState
    <3> QED
      BY <2>1, <2>3, <3>1, <3>2, <3>3, <3>4
  <2> QED
    BY <2>2, <2>3
<1>6. LinkTyped'
  BY <1>3, <1>5 DEF LinkInv, LinkTyped
<1>7. LinkHeld'
  <2>1. Served' => link' /\ ~occupied'
    BY <1>5 DEF LinkInv, LinkHeld
  <2>2. at' \in Between => at = 26
    BY <1>3 DEF Between
  <2>3. at = 26 => Idle
    BY DEF LinkInv, LinkHeld, Between
  <2>4. at' \notin Within /\ at' \notin {12, 19}
    BY <1>3 DEF Within
  <2> QED
    BY <1>5, <2>1, <2>2, <2>3, <2>4, Zenon DEF LinkHeld
<1>8. LinkEarly'
  <2>1. CASE at = 6
    <3>1. Served /\ ~occupied' /\ ~secure' /\ ~hurried' /\ at' = 7
      BY <1>3, <1>5, <2>1 DEF LinkInv, LinkEarly
    <3>2. IF Ignores' THEN Served' ELSE Dropped'
      BY <1>3, <1>5, <3>1, SameFaults, Zenon
    <3> QED
      BY <3>1, <3>2 DEF LinkEarly
  <2>2. CASE at = 26
    BY <1>3, <2>2 DEF LinkEarly
  <2> QED
    BY <2>1, <2>2
<1>9. ~failed' => LinkFound'
  BY <1>3, <1>5, SameFaults DEF LinkInv, LinkFound
<1>10. faults' = {} /\ ~hurried' => ~failed' /\ LinkSound'
  BY <1>3, <1>5, SoundFacts DEF LinkInv, LinkSound, Within
<1> QED
  BY <1>6, <1>7, <1>8, <1>9, <1>10 DEF LinkInv

\* Forcing the link up.
LEMMA LineForceOn ==
    ASSUME LinkInv, Link!Step, at = 24 PROVE LinkInv'
<1>1. Link!Script[at] = [op |-> "force on", want |-> Link!Answers, must |-> FALSE]
  BY ScriptLines, Zenon DEF Link!Do, Link!Line
<1>2. Link!Answer("force on") = "ok" /\ "ok" \in Link!Answers
  BY AnswerFacts DEF Link!Answers
<1>3. /\ failed' \in BOOLEAN /\ (failed' <=> failed)
      /\ faults' = faults /\ at' = at + 1
  BY <1>1, <1>2, Reads, Zenon
<1>4. Link!ForceOn
  <2>1. Does("force on")
    BY <1>1, <1>2, Reads, Zenon
  <2> QED
    BY <2>1, DoesFacts, Zenon
<1>5. /\ link' \in BOOLEAN /\ (link' <=> link \/ ~Ignores)
      /\ hurried' \in BOOLEAN /\ (hurried' <=> hurried \/ occupied)
      /\ secure' = secure /\ staged' = staged /\ conn' = conn /\ occupied' = occupied
  BY <1>4, ForceOnFacts
<1>6. at' = 25
  BY <1>3
<1>7. (Served' <=> Served) /\ (Idle' <=> Idle) /\ (Queued' <=> Queued) /\ (Dropped' <=> Dropped)
  BY <1>5, SameConn
<1>8. LinkTyped'
  BY <1>3, <1>5, <1>6, <1>7 DEF LinkInv, LinkTyped
<1>9. LinkHeld'
  BY <1>5, <1>6, <1>7, OneState DEF LinkInv, LinkHeld, Between, Within
<1>10. LinkEarly'
  BY <1>6 DEF LinkEarly
<1>11. ~failed' => LinkFound'
  BY <1>3, <1>6, SameFaults DEF LinkInv, LinkFound
<1>12. faults' = {} /\ ~hurried' => ~failed' /\ LinkSound'
  BY <1>3, <1>5, <1>6, SoundFacts DEF LinkInv, LinkSound, Within
<1> QED
  BY <1>8, <1>9, <1>10, <1>11, <1>12 DEF LinkInv

\* Beginning a list of two records.
LEMMA LineBeginTwo ==
    ASSUME LinkInv, Link!Step, at \in {11, 18} PROVE LinkInv'
<1>1. Link!Script[at] = [op |-> "begin two", want |-> {"ok"}, must |-> FALSE]
  <2>1. Link!Script[at] = Link!Line("begin two", {"ok"})
    <3>1. PICK i \in {10, 17} : at = i + 1
      OBVIOUS
    <3> QED
      BY <3>1, ScriptLines, Zenon
  <2> QED
    BY <2>1, Zenon DEF Link!Line
<1> DEFINE barred == Queued \/ Link!Demands(TRUE)
<1>2. /\ Link!Answer("begin two") \notin {"ok"} <=> barred
      /\ Link!Answer("begin two") # "closed"
      /\ ~barred => Link!Answer("begin two") = "ok"
  <2>1. Served \/ Queued
    BY DEF LinkInv, LinkHeld, Within
  <2>2. Link!Answer("begin two") = Link!Hears(TRUE, "ok")
    BY AnswerFacts, Zenon
  <2>3. /\ Queued => Link!Answer("begin two") = "busy"
        /\ Served /\ Link!Demands(TRUE) => Link!Answer("begin two") = "auth"
        /\ Served /\ ~Link!Demands(TRUE) => Link!Answer("begin two") = "ok"
    BY <2>2, HeardFacts, Zenon
  <2> QED
    BY <2>1, <2>3, OneState
<1>3. /\ failed' \in BOOLEAN /\ (failed' <=> failed \/ barred)
      /\ faults' = faults /\ at' = at + 1
  BY <1>1, <1>2, Reads, Zenon
<1>4. Link!Request("begin two")
  <2>1. Does("begin two")
    BY <1>1, <1>2, Reads, Zenon
  <2> QED
    BY <2>1, DoesFacts, Zenon
<1>5. /\ hurried' = hurried /\ occupied' = occupied /\ secure' = secure
      /\ conn' = conn /\ link' = link
      /\ ~barred => staged' = Begun
      /\ staged' = staged \/ staged' = Begun
  BY <1>2, <1>4, RequestFacts, Zenon
<1>6. Link!Demands(TRUE)' <=> Link!Demands(TRUE)
  BY <1>3, <1>5, DemandKept, Zenon
<1>7. (Served' <=> Served) /\ (Idle' <=> Idle) /\ (Queued' <=> Queued) /\ (Dropped' <=> Dropped)
  BY <1>5, SameConn
<1>8. Served' /\ ~Link!Demands(TRUE)' => staged' = Begun
  BY <1>5, <1>6, <1>7, OneState, Zenon
<1>9. faults = {} /\ Served /\ secure => ~barred
  BY DemandFacts, SoundFacts, OneState, Zenon
<1> HIDE DEF barred
<1>10. failed' \in BOOLEAN /\ (failed' <=> failed \/ barred) /\ faults' = faults /\ at' = at + 1
  BY <1>3
<1>11. LinkTyped'
  BY <1>5, <1>7, <1>10 DEF LinkInv, LinkTyped
<1>12. LinkHeld'
  <2>1. (Served' => link' /\ ~occupied') /\ (Served' \/ Queued')
    BY <1>5, <1>7 DEF LinkInv, LinkHeld, Within
  <2>2. at' \notin Between
    BY <1>10 DEF Between
  <2> QED
    BY <1>8, <2>1, <2>2, Zenon DEF LinkHeld
<1>13. LinkEarly'
  BY <1>10 DEF LinkEarly
<1>14. ~failed' => LinkFound'
  BY <1>10, SameFaults DEF LinkInv, LinkFound
<1>15. faults' = {} /\ ~hurried' => ~failed' /\ LinkSound'
  BY <1>5, <1>7, <1>9, <1>10 DEF LinkInv, LinkSound, Within
<1> QED
  BY <1>11, <1>12, <1>13, <1>14, <1>15 DEF LinkInv

\* The first record of the two, without which the scenario is aborted.
LEMMA LineRecord ==
    ASSUME LinkInv, Link!Step, at \in {12, 19} PROVE LinkInv'
<1>1. Link!Script[at] = [op |-> "record", want |-> {"ok"}, must |-> TRUE]
  <2>1. Link!Script[at] = Link!Must("record")
    <3>1. PICK i \in {10, 17} : at = i + 2
      OBVIOUS
    <3> QED
      BY <3>1, ScriptLines, Zenon
  <2> QED
    BY <2>1, Zenon DEF Link!Must
<1> DEFINE barred == Queued \/ Link!Demands(TRUE)
<1>2. /\ Link!Answer("record") \notin {"ok"} <=> barred
      /\ ~barred => Link!Answer("record") = "ok"
  <2>1. Served \/ Queued
    BY DEF LinkInv, LinkHeld, Within
  <2>2. Link!Answer("record") = Link!Hears(TRUE, "ok")
    BY AnswerFacts, Zenon
  <2>3. /\ Queued => Link!Answer("record") = "busy"
        /\ Served /\ Link!Demands(TRUE) => Link!Answer("record") = "auth"
        /\ Served /\ ~Link!Demands(TRUE) => Link!Answer("record") = "ok"
    BY <2>2, HeardFacts, Zenon
  <2> QED
    BY <2>1, <2>3, OneState
<1>3. /\ failed' \in BOOLEAN /\ (failed' <=> failed \/ barred) /\ faults' = faults
      /\ barred => Link!Close /\ at' = Len(Link!Script) + 1
      /\ ~barred => at' = at + 1 /\ Does("record")
  BY <1>1, <1>2, Reads, Zenon
<1>4. Served \/ Queued
  BY DEF LinkInv, LinkHeld, Within
<1>5. faults = {} /\ Served /\ secure => ~barred
  BY DemandFacts, SoundFacts, OneState, Zenon
<1>6. CASE barred
  <2>1. failed' /\ faults' = faults /\ at' = 28
    <3>1. Len(Link!Script) = 27
      BY ScriptLines, Zenon
    <3>2. failed' /\ faults' = faults /\ at' = Len(Link!Script) + 1
      BY <1>3, <1>6, Zenon
    <3> QED
      BY <3>1, <3>2
  <2>2. Link!Close
    BY <1>3, <1>6, Zenon
  <2>3. /\ Idle' /\ occupied' \in BOOLEAN
        /\ secure' = secure /\ link' = link /\ staged' = staged /\ hurried' = hurried
    BY <2>2, CloseFacts
  <2>4. failed' \in BOOLEAN
    BY <1>3
  <2>5. ~(faults = {} /\ ~hurried)
    <3>1. faults = {} /\ ~hurried => Served /\ secure
      BY DEF LinkInv, LinkSound, Within
    <3> QED
      BY <1>5, <1>6, <3>1, Zenon
  <2>6. LinkTyped'
    BY <2>1, <2>3, <2>4 DEF LinkInv, LinkTyped
  <2>7. LinkHeld'
    <3>1. at' \notin Within /\ at' \notin {12, 19} /\ ~Served'
      BY <2>1, <2>3, OneState DEF Within
    <3> QED
      BY <2>3, <3>1, Zenon DEF LinkHeld
  <2>8. LinkEarly'
    BY <2>1 DEF LinkEarly
  <2> QED
    BY <2>1, <2>3, <2>5, <2>6, <2>7, <2>8, Zenon DEF LinkInv
<1>7. CASE ~barred
  <2>1. Link!Request("record")
    BY <1>3, <1>7, DoesFacts, Zenon
  <2>2. staged = Begun /\ Served
    BY <1>4, <1>7 DEF LinkInv, LinkHeld
  <2>3. /\ hurried' = hurried /\ occupied' = occupied /\ secure' = secure
        /\ conn' = conn /\ link' = link /\ staged' = Recorded
    BY <1>2, <1>7, <2>1, <2>2, Records, RequestFacts, Zenon
  <2>4. (Served' <=> Served) /\ (Idle' <=> Idle) /\ (Queued' <=> Queued) /\ (Dropped' <=> Dropped)
    BY <2>3, SameConn
  <2>5. failed' \in BOOLEAN /\ (failed' <=> failed) /\ faults' = faults /\ at' = at + 1
    BY <1>3, <1>7
  <2> HIDE DEF barred
  <2>6. LinkTyped'
    BY <2>3, <2>4, <2>5 DEF LinkInv, LinkTyped
  <2>7. LinkHeld'
    <3>1. at' \notin Between /\ at' \notin {12, 19}
      BY <2>5 DEF Between
    <3>2. link' /\ ~occupied'
      BY <2>2, <2>3 DEF LinkInv, LinkHeld
    <3> QED
      BY <2>2, <2>4, <3>1, <3>2, Zenon DEF LinkHeld
  <2>8. LinkEarly'
    BY <2>5 DEF LinkEarly
  <2>9. ~failed' => LinkFound'
    BY <2>5, SameFaults DEF LinkInv, LinkFound
  <2>10. faults' = {} /\ ~hurried' => ~failed' /\ LinkSound'
    BY <2>3, <2>4, <2>5 DEF LinkInv, LinkSound, Within
  <2> QED
    BY <2>6, <2>7, <2>8, <2>9, <2>10 DEF LinkInv
<1> QED
  BY <1>6, <1>7

\* Committing a list that is not complete, which no watch accepts.
LEMMA LineCommit ==
    ASSUME LinkInv, Link!Step, at \in {15, 22} PROVE LinkInv'
<1>1. Link!Script[at] = [op |-> "commit two", want |-> Link!Answers \ {"ok"}, must |-> FALSE]
  <2>1. Link!Script[at] = Link!Line("commit two", Link!Answers \ {"ok"})
    <3>1. PICK i \in {10, 17} : at = i + 5
      OBVIOUS
    <3> QED
      BY <3>1, ScriptLines, Zenon
  <2> QED
    BY <2>1, Zenon DEF Link!Line
<1>2. Link!Answer("commit two") \in Link!Answers \ {"ok"}
  <2>1. (Served \/ Queued) /\ staged \in {Nothing, Begun, Recorded}
    BY DEF LinkInv, LinkTyped, LinkHeld, Within
  <2>2. Link!Answer("commit two") = Link!Hears(TRUE, "refused")
    BY <2>1, AnswerFacts, Zenon
  <2>3. Link!Answer("commit two") \in {"busy", "auth", "refused"}
    BY <2>1, <2>2, HeardFacts, Zenon
  <2> QED
    BY <2>3, Zenon DEF Link!Answers
<1>3. /\ failed' \in BOOLEAN /\ (failed' <=> failed) /\ faults' = faults /\ at' = at + 1
  BY <1>1, <1>2, Reads, Zenon
<1>4. Link!Request("commit two")
  <2>1. Does("commit two")
    BY <1>1, <1>2, Reads, Zenon
  <2> QED
    BY <2>1, DoesFacts, Zenon
<1>5. /\ hurried' = hurried /\ occupied' = occupied /\ staged' = staged /\ secure' = secure
      /\ conn' = conn /\ link' = link
  BY <1>4, QuietFacts
<1>6. at' \in {16, 23}
  BY <1>3
<1>7. (Served' <=> Served) /\ (Idle' <=> Idle) /\ (Queued' <=> Queued) /\ (Dropped' <=> Dropped)
  BY <1>5, SameConn
<1>8. LinkTyped'
  BY <1>3, <1>5, <1>6, <1>7 DEF LinkInv, LinkTyped
<1>9. LinkHeld'
  <2>1. (Served' => link' /\ ~occupied') /\ (Served' \/ Queued')
    BY <1>5, <1>7 DEF LinkInv, LinkHeld, Within
  <2>2. at' \notin Between /\ at' \notin {12, 19}
    BY <1>6 DEF Between
  <2> QED
    BY <2>1, <2>2, Zenon DEF LinkHeld
<1>10. LinkEarly'
  BY <1>6 DEF LinkEarly
<1>11. ~failed' => LinkFound'
  BY <1>3, <1>6, SameFaults DEF LinkInv, LinkFound
<1>12. faults' = {} /\ ~hurried' => ~failed' /\ LinkSound'
  BY <1>3, <1>5, <1>6, <1>7 DEF LinkInv, LinkSound, Within
<1> QED
  BY <1>8, <1>9, <1>10, <1>11, <1>12 DEF LinkInv

\* The bridge notices that the connection it served has been closed.
LEMMA Releases ==
    ASSUME LinkInv, Link!Release PROVE LinkInv'
<1>1. /\ occupied /\ occupied' = FALSE /\ Link!Down
      /\ faults' = faults /\ at' = at /\ conn' = conn /\ failed' = failed /\ hurried' = hurried
  BY Zenon DEF Link!Release
<1>2. link' = FALSE /\ secure' = FALSE /\ (staged' = staged \/ staged' = Nothing)
  BY <1>1, DownFacts
<1>3. (Served' <=> Served) /\ (Idle' <=> Idle) /\ (Queued' <=> Queued) /\ (Dropped' <=> Dropped)
  BY <1>1, SameConn
<1>4. ~Served /\ ~Served'
  BY <1>1, <1>3 DEF LinkInv, LinkHeld
<1>5. LinkTyped'
  BY <1>1, <1>2, <1>3 DEF LinkInv, LinkTyped
<1>6. LinkHeld'
  BY <1>1, <1>3, <1>4, Zenon DEF LinkInv, LinkHeld
<1>7. at \notin 1..8
  BY <1>1 DEF LinkInv, LinkEarly
<1>8. LinkEarly'
  BY <1>1, <1>7 DEF LinkInv, LinkTyped, LinkEarly
<1>9. ~failed' => LinkFound'
  BY <1>1, <1>4, SameFaults DEF LinkInv, LinkFound
<1>10. faults' = {} /\ ~hurried' => ~failed' /\ LinkSound'
  BY <1>1, <1>2, <1>4 DEF LinkInv, LinkSound
<1> QED
  BY <1>5, <1>6, <1>8, <1>9, <1>10 DEF LinkInv

\* A link_auth that passes has ruled out every fault but one, and a watch without
\* faults only fails where the scenario was in haste.
LEMMA LinkHolds ==
    ASSUME LinkInv
    PROVE  Link!TypeOK /\ Link!Detects /\ Link!NoFalseAlarm
<1>1. Link!TypeOK
  <2>1. Len(Link!Script) = 27
    BY ScriptLines, Zenon
  <2>2. at \in 1..28 /\ (at > 27 => Idle) /\ (Served => link)
    BY DEF LinkInv, LinkTyped, LinkHeld, Between
  <2>3. at \in 1..Len(Link!Script) + 1 /\ (at > Len(Link!Script) => Idle)
    BY <2>1, <2>2
  <2>4. staged \in [have : 0..2, of : {0, 2}]
    BY DEF LinkInv, LinkTyped, Nothing, Begun, Recorded, Link!Nothing
  <2>5. conn \in {"none", "served", "busy", "dropped"}
    BY Zenon DEF LinkInv, LinkTyped, Idle, Served, Queued, Dropped
  <2> QED
    BY <2>2, <2>3, <2>4, <2>5, Zenon DEF LinkInv, LinkTyped, Link!TypeOK, Idle, Served
<1>2. Link!Detects
  <2> SUFFICES ASSUME Link!Passed PROVE faults \subseteq {"keeps staging"}
    BY DEF Link!Detects
  <2>1. at > 27 /\ ~failed
    <3>1. Len(Link!Script) = 27 /\ at > Len(Link!Script) /\ ~failed
      BY ScriptLines, Zenon DEF Link!Passed
    <3> QED
      BY <3>1
  <2>2. ~Two /\ ~Skips /\ ~Demanding /\ ~Denies /\ ~Ignores /\ faults \subseteq Link!Fault
    <3>1. at \in 1..28
      BY DEF LinkInv, LinkTyped
    <3> QED
      BY <2>1, <3>1 DEF LinkInv, LinkTyped, LinkFound
  <2> QED
    BY <2>2, Zenon DEF Link!Fault, Two, Skips, Demanding, Denies, Ignores
<1>3. Link!NoFalseAlarm
  BY DEF LinkInv, Link!NoFalseAlarm
<1> QED
  BY <1>1, <1>2, <1>3

\* link_auth begins with its invariant,
LEMMA LinkStarts == Link!Init => LinkInv
<1> SUFFICES ASSUME Link!Init PROVE LinkInv
  OBVIOUS
<1>1. /\ faults \subseteq Link!Fault /\ at = 1 /\ Idle /\ secure = FALSE /\ link = FALSE
      /\ occupied = FALSE /\ staged = Nothing /\ failed = FALSE /\ hurried = FALSE
  BY Zenon DEF Link!Init, Idle, Nothing
<1>2. LinkTyped
  <2>1. at \in 1..28
    BY <1>1
  <2>2. staged \in {Nothing, Begun, Recorded}
    BY <1>1, Zenon
  <2>3. failed \in BOOLEAN /\ hurried \in BOOLEAN /\ secure \in BOOLEAN /\ link \in BOOLEAN
        /\ occupied \in BOOLEAN
    BY <1>1, Zenon
  <2> QED
    BY <1>1, <2>1, <2>2, <2>3, Zenon DEF LinkTyped
<1>3. LinkHeld
  BY <1>1, OneState DEF LinkHeld, Between, Within
<1>4. LinkEarly
  BY <1>1 DEF LinkEarly
<1>5. LinkFound
  BY <1>1 DEF LinkFound
<1>6. LinkSound
  BY <1>1 DEF LinkSound, Within
<1> QED
  BY <1>1, <1>2, <1>3, <1>4, <1>5, <1>6 DEF LinkInv

\* and every line, and every release by the bridge, keeps it.
LEMMA LinkKept == LinkInv /\ Link!Next => LinkInv'
<1> SUFFICES ASSUME LinkInv, Link!Next PROVE LinkInv'
  OBVIOUS
<1>1. CASE Link!Step
  <2>1. at <= Len(Link!Script)
    BY <1>1, Zenon DEF Link!Step
  <2>2. Len(Link!Script) = 27
    BY ScriptLines, Zenon
  <2>3. at \in 1..27
    <3>1. at \in 1..28
      BY DEF LinkInv, LinkTyped
    <3> QED
      BY <2>1, <2>2, <3>1
  <2>4. CASE at \in {1, 9, 14, 17, 21}
    BY <1>1, <2>4, LineConnect, Zenon
  <2>5. CASE at \in {8, 13, 16, 20, 23}
    BY <1>1, <2>5, LineClose, Zenon
  <2>6. CASE at \in {2, 3, 4, 5, 7, 10}
    <3>1. at = 2 \/ at = 3 \/ at = 4 \/ at = 5 \/ at = 7 \/ at = 10
      BY <2>6
    <3> QED
      BY <1>1, <3>1, LineSecond, LineBeginNone, LineStatus, LineVerify, LineBattery, LineVerified,
         Zenon
  <2>7. CASE at \in {11, 12, 15, 18, 19, 22}
    <3>1. at \in {11, 18} \/ at \in {12, 19} \/ at \in {15, 22}
      BY <2>7
    <3> QED
      BY <1>1, <3>1, LineBeginTwo, LineRecord, LineCommit, Zenon
  <2>8. CASE at \in {6, 24, 25, 26, 27}
    <3>1. at \in {6, 26} \/ at = 24 \/ at = 25 \/ at = 27
      BY <2>8
    <3> QED
      BY <1>1, <3>1, LineForceOff, LineForceOn, LineLinked, LineUnlinked, Zenon
  <2> QED
    BY <2>3, <2>4, <2>5, <2>6, <2>7, <2>8
<1>2. CASE Link!Release
  BY <1>2, Releases
<1> QED
  BY <1>1, <1>2 DEF Link!Next

-----------------------------------------------------------------------------
(* The bonds of the watch and their store.                                  *)

\* The least of some positions.
LEMMA LeastPosition ==
    ASSUME NEW n \in Nat, NEW I \in SUBSET (1..n), I # {}
    PROVE  Min(I) \in I /\ \A i \in I : Min(I) <= i
<1>1. PICK m \in I : \A i \in I : ~(i < m)
  BY LeastNumber
<1>2. m \in I /\ \A i \in I : m <= i
  BY <1>1
<1> QED
  BY <1>2 DEF Min

\* What RemoveFirst leaves.
LEMMA RemoveFirstFacts ==
    ASSUME NEW s \in Seq(Peer), NEW p
    PROVE  /\ p \notin ToSet(s) => RemoveFirst(s, p) = s
           /\ p \in ToSet(s) => \E k \in 1..Len(s) :
                 /\ s[k] = p
                 /\ RemoveFirst(s, p) = SubSeq(s, 1, k - 1) \o SubSeq(s, k + 1, Len(s))
<1> DEFINE I == {i \in 1..Len(s) : s[i] = p}
<1>1. SelectInSeq(s, LAMBDA v : v = p) = IF I # {} THEN Min(I) ELSE 0
  BY DEF SelectInSeq
<1>2. RemoveFirst(s, p) = IF \E i \in 1..Len(s) : s[i] = p
                          THEN RemoveAt(s, SelectInSeq(s, LAMBDA v : v = p)) ELSE s
  BY DEF RemoveFirst
<1>3. p \in ToSet(s) <=> I # {}
  BY DEF ToSet
<1>4. I # {} <=> \E i \in 1..Len(s) : s[i] = p
  OBVIOUS
<1>5. I # {} => Min(I) \in I
  <2>1. I \in SUBSET (1..Len(s)) /\ Len(s) \in Nat
    OBVIOUS
  <2> HIDE DEF I
  <2> QED
    BY <2>1, LeastPosition
<1>6. I # {} => RemoveFirst(s, p) = RemoveAt(s, Min(I))
  BY <1>1, <1>2, <1>4
<1>7. I = {} => RemoveFirst(s, p) = s
  BY <1>2, <1>4
<1>8. I # {} => \E k \in 1..Len(s) :
                   /\ s[k] = p
                   /\ RemoveFirst(s, p) = SubSeq(s, 1, k - 1) \o SubSeq(s, k + 1, Len(s))
  BY <1>5, <1>6 DEF RemoveAt
<1> QED
  BY <1>3, <1>7, <1>8

\* A sequence without its k-th element.
LEMMA WithoutFacts ==
    ASSUME NEW s \in Seq(Peer), NEW k \in 1..Len(s)
    PROVE  LET r == SubSeq(s, 1, k - 1) \o SubSeq(s, k + 1, Len(s))
           IN  /\ r \in Seq(Peer) /\ Len(r) = Len(s) - 1
               /\ \A i \in 1..(k - 1) : r[i] = s[i]
               /\ \A i \in k..(Len(s) - 1) : r[i] = s[i + 1]
<1> DEFINE a == SubSeq(s, 1, k - 1)
           b == SubSeq(s, k + 1, Len(s))
           r == a \o b
<1>1. a \in Seq(Peer) /\ Len(a) = k - 1 /\ \A i \in 1..(k - 1) : a[i] = s[i]
  OBVIOUS
<1>2. b \in Seq(Peer) /\ Len(b) = Len(s) - k /\ \A i \in 1..(Len(s) - k) : b[i] = s[k + i]
  OBVIOUS
<1> HIDE DEF a, b
<1>3. /\ r \in Seq(Peer) /\ Len(r) = Len(a) + Len(b)
      /\ \A i \in 1..(Len(a) + Len(b)) : r[i] = IF i <= Len(a) THEN a[i] ELSE b[i - Len(a)]
  BY <1>1, <1>2, ConcatProperties
<1> HIDE DEF r
<1>4. Len(s) \in Nat
  OBVIOUS
<1>5. Len(r) = Len(s) - 1
  BY <1>1, <1>2, <1>3, <1>4
<1>6. \A i \in 1..(k - 1) : r[i] = s[i]
  <2> SUFFICES ASSUME NEW i \in 1..(k - 1) PROVE r[i] = s[i]
    OBVIOUS
  <2>1. i \in 1..(Len(a) + Len(b)) /\ i <= Len(a)
    BY <1>1, <1>2, <1>4
  <2>2. r[i] = a[i]
    BY <1>3, <2>1, Zenon
  <2> QED
    BY <1>1, <2>2
<1>7. \A i \in k..(Len(s) - 1) : r[i] = s[i + 1]
  <2> SUFFICES ASSUME NEW i \in k..(Len(s) - 1) PROVE r[i] = s[i + 1]
    OBVIOUS
  <2>1. i - (k - 1) \in 1..(Len(s) - k) /\ k + (i - (k - 1)) = i + 1
    BY <1>4
  <2>2. r[i] = b[i - (k - 1)]
    <3>1. i \in 1..(Len(a) + Len(b)) /\ ~(i <= Len(a)) /\ Len(a) = k - 1
      BY <1>1, <1>2, <1>4
    <3>2. r[i] = b[i - Len(a)]
      BY <1>3, <3>1, Zenon
    <3> QED
      BY <3>1, <3>2
  <2> QED
    BY <1>2, <2>1, <2>2
<1> QED
  BY <1>3, <1>5, <1>6, <1>7 DEF r, a, b

\* No peer twice.
Distinct(s) == \A i, j \in DOMAIN s : i # j => s[i] # s[j]

\* The peers of a list of bonds.
LEMMA SetFacts ==
    ASSUME NEW s \in Seq(Peer)
    PROVE  /\ Len(s) \in Nat /\ DOMAIN s = 1..Len(s)
           /\ \A i \in 1..Len(s) : s[i] \in Peer /\ s[i] \in ToSet(s)
           /\ \A p : p \in ToSet(s) <=> \E i \in 1..Len(s) : s[i] = p
  BY DEF ToSet

\* Without its first element.
LEMMA TailFacts ==
    ASSUME NEW s \in Seq(Peer), Len(s) > 0
    PROVE  /\ Tail(s) \in Seq(Peer) /\ Len(Tail(s)) = Len(s) - 1
           /\ \A i \in 1..(Len(s) - 1) : Tail(s)[i] = s[i + 1]
           /\ Distinct(s) => Distinct(Tail(s))
<1> DEFINE t == Tail(s)
<1>1. Len(s) \in Nat /\ s # <<>>
  OBVIOUS
<1>2. /\ t \in Seq(Peer) /\ Len(t) = Len(s) - 1
      /\ \A i \in 1..(Len(s) - 1) : t[i] = s[i + 1]
  BY <1>1, HeadTailProperties
<1> HIDE DEF t
<1>3. ASSUME Distinct(s) PROVE Distinct(t)
  <2> SUFFICES ASSUME NEW i \in DOMAIN t, NEW j \in DOMAIN t, i # j PROVE t[i] # t[j]
    BY DEF Distinct
  <2>1. i \in 1..(Len(s) - 1) /\ j \in 1..(Len(s) - 1)
    BY <1>2
  <2>2. i + 1 \in DOMAIN s /\ j + 1 \in DOMAIN s /\ i + 1 # j + 1
    BY <1>1, <2>1
  <2> QED
    BY <1>2, <1>3, <2>1, <2>2 DEF Distinct
<1> QED
  BY <1>2, <1>3 DEF t

\* A peer that becomes the most recently used one, new or not.
LEMMA MoveFacts ==
    ASSUME NEW s \in Seq(Peer), Distinct(s), NEW p \in Peer
    PROVE  LET b == Append(RemoveFirst(s, p), p)
           IN  /\ b \in Seq(Peer) /\ Distinct(b) /\ Len(b) > 0 /\ b[Len(b)] = p
               /\ p \notin ToSet(s) => b = Append(s, p)
               /\ \A k \in 1..Len(s) : s[k] = p =>
                     /\ Len(b) = Len(s)
                     /\ \A i \in 1..(k - 1) : b[i] = s[i]
                     /\ \A i \in k..(Len(s) - 1) : b[i] = s[i + 1]
<1> DEFINE r == RemoveFirst(s, p)
           b == Append(r, p)
<1>1. CASE p \notin ToSet(s)
  <2>1. r = s
    BY <1>1, RemoveFirstFacts
  <2>2. b = Append(s, p)
    BY <2>1
  <2> HIDE DEF b, r
  <2>3. /\ b \in Seq(Peer) /\ Len(b) = Len(s) + 1 /\ Len(s) \in Nat
        /\ \A i \in 1..Len(s) : b[i] = s[i]
        /\ b[Len(s) + 1] = p
    BY <2>2
  <2>4. \A i \in 1..Len(s) : s[i] # p
    BY <1>1 DEF ToSet
  <2>5. Distinct(b)
    <3> SUFFICES ASSUME NEW i \in 1..(Len(s) + 1), NEW j \in 1..(Len(s) + 1), i < j PROVE b[i] # b[j]
      BY <2>3 DEF Distinct
    <3>1. CASE j = Len(s) + 1
      BY <2>3, <2>4, <3>1
    <3>2. CASE j \in 1..Len(s)
      BY <2>3, <3>2 DEF Distinct
    <3> QED
      BY <2>3, <3>1, <3>2
  <2> QED
    BY <1>1, <2>2, <2>3, <2>4, <2>5 DEF b, r
<1>2. CASE p \in ToSet(s)
  <2>1. PICK k \in 1..Len(s) :
           s[k] = p /\ r = SubSeq(s, 1, k - 1) \o SubSeq(s, k + 1, Len(s))
    BY <1>2, RemoveFirstFacts
  <2>2. /\ r \in Seq(Peer) /\ Len(r) = Len(s) - 1
        /\ \A i \in 1..(k - 1) : r[i] = s[i]
        /\ \A i \in k..(Len(s) - 1) : r[i] = s[i + 1]
    BY <2>1, WithoutFacts
  <2> HIDE DEF r
  <2>3. /\ b \in Seq(Peer) /\ Len(b) = Len(s) /\ Len(s) \in Nat
        /\ \A i \in 1..(Len(s) - 1) : b[i] = r[i]
        /\ b[Len(s)] = p
    BY <2>2
  <2> HIDE DEF b
  <2>4. \A i \in 1..Len(s) : s[i] = p => i = k
    BY <2>1 DEF Distinct
  <2>5. /\ \A i \in 1..(k - 1) : b[i] = s[i]
        /\ \A i \in k..(Len(s) - 1) : b[i] = s[i + 1]
    <3>1. ASSUME NEW i \in 1..(k - 1) PROVE b[i] = s[i]
      BY <2>2, <2>3
    <3>2. ASSUME NEW i \in k..(Len(s) - 1) PROVE b[i] = s[i + 1]
      BY <2>2, <2>3
    <3> QED
      BY <3>1, <3>2
  <2>6. Distinct(b)
    <3> SUFFICES ASSUME NEW i \in 1..Len(s), NEW j \in 1..Len(s), i < j PROVE b[i] # b[j]
      BY <2>3 DEF Distinct
    <3> DEFINE from(m) == IF m < k THEN m ELSE IF m < Len(s) THEN m + 1 ELSE k
    <3>1. \A m \in 1..Len(s) : b[m] = s[from(m)] /\ from(m) \in 1..Len(s)
      <4> SUFFICES ASSUME NEW m \in 1..Len(s) PROVE b[m] = s[from(m)] /\ from(m) \in 1..Len(s)
        OBVIOUS
      <4>1. CASE m < k
        BY <2>5, <4>1
      <4>2. CASE m >= k /\ m < Len(s)
        BY <2>3, <2>5, <4>2
      <4>3. CASE m = Len(s)
        BY <2>1, <2>3, <4>3
      <4> QED
        BY <2>3, <4>1, <4>2, <4>3
    <3> DEFINE u == from(i)
               v == from(j)
    <3>2. u # v
      BY <2>3
    <3>3. b[i] = s[u] /\ b[j] = s[v] /\ u \in 1..Len(s) /\ v \in 1..Len(s)
      BY <3>1, Zenon
    <3> HIDE DEF from, u, v
    <3>4. DOMAIN s = 1..Len(s)
      OBVIOUS
    <3> QED
      BY <3>2, <3>3, <3>4, Zenon DEF Distinct
  <2>7. \A m \in 1..Len(s) : s[m] = p => m = k
    BY <2>4
  <2> QED
    BY <1>2, <2>3, <2>5, <2>6, <2>7 DEF b, r
<1> QED
  BY <1>1, <1>2

\* The faults of a watch's bonds, by name.
Unbounded == "unbounded" \in faults
ForgetsTouch == "forgets touch" \in faults
EvictsOnReplace == "evicts on replace" \in faults
DropsCccds == "drops cccds" \in faults
WritesOnReconnect == "writes on reconnect" \in faults
LosesOnReboot == "loses on reboot" \in faults
KeepsOnReset == "keeps on reset" \in faults
SameEpoch == "same epoch" \in faults
ResetInMemory == "reset in memory" \in faults
FailureReplaces == "failure replaces" \in faults
FailureUncounted == "failure uncounted" \in faults
ReadsOn == "reads on" \in faults
TearsLive == "tears live" \in faults
InventsStaged == "invents staged" \in faults
HalfStaged == "half staged" \in faults
DecodesInvalid == "decodes invalid" \in faults
OverwritesInvalid == "overwrites invalid" \in faults
StaysClosed == "stays closed" \in faults

\* A watch between two operations, with or without a failure injected.
Whole(x) == /\ x \in Bonds
            /\ Distinct(x.bonds) /\ Distinct(x.live.bonds) /\ Distinct(x.next.bonds)
Calm(x) == Whole(x) /\ x.inject = "NONE" /\ x.cut = "NONE"

BootState == {"initialized_empty", "restored", "restore_failed", "invalid"}
Injecting == {"NONE", "READ", "WRITE"}
CutPoint == {"NONE", "BEFORE_REPLACE", "AFTER_PARTIAL_STAGED_WRITE", "AFTER_STAGED_WRITE"}

\* The types of a watch's fields.
LEMMA BondsFields ==
    ASSUME NEW x, x \in Bonds
    PROVE  /\ x.boot \in BootState /\ x.bonds \in Seq(Peer) /\ x.cccds \in SUBSET Peer
           /\ x.evictions \in Nat /\ x.epoch \in Nat /\ x.dirty \in BOOLEAN
           /\ x.live \in File /\ x.next \in File /\ x.writes \in Nat /\ x.failures \in Nat
           /\ x.enabled \in BOOLEAN /\ x.inject \in Injecting /\ x.cut \in CutPoint
  BY DEF Bonds, BootState, Injecting, CutPoint

\* What a connection leaves alone.
Frame(y, x) ==
    /\ y.boot = x.boot /\ y.epoch = x.epoch /\ y.live = x.live /\ y.next = x.next
    /\ y.writes = x.writes /\ y.failures = x.failures /\ y.enabled = x.enabled
    /\ y.inject = x.inject /\ y.cut = x.cut

\* What a connection makes of the bonds, whatever the faults.
LEMMA ConnectedFacts ==
    ASSUME NEW x, Whole(x), NEW p \in Peer, NEW replace \in BOOLEAN, replace => Len(x.bonds) > 0
    PROVE  LET y      == Connected(x, p, replace)
               known  == p \in Retained(x)
               evicts == (~known /\ Len(x.bonds) = 5 /\ ~Unbounded) \/ (replace /\ EvictsOnReplace)
               moves  == ~known \/ replace \/ ~ForgetsTouch
               kept   == IF evicts THEN Tail(x.bonds) ELSE x.bonds
           IN  /\ Whole(y) /\ Frame(y, x) /\ Len(y.bonds) > 0
               /\ moves => y.bonds = Append(RemoveFirst(kept, p), p)
               /\ ~moves => y.bonds = x.bonds
               /\ y.cccds = x.cccds \cap ToSet(y.bonds)
               /\ evicts => y.evictions = x.evictions + 1
               /\ ~evicts => y.evictions = x.evictions
               /\ y.dirty <=> x.dirty \/ y.bonds # x.bonds \/ replace \/ WritesOnReconnect
<1> DEFINE known  == p \in Retained(x)
           evicts == (~known /\ Len(x.bonds) = 5 /\ ~Unbounded) \/ (replace /\ EvictsOnReplace)
           moves  == ~known \/ replace \/ ~ForgetsTouch
           kept   == IF evicts THEN Tail(x.bonds) ELSE x.bonds
           b      == IF moves THEN Append(RemoveFirst(kept, p), p) ELSE x.bonds
           c      == x.cccds \cap ToSet(b)
           one    == IF evicts THEN 1 ELSE 0
           e      == x.evictions + one
           d      == x.dirty \/ b # x.bonds \/ replace \/ WritesOnReconnect
           y      == [x EXCEPT !.bonds = b, !.cccds = c, !.evictions = e, !.dirty = d]
<1>1. Connected(x, p, replace) = y
  <2>1. Capacity = 5
    BY DEF Capacity
  <2> QED
    BY <2>1, Zenon DEF Connected, Unbounded, ForgetsTouch, EvictsOnReplace, WritesOnReconnect
<1>2. /\ x \in Bonds /\ Distinct(x.bonds) /\ x.bonds \in Seq(Peer) /\ x.cccds \in SUBSET Peer
      /\ x.evictions \in Nat /\ x.dirty \in BOOLEAN
  BY BondsFields DEF Whole
<1>3. evicts => Len(x.bonds) > 0
  OBVIOUS
<1>4. known => Len(x.bonds) > 0
  BY <1>2 DEF Retained, ToSet
<1>5. kept \in Seq(Peer) /\ Distinct(kept)
  <2>1. CASE evicts
    BY <1>2, <1>3, <2>1, TailFacts
  <2>2. CASE ~evicts
    BY <1>2, <2>2
  <2> QED
    BY <2>1, <2>2
<1> HIDE DEF kept, evicts, known
<1>6. b \in Seq(Peer) /\ Distinct(b) /\ Len(b) > 0
  <2>1. CASE moves
    <3>1. b = Append(RemoveFirst(kept, p), p)
      BY <2>1
    <3> HIDE DEF b
    <3> QED
      BY <1>5, <3>1, MoveFacts
  <2>2. CASE ~moves
    BY <1>2, <1>4, <2>2
  <2> QED
    BY <2>1, <2>2
<1>7. /\ moves => b = Append(RemoveFirst(kept, p), p)
      /\ ~moves => b = x.bonds
      /\ evicts => one = 1
      /\ ~evicts => one = 0
  BY Zenon
<1> HIDE DEF b, moves, one
<1>8. c \in SUBSET Peer /\ d \in BOOLEAN
  BY <1>2
<1>9. e \in Nat /\ (evicts => e = x.evictions + 1) /\ (~evicts => e = x.evictions)
  BY <1>2, <1>7
<1>10. (d <=> x.dirty \/ b # x.bonds \/ replace \/ WritesOnReconnect) /\ c = x.cccds \cap ToSet(b)
  BY Zenon
<1> HIDE DEF c, d, e
<1>11. y \in Bonds
  BY <1>2, <1>6, <1>8, <1>9 DEF Bonds
<1>12. y.bonds = b /\ y.cccds = c /\ y.evictions = e /\ y.dirty = d /\ Frame(y, x)
  BY <1>2 DEF Bonds, Frame
<1> HIDE DEF y
<1>13. /\ Whole(y) /\ Frame(y, x) /\ Len(y.bonds) > 0
       /\ moves => y.bonds = Append(RemoveFirst(kept, p), p)
       /\ ~moves => y.bonds = x.bonds
       /\ y.cccds = x.cccds \cap ToSet(y.bonds)
       /\ evicts => y.evictions = x.evictions + 1
       /\ ~evicts => y.evictions = x.evictions
       /\ y.dirty <=> x.dirty \/ y.bonds # x.bonds \/ replace \/ WritesOnReconnect
  <2>1. Whole(y)
    <3>1. Distinct(y.live.bonds) /\ Distinct(y.next.bonds)
      BY <1>12, Zenon DEF Whole, Frame
    <3> QED
      BY <1>6, <1>11, <1>12, <3>1, Zenon DEF Whole
  <2> QED
    BY <1>6, <1>7, <1>9, <1>10, <1>12, <2>1, Zenon
<1> QED
  BY <1>1, <1>13, Zenon DEF known, evicts, moves, kept

\* The files there are.
LEMMA Files ==
    /\ Empty \in File /\ Torn \in File /\ None \in File
    /\ Distinct(Empty.bonds) /\ Distinct(Torn.bonds) /\ Distinct(None.bonds)
    /\ Empty.is = "whole" /\ Torn.is = "torn" /\ None.is = "none"
    /\ Empty.bonds = <<>> /\ Torn.bonds = <<>> /\ None.bonds = <<>>
    /\ Empty.cccds = {} /\ Torn.cccds = {} /\ None.cccds = {}
<1>1. Distinct(<<>>)
  <2>1. DOMAIN <<>> = {}
    BY SMT
  <2> QED
    BY <2>1, Zenon DEF Distinct
<1>2. <<>> \in Seq(Peer)
  BY EmptySeq, Zenon
<1>3. Empty \in File /\ Empty.is = "whole" /\ Empty.bonds = <<>> /\ Empty.cccds = {}
  BY <1>2 DEF File, Empty
<1>4. Torn \in File /\ Torn.is = "torn" /\ Torn.bonds = <<>> /\ Torn.cccds = {}
  BY <1>3 DEF File, Torn
<1>5. None \in File /\ None.is = "none" /\ None.bonds = <<>> /\ None.cccds = {}
  BY <1>3 DEF File, None
<1> QED
  BY <1>1, <1>3, <1>4, <1>5, Zenon

\* The snapshot of a watch is complete and holds its bonds.
LEMMA ImageFacts ==
    ASSUME NEW x, Whole(x)
    PROVE  /\ Image(x) \in File /\ Distinct(Image(x).bonds)
           /\ Image(x).is = "whole" /\ Image(x).bonds = x.bonds /\ Image(x).cccds = x.cccds
           /\ Image(x) # Torn /\ Image(x) # None
<1>1. x.bonds \in Seq(Peer) /\ x.cccds \in SUBSET Peer /\ Distinct(x.bonds)
  BY BondsFields DEF Whole
<1>2. /\ Image(x) \in File
      /\ Image(x).is = "whole" /\ Image(x).bonds = x.bonds /\ Image(x).cccds = x.cccds
  BY <1>1 DEF Image, File
<1> QED
  BY <1>1, <1>2, Files

\* What is staged, and what has become of the snapshot, when a write is cut short.
Staged(x) ==
    CASE x.cut = "BEFORE_REPLACE" -> IF InventsStaged THEN Torn ELSE x.next
      [] x.cut = "AFTER_PARTIAL_STAGED_WRITE" -> Torn
      [] x.cut = "AFTER_STAGED_WRITE" -> IF HalfStaged THEN Torn ELSE Image(x)
      [] x.cut = "NONE" -> x.next

Spoilt(x) ==
    CASE x.inject = "WRITE" /\ FailureReplaces -> Image(x)
      [] x.cut = "AFTER_PARTIAL_STAGED_WRITE" /\ TearsLive -> Torn
      [] OTHER -> x.live

Closed(x) == ~x.enabled /\ ~(x.boot = "invalid" /\ OverwritesInvalid)
Injured(x) == x.inject = "WRITE" \/ x.cut # "NONE"

\* What an injured write leaves in the two files is a file.
LEMMA CutFacts ==
    ASSUME NEW x, Whole(x)
    PROVE  /\ Staged(x) \in File /\ Distinct(Staged(x).bonds)
           /\ Spoilt(x) \in File /\ Distinct(Spoilt(x).bonds)
<1>1. /\ x.cut \in CutPoint /\ x.next \in File /\ x.live \in File
      /\ Distinct(x.next.bonds) /\ Distinct(x.live.bonds)
  BY BondsFields DEF Whole
<1>2. Staged(x) \in {Torn, Image(x), x.next}
  BY <1>1 DEF Staged, CutPoint
<1>3. Spoilt(x) \in {Torn, Image(x), x.live}
  BY DEF Spoilt
<1> QED
  BY <1>1, <1>2, <1>3, Files, ImageFacts, Zenon

\* What settling leaves alone.
Steady(y, x) ==
    /\ y.boot = x.boot /\ y.bonds = x.bonds /\ y.cccds = x.cccds /\ y.evictions = x.evictions
    /\ y.epoch = x.epoch /\ y.enabled = x.enabled /\ y.inject = x.inject /\ y.cut = x.cut

\* What the settling time makes of a watch: nothing, a snapshot, or a failed write.
LEMMA SettledFacts ==
    ASSUME NEW x, Whole(x)
    PROVE  LET y == Settled(x)
           IN  /\ Whole(y) /\ Steady(y, x)
               /\ ~x.dirty \/ Closed(x) => y = x
               /\ x.dirty /\ ~Closed(x) /\ ~Injured(x) =>
                     /\ y.live = Image(x) /\ y.next = x.next /\ y.writes = x.writes + 1
                     /\ y.failures = x.failures /\ y.dirty = FALSE
               /\ x.dirty /\ ~Closed(x) /\ Injured(x) =>
                     /\ y.live = Spoilt(x) /\ y.next = Staged(x) /\ y.writes = x.writes
                     /\ FailureUncounted => y.failures = x.failures
                     /\ ~FailureUncounted => y.failures = x.failures + 1
<1> DEFINE counted == IF FailureUncounted THEN x.failures ELSE x.failures + 1
           more == x.writes + 1
           image == Image(x)
           staged1 == Staged(x)
           spoilt == Spoilt(x)
           y1 == [x EXCEPT !.failures = counted, !.next = staged1, !.live = spoilt]
           y2 == [x EXCEPT !.live = image, !.writes = more, !.dirty = FALSE]
           dirty == x.dirty
           closed == Closed(x)
           injured == Injured(x)
<1>1. Settled(x) = CASE ~dirty \/ closed -> x
                     [] dirty /\ ~closed /\ injured -> y1
                     [] dirty /\ ~closed /\ ~injured -> y2
  BY Zenon DEF Settled, Closed, Injured, Staged, Spoilt, FailureUncounted, InventsStaged,
               HalfStaged, FailureReplaces, TearsLive, OverwritesInvalid
<1>2. /\ x \in Bonds /\ Distinct(x.bonds) /\ Distinct(x.live.bonds) /\ Distinct(x.next.bonds)
      /\ x.failures \in Nat /\ x.writes \in Nat
  BY BondsFields DEF Whole
<1>3. /\ staged1 \in File /\ Distinct(staged1.bonds) /\ spoilt \in File /\ Distinct(spoilt.bonds)
      /\ image \in File /\ Distinct(image.bonds)
  BY CutFacts, ImageFacts
<1>4. /\ FailureUncounted => counted = x.failures
      /\ ~FailureUncounted => counted = x.failures + 1
  BY Zenon
<1> HIDE DEF counted, staged1, spoilt, image, dirty, closed, injured
<1>5. counted \in Nat /\ more \in Nat
  BY <1>2, <1>4
<1> HIDE DEF more
<1>6. y1 \in Bonds /\ y2 \in Bonds
  BY <1>2, <1>3, <1>5 DEF Bonds
<1>7. /\ Steady(y1, x) /\ y1.live = spoilt /\ y1.next = staged1 /\ y1.writes = x.writes
      /\ y1.failures = counted
  BY <1>2 DEF Bonds, Steady
<1>8. /\ Steady(y2, x) /\ y2.live = image /\ y2.next = x.next /\ y2.writes = more
      /\ y2.failures = x.failures /\ y2.dirty = FALSE
  BY <1>2 DEF Bonds, Steady
<1>9. Steady(x, x)
  BY DEF Steady
<1> HIDE DEF y1, y2
<1>10. Whole(y1) /\ Whole(y2)
  BY <1>2, <1>3, <1>6, <1>7, <1>8, Zenon DEF Whole, Steady
<1>11. /\ ~dirty \/ closed => Settled(x) = x
       /\ dirty /\ ~closed /\ injured => Settled(x) = y1
       /\ dirty /\ ~closed /\ ~injured => Settled(x) = y2
  <2> DEFINE first == ~dirty \/ closed
             second == dirty /\ ~closed /\ injured
             third == dirty /\ ~closed /\ ~injured
  <2>1. /\ first => ~second /\ ~third
        /\ second => ~first /\ ~third
        /\ third => ~first /\ ~second
    OBVIOUS
  <2>2. Settled(x) = CASE first -> x [] second -> y1 [] third -> y2
    BY <1>1, Zenon
  <2> HIDE DEF first, second, third
  <2>3. /\ first => Settled(x) = x
        /\ second => Settled(x) = y1
        /\ third => Settled(x) = y2
    BY <2>1, <2>2
  <2> QED
    BY <2>3 DEF first, second, third
<1>12. (~dirty \/ closed) \/ (dirty /\ ~closed /\ injured) \/ (dirty /\ ~closed /\ ~injured)
  OBVIOUS
<1>13. more = x.writes + 1
  BY DEF more
<1>14. Whole(Settled(x)) /\ Steady(Settled(x), x)
  BY <1>7, <1>8, <1>9, <1>10, <1>11, <1>12, Zenon
<1> QED
  BY <1>4, <1>7, <1>8, <1>11, <1>13, <1>14, Zenon DEF dirty, closed, injured, staged1, spoilt, image

\* What a boot leaves alone.
Carried(y, x) ==
    /\ y.evictions = x.evictions /\ y.epoch = x.epoch /\ y.live = x.live /\ y.next = x.next
    /\ y.writes = x.writes /\ y.failures = x.failures
    /\ y.inject = x.inject /\ y.cut = x.cut

\* What it makes of the rest.
BootsAs(y, x, boot, image, enabled) ==
    /\ Whole(y) /\ Carried(y, x)
    /\ y.boot = boot /\ y.bonds = image.bonds /\ y.cccds = image.cccds
    /\ y.dirty = FALSE /\ y.enabled = enabled

\* A boot from an image.
LEMMA BootsFacts ==
    ASSUME NEW x, Whole(x), NEW boot \in BootState, NEW image \in File, Distinct(image.bonds),
           NEW enabled \in BOOLEAN, NEW z, z = Booted(x, boot, image, enabled)
    PROVE  BootsAs(z, x, boot, image, enabled)
<1> DEFINE b == image.bonds
           c == image.cccds
           y == [x EXCEPT !.boot = boot, !.bonds = b, !.cccds = c, !.dirty = FALSE,
                          !.enabled = enabled]
<1>1. z = y
  BY Zenon DEF Booted
<1>2. b \in Seq(Peer) /\ c \in SUBSET Peer
  BY DEF File
<1>3. /\ x \in Bonds /\ Distinct(x.live.bonds) /\ Distinct(x.next.bonds) /\ Distinct(b)
  BY DEF Whole
<1> HIDE DEF b, c
<1>4. y \in Bonds
  BY <1>2, <1>3 DEF Bonds, BootState
<1>5. /\ Carried(y, x) /\ y.boot = boot /\ y.bonds = b /\ y.cccds = c
      /\ y.dirty = FALSE /\ y.enabled = enabled
  BY <1>3 DEF Bonds, Carried
<1> HIDE DEF y
<1>6. Whole(y)
  BY <1>3, <1>4, <1>5, Zenon DEF Whole, Carried
<1> QED
  BY <1>1, <1>5, <1>6, Zenon DEF b, c, BootsAs

\* What a watch boots from, case by case.
LEMMA RebootedFacts ==
    ASSUME NEW x, Whole(x)
    PROVE  LET y == Rebooted(x)
           IN  /\ Whole(y) /\ Carried(y, x) /\ y.dirty = FALSE
               /\ x.inject = "READ" =>
                     /\ y.boot = "restore_failed" /\ y.bonds = <<>> /\ y.cccds = {}
                     /\ y.enabled <=> ReadsOn
               /\ x.inject # "READ" /\ x.live = Torn /\ DecodesInvalid =>
                     y.boot = "restored" /\ y.bonds = <<>> /\ y.cccds = {} /\ y.enabled
               /\ x.inject # "READ" /\ x.live = Torn /\ ~DecodesInvalid =>
                     y.boot = "invalid" /\ y.bonds = <<>> /\ y.cccds = {} /\ ~y.enabled
               /\ x.inject # "READ" /\ x.live # Torn =>
                     /\ y.boot = "restored" /\ y.enabled
                     /\ LosesOnReboot => y.bonds = <<>> /\ y.cccds = {}
                     /\ ~LosesOnReboot => y.bonds = x.live.bonds /\ y.cccds = x.live.cccds
<1> DEFINE y == Rebooted(x)
           y1 == Booted(x, "restore_failed", Empty, ReadsOn)
           y2 == Booted(x, "restored", Empty, TRUE)
           y3 == Booted(x, "invalid", Empty, FALSE)
           y4 == Booted(x, "restored", x.live, TRUE)
           fails == x.inject = "READ"
           torn == x.live = Torn
<1>1. /\ fails => y = y1
      /\ ~fails /\ torn /\ DecodesInvalid => y = y2
      /\ ~fails /\ torn /\ ~DecodesInvalid => y = y3
      /\ ~fails /\ ~torn /\ LosesOnReboot => y = y2
      /\ ~fails /\ ~torn /\ ~LosesOnReboot => y = y4
  <2> DEFINE a == IF DecodesInvalid THEN y2 ELSE y3
             b == Booted(x, "restored", IF LosesOnReboot THEN Empty ELSE x.live, TRUE)
             second == ~fails /\ torn
             third == ~fails /\ ~torn
  <2>1. y = CASE fails -> y1 [] second -> a [] third -> b
    BY Zenon DEF Rebooted, ReadsOn, DecodesInvalid, LosesOnReboot
  <2>2. /\ DecodesInvalid => a = y2
        /\ ~DecodesInvalid => a = y3
        /\ LosesOnReboot => b = y2
        /\ ~LosesOnReboot => b = y4
    BY Zenon
  <2>3. /\ fails => ~second /\ ~third
        /\ second => ~fails /\ ~third
        /\ third => ~fails /\ ~second
    OBVIOUS
  <2> HIDE DEF y, y1, y2, y3, y4, a, b, second, third, fails
  <2>4. /\ fails => y = y1
        /\ second => y = a
        /\ third => y = b
    BY <2>1, <2>3
  <2> QED
    BY <2>2, <2>4, Zenon DEF second, third
<1>2. x.live \in File /\ Distinct(x.live.bonds)
  BY BondsFields DEF Whole
<1>3. /\ Whole(y1) /\ Carried(y1, x) /\ y1.dirty = FALSE /\ y1.boot = "restore_failed"
      /\ y1.bonds = <<>> /\ y1.cccds = {} /\ y1.enabled = ReadsOn
  <2>1. ReadsOn \in BOOLEAN /\ "restore_failed" \in BootState
    BY DEF ReadsOn, BootState
  <2>2. Empty \in File /\ Distinct(Empty.bonds) /\ Empty.bonds = <<>> /\ Empty.cccds = {}
    BY Files, Zenon
  <2>3. y1 = Booted(x, "restore_failed", Empty, ReadsOn)
    OBVIOUS
  <2> HIDE DEF y1
  <2>4. BootsAs(y1, x, "restore_failed", Empty, ReadsOn)
    BY <2>1, <2>2, <2>3, BootsFacts, Zenon
  <2> QED
    BY <2>2, <2>4, Zenon DEF BootsAs
<1>4. /\ Whole(y2) /\ Carried(y2, x) /\ y2.dirty = FALSE /\ y2.boot = "restored"
      /\ y2.bonds = <<>> /\ y2.cccds = {} /\ y2.enabled = TRUE
  <2>1. TRUE \in BOOLEAN /\ "restored" \in BootState
    BY Zenon DEF BootState
  <2>2. Empty \in File /\ Distinct(Empty.bonds) /\ Empty.bonds = <<>> /\ Empty.cccds = {}
    BY Files, Zenon
  <2>3. y2 = Booted(x, "restored", Empty, TRUE)
    OBVIOUS
  <2> HIDE DEF y2
  <2>4. BootsAs(y2, x, "restored", Empty, TRUE)
    BY <2>1, <2>2, <2>3, BootsFacts, Zenon
  <2> QED
    BY <2>2, <2>4, Zenon DEF BootsAs
<1>5. /\ Whole(y3) /\ Carried(y3, x) /\ y3.dirty = FALSE /\ y3.boot = "invalid"
      /\ y3.bonds = <<>> /\ y3.cccds = {} /\ y3.enabled = FALSE
  <2>1. FALSE \in BOOLEAN /\ "invalid" \in BootState
    BY Zenon DEF BootState
  <2>2. Empty \in File /\ Distinct(Empty.bonds) /\ Empty.bonds = <<>> /\ Empty.cccds = {}
    BY Files, Zenon
  <2>3. y3 = Booted(x, "invalid", Empty, FALSE)
    OBVIOUS
  <2> HIDE DEF y3
  <2>4. BootsAs(y3, x, "invalid", Empty, FALSE)
    BY <2>1, <2>2, <2>3, BootsFacts, Zenon
  <2> QED
    BY <2>2, <2>4, Zenon DEF BootsAs
<1>6. /\ Whole(y4) /\ Carried(y4, x) /\ y4.dirty = FALSE /\ y4.boot = "restored"
      /\ y4.bonds = x.live.bonds /\ y4.cccds = x.live.cccds /\ y4.enabled = TRUE
  <2>1. TRUE \in BOOLEAN /\ "restored" \in BootState
    BY Zenon DEF BootState
  <2>2. y4 = Booted(x, "restored", x.live, TRUE)
    OBVIOUS
  <2> HIDE DEF y4
  <2> QED
    <3>1. BootsAs(y4, x, "restored", x.live, TRUE)
      BY <1>2, <2>1, <2>2, BootsFacts, Zenon
    <3> QED
      BY <3>1, Zenon DEF BootsAs
<1> HIDE DEF y, y1, y2, y3, y4
<1>7. Whole(y) /\ Carried(y, x) /\ y.dirty = FALSE
  BY <1>1, <1>3, <1>4, <1>5, <1>6, Zenon
<1>8. fails => /\ y.boot = "restore_failed" /\ y.bonds = <<>> /\ y.cccds = {}
               /\ y.enabled <=> ReadsOn
  BY <1>1, <1>3, Zenon
<1>9. ~fails /\ torn =>
        /\ DecodesInvalid => y.boot = "restored" /\ y.bonds = <<>> /\ y.cccds = {} /\ y.enabled
        /\ ~DecodesInvalid => y.boot = "invalid" /\ y.bonds = <<>> /\ y.cccds = {} /\ ~y.enabled
  BY <1>1, <1>4, <1>5, Zenon
<1>10. ~fails /\ ~torn =>
         /\ y.boot = "restored" /\ y.enabled
         /\ LosesOnReboot => y.bonds = <<>> /\ y.cccds = {}
         /\ ~LosesOnReboot => y.bonds = x.live.bonds /\ y.cccds = x.live.cccds
  BY <1>1, <1>4, <1>6, Zenon
<1> QED
  BY <1>7, <1>8, <1>9, <1>10, Zenon DEF fails, torn, y

\* What RESET leaves, with and without its faults.
LEMMA ClearedFacts ==
    ASSUME NEW x, Whole(x)
    PROVE  LET y == Cleared(x)
           IN  /\ Whole(y) /\ y.boot = "initialized_empty" /\ y.dirty = FALSE
               /\ y.next = x.next /\ y.writes = x.writes /\ y.failures = x.failures
               /\ y.inject = x.inject /\ y.cut = x.cut /\ y.evictions = 0
               /\ y.enabled <=> x.enabled \/ ~StaysClosed
               /\ SameEpoch => y.epoch = x.epoch
               /\ ~SameEpoch => y.epoch = x.epoch + 1
               /\ KeepsOnReset => y.bonds = x.bonds /\ y.cccds = x.cccds
               /\ ~KeepsOnReset => y.bonds = <<>> /\ y.cccds = {}
               /\ ResetInMemory => y.live = x.live
               /\ ~ResetInMemory => y.live.is = "whole" /\ y.live.bonds = y.bonds
<1> DEFINE image == IF KeepsOnReset THEN Image(x) ELSE Empty
           on == x.enabled \/ ~StaysClosed
           z == Booted(x, "initialized_empty", image, on)
           e == IF SameEpoch THEN z.epoch ELSE z.epoch + 1
           l == IF ResetInMemory THEN z.live ELSE image
           y == [z EXCEPT !.evictions = 0, !.epoch = e, !.live = l]
<1>1. Cleared(x) = y
  BY Zenon DEF Cleared, KeepsOnReset, StaysClosed, SameEpoch, ResetInMemory
<1>2. /\ image \in File /\ Distinct(image.bonds) /\ image.is = "whole"
      /\ KeepsOnReset => image.bonds = x.bonds /\ image.cccds = x.cccds
      /\ ~KeepsOnReset => image.bonds = <<>> /\ image.cccds = {}
  BY ImageFacts, Files, Zenon
<1>3. on \in BOOLEAN /\ (on <=> x.enabled \/ ~StaysClosed)
  BY Zenon
<1>4. "initialized_empty" \in BootState
  BY Zenon DEF BootState
<1> HIDE DEF image, on
<1>5. /\ Whole(z) /\ Carried(z, x)
      /\ z.boot = "initialized_empty" /\ z.bonds = image.bonds /\ z.cccds = image.cccds
      /\ z.dirty = FALSE /\ z.enabled = on
  <2>1. z = Booted(x, "initialized_empty", image, on)
    OBVIOUS
  <2> HIDE DEF z
  <2> QED
    <3>1. BootsAs(z, x, "initialized_empty", image, on)
      BY <1>2, <1>3, <1>4, <2>1, BootsFacts, Zenon
    <3> QED
      BY <3>1, Zenon DEF BootsAs
<1>6. /\ SameEpoch => e = z.epoch
      /\ ~SameEpoch => e = z.epoch + 1
      /\ ResetInMemory => l = z.live
      /\ ~ResetInMemory => l = image
  BY Zenon
<1> HIDE DEF z, e, l
<1>7. z \in Bonds /\ z.epoch \in Nat /\ z.live \in File /\ Distinct(z.live.bonds)
      /\ Distinct(z.next.bonds) /\ Distinct(z.bonds)
  BY <1>5, BondsFields DEF Whole
<1>8. e \in Nat
  BY <1>6, <1>7
<1>9. l \in File /\ Distinct(l.bonds)
  BY <1>2, <1>6, <1>7, Zenon
<1>10. y \in Bonds
  BY <1>7, <1>8, <1>9 DEF Bonds
<1>11. /\ y.boot = z.boot /\ y.bonds = z.bonds /\ y.cccds = z.cccds /\ y.evictions = 0
       /\ y.epoch = e /\ y.dirty = z.dirty /\ y.live = l /\ y.next = z.next
       /\ y.writes = z.writes /\ y.failures = z.failures /\ y.enabled = z.enabled
       /\ y.inject = z.inject /\ y.cut = z.cut
  BY <1>7 DEF Bonds
<1> HIDE DEF y
<1>12. Whole(y)
  BY <1>7, <1>9, <1>10, <1>11, Zenon DEF Whole
<1>13. /\ SameEpoch => y.epoch = x.epoch
       /\ ~SameEpoch => y.epoch = x.epoch + 1
       /\ ResetInMemory => y.live = x.live
       /\ ~ResetInMemory => y.live.is = "whole" /\ y.live.bonds = y.bonds
  BY <1>2, <1>5, <1>6, <1>11, Zenon DEF Carried
<1>14. /\ KeepsOnReset => y.bonds = x.bonds /\ y.cccds = x.cccds
       /\ ~KeepsOnReset => y.bonds = <<>> /\ y.cccds = {}
       /\ y.enabled <=> x.enabled \/ ~StaysClosed
  BY <1>2, <1>3, <1>5, <1>11, Zenon
<1>15. /\ y.boot = "initialized_empty" /\ y.dirty = FALSE
       /\ y.next = x.next /\ y.writes = x.writes /\ y.failures = x.failures
       /\ y.inject = x.inject /\ y.cut = x.cut /\ y.evictions = 0
  BY <1>5, <1>11, Zenon DEF Carried
<1> QED
  BY <1>1, <1>12, <1>13, <1>14, <1>15, Zenon

\* A failure that is injected, and a power cut that is armed.
LEMMA InjectFacts ==
    ASSUME NEW x, Whole(x), NEW failure \in Injecting
    PROVE  LET y == Inject(x, failure)
           IN  /\ Whole(y) /\ y.inject = failure
               /\ y.boot = x.boot /\ y.bonds = x.bonds /\ y.cccds = x.cccds
               /\ y.evictions = x.evictions /\ y.epoch = x.epoch /\ y.dirty = x.dirty
               /\ y.live = x.live /\ y.next = x.next /\ y.writes = x.writes
               /\ y.failures = x.failures /\ y.enabled = x.enabled /\ y.cut = x.cut
<1> DEFINE y == [x EXCEPT !.inject = failure]
<1>1. x \in Bonds
  BY DEF Whole
<1>2. y \in Bonds
  BY <1>1 DEF Bonds, Injecting
<1>3. /\ y.inject = failure
      /\ y.boot = x.boot /\ y.bonds = x.bonds /\ y.cccds = x.cccds
      /\ y.evictions = x.evictions /\ y.epoch = x.epoch /\ y.dirty = x.dirty
      /\ y.live = x.live /\ y.next = x.next /\ y.writes = x.writes
      /\ y.failures = x.failures /\ y.enabled = x.enabled /\ y.cut = x.cut
  BY <1>1 DEF Bonds
<1> HIDE DEF y
<1>4. Whole(y)
  BY <1>2, <1>3, Zenon DEF Whole
<1> QED
  BY <1>3, <1>4, Zenon DEF Inject, y

\* Arming a power cut changes nothing else.
LEMMA ArmedFacts ==
    ASSUME NEW x, Whole(x), NEW point \in CutPoint
    PROVE  LET y == Cut(x, point)
           IN  /\ Whole(y) /\ y.cut = point
               /\ y.boot = x.boot /\ y.bonds = x.bonds /\ y.cccds = x.cccds
               /\ y.evictions = x.evictions /\ y.epoch = x.epoch /\ y.dirty = x.dirty
               /\ y.live = x.live /\ y.next = x.next /\ y.writes = x.writes
               /\ y.failures = x.failures /\ y.enabled = x.enabled /\ y.inject = x.inject
<1> DEFINE y == [x EXCEPT !.cut = point]
<1>1. x \in Bonds
  BY DEF Whole
<1>2. y \in Bonds
  BY <1>1 DEF Bonds, CutPoint
<1>3. /\ y.cut = point
      /\ y.boot = x.boot /\ y.bonds = x.bonds /\ y.cccds = x.cccds
      /\ y.evictions = x.evictions /\ y.epoch = x.epoch /\ y.dirty = x.dirty
      /\ y.live = x.live /\ y.next = x.next /\ y.writes = x.writes
      /\ y.failures = x.failures /\ y.enabled = x.enabled /\ y.inject = x.inject
  BY <1>1 DEF Bonds
<1> HIDE DEF y
<1>4. Whole(y)
  BY <1>2, <1>3, Zenon DEF Whole
<1> QED
  BY <1>3, <1>4, Zenon DEF Cut, y

\* A subscription changes the CCCDs and, unless they are dropped, makes dirty.
LEMMA SubscribedFacts ==
    ASSUME NEW x, Whole(x), NEW p \in Peer
    PROVE  LET y == Subscribed(x, p)
           IN  /\ Whole(y) /\ Frame(y, x) /\ y.bonds = x.bonds /\ y.evictions = x.evictions
               /\ y.cccds = x.cccds \cup {p}
               /\ y.dirty <=> x.dirty \/ ~DropsCccds
<1> DEFINE c == x.cccds \cup {p}
           d == x.dirty \/ ~DropsCccds
           y == [x EXCEPT !.cccds = c, !.dirty = d]
<1>1. Subscribed(x, p) = y
  BY Zenon DEF Subscribed, DropsCccds
<1>2. x \in Bonds /\ x.cccds \in SUBSET Peer
  BY BondsFields DEF Whole
<1>3. c \in SUBSET Peer /\ d \in BOOLEAN /\ (d <=> x.dirty \/ ~DropsCccds)
  BY <1>2
<1> HIDE DEF c, d
<1>4. y \in Bonds
  BY <1>2, <1>3 DEF Bonds
<1>5. Frame(y, x) /\ y.bonds = x.bonds /\ y.evictions = x.evictions /\ y.cccds = c /\ y.dirty = d
  BY <1>2 DEF Bonds, Frame
<1> HIDE DEF y
<1>6. Whole(y)
  BY <1>4, <1>5, Zenon DEF Whole, Frame
<1> QED
  BY <1>1, <1>3, <1>5, <1>6, Zenon DEF c

\* The snapshot is that of the bonds, of which none has a subscription.
Saved(x) ==
    /\ x.live.is = "whole" /\ x.live.bonds = x.bonds
    /\ x.cccds = {} /\ x.live.cccds = {} /\ x.dirty = FALSE

\* A watch that accepts bonds, between two phases of bond_lifecycle.
Open(x) == Calm(x) /\ x.enabled

\* The peers 1 to n, in the order in which they came.
Row(b, n) == Len(b) = n /\ \A i \in 1..n : b[i] = i

Touched(b) == Len(b) = 5 /\ b[1] = 3 /\ b[2] = 4 /\ b[3] = 5 /\ b[4] = 1 /\ b[5] = 6
Renewed(b) == Len(b) = 5 /\ b[1] = 3 /\ b[2] = 4 /\ b[3] = 5 /\ b[4] = 6 /\ b[5] = 1

BondTyped ==
    /\ faults \subseteq Fault /\ Cardinality(faults) <= MaxFaults
    /\ at \in 1..17
    /\ Calm(w) /\ seen \in File /\ Distinct(seen.bonds)

\* What the checks before the k-th phase have ruled out.
BondFound(k) ==
    /\ k > 3 => ~LosesOnReboot
    /\ k > 4 => ~Unbounded /\ ~ForgetsTouch
    /\ k > 5 => ~EvictsOnReplace
    /\ k > 6 => ~DropsCccds \/ WritesOnReconnect
    /\ k > 8 => ~SameEpoch /\ ~KeepsOnReset /\ ~ResetInMemory
    /\ k > 9 => ~FailureUncounted /\ ~FailureReplaces
    /\ k > 10 => ~ReadsOn
    /\ k > 11 => ~StaysClosed /\ ~InventsStaged
    /\ k > 12 => ~TearsLive
    /\ k > 14 => ~HalfStaged
    /\ k > 15 => ~DecodesInvalid /\ ~OverwritesInvalid

\* What the watch x and the scenario's memory s have come to, if no check has failed.
BondPlace(k, x, s) ==
    /\ k \in 1..2 => x = Fresh
    /\ k \in 3..6 => Open(x) /\ Saved(x) /\ x.epoch = 0
    /\ k \in 3..4 => Row(x.bonds, 5) /\ x.evictions = 0
    /\ k = 5 => Touched(x.bonds) /\ x.evictions = 1
    /\ k = 6 => Renewed(x.bonds)
    /\ k = 7 => Open(x) /\ Renewed(x.bonds) /\ x.epoch = 0
    /\ k = 8 => /\ Open(x) /\ x.live.is = "whole"
                /\ 9 \in ToSet(x.bonds) /\ 9 \in ToSet(x.live.bonds)
                /\ SameEpoch => x.epoch = 0
    /\ k = 10 => x.next = None
    /\ k = 11 => ~x.enabled /\ x.next = None
    /\ k = 12 => x.enabled /\ x.next = None
    /\ k \in 13..14 => x.enabled
    /\ k = 14 => /\ s # None
                 /\ HalfStaged => s = Torn
                 /\ ~HalfStaged => s.is = "whole" /\ 11 \in ToSet(s.bonds)

\* A closed connection goes unnoticed no longer than until the reset, and writes on
\* each reconnect are found unless every ADVANCE came too early.
BridgeInv ==
    /\ occupied \in BOOLEAN /\ hurried \in BOOLEAN /\ early \in BOOLEAN
    /\ occupied => at = 8
    /\ failed = {} /\ at > 7 => ~WritesOnReconnect \/ early

BondInv ==
    /\ BondTyped
    /\ BridgeInv
    /\ faults = {} /\ ~hurried => failed = {}
    /\ failed = {} => BondFound(at) /\ BondPlace(at, w, seen)

-----------------------------------------------------------------------------
(* Phases and their checks.                                                  *)

\* The numbers of the phases.
LEMMA BondPhases ==
    /\ Len(Phases) = 17
    /\ \A i \in 1..17 :
          /\ Phases[i] = "fresh" <=> i = 1
          /\ Phases[i] = "five" <=> i = 2
          /\ Phases[i] = "reboot" <=> i = 3
          /\ Phases[i] = "lru" <=> i = 4
          /\ Phases[i] = "replace" <=> i = 5
          /\ Phases[i] = "cccd" <=> i = 6
          /\ Phases[i] = "reconnect" <=> i = 7
          /\ Phases[i] = "reset" <=> i = 8
          /\ Phases[i] = "write failure" <=> i = 9
          /\ Phases[i] = "read failure" <=> i = 10
          /\ Phases[i] = "BEFORE_REPLACE" <=> i = 11
          /\ Phases[i] = "AFTER_PARTIAL_STAGED_WRITE" <=> i = 12
          /\ Phases[i] = "AFTER_STAGED_WRITE" <=> i = 13
          /\ Phases[i] = "promote" <=> i = 14
          /\ Phases[i] = "invalid" <=> i = 15
          /\ Phases[i] = "recover" <=> i = 16
          /\ Phases[i] = "done" <=> i = 17
<1>1. Len(Phases) = 17
  BY SMT DEF Phases
<1>2. /\ Phases[1] = "fresh" /\ Phases[2] = "five" /\ Phases[3] = "reboot" /\ Phases[4] = "lru"
      /\ Phases[5] = "replace" /\ Phases[6] = "cccd" /\ Phases[7] = "reconnect"
      /\ Phases[8] = "reset" /\ Phases[9] = "write failure" /\ Phases[10] = "read failure"
      /\ Phases[11] = "BEFORE_REPLACE" /\ Phases[12] = "AFTER_PARTIAL_STAGED_WRITE"
      /\ Phases[13] = "AFTER_STAGED_WRITE" /\ Phases[14] = "promote" /\ Phases[15] = "invalid"
      /\ Phases[16] = "recover" /\ Phases[17] = "done"
  BY SMT DEF Phases
<1>3. \A i \in 1..17 : \/ i = 1 \/ i = 2 \/ i = 3 \/ i = 4 \/ i = 5 \/ i = 6 \/ i = 7
                       \/ i = 8 \/ i = 9 \/ i = 10 \/ i = 11 \/ i = 12 \/ i = 13 \/ i = 14
                       \/ i = 15 \/ i = 16 \/ i = 17
  OBVIOUS
<1> QED
  BY <1>1, <1>2, <1>3

\* What a phase does to the scenario: nothing has failed after it if nothing had
\* and its checks hold.
LEMMA BondChecks ==
    ASSUME NEW name, NEW x, NEW checks, Phase(name, x, checks)
    PROVE  /\ Phases[at] = name /\ at' = at + 1 /\ w' = x /\ faults' = faults
           /\ failed' = {} <=> failed = {} /\ \A c \in checks : c[2]
<1> DEFINE more == {c[1] : c \in {d \in checks : ~d[2]}}
<1>1. /\ Phases[at] = name /\ at' = at + 1 /\ w' = x /\ faults' = faults
      /\ failed' = failed \cup more
  BY Zenon DEF Phase
<1>2. more = {} <=> \A c \in checks : c[2]
  BY Zenon
<1> HIDE DEF more
<1> QED
  BY <1>1, <1>2, Zenon

\* A watch without faults has none of them.
LEMMA NoFaults ==
    ASSUME faults = {}
    PROVE  /\ ~Unbounded /\ ~ForgetsTouch /\ ~EvictsOnReplace /\ ~DropsCccds
           /\ ~WritesOnReconnect /\ ~LosesOnReboot /\ ~KeepsOnReset /\ ~SameEpoch
           /\ ~ResetInMemory /\ ~FailureReplaces /\ ~FailureUncounted /\ ~ReadsOn
           /\ ~TearsLive /\ ~InventsStaged /\ ~HalfStaged /\ ~DecodesInvalid
           /\ ~OverwritesInvalid /\ ~StaysClosed
  BY Zenon DEF Unbounded, ForgetsTouch, EvictsOnReplace, DropsCccds, WritesOnReconnect,
               LosesOnReboot, KeepsOnReset, SameEpoch, ResetInMemory, FailureReplaces,
               FailureUncounted, ReadsOn, TearsLive, InventsStaged, HalfStaged, DecodesInvalid,
               OverwritesInvalid, StaysClosed

\* Which phase it is, and what becomes of its checks.
LEMMA BondAt ==
    ASSUME BondInv, NEW name, NEW x, NEW checks, Phase(name, x, checks),
           NEW passes, passes <=> \A c \in checks : c[2]
    PROVE  /\ Phases[at] = name /\ at' = at + 1 /\ w' = x /\ faults' = faults /\ Calm(w)
           /\ seen \in File /\ Distinct(seen.bonds)
           /\ failed' = {} <=> failed = {} /\ passes
           /\ failed = {} => BondFound(at) /\ BondPlace(at, w, seen)
           /\ Phases[at] = "fresh" => at = 1
           /\ Phases[at] = "five" => at = 2
           /\ Phases[at] = "reboot" => at = 3
           /\ Phases[at] = "lru" => at = 4
           /\ Phases[at] = "replace" => at = 5
           /\ Phases[at] = "cccd" => at = 6
           /\ Phases[at] = "reconnect" => at = 7
           /\ Phases[at] = "reset" => at = 8
           /\ Phases[at] = "write failure" => at = 9
           /\ Phases[at] = "read failure" => at = 10
           /\ Phases[at] = "BEFORE_REPLACE" => at = 11
           /\ Phases[at] = "AFTER_PARTIAL_STAGED_WRITE" => at = 12
           /\ Phases[at] = "AFTER_STAGED_WRITE" => at = 13
           /\ Phases[at] = "promote" => at = 14
           /\ Phases[at] = "invalid" => at = 15
           /\ Phases[at] = "recover" => at = 16
<1>1. /\ Phases[at] = name /\ at' = at + 1 /\ w' = x /\ faults' = faults
      /\ failed' = {} <=> failed = {} /\ passes
  BY BondChecks, Zenon
<1>2. /\ at \in 1..17 /\ Calm(w) /\ seen \in File /\ Distinct(seen.bonds)
      /\ failed = {} => BondFound(at) /\ BondPlace(at, w, seen)
  BY Zenon DEF BondInv, BondTyped
<1>3. /\ Phases[at] = "fresh" => at = 1
      /\ Phases[at] = "five" => at = 2
      /\ Phases[at] = "reboot" => at = 3
      /\ Phases[at] = "lru" => at = 4
      /\ Phases[at] = "replace" => at = 5
      /\ Phases[at] = "cccd" => at = 6
      /\ Phases[at] = "reconnect" => at = 7
      /\ Phases[at] = "reset" => at = 8
      /\ Phases[at] = "write failure" => at = 9
      /\ Phases[at] = "read failure" => at = 10
      /\ Phases[at] = "BEFORE_REPLACE" => at = 11
      /\ Phases[at] = "AFTER_PARTIAL_STAGED_WRITE" => at = 12
      /\ Phases[at] = "AFTER_STAGED_WRITE" => at = 13
      /\ Phases[at] = "promote" => at = 14
      /\ Phases[at] = "invalid" => at = 15
      /\ Phases[at] = "recover" => at = 16
  BY <1>2, BondPhases
<1> QED
  BY <1>1, <1>2, <1>3, Zenon

\* A step from the n-th phase to the k-th, whose checks pass where the watch has no
\* faults, and that brings it where the next one expects it if they pass.
BondMoves(n, k, x, s, passes) ==
    /\ at = n /\ at' = at + 1 /\ faults' = faults /\ w' = x /\ seen' = s
    /\ Calm(x) /\ s \in File /\ Distinct(s.bonds)
    /\ failed' = {} <=> failed = {} /\ passes
    /\ faults = {} /\ ~hurried' /\ failed = {} => passes
    /\ failed = {} /\ passes => BondFound(k) /\ BondPlace(k, x, s)

\* A phase whose outcome is as BondMoves says keeps the invariant, if it keeps what
\* that says of the bridge.
LEMMA BondStep ==
    ASSUME BondInv, NEW n \in 1..16, NEW k, k = n + 1, NEW x, NEW s, NEW passes,
           BondMoves(n, k, x, s, passes), hurried => hurried', BridgeInv'
    PROVE  BondInv'
<1>0. /\ at = n /\ at' = at + 1 /\ faults' = faults /\ w' = x /\ seen' = s
      /\ Calm(x) /\ s \in File /\ Distinct(s.bonds)
      /\ failed' = {} <=> failed = {} /\ passes
      /\ faults = {} /\ ~hurried' /\ failed = {} => passes
      /\ failed = {} /\ passes => BondFound(k) /\ BondPlace(k, x, s)
  BY Zenon DEF BondMoves
<1>1. at' = k /\ k \in 1..17
  BY <1>0
<1>2. BondTyped /\ (faults = {} /\ ~hurried => failed = {})
  BY Zenon DEF BondInv
<1>3. BondTyped'
  BY <1>0, <1>1, <1>2, Zenon DEF BondTyped
<1>4. faults' = {} /\ ~hurried' => failed' = {}
  BY <1>0, <1>2, Zenon
<1>5. ASSUME failed' = {} PROVE BondFound(at)' /\ BondPlace(at, w, seen)'
  <2>1. BondFound(k) /\ BondPlace(k, x, s)
    BY <1>0, <1>5, Zenon
  <2>2. BondFound(at)'
    <3>1. /\ (Unbounded' <=> Unbounded) /\ (ForgetsTouch' <=> ForgetsTouch)
          /\ (EvictsOnReplace' <=> EvictsOnReplace) /\ (DropsCccds' <=> DropsCccds)
          /\ (WritesOnReconnect' <=> WritesOnReconnect) /\ (LosesOnReboot' <=> LosesOnReboot)
          /\ (KeepsOnReset' <=> KeepsOnReset) /\ (SameEpoch' <=> SameEpoch)
          /\ (ResetInMemory' <=> ResetInMemory) /\ (FailureReplaces' <=> FailureReplaces)
          /\ (FailureUncounted' <=> FailureUncounted) /\ (ReadsOn' <=> ReadsOn)
          /\ (TearsLive' <=> TearsLive) /\ (InventsStaged' <=> InventsStaged)
          /\ (HalfStaged' <=> HalfStaged) /\ (DecodesInvalid' <=> DecodesInvalid)
          /\ (OverwritesInvalid' <=> OverwritesInvalid) /\ (StaysClosed' <=> StaysClosed)
      BY <1>0, Zenon DEF Unbounded, ForgetsTouch, EvictsOnReplace, DropsCccds, WritesOnReconnect, LosesOnReboot,
                   KeepsOnReset, SameEpoch, ResetInMemory, FailureReplaces, FailureUncounted, ReadsOn,
                   TearsLive, InventsStaged, HalfStaged, DecodesInvalid, OverwritesInvalid, StaysClosed
    <3>2. at' = k
      BY <1>1
    <3> QED
      BY <2>1, <3>1, <3>2 DEF BondFound
  <2>3. BondPlace(at, w, seen)'
    BY <1>0, <1>1, <2>1, Zenon DEF BondPlace, SameEpoch, HalfStaged
  <2> QED
    BY <2>2, <2>3
<1> QED
  BY <1>3, <1>4, <1>5, Zenon DEF BondInv

\* Most phases find the bridge free and leave it so.
LEMMA QuietStep ==
    ASSUME BondInv, NEW n \in 1..16, NEW k, k = n + 1, NEW x, NEW s, NEW passes,
           BondMoves(n, k, x, s, passes), bridge' = bridge, n # 7, n # 8 \/ ~occupied
    PROVE  BondInv'
<1>1. /\ occupied' = occupied /\ hurried' = hurried /\ early' = early
  BY DEF bridge
<1>2. at = n /\ at' = at + 1 /\ faults' = faults /\ (failed' = {} => failed = {})
  BY Zenon DEF BondMoves
<1>3. /\ occupied \in BOOLEAN /\ hurried \in BOOLEAN /\ early \in BOOLEAN
      /\ occupied => at = 8
      /\ failed = {} /\ at > 7 => ~WritesOnReconnect \/ early
  BY Zenon DEF BondInv, BridgeInv
<1>4. WritesOnReconnect' <=> WritesOnReconnect
  BY <1>2, Zenon DEF WritesOnReconnect
<1>5. ~occupied
  BY <1>2, <1>3
<1>6. at' > 7 => at > 7
  BY <1>2
<1>7. BridgeInv'
  BY <1>1, <1>2, <1>3, <1>4, <1>5, <1>6, Zenon DEF BridgeInv
<1> QED
  BY <1>1, <1>7, BondStep

-----------------------------------------------------------------------------
(* What a visit of a peer does.                                              *)

\* y is what a visit makes of x, and c what the connection alone makes of it.
Visited(y, x, c) ==
    /\ Open(y) /\ Len(y.bonds) > 0 /\ y.dirty = FALSE
    /\ y.boot = x.boot /\ y.epoch = x.epoch /\ y.next = x.next /\ y.failures = x.failures
    /\ y.bonds = c.bonds /\ y.evictions = c.evictions /\ y.cccds = c.cccds
    /\ c.cccds = x.cccds \cap ToSet(c.bonds)
    /\ c.dirty => /\ y.live.is = "whole" /\ y.live.bonds = y.bonds /\ y.live.cccds = y.cccds
                  /\ y.writes = x.writes + 1
    /\ ~c.dirty => y.live = x.live /\ y.writes = x.writes

\* A visit of an open watch: the connection, then the settling time.
LEMMA VisitFacts ==
    ASSUME NEW x, Open(x), NEW p \in Peer, NEW replace \in BOOLEAN, replace => Len(x.bonds) > 0
    PROVE  Visited(Visit(x, p, replace), x, Connected(x, p, replace))
<1> DEFINE c == Connected(x, p, replace)
           y == Settled(c)
<1>1. Whole(x) /\ x.inject = "NONE" /\ x.cut = "NONE" /\ x.enabled
  BY DEF Open, Calm
<1>2. Whole(c) /\ Frame(c, x) /\ Len(c.bonds) > 0 /\ c.cccds = x.cccds \cap ToSet(c.bonds)
  BY <1>1, ConnectedFacts
<1> HIDE DEF c
<1>3. ~Closed(c) /\ ~Injured(c)
  BY <1>1, <1>2, Zenon DEF Frame, Closed, Injured
<1>4. c.dirty \in BOOLEAN
  BY <1>2, BondsFields DEF Whole
<1>5. /\ Whole(y) /\ Steady(y, c)
      /\ ~c.dirty => y = c
      /\ c.dirty => /\ y.live = Image(c) /\ y.next = c.next /\ y.writes = c.writes + 1
                    /\ y.failures = c.failures /\ y.dirty = FALSE
  BY <1>2, <1>3, SettledFacts, Zenon
<1>6. Image(c).is = "whole" /\ Image(c).bonds = c.bonds /\ Image(c).cccds = c.cccds
  BY <1>2, ImageFacts, Zenon
<1> HIDE DEF y
<1>7. Open(y) /\ Len(y.bonds) > 0
  BY <1>1, <1>2, <1>5, Zenon DEF Open, Calm, Frame, Steady
<1>8. /\ y.boot = x.boot /\ y.epoch = x.epoch /\ y.bonds = c.bonds /\ y.evictions = c.evictions
      /\ y.cccds = c.cccds
  BY <1>2, <1>5, Zenon DEF Frame, Steady
<1>9. /\ y.next = x.next /\ y.failures = x.failures /\ y.dirty = FALSE
      /\ c.dirty => /\ y.live.is = "whole" /\ y.live.bonds = y.bonds /\ y.live.cccds = y.cccds
                    /\ y.writes = x.writes + 1
      /\ ~c.dirty => y.live = x.live /\ y.writes = x.writes
  <2>1. c.next = x.next /\ c.failures = x.failures /\ c.live = x.live /\ c.writes = x.writes
    BY <1>2, Zenon DEF Frame
  <2>2. ASSUME c.dirty
        PROVE  /\ y.next = x.next /\ y.failures = x.failures /\ y.dirty = FALSE
               /\ y.live.is = "whole" /\ y.live.bonds = y.bonds /\ y.live.cccds = y.cccds
               /\ y.writes = x.writes + 1
    <3>1. /\ y.live = Image(c) /\ y.next = c.next /\ y.writes = c.writes + 1
          /\ y.failures = c.failures /\ y.dirty = FALSE
      BY <1>5, <2>2, Zenon
    <3> QED
      BY <1>6, <1>8, <2>1, <3>1, Zenon
  <2>3. ASSUME ~c.dirty
        PROVE  /\ y.next = x.next /\ y.failures = x.failures /\ y.dirty = FALSE
               /\ y.live = x.live /\ y.writes = x.writes
    <3>1. y = c /\ c.dirty = FALSE
      BY <1>4, <1>5, <2>3, Zenon
    <3> QED
      BY <2>1, <3>1, Zenon
  <2> QED
    BY <2>2, <2>3, Zenon
<1>11. Visited(y, x, c)
  BY <1>2, <1>7, <1>8, <1>9, Zenon DEF Visited
<1> QED
  BY <1>11, Zenon DEF Visit, y, c

\* Whatever the watch does, it stays well formed.
LEMMA VisitTyped ==
    ASSUME NEW x, Whole(x), NEW p \in Peer, NEW replace \in BOOLEAN, replace => Len(x.bonds) > 0
    PROVE  /\ Whole(Visit(x, p, replace)) /\ Len(Visit(x, p, replace).bonds) > 0
           /\ Visit(x, p, replace).inject = x.inject /\ Visit(x, p, replace).cut = x.cut
<1> DEFINE c == Connected(x, p, replace)
           y == Settled(c)
<1>1. Whole(c) /\ Frame(c, x) /\ Len(c.bonds) > 0
  BY ConnectedFacts
<1> HIDE DEF c
<1>2. Whole(y) /\ Steady(y, c)
  BY <1>1, SettledFacts, Zenon
<1> HIDE DEF y
<1>3. Whole(y) /\ Len(y.bonds) > 0 /\ y.inject = x.inject /\ y.cut = x.cut
  BY <1>1, <1>2, Zenon DEF Frame, Steady
<1> QED
  BY <1>3, Zenon DEF Visit, y, c

\* A visit leaves a calm watch calm, and with a bond.
LEMMA CalmVisit ==
    ASSUME NEW x, Calm(x), NEW p \in Peer, NEW replace \in BOOLEAN, replace => Len(x.bonds) > 0
    PROVE  Calm(Visit(x, p, replace)) /\ Len(Visit(x, p, replace).bonds) > 0
  BY VisitTyped, Zenon DEF Calm

\* A first visit, where there is room.
LEMMA NewVisit ==
    ASSUME NEW x, Open(x), NEW p \in Peer, p \notin ToSet(x.bonds), Len(x.bonds) # 5
    PROVE  LET y == Visit(x, p, FALSE)
           IN  /\ Open(y) /\ y.bonds = Append(x.bonds, p) /\ y.evictions = x.evictions
               /\ y.boot = x.boot /\ y.epoch = x.epoch /\ y.next = x.next /\ y.failures = x.failures
               /\ y.live.is = "whole" /\ y.live.bonds = y.bonds /\ y.live.cccds = y.cccds
               /\ y.cccds \subseteq x.cccds /\ y.dirty = FALSE
<1> DEFINE c == Connected(x, p, FALSE)
           y == Visit(x, p, FALSE)
<1>1. Whole(x) /\ x.bonds \in Seq(Peer) /\ Distinct(x.bonds)
  BY BondsFields DEF Open, Calm, Whole
<1>2. /\ c.bonds = Append(RemoveFirst(x.bonds, p), p) /\ c.evictions = x.evictions
      /\ c.dirty <=> x.dirty \/ c.bonds # x.bonds \/ WritesOnReconnect
  BY <1>1, ConnectedFacts DEF Retained
<1>3. c.bonds = Append(x.bonds, p)
  BY <1>1, <1>2, MoveFacts
<1>4. Append(x.bonds, p) # x.bonds
  BY <1>1
<1>5. c.dirty
  BY <1>2, <1>3, <1>4, Zenon
<1>6. Visited(y, x, c)
  BY VisitFacts
<1> HIDE DEF c, y
<1>7. y.cccds \subseteq x.cccds
  BY <1>6 DEF Visited
<1>8. /\ Open(y) /\ y.bonds = Append(x.bonds, p) /\ y.evictions = x.evictions
      /\ y.boot = x.boot /\ y.epoch = x.epoch /\ y.next = x.next /\ y.failures = x.failures
      /\ y.live.is = "whole" /\ y.live.bonds = y.bonds /\ y.live.cccds = y.cccds
      /\ y.dirty = FALSE
  BY <1>2, <1>3, <1>5, <1>6, Zenon DEF Visited
<1> QED
  BY <1>7, <1>8, Zenon DEF y

\* Fresh, and a watch that has been calm stays so.
LEMMA FreshFacts ==
    /\ Open(Fresh) /\ Fresh.boot = "initialized_empty" /\ Fresh.bonds = <<>> /\ Fresh.cccds = {}
    /\ Fresh.evictions = 0 /\ Fresh.epoch = 0 /\ Fresh.dirty = FALSE /\ Fresh.live = Empty
    /\ Fresh.next = None /\ Fresh.writes = 0 /\ Fresh.failures = 0
<1>1. Empty \in File /\ None \in File /\ <<>> \in Seq(Peer)
  BY Files, EmptySeq, Zenon
<1>2. /\ Fresh \in Bonds
      /\ Fresh.boot = "initialized_empty" /\ Fresh.bonds = <<>> /\ Fresh.cccds = {}
      /\ Fresh.evictions = 0 /\ Fresh.epoch = 0 /\ Fresh.dirty = FALSE /\ Fresh.live = Empty
      /\ Fresh.next = None /\ Fresh.writes = 0 /\ Fresh.failures = 0
      /\ Fresh.enabled = TRUE /\ Fresh.inject = "NONE" /\ Fresh.cut = "NONE"
  BY <1>1 DEF Fresh, Bonds
<1>3. Distinct(Fresh.bonds) /\ Distinct(Fresh.live.bonds) /\ Distinct(Fresh.next.bonds)
  BY <1>2, Files, Zenon
<1> QED
  BY <1>2, <1>3, Zenon DEF Open, Calm, Whole

\* So does a reboot, which leaves nothing to be written,
LEMMA CalmReboot ==
    ASSUME NEW x, Calm(x)
    PROVE  Calm(Rebooted(x)) /\ Rebooted(x).dirty = FALSE
  BY RebootedFacts, Zenon DEF Calm, Carried

\* a RESET,
LEMMA CalmClear ==
    ASSUME NEW x, Calm(x)
    PROVE  Calm(Cleared(x)) /\ Cleared(x).dirty = FALSE
  BY ClearedFacts, Zenon DEF Calm

\* and two visits.
LEMMA CalmVisits ==
    ASSUME NEW x, Calm(x), NEW p \in Peer, NEW q \in Peer
    PROVE  Calm(Visits(x, p, q)) /\ Len(Visits(x, p, q).bonds) > 0
<1> DEFINE y == Visit(x, p, FALSE)
<1>1. Calm(y)
  BY CalmVisit
<1> HIDE DEF y
<1>2. Calm(Visit(y, q, FALSE)) /\ Len(Visit(y, q, FALSE).bonds) > 0
  BY <1>1, CalmVisit
<1> QED
  BY <1>2, Zenon DEF Visits, y

-----------------------------------------------------------------------------
(* bond_lifecycle's phases.                                                  *)

\* The first phase.
LEMMA FreshKept == BondInv /\ FreshStore => BondInv'
<1> SUFFICES ASSUME BondInv, FreshStore PROVE BondInv'
  OBVIOUS
<1> DEFINE a == "initializes empty"
           b == "no peers"
           p == w.boot = "initialized_empty"
           q == Retained(w) = {}
           checks == {<<a, p>>, <<b, q>>}
<1>1. Phase("fresh", w, checks) /\ seen' = seen /\ bridge' = bridge
  BY Zenon DEF FreshStore
<1> HIDE DEF a, b, p, q
<1> DEFINE passes == p /\ q
<1>2. passes <=> \A c \in checks : c[2]
  OBVIOUS
<1> HIDE DEF checks, passes
<1>3. /\ at = 1 /\ at' = at + 1 /\ w' = w /\ faults' = faults
      /\ Calm(w) /\ seen \in File /\ Distinct(seen.bonds)
      /\ failed' = {} <=> failed = {} /\ passes
      /\ failed = {} => BondFound(at) /\ BondPlace(at, w, seen)
  BY <1>1, <1>2, BondAt, Zenon
<1>6. ASSUME failed = {} PROVE w = Fresh /\ BondFound(2) /\ BondPlace(2, w, seen)
  <2>1. BondFound(1) /\ BondPlace(1, w, seen)
    BY <1>3, <1>6, Zenon
  <2> QED
    BY <2>1 DEF BondFound, BondPlace
<1>7. ASSUME failed = {} PROVE p /\ q
  <2>1. p
    BY <1>6, <1>7, FreshFacts, Zenon DEF p
  <2>2. ToSet(<<>>) = {}
    BY DEF ToSet
  <2> QED
    BY <1>6, <1>7, <2>1, <2>2, FreshFacts, Zenon DEF q, Retained
<1>8. BondMoves(1, 2, w, seen, passes)
  BY <1>1, <1>3, <1>6, <1>7, Zenon DEF BondMoves, passes
<1>9. 1 \in 1..16 /\ 2 = 1 + 1 /\ 1 # 7 /\ 1 # 8
  OBVIOUS
<1> QED
  BY <1>1, <1>8, <1>9, QuietStep, Zenon

\* n peers have come, to a store that had none.
Filled(x, n) ==
    /\ Open(x) /\ Row(x.bonds, n) /\ x.evictions = 0 /\ x.epoch = 0 /\ x.cccds = {}
    /\ n > 0 => Saved(x)

\* The next of the first five peers.
LEMMA FilledStep ==
    ASSUME NEW x, NEW n \in 0..4, Filled(x, n)
    PROVE  Filled(Visit(x, n + 1, FALSE), n + 1)
<1> DEFINE p == n + 1
           y == Visit(x, p, FALSE)
<1>1. /\ Open(x) /\ x.bonds \in Seq(Peer) /\ Row(x.bonds, n) /\ x.cccds = {}
      /\ x.evictions = 0 /\ x.epoch = 0
  BY BondsFields DEF Filled, Open, Calm, Whole
<1>2. p \in Peer /\ p \notin ToSet(x.bonds) /\ Len(x.bonds) # 5
  BY <1>1 DEF Peer, Row, ToSet
<1>3. /\ Open(y) /\ y.bonds = Append(x.bonds, p) /\ y.evictions = x.evictions
      /\ y.epoch = x.epoch /\ y.live.is = "whole" /\ y.live.bonds = y.bonds
      /\ y.live.cccds = y.cccds /\ y.cccds \subseteq x.cccds /\ y.dirty = FALSE
  BY <1>1, <1>2, NewVisit, Zenon
<1>4. Row(Append(x.bonds, p), p)
  <2>1. Len(Append(x.bonds, p)) = p
    BY <1>1 DEF Row
  <2>2. \A i \in 1..p : Append(x.bonds, p)[i] = i
    <3> SUFFICES ASSUME NEW i \in 1..p PROVE Append(x.bonds, p)[i] = i
      OBVIOUS
    <3>1. Len(x.bonds) = n /\ \A j \in 1..n : x.bonds[j] = j
      BY <1>1 DEF Row
    <3>2. CASE i = p
      BY <1>1, <3>1, <3>2
    <3>3. CASE i \in 1..n
      BY <1>1, <3>1, <3>3
    <3>4. i = p \/ i \in 1..n
      OBVIOUS
    <3> QED
      BY <3>2, <3>3, <3>4, Zenon
  <2> QED
    BY <2>1, <2>2 DEF Row
<1> HIDE DEF y
<1>5. y.cccds = {}
  BY <1>1, <1>3
<1> HIDE DEF p
<1>6. Saved(y)
  BY <1>3, <1>5, Zenon DEF Saved
<1>7. Filled(y, p)
  BY <1>1, <1>3, <1>4, <1>5, <1>6, Zenon DEF Filled
<1> QED
  BY <1>7 DEF y, p

\* The peers 1 to n in order are the set of them.
LEMMA RowSet ==
    ASSUME NEW b \in Seq(Peer), NEW n \in Nat, Row(b, n)
    PROVE  ToSet(b) = 1..n
  BY DEF Row, ToSet

\* The five visits of the second phase.
LEMMA FiveVisits ==
    ASSUME NEW x, Calm(x)
    PROVE  LET y == Visit(Visits(Visits(x, 1, 2), 3, 4), 5, FALSE)
           IN  Calm(y) /\ (x = Fresh => Filled(y, 5))
<1> DEFINE x1 == Visit(x, 1, FALSE)
           x2 == Visit(x1, 2, FALSE)
           x3 == Visit(x2, 3, FALSE)
           x4 == Visit(x3, 4, FALSE)
           x5 == Visit(x4, 5, FALSE)
<1>1. Visit(Visits(Visits(x, 1, 2), 3, 4), 5, FALSE) = x5
  BY Zenon DEF Visits
<1>2. 1 \in Peer /\ 2 \in Peer /\ 3 \in Peer /\ 4 \in Peer /\ 5 \in Peer
  BY DEF Peer
<1>3. Calm(x5)
  <2>1. Calm(x1)
    BY <1>2, CalmVisit
  <2> HIDE DEF x1
  <2>2. Calm(x2)
    BY <1>2, <2>1, CalmVisit
  <2> HIDE DEF x2
  <2>3. Calm(x3)
    BY <1>2, <2>2, CalmVisit
  <2> HIDE DEF x3
  <2>4. Calm(x4)
    BY <1>2, <2>3, CalmVisit
  <2> HIDE DEF x4
  <2> QED
    BY <1>2, <2>4, CalmVisit
<1>4. ASSUME x = Fresh PROVE Filled(x5, 5)
  <2>1. Filled(x, 0)
    <3>1. Row(<<>>, 0)
      BY DEF Row
    <3>2. ~(0 > 0)
      OBVIOUS
    <3> QED
      BY <1>4, <3>1, <3>2, FreshFacts, Zenon DEF Filled
  <2>2. /\ \A z : Filled(z, 0) => Filled(Visit(z, 1, FALSE), 1)
        /\ \A z : Filled(z, 1) => Filled(Visit(z, 2, FALSE), 2)
        /\ \A z : Filled(z, 2) => Filled(Visit(z, 3, FALSE), 3)
        /\ \A z : Filled(z, 3) => Filled(Visit(z, 4, FALSE), 4)
        /\ \A z : Filled(z, 4) => Filled(Visit(z, 5, FALSE), 5)
    <3>1. /\ 0 \in 0..4 /\ 1 \in 0..4 /\ 2 \in 0..4 /\ 3 \in 0..4 /\ 4 \in 0..4
          /\ 0 + 1 = 1 /\ 1 + 1 = 2 /\ 2 + 1 = 3 /\ 3 + 1 = 4 /\ 4 + 1 = 5
      OBVIOUS
    <3>2. \A n \in 0..4 : \A z : Filled(z, n) => Filled(Visit(z, n + 1, FALSE), n + 1)
      BY FilledStep
    <3>3. \A z : Filled(z, 0) => Filled(Visit(z, 1, FALSE), 1)
      BY <3>1, <3>2
    <3>4. \A z : Filled(z, 1) => Filled(Visit(z, 2, FALSE), 2)
      BY <3>1, <3>2
    <3>5. \A z : Filled(z, 2) => Filled(Visit(z, 3, FALSE), 3)
      BY <3>1, <3>2
    <3>6. \A z : Filled(z, 3) => Filled(Visit(z, 4, FALSE), 4)
      BY <3>1, <3>2
    <3>7. \A z : Filled(z, 4) => Filled(Visit(z, 5, FALSE), 5)
      BY <3>1, <3>2
    <3> QED
      BY <3>3, <3>4, <3>5, <3>6, <3>7
  <2> QED
    BY <2>1, <2>2, Zenon
<1> QED
  BY <1>1, <1>3, <1>4, Zenon

\* The second phase.
LEMMA FiveKept == BondInv /\ FivePeers => BondInv'
<1> SUFFICES ASSUME BondInv, FivePeers PROVE BondInv'
  OBVIOUS
<1> DEFINE x == Visit(Visits(Visits(w, 1, 2), 3, 4), 5, FALSE)
           a == "five retained"
           p == Retained(x) = 1..5
           checks == {<<a, p>>}
<1>1. Phase("five", x, checks) /\ seen' = seen /\ bridge' = bridge
  BY Zenon DEF FivePeers
<1> HIDE DEF a, p
<1> DEFINE passes == p
<1>2. passes <=> \A c \in checks : c[2]
  OBVIOUS
<1> HIDE DEF checks, passes
<1>3. /\ at = 2 /\ at' = at + 1 /\ w' = x /\ faults' = faults
      /\ Calm(w) /\ seen \in File /\ Distinct(seen.bonds)
      /\ failed' = {} <=> failed = {} /\ passes
      /\ failed = {} => BondFound(at) /\ BondPlace(at, w, seen)
  BY <1>1, <1>2, BondAt, Zenon
<1>6. Calm(x) /\ (w = Fresh => Filled(x, 5))
  BY <1>3, FiveVisits
<1> HIDE DEF x
<1>7. ASSUME failed = {} PROVE Filled(x, 5) /\ BondFound(3)
  <2>1. BondFound(2) /\ BondPlace(2, w, seen)
    BY <1>3, <1>7, Zenon
  <2>2. w = Fresh /\ BondFound(3)
    BY <2>1 DEF BondFound, BondPlace
  <2> QED
    BY <1>6, <2>2
<1>8. ASSUME failed = {} PROVE BondPlace(3, x, seen)
  BY <1>7, <1>8 DEF Filled, BondPlace
<1>9. ASSUME failed = {} PROVE p
  <2>1. Row(x.bonds, 5) /\ x.bonds \in Seq(Peer)
    BY <1>7, <1>9, BondsFields DEF Filled, Open, Calm, Whole
  <2> QED
    BY <2>1, RowSet DEF p, Retained
<1>10. BondMoves(2, 3, x, seen, passes)
  BY <1>1, <1>3, <1>6, <1>7, <1>8, <1>9, Zenon DEF BondMoves, passes
<1>11. 2 \in 1..16 /\ 3 = 2 + 1 /\ 2 # 7 /\ 2 # 8
  OBVIOUS
<1> QED
  BY <1>1, <1>10, <1>11, QuietStep, Zenon

\* As many peers as places.
LEMMA DistinctCount ==
    ASSUME NEW s \in Seq(Peer), Distinct(s)
    PROVE  Cardinality(ToSet(s)) = Len(s)
<1> DEFINE n == Len(s)
           T == ToSet(s)
<1>1. n \in Nat /\ s \in [1..n -> T]
  BY DEF ToSet
<1>2. \A a, b \in 1..n : s[a] = s[b] => a = b
  BY DEF Distinct
<1>3. \A t \in T : \E a \in 1..n : s[a] = t
  BY SetFacts
<1> HIDE DEF n, T
<1>4. s \in Bijection(1..n, T)
  BY <1>1, <1>2, <1>3, Fun_IsBij
<1>5. ExistsBijection(1..n, T)
  BY <1>4, Zenon DEF ExistsBijection
<1> QED
  BY <1>1, <1>5, FS_CountingElements DEF n, T

\* A snapshot that is that of the bonds stays so.
LEMMA SavedVisit ==
    ASSUME NEW x, Open(x), Saved(x), NEW p \in Peer, NEW replace \in BOOLEAN,
           replace => Len(x.bonds) > 0
    PROVE  LET y == Visit(x, p, replace)
               c == Connected(x, p, replace)
           IN  /\ Open(y) /\ Saved(y) /\ Len(y.bonds) > 0 /\ y.epoch = x.epoch
               /\ y.bonds = c.bonds /\ y.evictions = c.evictions
<1> DEFINE y == Visit(x, p, replace)
           c == Connected(x, p, replace)
<1>1. Visited(y, x, c)
  BY VisitFacts
<1>2. c.dirty <=> x.dirty \/ c.bonds # x.bonds \/ replace \/ WritesOnReconnect
  BY ConnectedFacts, Zenon DEF Open, Calm
<1> HIDE DEF y, c
<1>3. /\ Open(y) /\ Len(y.bonds) > 0 /\ y.dirty = FALSE /\ y.epoch = x.epoch
      /\ y.bonds = c.bonds /\ y.evictions = c.evictions /\ y.cccds = c.cccds
      /\ c.cccds = x.cccds \cap ToSet(c.bonds)
  BY <1>1, Zenon DEF Visited
<1>4. y.cccds = {}
  BY <1>3 DEF Saved
<1>5. ASSUME c.dirty PROVE y.live.is = "whole" /\ y.live.bonds = y.bonds /\ y.live.cccds = y.cccds
  BY <1>1, <1>5, Zenon DEF Visited
<1>6. ASSUME ~c.dirty PROVE y.live = x.live /\ y.bonds = x.bonds
  BY <1>1, <1>2, <1>3, <1>6, Zenon DEF Visited
<1>7. Saved(y)
  BY <1>3, <1>4, <1>5, <1>6, Zenon DEF Saved
<1> QED
  BY <1>3, <1>7, Zenon DEF y, c

\* A peer that has been here before, once more or with a new key.
LEMMA KnownVisit ==
    ASSUME NEW x, Open(x), Saved(x), NEW p \in Peer, p \in ToSet(x.bonds), NEW replace \in BOOLEAN
    PROVE  LET y == Visit(x, p, replace)
           IN  /\ Open(y) /\ Saved(y) /\ y.epoch = x.epoch
               /\ ~replace /\ ForgetsTouch => y.bonds = x.bonds
               /\ replace /\ EvictsOnReplace => y.evictions = x.evictions + 1
               /\ ~replace \/ ~EvictsOnReplace =>
                     /\ y.evictions = x.evictions
                     /\ replace \/ ~ForgetsTouch => y.bonds = Append(RemoveFirst(x.bonds, p), p)
<1> DEFINE y == Visit(x, p, replace)
           c == Connected(x, p, replace)
           known  == p \in Retained(x)
           evicts == (~known /\ Len(x.bonds) = 5 /\ ~Unbounded) \/ (replace /\ EvictsOnReplace)
           moves  == ~known \/ replace \/ ~ForgetsTouch
           kept   == IF evicts THEN Tail(x.bonds) ELSE x.bonds
<1>1. x.bonds \in Seq(Peer) /\ Whole(x)
  BY BondsFields DEF Open, Calm, Whole
<1>2. Len(x.bonds) > 0
  BY <1>1 DEF ToSet
<1>3. known
  BY DEF Retained
<1>4. /\ Open(y) /\ Saved(y) /\ y.epoch = x.epoch /\ y.bonds = c.bonds /\ y.evictions = c.evictions
  BY <1>2, SavedVisit
<1>5. /\ moves => c.bonds = Append(RemoveFirst(kept, p), p)
      /\ ~moves => c.bonds = x.bonds
      /\ evicts => c.evictions = x.evictions + 1
      /\ ~evicts => c.evictions = x.evictions
  <2>1. replace => Len(x.bonds) > 0
    BY <1>2
  <2>2. moves => c.bonds = Append(RemoveFirst(kept, p), p)
    BY <1>1, <2>1, ConnectedFacts
  <2>3. ~moves => c.bonds = x.bonds
    BY <1>1, <2>1, ConnectedFacts
  <2>4. evicts => c.evictions = x.evictions + 1
    BY <1>1, <2>1, ConnectedFacts
  <2>5. ~evicts => c.evictions = x.evictions
    BY <1>1, <2>1, ConnectedFacts
  <2> QED
    BY <2>2, <2>3, <2>4, <2>5
<1>6. ~evicts => kept = x.bonds
  BY Zenon
<1> HIDE DEF y, c, kept, known
<1> QED
  BY <1>3, <1>4, <1>5, <1>6, Zenon DEF y

\* A peer that has not, to a store that is full.
LEMMA SixthVisit ==
    ASSUME NEW x, Open(x), Saved(x), NEW p \in Peer, p \notin ToSet(x.bonds), Len(x.bonds) = 5
    PROVE  LET y == Visit(x, p, FALSE)
           IN  /\ Open(y) /\ Saved(y) /\ y.epoch = x.epoch
               /\ Unbounded => y.evictions = x.evictions
               /\ ~Unbounded => /\ y.evictions = x.evictions + 1
                                /\ y.bonds = Append(Tail(x.bonds), p)
<1> DEFINE y == Visit(x, p, FALSE)
           c == Connected(x, p, FALSE)
           known  == p \in Retained(x)
           evicts == (~known /\ Len(x.bonds) = 5 /\ ~Unbounded) \/ (FALSE /\ EvictsOnReplace)
           moves  == ~known \/ FALSE \/ ~ForgetsTouch
           kept   == IF evicts THEN Tail(x.bonds) ELSE x.bonds
<1>1. x.bonds \in Seq(Peer) /\ Whole(x) /\ Distinct(x.bonds)
  BY BondsFields DEF Open, Calm, Whole
<1>2. /\ Open(y) /\ Saved(y) /\ y.epoch = x.epoch /\ y.bonds = c.bonds /\ y.evictions = c.evictions
  BY SavedVisit
<1>3. /\ moves => c.bonds = Append(RemoveFirst(kept, p), p)
      /\ evicts => c.evictions = x.evictions + 1
      /\ ~evicts => c.evictions = x.evictions
  BY <1>1, ConnectedFacts
<1>4. moves /\ (evicts <=> ~Unbounded)
  BY DEF Retained
<1>5. evicts => kept = Tail(x.bonds)
  BY Zenon
<1>6. Append(RemoveFirst(Tail(x.bonds), p), p) = Append(Tail(x.bonds), p)
  <2> DEFINE t == Tail(x.bonds)
             s == x.bonds
  <2> HIDE DEF s
  <2>0. s \in Seq(Peer) /\ Distinct(s) /\ Len(s) = 5 /\ p \notin ToSet(s)
    BY <1>1 DEF s
  <2>1. t \in Seq(Peer) /\ Distinct(t) /\ Len(t) = 4 /\ \A i \in 1..4 : t[i] = s[i + 1]
    BY <2>0, TailFacts DEF s
  <2> HIDE DEF t
  <2>2. p \notin ToSet(t)
    <3>1. \A i \in 1..4 : t[i] # p
      <4> SUFFICES ASSUME NEW i \in 1..4 PROVE t[i] # p
        OBVIOUS
      <4>1. i + 1 \in 1..5
        OBVIOUS
      <4>2. s[i + 1] # p
        BY <2>0, <4>1, SetFacts
      <4> QED
        BY <2>1, <4>2
    <3> QED
      BY <2>1, <3>1 DEF ToSet
  <2>3. RemoveFirst(t, p) = t
    BY <2>1, <2>2, RemoveFirstFacts
  <2> QED
    BY <2>3, Zenon DEF t
<1> HIDE DEF y, c, kept, known, evicts, moves
<1> QED
  BY <1>2, <1>3, <1>4, <1>5, <1>6, Zenon DEF y

\* The third phase.
LEMMA RebootKept == BondInv /\ Restores => BondInv'
<1> SUFFICES ASSUME BondInv, Restores PROVE BondInv'
  OBVIOUS
<1> DEFINE x == Rebooted(w)
           a == "restores"
           b == "restores all five"
           p == x.boot = "restored"
           q == Cardinality(Retained(x)) = 5
           checks == {<<a, p>>, <<b, q>>}
<1>1. Phase("reboot", x, checks) /\ seen' = seen /\ bridge' = bridge
  BY Zenon DEF Restores
<1> HIDE DEF a, b, p, q
<1> DEFINE passes == p /\ q
<1>2. passes <=> \A c \in checks : c[2]
  OBVIOUS
<1> HIDE DEF checks, passes
<1>3. /\ at = 3 /\ at' = at + 1 /\ w' = x /\ faults' = faults
      /\ Calm(w) /\ seen \in File /\ Distinct(seen.bonds)
      /\ failed' = {} <=> failed = {} /\ passes
      /\ failed = {} => BondFound(at) /\ BondPlace(at, w, seen)
  BY <1>1, <1>2, BondAt, Zenon
<1>4. Calm(x) /\ x.dirty = FALSE
  BY <1>3, CalmReboot
<1>5. ASSUME failed = {}
      PROVE  /\ BondFound(3) /\ Open(w) /\ Saved(w) /\ w.epoch = 0 /\ Row(w.bonds, 5)
             /\ w.evictions = 0
  <2>1. BondFound(3) /\ BondPlace(3, w, seen)
    BY <1>3, <1>5, Zenon
  <2> QED
    BY <2>1 DEF BondPlace
<1>6. ASSUME failed = {}
      PROVE  /\ p /\ x.enabled /\ Carried(x, w)
             /\ LosesOnReboot => x.bonds = <<>>
             /\ ~LosesOnReboot => x.bonds = w.bonds /\ x.cccds = {}
  <2>1. Whole(w) /\ w.inject # "READ" /\ w.live # Torn
    BY <1>5, <1>6, Files, Zenon DEF Open, Calm, Saved
  <2>2. /\ Carried(x, w) /\ x.boot = "restored" /\ x.enabled
        /\ LosesOnReboot => x.bonds = <<>> /\ x.cccds = {}
        /\ ~LosesOnReboot => x.bonds = w.live.bonds /\ x.cccds = w.live.cccds
    BY <2>1, RebootedFacts, Zenon
  <2> QED
    BY <1>5, <1>6, <2>2, Zenon DEF p, Saved
<1> HIDE DEF x
<1>7. ASSUME failed = {}, passes PROVE ~LosesOnReboot
  <2>1. SUFFICES ASSUME LosesOnReboot PROVE FALSE
    OBVIOUS
  <2>2. x.bonds = <<>> /\ q
    BY <1>6, <1>7, <2>1, Zenon DEF passes
  <2>3. ToSet(<<>>) = {}
    BY DEF ToSet
  <2>4. Cardinality({}) = 5
    BY <2>2, <2>3, Zenon DEF q, Retained
  <2> QED
    BY <2>4, FS_EmptySet
<1>8. ASSUME failed = {}, ~LosesOnReboot PROVE passes
  <2>1. x.bonds \in Seq(Peer) /\ Distinct(x.bonds)
    BY <1>4, BondsFields DEF Calm, Whole
  <2>2. Len(x.bonds) = 5
    BY <1>5, <1>6, <1>8 DEF Row
  <2>3. Cardinality(ToSet(x.bonds)) = 5
    BY <2>1, <2>2, DistinctCount
  <2>4. q
    BY <2>3, Zenon DEF q, Retained
  <2> QED
    BY <1>6, <1>8, <2>4, Zenon DEF passes
<1>9. ASSUME failed = {}, passes PROVE BondFound(4) /\ BondPlace(4, x, seen)
  <2>1. BondFound(4)
    BY <1>5, <1>7, <1>9 DEF BondFound
  <2>2. Open(x) /\ Saved(x) /\ x.epoch = 0 /\ Row(x.bonds, 5) /\ x.evictions = 0
    BY <1>4, <1>5, <1>6, <1>7, <1>9, Zenon DEF Open, Saved, Carried
  <2> QED
    BY <2>1, <2>2 DEF BondPlace
<1>10. BondMoves(3, 4, x, seen, passes)
  BY <1>1, <1>3, <1>4, <1>8, <1>9, NoFaults, Zenon DEF BondMoves
<1>11. 3 \in 1..16 /\ 4 = 3 + 1 /\ 3 # 7 /\ 3 # 8
  OBVIOUS
<1> QED
  BY <1>1, <1>10, <1>11, QuietStep, Zenon

\* A store of five, and who is in it.
LEMMA FiveFacts ==
    ASSUME NEW b \in Seq(Peer), Len(b) = 5
    PROVE  \A p : p \in ToSet(b) <=> b[1] = p \/ b[2] = p \/ b[3] = p \/ b[4] = p \/ b[5] = p
<1>1. \A p : p \in ToSet(b) <=> \E i \in 1..5 : b[i] = p
  BY SetFacts
<1>2. \A i \in 1..5 : i = 1 \/ i = 2 \/ i = 3 \/ i = 4 \/ i = 5
  OBVIOUS
<1>3. 1 \in 1..5 /\ 2 \in 1..5 /\ 3 \in 1..5 /\ 4 \in 1..5 /\ 5 \in 1..5
  OBVIOUS
<1> QED
  BY <1>1, <1>2, <1>3, Zenon

\* Without the first of five, and with another one at the end.
LEMMA NextFive ==
    ASSUME NEW b \in Seq(Peer), Len(b) = 5, NEW p \in Peer
    PROVE  LET c == Append(Tail(b), p)
           IN  /\ c \in Seq(Peer) /\ Len(c) = 5
               /\ c[1] = b[2] /\ c[2] = b[3] /\ c[3] = b[4] /\ c[4] = b[5] /\ c[5] = p
<1> DEFINE t == Tail(b)
           c == Append(t, p)
<1>1. t \in Seq(Peer) /\ Len(t) = 4 /\ \A i \in 1..4 : t[i] = b[i + 1]
  <2>1. Len(b) > 0 /\ Len(b) - 1 = 4
    OBVIOUS
  <2>2. /\ t \in Seq(Peer) /\ Len(t) = Len(b) - 1
        /\ \A i \in 1..(Len(b) - 1) : t[i] = b[i + 1]
    BY <2>1, TailFacts
  <2> QED
    BY <2>1, <2>2, Zenon
<1> HIDE DEF t
<1>2. t[1] = b[2] /\ t[2] = b[3] /\ t[3] = b[4] /\ t[4] = b[5]
  <2>1. 1 \in 1..4 /\ 2 \in 1..4 /\ 3 \in 1..4 /\ 4 \in 1..4
    OBVIOUS
  <2>2. t[1] = b[1 + 1] /\ t[2] = b[2 + 1] /\ t[3] = b[3 + 1] /\ t[4] = b[4 + 1]
    BY <1>1, <2>1, Zenon
  <2> QED
    BY <2>2
<1>3. /\ c \in Seq(Peer) /\ Len(c) = 5
      /\ c[1] = t[1] /\ c[2] = t[2] /\ c[3] = t[3] /\ c[4] = t[4] /\ c[5] = p
  <2>1. /\ c \in Seq(Peer) /\ Len(c) = Len(t) + 1
        /\ \A i \in 1..Len(t) : c[i] = t[i]
        /\ c[Len(t) + 1] = p
    <3>1. t \in Seq(Peer) /\ p \in Peer
      BY <1>1
    <3> HIDE DEF c
    <3>2. \A s \in Seq(Peer) : LET z == Append(s, p) IN
            /\ z \in Seq(Peer) /\ Len(z) = Len(s) + 1
            /\ \A i \in 1..Len(s) : z[i] = s[i]
            /\ z[Len(s) + 1] = p
      BY <3>1, AppendProperties
    <3>3. c = Append(t, p)
      BY DEF c
    <3> QED
      BY <3>1, <3>2, <3>3, Zenon
  <2> HIDE DEF c
  <2>2. /\ c \in Seq(Peer) /\ Len(c) = 5
        /\ \A i \in 1..4 : c[i] = t[i]
        /\ c[5] = p
    BY <1>1, <2>1
  <2>3. 1 \in 1..4 /\ 2 \in 1..4 /\ 3 \in 1..4 /\ 4 \in 1..4
    OBVIOUS
  <2> QED
    BY <2>2, <2>3, Zenon
<1> QED
  BY <1>2, <1>3 DEF t

\* The first of five becomes the last.
LEMMA FirstLast ==
    ASSUME NEW b \in Seq(Peer), Distinct(b), Len(b) = 5
    PROVE  LET c == Append(RemoveFirst(b, b[1]), b[1])
           IN  /\ c \in Seq(Peer) /\ Distinct(c) /\ Len(c) = 5
               /\ c[1] = b[2] /\ c[2] = b[3] /\ c[3] = b[4] /\ c[4] = b[5] /\ c[5] = b[1]
<1> DEFINE p == b[1]
           c == Append(RemoveFirst(b, p), p)
<1>1. p \in Peer /\ 1 \in 1..Len(b)
  OBVIOUS
<1> HIDE DEF p
<1>2. /\ c \in Seq(Peer) /\ Distinct(c) /\ c[Len(c)] = p
      /\ \A k \in 1..Len(b) : b[k] = p =>
            /\ Len(c) = Len(b)
            /\ \A i \in k..(Len(b) - 1) : c[i] = b[i + 1]
  BY <1>1, MoveFacts
<1> HIDE DEF c
<1>3. b[1] = p
  BY DEF p
<1>4. Len(c) = 5 /\ \A i \in 1..4 : c[i] = b[i + 1]
  <2>1. Len(c) = Len(b) /\ \A i \in 1..(Len(b) - 1) : c[i] = b[i + 1]
    BY <1>1, <1>2, <1>3, Zenon
  <2> QED
    BY <2>1
<1>5. c[1] = b[2] /\ c[2] = b[3] /\ c[3] = b[4] /\ c[4] = b[5]
  <2>1. 1 \in 1..4 /\ 2 \in 1..4 /\ 3 \in 1..4 /\ 4 \in 1..4
    OBVIOUS
  <2>2. c[1] = b[1 + 1] /\ c[2] = b[2 + 1] /\ c[3] = b[3 + 1] /\ c[4] = b[4 + 1]
    BY <1>4, <2>1, Zenon
  <2> QED
    BY <2>2
<1> QED
  BY <1>2, <1>4, <1>5, Zenon DEF c, p

\* The fourth phase: 1 comes once more, then 6.
LEMMA EvictionVisits ==
    ASSUME NEW u, Open(u), Saved(u), u.epoch = 0, Row(u.bonds, 5), u.evictions = 0
    PROVE  LET x == Visits(u, 1, 6)
           IN  /\ Open(x) /\ Saved(x) /\ x.epoch = 0
               /\ Unbounded => x.evictions = 0
               /\ ~Unbounded => x.evictions = 1
               /\ ~Unbounded /\ ForgetsTouch => 1 \notin ToSet(x.bonds)
               /\ ~Unbounded /\ ~ForgetsTouch => Touched(x.bonds)
<1> DEFINE y == Visit(u, 1, FALSE)
           x == Visit(y, 6, FALSE)
           b == u.bonds
           m == Append(RemoveFirst(b, 1), 1)
<1>1. b \in Seq(Peer) /\ Distinct(b) /\ Len(b) = 5
  BY BondsFields DEF Open, Calm, Whole, Row
<1>2. b[1] = 1 /\ b[2] = 2 /\ b[3] = 3 /\ b[4] = 4 /\ b[5] = 5
  BY DEF Row
<1>3. 1 \in Peer /\ 6 \in Peer /\ 1 \in ToSet(b)
  BY <1>1, <1>2, FiveFacts DEF Peer
<1>4. /\ Open(y) /\ Saved(y) /\ y.epoch = u.epoch /\ y.evictions = u.evictions
      /\ ForgetsTouch => y.bonds = b
      /\ ~ForgetsTouch => y.bonds = m
  BY <1>3, KnownVisit
<1>5. /\ Len(m) = 5
      /\ m[1] = 2 /\ m[2] = 3 /\ m[3] = 4 /\ m[4] = 5 /\ m[5] = 1
  <2>1. /\ Len(m) = 5
        /\ m[1] = b[2] /\ m[2] = b[3] /\ m[3] = b[4] /\ m[4] = b[5] /\ m[5] = b[1]
    BY <1>1, <1>2, FirstLast
  <2> HIDE DEF m, b
  <2> QED
    BY <1>2, <2>1
<1> HIDE DEF y, m, b
<1>6. y.bonds \in Seq(Peer) /\ Len(y.bonds) = 5 /\ 6 \notin ToSet(y.bonds)
  <2>1. y.bonds \in Seq(Peer)
    BY <1>4, BondsFields DEF Open, Calm, Whole
  <2>2. CASE ForgetsTouch
    <3>1. y.bonds = b
      BY <1>4, <2>2, Zenon
    <3>2. 6 \notin ToSet(b)
      BY <1>1, <1>2, FiveFacts
    <3> QED
      BY <1>1, <3>1, <3>2
  <2>3. CASE ~ForgetsTouch
    <3>1. y.bonds = m
      BY <1>4, <2>3, Zenon
    <3>2. 6 \notin ToSet(m)
      BY <1>5, <2>1, <3>1, FiveFacts
    <3> QED
      BY <1>5, <2>1, <3>1, <3>2
  <2> QED
    BY <2>2, <2>3
<1>7. /\ Open(x) /\ Saved(x) /\ x.epoch = y.epoch
      /\ Unbounded => x.evictions = y.evictions
      /\ ~Unbounded => x.evictions = y.evictions + 1 /\ x.bonds = Append(Tail(y.bonds), 6)
  BY <1>3, <1>4, <1>6, SixthVisit
<1> HIDE DEF x
<1>8. /\ x.epoch = 0
      /\ Unbounded => x.evictions = 0
      /\ ~Unbounded => x.evictions = 1
  BY <1>4, <1>7
<1>9. x.bonds \in Seq(Peer)
  BY <1>7, BondsFields DEF Open, Calm, Whole
<1>10. ~Unbounded => /\ Len(x.bonds) = 5
                     /\ x.bonds[1] = y.bonds[2] /\ x.bonds[2] = y.bonds[3]
                     /\ x.bonds[3] = y.bonds[4] /\ x.bonds[4] = y.bonds[5] /\ x.bonds[5] = 6
  <2> DEFINE c == Append(Tail(y.bonds), 6)
  <2>1. /\ c \in Seq(Peer) /\ Len(c) = 5
        /\ c[1] = y.bonds[2] /\ c[2] = y.bonds[3] /\ c[3] = y.bonds[4]
        /\ c[4] = y.bonds[5] /\ c[5] = 6
    BY <1>3, <1>6, NextFive, Zenon
  <2>2. ~Unbounded => x.bonds = c
    BY <1>7, Zenon
  <2> QED
    BY <2>1, <2>2, Zenon
<1>11. ASSUME ~Unbounded, ForgetsTouch PROVE 1 \notin ToSet(x.bonds)
  <2>1. y.bonds = b
    BY <1>4, <1>11, Zenon
  <2>2. /\ Len(x.bonds) = 5
        /\ x.bonds[1] = 2 /\ x.bonds[2] = 3 /\ x.bonds[3] = 4 /\ x.bonds[4] = 5 /\ x.bonds[5] = 6
    BY <1>2, <1>10, <1>11, <2>1
  <2> QED
    BY <1>9, <2>2, FiveFacts
<1>12. ASSUME ~Unbounded, ~ForgetsTouch PROVE Touched(x.bonds)
  <2>1. y.bonds = m
    BY <1>4, <1>12, Zenon
  <2> QED
    BY <1>5, <1>10, <1>12, <2>1 DEF Touched
<1> QED
  BY <1>7, <1>8, <1>11, <1>12, Zenon DEF x, y, Visits

\* The fourth phase keeps the invariant.
LEMMA EvictionKept == BondInv /\ EvictsOldest => BondInv'
<1> SUFFICES ASSUME BondInv, EvictsOldest PROVE BondInv'
  OBVIOUS
<1> DEFINE x == Visits(w, 1, 6)
           a == "one eviction"
           b == "touched survives"
           c == "new survives"
           d == "oldest evicted"
           p == x.evictions = 1
           q == Has(x, 1)
           r == Has(x, 6)
           s == ~Has(x, 2)
           checks == {<<a, p>>, <<b, q>>, <<c, r>>, <<d, s>>}
<1>1. Phase("lru", x, checks) /\ seen' = seen /\ bridge' = bridge
  BY Zenon DEF EvictsOldest
<1> HIDE DEF a, b, c, d, p, q, r, s
<1> DEFINE passes == p /\ q /\ r /\ s
<1>2. passes <=> \A z \in checks : z[2]
  OBVIOUS
<1> HIDE DEF checks, passes
<1>3. /\ at = 4 /\ at' = at + 1 /\ w' = x /\ faults' = faults
      /\ Calm(w) /\ seen \in File /\ Distinct(seen.bonds)
      /\ failed' = {} <=> failed = {} /\ passes
      /\ failed = {} => BondFound(at) /\ BondPlace(at, w, seen)
  BY <1>1, <1>2, BondAt, Zenon
<1>4. Calm(x)
  BY <1>3, CalmVisits DEF Peer
<1>5. ASSUME failed = {}
      PROVE  /\ BondFound(4) /\ Open(w) /\ Saved(w) /\ w.epoch = 0 /\ Row(w.bonds, 5)
             /\ w.evictions = 0
  <2>1. BondFound(4) /\ BondPlace(4, w, seen)
    BY <1>3, <1>5, Zenon
  <2> QED
    BY <2>1 DEF BondPlace
<1>6. ASSUME failed = {}
      PROVE  /\ Open(x) /\ Saved(x) /\ x.epoch = 0
             /\ Unbounded => x.evictions = 0
             /\ ~Unbounded => x.evictions = 1
             /\ ~Unbounded /\ ForgetsTouch => 1 \notin ToSet(x.bonds)
             /\ ~Unbounded /\ ~ForgetsTouch => Touched(x.bonds)
  BY <1>5, <1>6, EvictionVisits, Zenon
<1> HIDE DEF x
<1>7. ASSUME failed = {}, passes PROVE ~Unbounded /\ ~ForgetsTouch
  <2>1. x.evictions = 1 /\ 1 \in ToSet(x.bonds)
    BY <1>7, Zenon DEF passes, p, q, Has, Retained
  <2>2. ~Unbounded
    BY <1>6, <1>7, <2>1
  <2> QED
    BY <1>6, <1>7, <2>1, <2>2, Zenon
<1>8. ASSUME failed = {}, ~Unbounded, ~ForgetsTouch PROVE passes
  <2>1. Touched(x.bonds) /\ x.evictions = 1 /\ x.bonds \in Seq(Peer)
    BY <1>6, <1>8, BondsFields DEF Open, Calm, Whole
  <2>2. 1 \in ToSet(x.bonds) /\ 6 \in ToSet(x.bonds) /\ 2 \notin ToSet(x.bonds)
    BY <2>1, FiveFacts DEF Touched
  <2> QED
    BY <2>1, <2>2, Zenon DEF passes, p, q, r, s, Has, Retained
<1>9. ASSUME failed = {}, passes PROVE BondFound(5) /\ BondPlace(5, x, seen)
  <2>1. ~Unbounded /\ ~ForgetsTouch
    BY <1>7, <1>9
  <2>2. BondFound(5)
    BY <1>5, <1>9, <2>1 DEF BondFound
  <2>3. Open(x) /\ Saved(x) /\ x.epoch = 0 /\ Touched(x.bonds) /\ x.evictions = 1
    BY <1>6, <1>9, <2>1, Zenon
  <2> QED
    BY <2>2, <2>3 DEF BondPlace
<1>10. BondMoves(4, 5, x, seen, passes)
  BY <1>1, <1>3, <1>4, <1>8, <1>9, NoFaults, Zenon DEF BondMoves
<1>11. 4 \in 1..16 /\ 5 = 4 + 1 /\ 4 # 7 /\ 4 # 8
  OBVIOUS
<1> QED
  BY <1>1, <1>10, <1>11, QuietStep, Zenon

\* The last of five once more, then the one before it becomes the last.
LEMMA LastAgain ==
    ASSUME NEW b \in Seq(Peer), Distinct(b), Len(b) = 5
    PROVE  LET c == Append(RemoveFirst(b, b[5]), b[5])
           IN  /\ c \in Seq(Peer) /\ Len(c) = 5
               /\ c[1] = b[1] /\ c[2] = b[2] /\ c[3] = b[3] /\ c[4] = b[4] /\ c[5] = b[5]
<1> DEFINE p == b[5]
           c == Append(RemoveFirst(b, p), p)
<1>1. p \in Peer /\ 5 \in 1..Len(b)
  <2>1. 5 \in 1..Len(b)
    OBVIOUS
  <2> QED
    BY <2>1, SetFacts
<1> HIDE DEF p
<1>2. /\ c \in Seq(Peer) /\ Distinct(c) /\ c[Len(c)] = p
      /\ \A k \in 1..Len(b) : b[k] = p =>
            /\ Len(c) = Len(b)
            /\ \A i \in 1..(k - 1) : c[i] = b[i]
  BY <1>1, MoveFacts
<1> HIDE DEF c
<1>3. b[5] = p
  BY DEF p
<1>4. Len(c) = 5 /\ \A i \in 1..4 : c[i] = b[i]
  <2>1. Len(c) = Len(b) /\ \A i \in 1..(5 - 1) : c[i] = b[i]
    BY <1>1, <1>2, <1>3, Zenon
  <2> QED
    BY <2>1
<1>5. c[1] = b[1] /\ c[2] = b[2] /\ c[3] = b[3] /\ c[4] = b[4]
  <2>1. 1 \in 1..4 /\ 2 \in 1..4 /\ 3 \in 1..4 /\ 4 \in 1..4
    OBVIOUS
  <2> QED
    BY <1>4, <2>1, Zenon
<1> QED
  BY <1>2, <1>4, <1>5, Zenon DEF c, p

\* The fourth of five bonds, touched, becomes the last.
LEMMA FourthLast ==
    ASSUME NEW b \in Seq(Peer), Distinct(b), Len(b) = 5
    PROVE  LET c == Append(RemoveFirst(b, b[4]), b[4])
           IN  /\ c \in Seq(Peer) /\ Len(c) = 5
               /\ c[1] = b[1] /\ c[2] = b[2] /\ c[3] = b[3] /\ c[4] = b[5] /\ c[5] = b[4]
<1> DEFINE p == b[4]
           c == Append(RemoveFirst(b, p), p)
<1>1. p \in Peer /\ 4 \in 1..Len(b)
  OBVIOUS
<1> HIDE DEF p
<1>2. /\ c \in Seq(Peer) /\ Distinct(c) /\ c[Len(c)] = p
      /\ \A k \in 1..Len(b) : b[k] = p =>
            /\ Len(c) = Len(b)
            /\ \A i \in 1..(k - 1) : c[i] = b[i]
            /\ \A i \in k..(Len(b) - 1) : c[i] = b[i + 1]
  BY <1>1, MoveFacts
<1> HIDE DEF c
<1>3. b[4] = p
  BY DEF p
<1>4. Len(c) = 5 /\ (\A i \in 1..3 : c[i] = b[i]) /\ \A i \in 4..4 : c[i] = b[i + 1]
  <2>1. /\ Len(c) = Len(b) /\ \A i \in 1..(4 - 1) : c[i] = b[i]
        /\ \A i \in 4..(Len(b) - 1) : c[i] = b[i + 1]
    BY <1>1, <1>2, <1>3, Zenon
  <2> QED
    BY <2>1
<1>5. c[1] = b[1] /\ c[2] = b[2] /\ c[3] = b[3] /\ c[4] = b[5]
  <2>1. 1 \in 1..3 /\ 2 \in 1..3 /\ 3 \in 1..3 /\ 4 \in 4..4 /\ 4 + 1 = 5
    OBVIOUS
  <2> QED
    BY <1>4, <2>1
<1> QED
  BY <1>2, <1>4, <1>5, Zenon DEF c, p

\* The fifth phase: 6 once more, then 1 with a new key.
LEMMA ReplaceVisits ==
    ASSUME NEW u, Open(u), Saved(u), u.epoch = 0, Touched(u.bonds), u.evictions = 1,
           ~ForgetsTouch
    PROVE  LET x == Visit(Visit(u, 6, FALSE), 1, TRUE)
           IN  /\ Open(x) /\ Saved(x) /\ x.epoch = 0
               /\ EvictsOnReplace => x.evictions = 2
               /\ ~EvictsOnReplace => x.evictions = 1 /\ Renewed(x.bonds)
<1> DEFINE y == Visit(u, 6, FALSE)
           x == Visit(y, 1, TRUE)
           b == u.bonds
           c == y.bonds
<1>1. b \in Seq(Peer) /\ Distinct(b) /\ Len(b) = 5
  BY BondsFields DEF Open, Calm, Whole, Touched
<1>2. b[1] = 3 /\ b[2] = 4 /\ b[3] = 5 /\ b[4] = 1 /\ b[5] = 6
  BY DEF Touched
<1>3. 1 \in Peer /\ 6 \in Peer /\ 6 \in ToSet(b)
  BY <1>1, <1>2, FiveFacts DEF Peer
<1>4. /\ Open(y) /\ Saved(y) /\ y.epoch = u.epoch /\ y.evictions = u.evictions
      /\ c = Append(RemoveFirst(b, 6), 6)
  BY <1>3, KnownVisit
<1> HIDE DEF y, b, c
<1>5. Len(c) = 5 /\ c[1] = 3 /\ c[2] = 4 /\ c[3] = 5 /\ c[4] = 1 /\ c[5] = 6
  <2> DEFINE d == Append(RemoveFirst(b, b[5]), b[5])
  <2>1. Len(d) = 5 /\ d[1] = b[1] /\ d[2] = b[2] /\ d[3] = b[3] /\ d[4] = b[4] /\ d[5] = b[5]
    BY <1>1, LastAgain, Zenon
  <2>2. c = d
    BY <1>2, <1>4, Zenon
  <2> HIDE DEF d
  <2> QED
    BY <1>2, <2>1, <2>2
<1>6. c \in Seq(Peer) /\ Distinct(c)
  BY <1>4, BondsFields DEF Open, Calm, Whole, c
<1>7. 1 \in ToSet(c)
  BY <1>5, <1>6, FiveFacts
<1>8. /\ Open(x) /\ Saved(x) /\ x.epoch = y.epoch
      /\ EvictsOnReplace => x.evictions = y.evictions + 1
      /\ ~EvictsOnReplace => x.evictions = y.evictions /\ x.bonds = Append(RemoveFirst(c, 1), 1)
  BY <1>3, <1>4, <1>7, KnownVisit DEF c
<1> HIDE DEF x
<1>9. x.epoch = 0 /\ (EvictsOnReplace => x.evictions = 2) /\ (~EvictsOnReplace => x.evictions = 1)
  BY <1>4, <1>8
<1>10. ASSUME ~EvictsOnReplace PROVE Renewed(x.bonds)
  <2> DEFINE d == Append(RemoveFirst(c, c[4]), c[4])
  <2>1. Len(d) = 5 /\ d[1] = c[1] /\ d[2] = c[2] /\ d[3] = c[3] /\ d[4] = c[5] /\ d[5] = c[4]
    BY <1>5, <1>6, FourthLast, Zenon
  <2>2. x.bonds = d
    BY <1>5, <1>8, <1>10, Zenon
  <2> HIDE DEF d
  <2> QED
    BY <1>5, <2>1, <2>2 DEF Renewed
<1> QED
  BY <1>8, <1>9, <1>10, Zenon DEF x, y

\* The fifth phase keeps the invariant.
LEMMA ReplaceKept == BondInv /\ Replaces => BondInv'
<1> SUFFICES ASSUME BondInv, Replaces PROVE BondInv'
  OBVIOUS
<1> DEFINE y == Visit(w, 6, FALSE)
           x == Visit(y, 1, TRUE)
           a == "capacity kept"
           b == "no further eviction"
           p == Cardinality(Retained(x)) = 5
           q == x.evictions = 1
           checks == {<<a, p>>, <<b, q>>}
<1>1. Phase("replace", x, checks) /\ seen' = seen /\ bridge' = bridge
  BY Zenon DEF Replaces
<1> HIDE DEF a, b, p, q
<1> DEFINE passes == p /\ q
<1>2. passes <=> \A z \in checks : z[2]
  OBVIOUS
<1> HIDE DEF checks, passes
<1>3. /\ at = 5 /\ at' = at + 1 /\ w' = x /\ faults' = faults
      /\ Calm(w) /\ seen \in File /\ Distinct(seen.bonds)
      /\ failed' = {} <=> failed = {} /\ passes
      /\ failed = {} => BondFound(at) /\ BondPlace(at, w, seen)
  BY <1>1, <1>2, BondAt, Zenon
<1>4. Calm(x)
  <2>1. 1 \in Peer /\ 6 \in Peer
    BY DEF Peer
  <2>2. Calm(y) /\ Len(y.bonds) > 0
    BY <1>3, <2>1, CalmVisit
  <2> HIDE DEF y
  <2> QED
    BY <2>1, <2>2, CalmVisit
<1>5. ASSUME failed = {}
      PROVE  /\ BondFound(5) /\ Open(w) /\ Saved(w) /\ w.epoch = 0 /\ Touched(w.bonds)
             /\ w.evictions = 1 /\ ~ForgetsTouch
  <2>1. BondFound(5) /\ BondPlace(5, w, seen)
    BY <1>3, <1>5, Zenon
  <2> QED
    BY <2>1 DEF BondPlace, BondFound
<1>6. ASSUME failed = {}
      PROVE  /\ Open(x) /\ Saved(x) /\ x.epoch = 0
             /\ EvictsOnReplace => x.evictions = 2
             /\ ~EvictsOnReplace => x.evictions = 1 /\ Renewed(x.bonds)
  BY <1>5, <1>6, ReplaceVisits, Zenon
<1> HIDE DEF x
<1>7. ASSUME failed = {}, passes PROVE ~EvictsOnReplace
  <2>1. x.evictions = 1
    BY <1>7, Zenon DEF passes, q
  <2> QED
    BY <1>6, <1>7, <2>1
<1>8. ASSUME failed = {}, ~EvictsOnReplace PROVE passes
  <2>1. Renewed(x.bonds) /\ x.evictions = 1 /\ x.bonds \in Seq(Peer) /\ Distinct(x.bonds)
    BY <1>6, <1>8, BondsFields DEF Open, Calm, Whole
  <2>2. Cardinality(ToSet(x.bonds)) = 5
    BY <2>1, DistinctCount DEF Renewed
  <2> QED
    BY <2>1, <2>2, Zenon DEF passes, p, q, Retained
<1>9. ASSUME failed = {}, passes PROVE BondFound(6) /\ BondPlace(6, x, seen)
  <2>1. ~EvictsOnReplace
    BY <1>7, <1>9
  <2>2. BondFound(6)
    BY <1>5, <1>9, <2>1 DEF BondFound
  <2>3. Open(x) /\ Saved(x) /\ x.epoch = 0 /\ Renewed(x.bonds)
    BY <1>6, <1>9, <2>1, Zenon
  <2> QED
    BY <2>2, <2>3 DEF BondPlace
<1>10. BondMoves(5, 6, x, seen, passes)
  BY <1>1, <1>3, <1>4, <1>8, <1>9, NoFaults, Zenon DEF BondMoves
<1>11. 5 \in 1..16 /\ 6 = 5 + 1 /\ 5 # 7 /\ 5 # 8
  OBVIOUS
<1> QED
  BY <1>1, <1>10, <1>11, QuietStep, Zenon

\* The sixth phase: 1 comes once more, and subscribes.
SubscribedVisit(u) == Settled(Subscribed(Connected(u, 1, FALSE), 1))

\* A visit with a subscription leaves a calm watch calm.
LEMMA CalmSubscribed ==
    ASSUME NEW u, Calm(u)
    PROVE  Calm(SubscribedVisit(u))
<1> DEFINE c == Connected(u, 1, FALSE)
           s == Subscribed(c, 1)
           y == Settled(s)
<1>1. 1 \in Peer /\ Whole(u) /\ u.inject = "NONE" /\ u.cut = "NONE"
  BY DEF Peer, Calm
<1>2. Whole(c) /\ Frame(c, u)
  BY <1>1, ConnectedFacts, Zenon
<1> HIDE DEF c
<1>3. Whole(s) /\ Frame(s, c)
  BY <1>1, <1>2, SubscribedFacts, Zenon
<1> HIDE DEF s
<1>4. Whole(y) /\ Steady(y, s)
  BY <1>3, SettledFacts, Zenon
<1> HIDE DEF y
<1>5. Calm(y)
  BY <1>1, <1>2, <1>3, <1>4, Zenon DEF Calm, Frame, Steady
<1> QED
  BY <1>5, Zenon DEF SubscribedVisit, y, s, c

\* The visit of the sixth phase, and which CCCD its snapshot has.
LEMMA SubscribedVisitFacts ==
    ASSUME NEW u, Open(u), Saved(u), Renewed(u.bonds), ~ForgetsTouch
    PROVE  LET y == SubscribedVisit(u)
           IN  /\ Open(y) /\ y.epoch = u.epoch /\ y.cccds = {1} /\ y.live.is = "whole"
               /\ Renewed(y.live.bonds)
               /\ y.live.cccds = {1} <=> ~DropsCccds \/ WritesOnReconnect
               /\ y.live.cccds = {1} \/ y.live.cccds = {}
<1> DEFINE c == Connected(u, 1, FALSE)
           b == u.bonds
           d == c.bonds
           s == Subscribed(c, 1)
           y == Settled(s)
<1>1. /\ 1 \in Peer /\ Whole(u) /\ u.inject = "NONE" /\ u.cut = "NONE" /\ u.enabled
      /\ b \in Seq(Peer) /\ Distinct(b) /\ Len(b) = 5
  BY BondsFields DEF Peer, Calm, Open, Whole, Renewed
<1>2. b[1] = 3 /\ b[2] = 4 /\ b[3] = 5 /\ b[4] = 6 /\ b[5] = 1
  BY DEF Renewed
<1>3. 1 \in Retained(u)
  BY <1>1, <1>2, FiveFacts DEF Retained
<1>4. /\ Whole(c) /\ Frame(c, u) /\ d = Append(RemoveFirst(b, 1), 1)
      /\ c.cccds = u.cccds \cap ToSet(d)
      /\ c.dirty <=> u.dirty \/ d # b \/ WritesOnReconnect
  <2>1. /\ Whole(c) /\ Frame(c, u) /\ c.cccds = u.cccds \cap ToSet(d)
        /\ c.dirty <=> u.dirty \/ d # b \/ WritesOnReconnect
    BY <1>1, ConnectedFacts, Zenon
  <2>2. d = Append(RemoveFirst(b, 1), 1)
    BY <1>1, <1>3, ConnectedFacts
  <2> QED
    BY <2>1, <2>2, Zenon
<1> HIDE DEF c, b, d
<1>5. Len(d) = 5 /\ d[1] = 3 /\ d[2] = 4 /\ d[3] = 5 /\ d[4] = 6 /\ d[5] = 1
  <2> DEFINE e == Append(RemoveFirst(b, b[5]), b[5])
  <2>1. Len(e) = 5 /\ e[1] = b[1] /\ e[2] = b[2] /\ e[3] = b[3] /\ e[4] = b[4] /\ e[5] = b[5]
    BY <1>1, LastAgain, Zenon
  <2>2. d = e
    BY <1>2, <1>4, Zenon
  <2> HIDE DEF e
  <2> QED
    BY <1>2, <2>1, <2>2
<1>6. Renewed(d) /\ d \in Seq(Peer)
  <2>1. d \in Seq(Peer)
    BY <1>4, BondsFields DEF Whole, d
  <2> QED
    BY <1>5, <2>1 DEF Renewed
<1>7. d = b
  <2>1. \A i \in 1..5 : i = 1 \/ i = 2 \/ i = 3 \/ i = 4 \/ i = 5
    OBVIOUS
  <2>2. \A i \in 1..5 : d[i] = b[i]
    BY <1>2, <1>5, <2>1, Zenon
  <2> QED
    BY <1>1, <1>5, <1>6, <2>2
<1>8. c.cccds = {} /\ u.dirty = FALSE /\ u.live.is = "whole" /\ u.live.bonds = b /\ u.live.cccds = {}
  BY <1>4 DEF Saved, b
<1>9. c.dirty <=> WritesOnReconnect
  BY <1>4, <1>7, <1>8, Zenon
<1>10. /\ Whole(s) /\ Frame(s, c) /\ s.bonds = d /\ s.cccds = {1}
       /\ s.dirty <=> ~DropsCccds \/ WritesOnReconnect
  <2>1. /\ Whole(s) /\ Frame(s, c) /\ s.bonds = c.bonds /\ s.cccds = c.cccds \cup {1}
        /\ s.dirty <=> c.dirty \/ ~DropsCccds
    <3>1. Whole(c) /\ 1 \in Peer
      BY <1>1, <1>4
    <3> QED
      BY <3>1, SubscribedFacts
  <2>2. c.cccds \cup {1} = {1}
    BY <1>8
  <2> QED
    BY <1>9, <2>1, <2>2, Zenon DEF d
<1> HIDE DEF s
<1>11. ~Closed(s) /\ ~Injured(s)
  BY <1>1, <1>4, <1>10, Zenon DEF Frame, Closed, Injured
<1>12. /\ Whole(y) /\ Steady(y, s)
       /\ ~s.dirty => y = s
       /\ s.dirty => y.live = Image(s)
  BY <1>10, <1>11, SettledFacts, Zenon
<1>13. Image(s).is = "whole" /\ Image(s).bonds = s.bonds /\ Image(s).cccds = s.cccds
  BY <1>10, ImageFacts, Zenon
<1> HIDE DEF y
<1>14. Open(y) /\ y.epoch = u.epoch /\ y.cccds = {1}
  BY <1>1, <1>4, <1>10, <1>12, Zenon DEF Open, Calm, Frame, Steady
<1>15. ASSUME s.dirty PROVE y.live.is = "whole" /\ y.live.bonds = d /\ y.live.cccds = {1}
  BY <1>10, <1>12, <1>13, <1>15, Zenon
<1>16. ASSUME ~s.dirty PROVE y.live.is = "whole" /\ y.live.bonds = b /\ y.live.cccds = {}
  BY <1>4, <1>8, <1>10, <1>12, <1>16, Zenon DEF Frame
<1>17. y.live.is = "whole" /\ Renewed(y.live.bonds)
  BY <1>6, <1>7, <1>15, <1>16, Zenon
<1>18. /\ y.live.cccds = {1} <=> s.dirty
       /\ y.live.cccds = {1} \/ y.live.cccds = {}
  <2>1. {1} # {}
    OBVIOUS
  <2> QED
    BY <1>15, <1>16, <2>1, Zenon
<1> QED
  BY <1>10, <1>14, <1>17, <1>18, Zenon DEF SubscribedVisit, y, s, c

\* The sixth phase keeps the invariant.
LEMMA CccdKept == BondInv /\ KeepsCccd => BondInv'
<1> SUFFICES ASSUME BondInv, KeepsCccd PROVE BondInv'
  OBVIOUS
<1> DEFINE y == SubscribedVisit(w)
           x == Rebooted(y)
           a == "cccd persisted"
           b == "cccd restored"
           p == Cardinality(y.cccds) = 1
           q == Cardinality(x.cccds) = 1
           checks == {<<a, p>>, <<b, q>>}
<1>1. Phase("cccd", x, checks) /\ seen' = seen /\ bridge' = bridge
  BY Zenon DEF KeepsCccd, SubscribedVisit
<1> HIDE DEF a, b, p, q
<1> DEFINE passes == p /\ q
<1>2. passes <=> \A z \in checks : z[2]
  OBVIOUS
<1> HIDE DEF checks, passes
<1>3. /\ at = 6 /\ at' = at + 1 /\ w' = x /\ faults' = faults
      /\ Calm(w) /\ seen \in File /\ Distinct(seen.bonds)
      /\ failed' = {} <=> failed = {} /\ passes
      /\ failed = {} => BondFound(at) /\ BondPlace(at, w, seen)
  BY <1>1, <1>2, BondAt, Zenon
<1>4. Calm(y) /\ Calm(x)
  BY <1>3, CalmSubscribed, CalmReboot, Zenon
<1>5. ASSUME failed = {}
      PROVE  /\ BondFound(6) /\ Open(w) /\ Saved(w) /\ w.epoch = 0 /\ Renewed(w.bonds)
             /\ ~ForgetsTouch /\ ~LosesOnReboot
  <2>1. BondFound(6) /\ BondPlace(6, w, seen)
    BY <1>3, <1>5, Zenon
  <2> QED
    BY <2>1 DEF BondPlace, BondFound
<1>6. ASSUME failed = {}
      PROVE  /\ Open(y) /\ y.epoch = w.epoch /\ y.cccds = {1} /\ y.live.is = "whole"
             /\ Renewed(y.live.bonds)
             /\ y.live.cccds = {1} <=> ~DropsCccds \/ WritesOnReconnect
             /\ y.live.cccds = {1} \/ y.live.cccds = {}
  BY <1>5, <1>6, SubscribedVisitFacts, Zenon
<1> HIDE DEF y
<1>7. ASSUME failed = {}
      PROVE  /\ Open(x) /\ x.epoch = 0 /\ x.bonds = y.live.bonds /\ x.cccds = y.live.cccds
  <2>1. Whole(y) /\ y.inject # "READ" /\ y.live # Torn
    BY <1>4, <1>6, <1>7, Files, Zenon DEF Calm
  <2>2. Carried(x, y) /\ x.enabled /\ x.bonds = y.live.bonds /\ x.cccds = y.live.cccds
    BY <1>5, <1>7, <2>1, RebootedFacts, Zenon
  <2> QED
    BY <1>4, <1>5, <1>6, <1>7, <2>2, Zenon DEF Carried, Open
<1> HIDE DEF x
<1>8. Cardinality({1}) = 1 /\ Cardinality({}) # 1
  BY FS_Singleton, FS_EmptySet
<1>9. ASSUME failed = {}, passes PROVE ~DropsCccds \/ WritesOnReconnect
  BY <1>6, <1>7, <1>8, <1>9, Zenon DEF passes, q
<1>10. ASSUME failed = {}, ~DropsCccds PROVE passes
  BY <1>6, <1>7, <1>8, <1>10, Zenon DEF passes, p, q
<1>11. ASSUME failed = {}, passes PROVE BondFound(7) /\ BondPlace(7, x, seen)
  <2>1. ~DropsCccds \/ WritesOnReconnect
    BY <1>9, <1>11
  <2>2. BondFound(7)
    BY <1>5, <1>11, <2>1 DEF BondFound
  <2>3. Open(x) /\ x.epoch = 0 /\ Renewed(x.bonds)
    BY <1>6, <1>7, <1>11, Zenon
  <2> QED
    BY <2>2, <2>3 DEF BondPlace
<1>12. BondMoves(6, 7, x, seen, passes)
  BY <1>1, <1>3, <1>4, <1>10, <1>11, NoFaults, Zenon DEF BondMoves
<1>13. 6 \in 1..16 /\ 7 = 6 + 1 /\ 6 # 7 /\ 6 # 8
  OBVIOUS
<1> QED
  BY <1>1, <1>12, <1>13, QuietStep, Zenon

\* The peer p is the most recently used one, and the snapshot has it.
MostRecent(x, p) ==
    /\ Open(x) /\ Len(x.bonds) > 0 /\ x.bonds[Len(x.bonds)] = p
    /\ x.live.is = "whole" /\ x.live.bonds = x.bonds

\* The peer that came last has a bond, in memory and in the snapshot.
LEMMA MostRecentIn ==
    ASSUME NEW x, NEW p, MostRecent(x, p)
    PROVE  p \in ToSet(x.bonds) /\ p \in ToSet(x.live.bonds)
<1>1. x.bonds \in Seq(Peer) /\ Len(x.bonds) > 0 /\ x.bonds[Len(x.bonds)] = p
  BY BondsFields DEF MostRecent, Open, Calm, Whole
<1>2. p \in ToSet(x.bonds)
  BY <1>1, SetFacts
<1> QED
  BY <1>2, Zenon DEF MostRecent

\* A peer that comes for the first time, whether there is room for it or not.
LEMMA FirstVisit ==
    ASSUME NEW x, Open(x), NEW p \in Peer, p \notin ToSet(x.bonds)
    PROVE  LET y == Visit(x, p, FALSE)
           IN  MostRecent(y, p) /\ y.epoch = x.epoch /\ y.dirty = FALSE
<1> DEFINE y == Visit(x, p, FALSE)
           c == Connected(x, p, FALSE)
           known  == p \in Retained(x)
           evicts == (~known /\ Len(x.bonds) = 5 /\ ~Unbounded) \/ (FALSE /\ EvictsOnReplace)
           moves  == ~known \/ FALSE \/ ~ForgetsTouch
           kept   == IF evicts THEN Tail(x.bonds) ELSE x.bonds
           b      == Append(RemoveFirst(kept, p), p)
<1>1. x.bonds \in Seq(Peer) /\ Whole(x) /\ Distinct(x.bonds)
  BY BondsFields DEF Open, Calm, Whole
<1>2. moves => c.bonds = b
  BY <1>1, ConnectedFacts
<1>3. c.dirty <=> x.dirty \/ c.bonds # x.bonds \/ WritesOnReconnect
  BY <1>1, ConnectedFacts, Zenon
<1>4. moves
  BY DEF Retained
<1>5. Visited(y, x, c)
  BY VisitFacts
<1>6. kept \in Seq(Peer) /\ Distinct(kept)
  <2>1. CASE evicts
    <3>1. Len(x.bonds) > 0
      <4>1. Len(x.bonds) = 5
        BY <2>1, Zenon
      <4> QED
        BY <4>1
    <3>2. Tail(x.bonds) \in Seq(Peer) /\ Distinct(Tail(x.bonds))
      BY <1>1, <3>1, TailFacts
    <3> QED
      BY <2>1, <3>2
  <2>2. CASE ~evicts
    BY <1>1, <2>2
  <2> QED
    BY <2>1, <2>2
<1> HIDE DEF y, c, kept, known, evicts, moves
<1>7. b \in Seq(Peer) /\ Len(b) > 0 /\ b[Len(b)] = p
  BY <1>6, MoveFacts
<1> HIDE DEF b
<1>8. p \in ToSet(b)
  BY <1>7, SetFacts
<1>9. c.bonds = b
  BY <1>2, <1>4, Zenon
<1>10. c.dirty
  BY <1>3, <1>8, <1>9, Zenon
<1>11. MostRecent(y, p) /\ y.epoch = x.epoch /\ y.dirty = FALSE
  BY <1>5, <1>7, <1>9, <1>10, Zenon DEF Visited, MostRecent
<1> QED
  BY <1>11, Zenon DEF y

\* Two sequences of peers with the same elements.
LEMMA SameElements ==
    ASSUME NEW s \in Seq(Peer), NEW t \in Seq(Peer), Len(s) = Len(t),
           \A i \in 1..Len(s) : s[i] = t[i]
    PROVE  s = t
  OBVIOUS

\* A peer that is known connects.
LEMMA KnownConnects ==
    ASSUME NEW x, Whole(x), NEW p \in Peer, p \in Retained(x)
    PROVE  LET c == Connected(x, p, FALSE)
           IN  c.bonds = Append(RemoveFirst(x.bonds, p), p) \/ c.bonds = x.bonds
<1> DEFINE c == Connected(x, p, FALSE)
           known  == p \in Retained(x)
           evicts == (~known /\ Len(x.bonds) = 5 /\ ~Unbounded) \/ (FALSE /\ EvictsOnReplace)
           moves  == ~known \/ FALSE \/ ~ForgetsTouch
           kept   == IF evicts THEN Tail(x.bonds) ELSE x.bonds
<1>1. moves => c.bonds = Append(RemoveFirst(kept, p), p)
  BY ConnectedFacts
<1>2. ~moves => c.bonds = x.bonds
  BY ConnectedFacts
<1>3. kept = x.bonds
  OBVIOUS
<1> HIDE DEF kept, moves, c
<1> QED
  BY <1>1, <1>2, <1>3, Zenon DEF c

\* c is what the connection of the most recent peer makes of x.
Returned(c, x, p) ==
    /\ MostRecent(c, p) /\ c.epoch = x.epoch /\ c.writes = x.writes
    /\ c.dirty <=> x.dirty \/ WritesOnReconnect

\* A peer that comes again at once.
LEMMA AgainConnects ==
    ASSUME NEW x, NEW p \in Peer, MostRecent(x, p), NEW c, c = Connected(x, p, FALSE)
    PROVE  Returned(c, x, p)
<1> DEFINE s      == x.bonds
           b      == Append(RemoveFirst(s, p), p)
<1>1. s \in Seq(Peer) /\ Whole(x) /\ Distinct(s) /\ Len(s) > 0 /\ s[Len(s)] = p /\ Open(x)
  BY BondsFields DEF MostRecent, Open, Calm, Whole
<1>2. c.bonds = b \/ c.bonds = s
  BY <1>1, MostRecentIn, KnownConnects DEF Retained
<1>4. c.dirty <=> x.dirty \/ c.bonds # s \/ WritesOnReconnect
  BY <1>1, ConnectedFacts, Zenon
<1>5. Whole(c) /\ Frame(c, x)
  BY <1>1, ConnectedFacts, Zenon
<1> HIDE DEF s
<1>7. b = s
  <2>0. Len(s) \in 1..Len(s)
    BY <1>1
  <2>1. /\ b \in Seq(Peer) /\ Len(b) = Len(s) /\ b[Len(b)] = p
        /\ \A i \in 1..(Len(s) - 1) : b[i] = s[i]
    <3>1. /\ b \in Seq(Peer) /\ b[Len(b)] = p
          /\ \A k \in 1..Len(s) : s[k] = p =>
                /\ Len(b) = Len(s)
                /\ \A i \in 1..(k - 1) : b[i] = s[i]
      BY <1>1, MoveFacts
    <3> HIDE DEF b
    <3> QED
      BY <1>1, <2>0, <3>1, Zenon
  <2> HIDE DEF b
  <2>2. ASSUME NEW i \in 1..Len(s) PROVE b[i] = s[i]
    <3>1. CASE i = Len(s)
      BY <1>1, <2>1, <3>1
    <3>2. CASE i # Len(s)
      <4>1. i \in 1..(Len(s) - 1)
        BY <1>1, <3>2
      <4> QED
        BY <2>1, <4>1
    <3> QED
      BY <3>1, <3>2
  <2> QED
    BY <1>1, <2>1, <2>2, SameElements
<1> HIDE DEF b
<1>8. c.bonds = s
  BY <1>2, <1>7, Zenon
<1>9. c.dirty <=> x.dirty \/ WritesOnReconnect
  BY <1>4, <1>8, Zenon
<1>10. MostRecent(c, p) /\ c.epoch = x.epoch /\ c.writes = x.writes
  <2>1. Open(c)
    BY <1>1, <1>5, Zenon DEF Open, Calm, Frame
  <2>2. Len(s) > 0 /\ s[Len(s)] = p
    BY <1>1
  <2>3. x.live.is = "whole" /\ x.live.bonds = s
    BY Zenon DEF MostRecent, s
  <2> QED
    BY <1>5, <1>8, <2>1, <2>2, <2>3, Zenon DEF MostRecent, Frame
<1> QED
  BY <1>9, <1>10, Zenon DEF Returned

\* The settling time after that.
LEMMA AgainSettles ==
    ASSUME NEW x, NEW p, MostRecent(x, p), NEW y, y = Settled(x)
    PROVE  /\ MostRecent(y, p) /\ y.epoch = x.epoch /\ y.dirty = FALSE
           /\ x.dirty => y.writes = x.writes + 1
           /\ ~x.dirty => y.writes = x.writes
<1>1. /\ Whole(x) /\ x.inject = "NONE" /\ x.cut = "NONE" /\ x.enabled
      /\ Len(x.bonds) > 0 /\ x.bonds[Len(x.bonds)] = p
      /\ x.live.is = "whole" /\ x.live.bonds = x.bonds
  BY DEF MostRecent, Open, Calm
<1>2. ~Closed(x) /\ ~Injured(x)
  BY <1>1, Zenon DEF Closed, Injured
<1>3. /\ Whole(y) /\ Steady(y, x)
      /\ ~x.dirty => y = x
      /\ x.dirty => y.live = Image(x) /\ y.writes = x.writes + 1 /\ y.dirty = FALSE
  BY <1>1, <1>2, SettledFacts, Zenon
<1>4. Image(x).is = "whole" /\ Image(x).bonds = x.bonds
  BY <1>1, ImageFacts, Zenon
<1>5. x.dirty \in BOOLEAN
  BY <1>1, BondsFields DEF Whole
<1>6. Open(y) /\ y.bonds = x.bonds /\ y.epoch = x.epoch
  BY <1>1, <1>3, Zenon DEF Open, Calm, Steady
<1>7. y.live.is = "whole" /\ y.live.bonds = x.bonds /\ y.dirty = FALSE
  BY <1>1, <1>3, <1>4, <1>5, Zenon
<1>8. MostRecent(y, p)
  BY <1>1, <1>6, <1>7, Zenon DEF MostRecent
<1> QED
  BY <1>3, <1>6, <1>7, <1>8, Zenon

\* y is what a reconnect of 9 makes of x: only an ADVANCE that comes after the end of
\* the connection shows that the watch writes.
Reconnected(y, x, busy, noticed) ==
    /\ MostRecent(y, 9) /\ y.epoch = x.epoch
    /\ y.writes = x.writes \/ y.writes = x.writes + 1
    /\ ~WritesOnReconnect /\ ~x.dirty => ~y.dirty /\ y.writes = x.writes
    /\ WritesOnReconnect /\ ~busy /\ noticed = "advance" => y.writes = x.writes + 1

\* A companion that reconnects.
LEMMA AgainReconnects ==
    ASSUME NEW x, MostRecent(x, 9), NEW busy, NEW noticed,
           NEW y, y = Reconnect(x, busy, noticed)
    PROVE  Reconnected(y, x, busy, noticed)
<1>1. 9 \in Peer
  BY DEF Peer
<1> DEFINE c == Connected(x, 9, FALSE)
           d == IF busy THEN x ELSE c
           z == Settled(d)
<1>2. /\ noticed = "advance" => y = z
      /\ noticed # "advance" => y = d
  BY Zenon DEF Reconnect
<1>4. (busy => d = x) /\ (~busy => d = c) /\ c = Connected(x, 9, FALSE)
  BY Zenon
<1> HIDE DEF c, d
<1>3. /\ MostRecent(c, 9) /\ c.epoch = x.epoch /\ c.writes = x.writes
      /\ c.dirty <=> x.dirty \/ WritesOnReconnect
  <2>1. Returned(c, x, 9)
    BY <1>1, <1>4, AgainConnects, Zenon
  <2> QED
    BY <2>1, Zenon DEF Returned
<1>5. /\ MostRecent(d, 9) /\ d.epoch = x.epoch /\ d.writes = x.writes
      /\ ~busy => (d.dirty <=> x.dirty \/ WritesOnReconnect)
      /\ busy => d = x
  BY <1>3, <1>4, Zenon
<1>6. /\ MostRecent(z, 9) /\ z.epoch = d.epoch /\ z.dirty = FALSE
      /\ d.dirty => z.writes = d.writes + 1
      /\ ~d.dirty => z.writes = d.writes
  BY <1>5, AgainSettles
<1> HIDE DEF z
<1>7. ~WritesOnReconnect /\ ~x.dirty => ~d.dirty
  BY <1>5, Zenon
<1>8. WritesOnReconnect /\ ~busy => d.dirty
  BY <1>5, Zenon
<1> QED
  BY <1>2, <1>5, <1>6, <1>7, <1>8, Zenon DEF Reconnected

\* x is what three reconnects make of y, the bridge having noticed the ends of their
\* connections as n says.
Revisited(x, y, n) ==
    /\ MostRecent(x, 9)
    /\ SameEpoch => x.epoch = 0
    /\ ~WritesOnReconnect => x.writes = y.writes
    /\ WritesOnReconnect /\ n[1] # "later" /\ n[2] # "later" /\ x.writes = y.writes =>
          \A i \in 1..3 : n[i] # "advance"

\* The seventh phase: after a reset 9 comes, and comes back three times.
LEMMA ReconnectVisits ==
    ASSUME NEW u, Open(u), Renewed(u.bonds), u.epoch = 0, NEW n \in [1..3 -> Notices],
           NEW y, y = Visit(Cleared(u), 9, FALSE),
           NEW y1, y1 = Reconnect(y, FALSE, n[1]),
           NEW y2, y2 = Reconnect(y1, n[1] = "later", n[2]),
           NEW x, x = Reconnect(y2, n[2] = "later", n[3])
    PROVE  Revisited(x, y, n)
<1> DEFINE v == Cleared(u)
<1>2. 9 \in Peer
  BY DEF Peer
<1>3. /\ Open(v) /\ (v.bonds = u.bonds \/ v.bonds = <<>>)
      /\ SameEpoch => v.epoch = u.epoch
  <2>1. Whole(u) /\ u.enabled /\ Calm(u)
    BY DEF Open, Calm
  <2>2. v.bonds = u.bonds \/ v.bonds = <<>>
    BY <2>1, ClearedFacts, Zenon
  <2>3. v.enabled /\ (SameEpoch => v.epoch = u.epoch)
    BY <2>1, ClearedFacts, Zenon
  <2> QED
    BY <2>1, <2>2, <2>3, CalmClear, Zenon DEF Open
<1> HIDE DEF v
<1>5. 9 \notin ToSet(v.bonds)
  <2>1. u.bonds \in Seq(Peer)
    BY BondsFields DEF Open, Calm, Whole
  <2>2. 9 \notin ToSet(u.bonds)
    BY <2>1, FiveFacts DEF Renewed
  <2>3. 9 \notin ToSet(<<>>)
    BY DEF ToSet
  <2> QED
    BY <1>3, <2>2, <2>3
<1>6. MostRecent(y, 9) /\ y.epoch = v.epoch /\ ~y.dirty
  <2> DEFINE z == Visit(v, 9, FALSE)
  <2>1. MostRecent(z, 9) /\ z.epoch = v.epoch /\ z.dirty = FALSE
    BY <1>2, <1>3, <1>5, FirstVisit
  <2> HIDE DEF z
  <2>2. y = z
    BY DEF z, v
  <2> QED
    BY <2>1, <2>2, Zenon
<1>7. y.writes \in Nat
  BY <1>6, BondsFields DEF MostRecent, Open, Calm, Whole
<1> DEFINE a1 == n[1] = "advance"
           a2 == n[2] = "advance"
           a3 == n[3] = "advance"
           l1 == n[1] = "later"
           l2 == n[2] = "later"
<1>8. /\ MostRecent(y1, 9) /\ y1.epoch = y.epoch
      /\ y1.writes = y.writes \/ y1.writes = y.writes + 1
      /\ ~WritesOnReconnect => ~y1.dirty /\ y1.writes = y.writes
      /\ WritesOnReconnect /\ a1 => y1.writes = y.writes + 1
  <2>1. Reconnected(y1, y, FALSE, n[1])
    BY <1>6, AgainReconnects, Zenon
  <2> QED
    BY <1>6, <2>1, Zenon DEF Reconnected
<1>9. /\ MostRecent(y2, 9) /\ y2.epoch = y1.epoch
      /\ y2.writes = y1.writes \/ y2.writes = y1.writes + 1
      /\ ~WritesOnReconnect => ~y2.dirty /\ y2.writes = y1.writes
      /\ WritesOnReconnect /\ ~l1 /\ a2 => y2.writes = y1.writes + 1
  <2>1. Reconnected(y2, y1, n[1] = "later", n[2])
    BY <1>8, AgainReconnects, Zenon
  <2> QED
    BY <1>8, <2>1, Zenon DEF Reconnected
<1>10. /\ MostRecent(x, 9) /\ x.epoch = y2.epoch
       /\ x.writes = y2.writes \/ x.writes = y2.writes + 1
       /\ ~WritesOnReconnect => x.writes = y2.writes
       /\ WritesOnReconnect /\ ~l2 /\ a3 => x.writes = y2.writes + 1
  <2>1. Reconnected(x, y2, n[2] = "later", n[3])
    BY <1>9, AgainReconnects, Zenon
  <2> QED
    BY <1>9, <2>1, Zenon DEF Reconnected
<1> HIDE DEF a1, a2, a3, l1, l2
<1>11. ASSUME WritesOnReconnect, ~l1, ~l2, x.writes = y.writes PROVE ~a1 /\ ~a2 /\ ~a3
  <2> DEFINE k0 == y.writes
             k1 == y1.writes
             k2 == y2.writes
             k3 == x.writes
  <2>1. /\ k1 = k0 \/ k1 = k0 + 1
        /\ k2 = k1 \/ k2 = k1 + 1
        /\ k3 = k2 \/ k3 = k2 + 1
        /\ a1 => k1 = k0 + 1
        /\ a2 => k2 = k1 + 1
        /\ a3 => k3 = k2 + 1
        /\ k3 = k0 /\ k0 \in Nat
    BY <1>7, <1>8, <1>9, <1>10, <1>11, Zenon
  <2> HIDE DEF k0, k1, k2, k3
  <2> QED
    BY <2>1
<1>12. ~a1 /\ ~a2 /\ ~a3 => \A i \in 1..3 : n[i] # "advance"
  <2>1. \A i \in 1..3 : i = 1 \/ i = 2 \/ i = 3
    OBVIOUS
  <2> QED
    BY <2>1, Zenon DEF a1, a2, a3
<1>13. ~WritesOnReconnect => x.writes = y.writes
  BY <1>8, <1>9, <1>10, Zenon
<1>14. SameEpoch => x.epoch = 0
  BY <1>3, <1>6, <1>8, <1>9, <1>10, Zenon
<1> QED
  BY <1>10, <1>11, <1>12, <1>13, <1>14, Zenon DEF l1, l2, Revisited

\* A calm watch stays calm.
LEMMA CalmReconnect ==
    ASSUME NEW x, Calm(x), NEW busy, NEW noticed PROVE Calm(Reconnect(x, busy, noticed))
<1>1. 9 \in Peer
  BY DEF Peer
<1> DEFINE c == Connected(x, 9, FALSE)
           d == IF busy THEN x ELSE c
           z == Settled(d)
<1>2. Reconnect(x, busy, noticed) = z \/ Reconnect(x, busy, noticed) = d
  BY Zenon DEF Reconnect
<1>3. Whole(c) /\ Frame(c, x)
  BY <1>1, ConnectedFacts DEF Calm
<1>4. d = x \/ d = c
  BY Zenon
<1> HIDE DEF c, d
<1>5. Calm(d)
  BY <1>3, <1>4, Zenon DEF Calm, Frame
<1>6. Whole(z) /\ Steady(z, d)
  BY <1>5, SettledFacts, Zenon DEF Calm
<1> HIDE DEF z
<1>7. Calm(z)
  BY <1>5, <1>6, Zenon DEF Calm, Steady
<1> QED
  BY <1>2, <1>5, <1>7, Zenon

\* The seventh phase keeps the invariant.
LEMMA ReconnectKept == BondInv /\ ReconnectsSilently => BondInv'
<1> SUFFICES ASSUME BondInv, ReconnectsSilently PROVE BondInv'
  OBVIOUS
<1> DEFINE v == Visit(Cleared(w), 9, FALSE)
           a == "battery public"
           b == "no flash writes"
<1>0. PICK n \in [1..3 -> Notices] :
         LET y == Reconnect(v, FALSE, n[1])
             z == Reconnect(y, n[1] = "later", n[2])
             x == Reconnect(z, n[2] = "later", n[3])
             public == n[1] # "later" /\ n[2] # "later"
         IN  /\ Phase("reconnect", x, {<<a, public>>, <<b, x.writes = v.writes>>})
             /\ occupied' = (n[3] = "later")
             /\ hurried' = (hurried \/ ~public)
             /\ early' = (\A i \in 1..3 : n[i] # "advance")
             /\ UNCHANGED seen
  BY Zenon DEF ReconnectsSilently
<1> DEFINE y == Reconnect(v, FALSE, n[1])
           z == Reconnect(y, n[1] = "later", n[2])
           x == Reconnect(z, n[2] = "later", n[3])
           public == n[1] # "later" /\ n[2] # "later"
           late == n[3] = "later"
           none == \A i \in 1..3 : n[i] # "advance"
           p == x.writes = v.writes
           checks == {<<a, public>>, <<b, p>>}
<1>1. /\ Phase("reconnect", x, checks) /\ seen' = seen
      /\ occupied' = late /\ hurried' = (hurried \/ ~public) /\ early' = none
  BY <1>0, Zenon
<1>1a. late \in BOOLEAN /\ none \in BOOLEAN
  OBVIOUS
<1> HIDE DEF a, b, p, public, late, none
<1> DEFINE passes == public /\ p
<1>2. passes <=> \A e \in checks : e[2]
  OBVIOUS
<1> HIDE DEF checks, passes
<1>3. /\ at = 7 /\ at' = at + 1 /\ w' = x /\ faults' = faults
      /\ Calm(w) /\ seen \in File /\ Distinct(seen.bonds)
      /\ failed' = {} <=> failed = {} /\ passes
      /\ failed = {} => BondFound(at) /\ BondPlace(at, w, seen)
  BY <1>1, <1>2, BondAt, Zenon
<1>4. Calm(x)
  <2>1. 9 \in Peer
    BY DEF Peer
  <2>2. Calm(Cleared(w))
    BY <1>3, CalmClear, Zenon
  <2>3. Calm(v)
    BY <2>1, <2>2, CalmVisit
  <2> HIDE DEF v
  <2>4. Calm(y)
    BY <2>3, CalmReconnect, Zenon
  <2> HIDE DEF y
  <2>5. Calm(z)
    BY <2>4, CalmReconnect, Zenon
  <2> HIDE DEF z
  <2> QED
    BY <2>5, CalmReconnect, Zenon
<1>5. ASSUME failed = {}
      PROVE  BondFound(7) /\ Open(w) /\ Renewed(w.bonds) /\ w.epoch = 0
  <2>1. BondFound(7) /\ BondPlace(7, w, seen)
    BY <1>3, <1>5, Zenon
  <2> QED
    BY <2>1 DEF BondPlace
<1>6. ASSUME failed = {}
      PROVE  /\ MostRecent(x, 9)
             /\ SameEpoch => x.epoch = 0
             /\ ~WritesOnReconnect => p
             /\ WritesOnReconnect /\ public /\ p => none
  <2>1. Revisited(x, v, n)
    <3>1. /\ v = Visit(Cleared(w), 9, FALSE)
          /\ y = Reconnect(v, FALSE, n[1])
          /\ z = Reconnect(y, n[1] = "later", n[2])
          /\ x = Reconnect(z, n[2] = "later", n[3])
      BY Zenon
    <3>2. Open(w) /\ Renewed(w.bonds) /\ w.epoch = 0
      BY <1>5, <1>6, Zenon
    <3> HIDE DEF x, y, z, v
    <3> QED
      BY <1>0, <3>1, <3>2, ReconnectVisits, Zenon
  <2> QED
    BY <2>1, Zenon DEF Revisited, p, public, none
<1> HIDE DEF x, y, z, v
<1>7. ASSUME failed = {}, passes PROVE BondFound(8) /\ BondPlace(8, x, seen)
  <2>2. BondFound(8)
    BY <1>5, <1>7 DEF BondFound
  <2>3. /\ Open(x) /\ x.live.is = "whole"
        /\ 9 \in ToSet(x.bonds) /\ 9 \in ToSet(x.live.bonds)
        /\ SameEpoch => x.epoch = 0
    BY <1>6, <1>7, MostRecentIn, Zenon DEF MostRecent
  <2> QED
    BY <2>2, <2>3 DEF BondPlace
<1>8. ASSUME failed = {}, ~WritesOnReconnect, ~hurried' PROVE passes
  BY <1>1, <1>6, <1>8, Zenon DEF passes
<1>9. BondMoves(7, 8, x, seen, passes)
  BY <1>1, <1>3, <1>4, <1>7, <1>8, NoFaults, Zenon DEF BondMoves
<1>10. 7 \in 1..16 /\ 8 = 7 + 1 /\ at' = 8
  BY <1>3
<1>11. BridgeInv'
  <2>1. hurried \in BOOLEAN
    BY Zenon DEF BondInv, BridgeInv
  <2>2. hurried' \in BOOLEAN /\ occupied' \in BOOLEAN /\ early' \in BOOLEAN
    BY <1>1, <1>1a
  <2>3. WritesOnReconnect' <=> WritesOnReconnect
    BY <1>3, Zenon DEF WritesOnReconnect
  <2>4. failed' = {} => ~WritesOnReconnect' \/ early'
    BY <1>1, <1>3, <1>6, <2>3, Zenon DEF passes
  <2> QED
    BY <1>10, <2>2, <2>4, Zenon DEF BridgeInv
<1> QED
  BY <1>1, <1>9, <1>10, <1>11, BondStep, Zenon

\* The stores of none, one and two.
LEMMA EmptyBonds == ToSet(<<>>) = {}
  BY DEF ToSet

\* A list of one bond,
LEMMA OneBond ==
    ASSUME NEW p \in Peer
    PROVE  ToSet(<<p>>) = {p} /\ Len(<<p>>) = 1 /\ Append(<<>>, p) = <<p>>
  BY DEF ToSet

\* and one of two.
LEMMA TwoBonds ==
    ASSUME NEW p \in Peer, NEW q \in Peer
    PROVE  ToSet(<<p, q>>) = {p, q} /\ Append(<<p>>, q) = <<p, q>> /\ <<p, q>> # <<p>>
<1>1. ToSet(<<p, q>>) = {p, q}
  BY DEF ToSet
<1>2. Append(<<p>>, q) = <<p, q>>
  <2> DEFINE s == <<p>>
             a == Append(s, q)
             b == <<p, q>>
  <2>1. s \in Seq(Peer) /\ Len(s) = 1 /\ s[1] = p
    OBVIOUS
  <2>2. b \in Seq(Peer) /\ Len(b) = 2 /\ b[1] = p /\ b[2] = q
    OBVIOUS
  <2> HIDE DEF s, b
  <2>3. a \in Seq(Peer) /\ Len(a) = 2 /\ a[1] = s[1] /\ a[2] = q
    <3>1. /\ a \in Seq(Peer) /\ Len(a) = Len(s) + 1
          /\ \A i \in 1..Len(s) : a[i] = s[i]
          /\ a[Len(s) + 1] = q
      <4>1. \A r \in Seq(Peer), e \in Peer :
               /\ Append(r, e) \in Seq(Peer) /\ Len(Append(r, e)) = Len(r) + 1
               /\ \A i \in 1..Len(r) : Append(r, e)[i] = r[i]
               /\ Append(r, e)[Len(r) + 1] = e
        BY AppendProperties
      <4> QED
        BY <2>1, <4>1, Zenon
    <3> HIDE DEF a
    <3> QED
      BY <2>1, <3>1
  <2> HIDE DEF a
  <2>4. \A i \in 1..2 : a[i] = b[i]
    <3>1. \A i \in 1..2 : i = 1 \/ i = 2
      OBVIOUS
    <3> QED
      BY <2>1, <2>2, <2>3, <3>1, Zenon
  <2>5. a = b
    BY <2>2, <2>3, <2>4, SameElements
  <2> QED
    BY <2>5 DEF a, b, s
<1>3. Len(<<p, q>>) = 2 /\ Len(<<p>>) = 1
  OBVIOUS
<1> QED
  BY <1>1, <1>2, <1>3

\* The eighth phase.
LEMMA ResetVisits ==
    ASSUME NEW u, Calm(u),
           NEW y, y = Cleared(u), NEW x, x = Rebooted(y), ~LosesOnReboot, u.live.is = "whole"
    PROVE  /\ SameEpoch => y.epoch = u.epoch
           /\ ~SameEpoch => y.epoch = u.epoch + 1
           /\ KeepsOnReset => y.bonds = u.bonds
           /\ ~KeepsOnReset => y.bonds = <<>>
           /\ x.boot = "restored"
           /\ ResetInMemory => x.bonds = u.live.bonds
           /\ ~ResetInMemory => x.bonds = y.bonds
<1>1. Whole(u) /\ Calm(y)
  BY CalmClear, Zenon DEF Calm
<1>2. /\ SameEpoch => y.epoch = u.epoch
      /\ ~SameEpoch => y.epoch = u.epoch + 1
      /\ KeepsOnReset => y.bonds = u.bonds
      /\ ~KeepsOnReset => y.bonds = <<>>
      /\ ResetInMemory => y.live = u.live
      /\ ~ResetInMemory => y.live.is = "whole" /\ y.live.bonds = y.bonds
  <2> DEFINE z == Cleared(u)
  <2>1. /\ SameEpoch => z.epoch = u.epoch
        /\ ~SameEpoch => z.epoch = u.epoch + 1
    BY <1>1, ClearedFacts, Zenon
  <2>2. /\ KeepsOnReset => z.bonds = u.bonds
        /\ ~KeepsOnReset => z.bonds = <<>>
    BY <1>1, ClearedFacts, Zenon
  <2>3. /\ ResetInMemory => z.live = u.live
        /\ ~ResetInMemory => z.live.is = "whole" /\ z.live.bonds = z.bonds
    BY <1>1, ClearedFacts, Zenon
  <2> QED
    BY <2>1, <2>2, <2>3, Zenon
<1>3. y.live.is = "whole"
  BY <1>2, Zenon
<1>4. Whole(y) /\ y.inject # "READ" /\ y.live # Torn
  BY <1>1, <1>3, Files, Zenon DEF Calm
<1>5. x.boot = "restored" /\ x.bonds = y.live.bonds
  BY <1>4, RebootedFacts, Zenon
<1> QED
  BY <1>2, <1>5, Zenon

\* The eighth phase keeps the invariant.
LEMMA ResetKept == BondInv /\ ResetsForGood => BondInv'
<1> SUFFICES ASSUME BondInv, ResetsForGood PROVE BondInv'
  OBVIOUS
<1> DEFINE y == Cleared(w)
           x == Rebooted(y)
           a == "epoch advances"
           b == "registry empty"
           c == "empty restored"
           p == y.epoch > 0
           q == Retained(y) = {}
           r == x.boot = "restored" /\ Retained(x) = {}
           checks == {<<a, p>>, <<b, q>>, <<c, r>>}
<1>1. Phase("reset", x, checks) /\ seen' = seen /\ bridge' = bridge /\ ~occupied
  BY Zenon DEF ResetsForGood
<1> HIDE DEF a, b, c, p, q, r
<1> DEFINE passes == p /\ q /\ r
<1>2. passes <=> \A z \in checks : z[2]
  OBVIOUS
<1> HIDE DEF checks, passes
<1>3. /\ at = 8 /\ at' = at + 1 /\ w' = x /\ faults' = faults
      /\ Calm(w) /\ seen \in File /\ Distinct(seen.bonds)
      /\ failed' = {} <=> failed = {} /\ passes
      /\ failed = {} => BondFound(at) /\ BondPlace(at, w, seen)
  BY <1>1, <1>2, BondAt, Zenon
<1>4. Calm(x)
  BY <1>3, CalmClear, CalmReboot, Zenon
<1>5. ASSUME failed = {}
      PROVE  /\ BondFound(8) /\ ~LosesOnReboot /\ w.live.is = "whole"
             /\ 9 \in ToSet(w.bonds) /\ 9 \in ToSet(w.live.bonds)
             /\ SameEpoch => w.epoch = 0
  <2>1. BondFound(8) /\ BondPlace(8, w, seen)
    BY <1>3, <1>5, Zenon
  <2> QED
    BY <2>1 DEF BondPlace, BondFound
<1>6. ASSUME failed = {}
      PROVE  /\ SameEpoch => y.epoch = w.epoch
             /\ ~SameEpoch => y.epoch = w.epoch + 1
             /\ KeepsOnReset => y.bonds = w.bonds
             /\ ~KeepsOnReset => y.bonds = <<>>
             /\ x.boot = "restored"
             /\ ResetInMemory => x.bonds = w.live.bonds
             /\ ~ResetInMemory => x.bonds = y.bonds
  BY <1>3, <1>5, <1>6, ResetVisits, Zenon
<1>7. w.epoch \in Nat
  BY <1>3, BondsFields DEF Calm, Whole
<1> HIDE DEF x, y
<1>8. ASSUME failed = {}, passes PROVE ~SameEpoch /\ ~KeepsOnReset /\ ~ResetInMemory
  <2>1. y.epoch > 0 /\ ToSet(y.bonds) = {} /\ ToSet(x.bonds) = {}
    BY <1>8, Zenon DEF passes, p, q, r, Retained
  <2>2. ~SameEpoch
    <3>1. SameEpoch => y.epoch = 0
      BY <1>5, <1>6, <1>8, Zenon
    <3> QED
      BY <2>1, <3>1
  <2>3. ~KeepsOnReset
    <3>1. KeepsOnReset => 9 \in ToSet(y.bonds)
      BY <1>5, <1>6, <1>8, Zenon
    <3> QED
      BY <2>1, <3>1
  <2>4. ~ResetInMemory
    <3>1. ResetInMemory => 9 \in ToSet(x.bonds)
      BY <1>5, <1>6, <1>8, Zenon
    <3> QED
      BY <2>1, <3>1
  <2> QED
    BY <2>2, <2>3, <2>4
<1>9. ASSUME failed = {}, ~SameEpoch, ~KeepsOnReset, ~ResetInMemory PROVE passes
  <2>1. y.epoch = w.epoch + 1 /\ y.bonds = <<>> /\ x.bonds = <<>> /\ x.boot = "restored"
    BY <1>6, <1>9, Zenon
  <2>2. y.epoch > 0
    <3>1. y.epoch = w.epoch + 1
      BY <2>1
    <3> QED
      BY <1>7, <3>1
  <2> QED
    BY <2>1, <2>2, EmptyBonds, Zenon DEF passes, p, q, r, Retained
<1>10. ASSUME failed = {}, passes PROVE BondFound(9) /\ BondPlace(9, x, seen)
  <2>1. ~SameEpoch /\ ~KeepsOnReset /\ ~ResetInMemory
    BY <1>8, <1>10, Zenon
  <2>2. BondFound(9)
    BY <1>5, <1>10, <2>1 DEF BondFound
  <2>3. BondPlace(9, x, seen)
    BY DEF BondPlace
  <2> QED
    BY <2>2, <2>3
<1>11. BondMoves(8, 9, x, seen, passes)
  BY <1>1, <1>3, <1>4, <1>9, <1>10, NoFaults, Zenon DEF BondMoves
<1>12. 8 \in 1..16 /\ 9 = 8 + 1 /\ 8 # 7
  OBVIOUS
<1> QED
  BY <1>1, <1>11, <1>12, QuietStep, Zenon

\* A status that cannot be read keeps the invariant: the check has failed.
LEMMA UnreadKept == BondInv /\ ResetUnread => BondInv'
<1> SUFFICES ASSUME BondInv, ResetUnread PROVE BondInv'
  OBVIOUS
<1> DEFINE x == Cleared(w)
           a == "status readable"
           checks == {<<a, FALSE>>}
<1>1. /\ Phase("reset", x, checks) /\ seen' = seen
      /\ occupied' = FALSE /\ hurried' = TRUE /\ early' = early
  BY Zenon DEF ResetUnread
<1> HIDE DEF a
<1> DEFINE passes == FALSE
<1>2. passes <=> \A z \in checks : z[2]
  OBVIOUS
<1> HIDE DEF checks
<1>3. /\ at = 8 /\ at' = at + 1 /\ w' = x /\ faults' = faults
      /\ Calm(w) /\ seen \in File /\ Distinct(seen.bonds)
      /\ failed' = {} <=> failed = {} /\ passes
      /\ failed = {} => BondFound(at) /\ BondPlace(at, w, seen)
  BY <1>1, <1>2, BondAt, Zenon
<1>4. Calm(x)
  BY <1>3, CalmClear, Zenon
<1> HIDE DEF x
<1>5. BondMoves(8, 9, x, seen, passes)
  BY <1>1, <1>3, <1>4, Zenon DEF BondMoves
<1>6. 8 \in 1..16 /\ 9 = 8 + 1
  OBVIOUS
<1>7. BridgeInv'
  <2>1. early \in BOOLEAN
    BY Zenon DEF BondInv, BridgeInv
  <2>2. failed' # {}
    BY <1>3
  <2> QED
    BY <1>1, <2>1, <2>2 DEF BridgeInv
<1> QED
  BY <1>1, <1>5, <1>6, <1>7, BondStep, Zenon

-----------------------------------------------------------------------------
(* persistence_faults's phases.                                              *)

\* What c has in common with x, of which a connection made it.
Connects(c, x) ==
    Whole(c) /\ Frame(c, x) /\ (c.dirty <=> x.dirty \/ c.bonds # x.bonds \/ WritesOnReconnect)

\* The connection of a peer, as the injured writes need it.
LEMMA ConnectsFacts ==
    ASSUME NEW x, Whole(x), NEW p \in Peer, NEW c, c = Connected(x, p, FALSE)
    PROVE  Connects(c, x)
<1> DEFINE d == Connected(x, p, FALSE)
<1>1. Whole(d) /\ Frame(d, x) /\ (d.dirty <=> x.dirty \/ d.bonds # x.bonds \/ WritesOnReconnect)
  BY ConnectedFacts, Zenon
<1> HIDE DEF d
<1>2. c = d
  BY Zenon DEF d
<1> QED
  BY <1>1, <1>2, Zenon DEF Connects

\* A peer that is not known connects, and there is room for it.
LEMMA NewConnects ==
    ASSUME NEW x, Whole(x), NEW p \in Peer, p \notin Retained(x), Len(x.bonds) # 5
    PROVE  Connected(x, p, FALSE).bonds = Append(RemoveFirst(x.bonds, p), p)
<1> DEFINE c == Connected(x, p, FALSE)
           known  == p \in Retained(x)
           evicts == (~known /\ Len(x.bonds) = 5 /\ ~Unbounded) \/ (FALSE /\ EvictsOnReplace)
           moves  == ~known \/ FALSE \/ ~ForgetsTouch
           kept   == IF evicts THEN Tail(x.bonds) ELSE x.bonds
<1>1. moves => c.bonds = Append(RemoveFirst(kept, p), p)
  BY ConnectedFacts
<1>2. kept = x.bonds /\ moves
  OBVIOUS
<1> HIDE DEF kept, moves, c
<1> QED
  BY <1>1, <1>2, Zenon DEF c

\* A peer and then a second one, whose write fails one way or another: c is the
\* watch when the link of the second one goes down.
Fails(v, p, q, old, z, c, y) ==
    /\ old.bonds = <<p>> /\ old.live.is = "whole" /\ old.live.bonds = <<p>>
    /\ old.next = v.next /\ old.failures = v.failures
    /\ Whole(c) /\ c.bonds = <<p, q>> /\ Frame(c, z)
    /\ y.live = Spoilt(c) /\ y.next = Staged(c)
    /\ FailureUncounted => y.failures = v.failures
    /\ ~FailureUncounted => y.failures = v.failures + 1
    /\ Whole(y) /\ Steady(y, c)

\* The second visit, whose write is injured.
LEMMA CutVisits ==
    ASSUME NEW v, Open(v), v.bonds = <<>>, NEW p \in Peer, NEW q \in Peer, p # q,
           NEW old, old = Visit(v, p, FALSE),
           NEW z, Whole(z), z.inject # "READ", Injured(z),
           z.bonds = old.bonds, z.live = old.live, z.next = old.next, z.enabled = old.enabled,
           z.failures = old.failures,
           NEW c, c = Connected(z, q, FALSE), NEW y, y = Settled(c)
    PROVE  Fails(v, p, q, old, z, c, y)
<1>1. p \notin ToSet(v.bonds) /\ Len(v.bonds) # 5 /\ Append(<<>>, p) = <<p>>
  BY EmptyBonds, OneBond
<1>2. /\ Open(old) /\ old.bonds = <<p>> /\ old.live.is = "whole" /\ old.live.bonds = <<p>>
      /\ old.next = v.next /\ old.failures = v.failures
  BY <1>1, NewVisit, Zenon
<1>3. z.bonds = <<p>> /\ z.enabled
  BY <1>2, Zenon DEF Open
<1>4. q \notin ToSet(z.bonds) /\ Len(z.bonds) = 1
  <2>1. ToSet(<<p>>) = {p} /\ Len(<<p>>) = 1
    BY OneBond
  <2>2. ToSet(z.bonds) = {p} /\ Len(z.bonds) = 1
    BY <1>3, <2>1, Zenon
  <2> QED
    BY <2>2
<1>5. Whole(c) /\ Frame(c, z) /\ (c.dirty <=> z.dirty \/ c.bonds # z.bonds \/ WritesOnReconnect)
  <2>1. Connects(c, z)
    BY ConnectsFacts, Zenon
  <2> QED
    BY <2>1, Zenon DEF Connects
<1>6. c.bonds = <<p, q>>
  <2> DEFINE s == z.bonds
  <2>1. s \in Seq(Peer) /\ Distinct(s)
    BY BondsFields DEF Whole
  <2>2. c.bonds = Append(RemoveFirst(s, q), q)
    <3>1. q \notin Retained(z) /\ Len(z.bonds) # 5
      <4>1. 1 # 5
        OBVIOUS
      <4> QED
        BY <1>4, <4>1, Zenon DEF Retained
    <3> QED
      BY <3>1, NewConnects, Zenon
  <2>3. RemoveFirst(s, q) = s
    BY <1>4, <2>1, RemoveFirstFacts
  <2> HIDE DEF s
  <2>4. c.bonds = Append(s, q) /\ s = <<p>>
    BY <1>3, <2>2, <2>3, Zenon DEF s
  <2>5. Append(<<p>>, q) = <<p, q>>
    BY TwoBonds
  <2> QED
    BY <2>4, <2>5, Zenon
<1>7. <<p, q>> # <<p>>
  BY TwoBonds
<1>8. c.dirty
  BY <1>3, <1>5, <1>6, <1>7, Zenon
<1>9. ~Closed(c) /\ Injured(c)
  BY <1>3, <1>5, Zenon DEF Closed, Injured, Frame
<1>10. /\ Whole(y) /\ Steady(y, c) /\ y.live = Spoilt(c) /\ y.next = Staged(c)
       /\ FailureUncounted => y.failures = c.failures
       /\ ~FailureUncounted => y.failures = c.failures + 1
  <2>1. \A d : d = Settled(c) =>
          /\ Whole(d) /\ Steady(d, c) /\ d.live = Spoilt(c) /\ d.next = Staged(c)
          /\ FailureUncounted => d.failures = c.failures
          /\ ~FailureUncounted => d.failures = c.failures + 1
    BY <1>5, <1>8, <1>9, SettledFacts, Zenon
  <2> QED
    BY <2>1, Zenon
<1>11. c.failures = v.failures
  BY <1>2, <1>5, Zenon DEF Frame
<1> QED
  BY <1>2, <1>5, <1>6, <1>10, <1>11, Zenon DEF Fails

\* What becomes of the snapshot, and what is staged, for the failures the scenario injects.
LEMMA SpoiltFacts ==
    ASSUME NEW c
    PROVE  /\ c.inject = "WRITE" /\ FailureReplaces /\ c.cut = "NONE" => Spoilt(c) = Image(c)
           /\ c.inject = "WRITE" /\ ~FailureReplaces /\ c.cut = "NONE" => Spoilt(c) = c.live
           /\ c.inject = "NONE" /\ c.cut = "AFTER_PARTIAL_STAGED_WRITE" /\ TearsLive => Spoilt(c) = Torn
           /\ c.inject = "NONE" /\ c.cut = "AFTER_PARTIAL_STAGED_WRITE" /\ ~TearsLive =>
                 Spoilt(c) = c.live
           /\ c.inject = "NONE" /\ c.cut = "BEFORE_REPLACE" => Spoilt(c) = c.live
           /\ c.inject = "NONE" /\ c.cut = "AFTER_STAGED_WRITE" => Spoilt(c) = c.live
<1> DEFINE a == c.inject = "WRITE" /\ FailureReplaces
           b == c.cut = "AFTER_PARTIAL_STAGED_WRITE" /\ TearsLive
           i == Image(c)
           l == c.live
<1>1. Spoilt(c) = CASE a -> i [] b -> Torn [] OTHER -> l
  BY Zenon DEF Spoilt
<1>2. /\ c.inject = "WRITE" /\ FailureReplaces /\ c.cut = "NONE" => a /\ ~b
      /\ c.inject = "WRITE" /\ ~FailureReplaces /\ c.cut = "NONE" => ~a /\ ~b
      /\ c.inject = "NONE" /\ c.cut = "AFTER_PARTIAL_STAGED_WRITE" /\ TearsLive => ~a /\ b
      /\ c.inject = "NONE" /\ c.cut = "AFTER_PARTIAL_STAGED_WRITE" /\ ~TearsLive => ~a /\ ~b
      /\ c.inject = "NONE" /\ c.cut = "BEFORE_REPLACE" => ~a /\ ~b
      /\ c.inject = "NONE" /\ c.cut = "AFTER_STAGED_WRITE" => ~a /\ ~b
  BY Zenon
<1> HIDE DEF a, b, i, l
<1>3. /\ a /\ ~b => Spoilt(c) = i
      /\ ~a /\ b => Spoilt(c) = Torn
      /\ ~a /\ ~b => Spoilt(c) = l
  BY <1>1
<1> QED
  BY <1>2, <1>3, Zenon DEF i, l

\* What each power cut leaves in the staged file.
LEMMA StagedFacts ==
    ASSUME NEW c
    PROVE  /\ c.cut = "NONE" => Staged(c) = c.next
           /\ c.cut = "BEFORE_REPLACE" /\ InventsStaged => Staged(c) = Torn
           /\ c.cut = "BEFORE_REPLACE" /\ ~InventsStaged => Staged(c) = c.next
           /\ c.cut = "AFTER_PARTIAL_STAGED_WRITE" => Staged(c) = Torn
           /\ c.cut = "AFTER_STAGED_WRITE" /\ HalfStaged => Staged(c) = Torn
           /\ c.cut = "AFTER_STAGED_WRITE" /\ ~HalfStaged => Staged(c) = Image(c)
<1> DEFINE a == c.cut = "BEFORE_REPLACE"
           b == c.cut = "AFTER_PARTIAL_STAGED_WRITE"
           d == c.cut = "AFTER_STAGED_WRITE"
           e == c.cut = "NONE"
           u == IF InventsStaged THEN Torn ELSE c.next
           v == IF HalfStaged THEN Torn ELSE Image(c)
           l == c.next
<1>1. Staged(c) = CASE a -> u [] b -> Torn [] d -> v [] e -> l
  BY Zenon DEF Staged
<1>2. /\ a => ~b /\ ~d /\ ~e
      /\ b => ~a /\ ~d /\ ~e
      /\ d => ~a /\ ~b /\ ~e
      /\ e => ~a /\ ~b /\ ~d
  BY Zenon
<1>3. /\ InventsStaged => u = Torn
      /\ ~InventsStaged => u = c.next
      /\ HalfStaged => v = Torn
      /\ ~HalfStaged => v = Image(c)
  BY Zenon
<1> HIDE DEF a, b, d, e, u, v, l
<1>4. (a => Staged(c) = u) /\ (b => Staged(c) = Torn) /\ (d => Staged(c) = v) /\ (e => Staged(c) = l)
  BY <1>1, <1>2
<1> QED
  BY <1>3, <1>4, Zenon DEF a, b, d, e, l

\* The ninth phase.
LEMMA FreshCleared ==
    LET v == Cleared(Fresh) IN Open(v) /\ v.bonds = <<>> /\ v.next = None /\ v.failures = 0
<1> DEFINE v == Cleared(Fresh)
<1>1. Whole(Fresh) /\ Calm(Fresh) /\ Fresh.enabled
  BY FreshFacts DEF Open, Calm
<1>2. v.bonds = Fresh.bonds \/ v.bonds = <<>>
  BY <1>1, ClearedFacts, Zenon
<1>3. v.next = Fresh.next /\ v.failures = Fresh.failures
  BY <1>1, ClearedFacts, Zenon
<1>4. v.enabled
  BY <1>1, ClearedFacts, Zenon
<1>5. Calm(v)
  BY <1>1, CalmClear, Zenon
<1> QED
  BY <1>2, <1>3, <1>4, <1>5, FreshFacts, Zenon DEF Open

\* The watch after the write failure, with and without the faults it is there for.
LEMMA WriteFailure ==
    ASSUME ~LosesOnReboot, NEW old, old = Visit(Cleared(Fresh), 1, FALSE),
           NEW y, y = Visit(Inject(old, "WRITE"), 2, FALSE),
           NEW x, x = Rebooted(Inject(y, "NONE"))
    PROVE  /\ FailureUncounted => y.failures = 0
           /\ ~FailureUncounted => y.failures = 1
           /\ FailureReplaces => y.live # old.live
           /\ ~FailureReplaces => y.live = old.live /\ x.bonds = <<1>>
           /\ x.next = None
<1> DEFINE v == Cleared(Fresh)
           z == Inject(old, "WRITE")
           c == Connected(z, 2, FALSE)
           n == Inject(y, "NONE")
<1>1. Open(v) /\ v.bonds = <<>> /\ v.next = None /\ v.failures = 0 /\ old = Visit(v, 1, FALSE)
  BY FreshCleared, Zenon
<1>2. 1 \in Peer /\ 2 \in Peer /\ 1 # 2
  BY DEF Peer
<1> HIDE DEF v
<1>3. Open(old)
  <2>1. 1 \notin ToSet(v.bonds) /\ Len(v.bonds) # 5
    BY <1>1, EmptyBonds
  <2> QED
    BY <1>1, <1>2, <2>1, NewVisit, Zenon
<1>4. "WRITE" \in Injecting /\ "NONE" \in Injecting
  BY DEF Injecting
<1>5. /\ Whole(z) /\ z.inject = "WRITE" /\ z.cut = "NONE"
      /\ z.bonds = old.bonds /\ z.live = old.live /\ z.next = old.next /\ z.enabled = old.enabled
      /\ z.failures = old.failures
  <2>1. Whole(old) /\ old.cut = "NONE"
    BY <1>3 DEF Open, Calm
  <2> QED
    BY <1>4, <2>1, InjectFacts, Zenon
<1>6. y = Settled(c)
  BY Zenon DEF Visit
<1> HIDE DEF z
<1>7. z.inject # "READ" /\ Injured(z)
  BY <1>5, Zenon DEF Injured
<1>8. c = Connected(z, 2, FALSE)
  OBVIOUS
<1> HIDE DEF c
<1>9. /\ old.bonds = <<1>> /\ old.live.is = "whole" /\ old.live.bonds = <<1>>
      /\ old.next = v.next /\ old.failures = v.failures
      /\ Whole(c) /\ c.bonds = <<1, 2>> /\ Frame(c, z)
      /\ y.live = Spoilt(c) /\ y.next = Staged(c)
      /\ FailureUncounted => y.failures = v.failures
      /\ ~FailureUncounted => y.failures = v.failures + 1
      /\ Whole(y) /\ Steady(y, c)
  <2>1. Fails(v, 1, 2, old, z, c, y)
    BY <1>1, <1>2, <1>5, <1>6, <1>7, <1>8, CutVisits, Zenon
  <2> QED
    BY <2>1, Zenon DEF Fails
<1>10. c.inject = "WRITE" /\ c.cut = "NONE" /\ c.live = old.live /\ c.next = None
  BY <1>1, <1>5, <1>9, Zenon DEF Frame
<1>11. /\ FailureReplaces => y.live = Image(c)
       /\ ~FailureReplaces => y.live = old.live
       /\ y.next = None
  BY <1>9, <1>10, SpoiltFacts, StagedFacts, Zenon
<1>12. FailureReplaces => y.live # old.live
  <2>1. Image(c).bonds = <<1, 2>>
    BY <1>9, ImageFacts, Zenon
  <2>2. <<1, 2>> # <<1>>
    BY <1>2, TwoBonds
  <2> QED
    BY <1>9, <1>11, <2>1, <2>2, Zenon
<1>13. Whole(n) /\ n.inject = "NONE" /\ n.live = y.live /\ n.next = y.next
  BY <1>4, <1>9, InjectFacts, Zenon
<1> HIDE DEF n
<1>14. x.next = None
  BY <1>11, <1>13, RebootedFacts, Zenon DEF Carried, n
<1>15. ASSUME ~FailureReplaces PROVE x.bonds = <<1>>
  <2>1. n.live # Torn /\ n.inject # "READ" /\ n.live.bonds = <<1>>
    BY <1>9, <1>11, <1>13, <1>15, Files, Zenon
  <2>2. x = Rebooted(n)
    BY DEF n
  <2>3. Rebooted(n).bonds = n.live.bonds
    BY <1>13, <2>1, RebootedFacts, Zenon
  <2> QED
    BY <2>1, <2>2, <2>3, Zenon
<1>16. (FailureUncounted => y.failures = 0) /\ (~FailureUncounted => y.failures = 1)
  <2>1. v.failures = 0 /\ 0 + 1 = 1
    BY <1>1
  <2> QED
    BY <1>9, <2>1, Zenon
<1> QED
  BY <1>11, <1>12, <1>14, <1>15, <1>16, Zenon

\* The ninth phase keeps the invariant.
LEMMA WriteFailureKept == BondInv /\ SurvivesWriteFailure => BondInv'
<1> SUFFICES ASSUME BondInv, SurvivesWriteFailure PROVE BondInv'
  OBVIOUS
<1> DEFINE old == Visit(Cleared(Fresh), 1, FALSE)
           y == Visit(Inject(old, "WRITE"), 2, FALSE)
           x == Rebooted(Inject(y, "NONE"))
           a == "failure counted"
           b == "live preserved"
           c == "old state restored"
           p == y.failures >= 1
           q == y.live = old.live
           r == Has(x, 1) /\ ~Has(x, 2)
           checks == {<<a, p>>, <<b, q>>, <<c, r>>}
<1>1. Phase("write failure", x, checks) /\ seen' = seen /\ bridge' = bridge
  BY Zenon DEF SurvivesWriteFailure
<1> HIDE DEF a, b, c, p, q, r
<1> DEFINE passes == p /\ q /\ r
<1>2. passes <=> \A z \in checks : z[2]
  OBVIOUS
<1> HIDE DEF checks, passes
<1>3. /\ at = 9 /\ at' = at + 1 /\ w' = x /\ faults' = faults
      /\ Calm(w) /\ seen \in File /\ Distinct(seen.bonds)
      /\ failed' = {} <=> failed = {} /\ passes
      /\ failed = {} => BondFound(at) /\ BondPlace(at, w, seen)
  BY <1>1, <1>2, BondAt, Zenon
<1>4. Calm(x)
  <2>1. 1 \in Peer /\ 2 \in Peer
    BY DEF Peer
  <2>2. "WRITE" \in Injecting /\ "NONE" \in Injecting
    BY DEF Injecting
  <2>3. Calm(old)
    <3>1. Calm(Cleared(Fresh))
      BY FreshCleared, Zenon DEF Open
    <3> QED
      BY <2>1, <3>1, CalmVisit
  <2> DEFINE z == Inject(old, "WRITE")
             n == Inject(y, "NONE")
  <2>4. Whole(z) /\ z.cut = "NONE"
    BY <2>2, <2>3, InjectFacts, Zenon DEF Calm
  <2> HIDE DEF z
  <2>5. Whole(Visit(z, 2, FALSE)) /\ Visit(z, 2, FALSE).cut = z.cut
    BY <2>1, <2>4, VisitTyped
  <2>6. Whole(y) /\ y.cut = "NONE"
    BY <2>4, <2>5, Zenon DEF z
  <2> HIDE DEF y
  <2>7. Whole(n) /\ n.cut = "NONE" /\ n.inject = "NONE"
    BY <2>2, <2>6, InjectFacts, Zenon
  <2>8. Calm(n)
    BY <2>7, Zenon DEF Calm
  <2> QED
    BY <2>8, CalmReboot, Zenon
<1>5. ASSUME failed = {} PROVE BondFound(9) /\ ~LosesOnReboot
  <2>1. BondFound(9)
    BY <1>3, <1>5, Zenon
  <2> QED
    BY <2>1 DEF BondFound
<1>6. ASSUME failed = {}
      PROVE  /\ FailureUncounted => y.failures = 0
             /\ ~FailureUncounted => y.failures = 1
             /\ FailureReplaces => y.live # old.live
             /\ ~FailureReplaces => y.live = old.live /\ x.bonds = <<1>>
             /\ x.next = None
  BY <1>5, <1>6, WriteFailure, Zenon
<1> HIDE DEF x, y, old
<1>7. ASSUME failed = {}, passes PROVE ~FailureUncounted /\ ~FailureReplaces
  <2>1. y.failures >= 1 /\ y.live = old.live
    BY <1>7, Zenon DEF passes, p, q
  <2>2. ~FailureUncounted
    <3>1. FailureUncounted => y.failures = 0
      BY <1>6, <1>7, Zenon
    <3> QED
      BY <2>1, <3>1
  <2> QED
    BY <1>6, <1>7, <2>1, <2>2, Zenon
<1>8. ASSUME failed = {}, ~FailureUncounted, ~FailureReplaces PROVE passes
  <2>1. y.failures = 1 /\ y.live = old.live /\ x.bonds = <<1>>
    BY <1>6, <1>8, Zenon
  <2>2. y.failures >= 1
    <3>1. y.failures = 1
      BY <2>1
    <3> QED
      BY <3>1
  <2>3. 1 \in ToSet(<<1>>) /\ 2 \notin ToSet(<<1>>)
    BY OneBond DEF Peer
  <2> QED
    BY <2>1, <2>2, <2>3, Zenon DEF passes, p, q, r, Has, Retained
<1>9. ASSUME failed = {}, passes PROVE BondFound(10) /\ BondPlace(10, x, seen)
  <2>1. ~FailureUncounted /\ ~FailureReplaces /\ x.next = None
    BY <1>6, <1>7, <1>9, Zenon
  <2>2. BondFound(10)
    BY <1>5, <1>9, <2>1 DEF BondFound
  <2>3. BondPlace(10, x, seen)
    BY <2>1 DEF BondPlace
  <2> QED
    BY <2>2, <2>3
<1>10. BondMoves(9, 10, x, seen, passes)
  BY <1>1, <1>3, <1>4, <1>8, <1>9, NoFaults, Zenon DEF BondMoves
<1>11. 9 \in 1..16 /\ 10 = 9 + 1 /\ 9 # 7 /\ 9 # 8
  OBVIOUS
<1> QED
  BY <1>1, <1>10, <1>11, QuietStep, Zenon

\* The tenth phase.
LEMMA ReadFailureKept == BondInv /\ FailsClosed => BondInv'
<1> SUFFICES ASSUME BondInv, FailsClosed PROVE BondInv'
  OBVIOUS
<1> DEFINE z == Inject(w, "READ")
           x == Rebooted(z)
           n == Inject(x, "NONE")
           a == "restore failed"
           b == "writes disabled"
           p == x.boot = "restore_failed"
           q == ~x.enabled
           checks == {<<a, p>>, <<b, q>>}
<1>1. Phase("read failure", n, checks) /\ seen' = seen /\ bridge' = bridge
  BY Zenon DEF FailsClosed
<1> HIDE DEF a, b, p, q
<1> DEFINE passes == p /\ q
<1>2. passes <=> \A c \in checks : c[2]
  OBVIOUS
<1> HIDE DEF checks, passes
<1>3. /\ at = 10 /\ at' = at + 1 /\ w' = n /\ faults' = faults
      /\ Calm(w) /\ seen \in File /\ Distinct(seen.bonds)
      /\ failed' = {} <=> failed = {} /\ passes
      /\ failed = {} => BondFound(at) /\ BondPlace(at, w, seen)
  BY <1>1, <1>2, BondAt, Zenon
<1>4. "READ" \in Injecting /\ "NONE" \in Injecting
  BY DEF Injecting
<1>5. Whole(z) /\ z.inject = "READ" /\ z.cut = "NONE" /\ z.next = w.next
  BY <1>3, <1>4, InjectFacts, Zenon DEF Calm
<1> HIDE DEF z
<1>6. /\ Whole(x) /\ x.cut = "NONE" /\ x.next = w.next /\ x.boot = "restore_failed"
      /\ x.enabled <=> ReadsOn
  <2>1. Whole(x) /\ Carried(x, z)
    BY <1>5, RebootedFacts, Zenon
  <2>2. x.boot = "restore_failed" /\ (x.enabled <=> ReadsOn)
    BY <1>5, RebootedFacts, Zenon
  <2> QED
    BY <1>5, <2>1, <2>2, Zenon DEF Carried
<1> HIDE DEF x
<1>7. /\ Whole(n) /\ n.cut = "NONE" /\ n.inject = "NONE" /\ n.next = w.next
      /\ n.enabled = x.enabled
  BY <1>4, <1>6, InjectFacts, Zenon
<1>8. Calm(n)
  BY <1>7, Zenon DEF Calm
<1> HIDE DEF n
<1>9. passes <=> ~ReadsOn
  BY <1>6, Zenon DEF passes, p, q
<1>10. ASSUME failed = {}, passes PROVE BondFound(11) /\ BondPlace(11, n, seen)
  <2>1. BondFound(10) /\ BondPlace(10, w, seen)
    BY <1>3, <1>10, Zenon
  <2>2. ~ReadsOn
    BY <1>9, <1>10
  <2>3. BondFound(11)
    BY <2>1, <2>2 DEF BondFound
  <2>4. w.next = None
    BY <2>1 DEF BondPlace
  <2>5. ~n.enabled /\ n.next = None
    BY <1>6, <1>7, <2>2, <2>4, Zenon
  <2> QED
    BY <2>3, <2>5 DEF BondPlace
<1>11. BondMoves(10, 11, n, seen, passes)
  BY <1>1, <1>3, <1>8, <1>9, <1>10, NoFaults, Zenon DEF BondMoves
<1>12. 10 \in 1..16 /\ 11 = 10 + 1 /\ 10 # 7 /\ 10 # 8
  OBVIOUS
<1> QED
  BY <1>1, <1>11, <1>12, QuietStep, Zenon

\* What the check of the staged file asks at each power cut.
LEMMA ExpectedFacts ==
    ASSUME NEW y
    PROVE  /\ StagedAsExpected("BEFORE_REPLACE", y) <=> y.next = None
           /\ StagedAsExpected("AFTER_PARTIAL_STAGED_WRITE", y) <=> y.next = Torn
           /\ StagedAsExpected("AFTER_STAGED_WRITE", y) <=> y.next # None
  BY DEF StagedAsExpected

\* Whatever happens at a power cut, the watch stays well formed.
LEMMA CalmPowerCut ==
    ASSUME NEW u, Calm(u), NEW point \in CutPoint,
           NEW old, old = Visit(Cleared(u), 10, FALSE),
           NEW y, y = Visit(Cut(old, point), 11, FALSE),
           NEW x, x = Rebooted(Cut(y, "NONE"))
    PROVE  Calm(x) /\ y.next \in File /\ Distinct(y.next.bonds)
<1> DEFINE z == Cut(old, point)
           n == Cut(y, "NONE")
<1>1. 10 \in Peer /\ 11 \in Peer
  BY DEF Peer
<1>2. "NONE" \in CutPoint
  BY DEF CutPoint
<1>3. Calm(old)
  BY <1>1, CalmClear, CalmVisit, Zenon
<1>4. Whole(z) /\ z.inject = "NONE"
  BY <1>3, ArmedFacts, Zenon DEF Calm
<1> HIDE DEF z
<1>5. Whole(y) /\ y.inject = "NONE"
  <2>1. Whole(Visit(z, 11, FALSE)) /\ Visit(z, 11, FALSE).inject = z.inject
    BY <1>1, <1>4, VisitTyped
  <2> QED
    BY <1>4, <2>1, Zenon DEF z
<1>6. Whole(n) /\ n.cut = "NONE" /\ n.inject = "NONE"
  BY <1>2, <1>5, ArmedFacts, Zenon
<1> HIDE DEF n
<1>7. Calm(n)
  BY <1>6, Zenon DEF Calm
<1>8. Calm(x)
  BY <1>7, CalmReboot, Zenon DEF n
<1>9. y.next \in File /\ Distinct(y.next.bonds)
  BY <1>5, BondsFields DEF Whole
<1> QED
  BY <1>8, <1>9

\* The first peer of all.
LEMMA FirstOpen ==
    ASSUME NEW v, Open(v), v.bonds = <<>>, NEW p \in Peer, NEW old, old = Visit(v, p, FALSE)
    PROVE  Open(old)
<1>1. p \notin ToSet(v.bonds) /\ Len(v.bonds) # 5
  BY EmptyBonds
<1> QED
  BY <1>1, NewVisit, Zenon

\* One failure more is at least one.
LEMMA OneMore ==
    ASSUME NEW n \in Nat, NEW m, m = n + 1
    PROVE  m >= 1
  OBVIOUS

\* A watch that can write: what a power cut leaves of the two files.
CutAs(u, point, old, y, x) ==
    /\ y.failures >= 1
    /\ point = "BEFORE_REPLACE" =>
          /\ y.live = old.live
          /\ InventsStaged => y.next = Torn
          /\ ~InventsStaged => y.next = u.next
    /\ point = "AFTER_PARTIAL_STAGED_WRITE" =>
          /\ TearsLive => y.live # old.live
          /\ ~TearsLive => y.live = old.live
          /\ y.next = Torn
    /\ point = "AFTER_STAGED_WRITE" =>
          /\ y.live = old.live
          /\ HalfStaged => y.next = Torn
          /\ ~HalfStaged => y.next.is = "whole" /\ 11 \in ToSet(y.next.bonds)
    /\ y.live = old.live =>
          x.bonds = <<10>> /\ x.enabled /\ x.next = y.next

\* The watch after a power cut, with and without the faults it is there for.
LEMMA CutFound ==
    ASSUME NEW u, Calm(u), u.enabled \/ ~StaysClosed, ~KeepsOnReset, ~LosesOnReboot,
           ~FailureUncounted, NEW point \in CutPoint, point # "NONE",
           NEW old, old = Visit(Cleared(u), 10, FALSE),
           NEW y, y = Visit(Cut(old, point), 11, FALSE),
           NEW x, x = Rebooted(Cut(y, "NONE"))
    PROVE  CutAs(u, point, old, y, x)
<1> DEFINE v == Cleared(u)
           z == Cut(old, point)
           c == Connected(z, 11, FALSE)
           n == Cut(y, "NONE")
<1>1. Open(v) /\ v.bonds = <<>> /\ v.next = u.next /\ old = Visit(v, 10, FALSE)
  <2>1. Whole(u) /\ Calm(v)
    BY CalmClear, Zenon DEF Calm
  <2>2. v.bonds = <<>> /\ v.next = u.next
    BY <2>1, ClearedFacts, Zenon
  <2>3. v.enabled
    BY <2>1, ClearedFacts, Zenon
  <2> QED
    BY <2>1, <2>2, <2>3, Zenon DEF Open
<1>2. 10 \in Peer /\ 11 \in Peer /\ 10 # 11
  BY DEF Peer
<1>3. v.failures \in Nat
  BY <1>1, BondsFields DEF Open, Calm, Whole
<1> HIDE DEF v
<1>4. Open(old)
  BY <1>1, <1>2, FirstOpen, Zenon
<1>5. /\ Whole(z) /\ z.inject = "NONE" /\ z.cut = point
      /\ z.bonds = old.bonds /\ z.live = old.live /\ z.next = old.next /\ z.enabled = old.enabled
      /\ z.failures = old.failures
  <2>1. Whole(old) /\ old.inject = "NONE"
    BY <1>4 DEF Open, Calm
  <2> QED
    BY <2>1, ArmedFacts, Zenon
<1>6. y = Settled(c)
  BY Zenon DEF Visit
<1> HIDE DEF z
<1>7. z.inject # "READ" /\ Injured(z)
  BY <1>5, Zenon DEF Injured
<1>8. c = Connected(z, 11, FALSE)
  OBVIOUS
<1> HIDE DEF c
<1>9. /\ old.bonds = <<10>> /\ old.live.is = "whole" /\ old.live.bonds = <<10>>
      /\ old.next = v.next /\ old.failures = v.failures
      /\ Whole(c) /\ c.bonds = <<10, 11>> /\ Frame(c, z)
      /\ y.live = Spoilt(c) /\ y.next = Staged(c)
      /\ ~FailureUncounted => y.failures = v.failures + 1
      /\ Whole(y) /\ Steady(y, c)
  <2>1. Fails(v, 10, 11, old, z, c, y)
    BY <1>1, <1>2, <1>5, <1>6, <1>7, <1>8, CutVisits, Zenon
  <2> QED
    BY <2>1, Zenon DEF Fails
<1>10. c.inject = "NONE" /\ c.cut = point /\ c.live = old.live /\ c.next = u.next
  BY <1>1, <1>5, <1>9, Zenon DEF Frame
<1>11. y.failures >= 1
  BY <1>3, <1>9, OneMore, Zenon
<1>12. point = "BEFORE_REPLACE" =>
         /\ y.live = old.live
         /\ InventsStaged => y.next = Torn
         /\ ~InventsStaged => y.next = u.next
  BY <1>9, <1>10, SpoiltFacts, StagedFacts, Zenon
<1>13. old.live # Torn
  BY <1>9, Files, Zenon
<1>14. point = "AFTER_PARTIAL_STAGED_WRITE" =>
         /\ TearsLive => y.live # old.live
         /\ ~TearsLive => y.live = old.live
         /\ y.next = Torn
  BY <1>9, <1>10, <1>13, SpoiltFacts, StagedFacts, Zenon
<1>15. Image(c).is = "whole" /\ 11 \in ToSet(Image(c).bonds)
  <2>1. Image(c).is = "whole" /\ Image(c).bonds = c.bonds
    BY <1>9, ImageFacts, Zenon
  <2>2. ToSet(<<10, 11>>) = {10, 11}
    BY <1>2, TwoBonds
  <2>3. 11 \in ToSet(<<10, 11>>)
    BY <2>2
  <2> QED
    BY <1>9, <2>1, <2>3, Zenon
<1>16. point = "AFTER_STAGED_WRITE" =>
         /\ y.live = old.live
         /\ HalfStaged => y.next = Torn
         /\ ~HalfStaged => y.next.is = "whole" /\ 11 \in ToSet(y.next.bonds)
  BY <1>9, <1>10, <1>15, SpoiltFacts, StagedFacts, Zenon
<1>17. Whole(n) /\ n.inject = "NONE" /\ n.live = y.live /\ n.next = y.next
  <2>1. y.inject = "NONE"
    BY <1>9, <1>10, Zenon DEF Steady
  <2>2. "NONE" \in CutPoint
    BY DEF CutPoint
  <2> QED
    BY <1>9, <2>1, <2>2, ArmedFacts, Zenon
<1>18. x = Rebooted(n)
  OBVIOUS
<1> HIDE DEF n
<1>19. ASSUME y.live = old.live PROVE x.bonds = <<10>> /\ x.enabled /\ x.next = y.next
  <2>1. n.live # Torn /\ n.inject # "READ" /\ n.live.bonds = <<10>>
    BY <1>9, <1>13, <1>17, <1>19, Zenon
  <2>2. Rebooted(n).bonds = n.live.bonds /\ Rebooted(n).enabled /\ Carried(Rebooted(n), n)
    BY <1>17, <2>1, RebootedFacts, Zenon
  <2> QED
    BY <1>17, <1>18, <2>1, <2>2, Zenon DEF Carried
<1> QED
  BY <1>11, <1>12, <1>14, <1>16, <1>19, Zenon DEF CutAs

\* A watch that stays closed after a reset keeps nothing at all.
LEMMA ClosedCut ==
    ASSUME NEW u, Calm(u), ~u.enabled, StaysClosed, ~KeepsOnReset, ~ResetInMemory,
           ~LosesOnReboot, NEW point \in CutPoint,
           NEW old, old = Visit(Cleared(u), 10, FALSE),
           NEW y, y = Visit(Cut(old, point), 11, FALSE),
           NEW x, x = Rebooted(Cut(y, "NONE"))
    PROVE  x.bonds = <<>>
<1> DEFINE v == Cleared(u)
           c == Connected(v, 10, FALSE)
           z == Cut(old, point)
           d == Connected(z, 11, FALSE)
           n == Cut(y, "NONE")
<1>1. 10 \in Peer /\ 11 \in Peer
  BY DEF Peer
<1>2. /\ Whole(v) /\ v.boot = "initialized_empty" /\ v.inject = "NONE" /\ ~v.enabled
      /\ v.live.is = "whole" /\ v.live.bonds = <<>>
  <2>1. Whole(u) /\ Calm(v)
    BY CalmClear, Zenon DEF Calm
  <2>2. v.bonds = <<>> /\ v.live.is = "whole" /\ v.live.bonds = v.bonds
    BY <2>1, ClearedFacts, Zenon
  <2>3. v.boot = "initialized_empty" /\ ~v.enabled
    BY <2>1, ClearedFacts, Zenon
  <2> QED
    BY <2>1, <2>2, <2>3, Zenon DEF Calm
<1>3. old = Settled(c)
  BY Zenon DEF Visit
<1> HIDE DEF v
<1>4. Connects(c, v)
  BY <1>1, <1>2, ConnectsFacts, Zenon
<1> HIDE DEF c
<1>5. Whole(c) /\ Closed(c)
  BY <1>2, <1>4, Zenon DEF Connects, Frame, Closed
<1>6. old = c
  BY <1>3, <1>5, SettledFacts, Zenon
<1>7. /\ Whole(old) /\ old.boot = "initialized_empty" /\ old.inject = "NONE" /\ ~old.enabled
      /\ old.live.is = "whole" /\ old.live.bonds = <<>>
  BY <1>2, <1>4, <1>6, Zenon DEF Connects, Frame
<1>8. /\ Whole(z) /\ z.boot = "initialized_empty" /\ z.inject = "NONE" /\ ~z.enabled
      /\ z.live.is = "whole" /\ z.live.bonds = <<>>
  BY <1>7, ArmedFacts, Zenon
<1>9. y = Settled(d)
  BY Zenon DEF Visit
<1> HIDE DEF z
<1>10. Connects(d, z)
  BY <1>1, <1>8, ConnectsFacts, Zenon
<1> HIDE DEF d
<1>11. Whole(d) /\ Closed(d)
  BY <1>8, <1>10, Zenon DEF Connects, Frame, Closed
<1>12. y = d
  BY <1>9, <1>11, SettledFacts, Zenon
<1>13. Whole(y) /\ y.inject = "NONE" /\ y.live.is = "whole" /\ y.live.bonds = <<>>
  BY <1>8, <1>10, <1>12, Zenon DEF Connects, Frame
<1>14. Whole(n) /\ n.inject = "NONE" /\ n.live.is = "whole" /\ n.live.bonds = <<>>
  <2>1. "NONE" \in CutPoint
    BY DEF CutPoint
  <2> QED
    BY <1>13, <2>1, ArmedFacts, Zenon
<1>15. x = Rebooted(n)
  OBVIOUS
<1> HIDE DEF n
<1>16. n.live # Torn /\ n.inject # "READ"
  BY <1>14, Files, Zenon
<1>17. Rebooted(n).bonds = n.live.bonds
  BY <1>14, <1>16, RebootedFacts, Zenon
<1> QED
  BY <1>14, <1>15, <1>17, Zenon

\* The eleventh phase.
LEMMA BeforeKept == BondInv /\ PowerCut("BEFORE_REPLACE") => BondInv'
<1> SUFFICES ASSUME BondInv, PowerCut("BEFORE_REPLACE") PROVE BondInv'
  OBVIOUS
<1> DEFINE point == "BEFORE_REPLACE"
           old == Visit(Cleared(w), 10, FALSE)
           y == Visit(Cut(old, point), 11, FALSE)
           x == Rebooted(Cut(y, "NONE"))
           s == y.next
           a == "cut counted"
           b == "live exact"
           c == "staged"
           d == "old snapshot restored"
           p == y.failures >= 1
           q == y.live = old.live
           r == StagedAsExpected(point, y)
           t == Has(x, 10) /\ ~Has(x, 11)
           checks == {<<a, p>>, <<b, q>>, <<c, r>>, <<d, t>>}
<1>1. Phase(point, x, checks) /\ seen' = s /\ bridge' = bridge
  BY Zenon DEF PowerCut
<1> HIDE DEF a, b, c, d, p, q, r, t
<1> DEFINE passes == p /\ q /\ r /\ t
<1>2. passes <=> \A z \in checks : z[2]
  OBVIOUS
<1> HIDE DEF checks, passes
<1>3. /\ at = 11 /\ at' = at + 1 /\ w' = x /\ faults' = faults
      /\ Calm(w)
      /\ failed' = {} <=> failed = {} /\ passes
      /\ failed = {} => BondFound(at) /\ BondPlace(at, w, seen)
  BY <1>1, <1>2, BondAt, Zenon
<1>4. point \in CutPoint /\ point # "NONE"
  BY DEF CutPoint
<1>5. Calm(x) /\ s \in File /\ Distinct(s.bonds)
  BY <1>3, <1>4, CalmPowerCut, Zenon
<1>6. ASSUME failed = {}
      PROVE  /\ BondFound(11) /\ BondPlace(11, w, seen)
             /\ ~KeepsOnReset /\ ~ResetInMemory /\ ~LosesOnReboot /\ ~FailureUncounted
  <2>1. BondFound(11) /\ BondPlace(11, w, seen)
    BY <1>3, <1>6, Zenon
  <2> QED
    BY <2>1 DEF BondFound
<1>7. ASSUME failed = {} PROVE w.next = None /\ ~w.enabled
  BY <1>6, <1>7 DEF BondPlace
<1>8. ASSUME failed = {}, w.enabled \/ ~StaysClosed
      PROVE  /\ y.failures >= 1 /\ y.live = old.live
             /\ InventsStaged => s = Torn
             /\ ~InventsStaged => s = None
             /\ x.bonds = <<10>> /\ x.enabled /\ x.next = s
  <2>1. CutAs(w, point, old, y, x)
    BY <1>3, <1>4, <1>6, <1>8, CutFound, Zenon
  <2> QED
    BY <1>7, <1>8, <2>1, Zenon DEF CutAs
<1>9. ASSUME failed = {}, StaysClosed PROVE x.bonds = <<>>
  BY <1>3, <1>4, <1>6, <1>7, <1>9, ClosedCut, Zenon
<1>10. r <=> s = None
  BY ExpectedFacts, Zenon DEF r
<1> HIDE DEF x, y, old, s
<1>11. Torn # None
  BY Files, Zenon
<1>12. /\ 10 \in ToSet(<<10>>) /\ 11 \notin ToSet(<<10>>) /\ 10 \notin ToSet(<<>>)
  BY OneBond, EmptyBonds DEF Peer
<1>13. ASSUME failed = {}, passes PROVE ~StaysClosed /\ ~InventsStaged
  <2>1. 10 \in ToSet(x.bonds) /\ s = None
    BY <1>10, <1>13, Zenon DEF passes, t, Has, Retained
  <2>2. ~StaysClosed
    BY <1>9, <1>12, <1>13, <2>1, Zenon
  <2> QED
    BY <1>8, <1>11, <1>13, <2>1, <2>2, Zenon
<1>14. ASSUME failed = {}, ~StaysClosed, ~InventsStaged PROVE passes
  <2>1. y.failures >= 1 /\ y.live = old.live /\ s = None /\ x.bonds = <<10>>
    BY <1>8, <1>14, Zenon
  <2> QED
    BY <1>10, <1>12, <2>1, Zenon DEF passes, p, q, t, Has, Retained
<1>15. ASSUME failed = {}, passes PROVE BondFound(12) /\ BondPlace(12, x, s)
  <2>1. ~StaysClosed /\ ~InventsStaged
    BY <1>13, <1>15, Zenon
  <2>2. BondFound(12)
    BY <1>6, <1>15, <2>1 DEF BondFound
  <2>3. x.enabled /\ x.next = None
    BY <1>8, <1>15, <2>1, Zenon
  <2> QED
    BY <2>2, <2>3 DEF BondPlace
<1>16. BondMoves(11, 12, x, s, passes)
  BY <1>1, <1>3, <1>5, <1>14, <1>15, NoFaults, Zenon DEF BondMoves
<1>17. 11 \in 1..16 /\ 12 = 11 + 1 /\ 11 # 7 /\ 11 # 8
  OBVIOUS
<1> QED
  BY <1>1, <1>16, <1>17, QuietStep, Zenon

\* The twelfth phase.
LEMMA PartialKept == BondInv /\ PowerCut("AFTER_PARTIAL_STAGED_WRITE") => BondInv'
<1> SUFFICES ASSUME BondInv, PowerCut("AFTER_PARTIAL_STAGED_WRITE") PROVE BondInv'
  OBVIOUS
<1> DEFINE point == "AFTER_PARTIAL_STAGED_WRITE"
           old == Visit(Cleared(w), 10, FALSE)
           y == Visit(Cut(old, point), 11, FALSE)
           x == Rebooted(Cut(y, "NONE"))
           s == y.next
           a == "cut counted"
           b == "live exact"
           c == "staged"
           d == "old snapshot restored"
           p == y.failures >= 1
           q == y.live = old.live
           r == StagedAsExpected(point, y)
           t == Has(x, 10) /\ ~Has(x, 11)
           checks == {<<a, p>>, <<b, q>>, <<c, r>>, <<d, t>>}
<1>1. Phase(point, x, checks) /\ seen' = s /\ bridge' = bridge
  BY Zenon DEF PowerCut
<1> HIDE DEF a, b, c, d, p, q, r, t
<1> DEFINE passes == p /\ q /\ r /\ t
<1>2. passes <=> \A z \in checks : z[2]
  OBVIOUS
<1> HIDE DEF checks, passes
<1>3. /\ at = 12 /\ at' = at + 1 /\ w' = x /\ faults' = faults
      /\ Calm(w)
      /\ failed' = {} <=> failed = {} /\ passes
      /\ failed = {} => BondFound(at) /\ BondPlace(at, w, seen)
  BY <1>1, <1>2, BondAt, Zenon
<1>4. point \in CutPoint /\ point # "NONE"
  BY DEF CutPoint
<1>5. Calm(x) /\ s \in File /\ Distinct(s.bonds)
  BY <1>3, <1>4, CalmPowerCut, Zenon
<1>6. ASSUME failed = {}
      PROVE  /\ BondFound(12) /\ BondPlace(12, w, seen)
             /\ ~KeepsOnReset /\ ~ResetInMemory /\ ~LosesOnReboot /\ ~FailureUncounted
  <2>1. BondFound(12) /\ BondPlace(12, w, seen)
    BY <1>3, <1>6, Zenon
  <2> QED
    BY <2>1 DEF BondFound
<1>7. ASSUME failed = {} PROVE w.enabled
  BY <1>6, <1>7 DEF BondPlace
<1>8. ASSUME failed = {}
      PROVE  /\ y.failures >= 1 /\ s = Torn
             /\ TearsLive => y.live # old.live
             /\ ~TearsLive => y.live = old.live /\ x.bonds = <<10>> /\ x.enabled
  <2>1. CutAs(w, point, old, y, x)
    BY <1>3, <1>4, <1>6, <1>7, <1>8, CutFound, Zenon
  <2> QED
    BY <2>1, Zenon DEF CutAs
<1>9. r <=> s = Torn
  BY ExpectedFacts, Zenon DEF r
<1> HIDE DEF x, y, old, s
<1>10. /\ 10 \in ToSet(<<10>>) /\ 11 \notin ToSet(<<10>>)
  BY OneBond DEF Peer
<1>11. ASSUME failed = {}, passes PROVE ~TearsLive
  BY <1>8, <1>11, Zenon DEF passes, q
<1>12. ASSUME failed = {}, ~TearsLive PROVE passes
  <2>1. y.failures >= 1 /\ y.live = old.live /\ s = Torn /\ x.bonds = <<10>>
    BY <1>8, <1>12, Zenon
  <2> QED
    BY <1>9, <1>10, <2>1, Zenon DEF passes, p, q, t, Has, Retained
<1>13. ASSUME failed = {}, passes PROVE BondFound(13) /\ BondPlace(13, x, s)
  <2>1. ~TearsLive
    BY <1>11, <1>13, Zenon
  <2>2. BondFound(13)
    BY <1>6, <1>13, <2>1 DEF BondFound
  <2>3. x.enabled
    BY <1>8, <1>13, <2>1, Zenon
  <2> QED
    BY <2>2, <2>3 DEF BondPlace
<1>14. BondMoves(12, 13, x, s, passes)
  BY <1>1, <1>3, <1>5, <1>12, <1>13, NoFaults, Zenon DEF BondMoves
<1>15. 12 \in 1..16 /\ 13 = 12 + 1 /\ 12 # 7 /\ 12 # 8
  OBVIOUS
<1> QED
  BY <1>1, <1>14, <1>15, QuietStep, Zenon

\* The thirteenth phase.
LEMMA StagedKept == BondInv /\ PowerCut("AFTER_STAGED_WRITE") => BondInv'
<1> SUFFICES ASSUME BondInv, PowerCut("AFTER_STAGED_WRITE") PROVE BondInv'
  OBVIOUS
<1> DEFINE point == "AFTER_STAGED_WRITE"
           old == Visit(Cleared(w), 10, FALSE)
           y == Visit(Cut(old, point), 11, FALSE)
           x == Rebooted(Cut(y, "NONE"))
           s == y.next
           a == "cut counted"
           b == "live exact"
           c == "staged"
           d == "old snapshot restored"
           p == y.failures >= 1
           q == y.live = old.live
           r == StagedAsExpected(point, y)
           t == Has(x, 10) /\ ~Has(x, 11)
           checks == {<<a, p>>, <<b, q>>, <<c, r>>, <<d, t>>}
<1>1. Phase(point, x, checks) /\ seen' = s /\ bridge' = bridge
  BY Zenon DEF PowerCut
<1> HIDE DEF a, b, c, d, p, q, r, t
<1> DEFINE passes == p /\ q /\ r /\ t
<1>2. passes <=> \A z \in checks : z[2]
  OBVIOUS
<1> HIDE DEF checks, passes
<1>3. /\ at = 13 /\ at' = at + 1 /\ w' = x /\ faults' = faults
      /\ Calm(w)
      /\ failed' = {} <=> failed = {} /\ passes
      /\ failed = {} => BondFound(at) /\ BondPlace(at, w, seen)
  BY <1>1, <1>2, BondAt, Zenon
<1>4. point \in CutPoint /\ point # "NONE"
  BY DEF CutPoint
<1>5. Calm(x) /\ s \in File /\ Distinct(s.bonds)
  BY <1>3, <1>4, CalmPowerCut, Zenon
<1>6. ASSUME failed = {}
      PROVE  /\ BondFound(13) /\ BondPlace(13, w, seen)
             /\ ~KeepsOnReset /\ ~ResetInMemory /\ ~LosesOnReboot /\ ~FailureUncounted
  <2>1. BondFound(13) /\ BondPlace(13, w, seen)
    BY <1>3, <1>6, Zenon
  <2> QED
    BY <2>1 DEF BondFound
<1>7. ASSUME failed = {} PROVE w.enabled
  BY <1>6, <1>7 DEF BondPlace
<1>8. ASSUME failed = {}
      PROVE  /\ y.failures >= 1 /\ y.live = old.live /\ x.bonds = <<10>> /\ x.enabled
             /\ HalfStaged => s = Torn
             /\ ~HalfStaged => s.is = "whole" /\ 11 \in ToSet(s.bonds)
  <2>1. CutAs(w, point, old, y, x)
    BY <1>3, <1>4, <1>6, <1>7, <1>8, CutFound, Zenon
  <2> QED
    BY <2>1, Zenon DEF CutAs
<1>9. r <=> s # None
  BY ExpectedFacts, Zenon DEF r
<1> HIDE DEF x, y, old, s
<1>10. /\ 10 \in ToSet(<<10>>) /\ 11 \notin ToSet(<<10>>)
  BY OneBond DEF Peer
<1>11. ASSUME failed = {} PROVE s # None
  BY <1>8, <1>11, Files, Zenon
<1>12. ASSUME failed = {} PROVE passes
  BY <1>8, <1>9, <1>10, <1>11, <1>12, Zenon DEF passes, p, q, t, Has, Retained
<1>13. ASSUME failed = {}, passes PROVE BondFound(14) /\ BondPlace(14, x, s)
  <2>1. BondFound(14)
    BY <1>6, <1>13 DEF BondFound
  <2>2. /\ x.enabled /\ s # None
        /\ HalfStaged => s = Torn
        /\ ~HalfStaged => s.is = "whole" /\ 11 \in ToSet(s.bonds)
    BY <1>8, <1>11, <1>13, Zenon
  <2> QED
    BY <2>1, <2>2 DEF BondPlace
<1>14. BondMoves(13, 14, x, s, passes)
  BY <1>1, <1>3, <1>5, <1>12, <1>13, Zenon DEF BondMoves
<1>15. 13 \in 1..16 /\ 14 = 13 + 1 /\ 13 # 7 /\ 13 # 8
  OBVIOUS
<1> QED
  BY <1>1, <1>14, <1>15, QuietStep, Zenon

\* A snapshot that is put in place.
LEMMA LiveFacts ==
    ASSUME NEW x, Calm(x), NEW f \in File, Distinct(f.bonds), NEW y, y = [x EXCEPT !.live = f]
    PROVE  /\ Calm(y) /\ y.live = f /\ y.enabled = x.enabled /\ y.boot = x.boot
           /\ y.bonds = x.bonds
<1>1. x \in Bonds /\ Distinct(x.bonds) /\ Distinct(x.next.bonds) /\ x.inject = "NONE" /\ x.cut = "NONE"
  BY DEF Calm, Whole
<1> DEFINE z == [x EXCEPT !.live = f]
<1>2. z \in Bonds
  BY <1>1 DEF Bonds
<1>3. /\ z.live = f /\ z.enabled = x.enabled /\ z.boot = x.boot /\ z.bonds = x.bonds
      /\ z.next = x.next /\ z.inject = x.inject /\ z.cut = x.cut
  BY <1>1 DEF Bonds
<1>4. y = z
  OBVIOUS
<1> HIDE DEF z
<1> QED
  BY <1>1, <1>2, <1>3, <1>4, Zenon DEF Calm, Whole

\* The fourteenth phase.
LEMMA PromoteKept == BondInv /\ Promotes => BondInv'
<1> SUFFICES ASSUME BondInv, Promotes PROVE BondInv'
  OBVIOUS
<1> DEFINE z == [w EXCEPT !.live = seen]
           x == IF seen = None THEN w ELSE Rebooted(z)
           a == "candidate complete"
           p == seen # None => x.boot = "restored" /\ Has(x, 11)
           checks == {<<a, p>>}
<1>1. Phase("promote", x, checks) /\ seen' = seen /\ bridge' = bridge
  BY Zenon DEF Promotes
<1> HIDE DEF a, p
<1> DEFINE passes == p
<1>2. passes <=> \A c \in checks : c[2]
  OBVIOUS
<1> HIDE DEF checks, passes
<1>3. /\ at = 14 /\ at' = at + 1 /\ w' = x /\ faults' = faults
      /\ Calm(w) /\ seen \in File /\ Distinct(seen.bonds)
      /\ failed' = {} <=> failed = {} /\ passes
      /\ failed = {} => BondFound(at) /\ BondPlace(at, w, seen)
  <2> HIDE DEF x
  <2> QED
    BY <1>1, <1>2, BondAt, Zenon
<1>4. Calm(z) /\ z.live = seen
  BY <1>3, LiveFacts, Zenon
<1> HIDE DEF z
<1>5. /\ seen = None => x = w
      /\ seen # None => x = Rebooted(z)
  BY Zenon
<1> HIDE DEF x
<1>6. Calm(x)
  BY <1>3, <1>4, <1>5, CalmReboot, Zenon
<1>7. Whole(z) /\ z.inject # "READ"
  BY <1>4, Zenon DEF Calm
<1>8. ASSUME failed = {}
      PROVE  /\ BondFound(14) /\ ~LosesOnReboot /\ seen # None
             /\ HalfStaged => seen = Torn
             /\ ~HalfStaged => seen.is = "whole" /\ 11 \in ToSet(seen.bonds)
  <2>1. BondFound(14) /\ BondPlace(14, w, seen)
    BY <1>3, <1>8, Zenon
  <2> QED
    BY <2>1 DEF BondFound, BondPlace
<1>9. ASSUME failed = {}, ~HalfStaged PROVE passes
  <2>1. z.live # Torn /\ 11 \in ToSet(z.live.bonds)
    BY <1>4, <1>8, <1>9, Files, Zenon
  <2>2. Rebooted(z).boot = "restored" /\ Rebooted(z).bonds = z.live.bonds
    BY <1>7, <1>8, <1>9, <2>1, RebootedFacts, Zenon
  <2> QED
    BY <1>5, <1>8, <1>9, <2>1, <2>2, Zenon DEF passes, p, Has, Retained
<1>10. ASSUME failed = {}, passes PROVE ~HalfStaged
  <2> SUFFICES ASSUME HalfStaged PROVE FALSE
    OBVIOUS
  <2>1. z.live = Torn /\ x = Rebooted(z)
    BY <1>4, <1>5, <1>8, <1>10, Zenon
  <2>2. x.boot = "restored" /\ 11 \in ToSet(x.bonds)
    BY <1>8, <1>10, Zenon DEF passes, p, Has, Retained
  <2>3. Rebooted(z).bonds = <<>>
    BY <1>7, <2>1, RebootedFacts, Zenon
  <2>4. 11 \notin ToSet(<<>>)
    BY EmptyBonds
  <2> QED
    BY <2>1, <2>2, <2>3, <2>4, Zenon
<1>11. ASSUME failed = {}, passes PROVE BondFound(15) /\ BondPlace(15, x, seen)
  <2>1. ~HalfStaged
    BY <1>10, <1>11, Zenon
  <2>2. BondFound(15)
    BY <1>8, <1>11, <2>1 DEF BondFound
  <2>3. BondPlace(15, x, seen)
    BY DEF BondPlace
  <2> QED
    BY <2>2, <2>3
<1>12. BondMoves(14, 15, x, seen, passes)
  BY <1>1, <1>3, <1>6, <1>9, <1>11, NoFaults, Zenon DEF BondMoves
<1>13. 14 \in 1..16 /\ 15 = 14 + 1 /\ 14 # 7 /\ 14 # 8
  OBVIOUS
<1> QED
  BY <1>1, <1>12, <1>13, QuietStep, Zenon

\* The fifteenth phase.
LEMMA InvalidKept == BondInv /\ KeepsEvidence => BondInv'
<1> SUFFICES ASSUME BondInv, KeepsEvidence PROVE BondInv'
  OBVIOUS
<1> DEFINE v == Visit(Cleared(w), 20, FALSE)
           z == [v EXCEPT !.live = Torn]
           y == Rebooted(z)
           x == Visit(y, 21, FALSE)
           a == "invalid"
           b == "writes disabled"
           c == "evidence kept"
           p == y.boot = "invalid"
           q == ~y.enabled
           r == x.live = y.live
           checks == {<<a, p>>, <<b, q>>, <<c, r>>}
<1>1. Phase("invalid", x, checks) /\ seen' = seen /\ bridge' = bridge
  BY Zenon DEF KeepsEvidence
<1> HIDE DEF a, b, c, p, q, r
<1> DEFINE passes == p /\ q /\ r
<1>2. passes <=> \A d \in checks : d[2]
  OBVIOUS
<1> HIDE DEF checks, passes
<1>3. /\ at = 15 /\ at' = at + 1 /\ w' = x /\ faults' = faults
      /\ Calm(w) /\ seen \in File /\ Distinct(seen.bonds)
      /\ failed' = {} <=> failed = {} /\ passes
      /\ failed = {} => BondFound(at) /\ BondPlace(at, w, seen)
  <2> HIDE DEF x
  <2> QED
    BY <1>1, <1>2, BondAt, Zenon
<1>4. 20 \in Peer /\ 21 \in Peer
  BY DEF Peer
<1>5. Calm(v)
  <2>1. Calm(Cleared(w))
    BY <1>3, CalmClear, Zenon
  <2> QED
    BY <1>4, <2>1, CalmVisit
<1> HIDE DEF v
<1>6. Calm(z) /\ z.live = Torn
  <2>1. z = [v EXCEPT !.live = Torn]
    OBVIOUS
  <2>2. Torn \in File /\ Distinct(Torn.bonds)
    BY Files, Zenon
  <2> HIDE DEF z
  <2> QED
    BY <1>5, <2>1, <2>2, LiveFacts, Zenon
<1> HIDE DEF z
<1>7. Whole(z) /\ z.inject = "NONE" /\ z.cut = "NONE" /\ z.inject # "READ"
  BY <1>6, Zenon DEF Calm
<1>8. /\ DecodesInvalid => y.boot = "restored"
      /\ ~DecodesInvalid => y.boot = "invalid" /\ y.bonds = <<>> /\ ~y.enabled
  BY <1>6, <1>7, RebootedFacts, Zenon
<1>9. Whole(y) /\ Carried(y, z)
  BY <1>7, RebootedFacts, Zenon
<1>10. Calm(y) /\ y.live = Torn
  BY <1>6, <1>7, <1>9, Zenon DEF Calm, Carried
<1> HIDE DEF y
<1>11. Calm(x)
  BY <1>4, <1>10, CalmVisit
<1>12. ASSUME ~DecodesInvalid
       PROVE  /\ OverwritesInvalid => x.live # y.live
              /\ ~OverwritesInvalid => x.live = y.live
  <2> DEFINE d == Connected(y, 21, FALSE)
  <2>0. x = Settled(d)
    BY Zenon DEF Visit
  <2>1. y.boot = "invalid" /\ y.bonds = <<>> /\ ~y.enabled
    BY <1>8, <1>12, Zenon
  <2>2. Connects(d, y)
    BY <1>4, <1>9, ConnectsFacts, Zenon
  <2>3. d.bonds = Append(RemoveFirst(y.bonds, 21), 21)
    <3>1. 21 \notin Retained(y) /\ Len(y.bonds) # 5
      BY <2>1, EmptyBonds DEF Retained
    <3> QED
      BY <1>4, <1>9, <3>1, NewConnects, Zenon
  <2> HIDE DEF d
  <2>4. d.bonds # y.bonds
    <3>1. y.bonds \in Seq(Peer) /\ Distinct(y.bonds)
      BY <1>9, BondsFields DEF Whole
    <3>2. Len(Append(RemoveFirst(y.bonds, 21), 21)) > 0
      BY <1>4, <3>1, MoveFacts
    <3>3. Len(d.bonds) > 0 /\ ~(Len(<<>>) > 0)
      BY <2>3, <3>2
    <3> QED
      BY <2>1, <3>3, Zenon
  <2>5. d.dirty /\ Whole(d) /\ Frame(d, y)
    BY <2>2, <2>4, Zenon DEF Connects
  <2>6. ~Injured(d) /\ (Closed(d) <=> ~OverwritesInvalid)
    BY <1>10, <2>1, <2>5, Zenon DEF Injured, Closed, Frame, Calm
  <2>7. ASSUME OverwritesInvalid PROVE x.live # y.live
    <3>1. Settled(d).live = Image(d)
      BY <2>5, <2>6, <2>7, SettledFacts, Zenon
    <3>2. Image(d) # Torn
      BY <2>5, ImageFacts, Zenon
    <3> QED
      BY <1>10, <2>0, <3>1, <3>2, Zenon
  <2>8. ASSUME ~OverwritesInvalid PROVE x.live = y.live
    <3>1. Settled(d) = d
      BY <2>5, <2>6, <2>8, SettledFacts, Zenon
    <3> QED
      BY <2>0, <2>5, <3>1, Zenon DEF Frame
  <2> QED
    BY <2>7, <2>8
<1> HIDE DEF x
<1>13. passes <=> ~DecodesInvalid /\ ~OverwritesInvalid
  <2>1. ASSUME DecodesInvalid PROVE ~passes
    <3>1. "restored" # "invalid"
      OBVIOUS
    <3> QED
      BY <1>8, <2>1, <3>1, Zenon DEF passes, p
  <2>2. ASSUME ~DecodesInvalid PROVE passes <=> ~OverwritesInvalid
    BY <1>8, <1>12, <2>2, Zenon DEF passes, p, q, r
  <2> QED
    BY <2>1, <2>2, Zenon
<1>14. ASSUME failed = {}, passes PROVE BondFound(16) /\ BondPlace(16, x, seen)
  <2>1. ~DecodesInvalid /\ ~OverwritesInvalid
    BY <1>13, <1>14, Zenon
  <2>2. BondFound(15)
    BY <1>3, <1>14, Zenon
  <2>3. BondFound(16)
    BY <2>1, <2>2 DEF BondFound
  <2>4. BondPlace(16, x, seen)
    BY DEF BondPlace
  <2> QED
    BY <2>3, <2>4
<1>15. BondMoves(15, 16, x, seen, passes)
  BY <1>1, <1>3, <1>11, <1>13, <1>14, NoFaults, Zenon DEF BondMoves
<1>16. 15 \in 1..16 /\ 16 = 15 + 1 /\ 15 # 7 /\ 15 # 8
  OBVIOUS
<1> QED
  BY <1>1, <1>15, <1>16, QuietStep, Zenon

\* The last phase.
LEMMA RecoverKept == BondInv /\ Recovers => BondInv'
<1> SUFFICES ASSUME BondInv, Recovers PROVE BondInv'
  OBVIOUS
<1> DEFINE y == Cleared(w)
           x == Rebooted(y)
           a == "recovers"
           b == "empty and writable"
           c == "restores normally"
           p == y.boot = "initialized_empty"
           q == y.enabled /\ Retained(y) = {}
           r == x.boot = "restored"
           checks == {<<a, p>>, <<b, q>>, <<c, r>>}
<1>1. Phase("recover", x, checks) /\ seen' = seen /\ bridge' = bridge
  BY Zenon DEF Recovers
<1> HIDE DEF a, b, c, p, q, r
<1> DEFINE passes == p /\ q /\ r
<1>2. passes <=> \A d \in checks : d[2]
  OBVIOUS
<1> HIDE DEF checks, passes
<1>3. /\ at = 16 /\ at' = at + 1 /\ w' = x /\ faults' = faults
      /\ Calm(w) /\ seen \in File /\ Distinct(seen.bonds)
      /\ failed' = {} <=> failed = {} /\ passes
      /\ failed = {} => BondFound(at) /\ BondPlace(at, w, seen)
  BY <1>1, <1>2, BondAt, Zenon
<1>4. Calm(y) /\ Calm(x)
  BY <1>3, CalmClear, CalmReboot, Zenon
<1>5. Whole(w) /\ Whole(y) /\ y.inject # "READ"
  BY <1>3, <1>4, Zenon DEF Calm
<1>6. ASSUME ~KeepsOnReset, ~ResetInMemory, ~StaysClosed
      PROVE  y.boot = "initialized_empty" /\ y.enabled /\ y.bonds = <<>> /\ y.live.is = "whole"
  <2>1. y.bonds = <<>> /\ y.live.is = "whole"
    BY <1>5, <1>6, ClearedFacts, Zenon
  <2>2. y.boot = "initialized_empty" /\ y.enabled
    BY <1>5, <1>6, ClearedFacts, Zenon
  <2> QED
    BY <2>1, <2>2
<1>7. ASSUME ~KeepsOnReset, ~ResetInMemory, ~StaysClosed PROVE passes
  <2>1. y.live # Torn
    BY <1>6, <1>7, Files, Zenon
  <2>2. x.boot = "restored"
    BY <1>5, <2>1, RebootedFacts, Zenon
  <2> QED
    BY <1>6, <1>7, <2>2, EmptyBonds, Zenon DEF passes, p, q, r, Retained
<1> HIDE DEF x, y
<1>8. ASSUME failed = {}, passes PROVE BondFound(17) /\ BondPlace(17, x, seen)
  <2>1. BondFound(16)
    BY <1>3, <1>8, Zenon
  <2>2. BondFound(17)
    BY <2>1 DEF BondFound
  <2>3. BondPlace(17, x, seen)
    BY DEF BondPlace
  <2> QED
    BY <2>2, <2>3
<1>9. BondMoves(16, 17, x, seen, passes)
  BY <1>1, <1>3, <1>4, <1>7, <1>8, NoFaults, Zenon DEF BondMoves
<1>10. 16 \in 1..16 /\ 17 = 16 + 1 /\ 16 # 7 /\ 16 # 8
  OBVIOUS
<1> QED
  BY <1>1, <1>9, <1>10, QuietStep, Zenon

\* What the invariant says of the properties.
LEMMA BondHolds == BondInv => TypeOK /\ Detects /\ NoFalseAlarm
<1> SUFFICES ASSUME BondInv PROVE TypeOK /\ Detects /\ NoFalseAlarm
  OBVIOUS
<1>1. /\ faults \subseteq Fault /\ Cardinality(faults) <= MaxFaults /\ at \in 1..17
      /\ Calm(w) /\ seen \in File
      /\ faults = {} /\ ~hurried => failed = {}
      /\ failed = {} => BondFound(at)
      /\ occupied \in BOOLEAN /\ hurried \in BOOLEAN /\ early \in BOOLEAN
      /\ occupied => at = 8
      /\ failed = {} /\ at > 7 => ~WritesOnReconnect \/ early
  BY Zenon DEF BondInv, BondTyped, BridgeInv
<1>2. Len(Phases) = 17 /\ (Phases[at] = "done" => at = 17) /\ (at = 8 => Phases[at] = "reset")
  BY <1>1, BondPhases
<1>3. w \in Bonds /\ w.inject = "NONE" /\ w.cut = "NONE" /\ Distinct(w.bonds)
  BY <1>1, Zenon DEF Calm, Whole
<1>4. TypeOK
  BY <1>1, <1>2, <1>3, Zenon DEF TypeOK, Distinct
<1>5. ASSUME Finished, failed = {}
      PROVE  \/ faults = {}
             \/ early /\ faults \in SUBSET {"writes on reconnect", "drops cccds"}
                  /\ "writes on reconnect" \in faults
  <2>1. at = 17 /\ BondFound(17)
    BY <1>1, <1>2, <1>5, Zenon DEF Finished
  <2>2. /\ ~LosesOnReboot /\ ~Unbounded /\ ~ForgetsTouch /\ ~EvictsOnReplace
        /\ ~DropsCccds \/ WritesOnReconnect
        /\ ~SameEpoch /\ ~KeepsOnReset /\ ~ResetInMemory
        /\ ~FailureUncounted /\ ~FailureReplaces /\ ~ReadsOn /\ ~StaysClosed /\ ~InventsStaged
        /\ ~TearsLive /\ ~HalfStaged /\ ~DecodesInvalid /\ ~OverwritesInvalid
    BY <2>1 DEF BondFound
  <2>3. \A f \in Fault : f \in faults => f = "writes on reconnect" \/ f = "drops cccds"
    BY <2>2, Zenon DEF Fault, Unbounded, ForgetsTouch, EvictsOnReplace,
       LosesOnReboot, KeepsOnReset, SameEpoch, ResetInMemory, FailureReplaces,
       FailureUncounted, ReadsOn, TearsLive, InventsStaged, HalfStaged, DecodesInvalid,
       OverwritesInvalid, StaysClosed
  <2>4. faults \in SUBSET {"writes on reconnect", "drops cccds"}
    BY <1>1, <2>3, Zenon
  <2>5. ~WritesOnReconnect \/ early
    <3>1. at > 7
      BY <2>1
    <3> QED
      BY <1>1, <1>5, <3>1, Zenon
  <2>6. ASSUME ~WritesOnReconnect PROVE faults = {}
    BY <2>2, <2>4, <2>6, Zenon DEF DropsCccds, WritesOnReconnect
  <2> QED
    BY <2>4, <2>5, <2>6, Zenon DEF WritesOnReconnect
<1>6. Detects
  BY <1>5, Zenon DEF Detects
<1>7. NoFalseAlarm
  BY <1>1, Zenon DEF NoFalseAlarm
<1> QED
  BY <1>4, <1>6, <1>7

\* bond_lifecycle begins with its invariant,
LEMMA BondStarts == Init => BondInv
<1> SUFFICES ASSUME Init PROVE BondInv
  OBVIOUS
<1>1. /\ at = 1 /\ w = Fresh /\ seen = None /\ failed = {}
      /\ occupied = FALSE /\ hurried = FALSE /\ early = FALSE
  BY Zenon DEF Init
<1>2. faults \subseteq Fault /\ Cardinality(faults) <= MaxFaults
  <2>1. PICK k \in 0..MaxFaults : faults \in kSubset(k, Fault)
    BY Zenon DEF Init
  <2>2. faults \subseteq Fault /\ Cardinality(faults) = k
    BY <2>1, Zenon DEF kSubset
  <2> QED
    BY <2>2, BondAssumption
<1>3. Calm(w) /\ seen \in File /\ Distinct(seen.bonds)
  BY <1>1, FreshFacts, Files, Zenon DEF Open
<1>4. BondTyped
  <2>1. at \in 1..17
    BY <1>1
  <2> QED
    BY <1>2, <1>3, <2>1, Zenon DEF BondTyped
<1>5. BondFound(at) /\ BondPlace(at, w, seen)
  <2>1. BondFound(1)
    BY DEF BondFound
  <2>2. BondPlace(1, Fresh, seen)
    BY DEF BondPlace
  <2> QED
    BY <1>1, <2>1, <2>2, Zenon
<1>6. BridgeInv
  <2>1. ~(at > 7)
    BY <1>1
  <2> QED
    BY <1>1, <2>1, Zenon DEF BridgeInv
<1> QED
  BY <1>1, <1>4, <1>5, <1>6, Zenon DEF BondInv

\* and every phase of it and of persistence_faults keeps it.
LEMMA BondKept == BondInv /\ Next => BondInv'
<1> SUFFICES ASSUME BondInv, Next PROVE BondInv'
  OBVIOUS
<1>1. CASE FreshStore
  BY <1>1, FreshKept
<1>2. CASE FivePeers
  BY <1>2, FiveKept
<1>3. CASE Restores
  BY <1>3, RebootKept
<1>4. CASE EvictsOldest
  BY <1>4, EvictionKept
<1>5. CASE Replaces
  BY <1>5, ReplaceKept
<1>6. CASE KeepsCccd
  BY <1>6, CccdKept
<1>7. CASE ReconnectsSilently
  BY <1>7, ReconnectKept
<1>8. CASE ResetsForGood
  BY <1>8, ResetKept
<1>9. CASE SurvivesWriteFailure
  BY <1>9, WriteFailureKept
<1>10. CASE FailsClosed
  BY <1>10, ReadFailureKept
<1>11. CASE PowerCut("BEFORE_REPLACE")
  BY <1>11, BeforeKept
<1>12. CASE PowerCut("AFTER_PARTIAL_STAGED_WRITE")
  BY <1>12, PartialKept
<1>13. CASE PowerCut("AFTER_STAGED_WRITE")
  BY <1>13, StagedKept
<1>14. CASE Promotes
  BY <1>14, PromoteKept
<1>15. CASE KeepsEvidence
  BY <1>15, InvalidKept
<1>16. CASE Recovers
  BY <1>16, RecoverKept
<1>17. CASE ResetUnread
  BY <1>17, UnreadKept
<1> QED
  BY <1>1, <1>2, <1>3, <1>4, <1>5, <1>6, <1>7, <1>8, <1>9, <1>10, <1>11, <1>12, <1>13, <1>14,
     <1>15, <1>16, <1>17, Zenon DEF Next

-----------------------------------------------------------------------------
(* The suite.                                                                *)

\* The invariant of the bonds only depends on the bond scenarios' variables,
LEMMA BondStutter ==
    ASSUME BondInv, UNCHANGED vars PROVE BondInv'
<1>1. /\ faults' = faults /\ at' = at /\ w' = w /\ seen' = seen /\ failed' = failed
      /\ occupied' = occupied /\ hurried' = hurried /\ early' = early
  BY DEF vars, bridge
<1>2. BondTyped' /\ BridgeInv'
  BY <1>1, Zenon DEF BondInv, BondTyped, BridgeInv, WritesOnReconnect
<1>3. faults' = {} /\ ~hurried' => failed' = {}
  BY <1>1, Zenon DEF BondInv
<1>4. ASSUME failed' = {} PROVE BondFound(at)' /\ BondPlace(at, w, seen)'
  <2>1. BondFound(at) /\ BondPlace(at, w, seen)
    BY <1>1, <1>4, Zenon DEF BondInv
  <2>2. BondFound(at)'
    <3>1. /\ (Unbounded' <=> Unbounded) /\ (ForgetsTouch' <=> ForgetsTouch)
          /\ (EvictsOnReplace' <=> EvictsOnReplace) /\ (DropsCccds' <=> DropsCccds)
          /\ (WritesOnReconnect' <=> WritesOnReconnect) /\ (LosesOnReboot' <=> LosesOnReboot)
          /\ (KeepsOnReset' <=> KeepsOnReset) /\ (SameEpoch' <=> SameEpoch)
          /\ (ResetInMemory' <=> ResetInMemory) /\ (FailureReplaces' <=> FailureReplaces)
          /\ (FailureUncounted' <=> FailureUncounted) /\ (ReadsOn' <=> ReadsOn)
          /\ (TearsLive' <=> TearsLive) /\ (InventsStaged' <=> InventsStaged)
          /\ (HalfStaged' <=> HalfStaged) /\ (DecodesInvalid' <=> DecodesInvalid)
          /\ (OverwritesInvalid' <=> OverwritesInvalid) /\ (StaysClosed' <=> StaysClosed)
      BY <1>1, Zenon DEF Unbounded, ForgetsTouch, EvictsOnReplace, DropsCccds, WritesOnReconnect, LosesOnReboot,
                   KeepsOnReset, SameEpoch, ResetInMemory, FailureReplaces, FailureUncounted, ReadsOn,
                   TearsLive, InventsStaged, HalfStaged, DecodesInvalid, OverwritesInvalid, StaysClosed
    <3> QED
      BY <1>1, <2>1, <3>1 DEF BondFound
  <2>3. BondPlace(at, w, seen)'
    BY <1>1, <2>1, Zenon DEF BondPlace, SameEpoch, HalfStaged
  <2> QED
    BY <2>2, <2>3
<1> QED
  BY <1>2, <1>3, <1>4, Zenon DEF BondInv

\* that of radio_policy on its own,
LEMMA RadioStutter ==
    ASSUME RadioInv, UNCHANGED Adverts!vars PROVE RadioInv'
<1>1. faults' = faults /\ at' = at /\ radio' = radio /\ failed' = failed /\ hurried' = hurried
  BY DEF Adverts!vars
<1>2. RadioTyped'
  BY <1>1, Zenon DEF RadioInv, RadioTyped
<1>3. RadioFound' <=> RadioFound
  BY <1>1, Zenon DEF RadioFound
<1>4. RadioPlace' <=> RadioPlace
  <2>1. ASSUME NEW k PROVE Adverts!Delay(k)' = Adverts!Delay(k)
    BY <1>1, Zenon DEF Adverts!Delay, Adverts!Has
  <2>2. ASSUME NEW k PROVE Retrying(k)' <=> Retrying(k)
    BY <1>1, <2>1, Zenon DEF Retrying
  <2> QED
    BY <1>1, <2>2, Zenon DEF RadioPlace
<1>5. failed' = {} => RadioFound' /\ RadioPlace'
  BY <1>1, <1>3, <1>4, Zenon DEF RadioInv
<1>6. /\ at' = 1 => radio' = Adverts!Booted
      /\ at' <= 9 => radio'.writes = 0 /\ radio'.terminates = 0 /\ ~hurried'
      /\ faults' = {} /\ ~hurried' => failed' = {}
  BY <1>1, Zenon DEF RadioInv
<1> QED
  BY <1>2, <1>5, <1>6, Zenon DEF RadioInv

\* and so does that of link_auth.
LEMMA LinkStutter ==
    ASSUME LinkInv, UNCHANGED Link!vars PROVE LinkInv'
<1>1. /\ faults' = faults /\ at' = at /\ conn' = conn /\ secure' = secure /\ link' = link
      /\ occupied' = occupied /\ staged' = staged /\ failed' = failed /\ hurried' = hurried
  BY DEF Link!vars
<1>2. /\ (Idle' <=> Idle) /\ (Served' <=> Served) /\ (Queued' <=> Queued) /\ (Dropped' <=> Dropped)
      /\ (Two' <=> Two) /\ (Skips' <=> Skips) /\ (Demanding' <=> Demanding)
      /\ (Denies' <=> Denies) /\ (Ignores' <=> Ignores)
  BY <1>1, Zenon DEF Idle, Served, Queued, Dropped, Two, Skips, Demanding, Denies, Ignores
<1>3. Link!Demands(TRUE)' <=> Link!Demands(TRUE)
  BY <1>1, Zenon DEF Link!Demands, Link!Has
<1>4. LinkTyped' <=> LinkTyped
  BY <1>1, <1>2, Zenon DEF LinkTyped
<1>5. LinkHeld' <=> LinkHeld
  BY <1>1, <1>2, <1>3, Zenon DEF LinkHeld
<1>6. LinkEarly' <=> LinkEarly
  BY <1>1, <1>2, Zenon DEF LinkEarly
<1>7. LinkFound' <=> LinkFound
  BY <1>1, <1>2, Zenon DEF LinkFound
<1>8. LinkSound' <=> LinkSound
  BY <1>1, <1>2, Zenon DEF LinkSound
<1> QED
  BY <1>1, <1>4, <1>5, <1>6, <1>7, <1>8, Zenon DEF LinkInv

\* The inductive invariant of the suite: that of the scenario that runs.
SuiteInv ==
    /\ scenario \in {"bonds", "link_auth", "radio_policy"}
    /\ scenario = "bonds" => BondInv
    /\ scenario = "link_auth" => LinkInv
    /\ scenario = "radio_policy" => RadioInv

\* The scenarios are three.
LEMMA ScenarioNames ==
    "bonds" # "link_auth" /\ "bonds" # "radio_policy" /\ "link_auth" # "radio_policy"
  OBVIOUS

\* The suite begins with SuiteInv,
LEMMA SuiteStarts == SuiteInit => SuiteInv
<1>1. ASSUME scenario = "bonds", Init PROVE SuiteInv
  BY <1>1, BondStarts, ScenarioNames, Zenon DEF SuiteInv
<1>2. ASSUME scenario = "link_auth", Link!Init PROVE SuiteInv
  BY <1>2, LinkStarts, ScenarioNames, Zenon DEF SuiteInv
<1>3. ASSUME scenario = "radio_policy", Adverts!Init PROVE SuiteInv
  BY <1>3, RadioStarts, ScenarioNames, Zenon DEF SuiteInv
<1> QED
  BY <1>1, <1>2, <1>3, Zenon DEF SuiteInit

\* and every step keeps it.
LEMMA SuiteKept == ASSUME SuiteInv, [SuiteNext]_suiteVars PROVE SuiteInv'
<1>1. CASE RunBonds
  <2>1. scenario = "bonds" /\ scenario' = scenario /\ Next
    BY <1>1, Zenon DEF RunBonds
  <2>2. BondInv'
    BY <2>1, BondKept, Zenon DEF SuiteInv
  <2> QED
    BY <2>1, <2>2, ScenarioNames, Zenon DEF SuiteInv
<1>2. CASE RunLinkAuth
  <2>1. scenario = "link_auth" /\ scenario' = scenario /\ Link!Next
    BY <1>2, Zenon DEF RunLinkAuth
  <2>2. LinkInv'
    BY <2>1, LinkKept, Zenon DEF SuiteInv
  <2> QED
    BY <2>1, <2>2, ScenarioNames, Zenon DEF SuiteInv
<1>3. CASE RunRadioPolicy
  <2>1. scenario = "radio_policy" /\ scenario' = scenario /\ Adverts!Next
    BY <1>3, Zenon DEF RunRadioPolicy
  <2>2. RadioInv'
    BY <2>1, RadioKept, Zenon DEF SuiteInv
  <2> QED
    BY <2>1, <2>2, ScenarioNames, Zenon DEF SuiteInv
<1>4. CASE UNCHANGED suiteVars
  <2>1. scenario' = scenario /\ UNCHANGED vars /\ UNCHANGED links /\ radio' = radio
    BY <1>4 DEF suiteVars
  <2>2. UNCHANGED Adverts!vars
    BY <2>1 DEF vars, bridge, Adverts!vars
  <2>3. UNCHANGED Link!vars
    BY <2>1 DEF vars, bridge, links, Link!vars
  <2>4. /\ BondInv => BondInv'
        /\ LinkInv => LinkInv'
        /\ RadioInv => RadioInv'
    BY <2>1, <2>2, <2>3, BondStutter, LinkStutter, RadioStutter, Zenon
  <2> QED
    BY <2>1, <2>4, Zenon DEF SuiteInv
<1> QED
  BY <1>1, <1>2, <1>3, <1>4, Zenon DEF SuiteNext

\* What SuiteInv says of the properties.
LEMMA SuiteHolds ==
    SuiteInv => SuiteTypeOK /\ BondsDetect /\ LinkDetects /\ RadioDetects /\ SuiteNoFalseAlarm
<1> SUFFICES ASSUME SuiteInv
             PROVE  SuiteTypeOK /\ BondsDetect /\ LinkDetects /\ RadioDetects /\ SuiteNoFalseAlarm
  OBVIOUS
<1>1. scenario = "bonds" => TypeOK /\ Detects /\ NoFalseAlarm
  BY BondHolds, Zenon DEF SuiteInv
<1>2. scenario = "link_auth" => Link!TypeOK /\ Link!Detects /\ Link!NoFalseAlarm
  BY LinkHolds, Zenon DEF SuiteInv
<1>3. scenario = "radio_policy" => Adverts!TypeOK /\ Adverts!Detects /\ Adverts!NoFalseAlarm
  BY RadioHolds, Zenon DEF SuiteInv
<1> QED
  BY <1>1, <1>2, <1>3, Zenon
     DEF SuiteInv, SuiteTypeOK, BondsDetect, LinkDetects, RadioDetects, SuiteNoFalseAlarm

\* The invariant of the scenario that runs holds in every state of the suite.
THEOREM SuiteInvariant == SuiteSpec => []SuiteInv
  BY SuiteStarts, SuiteKept, PTL DEF SuiteSpec

\* The watch and the scenario's memory keep their types, whatever faults the watch
\* has and whichever scenario runs.
THEOREM SuiteTyped == SuiteSpec => []SuiteTypeOK
  BY SuiteInvariant, SuiteHolds, PTL

\* bond_lifecycle and persistence_faults (scenarios.py), passed, have found every
\* fault they are written for, whatever combination of at most MaxFaults the watch
\* has, for every MaxFaults, and whenever the bridge notices the end of a connection:
\* no fault hides another one from all checks.  The exception is a watch that writes on
\* each reconnect, with or without lost subscriptions, if each of the three ADVANCEs
\* came before the link was down, so that no write was settled when they are counted.
THEOREM BondFaultsFound == SuiteSpec => []BondsDetect
  BY SuiteInvariant, SuiteHolds, PTL

\* link_auth (scenarios.py), passed, has found every fault but the kept staging,
\* whatever the bridge's delays made of its connections.
THEOREM LinkFaultsFound == SuiteSpec => []LinkDetects
  BY SuiteInvariant, SuiteHolds, PTL

\* radio_policy (scenarios.py), passed, has found every fault of the advertising, in
\* every combination, an early or late retry of one millisecond included.
THEOREM RadioFaultsFound == SuiteSpec => []RadioDetects
  BY SuiteInvariant, SuiteHolds, PTL

\* A watch without faults fails no check of any of these scenarios, unless the
\* scenario was too quick for it or for its bridge: a reconnect of bond_lifecycle or of
\* link_auth that heard BUSY, or a wait of radio_policy that was too short.
THEOREM SoundWatchPasses == SuiteSpec => []SuiteNoFalseAlarm
  BY SuiteInvariant, SuiteHolds, PTL

=============================================================================
