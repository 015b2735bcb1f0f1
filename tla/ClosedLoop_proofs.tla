-------------------------- MODULE ClosedLoop_proofs --------------------------
(***************************************************************************)
(* The bounds of ClosedLoop for all durations, approaches and traffic, and *)
(* for however many lost decisions.  Time is counted in ticks throughout.  *)
(***************************************************************************)
EXTENDS ClosedLoop, SequenceLemmas

-----------------------------------------------------------------------------
(***************************************************************************)
(* Rounding up: a number of steps of width w falls short of t exactly if   *)
(* it is less than the rounded quotient.                                   *)
(***************************************************************************)
LEMMA Products ==
  ASSUME NEW k \in Nat, NEW w \in Nat
  PROVE  /\ k * w \in Nat
         /\ (k + 1) * w = k * w + w
         /\ \A c \in Nat : k <= c => k * w <= c * w
OBVIOUS

LEMMA Quotient ==
  ASSUME NEW n \in Nat, NEW w \in Nat \ {0}
  PROVE  /\ n \div w \in Nat
         /\ (n \div w) * w <= n
         /\ n < (n \div w) * w + w
OBVIOUS

LEMMA Ceiling ==
  ASSUME NEW t \in Nat, NEW w \in Nat \ {0}
  PROVE  LET c == (t + w - 1) \div w IN c \in Nat /\ \A k \in Nat : k * w < t <=> k < c
<1> DEFINE c == (t + w - 1) \div w
<1>1. t + w - 1 \in Nat
  OBVIOUS
<1>2. c \in Nat /\ c * w <= t + w - 1 /\ t + w - 1 < c * w + w
  BY <1>1, Quotient
<1> HIDE DEF c
<1>3. ASSUME NEW k \in Nat, k < c PROVE k * w < t
  <2>1. k + 1 \in Nat /\ k + 1 <= c
    BY <1>2, <1>3
  <2>2. (k + 1) * w <= c * w /\ (k + 1) * w = k * w + w /\ k * w \in Nat /\ c * w \in Nat
    BY <1>2, <2>1, Products
  <2> QED BY <1>2, <2>2
<1>4. ASSUME NEW k \in Nat, ~(k < c) PROVE ~(k * w < t)
  <2>1. c * w <= k * w /\ k * w \in Nat /\ c * w \in Nat
    BY <1>2, <1>4, Products
  <2> QED BY <1>2, <2>1
<1> QED BY <1>2, <1>3, <1>4 DEF c

LEMMA TicksFacts ==
  ASSUME NEW t \in Nat
  PROVE  /\ Ticks(t) \in Nat \ {0}
         /\ \A k \in Nat : k * Dt + Dt >= t <=> k + 1 >= Ticks(t)
<1>0. Dt \in Nat \ {0}
  BY TwinAssumption
<1>1. CASE t <= Dt
  <2>1. Ticks(t) = 1
    BY <1>1 DEF Ticks
  <2>2. \A k \in Nat : k * Dt \in Nat
    BY <1>0, Products
  <2> QED BY <1>0, <1>1, <2>1, <2>2
<1>2. CASE t > Dt
  <2>1. Ticks(t) = (t + Dt - 1) \div Dt
    BY <1>0, <1>2 DEF Ticks
  <2>2. Ticks(t) \in Nat /\ \A k \in Nat : k * Dt < t <=> k < Ticks(t)
    BY <1>0, <2>1, Ceiling
  <2>3. 0 * Dt = 0
    BY <1>0
  <2>4. 0 < Ticks(t)
    BY <1>0, <1>2, <2>2, <2>3
  <2>5. ASSUME NEW k \in Nat PROVE k * Dt + Dt >= t <=> k + 1 >= Ticks(t)
    <3>1. (k + 1) * Dt = k * Dt + Dt /\ k + 1 \in Nat /\ (k + 1) * Dt \in Nat
      BY <1>0, Products
    <3>2. (k + 1) * Dt < t <=> k + 1 < Ticks(t)
      BY <2>2, <3>1
    <3> QED BY <2>2, <3>1, <3>2
  <2> QED BY <2>2, <2>4, <2>5
<1> QED BY <1>0, <1>1, <1>2

-----------------------------------------------------------------------------
(***************************************************************************)
(* The vocabulary, axis by axis.                                           *)
(***************************************************************************)
LEMMA AxisFacts ==
  ASSUME NEW a \in Axes
  PROVE  /\ OtherAxis(a) \in Axes
         /\ OtherAxis(a) # a
         /\ OtherAxis(OtherAxis(a)) = a
         /\ \A b \in Axes : b = a \/ b = OtherAxis(a)
         /\ a # NoAxis
BY DEF Axes, OtherAxis, NorthSouth, EastWest, NoAxis

LEMMA PhaseFacts ==
  ASSUME NEW a \in Axes
  PROVE  /\ GreenFor(a) \in Phases /\ YellowFor(a) \in Phases /\ AllRed \in Phases
         /\ IsGreen(GreenFor(a)) /\ ~IsGreen(YellowFor(a)) /\ ~IsGreen(AllRed)
         /\ IsYellow(YellowFor(a)) /\ ~IsYellow(GreenFor(a)) /\ ~IsYellow(AllRed)
         /\ AxisOf(GreenFor(a)) = a /\ AxisOf(YellowFor(a)) = a /\ AxisOf(AllRed) = NoAxis
         /\ GreenFor(a) # AllRed /\ YellowFor(a) # AllRed
         /\ \A b \in Axes : /\ GreenFor(a) # YellowFor(b)
                            /\ GreenFor(a) = GreenFor(b) => a = b
                            /\ YellowFor(a) = YellowFor(b) => a = b
BY DEF Axes, NorthSouth, EastWest, NoAxis, GreenFor, YellowFor, AllRed, Phases, AxisOf,
       IsGreen, IsYellow

LEMMA PhaseCases ==
  ASSUME NEW p \in Phases
  PROVE  p = AllRed \/ \E a \in Axes : p = GreenFor(a) \/ p = YellowFor(a)
BY DEF Axes, NorthSouth, EastWest, GreenFor, YellowFor, AllRed, Phases

-----------------------------------------------------------------------------
(***************************************************************************)
(* A phase machine that is stepped once a tick.  Its phase is so many      *)
(* ticks old, and it ends with the first tick that reaches its limit.      *)
(***************************************************************************)
Yellows   == Ticks(YellowTime)
AllReds   == Ticks(AllRedTime)
Greens    == Ticks(MaxGreen)
MinGreens == Ticks(MinGreen)

Age(m) == m.elapsed \div Dt

Limit(p) == IF IsGreen(p) THEN Greens ELSE IF IsYellow(p) THEN Yellows ELSE AllReds

Timed(m) ==
  /\ m \in Machine
  /\ Age(m) \in Nat /\ m.elapsed = Age(m) * Dt
  /\ Age(m) + 1 <= Limit(m.phase)
  /\ \A a \in Axes : m.phase = YellowFor(a) => m.next = OtherAxis(a)

Stays(m, n) ==
  /\ n = [phase |-> m.phase, elapsed |-> m.elapsed + Dt, next |-> m.next]
  /\ Age(n) = Age(m) + 1

Enters(n, p, next) == n = [phase |-> p, elapsed |-> 0, next |-> next] /\ Age(n) = 0

EndsGreen(m, n, a) ==
  /\ m.phase = GreenFor(a) /\ Age(m) + 1 >= MinGreens
  /\ Enters(n, YellowFor(a), OtherAxis(a))

EndsYellow(m, n, a) ==
  /\ m.phase = YellowFor(a) /\ m.next = OtherAxis(a)
  /\ Enters(n, AllRed, OtherAxis(a))

EndsAllRed(m, n, a) ==
  /\ m.phase = AllRed /\ m.next = a
  /\ Enters(n, GreenFor(a), a)

Turns(m, n) ==
  \/ Stays(m, n)
  \/ \E a \in Axes : EndsGreen(m, n, a) \/ EndsYellow(m, n, a) \/ EndsAllRed(m, n, a)

LEMMA LimitFacts ==
  /\ Yellows \in Nat \ {0} /\ AllReds \in Nat \ {0}
  /\ Greens \in Nat \ {0} /\ MinGreens \in Nat \ {0} /\ MinGreens <= Greens
  /\ \A k \in Nat : /\ k * Dt + Dt \in Nat
                    /\ k * Dt + Dt >= YellowTime <=> k + 1 >= Yellows
                    /\ k * Dt + Dt >= AllRedTime <=> k + 1 >= AllReds
                    /\ k * Dt + Dt >= MaxGreen <=> k + 1 >= Greens
                    /\ k * Dt + Dt >= MinGreen <=> k + 1 >= MinGreens
<1>0. Dt \in Nat \ {0} /\ {MinGreen, MaxGreen, YellowTime, AllRedTime} \subseteq Nat /\ MinGreen <= MaxGreen
  BY TwinAssumption, SettingsAssumption
<1>1. /\ Yellows \in Nat \ {0}
      /\ \A k \in Nat : k * Dt + Dt >= YellowTime <=> k + 1 >= Yellows
  BY <1>0, TicksFacts DEF Yellows
<1>2. /\ AllReds \in Nat \ {0}
      /\ \A k \in Nat : k * Dt + Dt >= AllRedTime <=> k + 1 >= AllReds
  BY <1>0, TicksFacts DEF AllReds
<1>3. /\ Greens \in Nat \ {0}
      /\ \A k \in Nat : k * Dt + Dt >= MaxGreen <=> k + 1 >= Greens
  BY <1>0, TicksFacts DEF Greens
<1>4. /\ MinGreens \in Nat \ {0}
      /\ \A k \in Nat : k * Dt + Dt >= MinGreen <=> k + 1 >= MinGreens
  BY <1>0, TicksFacts DEF MinGreens
<1>5. \A k \in Nat : k * Dt \in Nat /\ k * Dt + Dt \in Nat
  BY <1>0, Products
<1>6. MinGreens <= Greens
  <2> DEFINE k == Greens - 1
  <2>1. k \in Nat /\ k + 1 = Greens
    BY <1>3
  <2> HIDE DEF k
  <2>2. k * Dt + Dt >= MaxGreen /\ k * Dt + Dt \in Nat
    BY <1>3, <1>5, <2>1
  <2>3. k * Dt + Dt >= MinGreen
    BY <1>0, <2>2
  <2> QED BY <1>3, <1>4, <2>1, <2>3
<1> QED BY <1>1, <1>2, <1>3, <1>4, <1>5, <1>6

LEMMA AgeFacts ==
  ASSUME NEW k \in Nat
  PROVE  (k * Dt) \div Dt = k /\ 0 \div Dt = 0 /\ 0 * Dt = 0
<1>0. Dt \in Nat \ {0}
  BY TwinAssumption
<1>1. ASSUME NEW n \in Nat PROVE (n * Dt) \div Dt = n
  <2> DEFINE q == (n * Dt) \div Dt
  <2>1. n * Dt \in Nat
    BY <1>0, Products
  <2>2. q \in Nat /\ q * Dt <= n * Dt /\ n * Dt < q * Dt + Dt
    BY <1>0, <2>1, Quotient
  <2> HIDE DEF q
  <2>3. ~(n < q)
    <3> SUFFICES ASSUME n < q PROVE FALSE
      OBVIOUS
    <3>1. (n + 1) * Dt <= q * Dt /\ (n + 1) * Dt = n * Dt + Dt /\ q * Dt \in Nat
      BY <1>0, <2>2, Products
    <3> QED BY <1>0, <2>1, <2>2, <3>1
  <2>4. ~(q < n)
    <3> SUFFICES ASSUME q < n PROVE FALSE
      OBVIOUS
    <3>1. (q + 1) * Dt <= n * Dt /\ (q + 1) * Dt = q * Dt + Dt /\ q * Dt \in Nat
      BY <1>0, <2>2, Products
    <3> QED BY <1>0, <2>1, <2>2, <3>1
  <2> QED BY <2>2, <2>3, <2>4 DEF q
<1>2. 0 * Dt = 0
  BY <1>0
<1> QED BY <1>1, <1>2

(***************************************************************************)
(* One tick of a machine: it stays in its phase or ends it, and a green is *)
(* not held against a request once it has lasted min_green_s.              *)
(***************************************************************************)
LEMMA StaysTimed ==
  ASSUME NEW m, Timed(m), NEW n, n = [phase |-> m.phase, elapsed |-> m.elapsed + Dt, next |-> m.next],
         Age(m) + 1 < Limit(m.phase)
  PROVE  Timed(n) /\ Stays(m, n)
<1>0. Dt \in Nat
  BY TwinAssumption
<1>1. /\ m \in Machine /\ m.phase \in Phases /\ m.next \in Axes
      /\ Age(m) \in Nat /\ m.elapsed = Age(m) * Dt /\ m.elapsed \in Nat
  BY DEF Timed, Machine
<1>2. /\ Age(m) + 1 \in Nat /\ (Age(m) + 1) * Dt = m.elapsed + Dt
  BY <1>0, <1>1, Products
<1>3. n.elapsed = (Age(m) + 1) * Dt
  BY <1>2
<1>4. Age(n) = Age(m) + 1
  BY <1>2, <1>3, AgeFacts DEF Age
<1>5. n \in Machine /\ n.phase = m.phase /\ n.next = m.next
  BY <1>0, <1>1 DEF Machine
<1>6. Limit(m.phase) \in Nat
  BY LimitFacts DEF Limit
<1>7. \A a \in Axes : n.phase = YellowFor(a) => n.next = OtherAxis(a)
  BY <1>5 DEF Timed
<1>8. Age(n) \in Nat /\ Age(n) + 1 <= Limit(n.phase)
  BY <1>1, <1>4, <1>5, <1>6
<1>9. Timed(n)
  BY <1>3, <1>4, <1>5, <1>7, <1>8 DEF Timed
<1> QED BY <1>4, <1>9 DEF Stays

LEMMA EntersTimed ==
  ASSUME NEW p \in Phases, NEW next \in Axes,
         \A a \in Axes : p = YellowFor(a) => next = OtherAxis(a),
         NEW n, n = [phase |-> p, elapsed |-> 0, next |-> next]
  PROVE  Timed(n) /\ Enters(n, p, next)
<1>1. n \in Machine /\ n.phase = p /\ n.elapsed = 0 /\ n.next = next
  BY DEF Machine
<1>2. Age(n) = 0 /\ 0 * Dt = 0
  BY <1>1, AgeFacts DEF Age
<1>3. Limit(p) \in Nat \ {0}
  BY LimitFacts DEF Limit
<1> QED BY <1>1, <1>2, <1>3 DEF Timed, Enters

LEMMA EnterIsNew ==
  ASSUME NEW m \in Machine, NEW p \in Phases
  PROVE  Enter(m, p) = [phase |-> p, elapsed |-> 0, next |-> m.next]
<1>1. m = [phase |-> m.phase, elapsed |-> m.elapsed, next |-> m.next]
  BY DEF Machine
<1> DEFINE q == [m EXCEPT !.phase = p]
<1>2. q = [phase |-> p, elapsed |-> m.elapsed, next |-> m.next]
  BY <1>1
<1>3. Enter(m, p) = [q EXCEPT !.elapsed = 0]
  BY Zenon DEF Enter
<1> HIDE DEF q
<1>4. [q EXCEPT !.elapsed = 0] = [phase |-> p, elapsed |-> 0, next |-> m.next]
  BY <1>2
<1> QED BY <1>3, <1>4

LEMMA StepTurns ==
  ASSUME NEW m, Timed(m), NEW request
  PROVE  LET n == Step(m, Dt, request) IN
         /\ Timed(n) /\ Turns(m, n)
         /\ n.phase = m.phase /\ IsGreen(m.phase) /\ request => Age(m) + 1 < MinGreens
<1> DEFINE n    == Step(m, Dt, request)
           aged == [m EXCEPT !.elapsed = @ + Dt]
<1>1. /\ m \in Machine /\ m.phase \in Phases /\ m.next \in Axes /\ m.elapsed \in Nat
      /\ Age(m) \in Nat /\ m.elapsed = Age(m) * Dt /\ Age(m) + 1 <= Limit(m.phase)
      /\ \A a \in Axes : m.phase = YellowFor(a) => m.next = OtherAxis(a)
  BY DEF Timed, Machine
<1>2. /\ aged = [phase |-> m.phase, elapsed |-> m.elapsed + Dt, next |-> m.next]
      /\ aged.elapsed = m.elapsed + Dt /\ aged.next = m.next /\ aged.phase = m.phase
  BY <1>1 DEF Machine
<1>3. /\ m.elapsed + Dt >= YellowTime <=> Age(m) + 1 >= Yellows
      /\ m.elapsed + Dt >= AllRedTime <=> Age(m) + 1 >= AllReds
      /\ m.elapsed + Dt >= MaxGreen <=> Age(m) + 1 >= Greens
      /\ m.elapsed + Dt >= MinGreen <=> Age(m) + 1 >= MinGreens
      /\ Yellows \in Nat /\ AllReds \in Nat /\ Greens \in Nat /\ MinGreens \in Nat /\ MinGreens <= Greens
  BY <1>1, LimitFacts
<1>4. n = IF IsGreen(m.phase)
          THEN IF MayLeaveGreen(m.elapsed + Dt, request) THEN LeaveGreen(aged) ELSE aged
          ELSE IF IsYellow(m.phase)
          THEN IF m.elapsed + Dt >= YellowTime THEN Enter(aged, AllRed) ELSE aged
          ELSE IF m.elapsed + Dt >= AllRedTime THEN Enter(aged, GreenFor(m.next)) ELSE aged
  BY <1>2 DEF Step, AfterYellow
<1> HIDE DEF n, aged
<1>5. /\ Enter(aged, AllRed) = [phase |-> AllRed, elapsed |-> 0, next |-> m.next]
      /\ Enter(aged, GreenFor(m.next)) = [phase |-> GreenFor(m.next), elapsed |-> 0, next |-> m.next]
  <2>1. aged \in Machine
    BY <1>1, <1>2, TwinAssumption DEF Machine
  <2> QED BY <1>1, <1>2, <2>1, EnterIsNew, PhaseFacts
<1>6. ASSUME NEW a \in Axes, m.phase = GreenFor(a)
      PROVE  /\ Timed(n) /\ Turns(m, n)
             /\ n.phase = m.phase /\ request => Age(m) + 1 < MinGreens
  <2>1. IsGreen(m.phase) /\ AxisOf(m.phase) = a /\ Limit(m.phase) = Greens
    BY <1>6, PhaseFacts DEF Limit
  <2>2. CASE MayLeaveGreen(m.elapsed + Dt, request)
    <3>1. n = LeaveGreen(aged)
      BY <1>4, <2>1, <2>2
    <3>2. n = [phase |-> YellowFor(a), elapsed |-> 0, next |-> OtherAxis(a)]
      BY <1>2, <2>1, <3>1 DEF LeaveGreen, Enter
    <3>3. \A b \in Axes : YellowFor(a) = YellowFor(b) => OtherAxis(a) = OtherAxis(b)
      BY PhaseFacts
    <3>4. Timed(n) /\ Enters(n, YellowFor(a), OtherAxis(a))
      BY <3>2, <3>3, EntersTimed, PhaseFacts, AxisFacts
    <3>5. m.elapsed + Dt >= MaxGreen \/ m.elapsed + Dt >= MinGreen
      BY <2>2 DEF MayLeaveGreen
    <3>6. Age(m) + 1 >= MinGreens
      BY <1>1, <1>3, <3>5
    <3>7. n.phase # m.phase
      BY <1>6, <3>2, PhaseFacts
    <3> QED BY <1>6, <3>4, <3>6, <3>7 DEF Turns, EndsGreen
  <2>3. CASE ~MayLeaveGreen(m.elapsed + Dt, request)
    <3>1. n = aged
      BY <1>4, <2>1, <2>3
    <3>2. ~(m.elapsed + Dt >= MaxGreen) /\ (request => ~(m.elapsed + Dt >= MinGreen))
      BY <2>3 DEF MayLeaveGreen
    <3>3. Age(m) + 1 < Limit(m.phase)
      BY <1>1, <1>3, <2>1, <3>2
    <3>4. Timed(n) /\ Stays(m, n)
      BY <1>2, <3>1, <3>3, StaysTimed
    <3>5. ~(m.elapsed + Dt >= MinGreen) => Age(m) + 1 < MinGreens
      BY <1>1, <1>3
    <3> QED BY <3>2, <3>4, <3>5 DEF Turns
  <2> QED BY <2>2, <2>3
<1>7. ASSUME NEW a \in Axes, m.phase = YellowFor(a) PROVE Timed(n) /\ Turns(m, n)
  <2>1. ~IsGreen(m.phase) /\ IsYellow(m.phase) /\ Limit(m.phase) = Yellows /\ m.next = OtherAxis(a)
    BY <1>1, <1>7, PhaseFacts DEF Limit
  <2>2. CASE m.elapsed + Dt >= YellowTime
    <3>1. n = [phase |-> AllRed, elapsed |-> 0, next |-> OtherAxis(a)]
      BY <1>4, <1>5, <2>1, <2>2
    <3>2. Timed(n) /\ Enters(n, AllRed, OtherAxis(a))
      BY <3>1, EntersTimed, PhaseFacts, AxisFacts
    <3> QED BY <1>7, <2>1, <3>2 DEF Turns, EndsYellow
  <2>3. CASE ~(m.elapsed + Dt >= YellowTime)
    <3>1. n = aged
      BY <1>4, <2>1, <2>3
    <3>2. Age(m) + 1 < Limit(m.phase)
      BY <1>1, <1>3, <2>1, <2>3
    <3> QED BY <1>2, <3>1, <3>2, StaysTimed DEF Turns
  <2> QED BY <2>2, <2>3
<1>8. ASSUME m.phase = AllRed PROVE Timed(n) /\ Turns(m, n)
  <2>1. ~IsGreen(m.phase) /\ ~IsYellow(m.phase) /\ Limit(m.phase) = AllReds
    BY <1>1, <1>8, PhaseFacts DEF Limit
  <2>2. CASE m.elapsed + Dt >= AllRedTime
    <3>1. n = [phase |-> GreenFor(m.next), elapsed |-> 0, next |-> m.next]
      BY <1>4, <1>5, <2>1, <2>2
    <3>2. Timed(n) /\ Enters(n, GreenFor(m.next), m.next)
      BY <1>1, <3>1, EntersTimed, PhaseFacts
    <3> QED BY <1>1, <1>8, <3>2 DEF Turns, EndsAllRed
  <2>3. CASE ~(m.elapsed + Dt >= AllRedTime)
    <3>1. n = aged
      BY <1>4, <2>1, <2>3
    <3>2. Age(m) + 1 < Limit(m.phase)
      BY <1>1, <1>3, <2>1, <2>3
    <3> QED BY <1>2, <3>1, <3>2, StaysTimed DEF Turns
  <2> QED BY <2>2, <2>3
<1>9. \A a \in Axes : ~IsGreen(YellowFor(a)) /\ ~IsGreen(AllRed)
  BY PhaseFacts
<1> QED BY <1>1, <1>6, <1>7, <1>8, <1>9, PhaseCases DEF n

-----------------------------------------------------------------------------
(***************************************************************************)
(* How many ticks an axis may have been without green when a machine       *)
(* stands where it does, if the other axis's green lasts g ticks at most:  *)
(* the phases since its own green at their longest, and the age of the     *)
(* present one.                                                            *)
(***************************************************************************)
Before(a, m, g) ==
  LET b == OtherAxis(a) IN
  CASE m.phase = YellowFor(a)              -> 0
    [] m.phase = AllRed /\ m.next = b      -> Yellows
    [] m.phase = GreenFor(b)               -> Yellows + AllReds
    [] m.phase = YellowFor(b)              -> Yellows + AllReds + g
    [] OTHER                               -> Yellows + AllReds + g + Yellows

Going(a, m, g) == IF m.phase = GreenFor(a) THEN 0 ELSE Before(a, m, g) + Age(m) + 1

LEMMA GoingIs ==
  ASSUME NEW a \in Axes, NEW m, NEW g
  PROVE  LET b == OtherAxis(a) IN
         /\ m.phase = GreenFor(a) => Going(a, m, g) = 0
         /\ m.phase = YellowFor(a) => Going(a, m, g) = 0 + Age(m) + 1
         /\ m.phase = AllRed /\ m.next = b => Going(a, m, g) = Yellows + Age(m) + 1
         /\ m.phase = GreenFor(b) => Going(a, m, g) = Yellows + AllReds + Age(m) + 1
         /\ m.phase = YellowFor(b) => Going(a, m, g) = Yellows + AllReds + g + Age(m) + 1
         /\ m.phase = AllRed /\ m.next = a =>
              Going(a, m, g) = Yellows + AllReds + g + Yellows + Age(m) + 1
<1> DEFINE b == OtherAxis(a)
<1>1. b \in Axes /\ b # a
  BY AxisFacts
<1>2. /\ GreenFor(a) # YellowFor(a) /\ GreenFor(a) # AllRed /\ YellowFor(a) # AllRed
      /\ GreenFor(b) # YellowFor(b) /\ GreenFor(b) # AllRed /\ YellowFor(b) # AllRed
      /\ GreenFor(a) # YellowFor(b) /\ GreenFor(b) # YellowFor(a)
      /\ GreenFor(a) # GreenFor(b) /\ YellowFor(a) # YellowFor(b)
  BY <1>1, PhaseFacts
<1>3. Before(a, m, g) = CASE m.phase = YellowFor(a)              -> 0
                       [] m.phase = AllRed /\ m.next = b      -> Yellows
                       [] m.phase = GreenFor(b)               -> Yellows + AllReds
                       [] m.phase = YellowFor(b)              -> Yellows + AllReds + g
                       [] OTHER                               -> Yellows + AllReds + g + Yellows
  BY DEF Before
<1> HIDE DEF b
<1> QED BY <1>1, <1>2, <1>3 DEF Going, b

LEMMA CycleIs == Cycle = Yellows + AllReds + Greens + Yellows + AllReds
BY LimitFacts DEF Cycle, Clearance, Yellows, AllReds, Greens

\* The phases of a machine, from the point of view of an axis.
LEMMA Places ==
  ASSUME NEW a \in Axes, NEW m, Timed(m)
  PROVE  LET b == OtherAxis(a) IN
         \/ m.phase = GreenFor(a) /\ Age(m) + 1 <= Greens
         \/ m.phase = YellowFor(a) /\ Age(m) + 1 <= Yellows
         \/ m.phase = AllRed /\ m.next = b /\ Age(m) + 1 <= AllReds
         \/ m.phase = GreenFor(b) /\ Age(m) + 1 <= Greens
         \/ m.phase = YellowFor(b) /\ Age(m) + 1 <= Yellows
         \/ m.phase = AllRed /\ m.next = a /\ Age(m) + 1 <= AllReds
<1> DEFINE b == OtherAxis(a)
<1>1. b \in Axes /\ \A x \in Axes : x = a \/ x = b
  BY AxisFacts
<1>2. m.phase \in Phases /\ m.next \in Axes /\ Age(m) + 1 <= Limit(m.phase)
  BY DEF Timed, Machine
<1>3. /\ Limit(GreenFor(a)) = Greens /\ Limit(GreenFor(b)) = Greens
      /\ Limit(YellowFor(a)) = Yellows /\ Limit(YellowFor(b)) = Yellows /\ Limit(AllRed) = AllReds
  BY <1>1, PhaseFacts DEF Limit
<1>4. \/ m.phase = AllRed
      \/ m.phase = GreenFor(a) \/ m.phase = YellowFor(a)
      \/ m.phase = GreenFor(b) \/ m.phase = YellowFor(b)
  BY <1>1, <1>2, PhaseCases
<1> QED BY <1>1, <1>2, <1>3, <1>4

LEMMA GoingBound ==
  ASSUME NEW a \in Axes, NEW m, Timed(m), NEW g \in Nat,
         m.phase = GreenFor(OtherAxis(a)) => Age(m) + 1 <= g
  PROVE  Going(a, m, g) \in Nat /\ Going(a, m, g) <= Yellows + AllReds + g + Yellows + AllReds
<1>1. Yellows \in Nat /\ AllReds \in Nat /\ Age(m) \in Nat
  BY LimitFacts DEF Timed
<1> QED BY <1>1, GoingIs, Places

LEMMA GoingGrows ==
  ASSUME NEW a \in Axes, NEW m, Timed(m), NEW n, Timed(n), Turns(m, n), NEW g \in Nat,
         m.phase = GreenFor(OtherAxis(a)) => Age(m) + 1 <= g
  PROVE  n.phase = GreenFor(a) \/ Going(a, n, g) >= Going(a, m, g) + 1
<1> DEFINE b == OtherAxis(a)
<1>0. /\ Yellows \in Nat /\ AllReds \in Nat /\ Age(m) \in Nat
      /\ b \in Axes /\ OtherAxis(b) = a /\ b # a
  BY LimitFacts, AxisFacts DEF Timed
<1>1. CASE Stays(m, n)
  <2>1. n.phase = m.phase /\ n.next = m.next /\ Age(n) = Age(m) + 1
    BY <1>1 DEF Stays
  <2> QED BY <1>0, <2>1, GoingIs, Places
<1>2. ASSUME NEW x \in Axes, EndsGreen(m, n, x) PROVE n.phase = GreenFor(a) \/ Going(a, n, g) >= Going(a, m, g) + 1
  <2>1. m.phase = GreenFor(x) /\ n.phase = YellowFor(x) /\ Age(n) = 0
    BY <1>2 DEF EndsGreen, Enters
  <2>2. x = a \/ x = b
    BY AxisFacts
  <2> QED BY <1>0, <2>1, <2>2, GoingIs
<1>3. ASSUME NEW x \in Axes, EndsYellow(m, n, x) PROVE n.phase = GreenFor(a) \/ Going(a, n, g) >= Going(a, m, g) + 1
  <2>1. /\ m.phase = YellowFor(x) /\ n.phase = AllRed /\ n.next = OtherAxis(x)
        /\ Age(n) = 0 /\ Age(m) + 1 <= Yellows
    BY <1>3, PhaseFacts DEF EndsYellow, Enters, Timed, Limit
  <2>2. x = a \/ x = b
    BY AxisFacts
  <2> QED BY <1>0, <2>1, <2>2, GoingIs
<1>4. ASSUME NEW x \in Axes, EndsAllRed(m, n, x) PROVE n.phase = GreenFor(a) \/ Going(a, n, g) >= Going(a, m, g) + 1
  <2>1. m.phase = AllRed /\ m.next = x /\ n.phase = GreenFor(x) /\ Age(n) = 0 /\ Age(m) + 1 <= AllReds
    BY <1>4, PhaseFacts DEF EndsAllRed, Enters, Timed, Limit
  <2>2. x = a \/ x = b
    BY AxisFacts
  <2> QED BY <1>0, <2>1, <2>2, GoingIs
<1> QED BY <1>1, <1>2, <1>3, <1>4 DEF Turns

(***************************************************************************)
(* A machine turns along the transition table.                             *)
(***************************************************************************)
LEMMA TurnsLegally ==
  ASSUME NEW m, Timed(m), NEW n, Turns(m, n)
  PROVE  <<m.phase, n.phase>> \in Legal
<1>1. m.phase \in Phases
  BY DEF Timed, Machine
<1>2. CASE Stays(m, n)
  BY <1>1, <1>2 DEF Stays, Legal
<1>3. ASSUME NEW x \in Axes, EndsGreen(m, n, x) PROVE <<m.phase, n.phase>> \in Legal
  <2>1. m.phase = GreenFor(x) /\ n.phase = YellowFor(x)
    BY <1>3 DEF EndsGreen, Enters
  <2> QED BY <2>1 DEF Legal
<1>4. ASSUME NEW x \in Axes, EndsYellow(m, n, x) PROVE <<m.phase, n.phase>> \in Legal
  <2>1. m.phase = YellowFor(x) /\ n.phase = AllRed
    BY <1>4 DEF EndsYellow, Enters
  <2> QED BY <2>1 DEF Legal
<1>5. ASSUME NEW x \in Axes, EndsAllRed(m, n, x) PROVE <<m.phase, n.phase>> \in Legal
  <2>1. m.phase = AllRed /\ n.phase = GreenFor(x)
    BY <1>5 DEF EndsAllRed, Enters
  <2> QED BY <2>1 DEF Legal
<1> QED BY <1>2, <1>3, <1>4, <1>5 DEF Turns

-----------------------------------------------------------------------------
(***************************************************************************)
(* What a tick makes of an approach.                                       *)
(***************************************************************************)
LaneStates == [queue : 0..MaxQueue, capacity : Nat, moved : 0..MaxQueue, emergency : BOOLEAN]

LEMMA MinIs ==
  ASSUME NEW x \in Nat, NEW y \in Nat
  PROVE  Min({x, y}) = IF x <= y THEN x ELSE y
<1>1. \A z \in {x, y} : (\A w \in {x, y} : z <= w) <=> z = (IF x <= y THEN x ELSE y)
  OBVIOUS
<1> DEFINE least == IF x <= y THEN x ELSE y
<1>2. least \in {x, y} /\ \A w \in {x, y} : least <= w
  OBVIOUS
<1> QED BY <1>1, <1>2 DEF Min

LEMMA MaxIs ==
  ASSUME NEW x \in Nat
  PROVE  Max({0, x}) = x
<1>1. \A z \in {0, x} : (\A w \in {0, x} : z >= w) <=> z = x
  OBVIOUS
<1> QED BY <1>1 DEF Max

LEMMA LaneFacts ==
  ASSUME NEW lane \in LaneStates
  PROVE  /\ lane.queue \in 0..MaxQueue /\ lane.capacity \in Nat
         /\ lane.moved \in 0..MaxQueue /\ lane.emergency \in BOOLEAN
         /\ lane = [queue |-> lane.queue, capacity |-> lane.capacity,
                    moved |-> lane.moved, emergency |-> lane.emergency]
BY DEF LaneStates

LEMMA Rewritten ==
  ASSUME NEW lane \in LaneStates, NEW x, NEW y, NEW z
  PROVE  [lane EXCEPT !.queue = x, !.capacity = y, !.moved = z]
           = [queue |-> x, capacity |-> y, moved |-> z, emergency |-> lane.emergency]
<1> DEFINE p == [lane EXCEPT !.queue = x]
           q == [p EXCEPT !.capacity = y]
<1>1. p = [queue |-> x, capacity |-> lane.capacity, moved |-> lane.moved, emergency |-> lane.emergency]
  BY LaneFacts
<1>2. [lane EXCEPT !.queue = x, !.capacity = y, !.moved = z] = [q EXCEPT !.moved = z]
  BY Zenon
<1> HIDE DEF p
<1>3. q = [queue |-> x, capacity |-> y, moved |-> lane.moved, emergency |-> lane.emergency]
  BY <1>1
<1> HIDE DEF q
<1>4. [q EXCEPT !.moved = z] = [queue |-> x, capacity |-> y, moved |-> z, emergency |-> lane.emergency]
  BY <1>3
<1> QED BY <1>2, <1>4

(***************************************************************************)
(* Whoever is counted as moving is counted as present: an observation of   *)
(* the twin passes the validators.                                         *)
(***************************************************************************)
LEMMA ObservedIsAccepted ==
  ASSUME NEW lane \in LaneStates
  PROVE  Accepted(Observed(lane))
<1>0. MaxQueue \in Nat
  BY LoopAssumption
<1>1. lane.queue \in Nat /\ lane.moved \in Nat
  BY <1>0, LaneFacts
<1>2. Min({lane.moved, lane.queue}) = IF lane.moved <= lane.queue THEN lane.moved ELSE lane.queue
  BY <1>1, MinIs
<1> QED BY <1>1, <1>2 DEF Accepted, Observed

LEMMA HeldLane ==
  ASSUME NEW lane \in LaneStates, NEW arrivals \in 0..1, lane.queue + arrivals <= MaxQueue
  PROVE  /\ Held(lane, arrivals) \in LaneStates
         /\ Held(lane, arrivals).capacity = 0
         /\ Held(lane, arrivals).emergency = lane.emergency
<1>1. Held(lane, arrivals) = [queue |-> lane.queue + arrivals, capacity |-> 0,
                              moved |-> 0, emergency |-> lane.emergency]
  <2>1. Held(lane, arrivals) = [lane EXCEPT !.queue = lane.queue + arrivals, !.capacity = 0, !.moved = 0]
    BY Zenon DEF Held
  <2> QED BY <2>1, Rewritten
<1>2. MaxQueue \in Nat
  BY LoopAssumption
<1> QED BY <1>1, <1>2, LaneFacts DEF LaneStates

(***************************************************************************)
(* Under green nobody crosses for want of capacity only while what there   *)
(* is, the last tick's included, is short of a vehicle's.                  *)
(***************************************************************************)
LEMMA DrainedLane ==
  ASSUME NEW lane \in LaneStates, NEW arrivals \in 0..1, lane.queue + arrivals <= MaxQueue
  PROVE  LET r == Drained(lane, arrivals) IN
         /\ r \in LaneStates
         /\ r.emergency = lane.emergency
         /\ r.queue > 0 /\ r.moved = 0 =>
              r.capacity = lane.capacity + Saturation /\ r.capacity < PerVehicle
<1> DEFINE had == lane.capacity + Saturation
           can == had \div PerVehicle
           all == lane.queue + arrivals
           out == IF all <= can THEN all ELSE can
           r   == Drained(lane, arrivals)
<1>0. MaxQueue \in Nat /\ Saturation \in Nat \ {0} /\ PerVehicle \in Nat \ {0}
  BY LoopAssumption, TwinAssumption
<1>1. had \in Nat /\ all \in Nat /\ all <= MaxQueue
  BY <1>0, LaneFacts
<1>2. can \in Nat /\ can * PerVehicle <= had /\ had < can * PerVehicle + PerVehicle
  BY <1>0, <1>1, Quotient
<1>3. Discharge(lane, arrivals) = out
  BY <1>1, <1>2, MinIs DEF Discharge, Capacity
<1>4. out \in Nat /\ out <= all /\ out <= can
  <2> HIDE DEF all, can
  <2> QED BY <1>1, <1>2
<1>5. out * PerVehicle \in Nat /\ out * PerVehicle <= had
  <2>1. out * PerVehicle <= can * PerVehicle /\ out * PerVehicle \in Nat /\ can * PerVehicle \in Nat
    <3> HIDE DEF out, can
    <3> QED BY <1>0, <1>2, <1>4, Products
  <2> HIDE DEF out, can, had
  <2> QED BY <1>1, <1>2, <2>1
<1>6. r = [queue |-> all - out, capacity |-> had - out * PerVehicle,
           moved |-> out, emergency |-> lane.emergency]
  <2>1. r = [lane EXCEPT !.queue = lane.queue + arrivals - Discharge(lane, arrivals),
                         !.capacity = Capacity(lane) - Discharge(lane, arrivals) * PerVehicle,
                         !.moved = Discharge(lane, arrivals)]
    BY Zenon DEF Drained
  <2>2. Capacity(lane) = had /\ lane.queue + arrivals - out = all - out
    <3>1. lane.queue \in Nat /\ arrivals \in Nat
      BY <1>0, LaneFacts
    <3> HIDE DEF out
    <3> QED BY <1>4, <3>1 DEF Capacity
  <2> HIDE DEF out, r, had
  <2>3. r = [queue |-> lane.queue + arrivals - Discharge(lane, arrivals),
             capacity |-> Capacity(lane) - Discharge(lane, arrivals) * PerVehicle,
             moved |-> Discharge(lane, arrivals), emergency |-> lane.emergency]
    BY <2>1, Rewritten
  <2> HIDE DEF all
  <2> QED BY <1>3, <2>2, <2>3
<1>7. /\ all - out \in 0..MaxQueue /\ had - out * PerVehicle \in Nat /\ out \in 0..MaxQueue
  <2> HIDE DEF out, had, all
  <2> QED BY <1>0, <1>1, <1>4, <1>5
<1>8. all - out > 0 /\ out = 0 => had - out * PerVehicle = had /\ had < PerVehicle
  <2> SUFFICES ASSUME all - out > 0, out = 0 PROVE had - out * PerVehicle = had /\ had < PerVehicle
    OBVIOUS
  <2>1. can = 0
    <3> HIDE DEF all, can
    <3> QED BY <1>1, <1>2
  <2>2. out * PerVehicle = 0 /\ can * PerVehicle = 0
    <3>1. 0 * PerVehicle = 0
      BY <1>0
    <3> HIDE DEF out, can
    <3> QED BY <2>1, <3>1
  <2> HIDE DEF out, can, had
  <2> QED BY <1>0, <1>1, <1>2, <2>2
<1> HIDE DEF out, had, all
<1>9. lane.emergency \in BOOLEAN
  BY LaneFacts
<1>10. r \in LaneStates
  <2> HIDE DEF r
  <2> QED BY <1>6, <1>7, <1>9 DEF LaneStates
<1>11. r.emergency = lane.emergency
  <2> HIDE DEF r
  <2> QED BY <1>6
<1>12. r.queue = all - out /\ r.moved = out /\ r.capacity = had - out * PerVehicle
  BY <1>6
<1> HIDE DEF r
<1>13. r.queue > 0 /\ r.moved = 0 => r.capacity = had /\ r.capacity < PerVehicle
  BY <1>8, <1>12
<1> QED BY <1>10, <1>11, <1>13 DEF r, had

-----------------------------------------------------------------------------
(***************************************************************************)
(* The inductive invariant.  A wait is bounded because it never runs ahead *)
(* of what the machines account for; with the services that is the sum     *)
(* over both machines, and a cycle and a tick for every lost decision.     *)
(***************************************************************************)
Single == {"fixed_timer", "adaptive", "utility"}

\* The machine whose phase is commanded, but for the services.
Commanding == IF pilot = "fixed_timer" THEN fixed
              ELSE IF pilot = "utility" THEN machine ELSE adaptive.machine

Typed ==
  /\ pilot \in Single \cup {"services", "sumo"}
  /\ Timed(fixed) /\ Timed(adaptive.machine) /\ Timed(machine)
  /\ adaptive.since \in [Axes -> Nat] /\ utility.since \in [Axes -> Nat]
  /\ twin \in [phase : Phases, elapsed : Nat]
  /\ lanes \in [Lanes -> LaneStates]
  /\ signal \in [phase : Phases, elapsed : Nat, remaining : Nat]
  /\ tls \in [index : DOMAIN Program, left : Nat]
  /\ losses \in Nat /\ alarmed \in Nat
  /\ waited \in [Axes -> Nat] /\ stuck \in [Lanes -> Nat]

\* The twin shows what was commanded last.
Follows == twin.phase = IF pilot = "services" THEN signal.phase ELSE Commanding.phase

\* SUMO's program does not run out in the time the machine gives a phase.
ProgramHolds ==
  pilot = "sumo" => /\ tls.index = IndexOf(twin.phase)
                    /\ tls.left + (Age(Commanding) + 1) * Dt >= Duration(twin.phase)

WaitInv ==
  \A a \in Axes : waited[a] <=
    IF pilot = "services"
    THEN Going(a, fixed, Greens) + Going(a, adaptive.machine, Greens) + losses * (Cycle + 1)
    ELSE Going(a, Commanding, Greens)

\* Under its green a queue stands at most for want of capacity, for the time
\* of a crossing; a longer time began before that green.
StuckAt(d) ==
  LET a == AxisOfLane[d]
      c == lanes[d].capacity
  IN
  /\ Commanding.phase # GreenFor(a) =>
       c = 0 /\ stuck[d] <= CrossingTime - 1 + Going(a, Commanding, Greens)
  /\ Commanding.phase = GreenFor(a) =>
       \/ stuck[d] * Saturation <= c /\ (stuck[d] > 0 => c < PerVehicle)
       \/ /\ stuck[d] <= CrossingTime - 1 + Cycle + Age(Commanding) + 1
          /\ (Age(Commanding) + 1) * Saturation <= c
          /\ c < PerVehicle

StuckInv ==
  CrossingTime <= MinGreens =>
    \A d \in Lanes : IF pilot \in Single THEN StuckAt(d) ELSE stuck[d] = 0

Alarm == EmergencyAxisOf(lanes)

\* While an emergency waits, the other axis's green lasts min_green_s at most.
AlarmInv ==
  alarmed > 0 =>
    /\ pilot \in {"adaptive", "utility"}
    /\ Alarm \in Axes
    /\ Commanding.phase = GreenFor(OtherAxis(Alarm)) => Age(Commanding) + 1 <= MinGreens
    /\ alarmed <= Going(Alarm, Commanding, MinGreens)

IInv == Typed /\ Follows /\ ProgramHolds /\ WaitInv /\ StuckInv /\ AlarmInv

-----------------------------------------------------------------------------
(***************************************************************************)
(* Emergencies are on an axis or nowhere.                                  *)
(***************************************************************************)
LEMMA EmergencyFacts ==
  ASSUME NEW observed
  PROVE  EmergencyAxisOf(observed) \in Axes \cup {NoAxis}
<1> DEFINE T       == {d \in Lanes : observed[d].emergency}
           alarmedLanes == Subsequence(Directions, T)
<1>1. Directions \in Seq(Lanes) /\ AxisOfLane \in [Lanes -> Axes]
  BY TwinAssumption DEF Lanes
<1>2. alarmedLanes \in Seq(Lanes \cap T)
  BY <1>1, SubsequenceElements
<1>3. EmergencyAxisOf(observed) = IF alarmedLanes = <<>> THEN NoAxis ELSE AxisOfLane[Head(alarmedLanes)]
  BY DEF EmergencyAxisOf
<1> HIDE DEF alarmedLanes
<1>4. alarmedLanes # <<>> => Head(alarmedLanes) \in Lanes
  BY <1>2
<1> QED BY <1>1, <1>3, <1>4

\* What one tick of a machine does to it, urged if an emergency waits.
Moves(m, n, urged) ==
  /\ Timed(n) /\ Turns(m, n)
  /\ n.phase = m.phase /\ IsGreen(m.phase) /\ urged => Age(m) + 1 < MinGreens

LEMMA StepMoves ==
  ASSUME NEW m, Timed(m), NEW request, NEW urged, IsGreen(m.phase) /\ urged => request
  PROVE  Moves(m, Step(m, Dt, request), urged)
<1> DEFINE n == Step(m, Dt, request)
<1>1. /\ Timed(n) /\ Turns(m, n)
      /\ n.phase = m.phase /\ IsGreen(m.phase) /\ request => Age(m) + 1 < MinGreens
  BY StepTurns
<1> HIDE DEF n
<1>2. n.phase = m.phase /\ IsGreen(m.phase) /\ urged => Age(m) + 1 < MinGreens
  BY <1>1, Zenon
<1>3. Moves(m, n, urged)
  BY <1>1, <1>2, Zenon DEF Moves
<1> QED BY <1>3 DEF n

(***************************************************************************)
(* A tick of each controller.  Only the adaptive controller and the policy *)
(* look at emergencies.                                                    *)
(***************************************************************************)
Urged(m) == Alarm # NoAxis /\ AxisOf(m.phase) # Alarm

LEMMA FixedDecideMoves ==
  ASSUME NEW m, Timed(m)
  PROVE  Moves(m, FixedDecide(m), FALSE)
BY StepMoves DEF FixedDecide

LEMMA AdaptiveDecideMoves ==
  ASSUME NEW c, Timed(c.machine), c.since \in [Axes -> Nat]
  PROVE  /\ Moves(c.machine, AdaptiveDecide(c).machine, Urged(c.machine))
         /\ AdaptiveDecide(c).since \in [Axes -> Nat]
<1> DEFINE m       == c.machine
           active  == AxisOf(m.phase)
           since   == Tracked(c.since, active)
           request == WantsSwitch(since, active)
<1>1. AdaptiveDecide(c).machine = Step(m, Dt, request) /\ AdaptiveDecide(c).since = since
  BY DEF AdaptiveDecide
<1>2. since \in [Axes -> Nat]
  BY TwinAssumption DEF Tracked
<1>3. ASSUME IsGreen(m.phase), Urged(m) PROVE request
  <2>1. active # NoAxis
    BY <1>3 DEF IsGreen, AxisOf, NoAxis, NorthSouth, EastWest
  <2> HIDE DEF active, since
  <2> QED BY <1>3, <2>1, Zenon DEF WantsSwitch, Urged, Alarm, active
<1> HIDE DEF request, since
<1>4. IsGreen(m.phase) /\ Urged(m) => request
  BY <1>3
<1>5. Moves(m, Step(m, Dt, request), Urged(m))
  BY <1>4, StepMoves
<1> QED BY <1>1, <1>2, <1>5

LEMMA UtilityMoves ==
  ASSUME Typed, NEW predicted, UtilityTick(predicted)
  PROVE  /\ Moves(machine, machine', Urged(machine))
         /\ utility'.since \in [Axes -> Nat]
<1> DEFINE active  == AxisOf(machine.phase)
           desired == DesiredAxis(utility'.since, predicted)
           request == active \notin {NoAxis, desired}
<1>1. machine' = Step(machine, Dt, request) /\ utility' = Advanced(utility)
  BY DEF UtilityTick
<1>2. utility'.since \in [Axes -> Nat]
  BY <1>1, TwinAssumption DEF Advanced, Typed
<1>3. ASSUME Alarm # NoAxis PROVE desired = Alarm
  BY <1>3 DEF DesiredAxis, Alarm
<1>4. ASSUME IsGreen(machine.phase), Urged(machine) PROVE request
  <2>1. active # NoAxis
    BY <1>4 DEF IsGreen, AxisOf, NoAxis, NorthSouth, EastWest
  <2>2. active # Alarm /\ Alarm # NoAxis
    BY <1>4 DEF Urged
  <2> HIDE DEF active, desired
  <2> QED BY <1>3, <2>1, <2>2
<1> HIDE DEF request
<1>5. IsGreen(machine.phase) /\ Urged(machine) => request
  BY <1>4
<1>6. Timed(machine)
  BY DEF Typed
<1>7. Moves(machine, Step(machine, Dt, request), Urged(machine))
  BY <1>5, <1>6, StepMoves
<1> QED BY <1>1, <1>2, <1>7

Watches(m) == pilot \in {"adaptive", "utility"} /\ Urged(m)

(***************************************************************************)
(* A tick under a single controller: its machine moves, the others stand,  *)
(* and the twin is driven by the phase the machine moved to.               *)
(***************************************************************************)
LEMMA SingleMoves ==
  ASSUME Typed, Next, pilot \in Single
  PROVE  /\ pilot' = pilot /\ signal' = signal /\ losses' = losses
         /\ Timed(fixed') /\ Timed(adaptive'.machine) /\ Timed(machine')
         /\ adaptive'.since \in [Axes -> Nat] /\ utility'.since \in [Axes -> Nat]
         /\ Moves(Commanding, Commanding', Watches(Commanding))
         /\ Drive(Commanding'.phase)
<1>1. /\ Timed(fixed) /\ Timed(adaptive.machine) /\ Timed(machine)
      /\ adaptive.since \in [Axes -> Nat] /\ utility.since \in [Axes -> Nat]
  BY DEF Typed
<1>2. pilot \notin {"services", "sumo"}
  BY DEF Single
<1>3. CASE FixedTick
  <2>1. /\ pilot = "fixed_timer" /\ fixed' = FixedDecide(fixed) /\ Drive(fixed'.phase)
        /\ UNCHANGED <<pilot, adaptive, utility, machine, signal, losses>>
    BY <1>3 DEF FixedTick
  <2>2. Commanding = fixed /\ Commanding' = fixed'
    BY <2>1 DEF Commanding
  <2>3. Moves(fixed, fixed', FALSE)
    BY <1>1, <2>1, FixedDecideMoves
  <2>4. Moves(fixed, fixed', Watches(fixed))
    BY <2>1, <2>3 DEF Moves, Watches
  <2>5. Timed(fixed')
    BY <2>3 DEF Moves
  <2>6. adaptive' = adaptive /\ utility' = utility /\ machine' = machine
    BY <2>1
  <2> QED BY <1>1, <2>1, <2>2, <2>4, <2>5, <2>6
<1>4. CASE AdaptiveTick
  <2>1. /\ pilot = "adaptive" /\ adaptive' = AdaptiveDecide(adaptive) /\ Drive(adaptive'.machine.phase)
        /\ UNCHANGED <<pilot, fixed, utility, machine, signal, losses>>
    BY <1>4 DEF AdaptiveTick
  <2>2. Commanding = adaptive.machine /\ Commanding' = adaptive'.machine
    BY <2>1 DEF Commanding
  <2>3. /\ Moves(adaptive.machine, adaptive'.machine, Urged(adaptive.machine))
        /\ adaptive'.since \in [Axes -> Nat]
    BY <1>1, <2>1, AdaptiveDecideMoves
  <2>4. Moves(adaptive.machine, adaptive'.machine, Watches(adaptive.machine))
    BY <2>3, Zenon DEF Moves, Watches
  <2>5. Timed(adaptive'.machine)
    BY <2>3 DEF Moves
  <2>6. fixed' = fixed /\ utility' = utility /\ machine' = machine
    BY <2>1
  <2> QED BY <1>1, <2>1, <2>2, <2>3, <2>4, <2>5, <2>6
<1>5. ASSUME NEW predicted, UtilityTick(predicted)
      PROVE  /\ pilot' = pilot /\ signal' = signal /\ losses' = losses
             /\ Timed(fixed') /\ Timed(adaptive'.machine) /\ Timed(machine')
             /\ adaptive'.since \in [Axes -> Nat] /\ utility'.since \in [Axes -> Nat]
             /\ Moves(Commanding, Commanding', Watches(Commanding))
             /\ Drive(Commanding'.phase)
  <2>1. /\ pilot = "utility" /\ Drive(machine'.phase)
        /\ UNCHANGED <<pilot, fixed, adaptive, signal, losses>>
    BY <1>5 DEF UtilityTick
  <2>2. Commanding = machine /\ Commanding' = machine'
    BY <2>1 DEF Commanding
  <2>3. Moves(machine, machine', Urged(machine)) /\ utility'.since \in [Axes -> Nat]
    BY <1>5, UtilityMoves
  <2>4. Moves(machine, machine', Watches(machine))
    BY <2>3, Zenon DEF Moves, Watches
  <2>5. Timed(machine')
    BY <2>3 DEF Moves
  <2>6. fixed' = fixed /\ adaptive' = adaptive
    BY <2>1
  <2> QED BY <1>1, <2>1, <2>2, <2>3, <2>4, <2>5, <2>6
<1>6. ~SumoTick /\ \A trusted, published \in BOOLEAN, runs \in 1..(MaxRetries + 1) :
        ~ServicesTick(trusted, runs, published)
  BY <1>2 DEF SumoTick, ServicesTick
<1> QED BY <1>3, <1>4, <1>5, <1>6 DEF Next

(***************************************************************************)
(* What a step of the twin leaves behind.                                  *)
(***************************************************************************)
LEMMA DriveFacts ==
  ASSUME Typed, NEW p \in Phases, Drive(p)
  PROVE  /\ twin' \in [phase : Phases, elapsed : Nat] /\ twin'.phase = p
         /\ lanes' \in [Lanes -> LaneStates]
         /\ \A d \in Lanes :
              /\ p # GreenFor(AxisOfLane[d]) => lanes'[d].capacity = 0
              /\ p = GreenFor(AxisOfLane[d]) /\ lanes'[d].queue > 0 /\ lanes'[d].moved = 0 =>
                   /\ lanes'[d].capacity = lanes[d].capacity + Saturation
                   /\ lanes'[d].capacity < PerVehicle
         /\ Watch(p) /\ tls' = tls
<1>1. PICK arrivals \in [Lanes -> 0..1], emergencies \in SUBSET Lanes :
        /\ \A d \in Lanes : lanes[d].queue + arrivals[d] <= MaxQueue
        /\ TwinStep(p, arrivals, emergencies)
        /\ Watch(p) /\ tls' = tls
  BY DEF Drive
<1>2. twin \in [phase : Phases, elapsed : Nat] /\ lanes \in [Lanes -> LaneStates]
  BY DEF Typed
<1>3. twin' \in [phase : Phases, elapsed : Nat] /\ twin'.phase = p
  <2>1. twin' = IF p = twin.phase THEN [twin EXCEPT !.elapsed = @ + Dt] ELSE [phase |-> p, elapsed |-> 0]
    BY <1>1 DEF TwinStep
  <2>2. twin = [phase |-> twin.phase, elapsed |-> twin.elapsed] /\ twin.elapsed \in Nat
    BY <1>2
  <2>3. CASE p = twin.phase
    <3>1. twin' = [phase |-> p, elapsed |-> twin.elapsed + Dt]
      BY <2>1, <2>2, <2>3
    <3> QED BY <2>2, <3>1, TwinAssumption
  <2>4. CASE p # twin.phase
    BY <2>1, <2>4
  <2> QED BY <2>3, <2>4
<1> DEFINE lane(d)  == [lanes[d] EXCEPT !.emergency = d \in emergencies]
           after(d) == IF p = GreenFor(AxisOfLane[d]) THEN Drained(lane(d), arrivals[d])
                                                      ELSE Held(lane(d), arrivals[d])
<1>4. lanes' = [d \in Lanes |-> after(d)]
  BY <1>1 DEF TwinStep
<1>5. ASSUME NEW d \in Lanes
      PROVE  /\ lane(d) \in LaneStates /\ arrivals[d] \in 0..1
             /\ lane(d).queue + arrivals[d] <= MaxQueue
             /\ lane(d).capacity = lanes[d].capacity
  <2>1. lanes[d] \in LaneStates
    BY <1>2
  <2>2. lane(d) = [queue |-> lanes[d].queue, capacity |-> lanes[d].capacity,
                   moved |-> lanes[d].moved, emergency |-> d \in emergencies]
    BY <2>1 DEF LaneStates
  <2>3. (d \in emergencies) \in BOOLEAN
    OBVIOUS
  <2> HIDE DEF lane
  <2>4. lane(d) \in LaneStates
    BY <2>1, <2>2, <2>3, LaneFacts DEF LaneStates
  <2> QED BY <1>1, <2>2, <2>4
<1> HIDE DEF lane
<1>6. ASSUME NEW d \in Lanes
      PROVE  /\ after(d) \in LaneStates
             /\ p # GreenFor(AxisOfLane[d]) => after(d).capacity = 0
             /\ p = GreenFor(AxisOfLane[d]) /\ after(d).queue > 0 /\ after(d).moved = 0 =>
                  /\ after(d).capacity = lanes[d].capacity + Saturation
                  /\ after(d).capacity < PerVehicle
  <2>1. CASE p = GreenFor(AxisOfLane[d])
    <3>1. after(d) = Drained(lane(d), arrivals[d])
      BY <2>1
    <3> QED BY <1>5, <2>1, <3>1, DrainedLane
  <2>2. CASE p # GreenFor(AxisOfLane[d])
    <3>1. after(d) = Held(lane(d), arrivals[d])
      BY <2>2
    <3> QED BY <1>5, <2>2, <3>1, HeldLane
  <2> QED BY <2>1, <2>2
<1> HIDE DEF after
<1> QED BY <1>1, <1>3, <1>4, <1>6

(***************************************************************************)
(* The histories, as the watch leaves them.                                *)
(***************************************************************************)
LEMMA WatchFacts ==
  ASSUME Typed, NEW p, Watch(p)
  PROVE  /\ waited' \in [Axes -> Nat]
         /\ \A a \in Axes : waited'[a] = IF p = GreenFor(a) THEN 0 ELSE waited[a] + 1
         /\ stuck' \in [Lanes -> Nat]
         /\ \A d \in Lanes : \/ stuck'[d] = 0
                             \/ /\ pilot \notin {"services", "sumo"}
                                /\ stuck'[d] = stuck[d] + 1
                                /\ lanes'[d].queue > 0 /\ lanes'[d].moved = 0
         /\ alarmed' \in Nat
         /\ alarmed' = 0 \/ /\ alarmed' = alarmed + 1
                            /\ pilot \in {"adaptive", "utility"}
                            /\ Alarm' = Alarm /\ Alarm \in Axes
                            /\ p # GreenFor(Alarm)
<1>1. /\ waited' = [a \in Axes |-> IF p = GreenFor(a) THEN 0 ELSE waited[a] + 1]
      /\ stuck' = [d \in Lanes |->
                 IF pilot \notin {"services", "sumo"} /\ lanes'[d].queue > 0 /\ lanes'[d].moved = 0
                 THEN stuck[d] + 1 ELSE 0]
      /\ alarmed' = IF /\ pilot \in {"adaptive", "utility"}
                       /\ EmergencyAxisOf(lanes') = EmergencyAxisOf(lanes)
                       /\ EmergencyAxisOf(lanes') # NoAxis
                       /\ p # GreenFor(EmergencyAxisOf(lanes'))
                    THEN alarmed + 1 ELSE 0
  BY DEF Watch
<1>2. waited \in [Axes -> Nat] /\ stuck \in [Lanes -> Nat] /\ alarmed \in Nat
  BY DEF Typed
<1>3. Alarm = EmergencyAxisOf(lanes) /\ Alarm' = EmergencyAxisOf(lanes') /\ Alarm \in Axes \cup {NoAxis}
  BY EmergencyFacts DEF Alarm
<1>4. /\ waited' \in [Axes -> Nat]
      /\ \A a \in Axes : waited'[a] = IF p = GreenFor(a) THEN 0 ELSE waited[a] + 1
  BY <1>1, <1>2
<1>5. stuck' \in [Lanes -> Nat]
  BY <1>1, <1>2
<1>6. \A d \in Lanes : \/ stuck'[d] = 0
                       \/ /\ pilot \notin {"services", "sumo"}
                          /\ stuck'[d] = stuck[d] + 1
                          /\ lanes'[d].queue > 0 /\ lanes'[d].moved = 0
  BY <1>1
<1>7. alarmed' \in Nat /\
      (alarmed' = 0 \/ /\ alarmed' = alarmed + 1
                       /\ pilot \in {"adaptive", "utility"}
                       /\ Alarm' = Alarm /\ Alarm \in Axes
                       /\ p # GreenFor(Alarm))
  BY <1>1, <1>2, <1>3
<1> QED BY <1>4, <1>5, <1>6, <1>7

-----------------------------------------------------------------------------
(***************************************************************************)
(* The handler of the services may run several times on one state.  By     *)
(* induction over their number, each run leaves the machine in step.       *)
(***************************************************************************)
LEMMA FixedRunsExist ==
  ASSUME NEW x
  PROVE  \A m \in Nat : \E f : f = [n \in 0..m |-> IF n = 0 THEN x ELSE FixedDecide(f[n - 1])]
<1> DEFINE Good == {m \in Nat : \E f : f = [n \in 0..m |-> IF n = 0 THEN x ELSE FixedDecide(f[n - 1])]}
<1>1. 0 \in Good
  <2> DEFINE f == [n \in 0..0 |-> x]
  <2>1. f = [n \in 0..0 |-> IF n = 0 THEN x ELSE FixedDecide(f[n - 1])]
    OBVIOUS
  <2> HIDE DEF f
  <2> QED BY <2>1
<1>2. ASSUME NEW m \in Nat, m \in Good PROVE m + 1 \in Good
  <2>1. PICK f : f = [n \in 0..m |-> IF n = 0 THEN x ELSE FixedDecide(f[n - 1])]
    BY <1>2
  <2> DEFINE g == [n \in 0..(m + 1) |-> IF n <= m THEN f[n] ELSE FixedDecide(f[m])]
             h == [n \in 0..(m + 1) |-> IF n = 0 THEN x ELSE FixedDecide(g[n - 1])]
  <2>2. ASSUME NEW n \in 0..(m + 1) PROVE g[n] = h[n]
    <3>1. CASE n = 0
      BY <2>1, <3>1
    <3>2. CASE n # 0 /\ n <= m
      <4>1. g[n] = f[n] /\ f[n] = FixedDecide(f[n - 1])
        BY <2>1, <3>2
      <4>2. g[n - 1] = f[n - 1]
        BY <3>2
      <4>3. h[n] = FixedDecide(g[n - 1])
        BY <3>2
      <4> HIDE DEF g, h
      <4> QED BY <4>1, <4>2, <4>3
    <3>3. CASE n = m + 1
      <4>1. g[n] = FixedDecide(f[m])
        BY <3>3
      <4>2. n - 1 = m /\ g[m] = f[m]
        BY <3>3
      <4>3. h[n] = FixedDecide(g[n - 1])
        BY <3>3
      <4> HIDE DEF g, h
      <4> QED BY <4>1, <4>2, <4>3
    <3> QED BY <3>1, <3>2, <3>3
  <2>3. g = h
    BY <2>2
  <2> HIDE DEF g
  <2> QED BY <2>3
<1> HIDE DEF Good
<1>3. \A m \in Nat : m \in Good
  BY <1>1, <1>2, SetInduction
<1> QED BY <1>3 DEF Good

LEMMA FixedAfterFacts ==
  ASSUME Timed(fixed), NEW runs \in Nat
  PROVE  /\ Timed(FixedAfter(runs))
         /\ runs = 1 => FixedAfter(runs) = FixedDecide(fixed)
<1> DEFINE f == CHOOSE f : f = [n \in 0..runs |-> IF n = 0 THEN fixed ELSE FixedDecide(f[n - 1])]
<1>1. f = [n \in 0..runs |-> IF n = 0 THEN fixed ELSE FixedDecide(f[n - 1])]
  BY FixedRunsExist
<1>2. FixedAfter(runs) = f[runs]
  BY DEF FixedAfter
<1> HIDE DEF f
<1> DEFINE Good == {n \in Nat : n <= runs => Timed(f[n])}
<1>3. f[0] = fixed /\ \A n \in Nat : n + 1 <= runs => f[n + 1] = FixedDecide(f[n])
  <2>1. f[0] = fixed
    BY <1>1
  <2>2. ASSUME NEW n \in Nat, n + 1 <= runs PROVE f[n + 1] = FixedDecide(f[n])
    <3>1. n + 1 \in 0..runs /\ (n + 1) - 1 = n /\ n + 1 # 0
      BY <2>2
    <3>2. f[n + 1] = FixedDecide(f[(n + 1) - 1])
      BY <1>1, <3>1
    <3> QED BY <3>1, <3>2
  <2> QED BY <2>1, <2>2
<1>4. 0 \in Good
  BY <1>3
<1>5. ASSUME NEW n \in Nat, n \in Good PROVE n + 1 \in Good
  <2> SUFFICES ASSUME n + 1 <= runs PROVE Timed(f[n + 1])
    OBVIOUS
  <2>1. Timed(f[n])
    BY <1>5
  <2>2. f[n + 1] = FixedDecide(f[n])
    BY <1>3
  <2> QED BY <2>1, <2>2, FixedDecideMoves DEF Moves
<1> HIDE DEF Good
<1>6. \A n \in Nat : n \in Good
  BY <1>4, <1>5, SetInduction
<1>7. Timed(f[runs])
  BY <1>6 DEF Good
<1>8. runs = 1 => f[runs] = FixedDecide(fixed)
  <2> SUFFICES ASSUME runs = 1 PROVE f[1] = FixedDecide(fixed)
    OBVIOUS
  <2>1. f[0 + 1] = FixedDecide(f[0])
    BY <1>3
  <2> QED BY <1>3, <2>1
<1> QED BY <1>2, <1>7, <1>8

LEMMA AdaptiveRunsExist ==
  ASSUME NEW x
  PROVE  \A m \in Nat : \E f : f = [n \in 0..m |-> IF n = 0 THEN x ELSE AdaptiveDecide(f[n - 1])]
<1> DEFINE Good == {m \in Nat : \E f : f = [n \in 0..m |-> IF n = 0 THEN x ELSE AdaptiveDecide(f[n - 1])]}
<1>1. 0 \in Good
  <2> DEFINE f == [n \in 0..0 |-> x]
  <2>1. f = [n \in 0..0 |-> IF n = 0 THEN x ELSE AdaptiveDecide(f[n - 1])]
    OBVIOUS
  <2> HIDE DEF f
  <2> QED BY <2>1
<1>2. ASSUME NEW m \in Nat, m \in Good PROVE m + 1 \in Good
  <2>1. PICK f : f = [n \in 0..m |-> IF n = 0 THEN x ELSE AdaptiveDecide(f[n - 1])]
    BY <1>2
  <2> DEFINE g == [n \in 0..(m + 1) |-> IF n <= m THEN f[n] ELSE AdaptiveDecide(f[m])]
             h == [n \in 0..(m + 1) |-> IF n = 0 THEN x ELSE AdaptiveDecide(g[n - 1])]
  <2>2. ASSUME NEW n \in 0..(m + 1) PROVE g[n] = h[n]
    <3>1. CASE n = 0
      BY <2>1, <3>1
    <3>2. CASE n # 0 /\ n <= m
      <4>1. g[n] = f[n] /\ f[n] = AdaptiveDecide(f[n - 1])
        BY <2>1, <3>2
      <4>2. g[n - 1] = f[n - 1]
        BY <3>2
      <4>3. h[n] = AdaptiveDecide(g[n - 1])
        BY <3>2
      <4> HIDE DEF g, h
      <4> QED BY <4>1, <4>2, <4>3
    <3>3. CASE n = m + 1
      <4>1. g[n] = AdaptiveDecide(f[m])
        BY <3>3
      <4>2. n - 1 = m /\ g[m] = f[m]
        BY <3>3
      <4>3. h[n] = AdaptiveDecide(g[n - 1])
        BY <3>3
      <4> HIDE DEF g, h
      <4> QED BY <4>1, <4>2, <4>3
    <3> QED BY <3>1, <3>2, <3>3
  <2>3. g = h
    BY <2>2
  <2> HIDE DEF g
  <2> QED BY <2>3
<1> HIDE DEF Good
<1>3. \A m \in Nat : m \in Good
  BY <1>1, <1>2, SetInduction
<1> QED BY <1>3 DEF Good

LEMMA AdaptiveAfterFacts ==
  ASSUME Timed(adaptive.machine), adaptive.since \in [Axes -> Nat], NEW runs \in Nat
  PROVE  /\ Timed(AdaptiveAfter(runs).machine) /\ AdaptiveAfter(runs).since \in [Axes -> Nat]
         /\ runs = 1 => AdaptiveAfter(runs) = AdaptiveDecide(adaptive)
<1> DEFINE f == CHOOSE f : f = [n \in 0..runs |-> IF n = 0 THEN adaptive ELSE AdaptiveDecide(f[n - 1])]
<1>1. f = [n \in 0..runs |-> IF n = 0 THEN adaptive ELSE AdaptiveDecide(f[n - 1])]
  BY AdaptiveRunsExist
<1>2. AdaptiveAfter(runs) = f[runs]
  BY DEF AdaptiveAfter
<1> HIDE DEF f
<1> DEFINE Good == {n \in Nat : n <= runs => Timed(f[n].machine) /\ f[n].since \in [Axes -> Nat]}
<1>3. f[0] = adaptive /\ \A n \in Nat : n + 1 <= runs => f[n + 1] = AdaptiveDecide(f[n])
  <2>1. f[0] = adaptive
    BY <1>1
  <2>2. ASSUME NEW n \in Nat, n + 1 <= runs PROVE f[n + 1] = AdaptiveDecide(f[n])
    <3>1. n + 1 \in 0..runs /\ (n + 1) - 1 = n /\ n + 1 # 0
      BY <2>2
    <3>2. f[n + 1] = AdaptiveDecide(f[(n + 1) - 1])
      BY <1>1, <3>1
    <3> QED BY <3>1, <3>2
  <2> QED BY <2>1, <2>2
<1>4. 0 \in Good
  BY <1>3
<1>5. ASSUME NEW n \in Nat, n \in Good PROVE n + 1 \in Good
  <2> SUFFICES ASSUME n + 1 <= runs PROVE Timed(f[n + 1].machine) /\ f[n + 1].since \in [Axes -> Nat]
    OBVIOUS
  <2>1. Timed(f[n].machine) /\ f[n].since \in [Axes -> Nat]
    BY <1>5
  <2>2. f[n + 1] = AdaptiveDecide(f[n])
    BY <1>3
  <2> QED BY <2>1, <2>2, AdaptiveDecideMoves DEF Moves
<1> HIDE DEF Good
<1>6. \A n \in Nat : n \in Good
  BY <1>4, <1>5, SetInduction
<1>7. Timed(f[runs].machine) /\ f[runs].since \in [Axes -> Nat]
  BY <1>6 DEF Good
<1>8. runs = 1 => f[runs] = AdaptiveDecide(adaptive)
  <2> SUFFICES ASSUME runs = 1 PROVE f[1] = AdaptiveDecide(adaptive)
    OBVIOUS
  <2>1. f[0 + 1] = AdaptiveDecide(f[0])
    BY <1>3
  <2> QED BY <1>3, <2>1
<1> QED BY <1>2, <1>7, <1>8

LEMMA AppliedFacts ==
  ASSUME Typed, NEW m, Timed(m), NEW duration \in Nat
  PROVE  /\ Applied(m.phase, duration) \in [phase : Phases, elapsed : Nat, remaining : Nat]
         /\ Applied(m.phase, duration).phase = m.phase
<1>1. m.phase \in Phases /\ signal.elapsed \in Nat
  BY DEF Typed, Timed, Machine
<1> QED BY <1>1 DEF Applied

(***************************************************************************)
(* A tick of the services: one machine has run, once if nothing was lost,  *)
(* and then the lamps are its.                                             *)
(***************************************************************************)
LEMMA ServicesMoves ==
  ASSUME Typed, NEW trusted \in BOOLEAN, NEW published \in BOOLEAN, NEW runs \in 1..(MaxRetries + 1),
         ServicesTick(trusted, runs, published)
  PROVE  /\ pilot = "services" /\ pilot' = pilot /\ machine' = machine /\ utility' = utility
         /\ Timed(fixed') /\ Timed(adaptive'.machine) /\ adaptive'.since \in [Axes -> Nat]
         /\ signal' \in [phase : Phases, elapsed : Nat, remaining : Nat]
         /\ fixed' = fixed \/ adaptive' = adaptive
         /\ losses' = losses \/ losses' = losses + 1
         /\ Drive(signal'.phase)
         /\ losses' = losses =>
              \/ /\ inCharge' = "fixed_timer" /\ adaptive' = adaptive
                 /\ Turns(fixed, fixed') /\ signal'.phase = fixed'.phase
              \/ /\ inCharge' = "adaptive" /\ fixed' = fixed
                 /\ Turns(adaptive.machine, adaptive'.machine) /\ signal'.phase = adaptive'.machine.phase
<1>1. /\ pilot = "services" /\ UNCHANGED <<pilot, utility, machine>>
      /\ losses' = losses + IF published /\ runs = 1 THEN 0 ELSE 1
      /\ inCharge' = IF trusted THEN "adaptive" ELSE "fixed_timer"
      /\ IF trusted THEN Trust(runs) ELSE FallBack(runs)
      /\ IF published THEN Actuate(trusted) ELSE UNCHANGED signal
      /\ Drive(signal'.phase)
  BY DEF ServicesTick
<1>2. /\ Timed(fixed) /\ Timed(adaptive.machine) /\ adaptive.since \in [Axes -> Nat]
      /\ signal \in [phase : Phases, elapsed : Nat, remaining : Nat] /\ losses \in Nat
  BY DEF Typed
<1>3. runs \in Nat /\ MinGreen \in Nat /\ GreenTime \in Nat
  BY LoopAssumption, SettingsAssumption, ControllersAssumption
<1>4. losses' = losses \/ losses' = losses + 1
  BY <1>1, <1>2
<1>5. losses' = losses => published /\ runs = 1
  BY <1>1, <1>2
<1>6. CASE trusted
  <2>1. adaptive' = AdaptiveAfter(runs) /\ fixed' = fixed
    BY <1>1, <1>6 DEF Trust
  <2>2. /\ Timed(adaptive'.machine) /\ adaptive'.since \in [Axes -> Nat]
        /\ runs = 1 => adaptive' = AdaptiveDecide(adaptive)
    BY <1>2, <1>3, <2>1, AdaptiveAfterFacts
  <2>3. published => signal' = Applied(adaptive'.machine.phase, MinGreen)
    BY <1>1, <1>6 DEF Actuate
  <2>4. /\ signal' \in [phase : Phases, elapsed : Nat, remaining : Nat]
        /\ published => signal'.phase = adaptive'.machine.phase
    <3>1. CASE published
      <4> DEFINE m == adaptive'.machine
      <4>1. Timed(m)
        BY <2>2
      <4> HIDE DEF m
      <4>2. /\ Applied(m.phase, MinGreen) \in [phase : Phases, elapsed : Nat, remaining : Nat]
            /\ Applied(m.phase, MinGreen).phase = m.phase
        BY <1>3, <4>1, AppliedFacts
      <4> QED BY <2>3, <3>1, <4>2 DEF m
    <3>2. CASE ~published
      BY <1>1, <1>2, <3>2
    <3> QED BY <3>1, <3>2
  <2>5. losses' = losses => Turns(adaptive.machine, adaptive'.machine)
    BY <1>2, <1>5, <2>2, AdaptiveDecideMoves DEF Moves
  <2> QED BY <1>1, <1>2, <1>4, <1>5, <1>6, <2>1, <2>2, <2>4, <2>5
<1>7. CASE ~trusted
  <2>1. fixed' = FixedAfter(runs) /\ adaptive' = adaptive
    BY <1>1, <1>7 DEF FallBack
  <2>2. Timed(fixed') /\ (runs = 1 => fixed' = FixedDecide(fixed))
    BY <1>2, <1>3, <2>1, FixedAfterFacts
  <2>3. published => signal' = Applied(fixed'.phase, GreenTime)
    BY <1>1, <1>7 DEF Actuate
  <2>4. /\ signal' \in [phase : Phases, elapsed : Nat, remaining : Nat]
        /\ published => signal'.phase = fixed'.phase
    <3>1. CASE published
      BY <1>3, <2>2, <2>3, <3>1, AppliedFacts
    <3>2. CASE ~published
      BY <1>1, <1>2, <3>2
    <3> QED BY <3>1, <3>2
  <2>5. losses' = losses => Turns(fixed, fixed')
    BY <1>2, <1>5, <2>2, FixedDecideMoves DEF Moves
  <2> QED BY <1>1, <1>2, <1>4, <1>5, <1>7, <2>1, <2>2, <2>4, <2>5
<1> QED BY <1>6, <1>7

-----------------------------------------------------------------------------
(***************************************************************************)
(* SUMO's program, phase by phase.                                         *)
(***************************************************************************)
LEMMA ProgramFacts ==
  ASSUME NEW p \in Phases
  PROVE  IndexOf(p) \in DOMAIN Program /\ Program[IndexOf(p)] = p
<1>1. /\ Program = <<"ns_green", "ns_yellow", "all_red", "ew_green", "ew_yellow">>
      /\ Phases = {"ns_green", "ns_yellow", "ew_green", "ew_yellow", "all_red"}
  BY DEF Program, GreenFor, YellowFor, NorthSouth, EastWest, AllRed, Phases
<1>2. DOMAIN Program = 1..5
  BY <1>1
<1>3. \E i \in 1..5 : Program[i] = p
  <2>1. /\ Program[1] = "ns_green" /\ Program[2] = "ns_yellow" /\ Program[3] = "all_red"
        /\ Program[4] = "ew_green" /\ Program[5] = "ew_yellow"
    BY <1>1
  <2> QED BY <1>1, <2>1
<1> QED BY <1>2, <1>3 DEF IndexOf

LEMMA DurationFacts ==
  ASSUME NEW p \in Phases
  PROVE  /\ Duration(p) \in Nat
         /\ Limit(p) \in Nat \ {0} /\ Limit(p) * Dt \in Nat /\ Limit(p) * Dt <= Duration(p)
<1>1. /\ Greens * Dt <= ProgramGreen /\ Yellows * Dt <= ProgramYellow /\ AllReds * Dt <= ProgramAllRed
  BY ProgramCoversSettings DEF Greens, Yellows, AllReds
<1>2. ProgramGreen \in Nat /\ ProgramYellow \in Nat /\ ProgramAllRed \in Nat /\ Dt \in Nat
  BY ProgramAssumption, TwinAssumption
<1>3. Greens \in Nat \ {0} /\ Yellows \in Nat \ {0} /\ AllReds \in Nat \ {0}
  BY LimitFacts
<1>4. Greens * Dt \in Nat /\ Yellows * Dt \in Nat /\ AllReds * Dt \in Nat
  BY <1>2, <1>3, Products
<1>5. CASE IsGreen(p)
  <2>1. Limit(p) = Greens /\ Duration(p) = ProgramGreen
    BY <1>5 DEF Limit, Duration
  <2> QED BY <1>1, <1>2, <1>3, <1>4, <2>1
<1>6. CASE ~IsGreen(p) /\ IsYellow(p)
  <2>1. Limit(p) = Yellows /\ Duration(p) = ProgramYellow
    BY <1>6 DEF Limit, Duration
  <2> QED BY <1>1, <1>2, <1>3, <1>4, <2>1
<1>7. CASE ~IsGreen(p) /\ ~IsYellow(p)
  <2>1. Limit(p) = AllReds /\ Duration(p) = ProgramAllRed
    BY <1>7 DEF Limit, Duration
  <2> QED BY <1>1, <1>2, <1>3, <1>4, <2>1
<1> QED BY <1>5, <1>6, <1>7

LEMMA TurnsAge ==
  ASSUME NEW m, Timed(m), NEW n, Turns(m, n)
  PROVE  \/ n.phase = m.phase /\ Age(n) = Age(m) + 1
         \/ n.phase # m.phase /\ Age(n) = 0
<1>1. CASE Stays(m, n)
  BY <1>1 DEF Stays
<1>2. ASSUME NEW x \in Axes, EndsGreen(m, n, x) \/ EndsYellow(m, n, x) \/ EndsAllRed(m, n, x)
      PROVE  n.phase # m.phase /\ Age(n) = 0
  BY <1>2, PhaseFacts DEF EndsGreen, EndsYellow, EndsAllRed, Enters
<1> QED BY <1>1, <1>2 DEF Turns

\* One step of a light that has time left.
LEMMA SimulatedFacts ==
  ASSUME NEW i \in DOMAIN Program, NEW left \in Nat, left >= Dt
  PROVE  /\ Simulated([index |-> i, left |-> left]) = [index |-> i, left |-> left - Dt]
         /\ left - Dt \in Nat
<1>1. Dt \in Nat \ {0}
  BY TwinAssumption
<1> DEFINE light == [index |-> i, left |-> left]
<1>2. light.left = left /\ ~(left <= 0)
  BY <1>1
<1>3. Simulated(light) = [light EXCEPT !.left = @ - Dt]
  <2> HIDE DEF light
  <2> QED BY <1>2 DEF Simulated
<1> QED BY <1>1, <1>3

LEMMA LightFacts ==
  ASSUME Typed, Follows, ProgramHolds, pilot = "sumo",
         NEW n, Timed(n), Turns(Commanding, n), tls' = Simulated(Commanded(n.phase))
  PROVE  /\ tls' \in [index : DOMAIN Program, left : Nat]
         /\ tls'.index = IndexOf(n.phase)
         /\ tls'.left + (Age(n) + 1) * Dt >= Duration(n.phase)
<1> DEFINE m == Commanding
           p == n.phase
<1>1. Timed(m) /\ m.phase = twin.phase
  BY DEF Typed, Follows, Commanding
<1>2. p \in Phases /\ Age(n) \in Nat /\ Age(n) + 1 <= Limit(p) /\ Age(m) \in Nat
  BY <1>1 DEF Timed, Machine
<1>3. /\ Dt \in Nat \ {0} /\ Duration(p) \in Nat
      /\ Limit(p) \in Nat \ {0} /\ Limit(p) * Dt \in Nat /\ Limit(p) * Dt <= Duration(p)
      /\ IndexOf(p) \in DOMAIN Program
  BY <1>2, TwinAssumption, DurationFacts, ProgramFacts
<1>4. /\ (Age(n) + 1) * Dt = Age(n) * Dt + Dt /\ Age(n) * Dt \in Nat
      /\ (Age(n) + 1) * Dt <= Limit(p) * Dt
  BY <1>2, <1>3, Products
<1>5. CASE p = twin.phase
  <2>1. Age(n) = Age(m) + 1
    BY <1>1, <1>5, TurnsAge
  <2>2. tls.index = IndexOf(p) /\ tls.left + Age(n) * Dt >= Duration(p)
    BY <1>5, <2>1 DEF ProgramHolds
  <2>3. tls \in [index : DOMAIN Program, left : Nat] /\ tls = [index |-> IndexOf(p), left |-> tls.left]
    BY <2>2 DEF Typed
  <2>4. tls.left \in Nat /\ tls.left >= Dt
    BY <1>3, <1>4, <2>2, <2>3
  <2>5. Commanded(p) = tls
    BY <1>5 DEF Commanded
  <2>6. tls' = [index |-> IndexOf(p), left |-> tls.left - Dt] /\ tls.left - Dt \in Nat
    BY <1>3, <2>3, <2>4, <2>5, SimulatedFacts
  <2>7. tls'.left + (Age(n) + 1) * Dt = tls.left + Age(n) * Dt
    BY <1>3, <1>4, <2>4, <2>6
  <2> QED BY <1>3, <2>2, <2>6, <2>7
<1>6. CASE p # twin.phase
  <2>1. Age(n) = 0
    BY <1>1, <1>6, TurnsAge
  <2>2. Commanded(p) = [index |-> IndexOf(p), left |-> Duration(p)]
    BY <1>6 DEF Commanded, SetPhase
  <2>3. 0 * Dt = 0
    BY <1>3
  <2>4. Duration(p) >= Dt /\ (Age(n) + 1) * Dt = Dt
    BY <1>3, <1>4, <2>1, <2>3
  <2>5. tls' = [index |-> IndexOf(p), left |-> Duration(p) - Dt] /\ Duration(p) - Dt \in Nat
    BY <1>3, <2>2, <2>4, SimulatedFacts
  <2> QED BY <1>3, <2>4, <2>5
<1> QED BY <1>5, <1>6

LEMMA ReportIsState ==
  ASSUME NEW q \in 0..MaxQueue
  PROVE  /\ [queue |-> q, capacity |-> 0, moved |-> q, emergency |-> FALSE] \in LaneStates
         /\ [queue |-> q, capacity |-> 0, moved |-> 0, emergency |-> FALSE] \in LaneStates
<1>1. MaxQueue \in Nat /\ 0 \in 0..MaxQueue
  BY LoopAssumption
<1> QED BY <1>1 DEF LaneStates

LEMMA SumoMoves ==
  ASSUME Typed, Follows, ProgramHolds, SumoTick
  PROVE  /\ pilot = "sumo" /\ pilot' = pilot /\ UNCHANGED <<fixed, utility, machine, signal, losses>>
         /\ Moves(adaptive.machine, adaptive'.machine, Urged(adaptive.machine))
         /\ adaptive'.since \in [Axes -> Nat]
         /\ twin' \in [phase : Phases, elapsed : Nat] /\ twin'.phase = adaptive'.machine.phase
         /\ lanes' \in [Lanes -> LaneStates]
         /\ tls' \in [index : DOMAIN Program, left : Nat]
         /\ tls'.index = IndexOf(twin'.phase)
         /\ tls'.left + (Age(adaptive'.machine) + 1) * Dt >= Duration(twin'.phase)
         /\ Lamps' = twin'.phase
         /\ Watch(twin'.phase)
<1>1. /\ pilot = "sumo" /\ UNCHANGED <<pilot, fixed, utility, machine, signal, losses>>
      /\ adaptive' = AdaptiveDecide(adaptive)
      /\ Watch(Lamps')
  BY DEF SumoTick
<1>2. PICK arrivals \in [Lanes -> 0..1], departures \in [Lanes -> 0..1] :
        /\ \A d \in Lanes : lanes[d].queue + arrivals[d] <= MaxQueue
        /\ SumoStep(adaptive'.machine.phase, arrivals, departures)
  BY DEF SumoTick
<1> DEFINE n == adaptive'.machine
           p == n.phase
<1>3. /\ Timed(adaptive.machine) /\ adaptive.since \in [Axes -> Nat]
      /\ twin \in [phase : Phases, elapsed : Nat] /\ lanes \in [Lanes -> LaneStates]
      /\ Commanding = adaptive.machine
  BY <1>1 DEF Typed, Commanding
<1>4. Moves(adaptive.machine, n, Urged(adaptive.machine)) /\ adaptive'.since \in [Axes -> Nat]
  BY <1>1, <1>3, AdaptiveDecideMoves
<1>5. Timed(n) /\ Turns(Commanding, n) /\ p \in Phases
  BY <1>3, <1>4 DEF Moves, Timed, Machine
<1> HIDE DEF n
<1>6. /\ twin' = IF p = twin.phase THEN [twin EXCEPT !.elapsed = @ + Dt] ELSE [phase |-> p, elapsed |-> 0]
      /\ tls' = Simulated(Commanded(p))
      /\ \A d \in Lanes : departures[d] > 0 => lanes[d].queue + arrivals[d] >= departures[d]
      /\ \E halting \in BOOLEAN :
           lanes' = [d \in Lanes |->
             LET present == lanes[d].queue + arrivals[d] - departures[d]
             IN  Reported(present, IF halting THEN present ELSE 0)]
  BY <1>2 DEF SumoStep, n
<1>7. twin' \in [phase : Phases, elapsed : Nat] /\ twin'.phase = p
  <2>1. twin = [phase |-> twin.phase, elapsed |-> twin.elapsed] /\ twin.elapsed \in Nat
    BY <1>3
  <2>2. CASE p = twin.phase
    <3>1. twin' = [phase |-> p, elapsed |-> twin.elapsed + Dt]
      BY <1>6, <2>1, <2>2
    <3> QED BY <1>5, <2>1, <3>1, TwinAssumption
  <2>3. CASE p # twin.phase
    BY <1>5, <1>6, <2>3
  <2> QED BY <2>2, <2>3
<1>8. /\ tls' \in [index : DOMAIN Program, left : Nat]
      /\ tls'.index = IndexOf(p)
      /\ tls'.left + (Age(n) + 1) * Dt >= Duration(p)
  BY <1>1, <1>5, <1>6, LightFacts
<1>9. Lamps' = p
  BY <1>5, <1>8, ProgramFacts DEF Lamps
<1>10. lanes' \in [Lanes -> LaneStates]
  <2>1. PICK halting \in BOOLEAN :
          lanes' = [d \in Lanes |->
             LET present == lanes[d].queue + arrivals[d] - departures[d]
             IN  Reported(present, IF halting THEN present ELSE 0)]
    BY <1>6
  <2> DEFINE present(d) == lanes[d].queue + arrivals[d] - departures[d]
  <2>2. ASSUME NEW d \in Lanes
        PROVE  Reported(present(d), IF halting THEN present(d) ELSE 0) \in LaneStates
    <3>1. /\ lanes[d].queue \in Nat /\ arrivals[d] \in 0..1 /\ departures[d] \in 0..1
          /\ lanes[d].queue + arrivals[d] <= MaxQueue /\ MaxQueue \in Nat
          /\ departures[d] > 0 => lanes[d].queue + arrivals[d] >= departures[d]
      BY <1>2, <1>3, <1>6, LoopAssumption, LaneFacts
    <3>2. present(d) \in 0..MaxQueue
      BY <3>1
    <3> HIDE DEF present
    <3>3. \A x \in {0, present(d)} : Max({0, x}) = x
      BY <3>2, MaxIs
    <3>4. CASE halting
      <4>1. Reported(present(d), present(d)) = [queue |-> present(d), capacity |-> 0, moved |-> 0, emergency |-> FALSE]
        <5>1. present(d) - present(d) = 0
          BY <3>2
        <5> QED BY <3>3, <5>1 DEF Reported
      <4>2. Reported(present(d), present(d)) \in LaneStates
        BY <3>1, <3>2, <4>1, ReportIsState
      <4>3. (IF halting THEN present(d) ELSE 0) = present(d)
        BY Zenon, <3>4
      <4> QED BY Zenon, <4>2, <4>3
    <3>5. CASE ~halting
      <4>1. Reported(present(d), 0) = [queue |-> present(d), capacity |-> 0, moved |-> present(d), emergency |-> FALSE]
        <5>1. present(d) - 0 = present(d)
          BY <3>2
        <5> QED BY <3>3, <5>1 DEF Reported
      <4>2. Reported(present(d), 0) \in LaneStates
        BY <3>1, <3>2, <4>1, ReportIsState
      <4>3. (IF halting THEN present(d) ELSE 0) = 0
        BY Zenon, <3>5
      <4> QED BY Zenon, <4>2, <4>3
    <3> QED BY <3>4, <3>5
  <2> QED BY <2>1, <2>2
<1> QED BY <1>1, <1>4, <1>7, <1>8, <1>9, <1>10 DEF n

-----------------------------------------------------------------------------
LEMMA CrossingFacts ==
  /\ CrossingTime \in Nat \ {0} /\ Saturation \in Nat \ {0} /\ PerVehicle \in Nat \ {0}
  /\ \A k \in Nat : k * Saturation \in Nat /\ (k + 1) * Saturation = k * Saturation + Saturation
  /\ \A k \in Nat : k * Saturation < PerVehicle <=> k <= CrossingTime - 1
  /\ 0 * Saturation = 0
<1>1. PerVehicle \in Nat \ {0} /\ Saturation \in Nat \ {0}
  BY TwinAssumption
<1>2. CrossingTime \in Nat /\ \A k \in Nat : k * Saturation < PerVehicle <=> k < CrossingTime
  BY <1>1, Ceiling DEF CrossingTime
<1>3. 0 * Saturation = 0
  BY <1>1
<1>4. 0 < CrossingTime
  BY <1>1, <1>2, <1>3
<1>5. \A k \in Nat : k * Saturation \in Nat /\ (k + 1) * Saturation = k * Saturation + Saturation
  BY <1>1, Products
<1> QED BY <1>1, <1>2, <1>3, <1>4, <1>5

\* An axis's green is not the other's: so much for the length of its own.
LEMMA GreensBound ==
  ASSUME NEW a \in Axes, NEW m, Timed(m)
  PROVE  /\ m.phase = GreenFor(OtherAxis(a)) => Age(m) + 1 <= Greens
         /\ m.phase = GreenFor(a) => Age(m) + 1 <= Greens
         /\ Going(a, m, Greens) \in Nat /\ Going(a, m, Greens) <= Cycle
<1>1. /\ m.phase = GreenFor(OtherAxis(a)) => Age(m) + 1 <= Greens
      /\ m.phase = GreenFor(a) => Age(m) + 1 <= Greens
  BY AxisFacts, PhaseFacts DEF Timed, Limit
<1> QED BY <1>1, GoingBound, CycleIs, LimitFacts

LEMMA CycleFacts == Cycle \in Nat /\ Greens \in Nat /\ MinGreens \in Nat
BY CycleIs, LimitFacts

-----------------------------------------------------------------------------
LEMMA InitIInv == Init => IInv
<1> SUFFICES ASSUME Init PROVE IInv
  OBVIOUS
<1> DEFINE ns == NorthSouth
           m  == StartedAt(ns)
<1>1. ns \in Axes /\ OtherAxis(ns) \in Axes /\ GreenFor(ns) \in Phases
  BY AxisFacts, PhaseFacts DEF Axes
<1>2. m = [phase |-> GreenFor(ns), elapsed |-> 0, next |-> OtherAxis(ns)]
  BY DEF StartedAt
<1>3. \A a \in Axes : GreenFor(ns) # YellowFor(a)
  BY <1>1, PhaseFacts
<1>4. Timed(m) /\ Age(m) = 0 /\ m.phase = GreenFor(ns)
  BY <1>1, <1>2, <1>3, EntersTimed DEF Enters
<1> HIDE DEF m
<1>5. /\ pilot \in Pilots
      /\ twin = [phase |-> GreenFor(ns), elapsed |-> 0]
      /\ lanes = [d \in Lanes |-> EmptyLane]
      /\ tls = [index |-> IndexOf(GreenFor(ns)), left |-> Duration(GreenFor(ns))]
      /\ fixed = m /\ adaptive = [machine |-> m, since |-> Unserved] /\ machine = m
      /\ utility = PolicyStart
      /\ signal = [phase |-> GreenFor(ns), elapsed |-> 0, remaining |-> 0]
      /\ losses = 0 /\ alarmed = 0
      /\ waited = [a \in Axes |-> 0] /\ stuck = [d \in Lanes |-> 0]
  BY DEF Init, TwinInit, SumoInit, SetPhase, FixedStart, AdaptiveStart, m
<1>6. adaptive.machine = m /\ Commanding = m
  BY <1>5 DEF Commanding
<1>7. IndexOf(GreenFor(ns)) \in DOMAIN Program /\ Duration(GreenFor(ns)) \in Nat
  BY <1>1, ProgramFacts, DurationFacts
<1>8. Typed
  <2>1. pilot \in Single \cup {"services", "sumo"}
    BY <1>5, LoopAssumption DEF Single
  <2>2. Timed(fixed) /\ Timed(adaptive.machine) /\ Timed(machine)
    BY <1>4, <1>5, <1>6
  <2>3. adaptive.since \in [Axes -> Nat] /\ utility.since \in [Axes -> Nat]
    BY <1>5 DEF Unserved, PolicyStart
  <2>4. EmptyLane \in LaneStates
    BY LoopAssumption DEF EmptyLane, LaneStates
  <2>5. lanes \in [Lanes -> LaneStates]
    BY <1>5, <2>4
  <2>6. /\ twin \in [phase : Phases, elapsed : Nat]
        /\ signal \in [phase : Phases, elapsed : Nat, remaining : Nat]
        /\ tls \in [index : DOMAIN Program, left : Nat]
    BY <1>1, <1>5, <1>7
  <2>7. losses \in Nat /\ alarmed \in Nat /\ waited \in [Axes -> Nat] /\ stuck \in [Lanes -> Nat]
    BY <1>5
  <2> QED BY <2>1, <2>2, <2>3, <2>5, <2>6, <2>7 DEF Typed
<1>9. Follows
  BY <1>4, <1>5, <1>6 DEF Follows
<1>10. ProgramHolds
  <2>1. (Age(m) + 1) * Dt \in Nat
    BY <1>4, TwinAssumption, Products
  <2> QED BY <1>5, <1>6, <1>7, <2>1 DEF ProgramHolds
<1>11. WaitInv
  <2> SUFFICES ASSUME NEW a \in Axes
               PROVE  waited[a] <= IF pilot = "services"
                        THEN Going(a, fixed, Greens) + Going(a, adaptive.machine, Greens) + losses * (Cycle + 1)
                        ELSE Going(a, Commanding, Greens)
    BY DEF WaitInv
  <2>1. Going(a, m, Greens) \in Nat /\ waited[a] = 0 /\ losses * (Cycle + 1) = 0
    BY <1>4, <1>5, GreensBound, CycleFacts
  <2> QED BY <1>5, <1>6, <2>1
<1>12. StuckInv
  <2> SUFFICES ASSUME NEW d \in Lanes PROVE StuckAt(d) /\ stuck[d] = 0
    BY DEF StuckInv
  <2>1. AxisOfLane[d] \in Axes
    BY TwinAssumption DEF Lanes
  <2>2. stuck[d] = 0 /\ lanes[d].capacity = 0
    BY <1>5 DEF EmptyLane
  <2>3. Going(AxisOfLane[d], m, Greens) \in Nat
    BY <1>4, <2>1, GreensBound
  <2>4. 0 * Saturation = 0 /\ CrossingTime \in Nat \ {0}
    BY CrossingFacts
  <2> QED BY <1>6, <2>2, <2>3, <2>4 DEF StuckAt
<1>13. AlarmInv
  BY <1>5 DEF AlarmInv
<1> QED BY <1>8, <1>9, <1>10, <1>11, <1>12, <1>13 DEF IInv

(***************************************************************************)
(* A tick that does nothing keeps everything.                              *)
(***************************************************************************)
LEMMA StutterIInv == ASSUME IInv, UNCHANGED vars PROVE IInv'
<1>1. /\ pilot' = pilot /\ fixed' = fixed /\ adaptive' = adaptive /\ utility' = utility
      /\ machine' = machine /\ signal' = signal /\ twin' = twin /\ lanes' = lanes /\ tls' = tls
      /\ losses' = losses /\ waited' = waited /\ stuck' = stuck /\ alarmed' = alarmed
  BY DEF vars, controllers
<1>2. Commanding' = Commanding /\ Alarm' = Alarm
  BY <1>1 DEF Commanding, Alarm
<1>3. Typed'
  BY <1>1 DEF IInv, Typed
<1>4. Follows' /\ ProgramHolds'
  BY <1>1, <1>2 DEF IInv, Follows, ProgramHolds
<1>5. WaitInv'
  BY <1>1, <1>2 DEF IInv, WaitInv
<1>6. StuckInv'
  BY <1>1, <1>2 DEF IInv, StuckInv, StuckAt
<1>7. AlarmInv'
  BY <1>1, <1>2 DEF IInv, AlarmInv
<1> QED BY <1>3, <1>4, <1>5, <1>6, <1>7 DEF IInv

-----------------------------------------------------------------------------
(***************************************************************************)
(* A single controller, invariant by invariant.  m is its machine before   *)
(* the tick, n after it.                                                   *)
(***************************************************************************)
LEMMA WaitGrows ==
  ASSUME NEW a \in Axes, NEW m, Timed(m), NEW n, Timed(n), Turns(m, n),
         NEW w \in Nat, w <= Going(a, m, Greens)
  PROVE  (IF n.phase = GreenFor(a) THEN 0 ELSE w + 1) <= Going(a, n, Greens)
<1>1. /\ m.phase = GreenFor(OtherAxis(a)) => Age(m) + 1 <= Greens
      /\ Going(a, m, Greens) \in Nat /\ Going(a, n, Greens) \in Nat
  BY GreensBound
<1>2. n.phase = GreenFor(a) \/ Going(a, n, Greens) >= Going(a, m, Greens) + 1
  BY <1>1, GoingGrows, CycleFacts
<1> QED BY <1>1, <1>2

LEMMA StuckMoves ==
  ASSUME Typed, NEW d \in Lanes, StuckAt(d), CrossingTime <= MinGreens, pilot \in Single,
         NEW n, n = Commanding', Timed(n), Turns(Commanding, n), Drive(n.phase)
  PROVE  StuckAt(d)'
<1> DEFINE a  == AxisOfLane[d]
           m  == Commanding
           c  == lanes[d].capacity
           c2 == lanes'[d].capacity
           s  == stuck[d]
           s2 == stuck'[d]
           C  == CrossingTime
           G  == Going(a, m, Greens)
           G2 == Going(a, n, Greens)
<1>1. /\ a \in Axes /\ Timed(m) /\ n.phase \in Phases /\ Age(m) \in Nat /\ Age(n) \in Nat
      /\ c \in Nat /\ s \in Nat
  <2>1. a \in Axes /\ Timed(m)
    BY TwinAssumption DEF Lanes, Typed, Commanding
  <2>2. c \in Nat /\ s \in Nat
    BY LaneFacts DEF Typed
  <2> QED BY <2>1, <2>2 DEF Timed, Machine
<1>2. /\ n.phase # GreenFor(a) => c2 = 0
      /\ \/ s2 = 0
         \/ /\ s2 = s + 1
            /\ n.phase = GreenFor(a) => c2 = c + Saturation /\ c2 < PerVehicle
      /\ c2 \in Nat
  <2>1. /\ lanes' \in [Lanes -> LaneStates] /\ Watch(n.phase)
        /\ n.phase # GreenFor(a) => c2 = 0
        /\ n.phase = GreenFor(a) /\ lanes'[d].queue > 0 /\ lanes'[d].moved = 0 =>
             c2 = c + Saturation /\ c2 < PerVehicle
    BY <1>1, DriveFacts
  <2>2. \/ s2 = 0
        \/ s2 = s + 1 /\ lanes'[d].queue > 0 /\ lanes'[d].moved = 0
    BY <2>1, WatchFacts
  <2>3. c2 \in Nat
    BY <2>1, LaneFacts
  <2> QED BY <2>1, <2>2, <2>3
<1>3. /\ m.phase # GreenFor(a) => c = 0 /\ s <= C - 1 + G
      /\ m.phase = GreenFor(a) =>
           \/ s * Saturation <= c /\ (s > 0 => c < PerVehicle)
           \/ s <= C - 1 + Cycle + Age(m) + 1 /\ (Age(m) + 1) * Saturation <= c /\ c < PerVehicle
  BY DEF StuckAt
<1>4. /\ G \in Nat /\ G2 \in Nat /\ G <= Cycle /\ Cycle \in Nat
      /\ n.phase = GreenFor(a) \/ G2 >= G + 1
      /\ m.phase = GreenFor(a) => G = 0
  BY <1>1, GreensBound, GoingGrows, GoingIs, CycleFacts
<1>5. /\ C \in Nat \ {0} /\ Saturation \in Nat \ {0} /\ PerVehicle \in Nat \ {0}
      /\ \A k \in Nat : k * Saturation \in Nat /\ (k + 1) * Saturation = k * Saturation + Saturation
      /\ \A k \in Nat : k * Saturation < PerVehicle <=> k <= C - 1
      /\ 0 * Saturation = 0
  BY CrossingFacts
<1>6. /\ m.phase = GreenFor(a) /\ n.phase # GreenFor(a) => Age(m) + 1 >= MinGreens
      /\ m.phase = GreenFor(a) /\ n.phase = GreenFor(a) => Age(n) = Age(m) + 1
      /\ m.phase # GreenFor(a) /\ n.phase = GreenFor(a) => Age(n) = 0
  <2>1. m.phase = GreenFor(a) /\ n.phase = GreenFor(a) => Age(n) = Age(m) + 1
    BY <1>1, TurnsAge
  <2>2. m.phase # GreenFor(a) /\ n.phase = GreenFor(a) => Age(n) = 0
    BY <1>1, TurnsAge
  <2>3. m.phase = GreenFor(a) /\ n.phase # GreenFor(a) => Age(m) + 1 >= MinGreens
    BY <1>1, PhaseFacts DEF Turns, Stays, EndsGreen, EndsYellow, EndsAllRed
  <2> QED BY <2>1, <2>2, <2>3
<1>7. StuckAt(d)' =
        (/\ n.phase # GreenFor(a) => c2 = 0 /\ s2 <= C - 1 + G2
         /\ n.phase = GreenFor(a) =>
              \/ s2 * Saturation <= c2 /\ (s2 > 0 => c2 < PerVehicle)
              \/ /\ s2 <= C - 1 + Cycle + Age(n) + 1
                 /\ (Age(n) + 1) * Saturation <= c2 /\ c2 < PerVehicle)
  BY DEF StuckAt
<1> HIDE DEF a, m, c, c2, s, s2, C, G, G2
<1>8. CASE n.phase # GreenFor(a)
  <2>1. s2 <= s + 1 /\ s2 \in Nat
    BY <1>1, <1>2
  <2>2. s <= C - 1 + G
    <3>1. CASE m.phase # GreenFor(a)
      BY <1>3, <3>1
    <3>2. CASE m.phase = GreenFor(a)
      <4>1. Age(m) + 1 >= MinGreens /\ MinGreens \in Nat /\ Age(m) + 1 \in Nat
        BY <1>1, <1>6, <1>8, <3>2, CycleFacts
      <4>2. C <= MinGreens
        BY DEF C
      <4>3. ~((Age(m) + 1) * Saturation < PerVehicle) /\ (Age(m) + 1) * Saturation \in Nat
        <5>1. ~(Age(m) + 1 <= C - 1)
          BY <1>5, <4>1, <4>2
        <5> QED BY <1>5, <4>1, <5>1
      <4>4. s * Saturation <= c /\ (s > 0 => c < PerVehicle)
        BY <1>1, <1>3, <1>5, <3>2, <4>3
      <4>5. CASE s = 0
        BY <1>4, <1>5, <4>5
      <4>6. CASE s > 0
        <5>1. s * Saturation < PerVehicle
          BY <1>1, <1>5, <4>4, <4>6
        <5>2. s <= C - 1
          BY <1>1, <1>5, <5>1
        <5> QED BY <1>1, <1>4, <1>5, <5>2
      <4> QED BY <1>1, <4>5, <4>6
    <3> QED BY <3>1, <3>2
  <2>3. s2 <= C - 1 + G2
    BY <1>1, <1>4, <1>5, <1>8, <2>1, <2>2
  <2> QED BY <1>2, <1>7, <1>8, <2>3
<1>9. CASE n.phase = GreenFor(a)
  <2>1. CASE s2 = 0
    BY <1>2, <1>5, <1>7, <1>9, <2>1
  <2>2. CASE s2 # 0
    <3>1. s2 = s + 1 /\ c2 = c + Saturation /\ c2 < PerVehicle
      BY <1>2, <1>9, <2>2
    <3>2. CASE m.phase # GreenFor(a)
      <4>1. c = 0 /\ s <= C - 1 + G /\ Age(n) = 0
        BY <1>3, <1>6, <1>9, <3>2
      <4>2. s2 <= C - 1 + Cycle + Age(n) + 1
        BY <1>1, <1>4, <1>5, <3>1, <4>1
      <4>3. (Age(n) + 1) * Saturation <= c2
        <5>1. (Age(n) + 1) * Saturation = 0 * Saturation + Saturation
          BY <1>1, <1>5, <4>1
        <5> QED BY <1>5, <3>1, <4>1, <5>1
      <4> QED BY <1>7, <1>9, <3>1, <4>2, <4>3
    <3>3. CASE m.phase = GreenFor(a) /\ s * Saturation <= c
      <4>1. s2 * Saturation <= c2
        <5>1. s2 * Saturation = s * Saturation + Saturation /\ s * Saturation \in Nat
          BY <1>1, <1>5, <3>1
        <5> QED BY <1>1, <1>5, <3>1, <3>3, <5>1
      <4> QED BY <1>7, <1>9, <3>1, <4>1
    <3>4. CASE /\ m.phase = GreenFor(a)
               /\ s <= C - 1 + Cycle + Age(m) + 1 /\ (Age(m) + 1) * Saturation <= c
      <4>1. Age(n) = Age(m) + 1
        BY <1>6, <1>9, <3>4
      <4>2. s2 <= C - 1 + Cycle + Age(n) + 1
        BY <1>1, <1>4, <1>5, <3>1, <3>4, <4>1
      <4>3. (Age(n) + 1) * Saturation <= c2
        <5>1. /\ (Age(n) + 1) * Saturation = (Age(m) + 1) * Saturation + Saturation
              /\ (Age(m) + 1) * Saturation \in Nat
          BY <1>1, <1>5, <4>1
        <5> QED BY <1>1, <1>5, <3>1, <3>4, <5>1
      <4> QED BY <1>7, <1>9, <3>1, <4>2, <4>3
    <3> QED BY <1>3, <3>2, <3>3, <3>4
  <2> QED BY <2>1, <2>2
<1> QED BY <1>8, <1>9

LEMMA AlarmMoves ==
  ASSUME Typed, AlarmInv, pilot \in Single, pilot' = pilot,
         NEW n, n = Commanding', Moves(Commanding, n, Watches(Commanding)), Watch(n.phase)
  PROVE  AlarmInv'
<1> SUFFICES ASSUME alarmed' > 0
             PROVE  /\ pilot \in {"adaptive", "utility"}
                    /\ Alarm' \in Axes
                    /\ n.phase = GreenFor(OtherAxis(Alarm')) => Age(n) + 1 <= MinGreens
                    /\ alarmed' <= Going(Alarm', n, MinGreens)
  BY DEF AlarmInv
<1> DEFINE e == Alarm
           m == Commanding
<1>1. /\ alarmed' = alarmed + 1 /\ pilot \in {"adaptive", "utility"}
      /\ Alarm' = e /\ e \in Axes /\ n.phase # GreenFor(e)
  BY WatchFacts
<1>2. /\ Timed(m) /\ Timed(n) /\ Turns(m, n) /\ alarmed \in Nat
      /\ Age(m) \in Nat /\ Age(n) \in Nat /\ m.phase \in Phases /\ MinGreens \in Nat \ {0}
  BY LimitFacts DEF Typed, Commanding, Moves, Timed, Machine
<1>3. m.phase = GreenFor(OtherAxis(e)) => IsGreen(m.phase) /\ Watches(m)
  <2>1. OtherAxis(e) \in Axes /\ OtherAxis(e) # e /\ e # NoAxis
    BY <1>1, AxisFacts
  <2>2. m.phase = GreenFor(OtherAxis(e)) => AxisOf(m.phase) = OtherAxis(e) /\ IsGreen(m.phase)
    BY <2>1, PhaseFacts
  <2> QED BY <1>1, <2>1, <2>2 DEF Watches, Urged
<1>4. n.phase = m.phase /\ m.phase = GreenFor(OtherAxis(e)) => Age(m) + 1 < MinGreens
  BY <1>3 DEF Moves
<1>5. n.phase = GreenFor(OtherAxis(e)) => Age(n) + 1 <= MinGreens
  <2>1. \/ n.phase = m.phase /\ Age(n) = Age(m) + 1
        \/ n.phase # m.phase /\ Age(n) = 0
    BY <1>2, TurnsAge
  <2> QED BY <1>2, <1>4, <2>1
<1>6. alarmed + 1 <= Going(e, n, MinGreens)
  <2>1. CASE alarmed > 0
    <3>1. /\ m.phase = GreenFor(OtherAxis(e)) => Age(m) + 1 <= MinGreens
          /\ alarmed <= Going(e, m, MinGreens)
      BY <2>1 DEF AlarmInv
    <3>2. Going(e, m, MinGreens) \in Nat /\ Going(e, n, MinGreens) \in Nat
      BY <1>1, <1>2, <1>5, <3>1, GoingBound
    <3>3. Going(e, n, MinGreens) >= Going(e, m, MinGreens) + 1
      BY <1>1, <1>2, <3>1, GoingGrows
    <3> QED BY <1>2, <3>1, <3>2, <3>3
  <2>2. CASE alarmed = 0
    <3>1. Going(e, n, MinGreens) >= 1
      BY <1>1, <1>2, GoingIs, Places, LimitFacts
    <3> QED BY <2>2, <3>1
  <2> QED BY <1>2, <2>1, <2>2
<1> QED BY <1>1, <1>5, <1>6

LEMMA SingleIInv ==
  ASSUME IInv, Next, pilot \in Single
  PROVE  IInv'
<1> DEFINE m == Commanding
           n == Commanding'
<1>0. Typed /\ Follows /\ WaitInv /\ StuckInv /\ AlarmInv
  BY DEF IInv
<1>1. /\ pilot' = pilot /\ signal' = signal /\ losses' = losses
      /\ Timed(fixed') /\ Timed(adaptive'.machine) /\ Timed(machine')
      /\ adaptive'.since \in [Axes -> Nat] /\ utility'.since \in [Axes -> Nat]
      /\ Moves(m, n, Watches(m))
      /\ Drive(n.phase)
  BY <1>0, SingleMoves
<1>2. Timed(m) /\ Timed(n) /\ Turns(m, n) /\ n.phase \in Phases
  BY <1>0, <1>1 DEF Typed, Commanding, Moves, Timed, Machine
<1>3. /\ twin' \in [phase : Phases, elapsed : Nat] /\ twin'.phase = n.phase
      /\ lanes' \in [Lanes -> LaneStates]
      /\ Watch(n.phase) /\ tls' = tls
  BY <1>0, <1>1, <1>2, DriveFacts
<1>4. /\ waited' \in [Axes -> Nat] /\ stuck' \in [Lanes -> Nat] /\ alarmed' \in Nat
      /\ \A a \in Axes : waited'[a] = IF n.phase = GreenFor(a) THEN 0 ELSE waited[a] + 1
  <2> HIDE DEF n
  <2> QED BY <1>0, <1>3, WatchFacts
<1>5. pilot # "services" /\ pilot # "sumo"
  BY DEF Single
<1>6. Typed'
  BY <1>0, <1>1, <1>3, <1>4 DEF Typed
<1>7. Follows' /\ ProgramHolds'
  BY <1>1, <1>3, <1>5 DEF Follows, ProgramHolds
<1>8. WaitInv'
  <2>1. ASSUME NEW a \in Axes PROVE waited'[a] <= Going(a, n, Greens)
    <3>1. waited[a] \in Nat /\ waited[a] <= Going(a, m, Greens)
      BY <1>0, <1>5 DEF Typed, WaitInv
    <3>2. (IF n.phase = GreenFor(a) THEN 0 ELSE waited[a] + 1) <= Going(a, n, Greens)
      <4> HIDE DEF m, n
      <4> QED BY <1>2, <3>1, WaitGrows
    <3> QED BY <1>4, <3>2
  <2>2. pilot' # "services"
    BY <1>1, <1>5
  <2> QED BY <2>1, <2>2 DEF WaitInv
<1>9. StuckInv'
  <2>1. ASSUME CrossingTime <= MinGreens, NEW d \in Lanes PROVE StuckAt(d)'
    <3>1. StuckAt(d)
      BY <1>0, <2>1 DEF StuckInv
    <3> QED BY <1>0, <1>1, <1>2, <2>1, <3>1, StuckMoves
  <2> QED BY <1>1, <2>1 DEF StuckInv
<1>10. AlarmInv'
  BY <1>0, <1>1, <1>3, AlarmMoves
<1> QED BY <1>6, <1>7, <1>8, <1>9, <1>10 DEF IInv

(***************************************************************************)
(* SUMO: as under a single controller, with the lamps of the program.      *)
(***************************************************************************)
LEMMA SumoIInv ==
  ASSUME IInv, SumoTick
  PROVE  IInv'
<1> DEFINE n == adaptive'.machine
<1>0. Typed /\ Follows /\ ProgramHolds /\ WaitInv /\ StuckInv
  BY DEF IInv
<1>1. /\ pilot = "sumo" /\ pilot' = pilot /\ UNCHANGED <<fixed, utility, machine, signal, losses>>
      /\ Moves(adaptive.machine, n, Urged(adaptive.machine))
      /\ adaptive'.since \in [Axes -> Nat]
      /\ twin' \in [phase : Phases, elapsed : Nat] /\ twin'.phase = n.phase
      /\ lanes' \in [Lanes -> LaneStates]
      /\ tls' \in [index : DOMAIN Program, left : Nat]
      /\ tls'.index = IndexOf(twin'.phase)
      /\ tls'.left + (Age(n) + 1) * Dt >= Duration(twin'.phase)
      /\ Watch(n.phase)
  BY <1>0, SumoMoves
<1>2. Commanding = adaptive.machine /\ Commanding' = n
  BY <1>1 DEF Commanding
<1>3. Timed(adaptive.machine) /\ Timed(n) /\ Turns(adaptive.machine, n)
  BY <1>0, <1>1 DEF Typed, Moves
<1>4. /\ waited' \in [Axes -> Nat] /\ stuck' \in [Lanes -> Nat] /\ alarmed' \in Nat
      /\ \A a \in Axes : waited'[a] = IF n.phase = GreenFor(a) THEN 0 ELSE waited[a] + 1
      /\ \A d \in Lanes : stuck'[d] = 0
      /\ alarmed' = 0
  <2> HIDE DEF n
  <2> QED BY <1>0, <1>1, WatchFacts
<1>5. Typed'
  <2>1. Timed(fixed) /\ Timed(machine) /\ utility.since \in [Axes -> Nat]
        /\ signal \in [phase : Phases, elapsed : Nat, remaining : Nat]
        /\ losses \in Nat /\ pilot \in Single \cup {"services", "sumo"}
    BY <1>0 DEF Typed
  <2>2. /\ fixed' = fixed /\ machine' = machine /\ utility' = utility
        /\ signal' = signal /\ losses' = losses
    BY <1>1
  <2> QED BY <1>1, <1>3, <1>4, <2>1, <2>2 DEF Typed
<1>6. Follows' /\ ProgramHolds'
  BY <1>1, <1>2 DEF Follows, ProgramHolds
<1>7. WaitInv'
  <2>1. ASSUME NEW a \in Axes PROVE waited'[a] <= Going(a, n, Greens)
    <3>1. waited[a] \in Nat /\ waited[a] <= Going(a, adaptive.machine, Greens)
      BY <1>0, <1>1, <1>2 DEF Typed, WaitInv
    <3>2. (IF n.phase = GreenFor(a) THEN 0 ELSE waited[a] + 1) <= Going(a, n, Greens)
      <4> DEFINE m == adaptive.machine
      <4> HIDE DEF m, n
      <4> QED BY <1>3, <3>1, WaitGrows DEF m
    <3> QED BY <1>4, <3>2
  <2> QED BY <1>1, <1>2, <2>1 DEF WaitInv
<1>8. StuckInv' /\ AlarmInv'
  BY <1>1, <1>4 DEF StuckInv, AlarmInv, Single
<1> QED BY <1>5, <1>6, <1>7, <1>8 DEF IInv

(***************************************************************************)
(* The services: a machine that stands still keeps its share of the wait,  *)
(* and a lost decision pays for what the other's share loses.              *)
(***************************************************************************)
LEMMA ShareGrows ==
  ASSUME NEW a \in Axes, NEW m, Timed(m), NEW n, Timed(n), Turns(m, n), NEW k, Timed(k),
         NEW lost \in Nat, NEW w \in Nat, w <= Going(a, m, Greens) + Going(a, k, Greens) + lost
  PROVE  (IF n.phase = GreenFor(a) THEN 0 ELSE w + 1)
           <= Going(a, n, Greens) + Going(a, k, Greens) + lost
<1>1. /\ m.phase = GreenFor(OtherAxis(a)) => Age(m) + 1 <= Greens
      /\ Going(a, m, Greens) \in Nat /\ Going(a, n, Greens) \in Nat /\ Going(a, k, Greens) \in Nat
  BY GreensBound
<1>2. n.phase = GreenFor(a) \/ Going(a, n, Greens) >= Going(a, m, Greens) + 1
  BY <1>1, GoingGrows, CycleFacts
<1> QED BY <1>1, <1>2

LEMMA ShareLost ==
  ASSUME NEW a \in Axes, NEW m, Timed(m), NEW n, Timed(n), NEW k, Timed(k),
         NEW l \in Nat, NEW w \in Nat,
         w <= Going(a, m, Greens) + Going(a, k, Greens) + l * (Cycle + 1)
  PROVE  w + 1 <= Going(a, n, Greens) + Going(a, k, Greens) + (l + 1) * (Cycle + 1)
<1>1. /\ Going(a, m, Greens) \in Nat /\ Going(a, n, Greens) \in Nat /\ Going(a, k, Greens) \in Nat
      /\ Going(a, m, Greens) <= Cycle
  BY GreensBound
<1>2. Cycle + 1 \in Nat /\ Cycle \in Nat
  BY CycleFacts
<1>3. (l + 1) * (Cycle + 1) = l * (Cycle + 1) + (Cycle + 1) /\ l * (Cycle + 1) \in Nat
  BY <1>2, Products
<1> QED BY <1>1, <1>2, <1>3

LEMMA ServicesWait ==
  ASSUME Typed, WaitInv, pilot = "services", pilot' = "services", Timed(fixed'), Timed(adaptive'.machine),
         fixed' = fixed \/ adaptive' = adaptive,
         losses' = losses \/ losses' = losses + 1,
         losses' = losses =>
           \/ /\ adaptive' = adaptive
              /\ Turns(fixed, fixed') /\ signal'.phase = fixed'.phase
           \/ /\ fixed' = fixed
              /\ Turns(adaptive.machine, adaptive'.machine) /\ signal'.phase = adaptive'.machine.phase,
         \A a \in Axes : waited'[a] = IF signal'.phase = GreenFor(a) THEN 0 ELSE waited[a] + 1
  PROVE  WaitInv'
<1> DEFINE f == fixed
           g == fixed'
           m == adaptive.machine
           n == adaptive'.machine
           W(a) == waited[a]
           l == losses
<1>0. /\ Timed(f) /\ Timed(g) /\ Timed(m) /\ Timed(n) /\ l \in Nat
      /\ \A a \in Axes : W(a) \in Nat
  BY DEF Typed
<1>1. \A a \in Axes : W(a) <= Going(a, f, Greens) + Going(a, m, Greens) + l * (Cycle + 1)
  BY DEF WaitInv
<1>2. l * (Cycle + 1) \in Nat /\ (l + 1) * (Cycle + 1) \in Nat
  BY <1>0, CycleFacts, Products
<1> SUFFICES ASSUME NEW a \in Axes
             PROVE  waited'[a] <= Going(a, g, Greens) + Going(a, n, Greens) + losses' * (Cycle + 1)
  BY DEF WaitInv
<1>3. waited'[a] = IF signal'.phase = GreenFor(a) THEN 0 ELSE W(a) + 1
  OBVIOUS
<1>4. /\ Going(a, f, Greens) \in Nat /\ Going(a, g, Greens) \in Nat
      /\ Going(a, m, Greens) \in Nat /\ Going(a, n, Greens) \in Nat
  BY <1>0, GreensBound
<1>5. (f = g \/ m = n) /\ (losses' = l \/ losses' = l + 1)
  OBVIOUS
<1>6. losses' = l =>
        \/ m = n /\ Turns(f, g) /\ signal'.phase = g.phase
        \/ f = g /\ Turns(m, n) /\ signal'.phase = n.phase
  OBVIOUS
<1> HIDE DEF f, g, m, n, W, l
<1>7. CASE losses' = l + 1
  <2>1. W(a) + 1 <= Going(a, g, Greens) + Going(a, n, Greens) + (l + 1) * (Cycle + 1)
    <3>1. CASE m = n
      BY <1>0, <1>1, <3>1, ShareLost
    <3>2. CASE f = g
      <4>1. W(a) <= Going(a, m, Greens) + Going(a, f, Greens) + l * (Cycle + 1)
        BY <1>0, <1>1, <1>2, <1>4
      <4>2. W(a) + 1 <= Going(a, n, Greens) + Going(a, f, Greens) + (l + 1) * (Cycle + 1)
        BY <1>0, <4>1, ShareLost
      <4> QED BY <1>0, <1>2, <1>4, <3>2, <4>2
    <3> QED BY <1>5, <3>1, <3>2
  <2>2. losses' * (Cycle + 1) = (l + 1) * (Cycle + 1)
    BY <1>7
  <2> QED BY <1>0, <1>2, <1>3, <1>4, <2>1, <2>2
<1>8. CASE losses' = l
  <2>1. losses' * (Cycle + 1) = l * (Cycle + 1)
    BY <1>8
  <2>2. CASE m = n /\ Turns(f, g) /\ signal'.phase = g.phase
    <3>1. (IF g.phase = GreenFor(a) THEN 0 ELSE W(a) + 1)
            <= Going(a, g, Greens) + Going(a, m, Greens) + l * (Cycle + 1)
      BY <1>0, <1>1, <1>2, <2>2, ShareGrows
    <3> QED BY <1>3, <2>1, <2>2, <3>1
  <2>3. CASE f = g /\ Turns(m, n) /\ signal'.phase = n.phase
    <3>1. W(a) <= Going(a, m, Greens) + Going(a, f, Greens) + l * (Cycle + 1)
      BY <1>0, <1>1, <1>2, <1>4
    <3>2. (IF n.phase = GreenFor(a) THEN 0 ELSE W(a) + 1)
            <= Going(a, n, Greens) + Going(a, f, Greens) + l * (Cycle + 1)
      BY <1>0, <1>2, <2>3, <3>1, ShareGrows
    <3>3. Going(a, n, Greens) + Going(a, f, Greens) + l * (Cycle + 1)
            = Going(a, g, Greens) + Going(a, n, Greens) + l * (Cycle + 1)
      BY <1>2, <1>4, <2>3
    <3> QED BY <1>3, <2>1, <2>3, <3>2, <3>3
  <2> QED BY <1>6, <1>8, <2>2, <2>3
<1> QED BY <1>5, <1>7, <1>8

LEMMA ServicesIInv ==
  ASSUME IInv, NEW trusted \in BOOLEAN, NEW published \in BOOLEAN, NEW runs \in 1..(MaxRetries + 1),
         ServicesTick(trusted, runs, published)
  PROVE  IInv'
<1> DEFINE p == signal'.phase
<1>0. Typed /\ WaitInv
  BY DEF IInv
<1>1. /\ pilot = "services" /\ pilot' = pilot /\ machine' = machine /\ utility' = utility
      /\ Timed(fixed') /\ Timed(adaptive'.machine) /\ adaptive'.since \in [Axes -> Nat]
      /\ signal' \in [phase : Phases, elapsed : Nat, remaining : Nat]
      /\ fixed' = fixed \/ adaptive' = adaptive
      /\ losses' = losses \/ losses' = losses + 1
      /\ Drive(p)
      /\ losses' = losses =>
           \/ /\ adaptive' = adaptive
              /\ Turns(fixed, fixed') /\ p = fixed'.phase
           \/ /\ fixed' = fixed
              /\ Turns(adaptive.machine, adaptive'.machine) /\ p = adaptive'.machine.phase
  BY <1>0, ServicesMoves
<1>2. p \in Phases
  BY <1>1
<1>3. /\ twin' \in [phase : Phases, elapsed : Nat] /\ twin'.phase = p
      /\ lanes' \in [Lanes -> LaneStates]
      /\ Watch(p) /\ tls' = tls
  BY <1>0, <1>1, <1>2, DriveFacts
<1>4. /\ waited' \in [Axes -> Nat] /\ stuck' \in [Lanes -> Nat] /\ alarmed' \in Nat
      /\ \A a \in Axes : waited'[a] = IF p = GreenFor(a) THEN 0 ELSE waited[a] + 1
      /\ \A d \in Lanes : stuck'[d] = 0
      /\ alarmed' = 0
  <2> HIDE DEF p
  <2> QED BY <1>0, <1>1, <1>3, WatchFacts
<1>5. Typed'
  <2>1. /\ Timed(machine) /\ utility.since \in [Axes -> Nat] /\ losses \in Nat
        /\ pilot \in Single \cup {"services", "sumo"}
        /\ tls \in [index : DOMAIN Program, left : Nat]
    BY <1>0 DEF Typed
  <2>2. losses' \in Nat
    BY <1>1, <2>1
  <2> QED BY <1>1, <1>3, <1>4, <2>1, <2>2 DEF Typed
<1>6. Follows' /\ ProgramHolds'
  BY <1>1, <1>3 DEF Follows, ProgramHolds
<1>7. WaitInv'
  BY <1>0, <1>1, <1>4, ServicesWait
<1>8. StuckInv' /\ AlarmInv'
  BY <1>1, <1>4 DEF StuckInv, AlarmInv, Single
<1> QED BY <1>5, <1>6, <1>7, <1>8 DEF IInv

-----------------------------------------------------------------------------
LEMMA NextIInv == IInv /\ [Next]_vars => IInv'
<1> SUFFICES ASSUME IInv, [Next]_vars PROVE IInv'
  OBVIOUS
<1>1. CASE UNCHANGED vars
  BY <1>1, StutterIInv
<1>2. CASE Next /\ pilot \in Single
  BY <1>2, SingleIInv
<1>3. CASE SumoTick
  BY <1>3, SumoIInv
<1>4. ASSUME NEW trusted \in BOOLEAN, NEW published \in BOOLEAN, NEW runs \in 1..(MaxRetries + 1),
             ServicesTick(trusted, runs, published)
      PROVE  IInv'
  BY <1>4, ServicesIInv
<1>5. FixedTick => pilot \in Single
  BY DEF FixedTick, Single
<1>6. AdaptiveTick => pilot \in Single
  BY DEF AdaptiveTick, Single
<1>7. \A predicted : UtilityTick(predicted) => pilot \in Single
  BY DEF UtilityTick, Single
<1>8. CASE Next
  BY <1>2, <1>3, <1>4, <1>5, <1>6, <1>7, <1>8 DEF Next
<1> QED BY <1>1, <1>8

(***************************************************************************)
(* The invariant of the loop, in every reachable state.                    *)
(***************************************************************************)
THEOREM LoopInvariant == Spec => []IInv
<1> QED BY InitIInv, NextIInv, PTL DEF Spec

(***************************************************************************)
(* Every machine, lane, lamp and clock has the values the code gives it,   *)
(* and what an approach reports is a LaneState its model accepts.          *)
(***************************************************************************)
THEOREM TypeCorrect == Spec => []TypeOK
<1>1. IInv => TypeOK
  <2> SUFFICES ASSUME Typed PROVE TypeOK
    BY DEF IInv
  <2>1. {fixed, adaptive.machine, machine} \subseteq Machine
    BY DEF Typed, Timed
  <2>2. ASSUME NEW d \in Lanes
        PROVE  /\ lanes[d] \in [queue : 0..MaxQueue, capacity : Nat, moved : 0..(MaxQueue + 1),
                                emergency : BOOLEAN]
               /\ Accepted(Observed(lanes[d]))
    <3>1. lanes[d] \in LaneStates
      BY DEF Typed
    <3>2. MaxQueue \in Nat
      BY LoopAssumption
    <3>3. lanes[d].moved \in 0..(MaxQueue + 1)
      BY <3>1, <3>2, LaneFacts
    <3>4. lanes[d] \in [queue : 0..MaxQueue, capacity : Nat, moved : 0..(MaxQueue + 1),
                        emergency : BOOLEAN]
      BY <3>1, <3>3, LaneFacts
    <3> QED BY <3>1, <3>4, ObservedIsAccepted
  <2>3. \A a \in Axes : {adaptive.since[a], utility.since[a]} \subseteq Nat
    BY DEF Typed
  <2>4. /\ twin \in [phase : Phases, elapsed : Nat]
        /\ signal \in [phase : Phases, elapsed : Nat, remaining : Nat]
        /\ tls \in [index : DOMAIN Program, left : Nat]
    BY DEF Typed
  <2> QED BY <2>1, <2>2, <2>3, <2>4 DEF TypeOK
<1> QED BY <1>1, LoopInvariant, PTL

(***************************************************************************)
(* ServedWithinCycle: whatever the traffic, forecasts and emergencies, an  *)
(* axis gets its green within a cycle, under the services within two and a *)
(* cycle and a tick for every lost decision; and under one controller a    *)
(* queue does not stand for longer than that and what its first vehicle    *)
(* takes to cross.                                                         *)
(***************************************************************************)
THEOREM WaitsAreBounded == Spec => []ServedWithinCycle
<1>1. IInv => ServedWithinCycle
  <2> SUFFICES ASSUME IInv PROVE ServedWithinCycle
    OBVIOUS
  <2>0. Typed /\ WaitInv /\ StuckInv
    BY DEF IInv
  <2>1. ASSUME NEW a \in Axes
        PROVE  waited[a] <= IF pilot = "services" THEN 2 * Cycle + losses * (Cycle + 1) ELSE Cycle
    <3>1. Timed(fixed) /\ Timed(adaptive.machine) /\ Timed(Commanding) /\ losses \in Nat /\ waited[a] \in Nat
      BY <2>0 DEF Typed, Commanding
    <3>2. Cycle \in Nat /\ losses * (Cycle + 1) \in Nat
      BY <3>1, CycleFacts, Products
    <3>3. CASE pilot = "services"
      <4> DEFINE x == Going(a, fixed, Greens)
                 y == Going(a, adaptive.machine, Greens)
                 z == losses * (Cycle + 1)
      <4>1. waited[a] <= x + y + z
        BY <2>0, <3>3 DEF WaitInv
      <4>2. x \in Nat /\ x <= Cycle /\ y \in Nat /\ y <= Cycle /\ z \in Nat
        BY <3>1, <3>2, GreensBound
      <4> HIDE DEF x, y, z
      <4>3. waited[a] <= 2 * Cycle + z
        BY <3>1, <3>2, <4>1, <4>2
      <4> QED BY <3>3, <4>3 DEF z
    <3>4. CASE pilot # "services"
      <4>1. waited[a] <= Going(a, Commanding, Greens)
        BY <2>0, <3>4 DEF WaitInv
      <4>2. Going(a, Commanding, Greens) \in Nat /\ Going(a, Commanding, Greens) <= Cycle
        BY <3>1, GreensBound
      <4> QED BY <3>1, <3>2, <3>4, <4>1, <4>2
    <3> QED BY <3>3, <3>4
  <2>2. ASSUME CrossingTime <= Ticks(MinGreen), NEW d \in Lanes
        PROVE  stuck[d] <= Cycle + 2 * (CrossingTime - 1)
    <3> DEFINE a == AxisOfLane[d]
               m == Commanding
               c == lanes[d].capacity
               s == stuck[d]
               C == CrossingTime
    <3>1. CrossingTime <= MinGreens
      BY <2>2 DEF MinGreens
    <3>2. /\ a \in Axes /\ Timed(m) /\ Age(m) \in Nat /\ c \in Nat /\ s \in Nat
          /\ Cycle \in Nat /\ C \in Nat \ {0}
      <4>1. a \in Axes /\ Timed(m)
        BY <2>0, TwinAssumption DEF Lanes, Typed, Commanding
      <4>2. c \in Nat /\ s \in Nat
        BY <2>0, LaneFacts DEF Typed
      <4> QED BY <4>1, <4>2, CycleFacts, CrossingFacts DEF Timed
    <3>3. CASE pilot \notin Single
      <4>1. s = 0
        BY <2>0, <3>1, <3>3 DEF StuckInv
      <4> QED BY <3>2, <4>1
    <3>4. CASE pilot \in Single
      <4>1. StuckAt(d)
        BY <2>0, <3>1, <3>4 DEF StuckInv
      <4>2. /\ m.phase # GreenFor(a) => s <= C - 1 + Going(a, m, Greens)
            /\ m.phase = GreenFor(a) =>
                 \/ s * Saturation <= c /\ (s > 0 => c < PerVehicle)
                 \/ s <= C - 1 + Cycle + Age(m) + 1 /\ (Age(m) + 1) * Saturation <= c /\ c < PerVehicle
        BY <4>1 DEF StuckAt
      <4>3. Going(a, m, Greens) \in Nat /\ Going(a, m, Greens) <= Cycle
        BY <3>2, GreensBound
      <4>4. /\ \A k \in Nat : k * Saturation \in Nat
            /\ \A k \in Nat : k * Saturation < PerVehicle <=> k <= C - 1
            /\ PerVehicle \in Nat
        BY CrossingFacts
      <4> HIDE DEF a, m, c, s, C
      <4>5. CASE m.phase # GreenFor(a)
        BY <3>2, <4>2, <4>3, <4>5 DEF s, C
      <4>6. CASE s * Saturation <= c /\ (s > 0 => c < PerVehicle)
        <5>1. s = 0 \/ s <= C - 1
          BY <3>2, <4>4, <4>6
        <5>2. s <= Cycle + 2 * (C - 1)
          BY <3>2, <5>1
        <5> QED BY <5>2 DEF s, C
      <4>7. CASE s <= C - 1 + Cycle + Age(m) + 1 /\ (Age(m) + 1) * Saturation <= c /\ c < PerVehicle
        <5>1. Age(m) + 1 \in Nat /\ (Age(m) + 1) * Saturation < PerVehicle
          BY <3>2, <4>4, <4>7
        <5>2. Age(m) + 1 <= C - 1
          BY <4>4, <5>1
        <5>3. s <= Cycle + 2 * (C - 1)
          BY <3>2, <4>7, <5>2
        <5> QED BY <5>3 DEF s, C
      <4> QED BY <4>2, <4>5, <4>6, <4>7
    <3> QED BY <3>3, <3>4
  <2> QED BY <2>1, <2>2 DEF ServedWithinCycle
<1> QED BY <1>1, LoopInvariant, PTL

(***************************************************************************)
(* EmergencyServed: an emergency vehicle that stays on one axis is kept    *)
(* waiting at most for the other axis's shortest green and the clearances, *)
(* under the adaptive controller and under the agents' policy.             *)
(***************************************************************************)
THEOREM EmergencyIsServed == Spec => []EmergencyServed
<1>1. IInv => EmergencyServed
  <2> SUFFICES ASSUME IInv PROVE alarmed <= 2 * Clearance + MinGreens
    BY DEF EmergencyServed, MinGreens
  <2>1. Timed(Commanding) /\ alarmed \in Nat /\ AlarmInv
    BY DEF IInv, Typed, Commanding
  <2>2. Clearance = Yellows + AllReds /\ Yellows \in Nat /\ AllReds \in Nat /\ MinGreens \in Nat
    BY LimitFacts DEF Clearance, Yellows, AllReds
  <2>3. CASE alarmed = 0
    BY <2>2, <2>3
  <2>4. CASE alarmed > 0
    <3>1. /\ Alarm \in Axes
          /\ Commanding.phase = GreenFor(OtherAxis(Alarm)) => Age(Commanding) + 1 <= MinGreens
          /\ alarmed <= Going(Alarm, Commanding, MinGreens)
      BY <2>1, <2>4 DEF AlarmInv
    <3>2. /\ Going(Alarm, Commanding, MinGreens) \in Nat
          /\ Going(Alarm, Commanding, MinGreens) <= Yellows + AllReds + MinGreens + Yellows + AllReds
      BY <2>1, <2>2, <3>1, GoingBound
    <3> QED BY <2>1, <2>2, <3>1, <3>2
  <2> QED BY <2>1, <2>3, <2>4
<1> QED BY <1>1, LoopInvariant, PTL

(***************************************************************************)
(* JumpsOnlyAtFailover: the lamps move along the transition table, except  *)
(* where the composable services change their controller or lose a         *)
(* decision; and SUMO's lamps are the commanded ones.                      *)
(***************************************************************************)
THEOREM LampsJumpOnlyAtFailover == Spec => JumpsOnlyAtFailover
<1> DEFINE Jump == pilot = "services" /\ (inCharge' # inCharge \/ losses' > losses \/ Behind)
           Safe == /\ \/ Jump
                      \/ <<twin.phase, twin'.phase>> \in Legal
                   /\ pilot = "sumo" => Lamps' = twin'.phase
<1>1. ASSUME IInv, UNCHANGED vars PROVE Safe
  <2>1. /\ pilot' = pilot /\ twin' = twin /\ tls' = tls
    BY <1>1 DEF vars
  <2>2. twin.phase \in Phases
    BY <1>1 DEF IInv, Typed
  <2>3. <<twin.phase, twin'.phase>> \in Legal
    BY <2>1, <2>2 DEF Legal
  <2>4. pilot = "sumo" => Lamps = twin.phase
    BY <1>1, <2>2, ProgramFacts DEF IInv, ProgramHolds, Lamps
  <2>5. Lamps' = Lamps
    BY <2>1 DEF Lamps
  <2> QED BY <2>1, <2>3, <2>4, <2>5
<1>2. ASSUME IInv, Next, pilot \in Single PROVE Safe
  <2>1. Typed /\ Follows
    BY <1>2 DEF IInv
  <2>2. Moves(Commanding, Commanding', Watches(Commanding)) /\ Drive(Commanding'.phase)
    BY <1>2, <2>1, SingleMoves
  <2>3. Timed(Commanding) /\ Timed(Commanding') /\ Turns(Commanding, Commanding')
    BY <2>1, <2>2 DEF Typed, Commanding, Moves
  <2>4. Commanding'.phase \in Phases
    BY <2>3 DEF Timed, Machine
  <2>5. twin'.phase = Commanding'.phase
    BY <2>1, <2>2, <2>4, DriveFacts
  <2>6. twin.phase = Commanding.phase /\ pilot # "sumo"
    BY <1>2, <2>1 DEF Follows, Single
  <2>7. <<Commanding.phase, Commanding'.phase>> \in Legal
    <3> DEFINE m == Commanding
               n == Commanding'
    <3> HIDE DEF m, n
    <3>1. Timed(m) /\ Turns(m, n)
      BY <2>3 DEF m, n
    <3>2. <<m.phase, n.phase>> \in Legal
      BY <3>1, TurnsLegally
    <3> QED BY <3>2 DEF m, n
  <2> QED BY <2>5, <2>6, <2>7
<1>3. ASSUME IInv, SumoTick PROVE Safe
  <2>1. Typed /\ Follows /\ ProgramHolds
    BY <1>3 DEF IInv
  <2>2. /\ pilot = "sumo" /\ Moves(adaptive.machine, adaptive'.machine, Urged(adaptive.machine))
        /\ twin'.phase = adaptive'.machine.phase /\ Lamps' = twin'.phase
    BY <1>3, <2>1, SumoMoves
  <2>3. Timed(adaptive.machine) /\ Turns(adaptive.machine, adaptive'.machine)
    BY <2>1, <2>2 DEF Typed, Moves
  <2>4. twin.phase = adaptive.machine.phase
    BY <2>1, <2>2 DEF Follows, Commanding
  <2>5. <<adaptive.machine.phase, adaptive'.machine.phase>> \in Legal
    <3> DEFINE m == adaptive.machine
               n == adaptive'.machine
    <3> HIDE DEF m, n
    <3>1. Timed(m) /\ Turns(m, n)
      BY <2>3 DEF m, n
    <3>2. <<m.phase, n.phase>> \in Legal
      BY <3>1, TurnsLegally
    <3> QED BY <3>2 DEF m, n
  <2> QED BY <2>2, <2>4, <2>5
<1>4. ASSUME IInv, NEW trusted \in BOOLEAN, NEW published \in BOOLEAN, NEW runs \in 1..(MaxRetries + 1),
             ServicesTick(trusted, runs, published)
      PROVE  Safe
  <2>1. Typed /\ Follows
    BY <1>4 DEF IInv
  <2>2. /\ pilot = "services" /\ Drive(signal'.phase)
        /\ signal' \in [phase : Phases, elapsed : Nat, remaining : Nat]
        /\ losses' = losses \/ losses' = losses + 1
        /\ losses' = losses =>
              \/ /\ inCharge' = "fixed_timer"
                 /\ Turns(fixed, fixed') /\ signal'.phase = fixed'.phase
              \/ /\ inCharge' = "adaptive"
                 /\ Turns(adaptive.machine, adaptive'.machine) /\ signal'.phase = adaptive'.machine.phase
    BY <1>4, <2>1, ServicesMoves
  <2>3. signal'.phase \in Phases
    BY <2>2
  <2>4. twin'.phase = signal'.phase /\ twin.phase = signal.phase
    BY <2>1, <2>2, <2>3, DriveFacts DEF Follows
  <2>5. CASE losses' = losses /\ inCharge' = inCharge /\ ~Behind
    <3>1. CASE /\ inCharge' = "fixed_timer"
               /\ Turns(fixed, fixed') /\ signal'.phase = fixed'.phase
      <4>1. signal.phase = fixed.phase
        BY <2>5, <3>1 DEF Behind, InChargeShows
      <4>2. <<fixed.phase, fixed'.phase>> \in Legal
        BY <2>1, <3>1, TurnsLegally DEF Typed
      <4> QED BY <2>2, <2>4, <3>1, <4>1, <4>2
    <3>2. CASE /\ inCharge' = "adaptive"
               /\ Turns(adaptive.machine, adaptive'.machine) /\ signal'.phase = adaptive'.machine.phase
      <4>1. signal.phase = adaptive.machine.phase
        BY <2>5, <3>2 DEF Behind, InChargeShows
      <4>2. <<adaptive.machine.phase, adaptive'.machine.phase>> \in Legal
        <5> DEFINE m == adaptive.machine
                   n == adaptive'.machine
        <5> HIDE DEF m, n
        <5>1. Timed(m) /\ Turns(m, n)
          BY <2>1, <3>2 DEF m, n, Typed
        <5>2. <<m.phase, n.phase>> \in Legal
          BY <5>1, TurnsLegally
        <5> QED BY <5>2 DEF m, n
      <4> QED BY <2>2, <2>4, <3>2, <4>1, <4>2
    <3> QED BY <2>2, <2>5, <3>1, <3>2
  <2>6. CASE ~(losses' = losses /\ inCharge' = inCharge /\ ~Behind)
    <3>1. losses' = losses + 1 => losses' > losses
      BY <2>1 DEF Typed
    <3>2. Jump
      <4> DEFINE ahead == Behind
      <4> HIDE DEF ahead
      <4>1. ~(losses' = losses /\ inCharge' = inCharge /\ ~ahead)
        BY <2>6 DEF ahead
      <4>2. inCharge' # inCharge \/ losses' > losses \/ ahead
        BY <2>2, <3>1, <4>1
      <4> QED BY <2>2, <4>2 DEF ahead
    <3> QED BY <2>2, <3>2
  <2> QED BY <2>5, <2>6
<1>5. FixedTick \/ AdaptiveTick \/ (\E predicted : UtilityTick(predicted)) => pilot \in Single
  BY DEF FixedTick, AdaptiveTick, UtilityTick, Single
<1>6. ASSUME IInv, Next PROVE Safe
  <2>1. CASE pilot \in Single
    BY <1>2, <1>6, <2>1
  <2>2. CASE pilot \notin Single
    <3>1. \/ SumoTick
          \/ \E trusted, published \in BOOLEAN, runs \in 1..(MaxRetries + 1) :
               ServicesTick(trusted, runs, published)
      BY <1>5, <1>6, <2>2 DEF Next
    <3> HIDE DEF Safe
    <3> QED BY <1>3, <1>4, <1>6, <3>1
  <2> QED BY <2>1, <2>2
<1>7. IInv /\ [Next]_vars => [Safe]_vars
  <2> HIDE DEF Safe
  <2> QED BY <1>1, <1>6
<1>8. Spec => [][Safe]_vars
  <2> HIDE DEF Safe
  <2> QED BY <1>7, LoopInvariant, PTL DEF Spec
<1> QED BY <1>8 DEF JumpsOnlyAtFailover

=============================================================================
