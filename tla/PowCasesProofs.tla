--------------------------- MODULE PowCasesProofs ---------------------------
(***************************************************************************)
(* The arithmetic of a proof, proved for every target, mass, prompt, step  *)
(* and number of flags, and for every table that falls from its one.       *)
(*                                                                         *)
(* A recursive definition is first shown to be its equation (SearchDef,    *)
(* ShiftedDef, PlaceDef, NumberDef), by a least counterexample.  Credits:  *)
(* a turn of the bisection keeps the answer between its bounds (Turn).     *)
(* Preimages: parts of fixed width are told apart by their bytes           *)
(* (JoinCancels, LEFacts).  Targets: packing cuts off less than a unit of  *)
(* the exponent (PacksAlways), and the first byte that differs decides as  *)
(* the number does (FirstDecides).                                         *)
(***************************************************************************)
EXTENDS PowCases, WellFoundedInduction, TLAPS

(* A set of numbers that is not empty has a least one. *)
LEMMA LeastExists ==
    ASSUME NEW V, V /= {}, V \subseteq Nat
    PROVE  \E s \in V : \A t \in V : s <= t
<1>1. \E s \in V : \A t \in V : ~ (<<t, s>> \in OpToRel(<, Nat))
  BY NatLessThanWellFounded, WFMin
<1>2. PICK s \in V : \A t \in V : ~ (<<t, s>> \in OpToRel(<, Nat))
  BY <1>1
<1>3. \A t \in V : ~ (t < s)
  BY <1>2 DEF OpToRel
<1> QED BY <1>3

(* A set of numbers with 0 and every successor is all of them. *)
LEMMA Induction ==
    ASSUME NEW V, 0 \in V, \A n \in Nat : n \in V => n + 1 \in V
    PROVE  Nat \subseteq V
<1> SUFFICES ASSUME ~(Nat \subseteq V) PROVE FALSE
  OBVIOUS
<1>1. PICK s \in Nat \ V : \A t \in Nat \ V : s <= t
  <2>1. Nat \ V /= {} /\ Nat \ V \subseteq Nat
    OBVIOUS
  <2> QED BY <2>1, LeastExists
<1>2. s /= 0 /\ s - 1 \in Nat
  BY <1>1
<1>3. s - 1 \in V
  BY <1>1, <1>2
<1>4. (s - 1) + 1 \in V
  BY <1>2, <1>3
<1> QED BY <1>1, <1>2, <1>4

StepsIn(F, S) == \A n \in Nat : \A s \in S : F[n][s] \in S

Iterates(g, a, F) == g[0] = a /\ \A n \in Nat : g[n + 1] = F[n][g[n]]

(* A value of a set, stepped again and again inside of the set, runs       *)
(* through a sequence of its own.                                          *)
LEMMA IterationExists ==
    ASSUME NEW S, NEW a \in S, NEW F, StepsIn(F, S)
    PROVE  \E g \in [Nat -> S] : Iterates(g, a, F)
<1> USE DEF StepsIn, Iterates
<1> DEFINE Run(n, h) == /\ h \in [0 .. n -> S] /\ h[0] = a
                        /\ \A k \in 0 .. n - 1 : h[k + 1] = F[k][h[k]]
           V == {n \in Nat : \E h \in [0 .. n -> S] : Run(n, h)}
<1>1. 0 \in V
  <2>1. [k \in 0 .. 0 |-> a] \in [0 .. 0 -> S] /\ Run(0, [k \in 0 .. 0 |-> a])
    OBVIOUS
  <2> QED BY <2>1
<1>2. ASSUME NEW n \in Nat, n \in V
      PROVE  n + 1 \in V
  <2>1. PICK h \in [0 .. n -> S] : Run(n, h)
    BY <1>2
  <2> DEFINE e == [k \in 0 .. n + 1 |-> IF k = n + 1 THEN F[n][h[n]] ELSE h[k]]
  <2>2. h[n] \in S /\ F[n][h[n]] \in S
    OBVIOUS
  <2>3. e \in [0 .. n + 1 -> S]
    BY <2>2
  <2>4. e[0] = a
    BY <2>1
  <2>5. \A k \in 0 .. (n + 1) - 1 : e[k + 1] = F[k][e[k]]
    <3> TAKE k \in 0 .. (n + 1) - 1
    <3>1. CASE k = n
      <4>1. n \in 0 .. n + 1 /\ n /= n + 1 /\ n + 1 \in 0 .. n + 1
        OBVIOUS
      <4>2. e[n] = h[n] /\ e[n + 1] = F[n][h[n]]
        BY <4>1
      <4> HIDE DEF e
      <4> QED BY <3>1, <4>2
    <3>2. CASE k /= n
      <4>1. k \in 0 .. n - 1 /\ k + 1 \in 0 .. n + 1 /\ k + 1 /= n + 1 /\ k \in 0 .. n + 1
              /\ k /= n + 1
        BY <3>2
      <4>2. e[k + 1] = h[k + 1] /\ e[k] = h[k]
        BY <4>1
      <4>3. h[k + 1] = F[k][h[k]]
        BY <2>1, <4>1
      <4> QED BY <4>2, <4>3
    <3> QED BY <3>1, <3>2
  <2>6. Run(n + 1, e)
    BY <2>3, <2>4, <2>5
  <2> HIDE DEF e, Run
  <2> QED BY <2>3, <2>6
<1>3. \A n \in Nat : n \in V
  <2> HIDE DEF V
  <2>1. \A n \in Nat : n \in V => n + 1 \in V
    BY <1>2
  <2> QED BY <1>1, <2>1, Induction
<1>4. ASSUME NEW n \in Nat, NEW m \in Nat, n <= m, NEW h, NEW e, Run(n, h), Run(m, e)
      PROVE  \A k \in 0 .. n : h[k] = e[k]
  <2> DEFINE W == {k \in Nat : k <= n => h[k] = e[k]}
  <2>1. 0 \in W
    BY <1>4
  <2>2. ASSUME NEW k \in Nat, k \in W
        PROVE  k + 1 \in W
    <3>1. CASE k + 1 <= n
      <4>1. h[k] = e[k] /\ k \in 0 .. n - 1 /\ k \in 0 .. m - 1
        BY <2>2, <3>1, <1>4
      <4>2. h[k + 1] = F[k][h[k]] /\ e[k + 1] = F[k][e[k]]
        BY <4>1, <1>4
      <4> QED BY <4>1, <4>2
    <3>2. CASE ~(k + 1 <= n)
      BY <3>2
    <3> QED BY <3>1, <3>2
  <2>3. Nat \subseteq W
    <3> HIDE DEF W
    <3>1. \A k \in Nat : k \in W => k + 1 \in W
      BY <2>2
    <3> QED BY <2>1, <3>1, Induction
  <2> QED BY <2>3
<1> DEFINE run == [n \in Nat |-> CHOOSE h : Run(n, h)]
           g == [n \in Nat |-> run[n][n]]
<1>5. ASSUME NEW n \in Nat
      PROVE  Run(n, run[n])
  <2>1. \E h : Run(n, h)
    BY <1>3
  <2> HIDE DEF Run
  <2> QED BY <2>1
<1>6. g \in [Nat -> S]
  <2>1. ASSUME NEW n \in Nat
        PROVE  run[n][n] \in S
    <3>1. Run(n, run[n])
      BY <1>5
    <3> HIDE DEF run
    <3> QED BY <3>1
  <2> HIDE DEF run
  <2> QED BY <2>1
<1>7. g[0] = a
  <2>1. Run(0, run[0])
    BY <1>5
  <2> HIDE DEF run
  <2> QED BY <2>1
<1>8. ASSUME NEW n \in Nat
      PROVE  g[n + 1] = F[n][g[n]]
  <2>1. Run(n, run[n]) /\ Run(n + 1, run[n + 1])
    <3>1. n + 1 \in Nat
      OBVIOUS
    <3> HIDE DEF run, Run
    <3> QED BY <1>5, <3>1
  <2>2. run[n][n] = run[n + 1][n]
    <3> HIDE DEF run, Run
    <3>1. \A k \in 0 .. n : run[n][k] = run[n + 1][k]
      BY <1>4, <2>1
    <3> QED BY <3>1
  <2>3. run[n + 1][n + 1] = F[n][run[n + 1][n]]
    <3> HIDE DEF run
    <3> QED BY <2>1
  <2> HIDE DEF run
  <2> QED BY <2>2, <2>3
<1> HIDE DEF g
<1> QED BY <1>6, <1>7, <1>8

-----------------------------------------------------------------------------
(* Credit. *)

Top == Len(Thresholds) - 1

Spans == [lo : 0 .. Top, hi : 0 .. Top]

LEMMA TableFacts ==
    /\ Top \in Nat /\ Len(Thresholds) = Top + 1
    /\ \A n \in 1 .. Len(Thresholds) : Thresholds[n] \in Nat /\ Thresholds[n] > 0
    /\ One \in Nat /\ One > 0
BY TableAssumption DEF Top, One

(* The middle of a span that is not closed lies in its upper part. *)
LEMMA Middle ==
    ASSUME NEW lo \in Nat, NEW hi \in Nat, lo < hi
    PROVE  (lo + hi + 1) \div 2 \in lo + 1 .. hi
OBVIOUS

(* A turn keeps to the table, keeps what lo allows and what is above hi    *)
(* out, and closes the span by one entry or more until it is closed.       *)
LEMMA Turn ==
    ASSUME NEW s \in Spans, NEW mass \in Nat, s.lo <= s.hi
    PROVE  LET t == Halved(s, mass)
           IN  /\ t \in Spans /\ t.lo <= t.hi /\ t.hi <= s.hi
               /\ s.lo < s.hi => t.hi - t.lo < s.hi - s.lo
               /\ s.lo = s.hi => t = s
               /\ Thresholds[s.lo + 1] >= mass => Thresholds[t.lo + 1] >= mass
               /\ t.hi < s.hi => Thresholds[t.hi + 2] < mass
<1> DEFINE mid == (s.lo + s.hi + 1) \div 2
           t == Halved(s, mass)
<1>1. s.lo \in 0 .. Top /\ s.hi \in 0 .. Top /\ Top \in Nat
  BY TableFacts DEF Spans
<1>2. CASE s.lo = s.hi
  <2>1. t = s
    BY <1>1, <1>2 DEF Halved
  <2> HIDE DEF t
  <2> QED BY <1>1, <1>2, <2>1 DEF t
<1>3. CASE s.lo /= s.hi
  <2>1. s.lo \in Nat /\ s.hi \in Nat /\ s.lo < s.hi
    BY <1>1, <1>3
  <2>2. mid \in s.lo + 1 .. s.hi
    BY <2>1, Middle
  <2>3. mid \in 0 .. Top /\ mid - 1 \in 0 .. Top
    BY <1>1, <2>1, <2>2
  <2>4. t = IF Thresholds[mid + 1] >= mass THEN [s EXCEPT !.lo = mid]
                                           ELSE [s EXCEPT !.hi = mid - 1]
    BY <2>1 DEF Halved
  <2> HIDE DEF mid, t
  <2>5. s = [lo |-> s.lo, hi |-> s.hi]
    BY DEF Spans
  <2>6. Thresholds[mid + 1] \in Nat
    BY <2>3, TableFacts
  <2>7. CASE Thresholds[mid + 1] >= mass
    <3>1. t = [lo |-> mid, hi |-> s.hi]
      BY <2>4, <2>5, <2>7
    <3>2. t \in Spans /\ t.lo = mid /\ t.hi = s.hi
      BY <3>1, <2>3, <1>1 DEF Spans
    <3> QED BY <3>2, <2>1, <2>2, <2>7 DEF t
  <2>8. CASE ~(Thresholds[mid + 1] >= mass)
    <3>1. t = [lo |-> s.lo, hi |-> mid - 1]
      BY <2>4, <2>5, <2>8
    <3>2. t \in Spans /\ t.lo = s.lo /\ t.hi = mid - 1
      BY <3>1, <2>3, <1>1 DEF Spans
    <3>3. (mid - 1) + 2 = mid + 1 /\ mid \in Nat
      BY <2>3
    <3> QED BY <3>2, <3>3, <2>1, <2>2, <2>6, <2>8 DEF t
  <2> QED BY <2>7, <2>8
<1> QED BY <1>2, <1>3

Ordered == {s \in Spans : s.lo <= s.hi}

Whole == [lo |-> 0, hi |-> Top]

LEMMA WholeOrdered == Whole \in Ordered
BY TableFacts DEF Whole, Ordered, Spans

LEMMA SearchRuns ==
    ASSUME NEW mass \in Nat
    PROVE  \E g \in [Nat -> Ordered] :
              g[0] = Whole /\ \A n \in Nat : g[n + 1] = Halved(g[n], mass)
<1> DEFINE F == [n \in Nat |-> [s \in Ordered |-> Halved(s, mass)]]
<1>1. \A s \in Ordered : Halved(s, mass) \in Ordered
  BY Turn DEF Ordered
<1>3. \A n \in Nat : \A s \in Ordered : F[n][s] = Halved(s, mass)
  OBVIOUS
<1> HIDE DEF F
<1>2. StepsIn(F, Ordered)
  BY <1>1, <1>3 DEF StepsIn
<1>4. PICK g \in [Nat -> Ordered] : Iterates(g, Whole, F)
  BY <1>2, WholeOrdered, IterationExists
<1> QED BY <1>3, <1>4 DEF Iterates

(* The search is the run it is written as. *)
LEMMA SearchDef ==
    ASSUME NEW mass \in Nat
    PROVE  \E g \in [Nat -> Ordered] :
              /\ g[0] = Whole /\ \A n \in Nat : g[n + 1] = Halved(g[n], mass)
              /\ credit_units_for_step(mass) = g[Len(Thresholds)].lo
<1> DEFINE Body(f) == [n \in Nat |-> IF n = 0 THEN [lo |-> 0, hi |-> Len(Thresholds) - 1]
                                     ELSE Halved(f[n - 1], mass)]
           search == CHOOSE f : f = Body(f)
<1>1. PICK g \in [Nat -> Ordered] :
         g[0] = Whole /\ \A n \in Nat : g[n + 1] = Halved(g[n], mass)
  BY SearchRuns
<1>2. \A n \in Nat : g[n] = IF n = 0 THEN [lo |-> 0, hi |-> Len(Thresholds) - 1]
                            ELSE Halved(g[n - 1], mass)
  <2> TAKE n \in Nat
  <2>1. CASE n = 0
    BY <1>1, <2>1 DEF Whole, Top
  <2>2. CASE n /= 0
    <3>1. n - 1 \in Nat /\ (n - 1) + 1 = n
      BY <2>2
    <3> QED BY <1>1, <2>2, <3>1
  <2> QED BY <2>1, <2>2
<1>3. g = Body(g)
  BY <1>2
<1>4. search = Body(search)
  <2> HIDE DEF Body
  <2> QED BY <1>3
<1>5. credit_units_for_step(mass) = search[Len(Thresholds)].lo
  BY DEF credit_units_for_step
<1> HIDE DEF search
<1>6. \A n \in Nat : search[n] = IF n = 0 THEN Whole ELSE Halved(search[n - 1], mass)
  BY <1>4 DEF Whole, Top
<1>7. search[0] = Whole
  BY <1>6
<1>8. \A n \in Nat : search[n + 1] = Halved(search[n], mass)
  <2> TAKE n \in Nat
  <2>1. n + 1 \in Nat /\ n + 1 /= 0 /\ (n + 1) - 1 = n
    OBVIOUS
  <2> QED BY <1>6, <2>1
<1>9. \A n \in Nat : search[n] \in Ordered
  <2> DEFINE V == {n \in Nat : search[n] \in Ordered}
  <2>1. 0 \in V
    BY <1>7, WholeOrdered
  <2>2. ASSUME NEW n \in Nat, n \in V PROVE n + 1 \in V
    <3>1. Halved(search[n], mass) \in Ordered
      BY <2>2, Turn DEF Ordered
    <3> QED BY <1>8, <3>1
  <2> HIDE DEF V
  <2>3. Nat \subseteq V
    BY <2>1, <2>2, Induction
  <2> QED BY <2>3 DEF V
<1>10. search \in [Nat -> Ordered]
  BY <1>4, <1>9
<1> QED BY <1>5, <1>7, <1>8, <1>10

(* The search ends at the last entry that allows the mass. *)
LEMMA CreditIsLargest ==
    ASSUME NEW mass \in Nat, mass <= One
    PROVE  LET n == credit_units_for_step(mass)
           IN  /\ n \in 0 .. Top
               /\ Thresholds[n + 1] >= mass
               /\ n < Top => Thresholds[n + 2] < mass
<1>1. PICK g \in [Nat -> Ordered] :
         /\ g[0] = Whole /\ \A n \in Nat : g[n + 1] = Halved(g[n], mass)
         /\ credit_units_for_step(mass) = g[Len(Thresholds)].lo
  BY SearchDef
<1> DEFINE Good(k) == /\ Thresholds[g[k].lo + 1] >= mass
                      /\ g[k].hi < Top => Thresholds[g[k].hi + 2] < mass
                      /\ g[k].lo = g[k].hi \/ g[k].hi - g[k].lo <= Top - k
           V == {k \in Nat : Good(k)}
<1>2. 0 \in V
  <2>1. g[0].lo = 0 /\ g[0].hi = Top
    BY <1>1 DEF Whole
  <2> QED BY <2>1, TableFacts DEF One
<1>3. ASSUME NEW k \in Nat, k \in V PROVE k + 1 \in V
  <2>1. g[k] \in Spans /\ g[k].lo <= g[k].hi /\ g[k + 1] = Halved(g[k], mass)
    BY <1>1 DEF Ordered
  <2>2. /\ g[k + 1] \in Spans /\ g[k + 1].lo <= g[k + 1].hi /\ g[k + 1].hi <= g[k].hi
        /\ g[k].lo < g[k].hi => g[k + 1].hi - g[k + 1].lo < g[k].hi - g[k].lo
        /\ g[k].lo = g[k].hi => g[k + 1] = g[k]
        /\ Thresholds[g[k].lo + 1] >= mass => Thresholds[g[k + 1].lo + 1] >= mass
        /\ g[k + 1].hi < g[k].hi => Thresholds[g[k + 1].hi + 2] < mass
    BY <2>1, Turn
  <2>3. /\ g[k].lo \in Int /\ g[k].hi \in Int /\ g[k + 1].lo \in Int /\ g[k + 1].hi \in Int
        /\ Top \in Int
    BY <2>1, <2>2, TableFacts DEF Spans
  <2>4. Thresholds[g[k + 1].lo + 1] >= mass
    BY <1>3, <2>2
  <2>5. g[k + 1].hi < Top => Thresholds[g[k + 1].hi + 2] < mass
    <3>1. CASE g[k + 1].hi = g[k].hi
      BY <1>3, <3>1
    <3>2. CASE g[k + 1].hi < g[k].hi
      BY <2>2, <3>2
    <3> QED BY <2>2, <2>3, <3>1, <3>2
  <2>6. g[k + 1].lo = g[k + 1].hi \/ g[k + 1].hi - g[k + 1].lo <= Top - (k + 1)
    <3>1. CASE g[k].lo = g[k].hi
      BY <2>2, <3>1
    <3>2. CASE g[k].lo /= g[k].hi
      BY <1>3, <2>1, <2>2, <2>3, <3>2
    <3> QED BY <3>1, <3>2
  <2> QED BY <2>4, <2>5, <2>6
<1>4. Good(Len(Thresholds)) /\ Len(Thresholds) \in Nat
  <2>1. Nat \subseteq V
    <3> HIDE DEF V
    <3> QED BY <1>2, <1>3, Induction
  <2>2. Len(Thresholds) \in Nat
    BY TableFacts
  <2> HIDE DEF Good
  <2> QED BY <2>1, <2>2
<1>5. g[Len(Thresholds)] \in Spans /\ g[Len(Thresholds)].lo <= g[Len(Thresholds)].hi
  BY <1>1, <1>4 DEF Ordered
<1>6. g[Len(Thresholds)].lo \in 0 .. Top /\ g[Len(Thresholds)].hi \in 0 .. Top
  BY <1>5 DEF Spans
<1>7. g[Len(Thresholds)].lo = g[Len(Thresholds)].hi
  BY <1>4, <1>5, <1>6, TableFacts
<1> QED BY <1>1, <1>4, <1>6, <1>7

(* Rounding outwards never loses mass. *)
LEMMA MassCovers ==
    ASSUME NEW lower \in Nat, NEW upper \in Nat, lower <= upper, upper <= 4 * One
    PROVE  LET mass == mass_q63_for_step(lower, upper)
           IN  mass \in Nat /\ mass <= One /\ 4 * mass >= upper - lower
<1>1. One \in Nat /\ Atol \in Nat
  BY TableFacts, TableAssumption
<1> DEFINE wide == ((upper + 3) \div 4 - lower \div 4) + 2 * Atol
<1>2. wide \in Nat /\ 4 * wide >= upper - lower
  BY <1>1
<1>3. mass_q63_for_step(lower, upper) = IF wide > One THEN One ELSE wide
  BY DEF mass_q63_for_step, _f64_to_q63_ceil, _f64_to_q63_floor
<1> HIDE DEF wide
<1> QED BY <1>1, <1>2, <1>3

(* The credit of a window of one step. *)
LEMMA OneStepSum ==
    ASSUME NEW lower, NEW upper, credit_units_for_step(mass_q63_for_step(lower, upper)) \in Nat
    PROVE  b_cred_units_from_bounds(<<lower>>, <<upper>>)
              = credit_units_for_step(mass_q63_for_step(lower, upper))
<1> DEFINE c == credit_units_for_step(mass_q63_for_step(lower, upper))
           lowers == <<lower>>
           uppers == <<upper>>
           Body(f) == [k \in 0 .. Len(lowers) |->
                         IF k = 0 THEN 0
                         ELSE f[k - 1] + credit_units_for_step(mass_q63_for_step(lowers[k], uppers[k]))]
           total == CHOOSE f : f = Body(f)
           g == [k \in 0 .. 1 |-> IF k = 0 THEN 0 ELSE c]
<1>1. Len(lowers) = 1 /\ lowers[1] = lower /\ uppers[1] = upper
  OBVIOUS
<1>2. b_cred_units_from_bounds(lowers, uppers) = total[Len(lowers)]
  BY DEF b_cred_units_from_bounds
<1> HIDE DEF lowers, uppers
<1>3. g = Body(g)
  <2>1. \A k \in 0 .. 1 : g[k] = Body(g)[k]
    <3> TAKE k \in 0 .. 1
    <3>1. CASE k = 0
      BY <3>1, <1>1
    <3>2. CASE k = 1
      <4>1. Body(g)[1] = g[1 - 1] + credit_units_for_step(mass_q63_for_step(lowers[1], uppers[1]))
        BY <1>1
      <4>2. g[1 - 1] = 0 /\ g[1] = c
        OBVIOUS
      <4>3. c \in Nat
        OBVIOUS
      <4> HIDE DEF g, c, Body
      <4>4. 0 + c = c
        BY <4>3
      <4> QED BY <4>1, <4>2, <4>4, <1>1, <3>2 DEF c
    <3> QED BY <3>1, <3>2
  <2>2. DOMAIN Body(g) = 0 .. 1 /\ DOMAIN g = 0 .. 1
    BY <1>1
  <2>3. Body(g) = [k \in 0 .. 1 |-> Body(g)[k]] /\ g = [k \in 0 .. 1 |-> g[k]]
    BY <1>1
  <2> HIDE DEF g, Body
  <2> QED BY <2>1, <2>3
<1>4. total = Body(total)
  <2> HIDE DEF Body, g
  <2> QED BY <1>3
<1> HIDE DEF total
<1>5. total[0] = 0
  BY <1>1, <1>4
<1>6. total[1] = total[1 - 1] + credit_units_for_step(mass_q63_for_step(lowers[1], uppers[1]))
  BY <1>1, <1>4
<1>7. total[1] = 0 + c
  BY <1>1, <1>5, <1>6
<1>8. total[1] = c
  <2> c \in Nat
    OBVIOUS
  <2> HIDE DEF c
  <2> QED BY <1>7
<1> QED BY <1>1, <1>2, <1>8 DEF lowers, uppers

(* A larger divisor leaves no more. *)
LEMMA DivMonotone ==
    ASSUME NEW x \in Nat, NEW a \in Nat, NEW b \in Nat, 0 < b, b <= a
    PROVE  x \div a <= x \div b
<1> DEFINE q == x \div a
           r == x \div b
<1>1. q \in Nat /\ q * a <= x
  OBVIOUS
<1>2. r \in Nat /\ x < (r + 1) * b
  OBVIOUS
<1> HIDE DEF q, r
<1>3. q * b <= q * a
  BY <1>1
<1>4. q * b < (r + 1) * b
  BY <1>1, <1>2, <1>3
<1>5. q < r + 1
  BY <1>1, <1>2, <1>4
<1> QED BY <1>1, <1>2, <1>5 DEF q, r

LEMMA TargetMonotone ==
    ASSUME NEW d \in Nat, NEW e \in Nat, 0 < d, d <= e, NEW factor \in Nat, NEW limit \in Nat
    PROVE  admission_target(d, factor, limit) <= admission_target(e, factor, limit)
<1> DEFINE t(x) == IF factor \div x > 1 THEN factor \div x ELSE 1
<1>1. factor \div e <= factor \div d
  BY DivMonotone
<1>2. factor \div e \in Nat /\ factor \div d \in Nat
  OBVIOUS
<1>3. t(d) \in Nat /\ t(e) \in Nat /\ 0 < t(e) /\ t(e) <= t(d)
  <2> DEFINE x == factor \div d
             y == factor \div e
  <2>1. x \in Nat /\ y \in Nat /\ y <= x
    BY <1>1, <1>2
  <2> HIDE DEF x, y
  <2>2. (IF x > 1 THEN x ELSE 1) \in Nat /\ (IF y > 1 THEN y ELSE 1) \in Nat
        /\ 0 < (IF y > 1 THEN y ELSE 1) /\ (IF y > 1 THEN y ELSE 1) <= (IF x > 1 THEN x ELSE 1)
    BY <2>1
  <2> QED BY <2>2 DEF x, y
<1> HIDE DEF t
<1>4. limit \div t(d) <= limit \div t(e)
  BY <1>3, DivMonotone
<1> QED BY <1>4 DEF t, admission_target, admission_expected_tries

-----------------------------------------------------------------------------
(* The inputs. *)

CaseTypes ==
    /\ target \in 0 .. MaxTarget
    /\ bounds \in [lower : Nat, upper : Nat]
    /\ bounds.lower <= bounds.upper /\ bounds.upper <= 4 * One
    /\ prefix \in Contexts
    /\ flags \in Flags

Step1 == [tok : 0 .. 1, pad : BOOLEAN]

LEMMA ContextFacts ==
    ASSUME NEW p \in Contexts
    PROVE  p \in Seq(Step1) /\ Len(p) \in 0 .. Window + 1
<1>1. PICK n \in 0 .. Window + 1 : p \in [1 .. n -> Step1]
  BY DEF Contexts, Step1
<1>2. n \in Nat
  BY <1>1, MessageAssumption
<1> QED BY <1>1, <1>2

LEMMA ContextIs ==
    ASSUME NEW p \in Seq(Step1), Len(p) <= Window + 1
    PROVE  p \in Contexts
<1>1. Len(p) \in 0 .. Window + 1 /\ p \in [1 .. Len(p) -> Step1]
  BY MessageAssumption
<1> QED BY <1>1 DEF Contexts, Step1

LEMMA CaseTypesHold == Spec => []CaseTypes
<1>1. Init => CaseTypes
  <2> SUFFICES ASSUME Init PROVE CaseTypes
    OBVIOUS
  <2>1. target \in 0 .. MaxTarget
    BY MathAssumption DEF Init
  <2>2. bounds \in [lower : Nat, upper : Nat] /\ bounds.lower <= bounds.upper
    BY DEF Init
  <2>3. bounds.upper <= 4 * One
    BY TableFacts DEF Init
  <2>4. prefix \in Contexts
    <3>1. <<>> \in Seq(Step1) /\ Len(<<>>) = 0
      OBVIOUS
    <3>2. 0 <= Window + 1
      BY MessageAssumption
    <3>3. <<>> \in Contexts
      BY <3>1, <3>2, ContextIs
    <3> QED BY <3>3 DEF Init
  <2>5. flags \in Flags
    <3>1. Blank \in Flags
      BY MessageAssumption DEF Blank, Flags
    <3> QED BY <3>1 DEF Init
  <2> QED BY <2>1, <2>2, <2>3, <2>4, <2>5 DEF CaseTypes
<1>2. CaseTypes /\ [Next]_vars => CaseTypes'
  <2> SUFFICES ASSUME CaseTypes, [Next]_vars PROVE CaseTypes'
    OBVIOUS
  <2> USE DEF CaseTypes
  <2>1. CASE NextTarget
    BY <2>1, MathAssumption DEF NextTarget
  <2>2. CASE NextLogits
    BY <2>2 DEF NextLogits
  <2>3. CASE NextBounds
    <3>1. One \in Nat /\ bounds = [lower |-> bounds.lower, upper |-> bounds.upper]
      BY TableFacts
    <3>2. CASE bounds.upper < 4 * One /\ bounds' = [bounds EXCEPT !.upper = @ + 1]
      <4>1. bounds' = [lower |-> bounds.lower, upper |-> bounds.upper + 1]
        BY <3>1, <3>2
      <4> QED BY <2>3, <3>1, <3>2, <4>1 DEF NextBounds
    <3>3. CASE bounds.lower < bounds.upper /\ bounds' = [bounds EXCEPT !.lower = @ + 1]
      <4>1. bounds' = [lower |-> bounds.lower + 1, upper |-> bounds.upper]
        BY <3>1, <3>3
      <4> QED BY <2>3, <3>1, <3>3, <4>1 DEF NextBounds
    <3> QED BY <2>3, <3>2, <3>3 DEF NextBounds
  <2>4. CASE NextPrefix
    <3>1. PICK tok \in 0 .. 1, pad \in BOOLEAN : prefix' = Append(prefix, [tok |-> tok, pad |-> pad])
      BY <2>4 DEF NextPrefix
    <3>2. prefix \in Seq(Step1) /\ Len(prefix) < Window + 1 /\ Len(prefix) \in Nat
      BY <2>4, ContextFacts DEF NextPrefix
    <3>3. [tok |-> tok, pad |-> pad] \in Step1
      BY DEF Step1
    <3>4. prefix' \in Seq(Step1) /\ Len(prefix') = Len(prefix) + 1
      BY <3>1, <3>2, <3>3
    <3>5. prefix' \in Contexts
      BY <3>2, <3>4, ContextIs, MessageAssumption
    <3> QED BY <2>4, <3>5 DEF NextPrefix, Contexts
  <2>5. CASE UNCHANGED vars
    BY <2>5 DEF vars
  <2> QED BY <2>1, <2>2, <2>3, <2>4, <2>5 DEF Next
<1> QED BY <1>1, <1>2, PTL DEF Spec

-----------------------------------------------------------------------------
(* A bounded set of numbers that is not empty has a last one. *)
LEMMA GreatestExists ==
    ASSUME NEW N \in Nat, NEW V, V /= {}, V \subseteq 0 .. N
    PROVE  \E s \in V : \A t \in V : t <= s
<1> DEFINE W == {N - v : v \in V}
<1>1. N \in Nat
  OBVIOUS
<1>2. W /= {} /\ W \subseteq Nat
  <2>1. \A v \in V : N - v \in Nat
    BY <1>1
  <2>2. PICK v \in V : TRUE
    OBVIOUS
  <2>3. N - v \in W
    OBVIOUS
  <2> QED BY <2>1, <2>3
<1>3. PICK w \in W : \A t \in W : w <= t
  <2> HIDE DEF W
  <2> QED BY <1>2, LeastExists
<1>4. PICK s \in V : w = N - s
  BY <1>3
<1>5. ASSUME NEW t \in V PROVE t <= s
  <2>1. N - t \in W
    OBVIOUS
  <2> HIDE DEF W
  <2>2. N - s <= N - t
    BY <1>3, <1>4, <2>1
  <2>3. t \in 0 .. N /\ s \in 0 .. N
    OBVIOUS
  <2> QED BY <1>1, <2>2, <2>3
<1> QED BY <1>4, <1>5

(* The credit of the true mass exists, and no entry that allows the mass   *)
(* lies above it.                                                          *)
LEMMA EarnedIsLast ==
    ASSUME CaseTypes
    PROVE  /\ Earned \in 0 .. Top
           /\ \A n \in 0 .. Top : 4 * Thresholds[n + 1] >= bounds.upper - bounds.lower => n <= Earned
<1> DEFINE w == bounds.upper - bounds.lower
           V == {n \in 0 .. Top : 4 * Thresholds[n + 1] >= w}
<1>1. w \in Int /\ w <= 4 * One /\ Top \in Nat
  BY TableFacts DEF CaseTypes
<1>2. 0 \in V
  BY <1>1 DEF One
<1>3. PICK s \in V : \A t \in V : t <= s
  <2> HIDE DEF V
  <2>1. V \subseteq 0 .. Top
    BY DEF V
  <2> QED BY <1>2, <2>1, GreatestExists, TableFacts
<1>4. \A n \in 0 .. Top : 4 * Thresholds[n + 1] \in Int
  BY TableFacts
<1> HIDE DEF w
<1>5. \A m \in s + 1 .. Top : 4 * Thresholds[m + 1] < w
  <2> TAKE m \in s + 1 .. Top
  <2>1. s \in 0 .. Top /\ m \in 0 .. Top /\ ~(m <= s)
    BY <1>1, <1>3
  <2>2. ~(4 * Thresholds[m + 1] >= w)
    BY <1>3, <2>1
  <2> QED BY <1>1, <1>4, <2>1, <2>2
<1> DEFINE P(n) == /\ 4 * Thresholds[n + 1] >= w
                   /\ \A m \in n + 1 .. Len(Thresholds) - 1 : 4 * Thresholds[m + 1] < w
<1>6. Len(Thresholds) - 1 = Top
  BY DEF Top
<1>7. s \in 0 .. Len(Thresholds) - 1 /\ P(s)
  BY <1>3, <1>5, <1>6
<1>8. Earned = CHOOSE n \in 0 .. Len(Thresholds) - 1 : P(n)
  BY DEF Earned, w
<1>9. Earned \in 0 .. Len(Thresholds) - 1 /\ P(Earned)
  <2> HIDE DEF P
  <2> QED BY <1>7, <1>8
<1>10. ASSUME NEW n \in 0 .. Top, 4 * Thresholds[n + 1] >= w
       PROVE  n <= Earned
  <2>1. Earned \in Int /\ n \in Int
    BY <1>6, <1>9
  <2>2. SUFFICES ASSUME Earned < n PROVE FALSE
    BY <2>1
  <2>3. n \in Earned + 1 .. Len(Thresholds) - 1
    BY <1>1, <1>6, <2>1, <2>2
  <2>4. 4 * Thresholds[n + 1] < w
    BY <1>9, <2>3
  <2> QED BY <1>1, <1>4, <1>10, <2>4
<1> QED BY <1>6, <1>9, <1>10 DEF w

(* NeverOverCredits for every table that starts at 1 and never increases,  *)
(* every tolerance and every interval: the binary search of                *)
(* credit_units_for_step ends at the last entry that allows the mass, the  *)
(* mass is no smaller than the true one, and the admission target is       *)
(* monotone in the difficulty.                                             *)
THEOREM CreditsNeverOver == Spec => []NeverOverCredits
<1>1. CaseTypes => NeverOverCredits
  <2> SUFFICES ASSUME CaseTypes PROVE NeverOverCredits
    OBVIOUS
  <2> DEFINE mass == mass_q63_for_step(bounds.lower, bounds.upper)
             c == credit_units_for_step(mass)
             n == b_cred_units_from_bounds(<<bounds.lower>>, <<bounds.upper>>)
  <2>1. mass \in Nat /\ mass <= One /\ 4 * mass >= bounds.upper - bounds.lower
    BY MassCovers DEF CaseTypes
  <2>2. c \in 0 .. Top /\ Thresholds[c + 1] >= mass /\ (c < Top => Thresholds[c + 2] < mass)
    <3> HIDE DEF mass
    <3> QED BY <2>1, CreditIsLargest
  <2>3. c \in Nat
    <3> HIDE DEF c
    <3> QED BY <2>2, TableFacts
  <2>4. n = c
    <3>1. credit_units_for_step(mass_q63_for_step(bounds.lower, bounds.upper)) \in Nat
      BY <2>3
    <3> QED BY <3>1, OneStepSum
  <2> HIDE DEF c, n
  <2>5. 4 * Thresholds[c + 1] >= bounds.upper - bounds.lower
    <3> HIDE DEF mass
    <3>1. Thresholds[c + 1] \in Nat /\ bounds.upper - bounds.lower \in Int
      BY <2>2, TableFacts DEF CaseTypes
    <3> QED BY <2>1, <2>2, <3>1
  <2>6. n <= Earned /\ Earned \in Nat /\ n \in Nat
    BY <2>2, <2>3, <2>4, <2>5, EarnedIsLast, TableFacts
  <2>7. tier_for_b_cred_units(Earned, 2, 4) = "invalid"
          => tier_for_b_cred_units(n, 2, 4) = "invalid"
    BY <2>6 DEF tier_for_b_cred_units
  <2>8. Thresholds[n + 1] >= mass /\ (n < Len(Thresholds) - 1 => Thresholds[n + 2] < mass)
    BY <2>2, <2>4 DEF Top
  <2>9. \A d, e \in 1 .. 8 : d <= e =>
          admission_target(d, target, MaxTarget) <= admission_target(e, target, MaxTarget)
    <3> TAKE d, e \in 1 .. 8
    <3>1. d \in Nat /\ e \in Nat /\ 0 < d /\ target \in Nat /\ MaxTarget \in Nat
      BY MathAssumption DEF CaseTypes
    <3> QED BY <3>1, TargetMonotone
  <2> QED BY <2>6, <2>7, <2>8, <2>9 DEF NeverOverCredits, n
<1> QED BY <1>1, CaseTypesHold, PTL

(* NonceSurvivesCarrier for every size and depth the parser allows and     *)
(* whatever flags the proof has: merge_extra_flags_v3 keeps the keys and   *)
(* its nonce is what extract_admission_nonce finds.                        *)
THEOREM NonceSurvives == Spec => []NonceSurvivesCarrier
<1>1. CaseTypes => NonceSurvivesCarrier
  <2> SUFFICES ASSUME CaseTypes, NEW nonce \in Nonces
               PROVE  LET merged == merge_extra_flags_v3(flags, nonce)
                      IN  /\ flags.keys \subseteq merged.keys
                          /\ merged.size <= MaxBytes /\ merged.depth <= MaxDepth
                               => extract_admission_nonce(merged) = nonce
    BY DEF NonceSurvivesCarrier
  <2> DEFINE merged == merge_extra_flags_v3(flags, nonce)
  <2>1. merged.kind = "object" /\ merged.v3 = nonce /\ merged.twice = FALSE
    BY DEF merge_extra_flags_v3
  <2>2. flags.kind /= "object" => flags.keys = {}
    BY DEF CaseTypes, Flags
  <2>3. flags.keys \subseteq merged.keys
    BY <2>2 DEF merge_extra_flags_v3
  <2> HIDE DEF merged
  <2>4. merged.size <= MaxBytes /\ merged.depth <= MaxDepth
          => extract_admission_nonce(merged) = nonce
    BY <2>1 DEF extract_admission_nonce
  <2> QED BY <2>3, <2>4 DEF merged
<1> QED BY <1>1, CaseTypesHold, PTL

-----------------------------------------------------------------------------
(* Messages. *)

LEMMA JoinFacts ==
    ASSUME NEW X, NEW s \in Seq(X), NEW u \in Seq(X)
    PROVE  /\ s \o u \in Seq(X) /\ Len(s \o u) = Len(s) + Len(u)
           /\ \A i \in 1 .. Len(s) : (s \o u)[i] = s[i]
           /\ \A i \in 1 .. Len(u) : (s \o u)[Len(s) + i] = u[i]
<1>1. s \o u \in Seq(X) /\ Len(s \o u) = Len(s) + Len(u)
  OBVIOUS
<1>2. \A i \in 1 .. Len(s) : (s \o u)[i] = s[i]
  OBVIOUS
<1>3. \A i \in 1 .. Len(u) : (s \o u)[Len(s) + i] = u[i]
  OBVIOUS
<1> QED BY <1>1, <1>2, <1>3

(* Joined sequences whose first parts are as long as each other are equal  *)
(* part by part.                                                           *)
LEMMA JoinCancels ==
    ASSUME NEW X, NEW s \in Seq(X), NEW t \in Seq(X), NEW u \in Seq(X), NEW v \in Seq(X)
    PROVE  s \o u = t \o v /\ Len(s) = Len(t) => s = t /\ u = v
<1> DEFINE a == s \o u
           b == t \o v
<1>1. /\ Len(a) = Len(s) + Len(u)
      /\ \A i \in 1 .. Len(s) : a[i] = s[i]
      /\ \A i \in 1 .. Len(u) : a[Len(s) + i] = u[i]
  BY JoinFacts
<1>2. /\ Len(b) = Len(t) + Len(v)
      /\ \A i \in 1 .. Len(t) : b[i] = t[i]
      /\ \A i \in 1 .. Len(v) : b[Len(t) + i] = v[i]
  BY JoinFacts
<1> HIDE DEF a, b
<1>3. SUFFICES ASSUME a = b, Len(s) = Len(t) PROVE s = t /\ u = v
  BY DEF a, b
<1>4. Len(u) = Len(v) /\ Len(s) \in Nat /\ Len(u) \in Nat
  BY <1>1, <1>2, <1>3
<1>5. s = t
  <2>1. \A i \in 1 .. Len(s) : s[i] = t[i]
    BY <1>1, <1>2, <1>3
  <2> QED BY SMTT(30), <1>3, <2>1
<1>6. u = v
  <2>1. \A i \in 1 .. Len(u) : u[i] = v[i]
    BY <1>1, <1>2, <1>3, <1>4
  <2> QED BY <1>4, <2>1
<1> QED BY <1>5, <1>6

LEMMA ShiftedDef ==
    ASSUME NEW n \in Nat, NEW k \in Nat
    PROVE  Shifted(n, k) \in Nat /\ (k = 0 => Shifted(n, k) = n)
<1> DEFINE Body(f) == [i \in Nat |-> IF i = 0 THEN n ELSE f[i - 1] \div 2]
           rest == CHOOSE f : f = Body(f)
           F == [i \in Nat |-> [s \in Nat |-> s \div 2]]
<1>1. \A i \in Nat : \A s \in Nat : F[i][s] = s \div 2 /\ s \div 2 \in Nat
  OBVIOUS
<1>2. StepsIn(F, Nat)
  BY <1>1 DEF StepsIn
<1> HIDE DEF F
<1>3. PICK g \in [Nat -> Nat] : Iterates(g, n, F)
  BY <1>2, IterationExists
<1>4. \A i \in Nat : g[i] = IF i = 0 THEN n ELSE g[i - 1] \div 2
  <2> TAKE i \in Nat
  <2>1. CASE i = 0
    BY <1>3, <2>1 DEF Iterates
  <2>2. CASE i /= 0
    <3>1. i - 1 \in Nat /\ (i - 1) + 1 = i
      BY <2>2
    <3>2. g[(i - 1) + 1] = F[i - 1][g[i - 1]]
      BY <1>3, <3>1 DEF Iterates
    <3> QED BY <1>1, <2>2, <3>1, <3>2
  <2> QED BY <2>1, <2>2
<1>5. g = Body(g)
  BY <1>4
<1>6. rest = Body(rest)
  <2> HIDE DEF Body
  <2> QED BY <1>5
<1>7. Shifted(n, k) = rest[k]
  BY DEF Shifted
<1> HIDE DEF rest
<1>8. rest[0] = n
  BY <1>6
<1>9. \A i \in Nat : rest[i + 1] = rest[i] \div 2
  <2> TAKE i \in Nat
  <2>1. i + 1 \in Nat /\ i + 1 /= 0 /\ (i + 1) - 1 = i
    OBVIOUS
  <2> QED BY <1>6, <2>1
<1>10. rest[k] \in Nat
  <2> DEFINE V == {i \in Nat : rest[i] \in Nat}
  <2>1. 0 \in V
    BY <1>8
  <2>2. \A i \in Nat : i \in V => i + 1 \in V
    BY <1>9
  <2> HIDE DEF V
  <2>3. Nat \subseteq V
    BY <2>1, <2>2, Induction
  <2> QED BY <2>3 DEF V
<1> QED BY <1>7, <1>8, <1>10

(* The bytes of a token start a block of Width. *)
LEMMA LEFacts ==
    ASSUME NEW tokens \in Seq(Nat)
    PROVE  /\ LE(tokens) \in Seq(Int) /\ Len(LE(tokens)) = Width * Len(tokens)
           /\ \A i \in 1 .. Len(tokens) :
                 /\ Width * (i - 1) + 1 \in 1 .. Width * Len(tokens)
                 /\ LE(tokens)[Width * (i - 1) + 1] = tokens[i] % 2
<1>1. Width \in Nat /\ Width > 0 /\ Len(tokens) \in Nat
  BY MessageAssumption
<1>2. Width * Len(tokens) \in Nat
  BY <1>1
<1>3. ASSUME NEW j \in 1 .. Width * Len(tokens)
      PROVE  (j - 1) \div Width + 1 \in 1 .. Len(tokens) /\ (j - 1) % Width \in Nat
  <2> DEFINE q == (j - 1) \div Width
             r == (j - 1) % Width
  <2>1. q \in Nat /\ r \in Nat /\ j - 1 = Width * q + r
    BY <1>1
  <2> HIDE DEF q, r
  <2>2. q < Len(tokens)
    <3> SUFFICES ASSUME Len(tokens) <= q PROVE FALSE
      BY <1>1, <2>1
    <3>1. Width * Len(tokens) <= Width * q
      BY <1>1, <2>1
    <3> QED BY <1>1, <1>2, <2>1, <3>1
  <2>3. q + 1 \in 1 .. Len(tokens)
    BY <1>1, <2>1, <2>2
  <2> QED BY <2>1, <2>3 DEF q, r
<1>4. ASSUME NEW j \in 1 .. Width * Len(tokens)
      PROVE  Shifted(tokens[(j - 1) \div Width + 1], (j - 1) % Width) % 2 \in Int
  <2>1. tokens[(j - 1) \div Width + 1] \in Nat
    BY <1>3
  <2>2. Shifted(tokens[(j - 1) \div Width + 1], (j - 1) % Width) \in Nat
    BY <1>3, <2>1, ShiftedDef
  <2> QED BY <2>2
<1>5. LE(tokens) \in [1 .. Width * Len(tokens) -> Int]
  BY <1>4 DEF LE
<1>6. LE(tokens) \in Seq(Int) /\ Len(LE(tokens)) = Width * Len(tokens)
  BY <1>2, <1>5
<1>7. ASSUME NEW i \in 1 .. Len(tokens)
      PROVE  /\ Width * (i - 1) + 1 \in 1 .. Width * Len(tokens)
             /\ LE(tokens)[Width * (i - 1) + 1] = tokens[i] % 2
  <2> DEFINE m == i - 1
             j == Width * m + 1
  <2>1. m \in Nat /\ m + 1 <= Len(tokens) /\ m + 1 = i
    BY <1>1
  <2> HIDE DEF m
  <2>2. Width * m \in Nat /\ Width * (m + 1) = Width * m + Width
    BY <1>1, <2>1
  <2>3. Width * (m + 1) <= Width * Len(tokens)
    BY SMTT(30), <1>1, <2>1
  <2>4. j \in 1 .. Width * Len(tokens)
    BY <1>1, <1>2, <2>2, <2>3
  <2>5. j - 1 = Width * m
    BY <2>2
  <2>6. (Width * m) \div Width = m /\ (Width * m) % Width = 0
    BY <1>1, <2>1
  <2> HIDE DEF j
  <2>7. LE(tokens)[j] = Shifted(tokens[(j - 1) \div Width + 1], (j - 1) % Width) % 2
    BY <2>4 DEF LE
  <2>8. LE(tokens)[j] = Shifted(tokens[i], 0) % 2
    BY <2>1, <2>5, <2>6, <2>7
  <2>9. tokens[i] \in Nat
    OBVIOUS
  <2>10. Shifted(tokens[i], 0) = tokens[i]
    BY <2>9, ShiftedDef
  <2> QED BY <2>4, <2>8, <2>10 DEF j, m
<1> QED BY <1>6, <1>7

TokensOf(p) == [i \in DOMAIN p |-> p[i].tok]

PadsOf(p) == [i \in DOMAIN p |-> p[i].pad]

Bits(p) == [i \in 1 .. Len(p) |-> IF p[i].pad THEN 1 ELSE 0]

LEMMA SequencesOf ==
    ASSUME NEW p \in Contexts
    PROVE  /\ p \in Seq(Step1) /\ Len(p) \in Nat
           /\ TokensOf(p) \in Seq(Nat) /\ Len(TokensOf(p)) = Len(p)
           /\ \A i \in 1 .. Len(p) : TokensOf(p)[i] = p[i].tok /\ p[i].tok \in 0 .. 1
           /\ Bits(p) \in Seq(Int) /\ Len(Bits(p)) = Len(p)
           /\ \A i \in 1 .. Len(p) : Bits(p)[i] = IF p[i].pad THEN 1 ELSE 0
<1>1. p \in Seq(Step1) /\ Len(p) \in Nat /\ DOMAIN p = 1 .. Len(p)
  BY ContextFacts
<1>2. \A i \in 1 .. Len(p) : p[i].tok \in 0 .. 1 /\ p[i].pad \in BOOLEAN
  <2> TAKE i \in 1 .. Len(p)
  <2>1. p[i] \in Step1
    BY <1>1
  <2> QED BY <2>1 DEF Step1
<1>3. TokensOf(p) \in [1 .. Len(p) -> Nat]
  BY <1>1, <1>2 DEF TokensOf
<1>4. Bits(p) \in [1 .. Len(p) -> Int]
  BY <1>1 DEF Bits
<1>5. TokensOf(p) \in Seq(Nat) /\ Len(TokensOf(p)) = Len(p)
  BY <1>1, <1>3
<1>6. Bits(p) \in Seq(Int) /\ Len(Bits(p)) = Len(p)
  BY <1>1, <1>4
<1>7. \A i \in 1 .. Len(p) : TokensOf(p)[i] = p[i].tok
  BY <1>1 DEF TokensOf
<1>8. \A i \in 1 .. Len(p) : Bits(p)[i] = IF p[i].pad THEN 1 ELSE 0
  BY DEF Bits
<1> QED BY <1>1, <1>2, <1>5, <1>6, <1>7, <1>8

Commitment(p) == prompt_commitment(TokensOf(p), PadsOf(p))

LEMMA CommitmentParts ==
    ASSUME NEW p \in Contexts
    PROVE  /\ Commitment(p) = ((<<Len(p)>> \o LE(TokensOf(p))) \o <<Len(p)>>) \o Bits(p)
           /\ Commitment(p) \in Seq(Int)
<1>1. Len(p) \in Nat /\ Len(TokensOf(p)) = Len(p) /\ DOMAIN p = 1 .. Len(p)
  BY SequencesOf
<1>2. [i \in 1 .. Len(p) |-> IF PadsOf(p)[i] THEN 1 ELSE 0] = Bits(p)
  BY <1>1 DEF PadsOf, Bits
<1>3. Commitment(p) = ((<<Len(p)>> \o LE(TokensOf(p))) \o <<Len(p)>>) \o Bits(p)
  BY <1>1, <1>2 DEF Commitment, prompt_commitment
<1>4. LE(TokensOf(p)) \in Seq(Int) /\ Bits(p) \in Seq(Int) /\ <<Len(p)>> \in Seq(Int)
  BY <1>1, SequencesOf, LEFacts
<1>5. <<Len(p)>> \o LE(TokensOf(p)) \in Seq(Int)
  BY <1>4, JoinFacts
<1>6. (<<Len(p)>> \o LE(TokensOf(p))) \o <<Len(p)>> \in Seq(Int)
  BY <1>4, <1>5, JoinFacts
<1>7. ((<<Len(p)>> \o LE(TokensOf(p))) \o <<Len(p)>>) \o Bits(p) \in Seq(Int)
  BY <1>4, <1>6, JoinFacts
<1> QED BY <1>3, <1>7

(* The commitment determines the tokens and the mask. *)
LEMMA CommitmentInjective ==
    ASSUME NEW p \in Contexts, NEW q \in Contexts, Commitment(p) = Commitment(q)
    PROVE  p = q
<1> DEFINE A(x) == <<Len(x)>>
           B(x) == LE(TokensOf(x))
           C(x) == A(x) \o B(x)
           D(x) == C(x) \o A(x)
<1>1. ASSUME NEW x \in Contexts
      PROVE  /\ A(x) \in Seq(Int) /\ Len(A(x)) = 1 /\ A(x)[1] = Len(x)
             /\ B(x) \in Seq(Int) /\ Len(B(x)) = Width * Len(x)
             /\ Bits(x) \in Seq(Int)
  BY SequencesOf, LEFacts
<1>2. Commitment(p) = D(p) \o Bits(p) /\ Commitment(q) = D(q) \o Bits(q)
  BY CommitmentParts
<1> HIDE DEF A, B
<1>3. ASSUME NEW x \in Contexts
      PROVE  /\ C(x) \in Seq(Int) /\ Len(C(x)) = 1 + Width * Len(x) /\ C(x)[1] = Len(x)
  <2>1. 1 \in 1 .. Len(A(x))
    BY <1>1
  <2>2. A(x) \in Seq(Int) /\ B(x) \in Seq(Int)
    BY <1>1
  <2>3. /\ C(x) \in Seq(Int) /\ Len(C(x)) = Len(A(x)) + Len(B(x))
        /\ \A i \in 1 .. Len(A(x)) : C(x)[i] = A(x)[i]
    BY <2>2, JoinFacts
  <2> HIDE DEF C
  <2> QED BY <1>1, <2>1, <2>3
<1> HIDE DEF C
<1>4. ASSUME NEW x \in Contexts
      PROVE  D(x) \in Seq(Int) /\ Len(D(x)) = Len(C(x)) + 1 /\ D(x)[1] = Len(x)
  <2>1. Width * Len(x) \in Nat
    BY SequencesOf, MessageAssumption
  <2>2. 1 \in 1 .. Len(C(x))
    BY <1>3, <2>1
  <2>3. C(x) \in Seq(Int) /\ A(x) \in Seq(Int)
    BY <1>1, <1>3
  <2>4. /\ D(x) \in Seq(Int) /\ Len(D(x)) = Len(C(x)) + Len(A(x))
        /\ \A i \in 1 .. Len(C(x)) : D(x)[i] = C(x)[i]
    BY <2>3, JoinFacts
  <2> HIDE DEF D
  <2> QED BY <1>1, <1>3, <2>2, <2>4
<1> HIDE DEF D
<1>5. Len(p) = Len(q)
  <2>1. ASSUME NEW x \in Contexts
        PROVE  (D(x) \o Bits(x))[1] = Len(x)
    <3>1. Width * Len(x) \in Nat
      BY SequencesOf, MessageAssumption
    <3>2. 1 \in 1 .. Len(D(x))
      BY <1>3, <1>4, <3>1
    <3>3. (D(x) \o Bits(x))[1] = D(x)[1]
      BY <1>1, <1>4, <3>2, JoinFacts
    <3> QED BY <1>4, <3>3
  <2> QED BY <1>2, <2>1
<1>6. D(p) = D(q) /\ Bits(p) = Bits(q)
  <2>1. Len(D(p)) = Len(D(q))
    BY <1>3, <1>4, <1>5
  <2>2. D(p) \o Bits(p) = D(q) \o Bits(q)
    BY <1>2
  <2>3. D(p) \in Seq(Int) /\ D(q) \in Seq(Int) /\ Bits(p) \in Seq(Int) /\ Bits(q) \in Seq(Int)
    BY <1>1, <1>4
  <2> QED BY <2>1, <2>2, <2>3, JoinCancels
<1>7. C(p) = C(q)
  <2>1. C(p) \o A(p) = C(q) \o A(q)
    BY <1>6 DEF D
  <2>2. Len(C(p)) = Len(C(q))
    BY <1>3, <1>5
  <2>3. C(p) \in Seq(Int) /\ C(q) \in Seq(Int) /\ A(p) \in Seq(Int) /\ A(q) \in Seq(Int)
    BY <1>1, <1>3
  <2> QED BY <2>1, <2>2, <2>3, JoinCancels
<1>8. B(p) = B(q)
  <2>1. A(p) \o B(p) = A(q) \o B(q)
    BY <1>7 DEF C
  <2>2. A(p) \in Seq(Int) /\ A(q) \in Seq(Int) /\ B(p) \in Seq(Int) /\ B(q) \in Seq(Int)
          /\ Len(A(p)) = Len(A(q))
    BY <1>1
  <2> QED BY <2>1, <2>2, JoinCancels
<1>9. p \in Seq(Step1) /\ q \in Seq(Step1) /\ Len(p) \in Nat
  BY SequencesOf
<1>10. ASSUME NEW i \in 1 .. Len(p)
       PROVE  p[i] = q[i]
  <2>1. p[i].tok \in 0 .. 1 /\ q[i].tok \in 0 .. 1
    BY <1>5, SequencesOf
  <2>5. p[i] \in Step1 /\ q[i] \in Step1
    BY <1>5, <1>9
  <2>2. p[i].tok % 2 = q[i].tok % 2
    <3>1. TokensOf(p)[i] = p[i].tok /\ TokensOf(q)[i] = q[i].tok
      BY <1>5, SequencesOf
    <3>2. B(p)[Width * (i - 1) + 1] = TokensOf(p)[i] % 2
      BY SequencesOf, LEFacts DEF B
    <3>3. B(q)[Width * (i - 1) + 1] = TokensOf(q)[i] % 2
      BY <1>5, SequencesOf, LEFacts DEF B
    <3> QED BY <1>8, <3>1, <3>2, <3>3
  <2>3. p[i].tok = q[i].tok
    BY <2>1, <2>2
  <2>4. p[i].pad = q[i].pad
    <3>1. Bits(p)[i] = Bits(q)[i]
      BY <1>6
    <3>2. (IF p[i].pad THEN 1 ELSE 0) = (IF q[i].pad THEN 1 ELSE 0)
      BY <1>5, <3>1, SequencesOf
    <3>3. p[i].pad \in BOOLEAN /\ q[i].pad \in BOOLEAN
      BY <2>5 DEF Step1
    <3> QED BY <3>2, <3>3
  <2>6. p[i] = [tok |-> p[i].tok, pad |-> p[i].pad] /\ q[i] = [tok |-> q[i].tok, pad |-> q[i].pad]
    BY <2>5 DEF Step1
  <2> QED BY <2>3, <2>4, <2>6
<1> QED BY <1>5, <1>9, <1>10

LEMMA WindowFacts ==
    ASSUME NEW p \in Contexts
    PROVE  ContextWindowOf(TokensOf(p)) \in Seq(Nat) /\ Len(ContextWindowOf(TokensOf(p))) = Window
<1> DEFINE t == TokensOf(p)
           w == ContextWindowOf(t)
           kept == IF Len(t) > Window THEN Window ELSE Len(t)
<1>1. t \in Seq(Nat) /\ Window \in Nat /\ Len(t) \in Nat
  BY SequencesOf, MessageAssumption
<1> HIDE DEF t
<1>2. w = [i \in 1 .. Window |-> IF i <= Window - kept THEN 0 ELSE t[Len(t) - Window + i]]
  BY DEF ContextWindowOf
<1>3. ASSUME NEW i \in 1 .. Window, ~(i <= Window - kept)
      PROVE  t[Len(t) - Window + i] \in Nat
  <2>1. Len(t) - Window + i \in 1 .. Len(t)
    BY <1>1, <1>3
  <2> QED BY <1>1, <2>1
<1>4. w \in [1 .. Window -> Nat]
  BY <1>2, <1>3
<1> HIDE DEF w
<1> QED BY <1>1, <1>4 DEF w, t

Message1(p) == build_step_message(<<1>>, <<>>, 1, 0, TokensOf(p), <<>>, <<>>)

(* The message of the first step has a fixed length. *)
LEMMA StepMessageFacts ==
    ASSUME NEW p \in Contexts
    PROVE  Message1(p) \in Seq(Int) /\ Len(Message1(p)) = 3 + Width * Window
<1> DEFINE w == LE(ContextWindowOf(TokensOf(p)))
           a == <<1>> \o <<>>
           b == a \o <<1, 0>>
           c == b \o w
           d == c \o <<>>
<1>1. w \in Seq(Int) /\ Len(w) = Width * Window
  BY WindowFacts, LEFacts
<1>2. <<>> \in Seq(Int) /\ <<1>> \in Seq(Int) /\ <<1, 0>> \in Seq(Int)
        /\ Len(<<>>) = 0 /\ Len(<<1>>) = 1 /\ Len(<<1, 0>>) = 2
  OBVIOUS
<1> HIDE DEF w
<1>3. a \in Seq(Int) /\ Len(a) = 1
  BY <1>2, JoinFacts
<1> HIDE DEF a
<1>4. b \in Seq(Int) /\ Len(b) = 3
  BY SMTT(30), <1>2, <1>3, JoinFacts
<1> HIDE DEF b
<1>5. c \in Seq(Int) /\ Len(c) = 3 + Width * Window
  <2>1. b \in Seq(Int) /\ w \in Seq(Int)
    BY <1>1, <1>4
  <2>2. c \in Seq(Int) /\ Len(c) = Len(b) + Len(w)
    BY <2>1, JoinFacts
  <2> HIDE DEF c
  <2> QED BY <1>1, <1>4, <2>2
<1> HIDE DEF c
<1>6. Width * Window \in Nat
  BY MessageAssumption
<1>7. d \in Seq(Int) /\ Len(d) = 3 + Width * Window
  BY <1>2, <1>5, <1>6, JoinFacts
<1> HIDE DEF d
<1>8. d \o <<>> \in Seq(Int) /\ Len(d \o <<>>) = 3 + Width * Window
  BY <1>2, <1>6, <1>7, JoinFacts
<1>9. Message1(p) = d \o <<>>
  BY DEF Message1, build_step_message, d, c, b, a, w
<1> QED BY <1>8, <1>9

Symbols == Int \cup Seq(Int)

(* Every part of the message that is ground can be told from its length    *)
(* fields, whatever the model's name.                                      *)
LEMMA GroundInjective ==
    ASSUME NEW p \in Contexts, NEW q \in Contexts, NEW m \in Seq(Int), NEW n \in Seq(Int),
           Ground(p, m) = Ground(q, n)
    PROVE  p = q /\ m = n
<1> DEFINE A(x) == Message1(x) \o <<Commitment(x)>>
           B(x, k) == A(x) \o <<Len(k)>>
           C(x, k) == B(x, k) \o k
<1>1. \A x, k : Ground(x, k) = C(x, k) \o <<1>>
  BY DEF Ground, build_admission_preimage, admission_message, Message1, Commitment, TokensOf, PadsOf
<1>2. \A s : s \in Seq(Int) => s \in Seq(Symbols)
  <2> TAKE s
  <2> HAVE s \in Seq(Int)
  <2>1. Len(s) \in Nat /\ s \in [1 .. Len(s) -> Int]
    OBVIOUS
  <2>2. s \in [1 .. Len(s) -> Symbols]
    BY <2>1 DEF Symbols
  <2> HIDE DEF Symbols
  <2> QED BY SMTT(30), <2>1, <2>2
<1>3. ASSUME NEW x \in Contexts
      PROVE  A(x) \in Seq(Symbols) /\ Len(A(x)) = 4 + Width * Window
  <2>1. Message1(x) \in Seq(Symbols) /\ Len(Message1(x)) = 3 + Width * Window
    BY <1>2, StepMessageFacts
  <2>2. Commitment(x) \in Symbols
    BY CommitmentParts DEF Symbols
  <2>3. <<Commitment(x)>> \in Seq(Symbols) /\ Len(<<Commitment(x)>>) = 1
    BY <2>2
  <2>4. Width * Window \in Nat
    BY MessageAssumption
  <2>5. A(x) \in Seq(Symbols) /\ Len(A(x)) = Len(Message1(x)) + Len(<<Commitment(x)>>)
    BY <2>1, <2>3, JoinFacts
  <2> HIDE DEF A
  <2> QED BY <2>1, <2>3, <2>4, <2>5
<1> HIDE DEF A
<1>4. ASSUME NEW x \in Contexts, NEW k \in Seq(Int)
      PROVE  /\ B(x, k) \in Seq(Symbols) /\ Len(B(x, k)) = 5 + Width * Window
             /\ <<Len(k)>> \in Seq(Symbols)
  <2>1. Len(k) \in Symbols
    BY DEF Symbols
  <2>2. <<Len(k)>> \in Seq(Symbols) /\ Len(<<Len(k)>>) = 1
    BY <2>1
  <2>3. Width * Window \in Nat
    BY MessageAssumption
  <2>4. B(x, k) \in Seq(Symbols) /\ Len(B(x, k)) = Len(A(x)) + Len(<<Len(k)>>)
    BY <1>3, <2>2, JoinFacts
  <2> HIDE DEF B
  <2> QED BY <1>3, <2>2, <2>3, <2>4
<1> HIDE DEF B
<1>5. ASSUME NEW x \in Contexts, NEW k \in Seq(Int)
      PROVE  C(x, k) \in Seq(Symbols) /\ Len(C(x, k)) \in Nat
  <2>1. k \in Seq(Symbols) /\ B(x, k) \in Seq(Symbols)
    BY <1>2, <1>4
  <2> QED BY <2>1, JoinFacts
<1> HIDE DEF C
<1>6. C(p, m) = C(q, n)
  <2>1. <<1>> \in Seq(Symbols) /\ Len(<<1>>) = 1
    BY DEF Symbols
  <2>2. /\ Len(C(p, m) \o <<1>>) = Len(C(p, m)) + 1
        /\ Len(C(q, n) \o <<1>>) = Len(C(q, n)) + 1
    <3>1. ASSUME NEW x \in Seq(Symbols) PROVE Len(x \o <<1>>) = Len(x) + 1
      BY <2>1, JoinFacts
    <3> QED BY <1>5, <3>1
  <2>3. C(p, m) \o <<1>> = C(q, n) \o <<1>>
    BY <1>1
  <2>4. Len(C(p, m)) = Len(C(q, n))
    BY <1>5, <2>2, <2>3
  <2>5. C(p, m) \in Seq(Symbols) /\ C(q, n) \in Seq(Symbols)
    BY <1>5
  <2> QED BY <2>1, <2>3, <2>4, <2>5, JoinCancels
<1>7. B(p, m) = B(q, n) /\ m = n
  <2>1. B(p, m) \o m = B(q, n) \o n
    BY <1>6 DEF C
  <2>2. /\ B(p, m) \in Seq(Symbols) /\ B(q, n) \in Seq(Symbols)
        /\ m \in Seq(Symbols) /\ n \in Seq(Symbols) /\ Len(B(p, m)) = Len(B(q, n))
    BY <1>2, <1>4
  <2> QED BY <2>1, <2>2, JoinCancels
<1>8. A(p) = A(q)
  <2>1. A(p) \o <<Len(m)>> = A(q) \o <<Len(n)>>
    BY <1>7 DEF B
  <2>2. /\ A(p) \in Seq(Symbols) /\ A(q) \in Seq(Symbols) /\ Len(A(p)) = Len(A(q))
        /\ <<Len(m)>> \in Seq(Symbols) /\ <<Len(n)>> \in Seq(Symbols)
    BY <1>3, <1>4
  <2> QED BY <2>1, <2>2, JoinCancels
<1>9. Commitment(p) = Commitment(q)
  <2>1. Message1(p) \o <<Commitment(p)>> = Message1(q) \o <<Commitment(q)>>
    BY <1>8 DEF A
  <2>2. /\ Message1(p) \in Seq(Symbols) /\ Message1(q) \in Seq(Symbols)
        /\ Len(Message1(p)) = Len(Message1(q))
    BY <1>2, StepMessageFacts
  <2>3. Commitment(p) \in Symbols /\ Commitment(q) \in Symbols
    BY CommitmentParts DEF Symbols
  <2>4. <<Commitment(p)>> \in Seq(Symbols) /\ <<Commitment(q)>> \in Seq(Symbols)
    BY <2>3
  <2>5. <<Commitment(p)>> = <<Commitment(q)>>
    BY SMTT(30), <2>1, <2>2, <2>4, JoinCancels
  <2>6. <<Commitment(p)>>[1] = <<Commitment(q)>>[1]
    BY <2>5
  <2> QED BY <2>6
<1> QED BY <1>7, <1>9, CommitmentInjective

(* AdmissionBindsPrefix for every size of the window and of a token: the   *)
(* preimage of the grind determines the prefix, its pad mask and the       *)
(* model.                                                                  *)
THEOREM AdmissionBinds == Spec => []AdmissionBindsPrefix
<1>1. CaseTypes => AdmissionBindsPrefix
  <2> SUFFICES ASSUME CaseTypes, NEW q \in Contexts, NEW m \in Models, NEW n \in Models,
                      Ground(prefix, m) = Ground(q, n)
               PROVE  prefix = q /\ m = n
    BY DEF AdmissionBindsPrefix
  <2>1. <<>> \in Seq(Int) /\ <<0>> \in Seq(Int) /\ <<1>> \in Seq(Int)
    OBVIOUS
  <2>2. m \in Seq(Int) /\ n \in Seq(Int)
    BY <2>1 DEF Models
  <2> QED BY <2>2, GroundInjective DEF CaseTypes
<1> QED BY <1>1, CaseTypesHold, PTL

-----------------------------------------------------------------------------
(* Places. *)

LEMMA BaseFacts == Base \in Nat /\ Base >= 2 /\ Base % 2 = 0
BY MathAssumption

LEMMA PlaceDef ==
    /\ \A n \in Nat : Place[n] \in Nat /\ Place[n] > 0
    /\ Place[0] = 1
    /\ \A n \in Nat : Place[n + 1] = Base * Place[n]
<1> DEFINE Body(f) == [n \in Nat |-> IF n = 0 THEN 1 ELSE Base * f[n - 1]]
           S == Nat \ {0}
           F == [i \in Nat |-> [s \in S |-> Base * s]]
<1>1. \A i \in Nat : \A s \in S : F[i][s] = Base * s /\ Base * s \in S
  <2>1. \A s \in S : Base * s \in S
    BY BaseFacts
  <2> QED BY <2>1
<1>2. StepsIn(F, S)
  <2> HIDE DEF F
  <2> QED BY <1>1 DEF StepsIn
<1> HIDE DEF F
<1>3. PICK g \in [Nat -> S] : Iterates(g, 1, F)
  <2>1. 1 \in S
    OBVIOUS
  <2> HIDE DEF S
  <2> QED BY <1>2, <2>1, IterationExists
<1>4. \A i \in Nat : g[i] = IF i = 0 THEN 1 ELSE Base * g[i - 1]
  <2> TAKE i \in Nat
  <2>1. CASE i = 0
    BY <1>3, <2>1 DEF Iterates
  <2>2. CASE i /= 0
    <3>1. i - 1 \in Nat /\ (i - 1) + 1 = i
      BY <2>2
    <3>2. g[(i - 1) + 1] = F[i - 1][g[i - 1]]
      BY <1>3, <3>1 DEF Iterates
    <3> QED BY <1>1, <2>2, <3>1, <3>2
  <2> QED BY <2>1, <2>2
<1>5. g = Body(g)
  BY <1>4
<1>6. Place = Body(Place)
  <2>1. Place = CHOOSE f : f = Body(f)
    BY DEF Place
  <2> HIDE DEF Body
  <2> QED BY <1>5, <2>1
<1>7. Place[0] = 1
  BY <1>6
<1>8. \A i \in Nat : Place[i + 1] = Base * Place[i]
  <2> TAKE i \in Nat
  <2>1. i + 1 \in Nat /\ i + 1 /= 0 /\ (i + 1) - 1 = i
    OBVIOUS
  <2> QED BY <1>6, <2>1
<1>9. \A n \in Nat : Place[n] \in Nat /\ Place[n] > 0
  <2> DEFINE V == {i \in Nat : Place[i] \in Nat /\ Place[i] > 0}
  <2>1. 0 \in V
    BY <1>7
  <2>2. ASSUME NEW i \in Nat, i \in V PROVE i + 1 \in V
    <3>1. Base * Place[i] \in Nat /\ Base * Place[i] > 0
      BY <2>2, BaseFacts
    <3> QED BY <1>8, <3>1
  <2> HIDE DEF V
  <2>3. Nat \subseteq V
    BY <2>1, <2>2, Induction
  <2> QED BY <2>3 DEF V
<1> QED BY <1>7, <1>8, <1>9

LEMMA PlaceSum ==
    ASSUME NEW m \in Nat, NEW k \in Nat
    PROVE  Place[m + k] = Place[m] * Place[k]
<1> DEFINE V == {i \in Nat : Place[m + i] = Place[m] * Place[i]}
<1>1. 0 \in V
  <2>1. Place[m] \in Nat /\ m + 0 = m /\ Place[0] = 1
    BY PlaceDef
  <2> QED BY <2>1
<1>2. ASSUME NEW i \in Nat, i \in V PROVE i + 1 \in V
  <2>1. m + (i + 1) = (m + i) + 1 /\ m + i \in Nat
    OBVIOUS
  <2>2. Place[m + (i + 1)] = Base * Place[m + i] /\ Place[i + 1] = Base * Place[i]
    BY <2>1, PlaceDef
  <2>3. Place[m] \in Nat /\ Place[i] \in Nat /\ Base \in Nat
    BY PlaceDef, BaseFacts
  <2>4. Base * (Place[m] * Place[i]) = Place[m] * (Base * Place[i])
    BY <2>3
  <2> QED BY <1>2, <2>2, <2>4
<1>3. Nat \subseteq V
  <2> HIDE DEF V
  <2> QED BY <1>1, <1>2, Induction
<1> QED BY <1>3

LEMMA PlaceGrows ==
    ASSUME NEW m \in Nat, NEW n \in Nat, m <= n
    PROVE  Place[m] <= Place[n]
<1> DEFINE k == n - m
<1>1. k \in Nat /\ m + k = n
  OBVIOUS
<1> HIDE DEF k
<1>2. Place[n] = Place[m] * Place[k]
  BY <1>1, PlaceSum
<1>3. Place[m] \in Nat /\ Place[k] \in Nat /\ Place[k] > 0
  BY <1>1, PlaceDef
<1>4. Place[m] * Place[k] >= Place[m]
  BY <1>3
<1> QED BY <1>2, <1>3, <1>4

LEMMA PlaceAbove ==
    ASSUME NEW n \in Nat
    PROVE  n < Place[n]
<1> DEFINE V == {i \in Nat : i < Place[i]}
<1>1. 0 \in V
  BY PlaceDef
<1>2. ASSUME NEW i \in Nat, i \in V PROVE i + 1 \in V
  <2>1. Place[i] \in Nat /\ i < Place[i] /\ Place[i + 1] = Base * Place[i]
    BY <1>2, PlaceDef
  <2>2. Base * Place[i] >= 2 * Place[i]
    BY <2>1, BaseFacts
  <2>3. Base * Place[i] \in Nat
    BY <2>1, BaseFacts
  <2> QED BY <2>1, <2>2, <2>3
<1>3. Nat \subseteq V
  <2> HIDE DEF V
  <2> QED BY <1>1, <1>2, Induction
<1> QED BY <1>3

LEMMA ByteLenDef ==
    ASSUME NEW t \in Nat
    PROVE  /\ ByteLen(t) \in Nat /\ t < Place[ByteLen(t)]
           /\ \A m \in 0 .. ByteLen(t) - 1 : t >= Place[m]
<1> DEFINE V == {n \in Nat : t < Place[n]}
<1>1. t \in V
  BY PlaceAbove
<1>2. PICK s \in V : \A n \in V : s <= n
  <2>1. V \subseteq Nat /\ V /= {}
    BY <1>1
  <2> HIDE DEF V
  <2> QED BY <2>1, LeastExists
<1>3. s \in 0 .. t
  BY <1>1, <1>2
<1>4. \A m \in 0 .. s - 1 : t >= Place[m]
  <2> TAKE m \in 0 .. s - 1
  <2>1. m \in Nat /\ ~(s <= m) /\ Place[m] \in Nat
    BY <1>2, PlaceDef
  <2> QED BY <1>2, <2>1
<1> DEFINE P(n) == t < Place[n] /\ \A m \in 0 .. n - 1 : t >= Place[m]
<1>5. P(s)
  BY <1>2, <1>4
<1>6. ByteLen(t) = CHOOSE n \in 0 .. t : P(n)
  BY DEF ByteLen
<1>7. ByteLen(t) \in 0 .. t /\ P(ByteLen(t))
  <2> HIDE DEF P
  <2> QED BY <1>3, <1>5, <1>6
<1> QED BY <1>7

(* The length is the number with a place above t and none below it free.   *)
LEMMA ByteLenIs ==
    ASSUME NEW t \in Nat, NEW n \in Nat, t < Place[n], n = 0 \/ Place[n - 1] <= t
    PROVE  ByteLen(t) = n
<1> DEFINE l == ByteLen(t)
<1>1. l \in Nat /\ t < Place[l] /\ \A m \in 0 .. l - 1 : t >= Place[m]
  BY ByteLenDef
<1> HIDE DEF l
<1>2. \A m \in Nat : Place[m] \in Nat
  BY PlaceDef
<1>3. ~(n < l)
  <2> SUFFICES ASSUME n < l PROVE FALSE
    OBVIOUS
  <2>1. n \in 0 .. l - 1
    BY <1>1
  <2> QED BY <1>1, <1>2, <2>1
<1>4. ~(l < n)
  <2> SUFFICES ASSUME l < n PROVE FALSE
    OBVIOUS
  <2>1. n - 1 \in Nat /\ l <= n - 1
    BY <1>1
  <2>2. Place[l] <= Place[n - 1]
    BY <1>1, <2>1, PlaceGrows
  <2> QED BY <1>1, <1>2, <2>1, <2>2
<1> QED BY <1>1, <1>3, <1>4 DEF l

-----------------------------------------------------------------------------
(* Compact targets. *)

LEMMA MulDiv ==
    ASSUME NEW a \in Nat, NEW b \in Nat, b > 0
    PROVE  (a * b) \div b = a
OBVIOUS

LEMMA DivParts ==
    ASSUME NEW a \in Nat, NEW b \in Nat, b > 0
    PROVE  /\ a \div b \in Nat /\ a % b \in 0 .. b - 1
           /\ a = (a \div b) * b + (a % b)
           /\ (a \div b) * b \in Nat
OBVIOUS

LEMMA DivBounds ==
    ASSUME NEW a \in Nat, NEW b \in Nat, b > 0, NEW c \in Nat
    PROVE  /\ a < c * b => a \div b < c
           /\ c * b <= a => c <= a \div b
<1> DEFINE q == a \div b
           r == a % b
<1>1. q \in Nat /\ r \in 0 .. b - 1 /\ a = q * b + r
  BY DivParts
<1> HIDE DEF q, r
<1>2. ASSUME a < c * b PROVE q < c
  <2> SUFFICES ASSUME c <= q PROVE FALSE
    BY <1>1
  <2>1. c * b <= q * b
    BY <1>1
  <2>2. c * b \in Nat /\ q * b \in Nat
    BY <1>1
  <2> QED BY <1>1, <1>2, <2>1, <2>2
<1>3. ASSUME c * b <= a PROVE c <= q
  <2> SUFFICES ASSUME q < c PROVE FALSE
    BY <1>1
  <2>1. (q + 1) * b <= c * b
    BY <1>1
  <2>2. (q + 1) * b = q * b + b /\ q * b \in Nat /\ c * b \in Nat
    BY <1>1
  <2> QED BY <1>1, <1>3, <2>1, <2>2
<1> QED BY <1>2, <1>3 DEF q

Sign == Place[3] \div 2

(* The sign bit is worth Half times Base, at least the place of a byte. *)
LEMMA SignFacts ==
    /\ Place[1] = Base /\ Place[2] = Base * Base /\ Place[3] = Base * (Base * Base)
    /\ \E half \in Nat : Sign = half * Base /\ Place[2] <= half * Base
    /\ Sign \in Nat /\ Place[2] <= Sign /\ Place[2] > 0
<1>1. Place[1] = Base
  <2>1. Place[0 + 1] = Base * Place[0] /\ Place[0] = 1
    BY PlaceDef
  <2> QED BY <2>1, BaseFacts
<1>2. Place[2] = Base * Base
  <2>1. Place[1 + 1] = Base * Place[1]
    BY PlaceDef
  <2> QED BY <1>1, <2>1
<1>3. Place[3] = Base * (Base * Base)
  <2>1. Place[2 + 1] = Base * Place[2]
    BY PlaceDef
  <2> QED BY <1>2, <2>1
<1>4. PICK h \in Nat : Base = 2 * h /\ h > 0
  <2>1. Base = 2 * (Base \div 2) /\ Base \div 2 \in Nat /\ Base \div 2 > 0
    BY BaseFacts
  <2> QED BY <2>1
<1>5. Place[3] = 2 * ((h * Base) * Base)
  BY <1>3, <1>4
<1>6. (h * Base) * Base \in Nat
  BY <1>4, BaseFacts
<1>7. Sign = (h * Base) * Base
  BY <1>5, <1>6 DEF Sign
<1>8. h * Base \in Nat /\ Base <= h * Base
  BY <1>4, BaseFacts
<1>9. Base * Base <= (h * Base) * Base
  BY <1>8, BaseFacts
<1>10. Base * Base > 0
  BY BaseFacts
<1> QED BY <1>1, <1>2, <1>3, <1>6, <1>7, <1>8, <1>9, <1>10

(* Dropping the last byte of a word does not take it below the sign. *)
LEMMA DropByte ==
    ASSUME NEW w \in Nat, Sign <= w
    PROVE  /\ w \div Base \in Nat /\ Sign <= (w \div Base) * Base /\ (w \div Base) * Base <= w
           /\ w - (w \div Base) * Base < Base /\ (w \div Base) * Base \in Nat
           /\ ((w \div Base) * Base) \div Base = w \div Base
<1> DEFINE q == w \div Base
           r == w % Base
<1>1. q \in Nat /\ r \in 0 .. Base - 1 /\ w = q * Base + r /\ q * Base \in Nat
  BY DivParts, BaseFacts
<1>2. PICK half \in Nat : Sign = half * Base
  BY SignFacts
<1>3. half <= q
  <2>1. Base \in Nat /\ Base > 0
    BY BaseFacts
  <2> QED BY <1>2, <2>1, DivBounds
<1>4. (q * Base) \div Base = q
  BY <1>1, MulDiv, BaseFacts
<1> HIDE DEF q, r
<1>5. half * Base <= q * Base
  BY <1>1, <1>3, BaseFacts
<1> QED BY <1>1, <1>2, <1>4, <1>5, BaseFacts DEF q

(* What packing a target does to it: it never grows, it loses less than    *)
(* the place of its third byte from the top, and what is left packs the    *)
(* same.                                                                   *)
Packs(t) ==
    LET v == set_compact(get_compact(t))
    IN  /\ v \in Nat /\ v <= t
        /\ ByteLen(t) <= 2 => v = t
        /\ ByteLen(t) > 2 => t - v < Place[ByteLen(t) - 2]
        /\ get_compact(v) = get_compact(t)

Compact(size, word) ==
    IF word >= Sign THEN [size |-> size + 1, word |-> word \div Base]
                    ELSE [size |-> size, word |-> word]

LEMMA CompactDef ==
    ASSUME NEW t \in Nat
    PROVE  LET s == ByteLen(t)
           IN  get_compact(t) = Compact(s, IF s <= 3 THEN t * Place[3 - s] ELSE t \div Place[s - 3])
BY DEF get_compact, Compact, Sign

(* Up to three bytes: the word is the target shifted up. *)
LEMMA PacksShort ==
    ASSUME NEW t \in Nat, ByteLen(t) <= 3
    PROVE  Packs(t)
<1> DEFINE s == ByteLen(t)
           k == 3 - s
           word == t * Place[k]
           c == get_compact(t)
           v == set_compact(c)
<1>1. s \in Nat /\ t < Place[s] /\ \A m \in 0 .. s - 1 : t >= Place[m]
  BY ByteLenDef
<1>2. s <= 3
  OBVIOUS
<1>3. c = Compact(s, word)
  BY <1>2, CompactDef
<1> HIDE DEF s
<1>4. k \in Nat /\ Place[k] \in Nat /\ Place[k] > 0 /\ word \in Nat
  <2>1. k \in Nat
    BY <1>1, <1>2
  <2>2. Place[k] \in Nat /\ Place[k] > 0
    BY <2>1, PlaceDef
  <2> HIDE DEF k
  <2> QED BY <2>1, <2>2
<1>5. Sign \in Nat /\ Sign > 0
  BY SignFacts, PlaceDef
<1> HIDE DEF c
<1>6. CASE v = t
  <2>1. get_compact(v) = get_compact(t)
    BY <1>6
  <2>2. s > 2 => 0 < Place[s - 2]
    <3>1. s > 2 => s - 2 \in Nat
      BY <1>1
    <3> QED BY <3>1, PlaceDef
  <2>3. t - v = 0
    BY <1>6
  <2> HIDE DEF v
  <2> QED BY <1>6, <2>1, <2>2, <2>3 DEF Packs, v, c, s
<1>7. CASE word < Sign
  <2>1. ~(word >= Sign)
    BY <1>4, <1>5, <1>7
  <2>2. c = [size |-> s, word |-> word]
    BY <1>3, <2>1 DEF Compact
  <2>3. v = word \div Place[3 - s]
    BY <1>2, <2>2 DEF set_compact
  <2>4. v = t
    <3> HIDE DEF v
    <3> QED BY <1>4, <2>3, MulDiv
  <2> QED BY <1>6, <2>4
<1>8. CASE word >= Sign /\ s <= 2
  <2>1. c = [size |-> s + 1, word |-> word \div Base]
    BY <1>3, <1>8 DEF Compact
  <2>2. v = (word \div Base) \div Place[3 - (s + 1)]
    BY <1>1, <1>8, <2>1 DEF set_compact
  <2> DEFINE j == 3 - (s + 1)
  <2>3. j \in Nat /\ k = j + 1
    BY <1>1, <1>8
  <2>4. Place[j] \in Nat /\ Place[j] > 0 /\ Place[k] = Base * Place[j]
    BY <2>3, PlaceDef
  <2>5. word = (t * Place[j]) * Base
    <3> HIDE DEF k, j
    <3>1. t * (Base * Place[j]) = (t * Place[j]) * Base
      BY <2>4, BaseFacts
    <3> QED BY <2>4, <3>1
  <2> HIDE DEF word, j, k, v
  <2>6. t * Place[j] \in Nat
    BY <2>4
  <2>7. word \div Base = t * Place[j]
    BY <2>5, <2>6, MulDiv, BaseFacts
  <2>8. (t * Place[j]) \div Place[j] = t
    BY <2>4, MulDiv
  <2>9. v = t
    BY <2>2, <2>7, <2>8 DEF j
  <2> QED BY <1>6, <2>9
<1>9. CASE word >= Sign /\ s = 3
  <2>1. word = t
    <3>1. k = 0
      BY <1>9
    <3>2. Place[0] = 1
      BY PlaceDef
    <3> HIDE DEF k
    <3> QED BY <3>1, <3>2
  <2>2. c = [size |-> 4, word |-> t \div Base]
    BY <1>3, <1>9, <2>1 DEF Compact
  <2>3. v = (t \div Base) * Place[1]
    BY <2>2 DEF set_compact
  <2>4. v = (t \div Base) * Base
    BY <2>3, SignFacts
  <2> HIDE DEF v
  <2>5. Sign <= t
    BY <1>4, <1>5, <1>9, <2>1
  <2>6. /\ v \in Nat /\ v <= t /\ Sign <= v /\ t - v < Base /\ v \div Base = t \div Base
    BY <2>4, <2>5, DropByte
  <2>7. ByteLen(v) = 3
    <3>1. v < Place[3]
      BY <1>1, <1>9, <2>6, PlaceDef
    <3>2. Place[3 - 1] <= v
      BY <2>6, SignFacts, PlaceDef
    <3> QED BY <2>6, <3>1, <3>2, ByteLenIs
  <2>8. get_compact(v) = Compact(3, v * Place[3 - 3])
    BY <2>6, <2>7, CompactDef
  <2>9. v * Place[3 - 3] = v
    BY <2>6, PlaceDef
  <2>10. get_compact(v) = [size |-> 4, word |-> v \div Base]
    BY <1>5, <2>6, <2>8, <2>9 DEF Compact
  <2>11. get_compact(v) = c
    BY <2>2, <2>6, <2>10
  <2>12. t - v < Place[s - 2]
    BY <1>9, <2>6, SignFacts
  <2> QED BY <1>9, <2>6, <2>11, <2>12 DEF Packs, v, c, s
<1> QED BY <1>1, <1>2, <1>4, <1>5, <1>7, <1>8, <1>9

(* A target of more than three bytes, with its word cut to a shorter one:  *)
(* it keeps its length.                                                    *)
LEMMA CutWord ==
    ASSUME NEW t \in Nat, ByteLen(t) > 3,
           NEW u \in Nat, Place[2] <= u, u <= t \div Place[ByteLen(t) - 3],
           (t \div Place[ByteLen(t) - 3]) - u < Base
    PROVE  LET s == ByteLen(t)
               P == Place[s - 3]
               v == u * P
           IN  /\ v \in Nat /\ v <= t /\ ByteLen(v) = s /\ v \div P = u
               /\ t - v < Place[s - 2]
<1> DEFINE s == ByteLen(t)
           k == s - 3
           P == Place[k]
           w == t \div P
           r == t % P
           v == u * P
<1>1. s \in Nat /\ t < Place[s] /\ s > 3
  BY ByteLenDef
<1>2. u <= w /\ w - u < Base
  OBVIOUS
<1> HIDE DEF s
<1>3. k \in Nat /\ s = 3 + k /\ s - 1 = 2 + k /\ s - 2 = 1 + k
  BY <1>1
<1>4. P \in Nat /\ P > 0
  BY <1>3, PlaceDef
<1>5. Place[s - 1] = Place[2] * P /\ Place[s - 2] = Base * P
  <2> HIDE DEF k
  <2>1. Place[2 + k] = Place[2] * Place[k] /\ Place[1 + k] = Place[1] * Place[k]
    BY <1>3, PlaceSum
  <2> QED BY <1>3, <2>1, SignFacts
<1> HIDE DEF P, k
<1>6. w \in Nat /\ r \in 0 .. P - 1 /\ t = w * P + r /\ w * P \in Nat
  BY <1>4, DivParts
<1> HIDE DEF w, r
<1>7. v \in Nat /\ v <= w * P
  BY <1>2, <1>4, <1>6
<1>8. v <= t
  BY <1>6, <1>7
<1>9. v \div P = u
  BY <1>4, MulDiv
<1>10. Place[2] * P <= v
  <2>1. Place[2] \in Nat
    BY PlaceDef
  <2> QED BY <2>1, <1>4
<1>11. w * P - v < Base * P - r
  <2>1. w - u \in Nat /\ w - u <= Base - 1
    BY <1>2, <1>6, BaseFacts
  <2>2. (w - u) * P <= (Base - 1) * P
    BY <2>1, <1>4, BaseFacts
  <2>3. (w - u) * P = w * P - v
    BY <1>4, <1>6
  <2>4. (Base - 1) * P = Base * P - P
    BY <1>4, BaseFacts
  <2>5. Base * P \in Nat
    BY <1>4, BaseFacts
  <2> HIDE DEF v
  <2> QED BY <1>4, <1>6, <1>7, <2>2, <2>3, <2>4, <2>5
<1> HIDE DEF v
<1>12. ByteLen(v) = s
  <2>1. v < Place[s]
    BY <1>1, <1>7, <1>8, PlaceDef
  <2>2. Place[s - 1] <= v
    BY <1>5, <1>10
  <2> QED BY <1>1, <1>7, <2>1, <2>2, ByteLenIs
<1>13. t - v < Place[s - 2]
  <2>1. Base * P \in Nat
    BY <1>4, BaseFacts
  <2> QED BY <1>4, <1>5, <1>6, <1>7, <1>11, <2>1
<1> QED BY <1>7, <1>8, <1>9, <1>12, <1>13 DEF v, P, k, s

(* Above three bytes: the word is the top three bytes of the target. *)
LEMMA PacksLong ==
    ASSUME NEW t \in Nat, ByteLen(t) > 3
    PROVE  Packs(t)
<1> DEFINE s == ByteLen(t)
           P == Place[s - 3]
           w == t \div P
           c == get_compact(t)
           v == set_compact(c)
<1>1. s \in Nat /\ t < Place[s] /\ (\A m \in 0 .. s - 1 : t >= Place[m]) /\ s > 3
  BY ByteLenDef
<1>2. c = Compact(s, w)
  <2>1. ~(s <= 3)
    BY <1>1
  <2> QED BY <2>1, CompactDef
<1>3. P \in Nat /\ P > 0 /\ Place[s] = Place[3] * P /\ Place[s - 1] = Place[2] * P
  <2> HIDE DEF s
  <2>1. s - 3 \in Nat /\ s = 3 + (s - 3) /\ s - 1 = 2 + (s - 3)
    BY <1>1
  <2>2. Place[3 + (s - 3)] = Place[3] * P /\ Place[2 + (s - 3)] = Place[2] * P
    BY <2>1, PlaceSum
  <2> QED BY <2>1, <2>2, PlaceDef
<1>4. w \in Nat /\ Place[2] <= w
  <2>1. s - 1 \in 0 .. s - 1
    BY <1>1
  <2>2. Place[2] * P <= t
    BY <1>1, <1>3, <2>1
  <2>3. Place[2] \in Nat
    BY PlaceDef
  <2> HIDE DEF P
  <2> QED BY <1>3, <2>2, <2>3, DivBounds, DivParts
<1>5. Sign \in Nat /\ Sign > 0 /\ Place[2] <= Sign
  BY SignFacts, PlaceDef
<1>6. ASSUME NEW u \in Nat, Place[2] <= u, u <= w, w - u < Base, v = u * P,
             Compact(s, u) = c
      PROVE  Packs(t)
  <2>1. /\ v \in Nat /\ v <= t /\ ByteLen(v) = s /\ v \div P = u /\ t - v < Place[s - 2]
    BY <1>6, CutWord
  <2>2. get_compact(v) = c
    <3> HIDE DEF v, c
    <3>1. ~(ByteLen(v) <= 3)
      BY <1>1, <2>1
    <3>2. get_compact(v) = Compact(ByteLen(v), v \div Place[ByteLen(v) - 3])
      BY <2>1, <3>1, CompactDef
    <3> QED BY <1>6, <2>1, <3>2
  <2>3. ~(s <= 2)
    BY <1>1
  <2> QED BY <2>1, <2>2, <2>3 DEF Packs
<1> HIDE DEF s, P, w, c
<1>7. CASE w < Sign
  <2>1. c = [size |-> s, word |-> w]
    BY <1>2, <1>4, <1>5, <1>7 DEF Compact
  <2>2. v = w * Place[s - 3]
    BY <1>1, <2>1 DEF set_compact
  <2>3. w - w < Base
    BY <1>4, BaseFacts
  <2> HIDE DEF v
  <2> QED BY <1>2, <1>4, <1>6, <2>2, <2>3 DEF P
<1>8. CASE w >= Sign
  <2> DEFINE q == w \div Base
             u == q * Base
  <2>1. /\ q \in Nat /\ Sign <= u /\ u <= w /\ w - u < Base /\ u \in Nat /\ u \div Base = q
    <3>1. Sign <= w
      BY <1>4, <1>5, <1>8
    <3> QED BY <1>4, <3>1, DropByte
  <2>2. c = [size |-> s + 1, word |-> q]
    BY <1>2, <1>8 DEF Compact
  <2>3. v = q * Place[(s + 1) - 3]
    BY <1>1, <2>2 DEF set_compact
  <2>4. Place[(s + 1) - 3] = Base * P
    <3>1. s - 3 \in Nat /\ (s + 1) - 3 = (s - 3) + 1
      BY <1>1
    <3> QED BY <3>1, PlaceDef DEF P
  <2> HIDE DEF v, q
  <2>5. v = u * P
    <3>1. q * (Base * P) = (q * Base) * P
      BY <1>3, <2>1, BaseFacts
    <3> QED BY <2>3, <2>4, <3>1
  <2> HIDE DEF u
  <2>6. Compact(s, u) = c
    BY <1>5, <2>1, <2>2 DEF Compact
  <2>7. Place[2] <= u
    BY <1>5, <2>1, PlaceDef
  <2> QED BY <1>6, <2>1, <2>5, <2>6, <2>7
<1> QED BY <1>4, <1>5, <1>7, <1>8

LEMMA PacksAlways ==
    ASSUME NEW t \in Nat
    PROVE  Packs(t)
BY PacksShort, PacksLong, ByteLenDef

LEMMA MinOfTwo ==
    ASSUME NEW a \in Nat, NEW b \in Nat
    PROVE  Min({a, b}) = IF a > b THEN b ELSE a
<1> DEFINE P(x) == \A y \in {a, b} : x <= y
           m == IF a > b THEN b ELSE a
<1>1. m \in {a, b} /\ P(m)
  OBVIOUS
<1>2. \A x \in {a, b} : P(x) => x = m
  OBVIOUS
<1>3. Min({a, b}) = CHOOSE x \in {a, b} : P(x)
  BY DEF Min
<1> HIDE DEF P, m
<1>4. Min({a, b}) \in {a, b} /\ P(Min({a, b}))
  BY <1>1, <1>3
<1> QED BY <1>2, <1>4 DEF m

LEMMA MaxOfTwo ==
    ASSUME NEW a \in Int, NEW b \in Int
    PROVE  Max({a, b}) = IF a < b THEN b ELSE a
<1> DEFINE P(x) == \A y \in {a, b} : x >= y
           m == IF a < b THEN b ELSE a
<1>1. m \in {a, b} /\ P(m)
  OBVIOUS
<1>2. \A x \in {a, b} : P(x) => x = m
  OBVIOUS
<1>3. Max({a, b}) = CHOOSE x \in {a, b} : P(x)
  BY DEF Max
<1> HIDE DEF P, m
<1>4. Max({a, b}) \in {a, b} /\ P(Max({a, b}))
  BY <1>1, <1>3
<1> QED BY <1>2, <1>4 DEF m

(* A target that was packed once gives the block target that consensus     *)
(* asks for, at every difficulty and under every limit.                    *)
LEMMA ConsensusTarget ==
    ASSUME NEW t \in Nat
    PROVE  TargetIsConsensus(get_compact(t))
<1> DEFINE b == get_compact(t)
           v == set_compact(b)
<1>1. v \in Nat /\ get_compact(v) = b
  BY PacksAlways DEF Packs
<1> HIDE DEF b
<1>2. ASSUME NEW l \in {get_compact(u) : u \in 0 .. MaxTarget}, NEW d \in 1 .. 3, NEW n \in 1 .. 3
      PROVE  LET got == set_compact(derive_adjusted_block_target(b, d, n, l))
                 exact == Min({(v * n) \div d, set_compact(l)})
             IN  got <= exact /\ exact - got < Place[Max({0, ByteLen(exact) - 2})]
  <2> DEFINE L == set_compact(l)
             adjusted == (v * n) \div d
             capped == IF adjusted > L THEN L ELSE adjusted
             got == set_compact(get_compact(capped))
  <2>1. L \in Nat
    <3>1. PICK u \in 0 .. MaxTarget : l = get_compact(u)
      OBVIOUS
    <3>2. u \in Nat
      BY <3>1, MathAssumption
    <3>3. set_compact(get_compact(u)) \in Nat
      BY <3>2, PacksAlways DEF Packs
    <3> QED BY <3>1, <3>3
  <2> HIDE DEF v
  <2>2. adjusted \in Nat
    <3>1. v * n \in Nat /\ d \in Nat /\ d > 0
      BY <1>1
    <3> QED BY <3>1, DivParts
  <2>3. derive_adjusted_block_target(b, d, n, l) = get_compact(capped)
    BY DEF derive_adjusted_block_target, v
  <2> HIDE DEF L, adjusted
  <2>4. capped \in Nat
    BY <2>1, <2>2
  <2>5. Min({adjusted, L}) = capped
    BY <2>1, <2>2, MinOfTwo
  <2> HIDE DEF capped
  <2>6. Packs(capped) /\ ByteLen(capped) \in Nat
    BY <2>4, PacksAlways, ByteLenDef
  <2>7. got <= capped /\ capped - got < Place[Max({0, ByteLen(capped) - 2})]
    <3>1. CASE ByteLen(capped) <= 2
      <4>1. got = capped
        BY <2>6, <3>1 DEF Packs
      <4>2. Max({0, ByteLen(capped) - 2}) = 0
        BY <2>6, <3>1, MaxOfTwo
      <4> HIDE DEF got
      <4> QED BY <2>4, <4>1, <4>2, PlaceDef
    <3>2. CASE ByteLen(capped) > 2
      <4>1. got <= capped /\ capped - got < Place[ByteLen(capped) - 2]
        BY <2>6, <3>2 DEF Packs
      <4>2. Max({0, ByteLen(capped) - 2}) = ByteLen(capped) - 2
        BY <2>6, <3>2, MaxOfTwo
      <4> QED BY <4>1, <4>2
    <3> QED BY <2>6, <3>1, <3>2
  <2> QED BY <2>3, <2>5, <2>7 DEF L, adjusted
<1>3. TargetIsConsensus(b)
  <2> HIDE DEF b
  <2> QED BY <1>1, <1>2 DEF TargetIsConsensus
<1> QED BY <1>3 DEF b

-----------------------------------------------------------------------------
(* Hashes as numbers.  The values of the prefixes of a byte string. *)
Values(g, b) ==
    /\ g \in [0 .. HashLen -> Nat] /\ g[0] = 0
    /\ \A k \in 1 .. HashLen : g[k] = g[k - 1] * Base + b[k]

LEMMA NumberDef ==
    ASSUME NEW b \in Bytes
    PROVE  \E g : Values(g, b) /\ Number(b) = g[HashLen]
<1> DEFINE H == HashLen
           Body(f) == [k \in 0 .. H |-> IF k = 0 THEN 0 ELSE f[k - 1] * Base + b[k]]
           value == CHOOSE f : f = Body(f)
           F == [i \in Nat |-> [s \in Nat |-> IF i < H THEN s * Base + b[i + 1] ELSE s]]
<1>1. H \in Nat
  BY MathAssumption
<1>2. \A i \in 1 .. H : b[i] \in Nat
  BY BaseFacts DEF Bytes
<1>3. \A i \in Nat : \A s \in Nat :
         /\ F[i][s] = IF i < H THEN s * Base + b[i + 1] ELSE s
         /\ F[i][s] \in Nat
  <2> TAKE i \in Nat
  <2> TAKE s \in Nat
  <2>1. s * Base \in Nat
    BY BaseFacts
  <2>2. i < H => b[i + 1] \in Nat
    BY <1>1, <1>2
  <2>3. F[i][s] = IF i < H THEN s * Base + b[i + 1] ELSE s
    OBVIOUS
  <2> HIDE DEF F
  <2> QED BY <2>1, <2>2, <2>3
<1> HIDE DEF F
<1>4. PICK g \in [Nat -> Nat] : Iterates(g, 0, F)
  <2>1. StepsIn(F, Nat)
    BY <1>3 DEF StepsIn
  <2> QED BY <2>1, IterationExists
<1>5. \A k \in 1 .. H : g[k] = g[k - 1] * Base + b[k]
  <2> TAKE k \in 1 .. H
  <2>1. k - 1 \in Nat /\ k - 1 < H /\ (k - 1) + 1 = k
    BY <1>1
  <2>2. g[(k - 1) + 1] = F[k - 1][g[k - 1]]
    BY <1>4, <2>1 DEF Iterates
  <2> QED BY <1>3, <1>4, <2>1, <2>2
<1> DEFINE h == [k \in 0 .. H |-> g[k]]
<1>6. h = Body(h)
  <2>1. \A k \in 0 .. H : h[k] = IF k = 0 THEN 0 ELSE h[k - 1] * Base + b[k]
    <3> TAKE k \in 0 .. H
    <3>1. CASE k = 0
      BY <1>4, <3>1 DEF Iterates
    <3>2. CASE k /= 0
      <4>1. k \in 1 .. H /\ k - 1 \in 0 .. H
        BY <1>1, <3>2
      <4> QED BY <1>5, <3>2, <4>1
    <3> QED BY <3>1, <3>2
  <2>2. h = [k \in 0 .. H |-> h[k]]
    OBVIOUS
  <2> HIDE DEF h
  <2> QED BY <2>1, <2>2
<1>7. value = Body(value)
  <2> HIDE DEF Body, h
  <2> QED BY <1>6
<1>8. Number(b) = value[H]
  BY DEF Number
<1> HIDE DEF value
<1>9. value[0] = 0
  BY <1>1, <1>7
<1>10. \A k \in 1 .. H : value[k] = value[k - 1] * Base + b[k]
  <2> TAKE k \in 1 .. H
  <2>1. k \in 0 .. H /\ k /= 0
    BY <1>1
  <2> QED BY <1>7, <2>1
<1>11. \A k \in 0 .. H : value[k] \in Nat
  <2> DEFINE V == {i \in Nat : i <= H => value[i] \in Nat}
  <2>1. 0 \in V
    BY <1>9
  <2>2. ASSUME NEW i \in Nat, i \in V PROVE i + 1 \in V
    <3> SUFFICES ASSUME i + 1 <= H PROVE value[i + 1] \in Nat
      OBVIOUS
    <3>1. i + 1 \in 1 .. H /\ (i + 1) - 1 = i /\ value[i] \in Nat
      BY <1>1, <2>2
    <3>2. value[i + 1] = value[i] * Base + b[i + 1]
      BY <1>10, <3>1
    <3>3. value[i] * Base \in Nat
      BY <3>1, BaseFacts
    <3> QED BY <1>2, <3>1, <3>2, <3>3
  <2> HIDE DEF V
  <2>3. Nat \subseteq V
    BY <2>1, <2>2, Induction
  <2> QED BY <1>1, <2>3 DEF V
<1>12. value \in [0 .. H -> Nat]
  <2>1. value = [k \in 0 .. H |-> value[k]]
    BY <1>7
  <2> QED BY <1>11, <2>1
<1> QED BY <1>8, <1>9, <1>10, <1>12 DEF Values

(* The first byte that differs decides which number is smaller. *)
LEMMA FirstDecides ==
    ASSUME NEW a \in Bytes, NEW b \in Bytes, NEW p \in 1 .. HashLen,
           \A i \in 1 .. p - 1 : a[i] = b[i], a[p] < b[p]
    PROVE  Number(a) < Number(b)
<1> DEFINE H == HashLen
<1>1. H \in Nat
  BY MathAssumption
<1>2. PICK g : Values(g, a) /\ Number(a) = g[H]
  BY NumberDef
<1>3. PICK h : Values(h, b) /\ Number(b) = h[H]
  BY NumberDef
<1>4. \A i \in 1 .. H : a[i] \in 0 .. Base - 1 /\ b[i] \in 0 .. Base - 1
  BY DEF Bytes
<1>5. \A k \in 0 .. H : g[k] \in Nat /\ h[k] \in Nat
  BY <1>2, <1>3 DEF Values
<1>6. \A k \in Nat : k + 1 <= H => /\ g[k + 1] = g[k] * Base + a[k + 1]
                                   /\ h[k + 1] = h[k] * Base + b[k + 1]
  <2> TAKE k \in Nat
  <2>1. k + 1 <= H => k + 1 \in 1 .. H /\ (k + 1) - 1 = k
    BY <1>1
  <2> QED BY <1>2, <1>3, <2>1 DEF Values
<1>7. \A k \in Nat : k < p => g[k] = h[k]
  <2> DEFINE V == {k \in Nat : k < p => g[k] = h[k]}
  <2>1. 0 \in V
    BY <1>2, <1>3 DEF Values
  <2>2. ASSUME NEW k \in Nat, k \in V PROVE k + 1 \in V
    <3> SUFFICES ASSUME k + 1 < p PROVE g[k + 1] = h[k + 1]
      OBVIOUS
    <3>1. k + 1 \in 1 .. p - 1 /\ k + 1 <= H /\ k < p
      BY <1>1
    <3> QED BY <1>6, <2>2, <3>1
  <2> HIDE DEF V
  <2>3. Nat \subseteq V
    BY <2>1, <2>2, Induction
  <2> QED BY <2>3 DEF V
<1>8. \A k \in Nat : p <= k /\ k <= H => g[k] < h[k]
  <2> DEFINE V == {k \in Nat : p <= k /\ k <= H => g[k] < h[k]}
  <2>1. 0 \in V
    OBVIOUS
  <2>2. ASSUME NEW k \in Nat, k \in V PROVE k + 1 \in V
    <3> SUFFICES ASSUME p <= k + 1, k + 1 <= H PROVE g[k + 1] < h[k + 1]
      OBVIOUS
    <3>1. /\ g[k + 1] = g[k] * Base + a[k + 1]
          /\ h[k + 1] = h[k] * Base + b[k + 1]
      BY <1>6
    <3>2. /\ k \in 0 .. H /\ k + 1 \in 1 .. H
      BY <1>1
    <3>3. g[k] \in Nat /\ h[k] \in Nat
      BY <1>5, <3>2
    <3>4. a[k + 1] \in 0 .. Base - 1 /\ b[k + 1] \in 0 .. Base - 1
      BY <1>4, <3>2
    <3>5. g[k] * Base \in Nat /\ h[k] * Base \in Nat
      BY <3>3, BaseFacts
    <3>6. CASE k + 1 = p
      <4>1. g[k] = h[k]
        BY <1>7, <3>6
      <4> QED BY SMTT(30), <3>1, <3>4, <3>5, <3>6, <4>1, BaseFacts
    <3>7. CASE k + 1 > p
      <4>1. g[k] + 1 <= h[k]
        BY <2>2, <3>2, <3>3, <3>7
      <4>2. (g[k] + 1) * Base <= h[k] * Base
        BY <3>3, <4>1, BaseFacts
      <4>3. (g[k] + 1) * Base = g[k] * Base + Base
        BY <3>3, BaseFacts
      <4> QED BY <3>1, <3>4, <3>5, <4>2, <4>3, BaseFacts
    <3> QED BY <3>6, <3>7
  <2> HIDE DEF V
  <2>3. Nat \subseteq V
    BY <2>1, <2>2, Induction
  <2> QED BY <2>3 DEF V
<1> QED BY <1>1, <1>2, <1>3, <1>8

(* The byte loop from the last byte down is the comparison of numbers. *)
LEMMA ComparedAsNumber ==
    ASSUME NEW t \in Bytes
    PROVE  HashComparedAsNumber(t)
<1> SUFFICES ASSUME NEW d \in Bytes
             PROVE  check_hash_against_target(d, t)
                      <=> Number([i \in 1 .. HashLen |-> d[HashLen + 1 - i]]) <= Number(t)
  BY DEF HashComparedAsNumber
<1> DEFINE H == HashLen
           a == [i \in 1 .. H |-> d[H + 1 - i]]
           t_le == [i \in 1 .. H |-> t[H + 1 - i]]
           differ == {i \in 1 .. H : d[i] /= t_le[i]}
<1>1. H \in Nat
  BY MathAssumption
<1>2. \A i \in 1 .. H : H + 1 - i \in 1 .. H /\ H + 1 - (H + 1 - i) = i
  BY <1>1
<1>3. a \in Bytes
  BY <1>2 DEF Bytes
<1>4. Number(a) \in Nat /\ Number(t) \in Nat
  <2>1. PICK g : Values(g, a) /\ Number(a) = g[H]
    BY <1>3, NumberDef
  <2>2. PICK h : Values(h, t) /\ Number(t) = h[H]
    BY NumberDef
  <2>3. H \in 0 .. H
    BY <1>1
  <2> QED BY <2>1, <2>2, <2>3 DEF Values
<1>5. check_hash_against_target(d, t)
        <=> differ = {} \/ d[Max(differ)] < t_le[Max(differ)]
  BY DEF check_hash_against_target
<1>6. \A i \in 1 .. H : a[i] = d[H + 1 - i] /\ t_le[H + 1 - i] = t[i]
  BY <1>2
<1> SUFFICES check_hash_against_target(d, t) <=> Number(a) <= Number(t)
  OBVIOUS
<1> HIDE DEF a, t_le
<1>7. CASE differ = {}
  <2>1. \A i \in 1 .. H : a[i] = t[i]
    BY <1>2, <1>6, <1>7
  <2>2. a = t
    <3>1. a = [i \in 1 .. H |-> a[i]] /\ t = [i \in 1 .. H |-> t[i]]
      BY <1>3 DEF Bytes
    <3> QED BY <2>1, <3>1
  <2>3. Number(a) <= Number(t)
    BY <1>4, <2>2
  <2> QED BY <1>5, <1>7, <2>3
<1>8. CASE differ /= {}
  <2> DEFINE m == Max(differ)
             p == H + 1 - m
  <2>1. m \in differ /\ \A i \in differ : m >= i
    <3> DEFINE P(x) == \A i \in differ : x >= i
    <3>1. \E s \in differ : P(s)
      <4>1. differ \subseteq 0 .. H
        BY <1>1
      <4>2. PICK s \in differ : \A i \in differ : i <= s
        <5> HIDE DEF differ
        <5> QED BY <1>1, <1>8, <4>1, GreatestExists
      <4>3. \A i \in differ : s >= i
        BY <1>1, <4>2
      <4> QED BY <4>2, <4>3
    <3>2. m = CHOOSE x \in differ : P(x)
      BY DEF Max
    <3> HIDE DEF differ, m, P
    <3>3. m \in differ /\ P(m)
      BY <3>1, <3>2
    <3> QED BY <3>3 DEF P
  <2> HIDE DEF m
  <2>2. m \in 1 .. H /\ d[m] /= t_le[m]
    BY <2>1
  <2>3. p \in 1 .. H /\ H + 1 - p = m
    BY <1>1, <1>2, <2>2
  <2>4. \A i \in 1 .. p - 1 : a[i] = t[i]
    <3> TAKE i \in 1 .. p - 1
    <3>1. i \in 1 .. H /\ H + 1 - i \in 1 .. H /\ ~(m >= H + 1 - i)
      BY <1>1, <2>2, <2>3
    <3>2. H + 1 - i \notin differ
      BY <2>1, <3>1
    <3>3. d[H + 1 - i] = t_le[H + 1 - i]
      BY <3>1, <3>2
    <3> QED BY <1>6, <3>1, <3>3
  <2>5. a[p] = d[m] /\ t[p] = t_le[m]
    BY <1>6, <2>3
  <2> HIDE DEF p
  <2>6. a[p] \in Nat /\ t[p] \in Nat
    BY <1>3, <2>3, BaseFacts DEF Bytes
  <2>7. CASE d[m] < t_le[m]
    <3>1. Number(a) < Number(t)
      BY <1>3, <2>3, <2>4, <2>5, <2>7, FirstDecides
    <3> QED BY <1>4, <1>5, <2>7, <3>1 DEF m
  <2>8. CASE t_le[m] < d[m]
    <3>1. \A i \in 1 .. p - 1 : t[i] = a[i]
      BY <2>4
    <3>2. t[p] < a[p]
      BY <2>5, <2>8
    <3>3. Number(t) < Number(a)
      BY <1>3, <2>3, <3>1, <3>2, FirstDecides
    <3>4. ~(d[m] < t_le[m])
      BY <2>5, <2>6, <2>8
    <3>5. ~(Number(a) <= Number(t))
      BY <1>4, <3>3
    <3> QED BY <1>5, <1>8, <3>4, <3>5 DEF m
  <2>9. d[m] < t_le[m] \/ t_le[m] < d[m]
    BY <2>2, <2>5, <2>6
  <2> QED BY <2>7, <2>8, <2>9
<1> QED BY <1>7, <1>8

(* TargetsAreConsensus for every base of digits, length of a hash and      *)
(* target: the block target a worker derives from a packed one is at most  *)
(* powLimit and base * N / D and short of it by no more than packing costs *)
(* (derive_adjusted_block_target), and the byte loop of                    *)
(* check_hash_against_target compares the digest and it as numbers.        *)
THEOREM TargetsConsensus == Spec => []TargetsAreConsensus
<1>1. CaseTypes => TargetsAreConsensus
  <2> SUFFICES ASSUME CaseTypes PROVE TargetsAreConsensus
    OBVIOUS
  <2>1. target \in Nat
    BY MathAssumption DEF CaseTypes
  <2> DEFINE t == [i \in 1 .. HashLen |-> (target \div Place[HashLen - i]) % Base]
  <2>2. t \in Bytes
    <3>1. \A i \in 1 .. HashLen : (target \div Place[HashLen - i]) % Base \in 0 .. Base - 1
      <4> TAKE i \in 1 .. HashLen
      <4>1. HashLen - i \in Nat
        BY MathAssumption
      <4>2. Place[HashLen - i] \in Nat /\ Place[HashLen - i] > 0
        BY <4>1, PlaceDef
      <4> DEFINE q == target \div Place[HashLen - i]
      <4>3. q \in Nat
        BY <2>1, <4>2, DivParts
      <4> HIDE DEF q
      <4> QED BY <4>3, BaseFacts DEF q
    <3> QED BY <3>1 DEF Bytes
  <2> QED BY <2>1, <2>2, ConsensusTarget, ComparedAsNumber DEF TargetsAreConsensus
<1> QED BY <1>1, CaseTypesHold, PTL
=============================================================================
