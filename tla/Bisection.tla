----------------------------- MODULE Bisection -----------------------------
(***************************************************************************)
(* calc_preimage of primitives/prediction-market/src/math/root.rs: the     *)
(* preimage of a value under a function, by bisection.  One iteration of   *)
(* its loop is one step.  The function is any one: that it is monotonous   *)
(* is the caller's promise, and a property that needs it says so.          *)
(***************************************************************************)
EXTENDS Integers, TLAPS

CONSTANTS
  MaxValue,        \* the largest number of the type
  Functions,       \* functions a caller may pass
  Values, Tols,    \* values and tolerances a caller may pass
  MaxIterations    \* limits on the iterations a caller may pass

Numbers == 0..MaxValue

ASSUME BisectionConstants ==
  /\ MaxValue \in Nat
  /\ Functions \subseteq [Numbers -> Nat]
  /\ Values \subseteq Nat /\ Tols \subseteq Nat /\ MaxIterations \subseteq Nat

VARIABLES
  fn, value, max_iterations, tol,    \* the arguments
  from, to,                         \* the first min and max
  min, max, fmax, mid, iteration,   \* the local variables
  pc                                \* "call", "loop", or how the call ended

arguments == <<fn, value, max_iterations, tol, from, to>>

searchVars == <<arguments, min, max, fmax, mid, iteration, pc>>

\* The sign of the difference x - y.
diff_sign(x, y) == IF x = y THEN 0 ELSE IF y < x THEN 1 ELSE -1

\* Whether t lies outside of the interval between x and y.
is_outside_of(t, x, y) == diff_sign(x, t) * diff_sign(y, t) > 0

dist(x, y) == IF x > y THEN x - y ELSE y - x

SearchInit ==
  /\ fn \in Functions /\ value \in Values
  /\ max_iterations \in MaxIterations /\ tol \in Tols
  /\ from \in Numbers /\ to \in Numbers
  /\ min = from /\ max = to
  /\ fmax = fn[max] /\ mid = min /\ iteration = 0
  /\ pc = "call"

\* The call ends with x as its answer.
Answer(x, how) ==
  /\ mid' = x /\ pc' = how
  /\ UNCHANGED <<arguments, min, max, fmax, iteration>>

\* What is checked before the loop.
Call ==
  /\ pc = "call"
  /\ IF min >= max THEN Answer(min, "error")
     ELSE IF fn[min] = value THEN Answer(min, "hit")
     ELSE IF fmax = value THEN Answer(max, "hit")
     ELSE IF is_outside_of(value, fn[min], fmax)
     THEN Answer(IF dist(fmax, value) < dist(fn[min], value) THEN max ELSE min, "outside")
     ELSE Answer(min, "loop")

(* Mutant of Halve: the half without the preimage. *)
Halve_Other(m) ==
  IF is_outside_of(value, fn[m], fmax)
  THEN min' = m /\ UNCHANGED <<max, fmax>>
  ELSE max' = m /\ fmax' = fn[m] /\ UNCHANGED min

\* The half in which the preimage is.
Halve(m) ==
  IF is_outside_of(value, fn[m], fmax)
  THEN max' = m /\ fmax' = fn[m] /\ UNCHANGED min
  ELSE min' = m /\ UNCHANGED <<max, fmax>>

Iterate ==
  /\ pc = "loop" /\ iteration < max_iterations
  /\ iteration' = iteration + 1
  /\ IF max - min < tol THEN pc' = "close" /\ UNCHANGED <<min, max, fmax, mid>>
     ELSE IF max + min > MaxValue
     THEN pc' = "error" /\ UNCHANGED <<min, max, fmax, mid>>
     ELSE LET m == (max + min) \div 2
          IN  /\ mid' = m
              /\ IF fn[m] = value THEN pc' = "hit" /\ UNCHANGED <<min, max, fmax>>
                 ELSE Halve(m) /\ UNCHANGED pc
  /\ UNCHANGED arguments

GiveUp ==
  /\ pc = "loop" /\ iteration = max_iterations
  /\ Answer(mid, "given up")

SearchNext == Call \/ Iterate \/ GiveUp

Search == SearchInit /\ [][SearchNext]_searchVars
---------------------------------------------------------------------------
(* Properties *)

Between(x, y, z) == (x < y /\ y < z) \/ (z < y /\ y < x)

Monotonous ==
  \/ \A x, y \in Numbers : x <= y => fn[x] <= fn[y]
  \/ \A x, y \in Numbers : x <= y => fn[y] <= fn[x]

SearchTypeOK ==
  /\ fn \in Functions /\ value \in Values
  /\ max_iterations \in MaxIterations /\ tol \in Tols
  /\ from \in Numbers /\ to \in Numbers
  /\ min \in Numbers /\ max \in Numbers /\ mid \in Numbers /\ iteration \in Nat
  /\ pc \in {"call", "loop", "error", "hit", "outside", "close", "given up"}

\* While calc_preimage searches, and when it has stopped searching, the value
\* lies strictly between those at the ends of its interval, whatever the
\* function, and fmax is the value at max: the half that is thrown away is
\* never the one with the crossing.
ValueIsBracketed ==
  /\ pc = "call" => min = from /\ max = to
  /\ pc \in {"call", "loop", "close", "given up"} => fmax = fn[max]
  /\ pc \in {"loop", "close", "given up"} =>
       /\ from <= min /\ min < max /\ max <= to
       /\ mid \in {min, max}
       /\ Between(fn[min], value, fn[max])

\* The answer to a monotonous function is what the documentation of
\* calc_preimage says: a preimage; or an argument closer than the tolerance to
\* every preimage in the interval; or, with no preimage, the end whose value is
\* the closest.
AnswerIsRight ==
  Monotonous =>
    /\ pc = "hit" => fn[mid] = value
    /\ pc = "close" =>
         \A x \in from..to : fn[x] = value => dist(x, mid) < tol
    /\ pc = "outside" =>
         \A x \in from..to : dist(fn[mid], value) <= dist(fn[x], value)

\* With a tolerance of two or more every iteration that goes on has made the
\* interval smaller, so that the search ends by itself and not by the limit on
\* its iterations (with a smaller one, an interval of size one stays as it is).
IntervalShrinks ==
  [][ tol >= 2 /\ pc = "loop" /\ pc' = "loop" => max' - min' < max - min ]_searchVars
---------------------------------------------------------------------------
(* Proofs: for every type, function, value, tolerance and limit. *)

\* is_outside_of multiplies two signs; what it says of three numbers.
LEMMA OutsideMeaning ==
  ASSUME NEW t \in Int, NEW x \in Int, NEW y \in Int
  PROVE  is_outside_of(t, x, y) <=> (x < t /\ y < t) \/ (t < x /\ t < y)
<1>1. diff_sign(x, t) = (IF x = t THEN 0 ELSE IF t < x THEN 1 ELSE -1)
  BY DEF diff_sign
<1>2. diff_sign(y, t) = (IF y = t THEN 0 ELSE IF t < y THEN 1 ELSE -1)
  BY DEF diff_sign
<1>3. CASE x = t
  BY <1>1, <1>2, <1>3 DEF is_outside_of
<1>4. CASE t < x
  BY <1>1, <1>2, <1>4 DEF is_outside_of
<1>5. CASE x < t
  BY <1>1, <1>2, <1>5 DEF is_outside_of
<1>6. QED
  BY <1>3, <1>4, <1>5

\* The invariant of the search: beside the bracket, how each end was reached.
SearchInv ==
  /\ SearchTypeOK
  /\ ValueIsBracketed
  /\ pc = "hit" => fn[mid] = value
  /\ pc = "close" => max - min < tol
  /\ pc = "outside" =>
       /\ from < to
       /\ is_outside_of(value, fn[from], fn[to])
       /\ mid = IF dist(fn[to], value) < dist(fn[from], value) THEN to ELSE from

\* The values a function takes are natural numbers.
LEMMA Applied ==
  ASSUME SearchTypeOK, NEW x \in Numbers
  PROVE  fn[x] \in Nat /\ x \in Nat /\ value \in Nat
<1>1. fn \in [Numbers -> Nat] /\ value \in Nat
  BY BisectionConstants DEF BisectionConstants, SearchTypeOK
<1>2. fn[x] \in Nat
  BY <1>1
<1>3. x \in Nat
  BY BisectionConstants DEF BisectionConstants, Numbers
<1>4. QED
  BY <1>1, <1>2, <1>3

\* The checks before the loop keep the invariant.
LEMMA CallKeepsInv ==
  ASSUME SearchInv, Call
  PROVE  SearchInv'
<1>1. SearchTypeOK'
  BY DEF SearchInv, SearchTypeOK, Call, Answer, arguments
<1>2. min = from /\ max = to /\ fmax = fn[max] /\ pc = "call"
  BY DEF SearchInv, ValueIsBracketed, Call
<1>3. fn[min] \in Nat /\ fn[max] \in Nat /\ value \in Nat /\ min \in Nat /\ max \in Nat
  BY Applied DEF SearchInv, SearchTypeOK
<1>4. UNCHANGED <<fn, value, tol, from, to, min, max, fmax>>
  BY DEF Call, Answer, arguments
<1>5. CASE min >= max \/ fn[min] = value \/ fmax = value
  <2>1. pc' = "error" \/ (pc' = "hit" /\ fn[mid'] = value)
    BY <1>2, <1>5 DEF Call, Answer
  <2>2. QED
    BY <1>1, <1>4, <2>1 DEF SearchInv, ValueIsBracketed
<1>6. CASE /\ ~(min >= max \/ fn[min] = value \/ fmax = value)
           /\ is_outside_of(value, fn[min], fmax)
  <2>1. /\ pc' = "outside" /\ min < max
        /\ mid' = IF dist(fmax, value) < dist(fn[min], value) THEN max ELSE min
    BY <1>3, <1>6 DEF Call, Answer
  <2>2. QED
    BY <1>1, <1>2, <1>4, <1>6, <2>1
       DEF SearchInv, ValueIsBracketed, dist, is_outside_of, diff_sign
<1>7. CASE /\ ~(min >= max \/ fn[min] = value \/ fmax = value)
           /\ ~is_outside_of(value, fn[min], fmax)
  <2>1. Between(fn[min], value, fn[max])
    BY <1>2, <1>3, <1>7, OutsideMeaning DEF Between
  <2>2. pc' = "loop" /\ mid' = min /\ min < max
    BY <1>3, <1>7 DEF Call, Answer
  <2>3. ValueIsBracketed'
    BY <1>2, <1>3, <1>4, <2>1, <2>2 DEF ValueIsBracketed, Between
  <2>4. QED
    BY <1>1, <2>2, <2>3 DEF SearchInv
<1>8. QED
  BY <1>5, <1>6, <1>7

\* An iteration keeps the invariant: the half it keeps has the crossing.
LEMMA IterateKeepsInv ==
  ASSUME SearchInv, Iterate
  PROVE  SearchInv'
<1> DEFINE m == (max + min) \div 2
<1>1. /\ from <= min /\ min < max /\ max <= to /\ mid \in {min, max}
      /\ fmax = fn[max] /\ Between(fn[min], value, fn[max]) /\ pc = "loop"
  BY DEF SearchInv, ValueIsBracketed, Iterate
<1>2. /\ min \in Nat /\ max \in Nat /\ fn[min] \in Nat /\ fn[max] \in Nat /\ value \in Nat
      /\ from \in Nat /\ to \in Nat /\ max <= MaxValue /\ MaxValue \in Nat
  <2>1. {min, max, from, to} \subseteq Numbers
    BY DEF SearchInv, SearchTypeOK
  <2>2. MaxValue \in Nat /\ max \in 0..MaxValue
    BY <2>1, BisectionConstants DEF BisectionConstants, Numbers
  <2>3. QED
    BY <2>1, <2>2, Applied DEF SearchInv
<1>3. m \in Nat /\ min <= m /\ m < max
  BY <1>1, <1>2
<1>4. m \in Numbers /\ fn[m] \in Nat
  BY <1>2, <1>3, Applied DEF SearchInv, Numbers
<1>5. iteration' \in Nat /\ UNCHANGED arguments
  BY DEF Iterate, SearchInv, SearchTypeOK
<1>6. CASE max - min < tol
  BY <1>1, <1>2, <1>5, <1>6
     DEF Iterate, SearchInv, SearchTypeOK, ValueIsBracketed, arguments
<1>7. CASE ~(max - min < tol) /\ max + min > MaxValue
  BY <1>1, <1>2, <1>5, <1>7
     DEF Iterate, SearchInv, SearchTypeOK, ValueIsBracketed, arguments
<1>8. CASE ~(max - min < tol) /\ ~(max + min > MaxValue) /\ fn[m] = value
  BY <1>1, <1>2, <1>4, <1>5, <1>8
     DEF Iterate, SearchInv, SearchTypeOK, ValueIsBracketed, arguments
<1>9. CASE ~(max - min < tol) /\ ~(max + min > MaxValue) /\ fn[m] # value
  <2>1. mid' = m /\ Halve(m) /\ pc' = "loop"
    BY <1>1, <1>9 DEF Iterate
  <2>2. CASE is_outside_of(value, fn[m], fmax)
    <3>1. max' = m /\ fmax' = fn[m] /\ min' = min /\ min # m /\ Between(fn[min], value, fn[m])
      BY <1>1, <1>2, <1>3, <1>4, <1>9, <2>1, <2>2, OutsideMeaning DEF Halve, Between
    <3>2. QED
      BY <1>1, <1>2, <1>3, <1>4, <1>5, <2>1, <3>1
         DEF SearchInv, SearchTypeOK, ValueIsBracketed, arguments
  <2>3. CASE ~is_outside_of(value, fn[m], fmax)
    <3>1. min' = m /\ max' = max /\ fmax' = fmax /\ Between(fn[m], value, fn[max])
      BY <1>1, <1>2, <1>3, <1>4, <1>9, <2>1, <2>3, OutsideMeaning DEF Halve, Between
    <3>2. QED
      BY <1>1, <1>2, <1>3, <1>4, <1>5, <2>1, <3>1
         DEF SearchInv, SearchTypeOK, ValueIsBracketed, arguments
  <2>4. QED
    BY <2>2, <2>3
<1>10. QED
  BY <1>6, <1>7, <1>8, <1>9

\* Every behaviour of calc_preimage keeps the invariant.
THEOREM SearchKeepsInv == Search => []SearchInv
<1>1. SearchInit => SearchInv
  BY DEF SearchInit, SearchInv, SearchTypeOK, ValueIsBracketed
<1>2. SearchInv /\ [SearchNext]_searchVars => SearchInv'
  <2>1. ASSUME SearchInv, GiveUp PROVE SearchInv'
    BY <2>1 DEF GiveUp, Answer, arguments, SearchInv, SearchTypeOK, ValueIsBracketed
  <2>2. ASSUME SearchInv, UNCHANGED searchVars PROVE SearchInv'
    BY <2>2 DEF searchVars, arguments, SearchInv, SearchTypeOK, ValueIsBracketed
  <2>3. QED
    BY <2>1, <2>2, CallKeepsInv, IterateKeepsInv DEF SearchNext
<1>3. QED
  BY <1>1, <1>2, PTL DEF Search

\* For every function, monotonous or not, the interval of calc_preimage keeps
\* the crossing.
THEOREM SearchIsBracketed == Search => []ValueIsBracketed
<1>1. SearchInv => ValueIsBracketed
  BY DEF SearchInv
<1>2. QED
  BY <1>1, SearchKeepsInv, PTL

\* calc_preimage answers a monotonous function as its documentation says.
THEOREM AnswersAreRight == Search => []AnswerIsRight
<1>1. SearchInv => AnswerIsRight
  <2>1. SUFFICES ASSUME SearchInv, Monotonous PROVE AnswerIsRight
    BY DEF AnswerIsRight
  <2>2. /\ from \in Nat /\ to \in Nat /\ value \in Nat
        /\ from \in Numbers /\ to \in Numbers /\ tol \in Int
    <3>1. from \in Numbers /\ to \in Numbers
      BY <2>1 DEF SearchInv, SearchTypeOK
    <3>2. tol \in Nat
      BY <2>1, BisectionConstants DEF BisectionConstants, SearchInv, SearchTypeOK
    <3>3. QED
      BY <2>1, <3>1, <3>2, Applied DEF SearchInv
  <2>3. ASSUME NEW x \in from..to
        PROVE  x \in Numbers /\ x \in Nat /\ fn[x] \in Nat /\ from <= x /\ x <= to
    <3>1. x \in Nat /\ from <= x /\ x <= to
      BY <2>2
    <3>2. to \in 0..MaxValue /\ MaxValue \in Nat
      BY <2>2, BisectionConstants DEF BisectionConstants, Numbers
    <3>3. x \in Numbers
      BY <3>1, <3>2 DEF Numbers
    <3>4. fn[x] \in Nat
      BY <2>1, <3>3, Applied DEF SearchInv
    <3>5. QED
      BY <3>1, <3>3, <3>4
  <2>4. ASSUME pc = "close", NEW x \in from..to, fn[x] = value
        PROVE  dist(x, mid) < tol
    <3>1. /\ min < max /\ mid \in {min, max} /\ Between(fn[min], value, fn[max])
          /\ max - min < tol
      BY <2>1, <2>4 DEF SearchInv, ValueIsBracketed
    <3>2. /\ min \in Numbers /\ max \in Numbers /\ min \in Nat /\ max \in Nat
          /\ fn[min] \in Nat /\ fn[max] \in Nat
      BY <2>1, Applied DEF SearchInv, SearchTypeOK
    <3>3. x \in Numbers /\ x \in Nat
      BY <2>3, <2>4
    <3>4. min < x /\ x < max
      <4>1. CASE \A a, b \in Numbers : a <= b => fn[a] <= fn[b]
        BY <2>2, <2>4, <3>1, <3>2, <3>3, <4>1 DEF Between
      <4>2. CASE \A a, b \in Numbers : a <= b => fn[b] <= fn[a]
        BY <2>2, <2>4, <3>1, <3>2, <3>3, <4>2 DEF Between
      <4>3. QED
        BY <2>1, <4>1, <4>2 DEF Monotonous
    <3>5. QED
      BY <2>2, <3>1, <3>2, <3>3, <3>4 DEF dist
  <2>5. ASSUME pc = "outside", NEW x \in from..to
        PROVE  dist(fn[mid], value) <= dist(fn[x], value)
    <3>1. /\ from < to
          /\ is_outside_of(value, fn[from], fn[to])
          /\ mid = IF dist(fn[to], value) < dist(fn[from], value) THEN to ELSE from
      BY <2>1, <2>5 DEF SearchInv
    <3>2. x \in Numbers /\ x \in Nat /\ fn[x] \in Nat /\ from <= x /\ x <= to
      BY <2>3, <2>5
    <3>3. fn[from] \in Nat /\ fn[to] \in Nat
      BY <2>1, <2>2, Applied DEF SearchInv
    <3>4. \/ fn[from] < value /\ fn[to] < value
          \/ value < fn[from] /\ value < fn[to]
      BY <2>2, <3>1, <3>3, OutsideMeaning
    <3>5. \/ fn[from] <= fn[x] /\ fn[x] <= fn[to]
          \/ fn[to] <= fn[x] /\ fn[x] <= fn[from]
      BY <2>1, <2>2, <3>2 DEF Monotonous
    <3>6. dist(fn[mid], value) <= dist(fn[from], value) /\ dist(fn[mid], value) <= dist(fn[to], value)
      BY <2>2, <3>1, <3>3 DEF dist
    <3>7. \/ dist(fn[from], value) <= dist(fn[x], value)
          \/ dist(fn[to], value) <= dist(fn[x], value)
      BY <2>2, <3>2, <3>3, <3>4, <3>5 DEF dist
    <3>8. dist(fn[x], value) \in Nat /\ dist(fn[from], value) \in Nat /\ dist(fn[to], value) \in Nat
      BY <2>2, <3>2, <3>3 DEF dist
    <3>9. mid \in {from, to}
      BY <3>1
    <3>10. QED
      BY <3>6, <3>7, <3>8, <3>9
  <2>6. QED
    BY <2>1, <2>4, <2>5 DEF AnswerIsRight, SearchInv
<1>2. QED
  BY <1>1, SearchKeepsInv, PTL

\* Every iteration of calc_preimage that goes on makes the interval smaller.
THEOREM SearchEnds == Search => IntervalShrinks
<1>1. SearchInv /\ [SearchNext]_searchVars =>
        [ tol >= 2 /\ pc = "loop" /\ pc' = "loop" => max' - min' < max - min ]_searchVars
  <2>1. SUFFICES ASSUME SearchInv, SearchNext, tol >= 2, pc = "loop", pc' = "loop"
                 PROVE  max' - min' < max - min
    OBVIOUS
  <2>2. Iterate
    BY <2>1 DEF SearchNext, Call, GiveUp, Answer
  <2>3. min \in Nat /\ max \in Nat /\ tol \in Nat /\ min < max
    BY <2>1, Applied, BisectionConstants
       DEF BisectionConstants, SearchInv, SearchTypeOK, ValueIsBracketed
  <2>4. ~(max - min < tol) /\ Halve((max + min) \div 2)
    BY <2>1, <2>2 DEF Iterate
  <2>5. \/ max' = (max + min) \div 2 /\ min' = min
        \/ min' = (max + min) \div 2 /\ max' = max
    BY <2>4 DEF Halve
  <2>6. max - min >= 2
    BY <2>1, <2>3, <2>4
  <2>7. QED
    BY <2>3, <2>5, <2>6
<1>2. QED
  BY <1>1, SearchKeepsInv, PTL DEF Search, IntervalShrinks
===========================================================================
