----------------------------- MODULE Timers_proofs -----------------------------
(***************************************************************************)
(* No timer fires early and none is overtaken, whatever the width of the   *)
(* time, the timeouts and repeat values, and whatever the callbacks do.    *)
(*                                                                         *)
(* For the first, what matters is get_clamped_due_time: a sum that wraps   *)
(* round becomes the last time there is, which the loop never reaches.     *)
(* For the second, it is that the loop's time never goes back: a timer     *)
(* started while another is due comes after it in the tree.                *)
(***************************************************************************)
EXTENDS Timers, TLAPS, WellFoundedInduction

Times == 0..(Word - 1)

TimerType ==
  [life: {"open", "closing", "closed"}, due: Times, repeat: Times,
   started: BOOLEAN, functor: BOOLEAN]
RunType ==
  [mode: {"none", "default", "once"}, ran: BOOLEAN,
   timeout: Nat \union {Infinite}, until: Nat, awaited: BOOLEAN]

NoRepeat(s) == \A i, j \in 1..Len(s) : s[i] = s[j] => i = j
Precedes(s, x, y) == \E i, j \in 1..Len(s) : i < j /\ s[i] = x /\ s[j] = y

LoopInv ==
  /\ request \in {"none", "started", "port", "pending"}
  /\ clock \in 0..Horizon /\ time \in 0..Horizon
  /\ stop \in BOOLEAN /\ at \in Place /\ run \in RunType

TimersInv ==
  /\ timer \in [Timers -> TimerType]
  /\ asked \in [Timers -> Nat] /\ passed \in [Timers -> SUBSET Timers]

\* The tree holds open timers, the endgame list the closing ones.
ListsInv ==
  /\ order \in Seq(Timers) /\ NoRepeat(order)
  /\ \A t \in Timers : Contains(order, t) => timer[t].life = "open"
  /\ endgame \in Seq(Timers) /\ NoRepeat(endgame)
  /\ \A t \in Timers : Contains(endgame, t) <=> timer[t].life = "closing"

\* A timer is due when it was asked to be, or at the end of all times.
DueInv == \A t \in Timers : timer[t].due = asked[t] \/ timer[t].due = Word - 1

\* A timer that has been passed is due, and first.
PassedInv ==
  \A u, t \in Timers : t \in passed[u] =>
    /\ t # u /\ Contains(order, u) /\ timer[u].due <= time
    /\ Contains(order, t) =>
         \/ timer[u].due < timer[t].due
         \/ timer[u].due = timer[t].due /\ Precedes(order, u, t)

TreeInv == TimersInv /\ ListsInv /\ DueInv /\ PassedInv

IInv == LoopInv /\ TreeInv

-----------------------------------------------------------------------------
(* Numbers of the width of the time.                                       *)

LEMMA Division ==
  ASSUME NEW i \in Nat, NEW n \in Nat \ {0}
  PROVE  i = n * (i \div n) + (i % n) /\ i \div n \in Int /\ i % n \in 0..(n - 1)
  OBVIOUS

LEMMA Multiples ==
  /\ \A q \in Int, n \in Nat : q >= 1 => n * q >= n
  /\ \A q \in Int, n \in Nat : q >= 2 => n * q >= 2 * n
  /\ \A q \in Int, n \in Nat : q <= -1 => n * q <= -n
<1>1. \A q \in Int, n \in Nat : q >= 1 => n * q >= n
  OBVIOUS
<1>2. \A q \in Int, n \in Nat : q >= 2 => n * q >= 2 * n
  OBVIOUS
<1>3. \A q \in Int, n \in Nat : q <= -1 => n * q <= -n
  OBVIOUS
<1> QED BY <1>1, <1>2, <1>3

LEMMA ModSmall == ASSUME NEW i \in Nat, NEW n \in Nat, i < n PROVE i % n = i
<1>1. PICK q \in Int, r \in 0..(n - 1) : i = n * q + r /\ r = i % n
  BY Division
<1>2. ~ (q >= 1) /\ ~ (q <= -1)
  <2>1. q >= 1 => n * q >= n
    BY Multiples
  <2>2. q <= -1 => n * q <= -n
    BY Multiples
  <2>3. PICK m \in Int : m = n * q
    OBVIOUS
  <2> QED BY <1>1, <2>1, <2>2, <2>3
<1>3. q = 0
  BY <1>2
<1> QED BY <1>1, <1>3

LEMMA ModOnce ==
  ASSUME NEW i \in Nat, NEW n \in Nat, n <= i, i < 2 * n PROVE i % n = i - n
<1>1. PICK q \in Int, r \in 0..(n - 1) : i = n * q + r /\ r = i % n
  BY Division
<1>2. q = 1
  <2>1. q >= 2 => n * q >= 2 * n
    BY Multiples
  <2>2. q <= -1 => n * q <= -n
    BY Multiples
  <2>3. q # 0
    BY <1>1
  <2>4. PICK m \in Int : m = n * q
    OBVIOUS
  <2>5. ~ (q >= 2) /\ ~ (q <= -1)
    BY <1>1, <2>1, <2>2, <2>4
  <2> QED BY <2>3, <2>5
<1> QED BY <1>1, <1>2

\* The loop's time is far from the end of the width.
LEMMA Width == Word \in Nat \ {0} /\ Horizon \in Nat /\ Horizon < Word - 1
<1>1. Word \in Nat /\ Horizon \in Nat /\ Horizon < Word \div 2
  BY TimesAssumption
<1>2. Word = 2 * (Word \div 2) + (Word % 2) /\ Word \div 2 \in Int /\ Word % 2 \in 0..1
  BY <1>1, Division
<1>3. PICK d \in Int : d = Word \div 2
  BY <1>2
<1>4. Word >= 2 * d /\ d >= 1
  BY <1>1, <1>2, <1>3
<1> QED BY <1>1, <1>3, <1>4

LEMMA Half == Word \div 2 \in Int /\ 2 * (Word \div 2) <= Word
<1>1. Word \in Nat
  BY TimesAssumption
<1>2. Word = 2 * (Word \div 2) + (Word % 2) /\ Word \div 2 \in Int /\ Word % 2 \in 0..1
  BY <1>1, Division
<1> QED BY <1>1, <1>2

\* get_clamped_due_time never gives a time before the one asked for, unless it
\* is the last.
LEMMA DueTimeIs ==
  ASSUME time \in 0..Horizon, NEW timeout \in Times
  PROVE  /\ DueTime(timeout) \in Times
         /\ DueTime(timeout) = time + timeout \/ DueTime(timeout) = Word - 1
<1>1. /\ Word \in Nat /\ Word > 0 /\ time \in Nat /\ time < Word
      /\ timeout \in Nat /\ timeout < Word
  <2>1. Word \in Nat /\ Horizon \in Nat /\ Horizon < Word - 1
    BY Width
  <2> QED BY <2>1 DEF Times
<1>2. PICK sum \in Nat : sum = time + timeout
  BY <1>1
<1>3. PICK r : r = sum % Word
  OBVIOUS
<1>4. DueTime(timeout) = IF r < timeout THEN Word - 1 ELSE r
  BY <1>2, <1>3 DEF DueTime
<1>5. CASE sum < Word
  <2>1. r = sum
    BY <1>1, <1>3, <1>5, ModSmall
  <2> QED BY <1>1, <1>2, <1>4, <1>5, <2>1 DEF Times
<1>6. CASE Word <= sum
  <2>1. sum < 2 * Word
    BY <1>1, <1>2
  <2>2. r = sum - Word
    BY <1>1, <1>3, <1>6, <2>1, ModOnce
  <2>3. DueTime(timeout) = Word - 1
    BY <1>1, <1>2, <1>4, <2>2
  <2> QED BY <1>1, <2>3 DEF Times
<1> QED BY <1>1, <1>5, <1>6

-----------------------------------------------------------------------------
(* Lists in which nothing occurs twice.                                    *)

LEMMA ConcatSeq ==
  ASSUME NEW S, NEW a \in Seq(S), NEW b \in Seq(S)
  PROVE  /\ a \o b \in Seq(S) /\ Len(a \o b) = Len(a) + Len(b)
         /\ \A i \in 1..Len(a) : (a \o b)[i] = a[i]
         /\ \A i \in 1..Len(b) : (a \o b)[Len(a) + i] = b[i]
  OBVIOUS

LEMMA OneSeq ==
  ASSUME NEW S, NEW e \in S
  PROVE  <<e>> \in Seq(S) /\ Len(<<e>>) = 1 /\ <<e>>[1] = e
  OBVIOUS

LEMMA TailSeq ==
  ASSUME NEW S, NEW s \in Seq(S), s # <<>>
  PROVE  /\ Tail(s) \in Seq(S) /\ Head(s) \in S /\ Head(s) = s[1]
         /\ Len(s) \in Nat /\ Len(Tail(s)) = Len(s) - 1 /\ 1 \in 1..Len(s)
         /\ \A i \in 1..Len(Tail(s)) : Tail(s)[i] = s[i + 1] /\ i + 1 \in 1..Len(s)
<1>1. Tail(s) \in Seq(S) /\ Head(s) \in S /\ Head(s) = s[1]
  OBVIOUS
<1>2. Len(s) \in Nat /\ Len(Tail(s)) = Len(s) - 1 /\ 1 \in 1..Len(s)
  OBVIOUS
<1>3. \A i \in 1..Len(Tail(s)) : Tail(s)[i] = s[i + 1]
  OBVIOUS
<1>4. \A i \in 1..Len(Tail(s)) : i + 1 \in 1..Len(s)
  BY <1>2
<1> QED BY <1>1, <1>2, <1>3, <1>4

LEMMA CutSeq ==
  ASSUME NEW S, NEW s \in Seq(S), NEW k \in 1..Len(s)
  PROVE  LET r == RemoveAt(s, k) IN
         /\ r \in Seq(S) /\ Len(s) \in Nat /\ Len(r) = Len(s) - 1
         /\ \A i \in 1..Len(r) : r[i] = IF i < k THEN s[i] ELSE s[i + 1]
<1> DEFINE a == SubSeq(s, 1, k - 1)
           b == SubSeq(s, k + 1, Len(s))
           r == a \o b
<1>1. Len(s) \in Nat /\ k \in Nat /\ 1 <= k /\ k <= Len(s)
  OBVIOUS
<1>2. a \in Seq(S) /\ Len(a) = k - 1 /\ \A i \in 1..(k - 1) : a[i] = s[i]
  OBVIOUS
<1>3. b \in Seq(S) /\ Len(b) = Len(s) - k /\ \A i \in 1..(Len(s) - k) : b[i] = s[i + k]
  OBVIOUS
<1>0. a \in Seq(S) /\ b \in Seq(S)
  BY <1>2, <1>3
<1> HIDE DEF a, b
<1>4. /\ r \in Seq(S) /\ Len(r) = Len(a) + Len(b)
      /\ \A i \in 1..Len(a) : r[i] = a[i]
      /\ \A i \in 1..Len(b) : r[Len(a) + i] = b[i]
  BY <1>0, ConcatSeq
<1> HIDE DEF r
<1>5. Len(r) = Len(s) - 1
  <2>1. Len(r) = (k - 1) + (Len(s) - k)
    BY <1>2, <1>3, <1>4
  <2> QED BY <1>1, <2>1
<1>6. ASSUME NEW i \in 1..Len(r), i < k PROVE r[i] = s[i]
  <2>1. i \in 1..(k - 1)
    BY <1>1, <1>5, <1>6
  <2> QED BY <1>2, <1>4, <2>1
<1>7. ASSUME NEW i \in 1..Len(r), ~ (i < k) PROVE r[i] = s[i + 1]
  <2>1. PICK m \in 1..(Len(s) - k) : i = (k - 1) + m /\ m + k = i + 1
    <3>1. i - (k - 1) \in 1..(Len(s) - k)
      BY <1>1, <1>5, <1>7
    <3> QED BY <1>1, <3>1
  <2>2. r[i] = b[m]
    BY <1>2, <1>3, <1>4, <2>1
  <2> QED BY <1>3, <2>1, <2>2
<1>8. r \in Seq(S) /\ Len(s) \in Nat /\ Len(r) = Len(s) - 1
        /\ \A i \in 1..Len(r) : r[i] = IF i < k THEN s[i] ELSE s[i + 1]
  BY <1>1, <1>4, <1>5, <1>6, <1>7
<1> QED BY <1>8 DEF RemoveAt, r, a, b

\* RemoveFirst of an element that occurs once takes it out.
LEMMA RemoveSeq ==
  ASSUME NEW S, NEW s \in Seq(S), NoRepeat(s), NEW e
  PROVE  LET r == RemoveFirst(s, e) IN
         /\ r \in Seq(S) /\ NoRepeat(r)
         /\ \A x : Contains(r, x) <=> Contains(s, x) /\ x # e
         /\ \A x, y : x # e /\ y # e /\ Precedes(s, x, y) => Precedes(r, x, y)
<1>1. CASE ~ Contains(s, e)
  <2>1. RemoveFirst(s, e) = s
    BY <1>1 DEF RemoveFirst, Contains
  <2> QED BY <1>1, <2>1
<1>2. CASE Contains(s, e)
  <2>1. PICK k \in 1..Len(s) : s[k] = e
    BY <1>2 DEF Contains
  <2>2. {i \in 1..Len(s) : s[i] = e} = {k}
    BY <2>1 DEF NoRepeat
  <2>3. Min({k}) = k
    BY <2>1 DEF Min
  <2>4. SelectInSeq(s, LAMBDA v : v = e) = k
    BY <2>2, <2>3 DEF SelectInSeq
  <2> DEFINE r == RemoveFirst(s, e)
  <2>5. r = RemoveAt(s, k)
    BY <1>2, <2>4 DEF RemoveFirst, Contains
  <2>6. /\ r \in Seq(S) /\ Len(s) \in Nat /\ Len(r) = Len(s) - 1
        /\ \A i \in 1..Len(r) : r[i] = IF i < k THEN s[i] ELSE s[i + 1]
    BY <2>5, CutSeq
  <2> HIDE DEF r
  <2>7. \A i \in 1..Len(r) :
          \E m \in 1..Len(s) : m # k /\ r[i] = s[m] /\ m = IF i < k THEN i ELSE i + 1
    BY <2>1, <2>6
  <2>8. \A m \in 1..Len(s) : m # k =>
          \E i \in 1..Len(r) : r[i] = s[m] /\ i = IF m < k THEN m ELSE m - 1
    <3> SUFFICES ASSUME NEW m \in 1..Len(s), m # k
                 PROVE  \E i \in 1..Len(r) : r[i] = s[m] /\ i = IF m < k THEN m ELSE m - 1
      OBVIOUS
    <3>1. CASE m < k
      BY <2>1, <2>6, <3>1
    <3>2. CASE m > k
      <4>1. m - 1 \in 1..Len(r) /\ ~ (m - 1 < k) /\ (m - 1) + 1 = m
        BY <2>1, <2>6, <3>2
      <4> QED BY <2>1, <2>6, <3>2, <4>1
    <3> QED BY <2>1, <2>6, <3>1, <3>2
  <2>9. NoRepeat(r)
    <3> SUFFICES ASSUME NEW i \in 1..Len(r), NEW j \in 1..Len(r), r[i] = r[j] PROVE i = j
      BY DEF NoRepeat
    <3>1. PICK m \in 1..Len(s) : r[i] = s[m] /\ m = IF i < k THEN i ELSE i + 1
      BY <2>7
    <3>2. PICK n \in 1..Len(s) : r[j] = s[n] /\ n = IF j < k THEN j ELSE j + 1
      BY <2>7
    <3>3. m = n
      BY <3>1, <3>2 DEF NoRepeat
    <3> QED BY <2>1, <2>6, <3>1, <3>2, <3>3
  <2>10. \A x : Contains(r, x) <=> Contains(s, x) /\ x # e
    <3>1. ASSUME NEW x, Contains(r, x) PROVE Contains(s, x) /\ x # e
      <4>1. PICK i \in 1..Len(r) : r[i] = x
        BY <3>1 DEF Contains
      <4>2. PICK m \in 1..Len(s) : m # k /\ s[m] = x
        BY <2>7, <4>1
      <4> QED BY <2>1, <4>2 DEF Contains, NoRepeat
    <3>2. ASSUME NEW x, Contains(s, x), x # e PROVE Contains(r, x)
      <4>1. PICK m \in 1..Len(s) : s[m] = x /\ m # k
        BY <2>1, <3>2 DEF Contains
      <4>2. PICK i \in 1..Len(r) : r[i] = x
        BY <2>8, <4>1
      <4> QED BY <4>2 DEF Contains
    <3> QED BY <3>1, <3>2
  <2>11. ASSUME NEW x, NEW y, x # e, y # e, Precedes(s, x, y) PROVE Precedes(r, x, y)
    <3>1. PICK m \in 1..Len(s), n \in 1..Len(s) : m < n /\ s[m] = x /\ s[n] = y
      BY <2>11 DEF Precedes
    <3>2. m # k /\ n # k
      BY <2>1, <2>11, <3>1
    <3>3. PICK i \in 1..Len(r) : r[i] = x /\ i = IF m < k THEN m ELSE m - 1
      BY <2>8, <3>1, <3>2
    <3>4. PICK j \in 1..Len(r) : r[j] = y /\ j = IF n < k THEN n ELSE n - 1
      BY <2>8, <3>1, <3>2
    <3>5. i < j
      BY <2>1, <2>6, <3>1, <3>2, <3>3, <3>4
    <3> QED BY <3>3, <3>4, <3>5 DEF Precedes
  <2> QED BY <2>6, <2>9, <2>10, <2>11 DEF r
<1> QED BY <1>1, <1>2

LEMMA AppendSeq ==
  ASSUME NEW S, NEW s \in Seq(S), NoRepeat(s), NEW e \in S, ~ Contains(s, e)
  PROVE  LET a == Append(s, e) IN
         /\ a \in Seq(S) /\ NoRepeat(a)
         /\ \A x : Contains(a, x) <=> Contains(s, x) \/ x = e
         /\ \A x, y : Precedes(s, x, y) => Precedes(a, x, y)
         /\ \A x : Contains(s, x) => Precedes(a, x, e)
<1> DEFINE a == Append(s, e)
<1>1. /\ a \in Seq(S) /\ Len(a) = Len(s) + 1 /\ a[Len(a)] = e /\ Len(s) \in Nat
      /\ \A i \in 1..Len(s) : a[i] = s[i]
  OBVIOUS
<1> HIDE DEF a
<1>2. \A i \in 1..Len(a) : i \in 1..Len(s) \/ i = Len(a)
  BY <1>1
<1>3. \A i \in 1..Len(s) : i \in 1..Len(a) /\ i < Len(a)
  BY <1>1
<1>4. Len(a) \in 1..Len(a)
  BY <1>1
<1>5. NoRepeat(a)
  BY <1>1, <1>2 DEF NoRepeat, Contains
<1>6. \A x : Contains(a, x) <=> Contains(s, x) \/ x = e
  BY <1>1, <1>2, <1>3, <1>4 DEF Contains
<1>7. \A x, y : Precedes(s, x, y) => Precedes(a, x, y)
  BY <1>1, <1>3 DEF Precedes
<1>8. \A x : Contains(s, x) => Precedes(a, x, e)
  BY <1>1, <1>3, <1>4 DEF Contains, Precedes
<1> QED BY <1>1, <1>5, <1>6, <1>7, <1>8 DEF a

\* A timer that is started goes to the end of the starts.
LEMMA Requeue ==
  ASSUME NEW S, NEW s \in Seq(S), NoRepeat(s), NEW e \in S
  PROVE  LET a == Append(RemoveFirst(s, e), e) IN
         /\ a \in Seq(S) /\ NoRepeat(a)
         /\ \A x : Contains(a, x) <=> Contains(s, x) \/ x = e
         /\ \A x, y : x # e /\ y # e /\ Precedes(s, x, y) => Precedes(a, x, y)
         /\ \A x : x # e /\ Contains(s, x) => Precedes(a, x, e)
<1>1. PICK r \in Seq(S) :
        /\ r = RemoveFirst(s, e) /\ NoRepeat(r)
        /\ \A x : Contains(r, x) <=> Contains(s, x) /\ x # e
        /\ \A x, y : x # e /\ y # e /\ Precedes(s, x, y) => Precedes(r, x, y)
  BY RemoveSeq
<1>2. PICK a \in Seq(S) :
        /\ a = Append(r, e) /\ NoRepeat(a)
        /\ \A x : Contains(a, x) <=> Contains(r, x) \/ x = e
        /\ \A x, y : Precedes(r, x, y) => Precedes(a, x, y)
        /\ \A x : Contains(r, x) => Precedes(a, x, e)
  BY <1>1, AppendSeq
<1> QED BY <1>1, <1>2

LEMMA Least ==
  ASSUME NEW T, T \subseteq Nat, T # {}
  PROVE  \E x \in T : \A y \in T : x <= y
<1>1. IsWellFoundedOn(OpToRel(<, Nat), Nat)
  BY NatLessThanWellFounded, Zenon
<1>2. PICK x \in T : \A y \in T : ~ (<<y, x>> \in OpToRel(<, Nat))
  BY <1>1, WFMin, Zenon
<1>3. \A y \in T : ~ (y < x)
  BY <1>2, Zenon DEF OpToRel
<1> QED BY <1>3

\* RB_MIN finds an active timer, and none comes before it.
LEMMA FirstIs ==
  ASSUME TimersInv, order \in Seq(Timers), order # <<>>
  PROVE  \E k \in 1..Len(order) :
           /\ First = order[k] /\ First \in Timers
           /\ \A j \in 1..Len(order) :
                \/ timer[order[k]].due < timer[order[j]].due
                \/ timer[order[k]].due = timer[order[j]].due /\ k <= j
<1> DEFINE due(i) == timer[order[i]].due
           best(i) == \A j \in DOMAIN order : due(i) < due(j) \/ (due(i) = due(j) /\ i <= j)
<1>1. /\ Len(order) \in Nat /\ DOMAIN order = 1..Len(order) /\ 1 \in 1..Len(order)
      /\ \A i \in 1..Len(order) : order[i] \in Timers
  OBVIOUS
<1>2. \A i \in 1..Len(order) : due(i) \in Nat
  BY <1>1, Width DEF TimersInv, TimerType, Times
<1> HIDE DEF due
<1>3. PICK d \in {due(i) : i \in 1..Len(order)} : \A y \in {due(i) : i \in 1..Len(order)} : d <= y
  <2>1. {due(i) : i \in 1..Len(order)} \subseteq Nat /\ {due(i) : i \in 1..Len(order)} # {}
    BY <1>1, <1>2
  <2> QED BY <2>1, Least
<1>4. PICK k \in {i \in 1..Len(order) : due(i) = d} :
        \A y \in {i \in 1..Len(order) : due(i) = d} : k <= y
  <2>1. /\ {i \in 1..Len(order) : due(i) = d} \subseteq Nat
        /\ {i \in 1..Len(order) : due(i) = d} # {}
    BY <1>1, <1>3
  <2> QED BY <2>1, Least
<1>5. k \in DOMAIN order /\ best(k)
  <2> SUFFICES ASSUME NEW j \in 1..Len(order)
               PROVE  due(k) < due(j) \/ (due(k) = due(j) /\ k <= j)
    BY <1>1, <1>4
  <2>1. due(k) = d /\ due(j) \in Nat /\ d \in Nat /\ d <= due(j)
    BY <1>2, <1>3, <1>4
  <2>2. due(j) = d => k <= j
    BY <1>4
  <2> QED BY <2>1, <2>2
<1>6. PICK m : m = CHOOSE i \in DOMAIN order : best(i)
  OBVIOUS
<1>7. m \in DOMAIN order /\ best(m)
  BY <1>5, <1>6
<1>8. First = order[m]
  BY <1>6 DEF First, due
<1> QED BY <1>1, <1>7, <1>8 DEF due

-----------------------------------------------------------------------------
LEMMA InitIInv == Init => IInv
<1> SUFFICES ASSUME Init PROVE IInv
  OBVIOUS
<1>1. 0 \in Times /\ 0 \in 0..Horizon /\ 0 \in Nat
  BY Width DEF Times
<1>2. LoopInv
  BY <1>1 DEF Init, LoopInv, Place, NoRun, RunType
<1>3. TimersInv
  BY <1>1 DEF Init, Fresh, TimersInv, TimerType
<1>4. ListsInv
  BY DEF Init, Fresh, ListsInv, NoRepeat, Contains
<1>5. DueInv /\ PassedInv
  BY DEF Init, Fresh, DueInv, PassedInv
<1> QED BY <1>2, <1>3, <1>4, <1>5 DEF IInv, TreeInv

-----------------------------------------------------------------------------
(* The tree.                                                               *)

\* A timer is put into the tree, the loop's time being what it was.
LEMMA PutIn ==
  ASSUME IInv, NEW t \in Timers, NEW k \in TimerType, k.life = "open", NEW sum \in Nat,
         k.due = sum \/ k.due = Word - 1, time <= k.due,
         timer' = [timer EXCEPT ![t] = k], order' = Append(RemoveFirst(order, t), t),
         asked' = [asked EXCEPT ![t] = sum], UNCHANGED <<endgame, time>>,
         passed' \in [Timers -> SUBSET Timers], passed'[t] = {},
         timer[t].life = "open",
         \A u \in Timers \ {t} :
           passed'[u] \subseteq passed[u] \union (IF Due(u) THEN {t} ELSE {})
  PROVE  TreeInv'
<1>1. /\ timer' \in [Timers -> TimerType] /\ timer'[t] = k
      /\ asked' \in [Timers -> Nat] /\ asked'[t] = sum
      /\ \A u \in Timers \ {t} : timer'[u] = timer[u] /\ asked'[u] = asked[u]
  BY DEF IInv, TreeInv, TimersInv
<1>2. /\ order' \in Seq(Timers) /\ NoRepeat(order')
      /\ \A x : Contains(order', x) <=> Contains(order, x) \/ x = t
      /\ \A x, y : x # t /\ y # t /\ Precedes(order, x, y) => Precedes(order', x, y)
      /\ \A x : x # t /\ Contains(order, x) => Precedes(order', x, t)
  BY Requeue DEF IInv, TreeInv, ListsInv
<1>3. TimersInv'
  BY <1>1 DEF TimersInv
<1>4. ListsInv'
  <2>1. \A u \in Timers : Contains(order', u) => timer'[u].life = "open"
    BY <1>1, <1>2 DEF IInv, TreeInv, ListsInv
  <2>2. \A u \in Timers : timer'[u].life = timer[u].life
    BY <1>1
  <2>3. \A u \in Timers : Contains(endgame, u) <=> timer'[u].life = "closing"
    BY <2>2 DEF IInv, TreeInv, ListsInv
  <2>4. endgame' \in Seq(Timers) /\ NoRepeat(endgame)
    BY DEF IInv, TreeInv, ListsInv
  <2> QED BY <1>2, <2>1, <2>3, <2>4 DEF ListsInv, NoRepeat, Contains
<1>5. DueInv'
  BY <1>1 DEF IInv, TreeInv, DueInv
<1>6. PassedInv'
  <2> SUFFICES ASSUME NEW u \in Timers, NEW v \in Timers, v \in passed'[u]
               PROVE  /\ v # u /\ Contains(order', u) /\ timer'[u].due <= time
                      /\ Contains(order', v) =>
                           \/ timer'[u].due < timer'[v].due
                           \/ timer'[u].due = timer'[v].due /\ Precedes(order', u, v)
    BY DEF PassedInv
  <2>1. u # t /\ timer'[u] = timer[u]
    BY <1>1
  <2>2. v # u /\ Contains(order, u) /\ timer[u].due <= time
    <3>1. CASE v \in passed[u]
      BY <3>1 DEF IInv, TreeInv, PassedInv
    <3>2. CASE v \notin passed[u]
      <4>1. v = t /\ Due(u)
        BY <2>1, <3>2
      <4> QED BY <2>1, <4>1 DEF Due, Active, ToSet, Contains, IInv, TreeInv, ListsInv
    <3> QED BY <3>1, <3>2
  <2>3. CASE v = t
    <3>1. timer[u].due \in Nat /\ k.due \in Nat /\ time \in Nat
      BY Width DEF IInv, TreeInv, TimersInv, LoopInv, TimerType, Times
    <3>2. timer'[u].due <= timer'[v].due /\ timer'[u].due \in Nat /\ timer'[v].due \in Nat
      BY <1>1, <2>1, <2>2, <2>3, <3>1
    <3>3. Precedes(order', u, v)
      BY <1>2, <2>1, <2>2, <2>3
    <3> QED BY <1>2, <2>1, <2>2, <3>2, <3>3
  <2>4. CASE v # t
    <3>1. v \in passed[u] /\ timer'[v] = timer[v]
      BY <1>1, <2>1, <2>4
    <3>2. Contains(order', v) => Contains(order, v)
      BY <1>2, <2>4
    <3>3. Contains(order, v) =>
            \/ timer[u].due < timer[v].due
            \/ timer[u].due = timer[v].due /\ Precedes(order, u, v)
      BY <3>1 DEF IInv, TreeInv, PassedInv
    <3> QED BY <1>2, <2>1, <2>2, <2>4, <3>1, <3>2, <3>3
  <2> QED BY <2>3, <2>4
<1> QED BY <1>3, <1>4, <1>5, <1>6 DEF TreeInv

\* A timer is taken from the tree; a close puts it on the endgame list.
LEMMA TakeOut ==
  ASSUME IInv, NEW t \in Timers, NEW k \in TimerType, NEW zero \in Nat, zero = 0,
         k.due = zero, timer[t].life = "open",
         timer' = [timer EXCEPT ![t] = k], order' = RemoveFirst(order, t),
         asked' = [asked EXCEPT ![t] = zero], UNCHANGED time,
         \/ k.life = "open" /\ endgame' = endgame
         \/ k.life = "closing" /\ endgame' = <<t>> \o endgame,
         passed' \in [Timers -> SUBSET Timers], passed'[t] = {},
         \A u \in Timers \ {t} :
           passed'[u] \subseteq passed[u] \union (IF Due(u) THEN {t} ELSE {})
  PROVE  TreeInv'
<1>1. /\ timer' \in [Timers -> TimerType] /\ timer'[t] = k
      /\ asked' \in [Timers -> Nat] /\ asked'[t] = zero
      /\ \A u \in Timers \ {t} : timer'[u] = timer[u] /\ asked'[u] = asked[u]
  BY DEF IInv, TreeInv, TimersInv
<1>2. /\ order' \in Seq(Timers) /\ NoRepeat(order')
      /\ \A x : Contains(order', x) <=> Contains(order, x) /\ x # t
      /\ \A x, y : x # t /\ y # t /\ Precedes(order, x, y) => Precedes(order', x, y)
  BY RemoveSeq DEF IInv, TreeInv, ListsInv
<1>3. TimersInv'
  BY <1>1 DEF TimersInv
<1>4. /\ endgame' \in Seq(Timers) /\ NoRepeat(endgame')
      /\ \A u \in Timers : Contains(endgame', u) <=> timer'[u].life = "closing"
  <2>1. /\ endgame \in Seq(Timers) /\ NoRepeat(endgame)
        /\ \A u \in Timers : Contains(endgame, u) <=> timer[u].life = "closing"
    BY DEF IInv, TreeInv, ListsInv
  <2>2. CASE k.life = "open" /\ endgame' = endgame
    BY <1>1, <2>1, <2>2
  <2>3. CASE k.life = "closing" /\ endgame' = <<t>> \o endgame
    <3>1. PICK e \in Seq(Timers) :
            /\ e = <<t>> \o endgame /\ Len(e) = Len(endgame) + 1 /\ Len(endgame) \in Nat
            /\ \A i \in 1..Len(e) : e[i] = IF i = 1 THEN t ELSE endgame[i - 1]
      <4>1. PICK o \in Seq(Timers) : o = <<t>> /\ Len(o) = 1 /\ o[1] = t
        BY OneSeq
      <4>0. /\ o \o endgame \in Seq(Timers) /\ Len(o \o endgame) = Len(o) + Len(endgame)
            /\ \A i \in 1..Len(o) : (o \o endgame)[i] = o[i]
            /\ \A i \in 1..Len(endgame) : (o \o endgame)[Len(o) + i] = endgame[i]
        <5>1. endgame \in Seq(Timers) /\ o \in Seq(Timers)
          BY <2>1
        <5> QED BY <5>1, ConcatSeq
      <4>2. PICK e \in Seq(Timers) :
              /\ e = o \o endgame /\ Len(e) = Len(o) + Len(endgame)
              /\ \A i \in 1..Len(o) : e[i] = o[i]
              /\ \A i \in 1..Len(endgame) : e[Len(o) + i] = endgame[i]
        BY <4>0
      <4>3. Len(endgame) \in Nat
        BY <2>1
      <4>4. ASSUME NEW i \in 1..Len(e)
            PROVE  e[i] = IF i = 1 THEN t ELSE endgame[i - 1]
        <5>1. CASE i = 1
          BY <4>1, <4>2, <5>1
        <5>2. CASE i # 1
          <6>1. i - 1 \in 1..Len(endgame) /\ 1 + (i - 1) = i
            BY <4>1, <4>2, <4>3, <5>2
          <6> QED BY <4>1, <4>2, <5>2, <6>1
        <5> QED BY <5>1, <5>2
      <4>5. Len(e) = Len(endgame) + 1
        BY <4>1, <4>2, <4>3
      <4> QED BY <4>1, <4>2, <4>3, <4>4, <4>5
    <3>2. ~ Contains(endgame, t)
      BY <2>1
    <3>3. NoRepeat(e)
      <4> SUFFICES ASSUME NEW i \in 1..Len(e), NEW j \in 1..Len(e), e[i] = e[j] PROVE i = j
        BY DEF NoRepeat
      <4>1. i = 1 \/ i - 1 \in 1..Len(endgame)
        BY <3>1
      <4>2. j = 1 \/ j - 1 \in 1..Len(endgame)
        BY <3>1
      <4> QED BY <2>1, <3>1, <3>2, <4>1, <4>2 DEF NoRepeat, Contains
    <3>4. \A x : Contains(e, x) <=> Contains(endgame, x) \/ x = t
      <4>1. ASSUME NEW x, Contains(e, x) PROVE Contains(endgame, x) \/ x = t
        <5>1. PICK i \in 1..Len(e) : e[i] = x
          BY <4>1 DEF Contains
        <5>2. i = 1 \/ i - 1 \in 1..Len(endgame)
          BY <3>1
        <5> QED BY <3>1, <5>1, <5>2 DEF Contains
      <4>2. ASSUME NEW x, Contains(endgame, x) PROVE Contains(e, x)
        <5>1. PICK i \in 1..Len(endgame) : endgame[i] = x
          BY <4>2 DEF Contains
        <5>2. i + 1 \in 1..Len(e) /\ i + 1 # 1 /\ (i + 1) - 1 = i
          BY <3>1
        <5> QED BY <3>1, <5>1, <5>2 DEF Contains
      <4>3. Contains(e, t)
        <5>1. 1 \in 1..Len(e)
          BY <3>1
        <5> QED BY <3>1, <5>1 DEF Contains
      <4> QED BY <4>1, <4>2, <4>3
    <3>5. endgame' = e
      BY <2>3, <3>1
    <3> QED BY <1>1, <2>1, <2>3, <3>1, <3>3, <3>4, <3>5
  <2> QED BY <2>2, <2>3
<1>5. ListsInv'
  <2>1. \A u \in Timers : Contains(order', u) => timer'[u].life = "open"
    BY <1>1, <1>2 DEF IInv, TreeInv, ListsInv
  <2> QED BY <1>2, <1>4, <2>1 DEF ListsInv, NoRepeat, Contains
<1>6. DueInv'
  BY <1>1 DEF IInv, TreeInv, DueInv
<1>7. PassedInv'
  <2> SUFFICES ASSUME NEW u \in Timers, NEW v \in Timers, v \in passed'[u]
               PROVE  /\ v # u /\ Contains(order', u) /\ timer'[u].due <= time
                      /\ Contains(order', v) =>
                           \/ timer'[u].due < timer'[v].due
                           \/ timer'[u].due = timer'[v].due /\ Precedes(order', u, v)
    BY DEF PassedInv
  <2>1. u # t /\ timer'[u] = timer[u]
    BY <1>1
  <2>2. CASE v \in passed[u]
    <3>1. v # u /\ Contains(order, u) /\ timer[u].due <= time
      BY <2>2 DEF IInv, TreeInv, PassedInv
    <3>2. Contains(order, v) =>
            \/ timer[u].due < timer[v].due
            \/ timer[u].due = timer[v].due /\ Precedes(order, u, v)
      BY <2>2 DEF IInv, TreeInv, PassedInv
    <3>3. Contains(order', v) => v # t /\ Contains(order, v) /\ timer'[v] = timer[v]
      BY <1>1, <1>2
    <3> QED BY <1>2, <2>1, <3>1, <3>2, <3>3
  <2>3. CASE v \notin passed[u]
    <3>1. v = t /\ Due(u)
      BY <2>1, <2>3
    <3>2. Contains(order, u) /\ timer[u].due <= time
      BY <3>1 DEF Due, Active, ToSet, Contains, IInv, TreeInv, ListsInv
    <3> QED BY <1>2, <2>1, <3>1, <3>2
  <2> QED BY <2>2, <2>3
<1> QED BY <1>3, <1>5, <1>6, <1>7 DEF TreeInv

\* The tree is left alone; the loop's time may go forward.
LEMMA TreeKept ==
  ASSUME IInv, UNCHANGED <<order, endgame, asked, passed>>,
         timer' \in [Timers -> TimerType],
         \A u \in Timers : timer'[u].due = timer[u].due /\ timer'[u].life = timer[u].life,
         time' \in Nat, time <= time'
  PROVE  TreeInv'
<1>1. TimersInv' /\ DueInv'
  BY DEF IInv, TreeInv, TimersInv, DueInv
<1>2. ListsInv'
  <2>1. \A u \in Timers : Contains(order, u) => timer'[u].life = "open"
    BY DEF IInv, TreeInv, ListsInv
  <2>2. \A u \in Timers : Contains(endgame, u) <=> timer'[u].life = "closing"
    BY DEF IInv, TreeInv, ListsInv
  <2>3. /\ order' \in Seq(Timers) /\ NoRepeat(order)
        /\ endgame' \in Seq(Timers) /\ NoRepeat(endgame)
    BY DEF IInv, TreeInv, ListsInv
  <2> QED BY <2>1, <2>2, <2>3 DEF ListsInv, NoRepeat, Contains
<1>3. PassedInv'
  <2> SUFFICES ASSUME NEW u \in Timers, NEW v \in Timers, v \in passed[u]
               PROVE  /\ v # u /\ Contains(order, u) /\ timer'[u].due <= time'
                      /\ Contains(order, v) =>
                           \/ timer'[u].due < timer'[v].due
                           \/ timer'[u].due = timer'[v].due /\ Precedes(order, u, v)
    BY DEF PassedInv, Contains, Precedes
  <2>1. /\ v # u /\ Contains(order, u) /\ timer[u].due <= time
        /\ Contains(order, v) =>
             \/ timer[u].due < timer[v].due
             \/ timer[u].due = timer[v].due /\ Precedes(order, u, v)
    BY DEF IInv, TreeInv, PassedInv
  <2>2. timer[u].due \in Nat /\ time \in Nat
    BY Width DEF IInv, TreeInv, TimersInv, LoopInv, TimerType, Times
  <2>3. timer[u].due <= time'
    BY <2>1, <2>2
  <2> QED BY <2>1, <2>3
<1> QED BY <1>1, <1>2, <1>3 DEF TreeInv

-----------------------------------------------------------------------------
(* The program.                                                            *)

\* The due time is the one asked for or the last there is, and not past.
LEMMA DueTimeLate ==
  ASSUME IInv, NEW timeout \in Times
  PROVE  \E d \in Times, sum \in Nat :
           /\ d = DueTime(timeout) /\ sum = time + timeout
           /\ d = sum \/ d = Word - 1
           /\ time <= d
<1>1. /\ time \in 0..Horizon /\ Word \in Nat /\ Horizon \in Nat /\ Horizon < Word - 1
      /\ timeout \in Nat
  BY Width DEF IInv, LoopInv, Times
<1>2. PICK d \in Times : /\ d = DueTime(timeout)
                         /\ d = time + timeout \/ d = Word - 1
  BY <1>1, DueTimeIs
<1>3. PICK sum \in Nat : sum = time + timeout
  BY <1>1
<1>4. time <= d
  BY <1>1, <1>2, <1>3
<1> QED BY <1>2, <1>3, <1>4

\* uv_timer_start, by the program.
LEMMA InsertKeeps ==
  ASSUME IInv, NEW t \in Timers, NEW timeout \in Times, NEW new \in TimerType,
         new.life = "open", timer[t].life = "open",
         Insert(t, timeout, new), UNCHANGED <<endgame, time>>
  PROVE  TreeInv'
<1>1. PICK d \in Times, sum \in Nat :
        /\ d = DueTime(timeout) /\ sum = time + timeout
        /\ d = sum \/ d = Word - 1
        /\ time <= d
  BY DueTimeLate
<1>2. PICK k : k = [new EXCEPT !.due = d, !.started = TRUE]
  OBVIOUS
<1>3. k \in TimerType /\ k.due = d /\ k.life = "open"
  BY <1>2 DEF TimerType
<1>4. /\ timer' = [timer EXCEPT ![t] = k] /\ order' = Append(RemoveFirst(order, t), t)
      /\ asked' = [asked EXCEPT ![t] = sum] /\ passed' = [passed EXCEPT ![t] = {}]
  BY <1>1, <1>2 DEF Insert
<1>5. passed' \in [Timers -> SUBSET Timers] /\ passed'[t] = {}
  BY <1>4 DEF IInv, TreeInv, TimersInv
<1>6. \A u \in Timers \ {t} :
        passed'[u] \subseteq passed[u] \union (IF Due(u) THEN {t} ELSE {})
  BY <1>4 DEF IInv, TreeInv, TimersInv
<1>7. (k.due = sum \/ k.due = Word - 1) /\ time <= k.due
  BY <1>1, <1>3
<1>8. /\ timer' = [timer EXCEPT ![t] = k] /\ order' = Append(RemoveFirst(order, t), t)
      /\ asked' = [asked EXCEPT ![t] = sum]
  BY <1>4
<1> QED BY <1>3, <1>5, <1>6, <1>7, <1>8, PutIn

\* uv_timer_stop, with what a close does to the endgame list.
LEMMA TakeKeeps ==
  ASSUME IInv, NEW t \in Timers, NEW new \in TimerType, new.due = 0,
         timer[t].life = "open", Take(t, new), UNCHANGED time,
         \/ new.life = "open" /\ endgame' = endgame
         \/ new.life = "closing" /\ endgame' = <<t>> \o endgame
  PROVE  TreeInv'
<1>1. PICK zero \in Nat : zero = 0
  OBVIOUS
<1>2. /\ timer' = [timer EXCEPT ![t] = new] /\ order' = RemoveFirst(order, t)
      /\ asked' = [asked EXCEPT ![t] = zero] /\ passed' = [passed EXCEPT ![t] = {}]
  BY <1>1 DEF Take
<1>3. passed' \in [Timers -> SUBSET Timers] /\ passed'[t] = {}
  BY <1>2 DEF IInv, TreeInv, TimersInv
<1>4. \A u \in Timers \ {t} :
        passed'[u] \subseteq passed[u] \union (IF Due(u) THEN {t} ELSE {})
  BY <1>2 DEF IInv, TreeInv, TimersInv
<1>5. new.due = zero
  BY <1>1
<1> QED BY <1>1, <1>2, <1>3, <1>4, <1>5, TakeOut

\* A step that leaves timers and lists alone and takes the time to the clock's.
LEMMA UpdateKeeps ==
  ASSUME IInv, UNCHANGED <<timer, order, endgame, asked, passed>>,
         UNCHANGED time \/ Update
  PROVE  TreeInv'
<1>1. time \in Nat /\ clock \in Nat
  BY Width DEF IInv, LoopInv
<1>2. time' \in Nat /\ time <= time'
  BY <1>1 DEF Update, Later
<1>3. timer' \in [Timers -> TimerType]
  BY DEF IInv, TreeInv, TimersInv
<1> QED BY <1>2, <1>3, TreeKept

LEMMA UserTree == ASSUME IInv, User PROVE TreeInv'
<1>1. timer \in [Timers -> TimerType] /\ 0 \in Times
  BY Width DEF IInv, TreeInv, TimersInv, Times
<1>2. ASSUME NEW t \in Timers, NEW set \in Settings[t], Start(t, set) PROVE TreeInv'
  <2>1. set.timeout \in Times /\ set.repeat \in Times
    BY TimersAssumption DEF Times
  <2>2. PICK k : k = [timer[t] EXCEPT !.repeat = set.repeat, !.functor = TRUE]
    OBVIOUS
  <2>3. timer[t].life = "open" /\ timer[t] \in TimerType
    BY <1>1, <1>2 DEF Start, Mine
  <2>4. k \in TimerType /\ k.life = "open"
    BY <2>1, <2>2, <2>3 DEF TimerType
  <2>5. Insert(t, set.timeout, k) /\ UNCHANGED <<endgame, time>>
    BY <1>2, <2>2 DEF Start, Elsewhere, times
  <2> QED BY <2>1, <2>3, <2>4, <2>5, InsertKeeps
<1>3. ASSUME NEW t \in Timers, Again(t) PROVE TreeInv'
  <2>1. timer[t] \in TimerType /\ timer[t].repeat \in Times /\ timer[t].life = "open"
    BY <1>1, <1>3 DEF TimerType, Again, Mine
  <2>2. Insert(t, timer[t].repeat, timer[t]) /\ UNCHANGED <<endgame, time>>
    BY <1>3 DEF Again, Elsewhere, times
  <2> QED BY <2>1, <2>2, InsertKeeps
<1>4. ASSUME NEW t \in Timers, Stop(t) PROVE TreeInv'
  <2>1. PICK k : k = [timer[t] EXCEPT !.due = 0, !.functor = FALSE]
    OBVIOUS
  <2>2. timer[t].life = "open" /\ timer[t] \in TimerType
    BY <1>1, <1>4 DEF Stop, Mine
  <2>3. k \in TimerType /\ k.due = 0 /\ k.life = "open"
    BY <1>1, <2>1, <2>2 DEF TimerType
  <2>4. Take(t, k) /\ UNCHANGED <<endgame, time>>
    BY <1>4, <2>1 DEF Stop, Elsewhere, times
  <2> QED BY <2>2, <2>3, <2>4, TakeKeeps
<1>5. ASSUME NEW t \in Timers, Close(t) PROVE TreeInv'
  <2>1. PICK k : k = Fresh("closing")
    OBVIOUS
  <2>2. k \in TimerType /\ k.due = 0 /\ k.life = "closing"
    BY <1>1, <2>1 DEF Fresh, TimerType
  <2>3. timer[t].life = "open" /\ Take(t, k) /\ endgame' = <<t>> \o endgame /\ UNCHANGED time
    BY <1>5, <2>1 DEF Close, Mine, times
  <2> QED BY <2>2, <2>3, TakeKeeps
<1>6. ASSUME NEW t \in Timers, NEW set \in Settings[t], SetRepeat(t, set.repeat) PROVE TreeInv'
  <2>1. set.repeat \in Times /\ timer[t] \in TimerType
    BY <1>1, TimersAssumption DEF Times
  <2>2. PICK k : k = [timer[t] EXCEPT !.repeat = set.repeat]
    OBVIOUS
  <2>3. k \in TimerType /\ k.due = timer[t].due /\ k.life = timer[t].life
    BY <2>1, <2>2 DEF TimerType
  <2>4. timer' = [timer EXCEPT ![t] = k]
    BY <1>6, <2>2 DEF SetRepeat
  <2>5. /\ timer' \in [Timers -> TimerType]
        /\ \A u \in Timers : timer'[u].due = timer[u].due /\ timer'[u].life = timer[u].life
    BY <1>1, <2>3, <2>4
  <2>6. UNCHANGED <<order, endgame, asked, passed, time>> /\ time \in Nat /\ time <= time
    BY <1>6, Width DEF SetRepeat, Elsewhere, history, times, IInv, LoopInv
  <2> QED BY <2>5, <2>6, TreeKept
<1>7. CASE Submit \/ StopLoop \/ UpdateTime
  BY <1>7, UpdateKeeps DEF Submit, StopLoop, UpdateTime, history, times
<1> QED BY <1>2, <1>3, <1>4, <1>5, <1>6, <1>7 DEF User

LEMMA UserLoop == ASSUME IInv, User PROVE LoopInv'
<1>1. \/ UNCHANGED <<endgame, request, times, stop, at, run>>
      \/ UNCHANGED <<request, times, stop, at, run>> \/ Submit \/ StopLoop \/ UpdateTime
  BY DEF User, Start, Stop, Again, SetRepeat, Close, Elsewhere
<1>2. UNCHANGED clock /\ time' \in {time, clock}
  BY <1>1 DEF Submit, StopLoop, UpdateTime, Update, Later, times
<1>3. UNCHANGED <<at, run>> /\ request' \in {request, "started"} /\ stop' \in {stop, TRUE}
  BY <1>1 DEF Submit, StopLoop, UpdateTime
<1> QED BY <1>2, <1>3 DEF IInv, LoopInv

-----------------------------------------------------------------------------
(* uv_run.                                                                 *)

\* The timer that fires is in the tree, and none there comes before it.
LEMMA Fires ==
  ASSUME IInv, NEW t \in Timers, Fire(t)
  PROVE  /\ Contains(order, t) /\ timer[t].life = "open" /\ timer[t].due <= time
         /\ \E k \in 1..Len(order) :
              /\ t = order[k]
              /\ \A j \in 1..Len(order) :
                   \/ timer[t].due < timer[order[j]].due
                   \/ timer[t].due = timer[order[j]].due /\ k <= j
<1>1. TimersInv /\ order \in Seq(Timers) /\ order # <<>> /\ t = First /\ timer[t].due <= time
  BY DEF Fire, Due, IInv, TreeInv, ListsInv
<1>2. PICK k \in 1..Len(order) :
        /\ First = order[k] /\ First \in Timers
        /\ \A j \in 1..Len(order) :
             \/ timer[order[k]].due < timer[order[j]].due
             \/ timer[order[k]].due = timer[order[j]].due /\ k <= j
  BY <1>1, FirstIs
<1>3. Contains(order, t)
  BY <1>1, <1>2 DEF Contains
<1>4. timer[t].life = "open"
  BY <1>3 DEF IInv, TreeInv, ListsInv
<1> QED BY <1>1, <1>2, <1>3, <1>4

\* What a timer that fires leaves in passed, restarted or not.
LEMMA PassingIs ==
  ASSUME IInv, NEW t \in Timers, passed' = [Passing(t) EXCEPT ![t] = {}]
  PROVE  /\ passed' \in [Timers -> SUBSET Timers] /\ passed'[t] = {}
         /\ \A u \in Timers \ {t} :
              passed'[u] \subseteq passed[u] \union (IF Due(u) THEN {t} ELSE {})
<1>1. passed \in [Timers -> SUBSET Timers]
  BY DEF IInv, TreeInv, TimersInv
<1>2. PICK p \in [Timers -> SUBSET Timers] :
        /\ p = Passing(t)
        /\ \A u \in Timers : p[u] = IF u # t /\ Due(u) THEN passed[u] \union {t} ELSE passed[u]
  <2>1. Passing(t) \in [Timers -> SUBSET Timers]
    BY <1>1 DEF Passing
  <2>2. \A u \in Timers :
          Passing(t)[u] = IF u # t /\ Due(u) THEN passed[u] \union {t} ELSE passed[u]
    BY DEF Passing
  <2> QED BY <2>1, <2>2
<1>3. passed' = [p EXCEPT ![t] = {}]
  BY <1>2
<1> QED BY <1>2, <1>3

LEMMA FireTree == ASSUME IInv, NEW t \in Timers, Fire(t) PROVE TreeInv'
<1>1. /\ timer \in [Timers -> TimerType] /\ timer[t] \in TimerType /\ timer[t].repeat \in Times
      /\ 0 \in Times
  BY Width DEF IInv, TreeInv, TimersInv, TimerType, Times
<1>2. timer[t].life = "open"
  BY Fires
<1>3. UNCHANGED <<endgame, time>> /\ passed' = [Passing(t) EXCEPT ![t] = {}]
  BY DEF Fire, Restart, Expire, times
<1>4. /\ passed' \in [Timers -> SUBSET Timers] /\ passed'[t] = {}
      /\ \A u \in Timers \ {t} :
           passed'[u] \subseteq passed[u] \union (IF Due(u) THEN {t} ELSE {})
  BY <1>3, PassingIs
<1>5. CASE Restart(t)
  <2>1. PICK d \in Times, sum \in Nat :
          /\ d = DueTime(timer[t].repeat) /\ sum = time + timer[t].repeat
          /\ d = sum \/ d = Word - 1
          /\ time <= d
    BY <1>1, DueTimeLate
  <2>2. PICK k : k = [timer[t] EXCEPT !.due = d]
    OBVIOUS
  <2>3. k \in TimerType /\ k.due = d /\ k.life = "open"
    BY <1>1, <1>2, <2>2 DEF TimerType
  <2>4. /\ timer' = [timer EXCEPT ![t] = k] /\ order' = Append(RemoveFirst(order, t), t)
        /\ asked' = [asked EXCEPT ![t] = sum]
    BY <1>5, <2>1, <2>2 DEF Restart
  <2>5. (k.due = sum \/ k.due = Word - 1) /\ time <= k.due
    BY <2>1, <2>3
  <2> QED BY <1>2, <1>3, <1>4, <2>3, <2>4, <2>5, PutIn
<1>6. CASE Expire(t)
  <2>1. PICK zero \in Nat : zero = 0
    OBVIOUS
  <2>2. PICK k : k = [timer[t] EXCEPT !.due = 0]
    OBVIOUS
  <2>3. k \in TimerType /\ k.due = zero /\ k.life = "open"
    BY <1>1, <1>2, <2>1, <2>2 DEF TimerType
  <2>4. /\ timer' = [timer EXCEPT ![t] = k] /\ order' = RemoveFirst(order, t)
        /\ asked' = [asked EXCEPT ![t] = zero]
    BY <1>6, <2>1, <2>2 DEF Expire
  <2>5. k.life = "open" /\ endgame' = endgame
    BY <1>3, <2>3
  <2> QED BY <1>2, <1>3, <1>4, <2>1, <2>3, <2>4, <2>5, TakeOut
<1> QED BY <1>5, <1>6 DEF Fire

\* The endgame of the first on the list, whose life ends with its place there.
LEMMA EndgameTree == ASSUME IInv, Endgame PROVE TreeInv'
<1>1. /\ endgame \in Seq(Timers) /\ endgame # <<>> /\ NoRepeat(endgame)
      /\ \A u \in Timers : Contains(endgame, u) <=> timer[u].life = "closing"
  BY DEF IInv, TreeInv, ListsInv, Endgame
<1>2. PICK e \in Seq(Timers), h \in Timers :
        /\ e = Tail(endgame) /\ h = Head(endgame) /\ h = endgame[1]
        /\ Len(endgame) \in Nat /\ Len(e) = Len(endgame) - 1 /\ 1 \in 1..Len(endgame)
        /\ \A i \in 1..Len(e) : e[i] = endgame[i + 1] /\ i + 1 \in 1..Len(endgame)
  BY <1>1, TailSeq
<1>3. NoRepeat(e)
  BY <1>1, <1>2 DEF NoRepeat
<1>4. \A x : Contains(e, x) <=> Contains(endgame, x) /\ x # h
  <2>1. ASSUME NEW x, Contains(e, x) PROVE Contains(endgame, x) /\ x # h
    <3>1. PICK i \in 1..Len(e) : e[i] = x
      BY <2>1 DEF Contains
    <3>2. endgame[i + 1] = x /\ i + 1 \in 1..Len(endgame) /\ i + 1 # 1
      BY <1>2, <3>1
    <3>3. x # h
      BY <1>1, <1>2, <3>2 DEF NoRepeat
    <3> QED BY <3>2, <3>3 DEF Contains
  <2>2. ASSUME NEW x, Contains(endgame, x), x # h PROVE Contains(e, x)
    <3>1. PICK i \in 1..Len(endgame) : endgame[i] = x /\ i # 1
      BY <1>2, <2>2 DEF Contains
    <3>2. i - 1 \in 1..Len(e) /\ (i - 1) + 1 = i
      BY <1>2, <3>1
    <3>3. e[i - 1] = x
      BY <1>2, <3>1, <3>2
    <3> QED BY <3>2, <3>3 DEF Contains
  <2> QED BY <2>1, <2>2
<1>5. timer[h].life = "closing" /\ timer[h] \in TimerType
  <2>1. Contains(endgame, h)
    BY <1>2 DEF Contains
  <2> QED BY <1>1, <2>1 DEF IInv, TreeInv, TimersInv
<1>6. PICK k : k = [timer[h] EXCEPT !.life = "closed"]
  OBVIOUS
<1>7. k \in TimerType /\ k.life = "closed" /\ k.due = timer[h].due
  BY <1>5, <1>6 DEF TimerType
<1>8. /\ timer' = [timer EXCEPT ![h] = k] /\ endgame' = e
      /\ UNCHANGED <<order, asked, passed, time>>
  BY <1>2, <1>6 DEF Endgame, history, times
<1>9. /\ timer' \in [Timers -> TimerType] /\ timer'[h].life = "closed"
      /\ \A u \in Timers : timer'[u].due = timer[u].due
      /\ \A u \in Timers : u # h => timer'[u].life = timer[u].life
  BY <1>7, <1>8 DEF IInv, TreeInv, TimersInv
<1>10. TimersInv' /\ DueInv'
  BY <1>8, <1>9 DEF IInv, TreeInv, TimersInv, DueInv
<1>11. ListsInv'
  <2>1. \A u \in Timers : Contains(order, u) => u # h /\ timer'[u].life = "open"
    BY <1>5, <1>9 DEF IInv, TreeInv, ListsInv
  <2>2. \A u \in Timers : Contains(e, u) <=> timer'[u].life = "closing"
    BY <1>1, <1>4, <1>9
  <2>3. order \in Seq(Timers) /\ NoRepeat(order)
    BY DEF IInv, TreeInv, ListsInv
  <2>4. order' = order /\ endgame' = e
    BY <1>8
  <2> QED BY <1>3, <2>1, <2>2, <2>3, <2>4 DEF ListsInv, NoRepeat, Contains
<1>12. PassedInv'
  BY <1>8, <1>9 DEF IInv, TreeInv, PassedInv, Contains, Precedes
<1> QED BY <1>10, <1>11, <1>12 DEF TreeInv

\* The poll's timeout is no number of milliseconds only if it is INFINITE.
LEMMA TimeoutType == ASSUME IInv PROVE BackendTimeout \in Nat \union {Infinite}
<1>1. NextTimeout \in Nat \union {Infinite}
  <2>1. CASE order = <<>>
    BY <2>1 DEF NextTimeout
  <2>2. CASE order # <<>>
    <3>1. First \in Timers
      BY <2>2, FirstIs DEF IInv, TreeInv, ListsInv
    <3>2. /\ timer[First].due \in Nat /\ time \in Nat /\ Word \in Nat \ {0}
          /\ Word \div 2 \in Int /\ MaxPoll \in Nat
      <4>1. Word \in Nat \ {0} /\ Word \div 2 \in Int
        BY Width
      <4>2. MaxPoll \in Nat
        BY <4>1, TimesAssumption
      <4>3. timer[First] \in TimerType
        BY <3>1 DEF IInv, TreeInv, TimersInv
      <4>4. time \in Nat
        BY Width DEF IInv, LoopInv
      <4> QED BY <4>1, <4>2, <4>3, <4>4 DEF TimerType, Times
    <3>3. PICK rest \in Int : rest = (timer[First].due - time) % Word
      BY <3>2
    <3>4. PICK delta \in Int : delta = IF rest >= Word \div 2 THEN rest - Word ELSE rest
      BY <3>2, <3>3
    <3>5. NextTimeout = IF delta >= MaxPoll THEN MaxPoll ELSE Later(delta, 0)
      BY <2>2, <3>3, <3>4 DEF NextTimeout
    <3>6. Later(delta, 0) \in Nat
      BY <3>4 DEF Later
    <3> QED BY <3>2, <3>5, <3>6
  <2> QED BY <2>1, <2>2
<1> QED BY <1>1 DEF BackendTimeout

\* The rest of uv_run leaves the tree alone, and moves the time to the clock's
\* or to the end of the poll.
LEMMA RestTree ==
  ASSUME IInv,
         \/ EnterRun \/ RunInVain \/ TimersDone \/ ProcessRequest \/ NoRequest \/ BeginPoll
         \/ PollPacket \/ PollTimesOut \/ EndgamesDone \/ GoOn \/ Return
         \/ CallbackReturns \/ Complete \/ Tick \/ TimeIsUp
  PROVE  TreeInv'
<1>1. CASE EnterRun \/ RunInVain \/ GoOn \/ PollPacket
  <2>1. UNCHANGED <<timer, order, endgame, asked, passed>> /\ (UNCHANGED time \/ Update)
    BY <1>1 DEF EnterRun, Enter, RunInVain, GoOn, PollPacket, Iterate, Tree, history, times
  <2> QED BY <2>1, UpdateKeeps
<1>2. CASE PollTimesOut
  <2>1. UNCHANGED <<timer, order, endgame, asked, passed>> /\ time' = time + run.timeout
        /\ run.timeout # Infinite
    BY <1>2 DEF PollTimesOut, Tree, history
  <2>2. run.timeout \in Nat /\ time \in Nat
    BY <2>1, Width DEF IInv, LoopInv, RunType
  <2>3. time' \in Nat /\ time <= time'
    BY <2>1, <2>2
  <2>4. timer' \in [Timers -> TimerType]
    BY <2>1 DEF IInv, TreeInv, TimersInv
  <2> QED BY <2>1, <2>3, <2>4, TreeKept
<1>3. CASE \/ TimersDone \/ ProcessRequest \/ NoRequest \/ BeginPoll \/ EndgamesDone \/ Return
           \/ CallbackReturns \/ Complete \/ Tick \/ TimeIsUp
  <2>1. UNCHANGED <<timer, order, endgame, asked, passed, time>>
    BY <1>3 DEF TimersDone, ProcessRequest, NoRequest, BeginPoll, EndgamesDone, Return,
               CallbackReturns, Complete, Tick, TimeIsUp, Tree, history, times, vars
  <2> QED BY <2>1, UpdateKeeps
<1> QED BY <1>1, <1>2, <1>3

LEMMA RunLoop ==
  ASSUME IInv, Phases \/ EnterRun \/ RunInVain \/ Complete \/ Tick \/ TimeIsUp
  PROVE  LoopInv'
<1>1. /\ request \in {"none", "started", "port", "pending"}
      /\ clock \in 0..Horizon /\ time \in 0..Horizon /\ Horizon \in Nat
      /\ stop \in BOOLEAN /\ at \in Place /\ run \in RunType
  BY Width DEF IInv, LoopInv
<1>2. NoRun \in RunType
  BY DEF NoRun, RunType
<1>3. Update => time' \in 0..Horizon /\ clock' \in 0..Horizon
  BY <1>1 DEF Update, Later
<1>4. UNCHANGED times => time' \in 0..Horizon /\ clock' \in 0..Horizon
  BY <1>1 DEF times
<1>5. CASE EnterRun \/ GoOn
  <2>1. /\ Update /\ at' = "timers" /\ UNCHANGED <<stop, request>>
        /\ run' = run \/ \E mode \in {"default", "once"} : run' = [NoRun EXCEPT !.mode = mode]
    BY <1>5 DEF EnterRun, Enter, GoOn, Iterate
  <2>2. run' \in RunType
    BY <1>1, <1>2, <2>1 DEF RunType
  <2> QED BY <1>1, <1>3, <2>1, <2>2 DEF LoopInv, Place
<1>6. CASE RunInVain \/ Return
  <2>1. /\ Update \/ UNCHANGED times
        /\ at' = "out" /\ stop' = FALSE /\ run' = NoRun /\ UNCHANGED request
    BY <1>6 DEF RunInVain, Return, Leave
  <2> QED BY <1>1, <1>2, <1>3, <1>4, <2>1 DEF LoopInv, Place
<1>7. CASE (\E t \in Timers : Fire(t)) \/ Endgame
  <2>1. /\ UNCHANGED <<request, times, stop>>
        /\ run' = run \/ run' = [run EXCEPT !.awaited = FALSE]
        /\ at' \in {at, "timerCb", "onceCb", "closeCb"}
    BY <1>7 DEF Fire, Endgame, Goto
  <2>2. run' \in RunType
    BY <1>1, <2>1 DEF RunType
  <2> QED BY <1>1, <1>4, <2>1, <2>2 DEF LoopInv, Place, Callback
<1>8. CASE ProcessRequest
  <2>1. /\ UNCHANGED <<times, stop>> /\ request' = "none" /\ at' = "requestCb"
        /\ run' = [run EXCEPT !.ran = TRUE]
    BY <1>8 DEF ProcessRequest, Goto
  <2>2. run' \in RunType
    BY <1>1, <2>1 DEF RunType
  <2> QED BY <1>1, <1>4, <2>1, <2>2 DEF LoopInv, Place, Callback
<1>9. CASE BeginPoll
  <2>1. PICK timeout : timeout = IF run.mode = "once" /\ run.ran THEN 0 ELSE BackendTimeout
    OBVIOUS
  <2>2. timeout \in Nat \union {Infinite}
    BY <2>1, TimeoutType
  <2>3. PICK until : until = IF timeout = Infinite THEN 0 ELSE clock + timeout
    OBVIOUS
  <2>4. until \in Nat
    BY <1>1, <2>2, <2>3
  <2>5. run' = [run EXCEPT !.ran = FALSE, !.timeout = timeout, !.until = until]
    BY <1>9, <2>1, <2>3 DEF BeginPoll
  <2>6. run' \in RunType
    BY <1>1, <2>2, <2>4, <2>5 DEF RunType
  <2>7. UNCHANGED <<request, times, stop>> /\ at' = "poll"
    BY <1>9 DEF BeginPoll, Goto
  <2> QED BY <1>1, <1>4, <2>6, <2>7 DEF LoopInv, Place
<1>10. CASE PollPacket
  <2>1. /\ Update /\ UNCHANGED stop /\ request' = "pending" /\ at' = "endgames"
        /\ run' = [run EXCEPT !.timeout = 0, !.until = 0]
    BY <1>10 DEF PollPacket, Goto
  <2>2. run' \in RunType
    BY <1>1, <2>1 DEF RunType
  <2> QED BY <1>1, <1>3, <2>1, <2>2 DEF LoopInv, Place
<1>11. CASE PollTimesOut
  <2>1. PICK p \in BOOLEAN : p = WaitsForTimer
    BY DEF WaitsForTimer
  <2>2. /\ UNCHANGED <<request, clock, stop>> /\ at' = "endgames"
        /\ time' = time + run.timeout /\ time + run.timeout <= Horizon
        /\ run.timeout # Infinite
    BY <1>11 DEF PollTimesOut, Goto
  <2>3. run' = [run EXCEPT !.timeout = 0, !.until = 0, !.awaited = p]
    BY <1>11, <2>1 DEF PollTimesOut
  <2>4. run.timeout \in Nat
    BY <1>1, <2>2 DEF RunType
  <2>5. time' \in 0..Horizon
    BY <1>1, <2>2, <2>4
  <2>6. run' \in RunType
    BY <1>1, <2>1, <2>3 DEF RunType
  <2> QED BY <1>1, <2>2, <2>5, <2>6 DEF LoopInv, Place
<1>12. CASE TimersDone \/ NoRequest \/ EndgamesDone \/ CallbackReturns
  <2>1. /\ UNCHANGED <<request, times, stop, run>>
        /\ at' \in {"reqs", "end", "wait", "timersOnce", "timers", "endgames"}
    BY <1>12 DEF TimersDone, NoRequest, EndgamesDone, CallbackReturns, Goto
  <2> QED BY <1>1, <1>4, <2>1 DEF LoopInv, Place
<1>13. CASE Complete \/ TimeIsUp
  <2>1. request' \in {request, "port"} /\ UNCHANGED <<times, stop, at, run>>
    BY <1>13 DEF Complete, TimeIsUp, vars
  <2> QED BY <1>1, <1>4, <2>1 DEF LoopInv
<1>14. CASE Tick
  <2>1. clock < Horizon /\ clock' = clock + 1 /\ UNCHANGED <<request, time, stop, at, run>>
    BY <1>14 DEF Tick
  <2> QED BY <1>1, <2>1 DEF LoopInv
<1> QED BY <1>5, <1>6, <1>7, <1>8, <1>9, <1>10, <1>11, <1>12, <1>13, <1>14 DEF Phases

LEMMA NextIInv == ASSUME IInv, [Next]_vars PROVE IInv'
<1>1. CASE User
  BY <1>1, UserTree, UserLoop DEF IInv
<1>2. CASE \E t \in Timers : Fire(t)
  <2>1. LoopInv'
    BY <1>2, RunLoop DEF Phases
  <2> QED BY <1>2, <2>1, FireTree DEF IInv
<1>3. CASE Endgame
  <2>1. LoopInv'
    BY <1>3, RunLoop DEF Phases
  <2> QED BY <1>3, <2>1, EndgameTree DEF IInv
<1>4. CASE \/ EnterRun \/ RunInVain \/ TimersDone \/ ProcessRequest \/ NoRequest \/ BeginPoll
           \/ PollPacket \/ PollTimesOut \/ EndgamesDone \/ GoOn \/ Return
           \/ CallbackReturns \/ Complete \/ Tick \/ TimeIsUp
  <2>1. LoopInv'
    BY <1>4, RunLoop DEF Phases
  <2> QED BY <1>4, <2>1, RestTree DEF IInv
<1>5. CASE UNCHANGED vars
  <2>1. TreeInv'
    BY <1>5, UpdateKeeps DEF vars, history, times
  <2>2. LoopInv'
    BY <1>5 DEF IInv, LoopInv, vars, times
  <2> QED BY <2>1, <2>2 DEF IInv
<1> QED BY <1>1, <1>2, <1>3, <1>4, <1>5 DEF Next, Phases

-----------------------------------------------------------------------------
\* The invariant: what the tree and the endgame list hold, when each timer is
\* due, and that a timer which has been passed is the first in the tree before
\* those that passed it.
THEOREM Invariant == Spec => []IInv
BY InitIInv, NextIInv, PTL DEF Spec

\* The types of the variables; a timer is in the tree once, and only if open,
\* and on the endgame list, once, exactly while it is closing.
THEOREM TypeCorrect == Spec => []TypeOK
<1>1. ASSUME IInv PROVE TypeOK
  <2>1. /\ order \in Seq(Timers) /\ endgame \in Seq(Timers)
        /\ DOMAIN order = 1..Len(order) /\ DOMAIN endgame = 1..Len(endgame)
    BY <1>1 DEF IInv, TreeInv, ListsInv
  <2>2. IsInjective(order) /\ IsInjective(endgame)
    BY <1>1, <2>1 DEF IInv, TreeInv, ListsInv, NoRepeat, IsInjective
  <2>3. ToSet(order) \subseteq {t \in Timers : timer[t].life = "open"}
    BY <1>1, <2>1 DEF IInv, TreeInv, ListsInv, ToSet, Contains
  <2>4. ToSet(endgame) = {t \in Timers : timer[t].life = "closing"}
    BY <1>1, <2>1 DEF IInv, TreeInv, ListsInv, ToSet, Contains
  <2> QED
    BY <1>1, <2>2, <2>3, <2>4
       DEF IInv, TreeInv, LoopInv, TimersInv, TypeOK, TimerType, RunType, Times
<1> QED BY <1>1, Invariant, PTL

\* No timer fires before the time it was started or restarted for, however
\* near the sum comes to the end of the width: Timer::start's promise.
THEOREM FiresOnTime == Spec => NeverEarly
<1>1. ASSUME IInv, NEW t \in Timers, Fire(t) PROVE time >= asked[t]
  <2>1. timer[t].due <= time
    BY <1>1, Fires
  <2>2. time \in 0..Horizon /\ Word \in Nat /\ Horizon \in Nat /\ Horizon < Word - 1
    BY <1>1, Width DEF IInv, LoopInv
  <2>3. timer[t].due = asked[t]
    BY <1>1, <2>1, <2>2 DEF IInv, TreeInv, DueInv
  <2>4. asked[t] \in Nat
    BY <1>1 DEF IInv, TreeInv, TimersInv
  <2> QED BY <2>1, <2>2, <2>3, <2>4
<1>2. IInv => [\A t \in Timers : Fire(t) => time >= asked[t]]_vars
  BY <1>1
<1> QED BY <1>2, Invariant, PTL DEF NeverEarly

\* A timer that is due is passed by each other at most once, whatever the
\* callbacks start, stop and restart in uv_process_timers.
THEOREM FiresInTurn == Spec => NoOvertaking
<1>1. ASSUME IInv, NEW t \in Timers, NEW u \in Timers, t # u, Fire(t), Due(u), t \in passed[u]
      PROVE  FALSE
  <2>1. PICK k \in 1..Len(order) :
          /\ t = order[k]
          /\ \A j \in 1..Len(order) :
               \/ timer[t].due < timer[order[j]].due
               \/ timer[t].due = timer[order[j]].due /\ k <= j
    BY <1>1, Fires
  <2>2. /\ Contains(order, u)
        /\ Contains(order, t) =>
             \/ timer[u].due < timer[t].due
             \/ timer[u].due = timer[t].due /\ Precedes(order, u, t)
    BY <1>1 DEF IInv, TreeInv, PassedInv
  <2>3. Contains(order, t) /\ timer[t].due \in Nat /\ timer[u].due \in Nat /\ Len(order) \in Nat
    <3>1. timer[t] \in TimerType /\ timer[u] \in TimerType
      BY <1>1 DEF IInv, TreeInv, TimersInv
    <3>2. order \in Seq(Timers)
      BY <1>1 DEF IInv, TreeInv, ListsInv
    <3> QED BY <1>1, <3>1, <3>2, Fires, Width DEF TimerType, Times
  <2>4. PICK j \in 1..Len(order) : order[j] = u
    BY <2>2 DEF Contains
  <2>5. timer[u].due = timer[t].due /\ Precedes(order, u, t) /\ k <= j
    BY <2>1, <2>2, <2>3, <2>4
  <2>6. PICK i \in 1..Len(order), m \in 1..Len(order) : i < m /\ order[i] = u /\ order[m] = t
    BY <2>5 DEF Precedes
  <2>7. i = j /\ m = k
    BY <1>1, <2>1, <2>4, <2>6 DEF IInv, TreeInv, ListsInv, NoRepeat
  <2> QED BY <2>3, <2>5, <2>6, <2>7
<1>2. IInv => [\A t, u \in Timers : t # u /\ Fire(t) /\ Due(u) => t \notin passed[u]]_vars
  BY <1>1
<1> QED BY <1>2, Invariant, PTL DEF NoOvertaking

-----------------------------------------------------------------------------
(* What the poll waits for.                                                *)

\* The distance to a time, as uv__next_timeout computes it modulo the width.
LEMMA ModBelow ==
  ASSUME NEW i \in Int, NEW n \in Nat, i < 0, -n <= i PROVE i % n = i + n
<1>0. n \in Nat \ {0}
  OBVIOUS
<1>1. PICK q \in Int, r \in 0..(n - 1) : i = n * q + r /\ r = i % n
  BY <1>0
<1>2. q = -1
  <2>1. \A k \in Int, m \in Nat : k >= 0 => m * k >= 0
    OBVIOUS
  <2>2. \A k \in Int, m \in Nat : k <= -2 => m * k <= -2 * m
    OBVIOUS
  <2>3. q >= 0 => n * q >= 0
    BY <2>1
  <2>4. q <= -2 => n * q <= -2 * n
    BY <2>2
  <2>5. PICK m \in Int : m = n * q
    OBVIOUS
  <2>6. ~ (q >= 0) /\ ~ (q <= -2)
    BY <1>0, <1>1, <2>3, <2>4, <2>5
  <2> QED BY <2>6
<1> QED BY <1>1, <1>2

\* uv__next_timeout: nothing for a timer that is overdue, or counts as such;
\* the time that is left for one within half the range, or the longest poll.
LEMMA NextTimeoutIs ==
  ASSUME IInv, order # <<>>
  PROVE  /\ First \in Timers /\ Active(First)
         /\ \E gap \in Int :
              /\ gap = timer[First].due - time
              /\ gap <= 0 \/ gap >= Word \div 2 => NextTimeout = 0
              /\ 0 < gap /\ gap < Word \div 2 =>
                   NextTimeout = IF gap >= MaxPoll THEN MaxPoll ELSE gap
<1>1. PICK k \in 1..Len(order) : First = order[k] /\ First \in Timers
  BY FirstIs DEF IInv, TreeInv, ListsInv
<1>2. Active(First)
  <2>1. DOMAIN order = 1..Len(order)
    BY DEF IInv, TreeInv, ListsInv
  <2> QED BY <1>1, <2>1 DEF Active, ToSet
<1>3. PICK half \in Int : half = Word \div 2
  BY Half
<1>4. /\ Word \in Nat /\ Horizon \in Nat /\ Horizon < half /\ 2 * half <= Word
      /\ MaxPoll \in Nat /\ 1 <= MaxPoll /\ MaxPoll < half
  <2>1. Word \in Nat /\ Horizon \in Nat /\ Horizon < half /\ MaxPoll \in 1..(half - 1)
    BY <1>3, TimesAssumption
  <2> QED BY <1>3, <2>1, Half
<1>5. /\ timer[First].due \in Nat /\ timer[First].due < Word /\ time \in Nat /\ time <= Horizon
  <2>1. timer[First] \in TimerType /\ time \in 0..Horizon
    BY <1>1 DEF IInv, TreeInv, TimersInv, LoopInv
  <2> QED BY <1>4, <2>1 DEF TimerType, Times
<1>6. PICK gap \in Int : gap = timer[First].due - time
  BY <1>5
<1>7. -half < gap /\ gap < Word
  BY <1>4, <1>5, <1>6
<1>8. PICK rest : rest = gap % Word
  OBVIOUS
<1>9. rest = IF gap >= 0 THEN gap ELSE gap + Word
  <2>1. CASE gap >= 0
    BY <1>4, <1>7, <1>8, <2>1, ModSmall
  <2>2. CASE gap < 0
    <3>1. -Word <= gap
      BY <1>4, <1>7
    <3> QED BY <1>4, <1>8, <2>2, <3>1, ModBelow
  <2> QED BY <2>1, <2>2
<1>10. PICK delta : delta = IF rest >= Word \div 2 THEN rest - Word ELSE rest
  OBVIOUS
<1>11. delta = IF gap >= half THEN gap - Word ELSE gap
  BY <1>3, <1>4, <1>7, <1>9, <1>10
<1>12. NextTimeout = IF delta >= MaxPoll THEN MaxPoll ELSE Later(delta, 0)
  BY <1>6, <1>8, <1>10 DEF NextTimeout
<1>13. gap <= 0 \/ gap >= half => NextTimeout = 0
  BY <1>4, <1>7, <1>11, <1>12 DEF Later
<1>14. 0 < gap /\ gap < half => NextTimeout = IF gap >= MaxPoll THEN MaxPoll ELSE gap
  BY <1>4, <1>7, <1>11, <1>12 DEF Later
<1> QED BY <1>1, <1>2, <1>3, <1>6, <1>13, <1>14

\* No timer in the tree is due before the first.
LEMMA FirstIsLeast ==
  ASSUME IInv, NEW t \in Timers, Active(t)
  PROVE  order # <<>> /\ First \in Timers /\ timer[First].due <= timer[t].due
<1>1. order \in Seq(Timers) /\ DOMAIN order = 1..Len(order) /\ Len(order) \in Nat
  BY DEF IInv, TreeInv, ListsInv
<1>2. PICK j \in 1..Len(order) : order[j] = t
  BY <1>1 DEF Active, ToSet
<1>3. order # <<>>
  BY <1>1, <1>2
<1>4. PICK k \in 1..Len(order) :
        /\ First = order[k] /\ First \in Timers
        /\ \A i \in 1..Len(order) :
             \/ timer[order[k]].due < timer[order[i]].due
             \/ timer[order[k]].due = timer[order[i]].due /\ k <= i
  BY <1>1, <1>3, FirstIs DEF IInv, TreeInv
<1>5. timer[First].due \in Nat /\ timer[t].due \in Nat
  BY <1>4, Width DEF IInv, TreeInv, TimersInv, TimerType, Times
<1>6. timer[First].due < timer[t].due \/ timer[First].due = timer[t].due
  BY <1>2, <1>4
<1> QED BY <1>3, <1>4, <1>5, <1>6

-----------------------------------------------------------------------------
(* What the poll waits for, and what UV_RUN_ONCE returns with.              *)

\* A poll does not wait while the loop is stopped, a handle is closing or a
\* request is pending, and never past the time that a timer is due: the timers
\* of the wrapper are served when they are due, and Loop::stop is heard.
PollInTime ==
  at = "poll" =>
    /\ stop \/ endgame # <<>> \/ request = "pending" => run.timeout = 0
    /\ \A t \in Timers : Active(t) =>
         /\ run.timeout # Infinite
         /\ run.timeout = 0 \/ time + run.timeout <= timer[t].due

\* The loop comes to the poll by BeginPoll, and only the kernel and the clock
\* do anything while it is there.
LEMMA ToPoll ==
  ASSUME [Next]_vars, at' = "poll"
  PROVE  \/ BeginPoll
         \/ /\ at = "poll" /\ UNCHANGED <<timer, order, time, endgame, stop, run>>
            /\ request' = "pending" => request = "pending"
<1>1. CASE User
  <2>1. UserTurn /\ at' = at
    BY <1>1 DEF User, Start, SetRepeat, Stop, Again, Close, Submit, StopLoop,
                UpdateTime, Mine, Elsewhere
  <2> QED BY <2>1 DEF UserTurn, Callback
<1>2. CASE EnterRun \/ RunInVain \/ GoOn \/ Return
  BY <1>2 DEF EnterRun, Enter, RunInVain, GoOn, Return, Iterate, Leave
<1>3. CASE \E t \in Timers : Fire(t)
  BY <1>3 DEF Fire
<1>4. CASE \/ TimersDone \/ ProcessRequest \/ NoRequest \/ PollPacket \/ PollTimesOut
           \/ Endgame \/ EndgamesDone \/ CallbackReturns
  BY <1>4 DEF TimersDone, ProcessRequest, NoRequest, PollPacket, PollTimesOut, Endgame,
              EndgamesDone, CallbackReturns, Goto
<1>5. CASE Complete \/ Tick \/ TimeIsUp \/ UNCHANGED vars
  BY <1>5 DEF Complete, Tick, TimeIsUp, vars, times, Tree
<1> QED BY <1>1, <1>2, <1>3, <1>4, <1>5 DEF Next, Phases

LEMMA PollStep == ASSUME IInv, PollInTime, [Next]_vars PROVE PollInTime'
<1> SUFFICES ASSUME at' = "poll" PROVE PollInTime'
  BY DEF PollInTime
<1>1. CASE BeginPoll
  <2>1. UNCHANGED <<timer, order, endgame, request, time, stop>>
    BY <1>1 DEF BeginPoll, Tree, times
  <2>2. PICK timeout :
          /\ timeout = IF run.mode = "once" /\ run.ran THEN 0 ELSE BackendTimeout
          /\ run' = [run EXCEPT !.ran = FALSE, !.timeout = timeout,
                                !.until = IF timeout = Infinite THEN 0 ELSE clock + timeout]
    BY <1>1 DEF BeginPoll
  <2>3. run'.timeout = timeout
    BY <2>2 DEF IInv, LoopInv, RunType
  <2>4. stop \/ endgame # <<>> \/ request = "pending" => timeout = 0
    BY <2>2 DEF BackendTimeout
  <2>5. ASSUME NEW t \in Timers, Active(t)
        PROVE  timeout # Infinite /\ (timeout = 0 \/ time + timeout <= timer[t].due)
    <3>1. order # <<>> /\ First \in Timers /\ timer[First].due <= timer[t].due
      BY <2>5, FirstIsLeast
    <3>2. PICK gap \in Int :
            /\ gap = timer[First].due - time
            /\ gap <= 0 \/ gap >= Word \div 2 => NextTimeout = 0
            /\ 0 < gap /\ gap < Word \div 2 =>
                 NextTimeout = IF gap >= MaxPoll THEN MaxPoll ELSE gap
      BY <3>1, NextTimeoutIs
    <3>3. /\ timer[First].due \in Nat /\ timer[t].due \in Nat /\ time \in Nat
          /\ MaxPoll \in Nat /\ Word \div 2 \in Int
      <4>1. timer[First] \in TimerType /\ timer[t] \in TimerType /\ time \in 0..Horizon
        BY <3>1 DEF IInv, LoopInv, TreeInv, TimersInv
      <4>2. Word \div 2 \in Int /\ MaxPoll \in 1..(Word \div 2 - 1)
        BY Half, TimesAssumption
      <4> QED BY <4>1, <4>2, Width DEF TimerType, Times
    <3>4. timeout = 0 \/ timeout = NextTimeout
      BY <2>2 DEF BackendTimeout
    <3>5. NextTimeout = 0 \/ (NextTimeout \in Nat /\ NextTimeout <= gap)
      BY <3>2, <3>3
    <3> QED BY <3>1, <3>2, <3>3, <3>4, <3>5 DEF Infinite
  <2>6. \A t \in Timers : Active(t)' <=> Active(t)
    BY <2>1 DEF Active
  <2> QED BY <2>1, <2>3, <2>4, <2>5, <2>6 DEF PollInTime
<1>2. CASE /\ at = "poll" /\ UNCHANGED <<timer, order, time, endgame, stop, run>>
           /\ request' = "pending" => request = "pending"
  <2>1. \A t \in Timers : Active(t)' <=> Active(t)
    BY <1>2 DEF Active
  <2> QED BY <1>2, <2>1 DEF PollInTime
<1> QED BY <1>1, <1>2, ToPoll

\* In every behaviour the poll is in time.
THEOREM PollsInTime == Spec => []PollInTime
<1>1. Init => PollInTime
  BY DEF Init, PollInTime
<1>2. IInv /\ PollInTime /\ [Next]_vars => PollInTime'
  BY PollStep
<1> QED BY <1>1, <1>2, Invariant, PTL DEF Spec

\* What a poll has waited for is due, and the loop thread has not gone past
\* the place where timers fire.
AwaitedInv ==
  /\ at = "poll" /\ run.timeout > 0 =>
       ~ stop /\ endgame = <<>> /\ run.timeout = NextTimeout
  /\ run.awaited =>
       /\ at \in {"endgames", "timersOnce", "end", "timers"}
       /\ at = "endgames" => endgame = <<>>
       /\ at = "end" => run.mode # "once"
       /\ ~ stop /\ order # <<>> /\ Due(First)

\* A step that calls nothing back leaves the tree alone.
LEMMA TreeStays ==
  ASSUME UNCHANGED <<timer, order>>
  PROVE  First' = First /\ \A t : Active(t)' <=> Active(t)
BY DEF First, Active

LEMMA DueStays ==
  ASSUME UNCHANGED <<timer, order>>, time \in Nat, time' \in Nat, time' >= time,
         Due(First), timer[First].due \in Nat
  PROVE  Due(First)'
<1>1. First' = First /\ (Active(First)' <=> Active(First))
  BY TreeStays
<1> QED BY <1>1 DEF Due, Active

\* When a poll that waits for the first timer is over, that timer is due.
LEMMA PollWaits ==
  ASSUME IInv, PollTimesOut, run.timeout = NextTimeout, WaitsForTimer
  PROVE  order # <<>> /\ Due(First)'
<1>1. order # <<>>
  BY DEF PollTimesOut, NextTimeout
<1>2. PICK gap \in Int :
        /\ gap = timer[First].due - time
        /\ gap <= 0 \/ gap >= Word \div 2 => NextTimeout = 0
        /\ 0 < gap /\ gap < Word \div 2 =>
             NextTimeout = IF gap >= MaxPoll THEN MaxPoll ELSE gap
  BY <1>1, NextTimeoutIs
<1>3. First \in Timers /\ Active(First)
  BY <1>1, NextTimeoutIs
<1>4. UNCHANGED <<timer, order>> /\ time' = time + run.timeout
  BY DEF PollTimesOut, Tree
<1>5. First' = First /\ Active(First)'
  BY <1>3, <1>4, TreeStays
<1>6. timer[First].due \in Nat /\ time \in Nat /\ MaxPoll \in Nat
  <2>1. timer[First] \in TimerType /\ time \in 0..Horizon
    BY <1>3 DEF IInv, LoopInv, TreeInv, TimersInv
  <2> QED BY <2>1, Width, Half, TimesAssumption DEF TimerType, Times
<1>7. run.timeout > 0
  BY DEF WaitsForTimer
<1>8. 0 < gap /\ gap < Word \div 2
  BY <1>2, <1>7, Half
<1>9. gap <= run.timeout
  BY <1>2, <1>6, <1>8 DEF WaitsForTimer
<1>10. run.timeout \in Nat
  BY <1>2, <1>6, <1>8
<1>11. timer[First].due <= time'
  <2>1. time' = time + run.timeout
    BY <1>4
  <2> QED BY <1>2, <1>6, <1>9, <1>10, <2>1
<1> QED BY <1>1, <1>4, <1>5, <1>11 DEF Due

LEMMA AwaitedStep == ASSUME IInv, AwaitedInv, [Next]_vars PROVE AwaitedInv'
<1>0. /\ run \in RunType /\ stop \in BOOLEAN /\ time \in Nat
      /\ order # <<>> => timer[First].due \in Nat
  <2>1. time \in Nat /\ run \in RunType /\ stop \in BOOLEAN
    BY TimesAssumption DEF IInv, LoopInv
  <2>2. order # <<>> => First \in Timers
    BY NextTimeoutIs
  <2> QED BY <2>1, <2>2, Width DEF IInv, TreeInv, TimersInv, TimerType, Times
<1>1. CASE User
  <2>1. UserTurn /\ UNCHANGED <<at, run>>
    BY <1>1 DEF User, Start, SetRepeat, Stop, Again, Close, Submit, StopLoop,
                UpdateTime, Mine, Elsewhere
  <2> QED BY <2>1 DEF UserTurn, Callback, AwaitedInv
<1>2. CASE EnterRun \/ RunInVain \/ Return
  <2>1. ~ run'.awaited /\ at' # "poll"
    BY <1>2 DEF EnterRun, Enter, Iterate, RunInVain, Return, Leave, NoRun
  <2> QED BY <2>1 DEF AwaitedInv
<1>3. CASE GoOn
  <2>1. /\ UNCHANGED <<timer, order, run, stop>> /\ at' = "timers"
        /\ time' = Later(time, clock) /\ ~ stop
    BY <1>3 DEF GoOn, Iterate, Update, Tree
  <2>2. time' \in Nat /\ time' >= time
    BY <1>0, <2>1, TimesAssumption DEF Later, IInv, LoopInv
  <2>3. run.awaited => order # <<>> /\ Due(First)'
    BY <1>0, <2>1, <2>2, DueStays DEF AwaitedInv
  <2> QED BY <2>1, <2>3 DEF AwaitedInv
<1>4. CASE \E t \in Timers : Fire(t)
  <2>1. run' = [run EXCEPT !.awaited = FALSE] /\ at' # "poll"
    BY <1>4 DEF Fire
  <2>2. ~ run'.awaited
    BY <1>0, <2>1 DEF RunType
  <2> QED BY <2>1, <2>2 DEF AwaitedInv
<1>5. CASE Endgame
  <2>1. at = "endgames" /\ endgame # <<>> /\ at' # "poll" /\ UNCHANGED run
    BY <1>5 DEF Endgame, Goto
  <2> QED BY <2>1 DEF AwaitedInv
<1>6. CASE ProcessRequest
  <2>1. /\ at = "reqs" /\ at' # "poll"
        /\ run' = [run EXCEPT !.ran = TRUE]
    BY <1>6 DEF ProcessRequest, Goto
  <2>2. run'.awaited = run.awaited
    BY <1>0, <2>1 DEF RunType
  <2> QED BY <2>1, <2>2 DEF AwaitedInv
<1>7. CASE TimersDone \/ NoRequest \/ EndgamesDone \/ CallbackReturns
  <2>1. UNCHANGED <<timer, order, endgame, time, stop, run>> /\ at' # "poll"
    BY <1>7 DEF TimersDone, NoRequest, EndgamesDone, CallbackReturns, Tree, times, Goto
  <2>2. Due(First)' <=> Due(First)
    BY <2>1, TreeStays DEF Due
  <2>3. CASE TimersDone
    <3>1. order = <<>> \/ ~ Due(First)
      BY <2>3, NextTimeoutIs DEF TimersDone
    <3> QED BY <2>1, <3>1 DEF AwaitedInv
  <2>4. CASE NoRequest \/ CallbackReturns
    <3>1. at \notin {"endgames", "timersOnce", "end", "timers"}
      BY <2>4 DEF NoRequest, CallbackReturns, Goto
    <3> QED BY <2>1, <3>1 DEF AwaitedInv
  <2>5. CASE EndgamesDone
    BY <2>1, <2>2, <2>5 DEF AwaitedInv, EndgamesDone, Goto
  <2> QED BY <1>7, <2>3, <2>4, <2>5
<1>8. CASE BeginPoll
  <2>1. /\ UNCHANGED <<timer, order, endgame, request, time, stop>>
        /\ at = "wait" /\ at' = "poll"
    BY <1>8 DEF BeginPoll, Goto, Tree, times
  <2>2. PICK timeout :
          /\ timeout = IF run.mode = "once" /\ run.ran THEN 0 ELSE BackendTimeout
          /\ run' = [run EXCEPT !.ran = FALSE, !.timeout = timeout,
                                !.until = IF timeout = Infinite THEN 0 ELSE clock + timeout]
    BY <1>8 DEF BeginPoll
  <2>3. run'.timeout = timeout /\ run'.awaited = run.awaited
    BY <1>0, <2>2 DEF RunType
  <2>4. timeout > 0 => ~ stop /\ endgame = <<>> /\ timeout = NextTimeout
    BY <2>2 DEF BackendTimeout
  <2>5. NextTimeout' = NextTimeout
    BY <2>1, TreeStays DEF NextTimeout
  <2> QED BY <2>1, <2>3, <2>4, <2>5 DEF AwaitedInv
<1>9. CASE PollPacket
  <2>1. /\ at = "poll" /\ at' # "poll"
        /\ run' = [run EXCEPT !.timeout = 0, !.until = 0]
    BY <1>9 DEF PollPacket, Goto
  <2>2. run'.awaited = run.awaited
    BY <1>0, <2>1 DEF RunType
  <2> QED BY <2>1, <2>2 DEF AwaitedInv
<1>10. CASE PollTimesOut
  <2>1. /\ UNCHANGED <<timer, order, endgame, request, stop>>
        /\ at' = "endgames" /\ at = "poll"
        /\ run' = [run EXCEPT !.timeout = 0, !.until = 0, !.awaited = WaitsForTimer]
    BY <1>10 DEF PollTimesOut, Goto, Tree
  <2>2. run'.awaited = WaitsForTimer
    BY <1>0, <2>1 DEF RunType
  <2>3. CASE ~ WaitsForTimer
    BY <2>1, <2>2, <2>3 DEF AwaitedInv
  <2>4. CASE WaitsForTimer
    <3>1. ~ stop /\ endgame = <<>> /\ run.timeout = NextTimeout
      BY <2>1, <2>4 DEF AwaitedInv, WaitsForTimer
    <3>2. order # <<>> /\ Due(First)'
      BY <1>10, <2>4, <3>1, PollWaits
    <3> QED BY <2>1, <3>1, <3>2 DEF AwaitedInv
  <2> QED BY <2>3, <2>4
<1>11. CASE Complete \/ Tick \/ TimeIsUp \/ UNCHANGED vars
  <2>1. UNCHANGED <<timer, order, endgame, time, stop, at, run>>
    BY <1>11 DEF Complete, Tick, TimeIsUp, vars, times, Tree
  <2>2. (Due(First)' <=> Due(First)) /\ NextTimeout' = NextTimeout
    BY <2>1, TreeStays DEF Due, NextTimeout
  <2> QED BY <2>1, <2>2 DEF AwaitedInv
<1> QED
  BY <1>1, <1>2, <1>3, <1>4, <1>5, <1>6, <1>7, <1>8, <1>9, <1>10, <1>11 DEF Next, Phases

\* uv_run never returns between the wait for a timer and the timer, whatever
\* the widths, the mode it was called in and what the callbacks do.
THEOREM AwaitedTimerFires == Spec => AwaitedFires
<1>1. Init => AwaitedInv
  BY DEF Init, AwaitedInv, NoRun
<1>2. IInv /\ AwaitedInv /\ [Next]_vars => AwaitedInv'
  BY AwaitedStep
<1>3. AwaitedInv => [Return => ~ run.awaited]_vars
  BY DEF AwaitedInv, Return, Alive
<1> QED BY <1>1, <1>2, <1>3, Invariant, PTL DEF Spec, AwaitedFires
=============================================================================
