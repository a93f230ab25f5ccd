-------------------------- MODULE TimerWheelProofs --------------------------
(***************************************************************************)
(* Proofs about the timer wheel: when its timers fire, for a wheel of any  *)
(* size.                                                                   *)
(***************************************************************************)
EXTENDS TimerWheel, SequenceTheorems, TLAPS

-----------------------------------------------------------------------------
(* Division *)

LEMMA ProductsGrow ==
    ASSUME NEW a \in Nat, NEW b \in Nat, a <= b, NEW m \in Nat
    PROVE  a * m <= b * m /\ a * m \in Nat /\ b * m \in Nat
<1>1. a * m \in Nat /\ b * m \in Nat
  OBVIOUS
<1>2. PICK c \in Nat : b = a + c
  <2>1. b - a \in Nat /\ b = a + (b - a)
    OBVIOUS
  <2> QED BY <2>1
<1>3. (a + c) * m = a * m + c * m /\ c * m \in Nat
  OBVIOUS
<1> QED BY <1>1, <1>2, <1>3

\* q is the quotient and r the remainder of x by m.
Divides(x, m, q, r) == q \in Nat /\ r \in 0 .. m - 1 /\ x = q * m + r

LEMMA DivMod ==
    ASSUME NEW x \in Nat, NEW m \in Nat \ {0}
    PROVE  /\ x \div m \in Nat /\ x % m \in 0 .. m - 1
           /\ Divides(x, m, x \div m, x % m)
<1>1. x \div m \in Nat /\ x % m \in 0 .. m - 1
  OBVIOUS
<1>2. PICK q \in Int, r \in Int : q = x \div m /\ r = x % m /\ x = q * m + r
  BY Z3
<1>3. Divides(x, m, q, r)
  BY <1>1, <1>2 DEF Divides
<1> QED BY <1>1, <1>2, <1>3, Zenon

LEMMA DivParts ==
    ASSUME NEW x \in Nat, NEW m \in Nat \ {0}
    PROVE  \E q \in Nat, r \in 0 .. m - 1 : q = x \div m /\ r = x % m /\ x = q * m + r
<1>1. PICK q \in Int, r \in Int : q = x \div m /\ r = x % m /\ x = q * m + r
  BY Z3
<1>2. q \in Nat /\ r \in 0 .. m - 1
  BY <1>1, DivMod
<1> QED BY <1>1, <1>2, Zenon

\* There is only one quotient and remainder.
LEMMA DivUnique ==
    ASSUME NEW m \in Nat \ {0}, NEW x, NEW q, NEW r, Divides(x, m, q, r)
    PROVE  x \in Nat /\ x \div m = q /\ x % m = r
<1> USE DEF Divides
<1>1. x \in Nat
  BY ProductsGrow
<1>2. PICK d \in Nat, s \in 0 .. m - 1 : d = x \div m /\ s = x % m /\ x = d * m + s
  BY <1>1, DivParts
<1>3. ~(d + 1 <= q)
  <2>1. d + 1 <= q => (d + 1) * m <= q * m
    BY ProductsGrow
  <2>2. (d + 1) * m = d * m + m /\ d * m \in Nat /\ q * m \in Nat
    BY ProductsGrow
  <2> QED BY <1>2, <2>1, <2>2
<1>4. ~(q + 1 <= d)
  <2>1. q + 1 <= d => (q + 1) * m <= d * m
    BY ProductsGrow
  <2>2. (q + 1) * m = q * m + m /\ d * m \in Nat /\ q * m \in Nat
    BY ProductsGrow
  <2> QED BY <1>2, <2>1, <2>2
<1>5. d = q
  BY <1>3, <1>4
<1>6. q * m \in Nat
  BY ProductsGrow
<1> QED BY <1>1, <1>2, <1>5, <1>6

\* The quotient and remainder of the next number
LEMMA DivNext ==
    ASSUME NEW q \in Nat, NEW m \in Nat \ {0}
    PROVE  /\ (q + 1) % m = ((q % m) + 1) % m
           /\ (q + 1) \div m = IF (q + 1) % m = 0 THEN q \div m + 1 ELSE q \div m
<1>1. PICK d \in Nat, s \in 0 .. m - 1 : d = q \div m /\ s = q % m /\ q = d * m + s
  BY DivParts
<1>2. d * m \in Nat /\ (d + 1) * m = d * m + m
  BY ProductsGrow
<1>3. CASE s + 1 < m
  <2>1. s + 1 \in 0 .. m - 1 /\ s + 1 # 0
    BY <1>3
  <2>2. Divides(q + 1, m, d, s + 1) /\ Divides(s + 1, m, 0, s + 1)
    BY <1>1, <1>2, <2>1 DEF Divides
  <2>3. (q + 1) \div m = d /\ (q + 1) % m = s + 1 /\ (s + 1) % m = s + 1
    BY <2>2, DivUnique
  <2> QED BY <1>1, <2>1, <2>3
<1>4. CASE s + 1 = m
  <2>1. Divides(q + 1, m, d + 1, 0) /\ Divides(s + 1, m, 1, 0)
    BY <1>1, <1>2, <1>4 DEF Divides
  <2>2. (q + 1) \div m = d + 1 /\ (q + 1) % m = 0 /\ (s + 1) % m = 0
    BY <2>1, DivUnique
  <2> QED BY <1>1, <2>2
<1> QED BY <1>1, <1>3, <1>4

\* Dividing by a product
LEMMA DivDiv ==
    ASSUME NEW x \in Nat, NEW a \in Nat \ {0}, NEW b \in Nat \ {0}
    PROVE  a * b \in Nat \ {0} /\ x \div (a * b) = (x \div a) \div b
<1>1. PICK q \in Nat, r \in 0 .. a - 1 : q = x \div a /\ x = q * a + r
  BY DivParts
<1>2. PICK p \in Nat, s \in 0 .. b - 1 : p = q \div b /\ q = p * b + s
  BY DivParts
<1>3. a * b \in Nat \ {0}
  <2>1. 1 * b <= a * b /\ a * b \in Nat
    BY ProductsGrow
  <2> QED BY <2>1
<1>4. s * a + r \in 0 .. a * b - 1
  <2>1. (s + 1) * a <= b * a /\ s * a \in Nat
    BY ProductsGrow
  <2>2. (s + 1) * a = s * a + a /\ b * a = a * b
    OBVIOUS
  <2>3. b * a \in Nat
    BY ProductsGrow
  <2> QED BY <1>3, <2>1, <2>2, <2>3
<1>5. x = p * (a * b) + (s * a + r)
  <2>1. q * a = p * (a * b) + s * a
    <3>1. (p * b + s) * a = (p * b) * a + s * a
      OBVIOUS
    <3>2. (p * b) * a = p * (a * b)
      OBVIOUS
    <3> QED BY <1>2, <3>1, <3>2
  <2> QED BY <1>1, <2>1
<1>6. x \div (a * b) = p
  BY <1>3, <1>4, <1>5, DivUnique DEF Divides
<1> QED BY <1>1, <1>2, <1>3, <1>6

\* Quotients keep the order.
LEMMA DivOrder ==
    ASSUME NEW x \in Nat, NEW y \in Nat, x <= y, NEW m \in Nat \ {0}
    PROVE  x \div m <= y \div m
<1>1. PICK d \in Nat, s \in 0 .. m - 1 : d = x \div m /\ x = d * m + s
  BY DivParts
<1>2. PICK e \in Nat, r \in 0 .. m - 1 : e = y \div m /\ y = e * m + r
  BY DivParts
<1>3. ~(e + 1 <= d)
  <2>1. e + 1 <= d => (e + 1) * m <= d * m
    BY ProductsGrow
  <2>2. (e + 1) * m = e * m + m /\ d * m \in Nat /\ e * m \in Nat
    BY ProductsGrow
  <2> QED BY <1>1, <1>2, <2>1, <2>2
<1> QED BY <1>1, <1>2, <1>3

-----------------------------------------------------------------------------
(* Units and fields *)

LEMMA SizesAre == \A k \in 1 .. 4 : Sizes[k] \in Nat /\ Sizes[k] > 1
<1>1. Sizes \in Seq(Nat \ {0, 1}) /\ Len(Sizes) = 4
  BY WheelAssumption
<1>2. \A k \in 1 .. 4 : Sizes[k] \in Nat \ {0, 1}
  BY <1>1, ElementOfSeq, Zenon
<1> QED BY <1>2

LEMMA SpanIs == \A k \in Levels : Span(k) \in Nat \ {0} /\ (k # 5 => Span(k) = Sizes[k])
  BY SizesAre, WheelAssumption DEF Span, Levels

LEMMA UnitsGrow ==
    /\ Unit[1] = 1 /\ Unit[2] = Sizes[1]
    /\ \A k \in 2 .. 4 : Unit[k + 1] = Unit[k] * Sizes[k]
<1>1. Unit[1] = 1 /\ Unit[2] = Sizes[1] /\ Unit[3] = Sizes[1] * Sizes[2]
      /\ Unit[4] = Sizes[1] * Sizes[2] * Sizes[3] /\ Unit[5] = Sizes[1] * Sizes[2] * Sizes[3] * Sizes[4]
  BY DEF Unit, Levels
<1> QED BY <1>1

LEMMA Positive == ASSUME NEW a \in Nat \ {0}, NEW b \in Nat \ {0} PROVE a * b \in Nat \ {0}
<1>1. 1 * b <= a * b /\ a * b \in Nat
  BY ProductsGrow
<1> QED BY <1>1

LEMMA UnitIs ==
    /\ \A k \in Levels : Unit[k] \in Nat \ {0}
    /\ Unit[1] = 1
    /\ \A k \in 1 .. 4 : Unit[k + 1] = Unit[k] * Sizes[k]
<1>1. Unit[1] = 1 /\ Unit[2] = Unit[1] * Sizes[1]
  BY UnitsGrow, SizesAre
<1>2. Unit[3] = Unit[2] * Sizes[2] /\ Unit[4] = Unit[3] * Sizes[3] /\ Unit[5] = Unit[4] * Sizes[4]
  <2>1. \A k \in 2 .. 4 : Unit[k + 1] = Unit[k] * Sizes[k]
    BY UnitsGrow
  <2>2. Unit[2 + 1] = Unit[2] * Sizes[2] /\ Unit[3 + 1] = Unit[3] * Sizes[3] /\ Unit[4 + 1] = Unit[4] * Sizes[4]
    BY <2>1
  <2> QED BY <2>2
<1>3. Sizes[1] \in Nat \ {0} /\ Sizes[2] \in Nat \ {0} /\ Sizes[3] \in Nat \ {0} /\ Sizes[4] \in Nat \ {0}
  BY SizesAre
<1>4. Unit[1] \in Nat \ {0} /\ Unit[2] \in Nat \ {0}
  BY <1>3, UnitsGrow
<1>5. Unit[3] \in Nat \ {0}
  BY <1>2, <1>3, <1>4, Positive, Zenon
<1>6. Unit[4] \in Nat \ {0}
  BY <1>2, <1>3, <1>5, Positive, Zenon
<1>7. Unit[5] \in Nat \ {0}
  BY <1>2, <1>3, <1>6, Positive, Zenon
<1>8. \A k \in 1 .. 4 : Unit[k + 1] = Unit[k] * Sizes[k]
  <2>1. \A k \in 1 .. 4 : k = 1 \/ k = 2 \/ k = 3 \/ k = 4
    OBVIOUS
  <2> QED BY <1>1, <1>2, <2>1
<1>9. \A k \in Levels : k = 1 \/ k = 2 \/ k = 3 \/ k = 4 \/ k = 5
  BY DEF Levels
<1> QED BY <1>1, <1>4, <1>5, <1>6, <1>7, <1>8, <1>9

Quot(x, k) == x \div Unit[k]

LEMMA QuotIs ==
    ASSUME NEW x \in Nat, NEW k \in Levels
    PROVE  /\ Quot(x, k) \in Nat /\ Field(x, k) = Quot(x, k) % Span(k)
           /\ Field(x, k) \in Nat /\ Field(x, k) < Span(k)
<1>1. Unit[k] \in Nat \ {0}
  BY UnitIs
<1>2. Quot(x, k) \in Nat /\ Field(x, k) = Quot(x, k) % Span(k)
  BY <1>1, DivMod, Zenon DEF Quot, Field
<1>3. Quot(x, k) % Span(k) \in 0 .. Span(k) - 1
  BY <1>2, SpanIs, DivMod
<1> QED BY <1>2, <1>3, SpanIs

LEMMA QuotNext ==
    ASSUME NEW x \in Nat
    PROVE  /\ Quot(x, 1) = x
           /\ \A k \in 1 .. 4 : /\ Quot(x, k + 1) = Quot(x, k) \div Sizes[k]
                                /\ Quot(x, k) = Quot(x, k + 1) * Sizes[k] + Field(x, k)
<1>1. Quot(x, 1) = x
  <2>1. Divides(x, 1, x, 0)
    BY DEF Divides
  <2> QED BY <2>1, DivUnique, UnitIs DEF Quot
<1>2. ASSUME NEW k \in 1 .. 4
      PROVE  /\ Quot(x, k + 1) = Quot(x, k) \div Sizes[k]
             /\ Quot(x, k) = Quot(x, k + 1) * Sizes[k] + Field(x, k)
  <2>1. k \in Levels /\ k # 5 /\ Sizes[k] \in Nat \ {0}
    BY SizesAre DEF Levels
  <2>2. Quot(x, k) \in Nat /\ Field(x, k) = Quot(x, k) % Sizes[k]
    BY <2>1, QuotIs, SpanIs
  <2>3. Unit[k] \in Nat \ {0} /\ Unit[k + 1] = Unit[k] * Sizes[k]
    BY <2>1, UnitIs
  <2>4. Quot(x, k + 1) = Quot(x, k) \div Sizes[k]
    <3>1. x \div (Unit[k] * Sizes[k]) = (x \div Unit[k]) \div Sizes[k]
      BY <2>1, <2>3, DivDiv
    <3> QED BY <2>3, <3>1, Zenon DEF Quot
  <2>5. PICK q \in Nat, r \in 0 .. Sizes[k] - 1 :
          q = Quot(x, k) \div Sizes[k] /\ r = Quot(x, k) % Sizes[k] /\ Quot(x, k) = q * Sizes[k] + r
    BY <2>1, <2>2, DivParts
  <2> QED BY <2>2, <2>4, <2>5, Zenon
<1> QED BY <1>1, <1>2

-----------------------------------------------------------------------------
(* Placing a timer *)

LEMMA HighestIs ==
    ASSUME NEW Ks \in SUBSET Levels
    PROVE  \E k \in Levels : k = Max(Ks \cup {1}) /\ k \in Ks \cup {1} /\ \A m \in Ks : m <= k
<1>1. \E k \in Ks \cup {1} : \A m \in Ks \cup {1} : k >= m
  <2>1. CASE 5 \in Ks
    BY <2>1 DEF Levels
  <2>2. CASE 5 \notin Ks /\ 4 \in Ks
    BY <2>2 DEF Levels
  <2>3. CASE 5 \notin Ks /\ 4 \notin Ks /\ 3 \in Ks
    BY <2>3 DEF Levels
  <2>4. CASE 5 \notin Ks /\ 4 \notin Ks /\ 3 \notin Ks /\ 2 \in Ks
    BY <2>4 DEF Levels
  <2>5. CASE 5 \notin Ks /\ 4 \notin Ks /\ 3 \notin Ks /\ 2 \notin Ks
    BY <2>5 DEF Levels
  <2> QED BY <2>1, <2>2, <2>3, <2>4, <2>5
<1>2. Max(Ks \cup {1}) \in Ks \cup {1} /\ \A m \in Ks \cup {1} : Max(Ks \cup {1}) >= m
  BY <1>1, Zenon DEF Max
<1>3. \A k \in Ks \cup {1} : k \in Levels
  BY DEF Levels
<1>4. PICK k : k = Max(Ks \cup {1})
  OBVIOUS
<1>5. k \in Ks \cup {1} /\ k \in Levels /\ \A m \in Ks : k >= m
  BY <1>2, <1>3, <1>4
<1>6. \A m \in Ks : m <= k
  BY <1>5 DEF Levels
<1> QED BY <1>4, <1>5, <1>6

LEMMA PlaceAtIs ==
    ASSUME NEW x, NEW Ks \in SUBSET Levels
    PROVE  \E k \in Levels : /\ k \in Ks \cup {1} /\ \A m \in Ks : m <= k
                             /\ PlaceAt(x, Ks) = <<k, Slot(k, Field(x, k))>>
  BY HighestIs, Zenon DEF PlaceAt

\* Every list a timer is put in is one the wheel has.
Lists == {p \in Levels \X Nat : p[2] < Span(p[1])}

LEMMA SlotIs ==
    ASSUME NEW x \in Nat, NEW k \in Levels
    PROVE  /\ Slot(k, Field(x, k)) \in Nat
           /\ <<k, Slot(k, Field(x, k))>> \in Lists
<1>1. Slot(k, Field(x, k)) \in Nat /\ Slot(k, Field(x, k)) < Span(k)
  BY QuotIs, SpanIs DEF Slot
<1> QED BY <1>1 DEF Lists

LEMMA PlaceAtIsList ==
    ASSUME NEW x \in Nat, NEW Ks \in SUBSET Levels
    PROVE  PlaceAt(x, Ks) \in Lists
<1>1. PICK k \in Levels : PlaceAt(x, Ks) = <<k, Slot(k, Field(x, k))>>
  BY PlaceAtIs
<1> QED BY <1>1, SlotIs

LEMMA ListsAreLists ==
    /\ Nowhere \notin Lists /\ Spent \notin Lists
    /\ Lists \subseteq Levels \X Nat
  BY DEF Lists, Nowhere, Spent, Levels

LEMMA StampIs ==
    ASSUME NEW ix \in [Levels -> Nat], NEW i \in Nat
    PROVE  Stamp(ix, i) \in 0 .. LongSpan - 1
<1>1. ix[1] \in Nat /\ ix[2] \in Nat /\ ix[3] \in Nat /\ ix[4] \in Nat /\ ix[5] \in Nat
  BY DEF Levels
<1>2. Unit[2] \in Nat /\ Unit[3] \in Nat /\ Unit[4] \in Nat /\ Unit[5] \in Nat
  BY UnitIs DEF Levels
<1>3. PICK a \in Nat, b \in Nat, c \in Nat, d \in Nat :
        a = ix[2] * Unit[2] /\ b = ix[3] * Unit[3] /\ c = ix[4] * Unit[4] /\ d = ix[5] * Unit[5]
  <2>1. \A y, z \in Nat : y * z \in Nat
    BY ProductsGrow
  <2>2. ix[2] * Unit[2] \in Nat /\ ix[3] * Unit[3] \in Nat /\ ix[4] * Unit[4] \in Nat /\ ix[5] * Unit[5] \in Nat
    BY <1>1, <1>2, <2>1, Zenon
  <2> QED BY <2>2, Zenon
<1>4. PICK sum \in Nat : sum = ix[1] + ix[2] * Unit[2] + ix[3] * Unit[3] + ix[4] * Unit[4] + ix[5] * Unit[5]
  BY <1>1, <1>3
<1>5. sum % IntSpan \in Nat /\ IntSpan \in Nat
  BY WheelAssumption, DivMod
<1>6. PICK z \in Int :
        z = IF sum % IntSpan < IntSpan \div 2 THEN sum % IntSpan ELSE (sum % IntSpan) - IntSpan
  BY <1>5
<1>7. Stamp(ix, i) = (z + i) % LongSpan
  BY <1>4, <1>6, Zenon DEF Stamp
<1>8. LongSpan \in Nat \ {0} /\ z + i \in Int
  BY WheelAssumption
<1>9. \A y \in Int : \A m \in Nat \ {0} : y % m \in 0 .. m - 1
  OBVIOUS
<1> QED BY <1>7, <1>8, <1>9

-----------------------------------------------------------------------------
(* Serving one level *)

Wheels == [idx : [Levels -> Nat], place : [Timers -> Lists \cup {Nowhere, Spent}],
           ttl : [Timers -> Nat], next : [Timers -> 0 .. LongSpan - 1], firing : [Timers -> Nat]]

\* What a wheel is made of
Parts(w, ix, pl, tl, nx, fr) ==
    /\ ix \in [Levels -> Nat] /\ \A k \in Levels : ix[k] < Span(k)
    /\ pl \in [Timers -> Lists \cup {Nowhere, Spent}] /\ tl \in [Timers -> Nat]
    /\ nx \in [Timers -> 0 .. LongSpan - 1] /\ fr \in [Timers -> Nat]
    /\ w = [idx |-> ix, place |-> pl, ttl |-> tl, next |-> nx, firing |-> fr]

\* A timer is in the list that the index of level k, i now, arrives at.
Reached(p, x, k, i) == p = <<k, Slot(k, i)>> /\ (k = 5 => Field(x, 5) = i)

Below(x, k) == {j \in 1 .. k - 1 : Field(x, j) # 0}

\* What serving a level does to one timer: list p, firings left l, time stamp x
\* and firings f become the ones with a 1.
Passed(p, l, x, f, p1, l1, x1, f1) == p1 = p /\ l1 = l /\ x1 = x /\ f1 = f

MovedDown(p, l, x, f, p1, l1, x1, f1, k) ==
    Below(x, k) # {} /\ p1 = PlaceAt(x, Below(x, k)) /\ l1 = l /\ x1 = x /\ f1 = f

FiredLast(p, l, x, f, p1, l1, x1, f1, k) ==
    Below(x, k) = {} /\ l = 1 /\ p1 = Spent /\ l1 = 0 /\ x1 = x /\ f1 = f + 1

FiredAgain(p, l, x, f, p1, l1, x1, f1, k, ix, i) ==
    /\ Below(x, k) = {} /\ l # 1
    /\ x1 = Stamp(ix, i) /\ p1 = Reinserted(ix, x1)
    /\ l1 = (IF l > 0 THEN l - 1 ELSE l) /\ f1 = f + 1

ServedTimer(p, l, x, f, p1, l1, x1, f1, k, ix, i) ==
    \/ ~Reached(p, x, k, ix[k]) /\ Passed(p, l, x, f, p1, l1, x1, f1)
    \/ /\ Reached(p, x, k, ix[k])
       /\ \/ MovedDown(p, l, x, f, p1, l1, x1, f1, k)
          \/ FiredLast(p, l, x, f, p1, l1, x1, f1, k)
          \/ FiredAgain(p, l, x, f, p1, l1, x1, f1, k, ix, i)

Turned(ix, k) == [ix EXCEPT ![k] = (@ + 1) % Span(k)]

LEMMA TurnedIs ==
    ASSUME NEW ix \in [Levels -> Nat], \A k \in Levels : ix[k] < Span(k), NEW k \in Levels
    PROVE  /\ Turned(ix, k) \in [Levels -> Nat]
           /\ \A m \in Levels : Turned(ix, k)[m] = IF m = k THEN (ix[k] + 1) % Span(k) ELSE ix[m]
           /\ \A m \in Levels : Turned(ix, k)[m] < Span(m)
<1>1. Span(k) \in Nat \ {0} /\ ix[k] + 1 \in Nat
  BY SpanIs
<1>2. (ix[k] + 1) % Span(k) \in 0 .. Span(k) - 1
  BY <1>1, DivMod
<1>3. \A m \in Levels : Turned(ix, k)[m] = IF m = k THEN (ix[k] + 1) % Span(k) ELSE ix[m]
  BY DEF Turned
<1>4. Turned(ix, k) \in [Levels -> Nat]
  BY <1>2 DEF Turned
<1> QED BY <1>1, <1>2, <1>3, <1>4

LEMMA ServeIs ==
    ASSUME NEW w0, NEW ix, NEW pl, NEW tl, NEW nx, NEW fr, Parts(w0, ix, pl, tl, nx, fr),
           NEW k \in Levels, interval \in [Timers -> Nat]
    PROVE  \E pl1, tl1, nx1, fr1 :
             /\ Parts(Serve(w0, k), Turned(ix, k), pl1, tl1, nx1, fr1)
             /\ \A t \in Timers :
                  ServedTimer(pl[t], tl[t], nx[t], fr[t], pl1[t], tl1[t], nx1[t], fr1[t],
                              k, Turned(ix, k), interval[t])
<1>0. /\ ix \in [Levels -> Nat] /\ \A m \in Levels : ix[m] < Span(m)
      /\ pl \in [Timers -> Lists \cup {Nowhere, Spent}] /\ tl \in [Timers -> Nat]
      /\ nx \in [Timers -> 0 .. LongSpan - 1] /\ fr \in [Timers -> Nat]
      /\ w0 = [idx |-> ix, place |-> pl, ttl |-> tl, next |-> nx, firing |-> fr]
  BY DEF Parts
<1>1. PICK jx \in [Levels -> Nat] : jx = Turned(ix, k) /\ \A m \in Levels : jx[m] < Span(m)
  BY <1>0, TurnedIs
<1> DEFINE W == [w0 EXCEPT !.idx = Advanced(w0, k)]
<1>2. W = [idx |-> jx, place |-> pl, ttl |-> tl, next |-> nx, firing |-> fr]
  <2>1. Advanced(w0, k) = jx
    BY <1>0, <1>1 DEF Advanced, Turned
  <2> QED BY <1>0, <2>1
<1> DEFINE down == {t \in Arrived(W, k) : Lower(W, t, k) # {}}
           fire == Arrived(W, k) \ down
           again == {t \in fire : ~LastFiring(W.ttl[t])}
           stamp(t) == IF t \in again THEN Stamp(W.idx, interval[t]) ELSE W.next[t]
           pl1 == [t \in Timers |->
                     IF t \in down THEN PlaceAt(W.next[t], Lower(W, t, k))
                     ELSE IF t \in again THEN Reinserted(W.idx, stamp(t))
                     ELSE IF t \in fire THEN Spent
                     ELSE W.place[t]]
           tl1 == [t \in Timers |-> IF t \in fire /\ W.ttl[t] > 0 THEN W.ttl[t] - 1 ELSE W.ttl[t]]
           nx1 == [t \in Timers |-> stamp(t)]
           fr1 == [t \in Timers |-> W.firing[t] + IF t \in fire THEN 1 ELSE 0]
<1>3. Serve(w0, k) = [W EXCEPT !.place = pl1, !.ttl = tl1, !.next = nx1, !.firing = fr1]
  BY DEF Serve
<1>4. W.idx = jx /\ W.place = pl /\ W.ttl = tl /\ W.next = nx /\ W.firing = fr
  BY <1>2
<1> HIDE DEF W
<1>5. ASSUME NEW t \in Timers
      PROVE  /\ t \in Arrived(W, k) <=> Reached(pl[t], nx[t], k, jx[k])
             /\ Lower(W, t, k) = Below(nx[t], k)
  BY <1>4 DEF Arrived, Lower, Reached, Below
<1>6. ASSUME NEW t \in Timers
      PROVE  /\ t \in down <=> Reached(pl[t], nx[t], k, jx[k]) /\ Below(nx[t], k) # {}
             /\ t \in fire <=> Reached(pl[t], nx[t], k, jx[k]) /\ Below(nx[t], k) = {}
             /\ t \in again <=> t \in fire /\ tl[t] # 1
  BY <1>4, <1>5 DEF LastFiring
<1> HIDE DEF down, fire, again
<1>7. ASSUME NEW t \in Timers
      PROVE  /\ pl1[t] = IF t \in down THEN PlaceAt(nx[t], Below(nx[t], k))
                         ELSE IF t \in again THEN Reinserted(jx, nx1[t])
                         ELSE IF t \in fire THEN Spent
                         ELSE pl[t]
             /\ tl1[t] = IF t \in fire /\ tl[t] > 0 THEN tl[t] - 1 ELSE tl[t]
             /\ nx1[t] = IF t \in again THEN Stamp(jx, interval[t]) ELSE nx[t]
             /\ fr1[t] = fr[t] + IF t \in fire THEN 1 ELSE 0
  BY <1>4, <1>5
<1>8. ASSUME NEW t \in Timers
      PROVE  /\ pl[t] \in Lists \cup {Nowhere, Spent} /\ tl[t] \in Nat
             /\ nx[t] \in 0 .. LongSpan - 1 /\ nx[t] \in Nat /\ fr[t] \in Nat /\ interval[t] \in Nat
             /\ Stamp(jx, interval[t]) \in 0 .. LongSpan - 1
  <2>1. /\ pl[t] \in Lists \cup {Nowhere, Spent} /\ tl[t] \in Nat
        /\ nx[t] \in 0 .. LongSpan - 1 /\ fr[t] \in Nat /\ interval[t] \in Nat
    BY <1>0
  <2>2. Stamp(jx, interval[t]) \in 0 .. LongSpan - 1
    BY <2>1, StampIs
  <2>3. nx[t] \in Nat
    BY <2>1
  <2> QED BY <2>1, <2>2, <2>3
<1>9. /\ pl1 \in [Timers -> Lists \cup {Nowhere, Spent}] /\ tl1 \in [Timers -> Nat]
      /\ nx1 \in [Timers -> 0 .. LongSpan - 1] /\ fr1 \in [Timers -> Nat]
  <2>1. ASSUME NEW t \in Timers
        PROVE  pl1[t] \in Lists \cup {Nowhere, Spent} /\ tl1[t] \in Nat
               /\ nx1[t] \in 0 .. LongSpan - 1 /\ fr1[t] \in Nat
    <3>1. nx1[t] \in 0 .. LongSpan - 1 /\ nx1[t] \in Nat
      BY <1>7, <1>8
    <3>2. PlaceAt(nx[t], Below(nx[t], k)) \in Lists
      <4>1. Below(nx[t], k) \in SUBSET Levels
        BY DEF Below, Levels
      <4> QED BY <1>8, <4>1, PlaceAtIsList
    <3>3. Reinserted(jx, nx1[t]) \in Lists
      <4>1. {m \in 2 .. 5 : Field(nx1[t], m) # 0 /\ Field(nx1[t], m) # jx[m]} \in SUBSET Levels
        BY DEF Levels
      <4> QED BY <3>1, <4>1, PlaceAtIsList DEF Reinserted
    <3>4. tl1[t] \in Nat /\ fr1[t] \in Nat
      BY <1>7, <1>8
    <3>5. pl1[t] \in Lists \cup {Nowhere, Spent}
      BY <1>7, <1>8, <3>2, <3>3
    <3> QED BY <3>1, <3>4, <3>5
  <2> QED BY <2>1
<1>10. Serve(w0, k) = [idx |-> jx, place |-> pl1, ttl |-> tl1, next |-> nx1, firing |-> fr1]
  <2> HIDE DEF pl1, tl1, nx1, fr1
  <2> QED BY <1>2, <1>3 DEF W
<1>11. Parts(Serve(w0, k), Turned(ix, k), pl1, tl1, nx1, fr1)
  <2> HIDE DEF pl1, tl1, nx1, fr1
  <2>1. /\ jx \in [Levels -> Nat] /\ \A m \in Levels : jx[m] < Span(m)
    BY <1>1
  <2> QED BY <1>1, <1>9, <1>10, <2>1, Zenon DEF Parts
<1>12. ASSUME NEW t \in Timers
       PROVE  ServedTimer(pl[t], tl[t], nx[t], fr[t], pl1[t], tl1[t], nx1[t], fr1[t],
                          k, Turned(ix, k), interval[t])
  <2> HIDE DEF pl1, tl1, nx1, fr1
  <2>1. CASE ~Reached(pl[t], nx[t], k, jx[k])
    <3>1. t \notin down /\ t \notin fire /\ t \notin again
      BY <1>6, <2>1
    <3>2. Passed(pl[t], tl[t], nx[t], fr[t], pl1[t], tl1[t], nx1[t], fr1[t])
      BY <1>7, <1>8, <3>1 DEF Passed
    <3> QED BY <1>1, <2>1, <3>2 DEF ServedTimer
  <2>2. CASE Reached(pl[t], nx[t], k, jx[k]) /\ Below(nx[t], k) # {}
    <3>1. t \in down /\ t \notin fire /\ t \notin again
      BY <1>6, <2>2
    <3>2. MovedDown(pl[t], tl[t], nx[t], fr[t], pl1[t], tl1[t], nx1[t], fr1[t], k)
      BY <1>7, <1>8, <2>2, <3>1 DEF MovedDown
    <3> QED BY <1>1, <2>2, <3>2 DEF ServedTimer
  <2>3. CASE Reached(pl[t], nx[t], k, jx[k]) /\ Below(nx[t], k) = {} /\ tl[t] = 1
    <3>1. t \notin down /\ t \in fire /\ t \notin again
      BY <1>6, <2>3
    <3>2. FiredLast(pl[t], tl[t], nx[t], fr[t], pl1[t], tl1[t], nx1[t], fr1[t], k)
      BY <1>7, <1>8, <2>3, <3>1 DEF FiredLast
    <3> QED BY <1>1, <2>3, <3>2 DEF ServedTimer
  <2>4. CASE Reached(pl[t], nx[t], k, jx[k]) /\ Below(nx[t], k) = {} /\ tl[t] # 1
    <3>1. t \notin down /\ t \in fire /\ t \in again
      BY <1>6, <2>4
    <3>2. FiredAgain(pl[t], tl[t], nx[t], fr[t], pl1[t], tl1[t], nx1[t], fr1[t], k, jx, interval[t])
      BY <1>7, <1>8, <2>4, <3>1 DEF FiredAgain
    <3> QED BY <1>1, <2>4, <3>2 DEF ServedTimer
  <2> QED BY <2>1, <2>2, <2>3, <2>4
<1>13. \A t \in Timers : ServedTimer(pl[t], tl[t], nx[t], fr[t], pl1[t], tl1[t], nx1[t], fr1[t],
                                    k, Turned(ix, k), interval[t])
  BY <1>12
<1> HIDE DEF pl1, tl1, nx1, fr1
<1> QED BY <1>11, <1>13, Zenon

WheelOK(w) == w \in Wheels /\ \A k \in Levels : w.idx[k] < Span(k)

LEMMA WheelParts ==
    ASSUME NEW w
    PROVE  /\ WheelOK(w) => Parts(w, w.idx, w.place, w.ttl, w.next, w.firing)
           /\ \A ix, pl, tl, nx, fr : Parts(w, ix, pl, tl, nx, fr) =>
                /\ WheelOK(w)
                /\ w.idx = ix /\ w.place = pl /\ w.ttl = tl /\ w.next = nx /\ w.firing = fr
<1>1. WheelOK(w) => Parts(w, w.idx, w.place, w.ttl, w.next, w.firing)
  BY DEF WheelOK, Wheels, Parts
<1>2. ASSUME NEW ix, NEW pl, NEW tl, NEW nx, NEW fr, Parts(w, ix, pl, tl, nx, fr)
      PROVE  /\ WheelOK(w)
             /\ w.idx = ix /\ w.place = pl /\ w.ttl = tl /\ w.next = nx /\ w.firing = fr
  <2>1. w.idx = ix /\ w.place = pl /\ w.ttl = tl /\ w.next = nx /\ w.firing = fr
    BY <1>2 DEF Parts
  <2>2. w \in Wheels
    BY <1>2 DEF Parts, Wheels
  <2> QED BY <1>2, <2>1, <2>2, Zenon DEF Parts, WheelOK
<1> QED BY <1>1, <1>2

\* A level is served when the ones below it have wrapped.
Wrapped(ix, k) == \A j \in 1 .. k - 1 : ix[j] = 0

TurnedTo(ix, jx, k) == jx = IF Wrapped(ix, k) THEN Turned(ix, k) ELSE ix

TimerServed(w, v, t, k) ==
    IF Wrapped(w.idx, k)
    THEN ServedTimer(w.place[t], w.ttl[t], w.next[t], w.firing[t],
                     v.place[t], v.ttl[t], v.next[t], v.firing[t], k, v.idx, interval[t])
    ELSE Passed(w.place[t], w.ttl[t], w.next[t], w.firing[t],
                v.place[t], v.ttl[t], v.next[t], v.firing[t])

LEMMA LevelIs ==
    ASSUME NEW w, WheelOK(w), NEW k \in Levels, interval \in [Timers -> Nat],
           NEW v, v = ServeIfReached(w, k)
    PROVE  /\ WheelOK(v) /\ TurnedTo(w.idx, v.idx, k)
           /\ \A t \in Timers : TimerServed(w, v, t, k)
<1>1. Wrapped(w.idx, k) <=> \A j \in 1 .. k - 1 : w.idx[j] = 0
  BY DEF Wrapped
<1>2. CASE Wrapped(w.idx, k)
  <2>1. v = Serve(w, k)
    BY <1>1, <1>2, Zenon DEF ServeIfReached
  <2>2. Parts(w, w.idx, w.place, w.ttl, w.next, w.firing)
    BY WheelParts
  <2>3. PICK pl1, tl1, nx1, fr1 :
          /\ Parts(v, Turned(w.idx, k), pl1, tl1, nx1, fr1)
          /\ \A t \in Timers :
               ServedTimer(w.place[t], w.ttl[t], w.next[t], w.firing[t], pl1[t], tl1[t], nx1[t], fr1[t],
                           k, Turned(w.idx, k), interval[t])
    <3>1. \E pl1, tl1, nx1, fr1 :
          /\ Parts(Serve(w, k), Turned(w.idx, k), pl1, tl1, nx1, fr1)
          /\ \A t \in Timers :
               ServedTimer(w.place[t], w.ttl[t], w.next[t], w.firing[t], pl1[t], tl1[t], nx1[t], fr1[t],
                           k, Turned(w.idx, k), interval[t])
      BY <2>2, ServeIs
    <3> QED BY <2>1, <3>1, Zenon
  <2>4. /\ WheelOK(v) /\ v.idx = Turned(w.idx, k)
        /\ v.place = pl1 /\ v.ttl = tl1 /\ v.next = nx1 /\ v.firing = fr1
    BY <2>3, WheelParts, Zenon
  <2>5. TurnedTo(w.idx, v.idx, k)
    BY <1>2, <2>4, Zenon DEF TurnedTo
  <2>6. \A t \in Timers : TimerServed(w, v, t, k)
    BY <1>2, <2>3, <2>4, Zenon DEF TimerServed
  <2> QED BY <2>4, <2>5, <2>6
<1>3. CASE ~Wrapped(w.idx, k)
  <2>1. v = w
    BY <1>1, <1>3, Zenon DEF ServeIfReached
  <2>2. TurnedTo(w.idx, v.idx, k)
    BY <1>3, <2>1, Zenon DEF TurnedTo
  <2>3. \A t \in Timers : TimerServed(w, v, t, k)
    BY <1>3, <2>1, Zenon DEF TimerServed, Passed
  <2> QED BY <2>1, <2>2, <2>3
<1> QED BY <1>2, <1>3

\* The wheel after the levels up to k have had their turn
After1 == ServeIfReached(Wheel, 1)
After2 == ServeIfReached(After1, 2)
After3 == ServeIfReached(After2, 3)
After4 == ServeIfReached(After3, 4)
After5 == ServeIfReached(After4, 5)

After(k) == CASE k = 0 -> Wheel [] k = 1 -> After1 [] k = 2 -> After2
              [] k = 3 -> After3 [] k = 4 -> After4 [] k = 5 -> After5

LEMMA AfterIs ==
    /\ After(0) = Wheel
    /\ Served = After(5)
    /\ \A k \in Levels : After(k) = ServeIfReached(After(k - 1), k)
<1>1. /\ After(0) = Wheel /\ After(1) = After1 /\ After(2) = After2 /\ After(3) = After3
      /\ After(4) = After4 /\ After(5) = After5
  BY DEF After
<1>2. Served = After5
  BY DEF Served, After1, After2, After3, After4, After5
<1>3. ASSUME NEW k \in Levels PROVE After(k) = ServeIfReached(After(k - 1), k)
  <2>1. k = 1 \/ k = 2 \/ k = 3 \/ k = 4 \/ k = 5
    BY DEF Levels
  <2>2. /\ After(1) = ServeIfReached(After(0), 1) /\ After(2) = ServeIfReached(After(1), 2)
        /\ After(3) = ServeIfReached(After(2), 3) /\ After(4) = ServeIfReached(After(3), 4)
        /\ After(5) = ServeIfReached(After(4), 5)
    BY <1>1, Zenon DEF After1, After2, After3, After4, After5
  <2>3. 1 - 1 = 0 /\ 2 - 1 = 1 /\ 3 - 1 = 2 /\ 4 - 1 = 3 /\ 5 - 1 = 4
    OBVIOUS
  <2> QED BY <2>1, <2>2, <2>3, Zenon
<1> QED BY <1>1, <1>2, <1>3, Zenon

-----------------------------------------------------------------------------
(* Types and firings left *)

Places == Lists \cup {Nowhere, Spent}

Types ==
    /\ idx \in [Levels -> Nat] /\ \A k \in Levels : idx[k] < Span(k)
    /\ place \in [Timers -> Places]
    /\ interval \in [Timers -> Intervals \cup {0}]
    /\ ttl \in [Timers -> Nat]
    /\ next \in [Timers -> 0 .. LongSpan - 1]
    /\ now \in 0 .. LastTick
    /\ due \in [Timers -> Nat] /\ budget \in [Timers -> Ttls \cup {0}]
    /\ fired \in [Timers -> Nat]

LEMMA TypesAre == TypeOK <=> Types
<1>1. ASSUME NEW t \in Timers, place[t] \in (Levels \X Nat) \cup {Nowhere, Spent}
      PROVE  place[t] \in Places <=> (Linked(t) => place[t][2] < Span(place[t][1]))
  <2>1. Linked(t) <=> place[t] \notin {Nowhere, Spent}
    BY DEF Linked
  <2> QED BY <1>1, <2>1 DEF Places, Lists
<1>2. Places \subseteq (Levels \X Nat) \cup {Nowhere, Spent}
  BY ListsAreLists DEF Places
<1>3. (/\ place \in [Timers -> (Levels \X Nat) \cup {Nowhere, Spent}]
       /\ \A t \in Timers : Linked(t) => place[t][2] < Span(place[t][1]))
        <=> place \in [Timers -> Places]
  BY <1>1, <1>2
<1> QED BY <1>3 DEF TypeOK, Types

LEMMA NaturalsAre == Intervals \cup {0} \subseteq Nat /\ Ttls \cup {0} \subseteq Nat
<1>1. Intervals \subseteq Nat \ {0} /\ Ttls \subseteq Nat
  BY WheelAssumption
<1> QED BY <1>1

LEMMA WheelTyped ==
    ASSUME Types
    PROVE  /\ WheelOK(Wheel) /\ interval \in [Timers -> Nat]
           /\ Wheel.idx = idx /\ Wheel.place = place /\ Wheel.ttl = ttl /\ Wheel.next = next
           /\ Wheel.firing = [t \in Timers |-> 0]
<1>1. Parts(Wheel, idx, place, ttl, next, [t \in Timers |-> 0])
  BY DEF Types, Wheel, Parts, Places
<1>2. interval \in [Timers -> Nat]
  BY NaturalsAre DEF Types
<1>3. WheelOK(Wheel)
  BY <1>1, WheelParts, Zenon
<1> QED BY <1>2, <1>3 DEF Wheel

\* The firings a timer was added with, b, are those it has had, d, and has left, l.
Budgeted(b, d, p, l) ==
    /\ b > 0 => d + l = b
    /\ p = Spent <=> b > 0 /\ l = 0
    /\ b = 0 => l = 0

LEMMA PlacedIs ==
    ASSUME NEW x \in Nat, NEW k \in Levels, NEW ix
    PROVE  /\ PlaceAt(x, Below(x, k)) \in Lists
           /\ Reinserted(ix, x) \in Lists
           /\ Added(x) \in Lists
<1>1. /\ Below(x, k) \in SUBSET Levels
      /\ {m \in 2 .. 5 : Field(x, m) # 0 /\ Field(x, m) # ix[m]} \in SUBSET Levels
      /\ {m \in 2 .. 5 : Field(x, m) # 0} \in SUBSET Levels
  BY DEF Below, Levels
<1> QED BY <1>1, PlaceAtIsList DEF Reinserted, Added

LEMMA ServedBudget ==
    ASSUME NEW p, NEW l \in Nat, NEW x \in Nat, NEW f \in Nat, NEW d \in Nat, NEW b \in Nat,
           NEW p1, NEW l1, NEW x1 \in Nat, NEW f1, NEW k \in Levels, NEW ix, NEW i,
           Budgeted(b, d + f, p, l),
           ServedTimer(p, l, x, f, p1, l1, x1, f1, k, ix, i) \/ Passed(p, l, x, f, p1, l1, x1, f1)
    PROVE  Budgeted(b, d + f1, p1, l1)
<1>1. CASE Passed(p, l, x, f, p1, l1, x1, f1)
  BY <1>1 DEF Passed
<1>2. CASE Reached(p, x, k, ix[k])
  <2>1. p # Spent
    BY <1>2 DEF Reached, Spent, Levels
  <2>2. CASE MovedDown(p, l, x, f, p1, l1, x1, f1, k)
    <3>1. p1 # Spent
      BY <2>2, PlacedIs, ListsAreLists DEF MovedDown
    <3> QED BY <2>1, <2>2, <3>1 DEF MovedDown, Budgeted
  <2>3. CASE FiredLast(p, l, x, f, p1, l1, x1, f1, k)
    BY <2>1, <2>3 DEF FiredLast, Budgeted
  <2>4. CASE FiredAgain(p, l, x, f, p1, l1, x1, f1, k, ix, i)
    <3>1. p1 # Spent
      BY <2>4, PlacedIs, ListsAreLists DEF FiredAgain
    <3> QED BY <2>1, <2>4, <3>1 DEF FiredAgain, Budgeted
  <2> QED BY <1>1, <1>2, <2>2, <2>3, <2>4 DEF ServedTimer
<1> QED BY <1>1, <1>2 DEF ServedTimer

WheelBudget(w) ==
    /\ WheelOK(w)
    /\ \A t \in Timers : Budgeted(budget[t], fired[t] + w.firing[t], w.place[t], w.ttl[t])

LEMMA WheelTypes ==
    ASSUME NEW w, WheelOK(w), NEW t \in Timers
    PROVE  w.ttl[t] \in Nat /\ w.next[t] \in Nat /\ w.firing[t] \in Nat
<1>1. w.ttl \in [Timers -> Nat] /\ w.next \in [Timers -> 0 .. LongSpan - 1] /\ w.firing \in [Timers -> Nat]
  BY DEF WheelOK, Wheels
<1>2. w.next[t] \in 0 .. LongSpan - 1
  BY <1>1
<1> QED BY <1>1, <1>2

LEMMA LevelBudget ==
    ASSUME Types, NEW w, WheelBudget(w), NEW k \in Levels
    PROVE  WheelBudget(ServeIfReached(w, k))
<1>1. PICK v : v = ServeIfReached(w, k)
  OBVIOUS
<1>2. /\ WheelOK(v) /\ \A t \in Timers : TimerServed(w, v, t, k)
  BY <1>1, LevelIs, WheelTyped DEF WheelBudget
<1>3. ASSUME NEW t \in Timers
      PROVE  Budgeted(budget[t], fired[t] + v.firing[t], v.place[t], v.ttl[t])
  <2>1. w.ttl[t] \in Nat /\ w.next[t] \in Nat /\ w.firing[t] \in Nat /\ v.next[t] \in Nat
    BY <1>2, WheelTypes DEF WheelBudget
  <2>2. budget[t] \in Nat /\ fired[t] \in Nat
    BY NaturalsAre DEF Types
  <2>3. Budgeted(budget[t], fired[t] + w.firing[t], w.place[t], w.ttl[t])
    BY DEF WheelBudget
  <2>4. \/ ServedTimer(w.place[t], w.ttl[t], w.next[t], w.firing[t],
                       v.place[t], v.ttl[t], v.next[t], v.firing[t], k, v.idx, interval[t])
        \/ Passed(w.place[t], w.ttl[t], w.next[t], w.firing[t],
                  v.place[t], v.ttl[t], v.next[t], v.firing[t])
    BY <1>2, Zenon DEF TimerServed
  <2> QED BY <2>1, <2>2, <2>3, <2>4, ServedBudget, SMT
<1> QED BY <1>1, <1>2, <1>3 DEF WheelBudget

BudgetInv == TypeOK /\ \A t \in Timers : Budgeted(budget[t], fired[t], place[t], ttl[t])

LEMMA ServedBudgetAlways ==
    ASSUME BudgetInv
    PROVE  WheelBudget(Served)
<1>1. Types
  BY TypesAre DEF BudgetInv
<1>2. WheelBudget(After(0))
  <2>1. ASSUME NEW t \in Timers
        PROVE  Budgeted(budget[t], fired[t] + Wheel.firing[t], Wheel.place[t], Wheel.ttl[t])
    <3>1. Wheel.firing[t] = 0 /\ fired[t] \in Nat
      BY <1>1, WheelTyped DEF Types
    <3>2. fired[t] + Wheel.firing[t] = fired[t]
      BY <3>1
    <3> QED BY <1>1, <3>2, WheelTyped, Zenon DEF BudgetInv
  <2> QED BY <1>1, <2>1, WheelTyped, AfterIs DEF WheelBudget
<1>3. ASSUME NEW k \in Levels PROVE WheelBudget(After(k - 1)) => WheelBudget(After(k))
  BY <1>1, LevelBudget, AfterIs, Zenon
<1>4. WheelBudget(After(1)) /\ WheelBudget(After(2)) /\ WheelBudget(After(3)) /\ WheelBudget(After(4))
  <2>1. 1 \in Levels /\ 2 \in Levels /\ 3 \in Levels /\ 4 \in Levels
        /\ 1 - 1 = 0 /\ 2 - 1 = 1 /\ 3 - 1 = 2 /\ 4 - 1 = 3
    BY DEF Levels
  <2> QED BY <1>2, <1>3, <2>1, Zenon
<1>5. WheelBudget(After(5))
  <2>1. 5 \in Levels /\ 5 - 1 = 4
    BY DEF Levels
  <2> QED BY <1>3, <1>4, <2>1, Zenon
<1> QED BY <1>5, AfterIs, Zenon

LEMMA BudgetInit == Init => BudgetInv
<1> SUFFICES ASSUME Init PROVE BudgetInv
  OBVIOUS
<1>1. Types
  <2>1. LongSpan \in Nat \ {0} /\ LastTick \in Nat
    BY WheelAssumption
  <2>2. \A k \in Levels : idx[k] < Span(k)
    BY SpanIs DEF Init
  <2> QED BY <2>1, <2>2 DEF Init, Types, Places
<1>2. \A t \in Timers : Budgeted(budget[t], fired[t], place[t], ttl[t])
  BY DEF Init, Budgeted, Nowhere, Spent
<1> QED BY <1>1, <1>2, TypesAre DEF BudgetInv

LEMMA BudgetTick == BudgetInv /\ Tick => BudgetInv'
<1> SUFFICES ASSUME BudgetInv, Tick PROVE BudgetInv'
  OBVIOUS
<1>1. Types
  BY TypesAre DEF BudgetInv
<1>2. PICK w : w = Served
  OBVIOUS
<1>3. WheelOK(w) /\ \A t \in Timers : Budgeted(budget[t], fired[t] + w.firing[t], w.place[t], w.ttl[t])
  BY <1>2, ServedBudgetAlways DEF WheelBudget
<1>4. /\ now < LastTick /\ now' = now + 1 /\ interval' = interval /\ budget' = budget
      /\ idx' = w.idx /\ place' = w.place /\ ttl' = w.ttl /\ next' = w.next
      /\ fired' = [t \in Timers |-> fired[t] + w.firing[t]]
      /\ due' = [t \in Timers |-> IF w.firing[t] > 0 THEN now' + interval[t] ELSE due[t]]
  BY <1>2, Zenon DEF Tick
<1>5. /\ w.idx \in [Levels -> Nat] /\ \A k \in Levels : w.idx[k] < Span(k)
      /\ w.place \in [Timers -> Places] /\ w.ttl \in [Timers -> Nat]
      /\ w.next \in [Timers -> 0 .. LongSpan - 1] /\ w.firing \in [Timers -> Nat]
  BY <1>3 DEF WheelOK, Wheels, Places
<1>6. now' \in 0 .. LastTick /\ now' \in Nat
  BY <1>1, <1>4, WheelAssumption DEF Types
<1>7. due' \in [Timers -> Nat] /\ fired' \in [Timers -> Nat]
  <2>1. ASSUME NEW t \in Timers
        PROVE  fired[t] + w.firing[t] \in Nat /\ now' + interval[t] \in Nat /\ due[t] \in Nat
    BY <1>1, <1>5, <1>6, WheelTyped DEF Types
  <2> QED BY <1>4, <2>1
<1>8. Types'
  BY <1>1, <1>4, <1>5, <1>6, <1>7 DEF Types
<1>9. \A t \in Timers : fired'[t] = fired[t] + w.firing[t]
  BY <1>4
<1>10. (\A t \in Timers : Budgeted(budget[t], fired[t], place[t], ttl[t]))'
  BY <1>3, <1>4, <1>9, Zenon
<1>11. TypeOK'
  BY <1>8, TypesAre, PTL
<1> QED BY <1>10, <1>11 DEF BudgetInv

LEMMA BudgetAdd ==
    ASSUME BudgetInv, NEW t \in Timers, NEW i \in Intervals, NEW n \in Ttls, Add(t, i, n)
    PROVE  BudgetInv'
<1>1. Types
  BY TypesAre DEF BudgetInv
<1>2. n \in Nat /\ i \in Nat
  BY NaturalsAre
<1>3. PICK x \in 0 .. LongSpan - 1 : x = Stamp(idx, i)
  BY <1>1, <1>2, StampIs DEF Types
<1>4. PICK p \in Lists : p = Added(x)
  <2>1. x \in Nat
    BY <1>3
  <2>2. 1 \in Levels
    BY DEF Levels
  <2> QED BY <2>1, <2>2, PlacedIs
<1>5. /\ place' = [place EXCEPT ![t] = p] /\ interval' = [interval EXCEPT ![t] = i]
      /\ ttl' = [ttl EXCEPT ![t] = n] /\ next' = [next EXCEPT ![t] = x]
      /\ due' = [due EXCEPT ![t] = now + i] /\ budget' = [budget EXCEPT ![t] = n]
      /\ fired' = [fired EXCEPT ![t] = 0] /\ idx' = idx /\ now' = now
  BY <1>3, <1>4, Zenon DEF Add
<1>6. Types'
  BY <1>1, <1>2, <1>5, WheelAssumption DEF Types, Places
<1>7. ASSUME NEW s \in Timers PROVE Budgeted(budget'[s], fired'[s], place'[s], ttl'[s])
  <2>1. CASE s = t
    <3>1. budget'[s] = n /\ fired'[s] = 0 /\ place'[s] = p /\ ttl'[s] = n
      BY <1>1, <1>5, <2>1 DEF Types
    <3>2. p # Spent
      BY ListsAreLists
    <3> QED BY <1>2, <3>1, <3>2 DEF Budgeted
  <2>2. CASE s # t
    <3>1. budget'[s] = budget[s] /\ fired'[s] = fired[s] /\ place'[s] = place[s] /\ ttl'[s] = ttl[s]
      BY <1>1, <1>5, <2>2 DEF Types
    <3> QED BY <3>1, Zenon DEF BudgetInv
  <2> QED BY <2>1, <2>2
<1>8. TypeOK'
  BY <1>6, TypesAre, PTL
<1> QED BY <1>7, <1>8 DEF BudgetInv

LEMMA BudgetDelete ==
    ASSUME BudgetInv, NEW t \in Timers, Delete(t)
    PROVE  BudgetInv'
<1>1. Types
  BY TypesAre DEF BudgetInv
<1>2. /\ place' = [place EXCEPT ![t] = Nowhere] /\ interval' = [interval EXCEPT ![t] = 0]
      /\ ttl' = [ttl EXCEPT ![t] = 0] /\ next' = [next EXCEPT ![t] = 0]
      /\ due' = [due EXCEPT ![t] = 0] /\ budget' = [budget EXCEPT ![t] = 0]
      /\ fired' = [fired EXCEPT ![t] = 0] /\ idx' = idx /\ now' = now
  BY DEF Delete
<1>3. Types'
  <2>1. 0 \in 0 .. LongSpan - 1
    BY WheelAssumption
  <2> QED BY <1>1, <1>2, <2>1 DEF Types, Places
<1>4. ASSUME NEW s \in Timers PROVE Budgeted(budget'[s], fired'[s], place'[s], ttl'[s])
  <2>1. CASE s = t
    <3>1. budget'[s] = 0 /\ fired'[s] = 0 /\ place'[s] = Nowhere /\ ttl'[s] = 0
      BY <1>1, <1>2, <2>1 DEF Types
    <3> QED BY <3>1 DEF Budgeted, Nowhere, Spent
  <2>2. CASE s # t
    <3>1. budget'[s] = budget[s] /\ fired'[s] = fired[s] /\ place'[s] = place[s] /\ ttl'[s] = ttl[s]
      BY <1>1, <1>2, <2>2 DEF Types
    <3> QED BY <3>1, Zenon DEF BudgetInv
  <2> QED BY <2>1, <2>2
<1>5. TypeOK'
  BY <1>3, TypesAre, PTL
<1> QED BY <1>4, <1>5 DEF BudgetInv

LEMMA BudgetInvAlways == Spec => []BudgetInv
<1>1. BudgetInv /\ [Next]_vars => BudgetInv'
  <2>1. BudgetInv /\ UNCHANGED vars => BudgetInv'
    BY DEF vars, timer, BudgetInv, TypeOK, Linked
  <2> QED BY <2>1, BudgetTick, BudgetAdd, BudgetDelete DEF Next
<1> QED BY <1>1, BudgetInit, PTL DEF Spec

-----------------------------------------------------------------------------
(* The theorems about types and firings *)

\* Whatever the sizes of the wheel and the widths of its integers: an index is always
\* that of a slot its level has, a linked timer is in a list that exists, no
\* time stamp exceeds its field, and no count of firings falls below 0.
THEOREM TypeCorrect == Spec => []TypeOK
<1>1. BudgetInv => TypeOK
  BY DEF BudgetInv
<1> QED BY <1>1, BudgetInvAlways, PTL

\* A timer added with a ttl is fired by uc_timer_check_timeout that often and not
\* once more, and is out of every list when it has; one without a ttl stays.
THEOREM TtlIsSpentAlways == Spec => []TtlIsSpent
<1>1. BudgetInv => TtlIsSpent
  BY DEF BudgetInv, TtlIsSpent, Budgeted
<1> QED BY <1>1, BudgetInvAlways, PTL

-----------------------------------------------------------------------------
(* Time in fields *)

\* The levels below k have wrapped at time n.
Wraps(n, k) == \A j \in 1 .. k - 1 : Field(n, j) = 0

LEMMA WrapsNext ==
    ASSUME NEW n \in Nat, NEW k \in Levels
    PROVE  /\ Wraps(n, k + 1) <=> Wraps(n, k) /\ Field(n, k) = 0
           /\ Wraps(n, 1)
  BY DEF Wraps, Levels

LEMMA Carry ==
    ASSUME NEW x \in Nat
    PROVE  \A k \in Levels : Quot(x + 1, k) = IF Wraps(x + 1, k) THEN Quot(x, k) + 1 ELSE Quot(x, k)
<1> DEFINE Holds(k) == Quot(x + 1, k) = IF Wraps(x + 1, k) THEN Quot(x, k) + 1 ELSE Quot(x, k)
<1>1. Holds(1)
  <2>1. Quot(x + 1, 1) = x + 1 /\ Quot(x, 1) = x /\ Wraps(x + 1, 1)
    BY QuotNext, WrapsNext DEF Levels
  <2> QED BY <2>1
<1>2. ASSUME NEW k \in 1 .. 4, Holds(k) PROVE Holds(k + 1)
  <2>1. k \in Levels /\ k # 5 /\ Sizes[k] \in Nat \ {0}
    BY SizesAre DEF Levels
  <2>2. PICK q \in Nat, r \in Nat : q = Quot(x, k) /\ r = Quot(x + 1, k)
    BY <2>1, QuotIs
  <2>3. PICK m \in Nat \ {0} : m = Sizes[k] /\ Span(k) = m
    BY <2>1, SpanIs
  <2>4. Quot(x + 1, k + 1) = r \div m /\ Quot(x, k + 1) = q \div m /\ Field(x + 1, k) = r % m
    <3>1. Quot(x + 1, k + 1) = Quot(x + 1, k) \div Sizes[k] /\ Quot(x, k + 1) = Quot(x, k) \div Sizes[k]
      BY QuotNext
    <3>2. Field(x + 1, k) = Quot(x + 1, k) % Span(k)
      BY <2>1, QuotIs
    <3> QED BY <2>2, <2>3, <3>1, <3>2, Zenon
  <2>5. Wraps(x + 1, k + 1) <=> Wraps(x + 1, k) /\ r % m = 0
    BY <2>1, <2>4, WrapsNext
  <2>6. CASE Wraps(x + 1, k)
    <3>1. r = q + 1
      BY <1>2, <2>2, <2>6
    <3>2. r \div m = IF r % m = 0 THEN q \div m + 1 ELSE q \div m
      BY <3>1, DivNext
    <3> QED BY <2>4, <2>5, <2>6, <3>2
  <2>7. CASE ~Wraps(x + 1, k)
    BY <1>2, <2>2, <2>4, <2>5, <2>7
  <2> QED BY <2>6, <2>7
<1>3. Holds(2) /\ Holds(3) /\ Holds(4) /\ Holds(5)
  <2> HIDE DEF Holds
  <2>1. \A k \in 1 .. 4 : Holds(k) => Holds(k + 1)
    BY <1>2
  <2>2. Holds(1 + 1)
    BY <1>1, <2>1
  <2>3. Holds(2 + 1)
    BY <2>1, <2>2
  <2>4. Holds(3 + 1)
    BY <2>1, <2>3
  <2>5. Holds(4 + 1)
    BY <2>1, <2>4
  <2> QED BY <2>2, <2>3, <2>4, <2>5
<1> HIDE DEF Holds
<1>4. \A k \in Levels : Holds(k)
  BY <1>1, <1>3 DEF Levels
<1> QED BY <1>4 DEF Holds

\* A level's index follows its field.
LEMMA FieldNext ==
    ASSUME NEW x \in Nat, NEW k \in Levels
    PROVE  Field(x + 1, k) = IF Wraps(x + 1, k) THEN (Field(x, k) + 1) % Span(k) ELSE Field(x, k)
<1>1. PICK q \in Nat, r \in Nat : q = Quot(x, k) /\ r = Quot(x + 1, k)
  BY QuotIs
<1>2. PICK m \in Nat \ {0} : m = Span(k)
  BY SpanIs
<1>3. Field(x + 1, k) = r % m /\ Field(x, k) = q % m
  BY <1>1, <1>2, QuotIs
<1>4. r = IF Wraps(x + 1, k) THEN q + 1 ELSE q
  BY <1>1, Carry
<1>5. (q + 1) % m = ((q % m) + 1) % m
  BY DivNext
<1> QED BY <1>2, <1>3, <1>4, <1>5

LEMMA QuotOrder ==
    ASSUME NEW x \in Nat, NEW y \in Nat, x <= y, NEW k \in Levels
    PROVE  Quot(x, k) <= Quot(y, k)
<1>1. Unit[k] \in Nat \ {0}
  BY UnitIs
<1> QED BY <1>1, DivOrder DEF Quot

\* Times that agree on a level compare as their fields of the level below.
LEMMA SameAbove ==
    ASSUME NEW x \in Nat, NEW y \in Nat, NEW k \in 1 .. 4, Quot(x, k + 1) = Quot(y, k + 1)
    PROVE  /\ Field(x, k) = Field(y, k) <=> Quot(x, k) = Quot(y, k)
           /\ Field(x, k) < Field(y, k) <=> Quot(x, k) < Quot(y, k)
           /\ Quot(y, k) < Quot(x, k) + Span(k)
<1>1. k \in Levels /\ k + 1 \in Levels /\ k # 5
  BY DEF Levels
<1>2. PICK p \in Nat : p = Quot(x, k + 1) * Sizes[k]
  <2>1. Quot(x, k + 1) \in Nat /\ Sizes[k] \in Nat
    BY <1>1, QuotIs, SizesAre
  <2>2. \A y1, z1 \in Nat : y1 * z1 \in Nat
    BY ProductsGrow
  <2>3. Quot(x, k + 1) * Sizes[k] \in Nat
    BY <2>1, <2>2
  <2> QED BY <2>3
<1>3. PICK f \in Nat, g \in Nat, m \in Nat : f = Field(x, k) /\ g = Field(y, k) /\ m = Span(k) /\ f < m /\ g < m
  BY <1>1, QuotIs, SpanIs
<1>4. Quot(x, k) = p + f /\ Quot(y, k) = p + g
  BY <1>2, <1>3, QuotNext
<1> QED BY <1>3, <1>4

\* Times whose quotients differ by less than a turn are in the same slot only if
\* they are in the same turn.
LEMMA SameTurn ==
    ASSUME NEW q \in Nat, NEW r \in Nat, NEW m \in Nat \ {0}, q <= r, r < q + m, q % m = r % m
    PROVE  q = r
<1>1. PICK a \in Nat, f \in 0 .. m - 1 : a = q \div m /\ f = q % m /\ q = a * m + f
  BY DivParts
<1>2. PICK b \in Nat, g \in 0 .. m - 1 : b = r \div m /\ g = r % m /\ r = b * m + g
  BY DivParts
<1>3. f = g
  BY <1>1, <1>2
<1>4. a * m \in Nat /\ b * m \in Nat
  BY ProductsGrow
<1>5. ~(a + 1 <= b)
  <2>1. a + 1 <= b => (a + 1) * m <= b * m
    BY ProductsGrow
  <2>2. (a + 1) * m = a * m + m
    OBVIOUS
  <2> QED BY <1>1, <1>2, <1>3, <1>4, <2>1, <2>2
<1>6. ~(b + 1 <= a)
  <2>1. b + 1 <= a => (b + 1) * m <= a * m
    BY ProductsGrow
  <2>2. (b + 1) * m = b * m + m
    OBVIOUS
  <2> QED BY <1>1, <1>2, <1>3, <1>4, <2>1, <2>2
<1>7. a = b
  BY <1>5, <1>6
<1> QED BY <1>1, <1>2, <1>3, <1>7

LEMMA DaysCount ==
    ASSUME NEW x \in Nat, x < DaySpan * Unit[5]
    PROVE  Field(x, 5) = Quot(x, 5) /\ Quot(x, 5) < DaySpan
<1>1. PICK m \in Nat \ {0}, u \in Nat \ {0} : m = DaySpan /\ u = Unit[5] /\ Span(5) = m
  <2>1. 5 \in Levels /\ DaySpan \in Nat \ {0} /\ Span(5) = DaySpan
    BY WheelAssumption DEF Levels, Span
  <2>2. Unit[5] \in Nat \ {0}
    BY <2>1, UnitIs
  <2> QED BY <2>1, <2>2
<1>2. PICK q \in Nat, r \in 0 .. u - 1 : q = x \div u /\ x = q * u + r
  BY DivParts
<1>3. ~(m <= q)
  <2>1. m <= q => m * u <= q * u
    BY ProductsGrow
  <2>2. x < m * u /\ q * u \in Nat /\ m * u \in Nat
    BY <1>1, ProductsGrow
  <2> QED BY <1>2, <2>1, <2>2
<1>4. Divides(q, m, 0, q)
  BY <1>3 DEF Divides
<1>5. q % m = q
  BY <1>4, DivUnique
<1>6. q = Quot(x, 5)
  BY <1>1, <1>2 DEF Quot
<1>7. 5 \in Levels
  BY DEF Levels
<1>8. Field(x, 5) = q % m
  BY <1>1, <1>6, <1>7, QuotIs
<1> QED BY <1>1, <1>3, <1>5, <1>6, <1>8

LEMMA Distribute ==
    ASSUME NEW a \in Nat, NEW m \in Nat, NEW u \in Nat, NEW f \in Nat
    PROVE  (a * m + f) * u = a * (u * m) + f * u
<1>1. (a * m + f) * u = (a * m) * u + f * u
  OBVIOUS
<1>2. (a * m) * u = a * (u * m)
  OBVIOUS
<1> QED BY <1>1, <1>2

LEMMA FieldsSum ==
    ASSUME NEW x \in Nat, Field(x, 5) = Quot(x, 5)
    PROVE  x = Field(x, 1) + Field(x, 2) * Unit[2] + Field(x, 3) * Unit[3]
                 + Field(x, 4) * Unit[4] + Field(x, 5) * Unit[5]
<1> DEFINE Sum(k, j) == \E a \in Nat, b \in Nat, c \in Nat :
               /\ a = Quot(x, k) * Unit[k] /\ b = Quot(x, j) * Unit[j] /\ c = Field(x, k) * Unit[k]
               /\ a = b + c
<1>1. ASSUME NEW k \in 1 .. 4 PROVE Sum(k, k + 1)
  <2>1. k \in Levels /\ k + 1 \in Levels
    BY DEF Levels
  <2>2. PICK m \in Nat, u \in Nat : m = Sizes[k] /\ u = Unit[k] /\ Unit[k + 1] = u * m
    BY <2>1, SizesAre, UnitIs
  <2>3. PICK q \in Nat, p \in Nat, f \in Nat : q = Quot(x, k) /\ p = Quot(x, k + 1) /\ f = Field(x, k)
    BY <2>1, QuotIs
  <2>4. q = p * m + f
    BY <2>2, <2>3, QuotNext
  <2>5. q * u = p * (u * m) + f * u
    BY <2>4, Distribute
  <2>6. /\ q * u \in Nat /\ f * u \in Nat /\ p * (u * m) \in Nat
    <3>1. \A y, z \in Nat : y * z \in Nat
      BY ProductsGrow
    <3> QED BY <3>1
  <2>7. PICK a \in Nat, b \in Nat, c \in Nat : a = q * u /\ b = p * (u * m) /\ c = f * u /\ a = b + c
    BY <2>5, <2>6
  <2>8. a = Quot(x, k) * Unit[k] /\ b = Quot(x, k + 1) * Unit[k + 1] /\ c = Field(x, k) * Unit[k]
    BY <2>2, <2>3, <2>7, Zenon
  <2> QED BY <2>7, <2>8, Zenon
<1>2. Sum(1, 2) /\ Sum(2, 3) /\ Sum(3, 4) /\ Sum(4, 5)
  <2> HIDE DEF Sum
  <2>1. Sum(1, 1 + 1) /\ Sum(2, 2 + 1) /\ Sum(3, 3 + 1) /\ Sum(4, 4 + 1)
    BY <1>1
  <2> QED BY <2>1
<1>3. PICK a1 \in Nat, b1 \in Nat, c1 \in Nat :
        /\ a1 = Quot(x, 1) * Unit[1] /\ b1 = Quot(x, 2) * Unit[2] /\ c1 = Field(x, 1) * Unit[1]
        /\ a1 = b1 + c1
  BY <1>2, Zenon
<1>4. PICK b2 \in Nat, c2 \in Nat :
        b2 = Quot(x, 3) * Unit[3] /\ c2 = Field(x, 2) * Unit[2] /\ b1 = b2 + c2
  BY <1>2, <1>3, Zenon
<1>5. PICK b3 \in Nat, c3 \in Nat :
        b3 = Quot(x, 4) * Unit[4] /\ c3 = Field(x, 3) * Unit[3] /\ b2 = b3 + c3
  BY <1>2, <1>4, Zenon
<1>6. PICK b4 \in Nat, c4 \in Nat :
        b4 = Quot(x, 5) * Unit[5] /\ c4 = Field(x, 4) * Unit[4] /\ b3 = b4 + c4
  BY <1>2, <1>5, Zenon
<1>7. a1 = x /\ c1 = Field(x, 1)
  <2>1. Quot(x, 1) = x /\ Unit[1] = 1 /\ Field(x, 1) \in Nat
    BY QuotNext, UnitIs, QuotIs DEF Levels
  <2> QED BY <1>3, <2>1
<1>8. x = c1 + c2 + c3 + c4 + b4
  <2>1. x = b1 + c1 /\ b1 = b2 + c2 /\ b2 = b3 + c3 /\ b3 = b4 + c4
    BY <1>3, <1>4, <1>5, <1>6, <1>7, Zenon
  <2> QED BY <2>1
<1> QED BY <1>4, <1>5, <1>6, <1>7, <1>8, Zenon

LEMMA StampIsTime ==
    ASSUME NoOverflow, NEW x \in 0 .. LastTick, NEW i \in Intervals,
           NEW ix, \A k \in Levels : ix[k] = Field(x, k)
    PROVE  Stamp(ix, i) = x + i /\ x + i \in Nat \ {0} /\ x + i < DaySpan * Unit[5]
<1>1. x \in Nat /\ i \in Nat \ {0} /\ IntSpan \in Nat \ {0} /\ LongSpan \in Nat \ {0} /\ LastTick \in Nat
      /\ DaySpan * Unit[5] \in Nat
  <2>1. Unit[5] \in Nat /\ DaySpan \in Nat
    BY UnitIs, WheelAssumption DEF Levels
  <2>2. DaySpan * Unit[5] \in Nat
    BY <2>1, ProductsGrow
  <2>3. Intervals \subseteq Nat \ {0}
    BY WheelAssumption
  <2> QED BY <2>2, <2>3, WheelAssumption
<1>2. x + i < DaySpan * Unit[5] /\ x + i < LongSpan /\ x < IntSpan \div 2
  <2>1. LastTick + i < DaySpan * Unit[5] /\ LastTick + i < LongSpan /\ LastTick < IntSpan \div 2
    BY DEF NoOverflow
  <2> QED BY <1>1, <2>1
<1>3. x < DaySpan * Unit[5]
  BY <1>1, <1>2
<1>4. PICK sum \in Nat : /\ sum = ix[1] + ix[2] * Unit[2] + ix[3] * Unit[3] + ix[4] * Unit[4] + ix[5] * Unit[5]
                         /\ sum = x
  <2>1. ix[1] = Field(x, 1) /\ ix[2] = Field(x, 2) /\ ix[3] = Field(x, 3) /\ ix[4] = Field(x, 4) /\ ix[5] = Field(x, 5)
    BY DEF Levels
  <2>2. x = ix[1] + ix[2] * Unit[2] + ix[3] * Unit[3] + ix[4] * Unit[4] + ix[5] * Unit[5]
    BY <1>1, <1>3, <2>1, DaysCount, FieldsSum, Zenon
  <2> QED BY <1>1, <2>2, Zenon
<1>5. x % IntSpan = x
  <2>1. Divides(x, IntSpan, 0, x)
    BY <1>1, <1>2 DEF Divides
  <2> QED BY <1>1, <2>1, DivUnique
<1>6. (x + i) % LongSpan = x + i
  <2>1. Divides(x + i, LongSpan, 0, x + i)
    BY <1>1, <1>2 DEF Divides
  <2> QED BY <1>1, <2>1, DivUnique
<1>7. Stamp(ix, i) = (x + i) % LongSpan
  BY <1>2, <1>4, <1>5, Zenon DEF Stamp
<1> QED BY <1>1, <1>2, <1>6, <1>7

-----------------------------------------------------------------------------
(* When a list is served *)

\* A timer of time stamp v in a list of level j will have to wait there until time e,
\* y being the time that the index of level j shows.
Waiting(j, v, e, y) ==
    /\ \A m \in 1 .. j : Field(e, m) = Field(v, m)
    /\ j # 5 => Field(v, j) # 0
    /\ Quot(y, j) < Quot(e, j) /\ Quot(e, j) <= Quot(y, j) + Span(j)

WaitsIn(p, v, e, y) == \E j \in Levels : p = <<j, Slot(j, Field(v, j))>> /\ Waiting(j, v, e, y)

\* What is put on a level above the first, or on the first after the levels above
\* have come to agree with now, waits for the right turn.
LEMMA PlacedRight ==
    ASSUME NEW x \in Nat, NEW v \in Nat, x < v, v < DaySpan * Unit[5], NEW k \in Levels,
           k # 5 => Quot(v, k + 1) = Quot(x, k + 1),
           k # 1 => Field(v, k) # 0 /\ Quot(v, k) # Quot(x, k)
    PROVE  Waiting(k, v, v, x)
<1>1. PICK q \in Nat, r \in Nat, m \in Nat, f \in Nat, g \in Nat :
        q = Quot(x, k) /\ r = Quot(v, k) /\ m = Span(k) /\ f = Field(x, k) /\ g = Field(v, k)
  BY QuotIs, SpanIs
<1>2. q <= r
  BY <1>1, QuotOrder
<1>3. CASE k = 5
  <2>1. r < m
    BY <1>1, <1>3, DaysCount DEF Span
  <2> QED BY <1>1, <1>2, <1>3, <2>1 DEF Waiting
<1>4. CASE k # 5
  <2>1. k \in 1 .. 4
    BY <1>4 DEF Levels
  <2>2. r < q + m /\ (f < g <=> q < r)
    BY <1>1, <1>4, <2>1, SameAbove
  <2>3. q # r
    <3>1. k = 1 => q = x /\ r = v
      BY <1>1, QuotNext
    <3> QED BY <1>1, <3>1
  <2>4. g # 0
    BY <1>1, <1>2, <2>2, <2>3
  <2> QED BY <1>1, <1>2, <2>2, <2>3, <2>4 DEF Waiting
<1> QED BY <1>3, <1>4

LEMMA ReinsertedWaits ==
    ASSUME NEW x \in Nat, NEW v \in Nat, x < v, v < DaySpan * Unit[5],
           NEW ix, \A k \in Levels : ix[k] = Field(x, k)
    PROVE  WaitsIn(Reinserted(ix, v), v, v, x)
<1> DEFINE Ks == {m \in 2 .. 5 : Field(v, m) # 0 /\ Field(v, m) # ix[m]}
<1>1. PICK k \in Levels : /\ k \in Ks \cup {1} /\ \A m \in Ks : m <= k
                          /\ Reinserted(ix, v) = <<k, Slot(k, Field(v, k))>>
  <2>1. Ks \in SUBSET Levels
    BY DEF Levels
  <2>2. Reinserted(ix, v) = PlaceAt(v, Ks)
    BY DEF Reinserted
  <2> HIDE DEF Ks
  <2> QED BY <2>1, <2>2, PlaceAtIs
<1> DEFINE Same(m) == Quot(v, m) = Quot(x, m)
           Low(m) == Field(v, m) = 0 \/ Field(v, m) = Field(x, m)
<1>2. \A m \in 2 .. 5 : k < m => Low(m)
  <2>1. \A m \in 2 .. 5 : m \in Levels /\ ix[m] = Field(x, m)
    BY DEF Levels
  <2>2. \A m \in 2 .. 5 : k < m => m \notin Ks
    BY <1>1 DEF Levels
  <2> QED BY <2>1, <2>2
<1>3. Low(5) => Same(5)
  <2>1. Field(x, 5) = Quot(x, 5) /\ Field(v, 5) = Quot(v, 5)
    <3>1. x < DaySpan * Unit[5]
      <4>1. DaySpan \in Nat /\ Unit[5] \in Nat
        BY UnitIs, WheelAssumption DEF Levels
      <4>2. DaySpan * Unit[5] \in Nat
        BY <4>1, ProductsGrow
      <4> QED BY <4>2
    <3> QED BY <3>1, DaysCount
  <2>2. Quot(x, 5) \in Nat /\ Quot(v, 5) \in Nat /\ Quot(x, 5) <= Quot(v, 5)
    <3>1. 5 \in Levels
      BY DEF Levels
    <3> QED BY <3>1, QuotIs, QuotOrder
  <2> QED BY <2>1, <2>2
<1>4. ASSUME NEW m \in 1 .. 4, Low(m), Same(m + 1) PROVE Same(m)
  <2>1. m \in Levels
    BY DEF Levels
  <2>2. /\ Field(x, m) = Field(v, m) => Quot(x, m) = Quot(v, m)
        /\ Quot(x, m) < Quot(v, m) => Field(x, m) < Field(v, m)
    BY <1>4, SameAbove
  <2>3. Quot(x, m) \in Nat /\ Quot(v, m) \in Nat /\ Field(x, m) \in Nat /\ Quot(x, m) <= Quot(v, m)
    BY <2>1, QuotIs, QuotOrder
  <2> QED BY <1>4, <2>2, <2>3
<1>5. \A m \in 2 .. 5 : k < m => Same(m)
  <2> HIDE DEF Same, Low
  <2>1. k < 5 => Same(5)
    BY <1>2, <1>3
  <2>2. k < 4 => Same(4)
    <3>1. Low(4) /\ Same(4 + 1) => Same(4)
      BY <1>4
    <3> QED BY <1>2, <2>1, <3>1 DEF Levels
  <2>3. k < 3 => Same(3)
    <3>1. Low(3) /\ Same(3 + 1) => Same(3)
      BY <1>4
    <3> QED BY <1>2, <2>2, <3>1 DEF Levels
  <2>4. k < 2 => Same(2)
    <3>1. Low(2) /\ Same(2 + 1) => Same(2)
      BY <1>4
    <3> QED BY <1>2, <2>3, <3>1 DEF Levels
  <2> QED BY <2>1, <2>2, <2>3, <2>4
<1>6. k # 5 => Quot(v, k + 1) = Quot(x, k + 1)
  <2> HIDE DEF Same
  <2>1. k # 5 => Same(k + 1)
    BY <1>5 DEF Levels
  <2> QED BY <2>1 DEF Same
<1>7. k # 1 => Field(v, k) # 0 /\ Quot(v, k) # Quot(x, k)
  <2>1. k # 1 => k \in Ks
    BY <1>1
  <2>2. k # 1 => Field(v, k) # 0 /\ Field(v, k) # Field(x, k)
    BY <2>1 DEF Levels
  <2>3. Quot(v, k) = Quot(x, k) => Field(v, k) = Field(x, k)
    BY DEF Field, Quot
  <2> QED BY <2>2, <2>3
<1>8. Waiting(k, v, v, x)
  BY <1>6, <1>7, PlacedRight
<1> QED BY <1>1, <1>8 DEF WaitsIn

\* A unit is a multiple of the smaller ones.
LEMMA UnitMultiple ==
    ASSUME NEW j \in Levels, NEW k \in Levels, j <= k
    PROVE  \E c \in Nat : Unit[k] = c * Unit[j]
<1> DEFINE M(i, l) == \E c \in Nat : Unit[l] = c * Unit[i]
<1>1. ASSUME NEW i \in Levels PROVE M(i, i)
  <2>1. PICK u \in Nat : u = Unit[i]
    BY UnitIs
  <2>2. u = 1 * u
    BY <2>1
  <2> QED BY <2>1, <2>2
<1>2. ASSUME NEW i \in Levels, NEW l \in 1 .. 4, M(i, l) PROVE M(i, l + 1)
  <2>1. PICK c \in Nat : Unit[l] = c * Unit[i]
    BY <1>2
  <2>2. PICK u \in Nat, s \in Nat : u = Unit[i] /\ s = Sizes[l]
    BY UnitIs, SizesAre
  <2>3. Unit[l + 1] = (c * u) * s
    BY <2>1, <2>2, UnitIs
  <2>4. (c * u) * s = (c * s) * u /\ c * s \in Nat
    <3>1. c * s \in Nat
      BY ProductsGrow
    <3>2. (c * u) * s = (c * s) * u
      OBVIOUS
    <3> QED BY <3>1, <3>2
  <2> QED BY <2>2, <2>3, <2>4
<1> HIDE DEF M
<1>3. \A i \in Levels : \A l \in 1 .. 4 : M(i, l) => M(i, l + 1)
  BY <1>2
<1>4. \A l \in 1 .. 4 : l \in Levels /\ l + 1 \in Levels
  BY DEF Levels
<1>5. j <= 1 => M(j, 1)
  BY <1>1 DEF Levels
<1>6. j <= 2 => M(j, 2)
  <2>1. M(j, 1) => M(j, 1 + 1)
    BY <1>3
  <2> QED BY <1>1, <1>5, <2>1 DEF Levels
<1>7. j <= 3 => M(j, 3)
  <2>1. M(j, 2) => M(j, 2 + 1)
    BY <1>3
  <2> QED BY <1>1, <1>6, <2>1 DEF Levels
<1>8. j <= 4 => M(j, 4)
  <2>1. M(j, 3) => M(j, 3 + 1)
    BY <1>3
  <2> QED BY <1>1, <1>7, <2>1 DEF Levels
<1>9. j <= 5 => M(j, 5)
  <2>1. M(j, 4) => M(j, 4 + 1)
    BY <1>3
  <2> QED BY <1>1, <1>8, <2>1 DEF Levels
<1>10. M(j, k)
  BY <1>5, <1>6, <1>7, <1>8, <1>9 DEF Levels
<1> QED BY <1>10 DEF M

\* Whole turns later
LEMMA DivLater ==
    ASSUME NEW v \in Nat, NEW c \in Nat, NEW u \in Nat \ {0}
    PROVE  (v + c * u) \div u = v \div u + c /\ (v + c * u) % u = v % u
<1>1. PICK q \in Nat, r \in 0 .. u - 1 : q = v \div u /\ r = v % u /\ v = q * u + r
  BY DivParts
<1>2. PICK p \in Nat : p = c * u
  BY ProductsGrow
<1>3. (q + c) * u = q * u + c * u /\ q * u \in Nat
  <2>1. q * u \in Nat
    BY ProductsGrow
  <2>2. (q + c) * u = q * u + c * u
    OBVIOUS
  <2> QED BY <2>1, <2>2
<1>4. Divides(v + p, u, q + c, r)
  BY <1>1, <1>2, <1>3 DEF Divides
<1>5. (v + p) \div u = q + c /\ (v + p) % u = r
  BY <1>4, DivUnique
<1> QED BY <1>1, <1>2, <1>5, Zenon

LEMMA TurnLater ==
    ASSUME NEW v \in Nat, NEW k \in 2 .. 5
    PROVE  \E e \in Nat : /\ v <= e /\ (e - v) % Unit[3] = 0
                          /\ Quot(e, k) = Quot(v, k) + Span(k)
                          /\ \A m \in 1 .. k : Field(e, m) = Field(v, m)
<1>1. k \in Levels
  BY DEF Levels
<1>2. PICK u \in Nat \ {0}, s \in Nat \ {0} : u = Unit[k] /\ s = Span(k)
  BY <1>1, UnitIs, SpanIs
<1>3. PICK d \in Nat, e \in Nat : d = s * u /\ e = v + d
  BY ProductsGrow
<1>4. Quot(e, k) = Quot(v, k) + Span(k)
  BY <1>2, <1>3, DivLater, Zenon DEF Quot
<1>5. Field(e, k) = Field(v, k)
  <2>1. PICK q \in Nat : q = Quot(v, k)
    BY <1>1, QuotIs
  <2>2. (q + 1 * s) % s = q % s /\ 1 * s = s
    <3>1. \A c \in Nat : (q + c * s) % s = q % s
      BY DivLater
    <3>2. 1 \in Nat /\ 1 * s = s
      OBVIOUS
    <3> QED BY <3>1, <3>2, Zenon
  <2>3. Field(e, k) = (q + s) % s /\ Field(v, k) = q % s
    BY <1>1, <1>2, <1>4, <2>1, QuotIs
  <2> QED BY <2>2, <2>3
<1>6. ASSUME NEW m \in 1 .. k - 1
      PROVE  /\ Field(e, m) = Field(v, m)
             /\ \E c \in Nat : d = c * Unit[m + 1]
  <2>1. m \in Levels /\ m # 5 /\ m \in 1 .. 4 /\ m + 1 \in Levels /\ m + 1 <= k
    BY DEF Levels
  <2>2. PICK c \in Nat : u = c * Unit[m + 1]
    BY <1>1, <1>2, <2>1, UnitMultiple
  <2>3. PICK y \in Nat \ {0}, z \in Nat \ {0} : y = Unit[m] /\ z = Span(m) /\ Unit[m + 1] = y * z
    BY <2>1, UnitIs, SpanIs
  <2>4. PICK b \in Nat : b = s * c
    BY ProductsGrow
  <2>5. s * (c * (y * z)) = (s * c) * (y * z) /\ (b * z) * y = b * (y * z)
    <3>1. PICK w \in Nat : w = y * z
      BY ProductsGrow
    <3>2. s * (c * w) = (s * c) * w
      OBVIOUS
    <3>3. (b * z) * y = b * (y * z)
      OBVIOUS
    <3> QED BY <3>1, <3>2, <3>3, Zenon
  <2>6. d = b * (y * z)
    BY <1>3, <2>2, <2>3, <2>4, <2>5, Zenon
  <2>7. PICK a \in Nat : a = b * z
    BY ProductsGrow
  <2>8. e = v + a * y
    BY <1>3, <2>5, <2>6, <2>7
  <2>9. Quot(e, m) = Quot(v, m) + a
    <3>1. (v + a * y) \div y = v \div y + a
      BY DivLater
    <3> QED BY <2>3, <2>8, <3>1, Zenon DEF Quot
  <2>10. PICK q \in Nat : q = Quot(v, m)
    BY <2>1, QuotIs
  <2>11. (q + b * z) % z = q % z
    BY DivLater
  <2>12. Field(e, m) = (q + a) % z /\ Field(v, m) = q % z
    BY <2>1, <2>3, <2>9, <2>10, QuotIs
  <2> QED BY <2>3, <2>6, <2>7, <2>11, <2>12, Zenon
<1>7. (e - v) % Unit[3] = 0
  <2>1. PICK c \in Nat : d = c * Unit[3]
    <3>1. \E c \in Nat : d = c * Unit[2 + 1]
      <4>1. CASE k = 2
        <5>1. Unit[2 + 1] = u * s
          BY <1>2, <4>1, UnitIs, SpanIs DEF Levels
        <5>2. d = 1 * (u * s)
          <6>1. s * u = u * s /\ u * s \in Nat
            BY ProductsGrow
          <6> QED BY <1>3, <6>1
        <5> QED BY <5>1, <5>2, Zenon
      <4>2. CASE k # 2
        <5>1. 2 \in 1 .. k - 1
          BY <4>2
        <5> QED BY <1>6, <5>1
      <4> QED BY <4>1, <4>2
    <3> QED BY <3>1
  <2>2. PICK y \in Nat \ {0} : y = Unit[3]
    BY UnitIs DEF Levels
  <2>3. Divides(d, y, c, 0)
    BY <2>1, <2>2 DEF Divides
  <2>4. d % y = 0
    BY <2>3, DivUnique
  <2>5. e - v = d
    BY <1>3
  <2> QED BY <2>2, <2>4, <2>5, Zenon
<1>8. v <= e /\ \A m \in 1 .. k : Field(e, m) = Field(v, m)
  <2>1. v <= e
    BY <1>3
  <2>2. \A m \in 1 .. k : m = k \/ m \in 1 .. k - 1
    OBVIOUS
  <2> QED BY <1>5, <1>6, <2>1, <2>2, Zenon
<1> QED BY <1>4, <1>7, <1>8, Zenon

LEMMA AddedWaits ==
    ASSUME NEW x \in Nat, NEW v \in Nat, x < v, v < DaySpan * Unit[5]
    PROVE  \E e \in Nat : /\ WaitsIn(Added(v), v, e, x)
                          /\ v <= e /\ (e - v) % Unit[3] = 0
                          /\ x = 0 => e = v
<1> DEFINE Ks == {m \in 2 .. 5 : Field(v, m) # 0}
<1>1. PICK k \in Levels : /\ k \in Ks \cup {1} /\ \A m \in Ks : m <= k
                          /\ Added(v) = <<k, Slot(k, Field(v, k))>>
  <2>1. Ks \in SUBSET Levels
    BY DEF Levels
  <2>2. Added(v) = PlaceAt(v, Ks)
    BY DEF Added
  <2> HIDE DEF Ks
  <2> QED BY <2>1, <2>2, PlaceAtIs
<1> DEFINE None0(m) == Quot(v, m) = 0
<1>2. \A m \in 2 .. 5 : k < m => Field(v, m) = 0
  <2>1. \A m \in 2 .. 5 : k < m => m \notin Ks
    BY <1>1 DEF Levels
  <2> QED BY <2>1
<1>3. Field(v, 5) = 0 => None0(5)
  BY DaysCount
<1>4. ASSUME NEW m \in 1 .. 4, Field(v, m) = 0, None0(m + 1) PROVE None0(m)
  <2>1. Quot(v, m) = 0 * Sizes[m] + 0
    BY <1>4, QuotNext
  <2>2. Sizes[m] \in Nat
    BY SizesAre
  <2> QED BY <2>1, <2>2
<1>5. k # 5 => None0(k + 1)
  <2> HIDE DEF None0
  <2>1. k < 5 => None0(5)
    BY <1>2, <1>3
  <2>2. k < 4 => None0(4)
    <3>1. Field(v, 4) = 0 /\ None0(4 + 1) => None0(4)
      BY <1>4
    <3> QED BY <1>2, <2>1, <3>1 DEF Levels
  <2>3. k < 3 => None0(3)
    <3>1. Field(v, 3) = 0 /\ None0(3 + 1) => None0(3)
      BY <1>4
    <3> QED BY <1>2, <2>2, <3>1 DEF Levels
  <2>4. k < 2 => None0(2)
    <3>1. Field(v, 2) = 0 /\ None0(2 + 1) => None0(2)
      BY <1>4
    <3> QED BY <1>2, <2>3, <3>1 DEF Levels
  <2> QED BY <2>1, <2>2, <2>3, <2>4 DEF Levels
<1>6. k # 5 => Quot(v, k + 1) = Quot(x, k + 1)
  <2>1. SUFFICES ASSUME k # 5 PROVE Quot(v, k + 1) = Quot(x, k + 1)
    OBVIOUS
  <2>2. k + 1 \in Levels
    BY <2>1 DEF Levels
  <2>3. Quot(x, k + 1) \in Nat /\ Quot(x, k + 1) <= Quot(v, k + 1)
    BY <2>2, QuotIs, QuotOrder
  <2> QED BY <1>5, <2>1, <2>3
<1>7. k # 1 => k \in 2 .. 5 /\ Field(v, k) # 0
  BY <1>1 DEF Levels
<1>8. CASE k = 1 \/ Quot(v, k) # Quot(x, k)
  <2>1. Waiting(k, v, v, x)
    BY <1>6, <1>7, <1>8, PlacedRight
  <2>2. WaitsIn(Added(v), v, v, x)
    BY <1>1, <2>1 DEF WaitsIn
  <2>3. (v - v) % Unit[3] = 0
    <3>1. PICK u \in Nat \ {0} : u = Unit[3]
      BY UnitIs DEF Levels
    <3>2. Divides(0, u, 0, 0)
      BY DEF Divides
    <3>3. 0 % u = 0 /\ v - v = 0
      BY <3>2, DivUnique
    <3> QED BY <3>1, <3>3, Zenon
  <2> QED BY <2>2, <2>3
<1>9. CASE k # 1 /\ Quot(v, k) = Quot(x, k)
  <2>1. PICK e \in Nat : /\ v <= e /\ (e - v) % Unit[3] = 0
                         /\ Quot(e, k) = Quot(v, k) + Span(k)
                         /\ \A m \in 1 .. k : Field(e, m) = Field(v, m)
    BY <1>7, <1>9, TurnLater
  <2>2. PICK q \in Nat, s \in Nat \ {0} : q = Quot(x, k) /\ s = Span(k)
    BY QuotIs, SpanIs
  <2>3. Quot(x, k) < Quot(e, k) /\ Quot(e, k) <= Quot(x, k) + Span(k)
    BY <1>9, <2>1, <2>2
  <2>4. Waiting(k, v, e, x)
    BY <1>7, <1>9, <2>1, <2>3 DEF Waiting
  <2>5. x # 0
    <3>1. SUFFICES ASSUME x = 0 PROVE FALSE
      OBVIOUS
    <3>2. Quot(0, k) = 0
      <4>1. PICK u \in Nat \ {0} : u = Unit[k]
        BY UnitIs
      <4>2. Divides(0, u, 0, 0)
        BY DEF Divides
      <4>3. 0 \div u = 0
        BY <4>2, DivUnique
      <4> QED BY <4>1, <4>3 DEF Quot
    <3>3. Divides(0, s, 0, 0)
      BY DEF Divides
    <3>4. 0 % s = 0
      BY <3>3, DivUnique
    <3>5. Field(v, k) = Quot(v, k) % Span(k)
      BY QuotIs
    <3> QED BY <1>7, <1>9, <2>2, <3>1, <3>2, <3>4, <3>5
  <2> QED BY <1>1, <2>1, <2>4, <2>5 DEF WaitsIn
<1> QED BY <1>8, <1>9

\* The index of level k moves on to time x + 1.
LEMMA StillWaiting ==
    ASSUME NEW x \in Nat, NEW v \in Nat, NEW e \in Nat, NEW k \in Levels, Waiting(k, v, e, x),
           Wraps(x + 1, k) => Field(v, k) # Field(x + 1, k)
    PROVE  Waiting(k, v, e, x + 1)
<1>1. PICK q \in Nat, n \in Nat, r \in Nat, s \in Nat :
        q = Quot(x, k) /\ n = Quot(x + 1, k) /\ r = Quot(e, k) /\ s = Span(k)
  <2>1. Quot(x, k) \in Nat /\ Quot(x + 1, k) \in Nat /\ Quot(e, k) \in Nat
    BY QuotIs
  <2>2. Span(k) \in Nat
    BY SpanIs
  <2> QED BY <2>1, <2>2, Zenon
<1>2. n = IF Wraps(x + 1, k) THEN q + 1 ELSE q
  BY <1>1, Carry
<1>3. Wraps(x + 1, k) => n # r
  <2>1. Field(e, k) = Field(v, k)
    BY DEF Waiting, Levels
  <2>2. n = r => Field(x + 1, k) = Field(e, k)
    BY <1>1 DEF Field, Quot
  <2> QED BY <2>1, <2>2
<1>4. q < r /\ r <= q + s
  BY <1>1 DEF Waiting
<1>5. n < r /\ r <= n + s
  BY <1>2, <1>3, <1>4
<1> QED BY <1>1, <1>5 DEF Waiting

LEMMA TurnCome ==
    ASSUME NEW x \in Nat, NEW v \in Nat, NEW e \in Nat, NEW k \in Levels, Waiting(k, v, e, x),
           Wraps(x + 1, k), Field(v, k) = Field(x + 1, k)
    PROVE  Quot(e, k) = Quot(x + 1, k)
<1>1. PICK q \in Nat, n \in Nat, r \in Nat, s \in Nat \ {0} :
        q = Quot(x, k) /\ n = Quot(x + 1, k) /\ r = Quot(e, k) /\ s = Span(k)
  <2>1. Quot(x, k) \in Nat /\ Quot(x + 1, k) \in Nat /\ Quot(e, k) \in Nat
    BY QuotIs
  <2>2. Span(k) \in Nat \ {0}
    BY SpanIs
  <2> QED BY <2>1, <2>2, Zenon
<1>2. n = q + 1
  BY <1>1, Carry
<1>3. q < r /\ r <= q + s
  BY <1>1 DEF Waiting
<1>4. n % s = r % s
  <2>1. Field(e, k) = Field(v, k)
    BY DEF Waiting, Levels
  <2> QED BY <1>1, <2>1, QuotIs
<1>5. n <= r /\ r < n + s
  BY <1>2, <1>3
<1> QED BY <1>1, <1>4, <1>5, SameTurn

\* A list whose turn has come: its timers move down to where they wait the rest of
\* their time, or the time is now.
LEMMA ComesDown ==
    ASSUME NEW n \in Nat, NEW v \in Nat, NEW e \in Nat, NEW k \in Levels,
           \A m \in 1 .. k : Field(e, m) = Field(v, m), Wraps(n, k), Quot(e, k) = Quot(n, k)
    PROVE  IF Below(v, k) = {}
           THEN e = n
           ELSE \E j \in 1 .. k - 1 : /\ PlaceAt(v, Below(v, k)) = <<j, Slot(j, Field(v, j))>>
                                      /\ Waiting(j, v, e, n)
<1> DEFINE Gone(m) == m <= k /\ \A i \in 1 .. k - 1 : m <= i => Field(v, i) = 0
           Eq(m) == Gone(m) => Quot(e, m) = Quot(n, m)
<1>1. Eq(5)
  BY DEF Levels
<1>2. ASSUME NEW m \in 1 .. 4, Eq(m + 1) PROVE Eq(m)
  <2>1. SUFFICES ASSUME Gone(m), m # k PROVE Quot(e, m) = Quot(n, m)
    OBVIOUS
  <2>2. m \in 1 .. k - 1 /\ Gone(m + 1)
    BY <2>1 DEF Levels
  <2>3. Quot(e, m + 1) = Quot(n, m + 1)
    BY <1>2, <2>2
  <2>4. Field(v, m) = 0
    BY <2>1, <2>2
  <2>5. Field(e, m) = 0 /\ Field(n, m) = 0
    BY <2>2, <2>4 DEF Wraps, Levels
  <2> QED BY <2>3, <2>5, SameAbove
<1> HIDE DEF Eq
<1>3. Eq(1) /\ Eq(2) /\ Eq(3) /\ Eq(4)
  <2>1. Eq(4 + 1) => Eq(4)
    BY <1>2
  <2>2. Eq(3 + 1) => Eq(3)
    BY <1>2
  <2>3. Eq(2 + 1) => Eq(2)
    BY <1>2
  <2>4. Eq(1 + 1) => Eq(1)
    BY <1>2
  <2> QED BY <1>1, <2>1, <2>2, <2>3, <2>4
<1>4. \A m \in Levels : Eq(m)
  BY <1>1, <1>3 DEF Levels
<1>5. CASE Below(v, k) = {}
  <2>1. Gone(1)
    BY <1>5 DEF Below, Levels
  <2>2. Quot(e, 1) = Quot(n, 1)
    BY <1>3, <2>1 DEF Eq
  <2> QED BY <1>5, <2>2, QuotNext
<1>6. CASE Below(v, k) # {}
  <2>1. Below(v, k) \in SUBSET Levels
    BY DEF Below, Levels
  <2>2. PICK j \in Levels : /\ j \in Below(v, k) \cup {1} /\ \A m \in Below(v, k) : m <= j
                            /\ PlaceAt(v, Below(v, k)) = <<j, Slot(j, Field(v, j))>>
    BY <2>1, PlaceAtIs
  <2>3. PICK b \in Below(v, k) : b \in 1 .. k - 1
    BY <1>6 DEF Below
  <2>4. j \in Below(v, k)
    BY <2>2, <2>3 DEF Levels
  <2>5. j \in 1 .. k - 1 /\ Field(v, j) # 0 /\ j \in 1 .. 4 /\ j + 1 \in Levels
    BY <2>4 DEF Below, Levels
  <2>6. Gone(j + 1)
    <3>1. \A i \in 1 .. k - 1 : j + 1 <= i => i \notin Below(v, k)
      BY <2>2 DEF Levels
    <3> QED BY <2>5, <3>1 DEF Below, Levels
  <2>7. Quot(e, j + 1) = Quot(n, j + 1)
    BY <1>4, <2>5, <2>6 DEF Eq
  <2>8. Field(n, j) = 0 /\ Field(e, j) = Field(v, j) /\ Field(e, j) \in Nat
    <3>1. Field(e, j) = Field(v, j) /\ Field(e, j) \in Nat
      <4>1. j \in 1 .. k
        BY <2>5 DEF Levels
      <4> QED BY <2>2, <4>1, QuotIs
    <3>2. Field(n, j) = 0
      BY <2>5 DEF Wraps
    <3> QED BY <3>1, <3>2
  <2>9. /\ Quot(n, j) < Quot(e, j) /\ Quot(e, j) < Quot(n, j) + Span(j)
    BY <2>5, <2>7, <2>8, SameAbove
  <2>10. Quot(n, j) \in Nat /\ Quot(e, j) \in Nat /\ Span(j) \in Nat
    BY <2>2, QuotIs, SpanIs
  <2>11. Quot(e, j) <= Quot(n, j) + Span(j)
    BY <2>9, <2>10
  <2>12. \A m \in 1 .. j : Field(e, m) = Field(v, m)
    BY <2>5 DEF Levels
  <2>13. Waiting(j, v, e, n)
    BY <2>5, <2>9, <2>11, <2>12 DEF Waiting
  <2> QED BY <1>6, <2>2, <2>5, <2>13
<1> QED BY <1>5, <1>6

-----------------------------------------------------------------------------
(* A tick on time *)

\* The time that level m shows when the levels up to k have had their turn
At(k, m) == IF m <= k THEN now + 1 ELSE now

IndexAt(w, k) == \A m \in Levels : w.idx[m] = Field(At(k, m), m)

\* When they have, a timer that has to wait until time e waits in the right list, or
\* has fired now because e has come, and waits for its next firing.
OnTime(w, k, t, e) ==
    \/ /\ w.firing[t] = 0 /\ w.next[t] = next[t]
       /\ \E j \in Levels : /\ w.place[t] = <<j, Slot(j, Field(next[t], j))>>
                            /\ Waiting(j, next[t], e, At(k, j))
    \/ /\ w.firing[t] = 1 /\ e = now + 1
       /\ k # 5 => ~Wraps(now + 1, k + 1)
       /\ \/ w.place[t] = Spent
          \/ /\ w.next[t] = now + 1 + interval[t]
             /\ WaitsIn(w.place[t], w.next[t], w.next[t], now + 1)

LEMMA IndexTurns ==
    ASSUME now \in Nat, NEW w, WheelOK(w), NEW v, NEW k \in Levels,
           IndexAt(w, k - 1), TurnedTo(w.idx, v.idx, k)
    PROVE  IndexAt(v, k) /\ (Wrapped(w.idx, k) <=> Wraps(now + 1, k))
<1>1. \A m \in Levels : w.idx[m] = Field(IF m < k THEN now + 1 ELSE now, m)
  <2>1. \A m \in Levels : m <= k - 1 <=> m < k
    BY DEF Levels
  <2> QED BY <2>1, Zenon DEF IndexAt, At
<1>2. Wrapped(w.idx, k) <=> Wraps(now + 1, k)
  <2>1. \A j \in 1 .. k - 1 : w.idx[j] = Field(now + 1, j)
    BY <1>1 DEF Levels
  <2> QED BY <2>1, Zenon DEF Wrapped, Wraps
<1>3. \A m \in Levels : k < m => ~(m <= k)
  BY DEF Levels
<1>4. ASSUME NEW m \in Levels PROVE v.idx[m] = Field(At(k, m), m)
  <2>1. CASE m # k
    <3>1. v.idx[m] = w.idx[m]
      <4>1. w.idx \in [Levels -> Nat] /\ \A l \in Levels : w.idx[l] < Span(l)
        BY DEF WheelOK, Wheels
      <4>2. Turned(w.idx, k)[m] = w.idx[m]
        BY <2>1, <4>1, TurnedIs
      <4> QED BY <4>2, Zenon DEF TurnedTo
    <3>2. m < k <=> m <= k
      BY <2>1 DEF Levels
    <3> QED BY <1>1, <3>1, <3>2, Zenon DEF At
  <2>2. CASE m = k
    <3>1. w.idx \in [Levels -> Nat] /\ \A l \in Levels : w.idx[l] < Span(l)
      BY DEF WheelOK, Wheels
    <3>2. Turned(w.idx, k)[k] = (w.idx[k] + 1) % Span(k)
      BY <3>1, TurnedIs
    <3>3. w.idx[k] = Field(now, k)
      <4>1. ~(k < k)
        BY DEF Levels
      <4> QED BY <1>1, <4>1, Zenon
    <3>4. v.idx[k] = IF Wraps(now + 1, k) THEN (Field(now, k) + 1) % Span(k) ELSE Field(now, k)
      BY <1>2, <3>2, <3>3, Zenon DEF TurnedTo
    <3>5. v.idx[k] = Field(now + 1, k)
      BY <3>4, FieldNext, Zenon
    <3>6. k <= k
      BY DEF Levels
    <3> QED BY <2>2, <3>5, <3>6, Zenon DEF At
  <2> QED BY <2>1, <2>2
<1> QED BY <1>2, <1>4 DEF IndexAt

LEMMA TimerOnTime ==
    ASSUME NoOverflow, now \in Nat, now + 1 \in 0 .. LastTick, NEW k \in Levels,
           NEW w, WheelOK(w), NEW v, IndexAt(v, k), Wrapped(w.idx, k) <=> Wraps(now + 1, k),
           NEW t \in Timers, TimerServed(w, v, t, k), interval[t] \in Intervals, next[t] \in Nat,
           NEW e \in Nat, OnTime(w, k - 1, t, e)
    PROVE  OnTime(v, k, t, e)
<1> DEFINE x == next[t]
<1>1. k = 5 \/ k + 1 \in Levels
  BY DEF Levels
<1>2. CASE w.firing[t] = 1
  <2>1. ~Wraps(now + 1, k) /\ e = now + 1
        /\ \/ w.place[t] = Spent
           \/ /\ w.next[t] = now + 1 + interval[t]
              /\ WaitsIn(w.place[t], w.next[t], w.next[t], now + 1)
    <3>1. k - 1 # 5 /\ k - 1 + 1 = k
      BY DEF Levels
    <3>2. w.firing[t] # 0
      BY <1>2
    <3> QED BY <3>1, <3>2, Zenon DEF OnTime
  <2>2. /\ v.place[t] = w.place[t] /\ v.next[t] = w.next[t] /\ v.firing[t] = 1
    BY <1>2, <2>1, Zenon DEF TimerServed, Passed
  <2>3. ~Wraps(now + 1, k + 1)
    BY <2>1, WrapsNext
  <2> QED BY <2>1, <2>2, <2>3, Zenon DEF OnTime
<1>3. CASE w.firing[t] # 1
  <2>1. /\ w.firing[t] = 0 /\ w.next[t] = x
        /\ \E j \in Levels : w.place[t] = <<j, Slot(j, Field(x, j))>> /\ Waiting(j, x, e, At(k - 1, j))
    BY <1>3, Zenon DEF OnTime
  <2>2. PICK j \in Levels : w.place[t] = <<j, Slot(j, Field(x, j))>> /\ Waiting(j, x, e, At(k - 1, j))
    BY <2>1
  <2>3. SUFFICES ASSUME ~(v.firing[t] = 0 /\ v.next[t] = x /\ v.place[t] = w.place[t] /\ Waiting(j, x, e, At(k, j)))
                 PROVE  OnTime(v, k, t, e)
    BY <2>2, Zenon DEF OnTime
  <2>4. CASE j # k
    <3>1. ~Reached(w.place[t], w.next[t], k, v.idx[k])
      BY <2>2, <2>4 DEF Reached
    <3>2. /\ v.place[t] = w.place[t] /\ v.next[t] = w.next[t] /\ v.firing[t] = w.firing[t]
      BY <3>1, Zenon DEF TimerServed, ServedTimer, Passed
    <3>3. j <= k <=> j <= k - 1
      BY <2>4 DEF Levels
    <3>4. At(k, j) = At(k - 1, j)
      BY <3>3, Zenon DEF At
    <3> QED BY <2>1, <2>2, <2>3, <3>2, <3>4, Zenon
  <2>5. CASE j = k
    <3>1. At(k - 1, j) = now /\ At(k, j) = now + 1
      <4>1. ~(k <= k - 1) /\ k <= k
        BY DEF Levels
      <4> QED BY <2>5, <4>1, Zenon DEF At
    <3>2. Waiting(k, x, e, now)
      BY <2>2, <2>5, <3>1, Zenon
    <3>3. v.idx[k] = Field(now + 1, k)
      BY <2>5, <3>1, Zenon DEF IndexAt
    <3>4. Reached(w.place[t], w.next[t], k, v.idx[k]) <=> Field(x, k) = Field(now + 1, k)
      <4>1. Reached(w.place[t], w.next[t], k, v.idx[k])
              <=> Slot(k, Field(x, k)) = Slot(k, Field(now + 1, k)) /\ (k = 5 => Field(x, 5) = Field(now + 1, k))
        BY <2>1, <2>2, <2>5, <3>3 DEF Reached
      <4> QED BY <4>1 DEF Slot
    <3>5. Wraps(now + 1, k) /\ Field(x, k) = Field(now + 1, k)
      <4>1. SUFFICES ASSUME ~(Wraps(now + 1, k) /\ Field(x, k) = Field(now + 1, k)) PROVE FALSE
        OBVIOUS
      <4>2. Waiting(k, x, e, now + 1)
        BY <3>2, <4>1, StillWaiting
      <4>3. /\ v.place[t] = w.place[t] /\ v.next[t] = w.next[t] /\ v.firing[t] = w.firing[t]
        BY <3>4, <4>1, Zenon DEF TimerServed, ServedTimer, Passed
      <4> QED BY <2>1, <2>3, <2>5, <3>1, <4>2, <4>3, Zenon
    <3>6. Quot(e, k) = Quot(now + 1, k)
      BY <3>2, <3>5, TurnCome
    <3>7. \A m \in 1 .. k : Field(e, m) = Field(x, m)
      BY <3>2, Zenon DEF Waiting
    <3>8. IF Below(x, k) = {}
          THEN e = now + 1
          ELSE \E i \in 1 .. k - 1 : /\ PlaceAt(x, Below(x, k)) = <<i, Slot(i, Field(x, i))>>
                                     /\ Waiting(i, x, e, now + 1)
      <4>1. now + 1 \in Nat
        OBVIOUS
      <4> QED BY <3>5, <3>6, <3>7, <4>1, ComesDown
    <3>9. \/ MovedDown(w.place[t], w.ttl[t], x, 0, v.place[t], v.ttl[t], v.next[t], v.firing[t], k)
          \/ FiredLast(w.place[t], w.ttl[t], x, 0, v.place[t], v.ttl[t], v.next[t], v.firing[t], k)
          \/ FiredAgain(w.place[t], w.ttl[t], x, 0, v.place[t], v.ttl[t], v.next[t], v.firing[t],
                        k, v.idx, interval[t])
      BY <2>1, <3>4, <3>5, Zenon DEF TimerServed, ServedTimer
    <3>10. CASE Below(x, k) # {}
      <4>1. /\ v.place[t] = PlaceAt(x, Below(x, k)) /\ v.next[t] = x /\ v.firing[t] = 0
        BY <3>9, <3>10, Zenon DEF MovedDown, FiredLast, FiredAgain
      <4>2. PICK i \in 1 .. k - 1 : /\ PlaceAt(x, Below(x, k)) = <<i, Slot(i, Field(x, i))>>
                                    /\ Waiting(i, x, e, now + 1)
        BY <3>8, <3>10
      <4>3. i \in Levels /\ i <= k
        BY DEF Levels
      <4>4. At(k, i) = now + 1
        BY <4>3, Zenon DEF At
      <4> QED BY <4>1, <4>2, <4>3, <4>4, Zenon DEF OnTime
    <3>11. CASE Below(x, k) = {}
      <4>1. e = now + 1
        BY <3>8, <3>11
      <4>2. k # 5 => ~Wraps(now + 1, k + 1)
        <5>1. k # 5 => Field(x, k) # 0
          BY <3>2, Zenon DEF Waiting
        <5> QED BY <3>5, <5>1, WrapsNext
      <4>3. v.firing[t] = 1
        <5>1. v.firing[t] = 0 + 1
          BY <3>9, <3>11, Zenon DEF MovedDown, FiredLast, FiredAgain
        <5> QED BY <5>1
      <4>4. v.place[t] = Spent \/ /\ v.next[t] = Stamp(v.idx, interval[t])
                                  /\ v.place[t] = Reinserted(v.idx, v.next[t])
        BY <3>9, <3>11, Zenon DEF MovedDown, FiredLast, FiredAgain
      <4>5. \A m \in Levels : v.idx[m] = Field(now + 1, m)
        <5>1. SUFFICES ASSUME NEW m \in Levels, k < m PROVE Field(now, m) = Field(now + 1, m)
          <6>1. \A m \in Levels : m <= k \/ k < m
            BY DEF Levels
          <6> QED BY <6>1, Zenon DEF IndexAt, At
        <5>2. ~Wraps(now + 1, m)
          <6>1. k \in 1 .. m - 1 /\ k # 5
            BY <5>1 DEF Levels
          <6>2. Field(now + 1, k) # 0
            BY <3>2, <3>5, <6>1, Zenon DEF Waiting
          <6> QED BY <6>1, <6>2 DEF Wraps
        <5> QED BY <5>2, FieldNext
      <4>6. Stamp(v.idx, interval[t]) = now + 1 + interval[t] /\ now + 1 + interval[t] \in Nat
            /\ now + 1 + interval[t] < DaySpan * Unit[5]
        BY <4>5, StampIsTime
      <4>7. WaitsIn(Reinserted(v.idx, now + 1 + interval[t]), now + 1 + interval[t],
                    now + 1 + interval[t], now + 1)
        <5>1. PICK y \in Nat, z \in Nat : y = now + 1 /\ z = now + 1 + interval[t] /\ y < z
          <6>1. interval[t] \in Nat \ {0}
            BY WheelAssumption
          <6> QED BY <6>1
        <5>2. z < DaySpan * Unit[5] /\ \A m \in Levels : v.idx[m] = Field(y, m)
          BY <4>5, <4>6, <5>1, Zenon
        <5>3. WaitsIn(Reinserted(v.idx, z), z, z, y)
          BY <5>1, <5>2, ReinsertedWaits
        <5> QED BY <5>1, <5>3, Zenon
      <4> QED BY <4>1, <4>2, <4>3, <4>4, <4>6, <4>7, Zenon DEF OnTime
    <3> QED BY <3>10, <3>11
  <2> QED BY <2>4, <2>5
<1> QED BY <1>2, <1>3

-----------------------------------------------------------------------------
(* The invariant *)

\* Time e is the due time d of a timer or whole turns of the second level later.
TurnsAfter(e, d) == d <= e /\ (e - d) % Unit[3] = 0

Scheduled(t) ==
    Linked(t) =>
      /\ interval[t] \in Intervals /\ next[t] = due[t]
      /\ \E e \in Nat : /\ WaitsIn(place[t], next[t], e, now)
                        /\ TurnsAfter(e, due[t])
                        /\ fired[t] > 0 \/ due[t] = interval[t] => e = due[t]

IndexIsTime == \A k \in Levels : idx[k] = Field(now, k)

TimeInv == BudgetInv /\ IndexIsTime /\ \A t \in Timers : Scheduled(t)

LEMMA NoneLate == ASSUME NEW d \in Nat PROVE TurnsAfter(d, d)
<1>1. PICK u \in Nat \ {0} : u = Unit[3]
  BY UnitIs DEF Levels
<1>2. Divides(0, u, 0, 0)
  BY DEF Divides
<1>3. 0 % u = 0 /\ d - d = 0 /\ d <= d
  BY <1>2, DivUnique
<1> QED BY <1>1, <1>3, Zenon DEF TurnsAfter

\* What a tick finds when it has served the last level
OnTimeUpTo(k) ==
    /\ WheelOK(After(k)) /\ IndexAt(After(k), k)
    /\ \A t \in Timers :
         /\ ~Linked(t) => After(k).place[t] = place[t]
         /\ \A e \in Nat : Linked(t) /\ WaitsIn(place[t], next[t], e, now) => OnTime(After(k), k, t, e)

LEMMA OnTimeStart == ASSUME TimeInv PROVE OnTimeUpTo(0)
<1>1. Types
  BY TypesAre DEF TimeInv, BudgetInv
<1>2. /\ WheelOK(Wheel) /\ Wheel.idx = idx /\ Wheel.place = place /\ Wheel.next = next
      /\ Wheel.firing = [t \in Timers |-> 0]
  BY <1>1, WheelTyped
<1>3. \A m \in Levels : At(0, m) = now
  <2>1. \A m \in Levels : ~(m <= 0)
    BY DEF Levels
  <2> QED BY <2>1, Zenon DEF At
<1>4. IndexAt(Wheel, 0)
  BY <1>2, <1>3, Zenon DEF IndexAt, TimeInv, IndexIsTime
<1>5. ASSUME NEW t \in Timers, NEW e \in Nat, WaitsIn(place[t], next[t], e, now)
      PROVE  OnTime(Wheel, 0, t, e)
  <2>1. Wheel.firing[t] = 0
    BY <1>2
  <2> QED BY <1>2, <1>3, <1>5, <2>1, Zenon DEF OnTime, WaitsIn
<1> QED BY <1>2, <1>4, <1>5, AfterIs, Zenon DEF OnTimeUpTo

LEMMA OnTimeLevel ==
    ASSUME NoOverflow, TimeInv, now < LastTick, NEW k \in Levels, OnTimeUpTo(k - 1)
    PROVE  OnTimeUpTo(k)
<1>1. Types
  BY TypesAre DEF TimeInv, BudgetInv
<1>2. now \in Nat /\ now + 1 \in 0 .. LastTick
  BY <1>1, WheelAssumption DEF Types
<1>3. PICK w, v : w = After(k - 1) /\ v = After(k)
  OBVIOUS
<1>4. WheelOK(w) /\ IndexAt(w, k - 1)
  BY <1>3, Zenon DEF OnTimeUpTo
<1>5. /\ WheelOK(v) /\ TurnedTo(w.idx, v.idx, k)
      /\ \A t \in Timers : TimerServed(w, v, t, k)
  <2>1. v = ServeIfReached(w, k)
    BY <1>3, AfterIs, Zenon
  <2> QED BY <1>1, <1>4, <2>1, LevelIs, WheelTyped
<1>6. IndexAt(v, k) /\ (Wrapped(w.idx, k) <=> Wraps(now + 1, k))
  BY <1>2, <1>4, <1>5, IndexTurns
<1>7. ASSUME NEW t \in Timers, ~Linked(t) PROVE v.place[t] = place[t]
  <2>1. w.place[t] = place[t]
    BY <1>3, <1>7, Zenon DEF OnTimeUpTo
  <2>2. ~Reached(w.place[t], w.next[t], k, v.idx[k])
    BY <1>7, <2>1 DEF Linked, Reached, Nowhere, Spent, Levels
  <2> QED BY <1>5, <2>1, <2>2, Zenon DEF TimerServed, ServedTimer, Passed
<1>8. ASSUME NEW t \in Timers, NEW e \in Nat, Linked(t), WaitsIn(place[t], next[t], e, now)
      PROVE  OnTime(v, k, t, e)
  <2>1. OnTime(w, k - 1, t, e)
    BY <1>3, <1>8, Zenon DEF OnTimeUpTo
  <2>2. interval[t] \in Intervals /\ next[t] \in Nat
    <3>1. next[t] \in 0 .. LongSpan - 1
      BY <1>1 DEF Types
    <3> QED BY <1>8, <3>1 DEF TimeInv, Scheduled
  <2>3. TimerServed(w, v, t, k)
    BY <1>5
  <2> QED BY <1>2, <1>4, <1>6, <2>1, <2>2, <2>3, TimerOnTime
<1> QED BY <1>3, <1>5, <1>6, <1>7, <1>8, Zenon DEF OnTimeUpTo

LEMMA TickOnTime == ASSUME NoOverflow, TimeInv, now < LastTick PROVE OnTimeUpTo(5)
<1>1. ASSUME NEW k \in Levels PROVE OnTimeUpTo(k - 1) => OnTimeUpTo(k)
  BY OnTimeLevel
<1>2. 1 \in Levels /\ 2 \in Levels /\ 3 \in Levels /\ 4 \in Levels /\ 5 \in Levels
      /\ 1 - 1 = 0 /\ 2 - 1 = 1 /\ 3 - 1 = 2 /\ 4 - 1 = 3 /\ 5 - 1 = 4
  BY DEF Levels
<1>3. OnTimeUpTo(1) /\ OnTimeUpTo(2) /\ OnTimeUpTo(3)
  BY <1>1, <1>2, OnTimeStart, Zenon
<1> QED BY <1>1, <1>2, <1>3, Zenon

\* What a tick does to a linked timer: it fires if its time has come, and only then.
LEMMA TickTimer ==
    ASSUME NoOverflow, TimeInv, Tick, NEW t \in Timers, Linked(t),
           NEW e \in Nat, WaitsIn(place[t], next[t], e, now)
    PROVE  \/ /\ fired'[t] = fired[t] /\ due'[t] = due[t] /\ next'[t] = next[t] /\ e # now'
              /\ WaitsIn(place'[t], next'[t], e, now')
           \/ /\ fired'[t] = fired[t] + 1 /\ due'[t] = now' + interval[t] /\ e = now'
              /\ \/ place'[t] = Spent
                 \/ next'[t] = due'[t] /\ WaitsIn(place'[t], next'[t], next'[t], now')
<1>1. Types
  BY TypesAre DEF TimeInv, BudgetInv
<1>2. PICK w : w = Served /\ w = After(5)
  BY AfterIs
<1>3. /\ now < LastTick /\ now' = now + 1 /\ place' = w.place /\ next' = w.next
      /\ fired' = [s \in Timers |-> fired[s] + w.firing[s]]
      /\ due' = [s \in Timers |-> IF w.firing[s] > 0 THEN now' + interval[s] ELSE due[s]]
  BY <1>2, Zenon DEF Tick
<1>4. OnTimeUpTo(5)
  BY <1>3, TickOnTime
<1>5. OnTime(w, 5, t, e)
  BY <1>2, <1>4, Zenon DEF OnTimeUpTo
<1>6. /\ fired'[t] = fired[t] + w.firing[t]
      /\ due'[t] = IF w.firing[t] > 0 THEN now' + interval[t] ELSE due[t]
      /\ place'[t] = w.place[t] /\ next'[t] = w.next[t]
  BY <1>3
<1>7. fired[t] \in Nat /\ now \in Nat /\ now' \in Nat
  BY <1>1, <1>3 DEF Types
<1>8. CASE w.firing[t] = 0
  <2>1. /\ w.next[t] = next[t]
        /\ \E j \in Levels : /\ w.place[t] = <<j, Slot(j, Field(next[t], j))>>
                             /\ Waiting(j, next[t], e, At(5, j))
    BY <1>5, <1>8 DEF OnTime
  <2>2. \A j \in Levels : At(5, j) = now'
    <3>1. \A j \in Levels : j <= 5
      BY DEF Levels
    <3> QED BY <1>3, <3>1, Zenon DEF At
  <2>3. WaitsIn(place'[t], next'[t], e, now')
    BY <1>6, <2>1, <2>2, Zenon DEF WaitsIn
  <2>4. e # now'
    <3>1. PICK j \in Levels : Quot(now', j) < Quot(e, j)
      BY <2>3, Zenon DEF WaitsIn, Waiting
    <3>2. Quot(e, j) \in Nat
      BY QuotIs
    <3>3. e = now' => Quot(e, j) < Quot(e, j)
      BY <3>1, Zenon
    <3> QED BY <3>2, <3>3
  <2>5. fired'[t] = fired[t] /\ due'[t] = due[t]
    BY <1>6, <1>7, <1>8
  <2> QED BY <1>6, <2>1, <2>3, <2>4, <2>5
<1>9. CASE w.firing[t] # 0
  <2>1. /\ w.firing[t] = 1 /\ e = now + 1
        /\ \/ w.place[t] = Spent
           \/ /\ w.next[t] = now + 1 + interval[t]
              /\ WaitsIn(w.place[t], w.next[t], w.next[t], now + 1)
    BY <1>5, <1>9, Zenon DEF OnTime
  <2>2. fired'[t] = fired[t] + 1 /\ due'[t] = now' + interval[t]
    BY <1>6, <2>1
  <2>3. place'[t] = Spent \/ (next'[t] = due'[t] /\ WaitsIn(place'[t], next'[t], next'[t], now'))
    BY <1>3, <1>6, <2>1, <2>2, Zenon
  <2> QED BY <1>3, <2>1, <2>2, <2>3, Zenon
<1> QED BY <1>8, <1>9

LEMMA TimeInit == Init => TimeInv
<1> SUFFICES ASSUME Init PROVE TimeInv
  OBVIOUS
<1>1. IndexIsTime
  <2>1. ASSUME NEW k \in Levels PROVE Field(0, k) = 0
    <3>1. PICK u \in Nat \ {0}, s \in Nat \ {0} : u = Unit[k] /\ s = Span(k)
      BY UnitIs, SpanIs
    <3>2. Divides(0, u, 0, 0) /\ Divides(0, s, 0, 0)
      BY DEF Divides
    <3>3. 0 \div u = 0 /\ 0 % s = 0
      BY <3>2, DivUnique
    <3> QED BY <3>1, <3>3 DEF Field
  <2> QED BY <2>1 DEF Init, IndexIsTime
<1>2. \A t \in Timers : ~Linked(t)
  BY DEF Init, Linked
<1> QED BY <1>1, <1>2, BudgetInit DEF TimeInv, Scheduled

LEMMA TimeTick == ASSUME NoOverflow, TimeInv, Tick PROVE TimeInv'
<1>1. Types
  BY TypesAre DEF TimeInv, BudgetInv
<1>2. BudgetInv'
  BY BudgetTick DEF TimeInv
<1>3. PICK w : w = Served /\ w = After(5)
  BY AfterIs
<1>4. /\ now < LastTick /\ now' = now + 1 /\ idx' = w.idx /\ place' = w.place
      /\ interval' = interval
  BY <1>3, Zenon DEF Tick
<1>5. OnTimeUpTo(5)
  BY <1>4, TickOnTime
<1>6. IndexIsTime'
  <2>1. \A j \in Levels : At(5, j) = now'
    <3>1. \A j \in Levels : j <= 5
      BY DEF Levels
    <3> QED BY <1>4, <3>1, Zenon DEF At
  <2>2. \A k \in Levels : idx'[k] = Field(now', k)
    BY <1>3, <1>4, <1>5, <2>1, Zenon DEF OnTimeUpTo, IndexAt
  <2> QED BY <2>2 DEF IndexIsTime
<1>7. ASSUME NEW t \in Timers, ~Linked(t) PROVE ~Linked(t)'
  <2>1. place'[t] = place[t]
    BY <1>3, <1>4, <1>5, <1>7, Zenon DEF OnTimeUpTo
  <2> QED BY <1>7, <2>1 DEF Linked
<1>8. ASSUME NEW t \in Timers, Linked(t), Linked(t)'
      PROVE  /\ interval'[t] \in Intervals /\ next'[t] = due'[t]
             /\ \E e \in Nat : /\ WaitsIn(place'[t], next'[t], e, now')
                               /\ TurnsAfter(e, due'[t])
                               /\ fired'[t] > 0 \/ due'[t] = interval'[t] => e = due'[t]
  <2>1. PICK e \in Nat : /\ WaitsIn(place[t], next[t], e, now)
                         /\ TurnsAfter(e, due[t])
                         /\ fired[t] > 0 \/ due[t] = interval[t] => e = due[t]
    BY <1>8 DEF TimeInv, Scheduled
  <2>2. interval[t] \in Intervals /\ next[t] = due[t]
    BY <1>8 DEF TimeInv, Scheduled
  <2>3. CASE /\ fired'[t] = fired[t] /\ due'[t] = due[t] /\ next'[t] = next[t]
             /\ WaitsIn(place'[t], next'[t], e, now')
    BY <1>4, <2>1, <2>2, <2>3, Zenon
  <2>4. CASE /\ due'[t] = now' + interval[t]
             /\ \/ place'[t] = Spent
                \/ next'[t] = due'[t] /\ WaitsIn(place'[t], next'[t], next'[t], now')
    <3>1. place'[t] # Spent
      BY <1>8 DEF Linked
    <3>2. next'[t] = due'[t] /\ WaitsIn(place'[t], next'[t], due'[t], now')
      BY <2>4, <3>1, Zenon
    <3>3. due'[t] \in Nat
      <4>1. now' \in Nat /\ interval[t] \in Nat
        BY <1>1, <1>4, WheelTyped DEF Types
      <4> QED BY <2>4, <4>1
    <3>4. TurnsAfter(due'[t], due'[t])
      BY <3>3, NoneLate
    <3> QED BY <1>4, <2>2, <3>2, <3>3, <3>4, Zenon
  <2>5. \/ /\ fired'[t] = fired[t] /\ due'[t] = due[t] /\ next'[t] = next[t]
           /\ WaitsIn(place'[t], next'[t], e, now')
        \/ /\ due'[t] = now' + interval[t]
           /\ \/ place'[t] = Spent
              \/ next'[t] = due'[t] /\ WaitsIn(place'[t], next'[t], next'[t], now')
    BY <1>8, <2>1, TickTimer
  <2> QED BY <2>3, <2>4, <2>5
<1>9. \A t \in Timers : Scheduled(t)'
  BY <1>7, <1>8, Zenon DEF Scheduled
<1> QED BY <1>2, <1>6, <1>9 DEF TimeInv

LEMMA TimeAdd ==
    ASSUME NoOverflow, TimeInv, NEW t \in Timers, NEW i \in Intervals, NEW n \in Ttls, Add(t, i, n)
    PROVE  TimeInv'
<1>1. Types
  BY TypesAre DEF TimeInv, BudgetInv
<1>2. BudgetInv'
  BY BudgetAdd DEF TimeInv
<1>3. now \in 0 .. LastTick /\ now \in Nat /\ i \in Nat \ {0}
  BY <1>1, WheelAssumption DEF Types
<1>4. Stamp(idx, i) = now + i /\ now + i \in Nat \ {0} /\ now + i < DaySpan * Unit[5]
  BY <1>3, StampIsTime DEF TimeInv, IndexIsTime
<1>5. PICK x \in Nat : x = now + i /\ now < x
  BY <1>3
<1>6. PICK e \in Nat : /\ WaitsIn(Added(x), x, e, now) /\ TurnsAfter(e, x)
                       /\ now = 0 => e = x
  BY <1>3, <1>4, <1>5, AddedWaits DEF TurnsAfter
<1>7. /\ place' = [place EXCEPT ![t] = Added(x)] /\ interval' = [interval EXCEPT ![t] = i]
      /\ next' = [next EXCEPT ![t] = x] /\ due' = [due EXCEPT ![t] = x]
      /\ fired' = [fired EXCEPT ![t] = 0] /\ idx' = idx /\ now' = now
  BY <1>4, <1>5, Zenon DEF Add
<1>8. ASSUME NEW s \in Timers PROVE Scheduled(s)'
  <2>1. CASE s = t
    <3>1. /\ place'[s] = Added(x) /\ interval'[s] = i /\ next'[s] = x /\ due'[s] = x /\ fired'[s] = 0
      BY <1>1, <1>7, <2>1 DEF Types
    <3>2. fired'[s] > 0 \/ due'[s] = interval'[s] => now = 0
      BY <1>3, <1>5, <3>1
    <3> QED BY <1>6, <1>7, <3>1, <3>2, Zenon DEF Scheduled
  <2>2. CASE s # t
    <3>1. /\ place'[s] = place[s] /\ interval'[s] = interval[s] /\ next'[s] = next[s]
          /\ due'[s] = due[s] /\ fired'[s] = fired[s] /\ now' = now
      BY <1>1, <1>7, <2>2 DEF Types
    <3>2. Scheduled(s)
      BY DEF TimeInv
    <3> QED BY <3>1, <3>2, Zenon DEF Scheduled, Linked
  <2> QED BY <2>1, <2>2
<1>9. IndexIsTime'
  BY <1>7 DEF TimeInv, IndexIsTime
<1> QED BY <1>2, <1>8, <1>9 DEF TimeInv

LEMMA TimeDelete == ASSUME TimeInv, NEW t \in Timers, Delete(t) PROVE TimeInv'
<1>1. Types
  BY TypesAre DEF TimeInv, BudgetInv
<1>2. BudgetInv'
  BY BudgetDelete DEF TimeInv
<1>3. /\ place' = [place EXCEPT ![t] = Nowhere] /\ interval' = [interval EXCEPT ![t] = 0]
      /\ next' = [next EXCEPT ![t] = 0] /\ due' = [due EXCEPT ![t] = 0]
      /\ fired' = [fired EXCEPT ![t] = 0] /\ idx' = idx /\ now' = now
  BY DEF Delete
<1>4. ASSUME NEW s \in Timers PROVE Scheduled(s)'
  <2>1. CASE s = t
    <3>1. place'[s] = Nowhere
      BY <1>1, <1>3, <2>1 DEF Types
    <3> QED BY <3>1 DEF Scheduled, Linked
  <2>2. CASE s # t
    <3>1. /\ place'[s] = place[s] /\ interval'[s] = interval[s] /\ next'[s] = next[s]
          /\ due'[s] = due[s] /\ fired'[s] = fired[s] /\ now' = now
      BY <1>1, <1>3, <2>2 DEF Types
    <3>2. Scheduled(s)
      BY DEF TimeInv
    <3> QED BY <3>1, <3>2, Zenon DEF Scheduled, Linked
  <2> QED BY <2>1, <2>2
<1>5. IndexIsTime'
  BY <1>3 DEF TimeInv, IndexIsTime
<1> QED BY <1>2, <1>4, <1>5 DEF TimeInv

LEMMA TimeInvAlways == ASSUME NoOverflow PROVE Spec => []TimeInv
<1>1. Init => TimeInv
  BY TimeInit
<1>2. TimeInv /\ [Next]_vars => TimeInv'
  <2>1. TimeInv /\ UNCHANGED vars => TimeInv'
    <3>1. BudgetInv /\ UNCHANGED vars => BudgetInv'
      BY DEF vars, timer, BudgetInv, TypeOK, Linked
    <3> QED BY <3>1 DEF vars, timer, TimeInv, IndexIsTime, Scheduled, Linked
  <2> QED BY <2>1, TimeTick, TimeAdd, TimeDelete DEF Next
<1> QED BY <1>1, <1>2, PTL DEF Spec

-----------------------------------------------------------------------------
(* The theorems about time *)

\* As long as no time overflows, no timer is put in a list of index 0, where the
\* tick would serve it before the index of the level above has advanced.
THEOREM ZeroSlotsEmptyAlways == ASSUME NoOverflow PROVE Spec => []ZeroSlotsEmpty
<1>1. TimeInv => ZeroSlotsEmpty
  <2>1. SUFFICES ASSUME TimeInv, NEW t \in Timers, place[t][1] \in 1 .. 4 PROVE place[t][2] # 0
    BY DEF ZeroSlotsEmpty
  <2>2. Linked(t)
    BY <2>1 DEF Linked, Nowhere, Spent
  <2>3. PICK j \in Levels : /\ place[t] = <<j, Slot(j, Field(next[t], j))>>
                            /\ j # 5 => Field(next[t], j) # 0
    BY <2>1, <2>2, Zenon DEF TimeInv, Scheduled, WaitsIn, Waiting
  <2> QED BY <2>1, <2>3 DEF Slot
<1> QED BY <1>1, TimeInvAlways, PTL

\* As long as no time overflows, a timer that uc_timer_node_reinsert has placed, or that
\* was added when all indices were 0, fires at the tick it is due at and at no other,
\* for a wheel of any size and however many levels it moves down through.
THEOREM FiresOnTimeOncePlacedAlways == ASSUME NoOverflow PROVE Spec => FiresOnTimeOncePlaced
<1>1. ASSUME TimeInv, [Next]_vars, NEW t \in Timers, now' = now + 1, Linked(t),
             fired[t] > 0 \/ due[t] = interval[t]
      PROVE  Fires(t) <=> now' = due[t]
  <2>1. Types
    BY <1>1, TypesAre DEF TimeInv, BudgetInv
  <2>2. now \in Nat /\ fired[t] \in Nat
    BY <2>1 DEF Types
  <2>3. Tick
    BY <1>1, <2>2 DEF Next, Add, Delete, vars
  <2>4. due[t] \in Nat /\ WaitsIn(place[t], next[t], due[t], now)
    BY <1>1, Zenon DEF TimeInv, Scheduled
  <2>5. \/ fired'[t] = fired[t] /\ due[t] # now'
        \/ fired'[t] = fired[t] + 1 /\ due[t] = now'
    BY <1>1, <2>3, <2>4, TickTimer
  <2> QED BY <2>2, <2>5 DEF Fires
<1>2. TimeInv /\ [Next]_vars =>
        [\A t \in Timers :
           now' = now + 1 /\ Linked(t) /\ (fired[t] > 0 \/ due[t] = interval[t]) =>
             (Fires(t) <=> now' = due[t])]_vars
  BY <1>1
<1> QED BY <1>2, TimeInvAlways, PTL DEF Spec, FiresOnTimeOncePlaced

\* As long as no time overflows, a timer that fires is never early, and when it is
\* late it is late by whole turns of the level uc_timer_add_do put it on.
THEOREM LateByTurnsOnlyAlways == ASSUME NoOverflow PROVE Spec => LateByTurnsOnly
<1>1. ASSUME TimeInv, [Next]_vars, NEW t \in Timers, Linked(t), Fires(t)
      PROVE  now' >= due[t] /\ (now' - due[t]) % Unit[3] = 0
  <2>1. Types
    BY <1>1, TypesAre DEF TimeInv, BudgetInv
  <2>2. now \in Nat /\ fired[t] \in Nat /\ due[t] \in Nat /\ fired'[t] = fired[t] + 1
    BY <1>1, <2>1 DEF Types, Fires
  <2>3. Tick
    <3>1. ASSUME NEW s \in Timers, NEW i \in Intervals, NEW n \in Ttls, Add(s, i, n) PROVE FALSE
      <4>1. fired' = [fired EXCEPT ![s] = 0]
        BY <3>1 DEF Add
      <4> QED BY <2>1, <2>2, <4>1 DEF Types
    <3>2. ASSUME NEW s \in Timers, Delete(s) PROVE FALSE
      <4>1. fired' = [fired EXCEPT ![s] = 0]
        BY <3>2 DEF Delete
      <4> QED BY <2>1, <2>2, <4>1 DEF Types
    <3>3. ~UNCHANGED vars
      BY <2>2 DEF vars
    <3> QED BY <1>1, <3>1, <3>2, <3>3 DEF Next
  <2>4. PICK e \in Nat : WaitsIn(place[t], next[t], e, now) /\ TurnsAfter(e, due[t])
    BY <1>1, Zenon DEF TimeInv, Scheduled
  <2>5. e = now'
    <3>1. \/ fired'[t] = fired[t] \/ e = now'
      BY <1>1, <2>3, <2>4, TickTimer
    <3> QED BY <2>2, <3>1
  <2> QED BY <2>2, <2>4, <2>5 DEF TurnsAfter
<1>2. TimeInv /\ [Next]_vars =>
        [\A t \in Timers : Linked(t) /\ Fires(t) =>
           /\ now' >= due[t]
           /\ (now' - due[t]) % Unit[3] = 0]_vars
  BY <1>1
<1> QED BY <1>2, TimeInvAlways, PTL DEF Spec, LateByTurnsOnly
=============================================================================
