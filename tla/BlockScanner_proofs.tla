------------------------- MODULE BlockScanner_proofs -------------------------
(***************************************************************************)
(* Proofs about the vector kernels, for every width of a block, every text *)
(* and every classification of bytes that the library may have.  First the *)
(* bits: what the addition of find_escaped and the tables of the UTF-8     *)
(* check compute.  Then the text: what a scan of blocks with its carries   *)
(* amounts to.  Then the invariant, VectorInv, one step at a time.         *)
(***************************************************************************)
EXTENDS BlockScanner, StructuralIndex_proofs

-----------------------------------------------------------------------------
(* Arithmetic of masks *)
LEMMA Wide == Width \in Nat /\ Width >= 4
  BY WidthAssumption

LEMMA DivRule ==
  ASSUME NEW p \in Nat, p > 0, NEW q \in Int, NEW r \in 0..p-1
  PROVE  (q * p + r) \div p = q
<1> DEFINE x == q * p + r
           d == x \div p
<1>1. x \in Int /\ d \in Int
  OBVIOUS
<1>2. d * p <= x /\ x < d * p + p
  OBVIOUS
<1>3. ASSUME NEW a \in Int, NEW b \in Int, a <= b
      PROVE  a * p <= b * p
  BY <1>3
<1>4. CASE d > q
  <2>1. q + 1 <= d
    BY <1>1, <1>4
  <2>2. (q + 1) * p <= d * p
    BY <2>1, <1>1, <1>3
  <2>3. (q + 1) * p = q * p + p
    OBVIOUS
  <2>4. QED
    BY <2>2, <2>3, <1>1, <1>2
<1>5. CASE d < q
  <2>1. d + 1 <= q
    BY <1>1, <1>5
  <2>2. (d + 1) * p <= q * p
    BY <2>1, <1>1, <1>3
  <2>3. (d + 1) * p = d * p + p
    BY <1>1
  <2>4. QED
    BY <2>2, <2>3, <1>1, <1>2
<1>6. QED
  BY <1>1, <1>4, <1>5

LEMMA Powers ==
  /\ PowerOfTwo \in [0..Width -> Nat]
  /\ PowerOfTwo[0] = 1
  /\ \A b \in 0..Width-1 : PowerOfTwo[b+1] = 2 * PowerOfTwo[b]
<1> DEFINE Step == [i \in Nat |-> [x \in Nat |-> 2 * x]]
           Body(f) == [b \in 0..Width |-> IF b = 0 THEN 1 ELSE 2 * f[b-1]]
<1>1. PICK f \in [0..Width -> Nat] : Recursive(f, Width, 1, Step)
  <2>1. \A i \in Nat, x \in Nat : Step[i][x] \in Nat
    OBVIOUS
  <2> HIDE DEF Step
  <2>2. 1 \in Nat
    OBVIOUS
  <2>3. \A n \in Nat : \E f \in [0..n -> Nat] : Recursive(f, n, 1, Step)
    BY <2>1, <2>2, Recursion, Zenon
  <2>4. QED
    BY <2>3, Wide, Zenon
<1>2. f = Body(f)
  <2>1. ASSUME NEW i \in 0..Width
        PROVE  f[i] = IF i = 0 THEN 1 ELSE 2 * f[i-1]
    <3>1. CASE i = 0
      BY <3>1, <1>1, Zenon DEF Recursive
    <3>2. CASE i # 0
      <4>1. i-1 \in 0..Width /\ i-1 \in Nat
        BY <3>2, Wide
      <4>2. f[i-1] \in Nat
        BY <4>1, <1>1, Zenon
      <4>3. f[i] = Step[i-1][f[i-1]]
        BY <3>2, <1>1 DEF Recursive
      <4>4. QED
        BY <3>2, <4>1, <4>2, <4>3
    <3>3. QED
      BY <3>1, <3>2
  <2>2. QED
    BY <2>1, <1>1, Zenon
<1>3. PowerOfTwo = Body(PowerOfTwo)
  <2>1. PowerOfTwo = CHOOSE g : g = Body(g)
    BY DEF PowerOfTwo
  <2>2. QED
    BY <1>2, <2>1, Zenon
<1>4. \A i \in 0..Width : PowerOfTwo[i] = IF i = 0 THEN 1 ELSE 2 * PowerOfTwo[i-1]
  BY <1>3, Zenon
<1>5. DOMAIN PowerOfTwo = 0..Width
  BY <1>3, Zenon
<1>6. \A i \in 0..Width : PowerOfTwo[i] \in Nat
  <2> DEFINE T == {i \in 0..Width : PowerOfTwo[i] \notin Nat}
  <2>1. SUFFICES ASSUME T # {} PROVE FALSE
    OBVIOUS
  <2>2. PICK i \in T : \A y \in T : i <= y
    <3>1. T \in SUBSET Nat
      BY Wide
    <3> HIDE DEF T
    <3>2. QED
      BY <2>1, <3>1, Smallest
  <2>3. i # 0
    BY <2>2, <1>4
  <2>4. i - 1 \in 0..Width /\ i - 1 \notin T
    <3>1. i - 1 \in 0..Width /\ i \in Nat
      BY <2>2, <2>3, Wide
    <3> HIDE DEF T
    <3>2. QED
      BY <2>2, <3>1
  <2>5. QED
    BY <2>2, <2>3, <2>4, <1>4
<1>7. PowerOfTwo \in [0..Width -> Nat]
  BY <1>3, <1>5, <1>6, Zenon
<1>8. PowerOfTwo[0] = 1
  BY <1>4, Wide
<1>9. ASSUME NEW b \in 0..Width-1
      PROVE  PowerOfTwo[b+1] = 2 * PowerOfTwo[b]
  <2>1. b + 1 \in 0..Width /\ b + 1 # 0 /\ (b + 1) - 1 = b
    BY Wide
  <2>2. QED
    BY <2>1, <1>4
<1>10. QED
  BY <1>7, <1>8, <1>9

LEMMA PowerIsNat == \A b \in 0..Width : PowerOfTwo[b] \in Nat
  BY Powers

LEMMA ModRule ==
  ASSUME NEW x \in Nat, NEW w \in Nat, w > 0
  PROVE  x % w \in Nat /\ \E t \in Int : x % w = x - t * w
<1>1. x % w \in Nat /\ x \div w \in Int
  OBVIOUS
<1>2. x % w = x - w * (x \div w)
  BY SMT
<1>3. x % w = x - (x \div w) * w
  BY <1>1, <1>2
<1>4. QED
  BY <1>1, <1>3, Zenon

(* The value of the bits of a mask below b *)
Low(m) == CHOOSE low : low = [b \in 0..Width |->
            IF b = 0 THEN 0
            ELSE low[b-1] + (IF b-1 \in m THEN PowerOfTwo[b-1] ELSE 0)]

LEMMA LowRule ==
  ASSUME NEW m
  PROVE  /\ Number(m) = Low(m)[Width]
         /\ Low(m)[0] = 0
         /\ \A b \in 0..Width : Low(m)[b] \in Nat
         /\ \A b \in 0..Width-1 :
              Low(m)[b+1] = Low(m)[b] + (IF b \in m THEN PowerOfTwo[b] ELSE 0)
<1> DEFINE Value(b) == IF b \in m THEN PowerOfTwo[b] ELSE 0
           Step == [i \in Nat |-> [x \in Nat |->
                      x + (IF i \in 0..Width-1 THEN Value(i) ELSE 0)]]
           Body(f) == [b \in 0..Width |-> IF b = 0 THEN 0 ELSE f[b-1] + Value(b-1)]
<1>0. \A b \in 0..Width-1 : Value(b) \in Nat
  BY Powers, Wide
<1> HIDE DEF Value
<1>1. PICK f \in [0..Width -> Nat] : Recursive(f, Width, 0, Step)
  <2>1. \A i \in Nat, x \in Nat : Step[i][x] \in Nat
    BY <1>0
  <2> HIDE DEF Step
  <2>2. 0 \in Nat
    OBVIOUS
  <2>3. \A n \in Nat : \E f \in [0..n -> Nat] : Recursive(f, n, 0, Step)
    BY <2>1, <2>2, Recursion, Zenon
  <2>4. QED
    BY <2>3, Wide, Zenon
<1>2. f = Body(f)
  <2>1. ASSUME NEW i \in 0..Width
        PROVE  f[i] = IF i = 0 THEN 0 ELSE f[i-1] + Value(i-1)
    <3>1. CASE i = 0
      BY <3>1, <1>1, Zenon DEF Recursive
    <3>2. CASE i # 0
      <4>1. i-1 \in 0..Width /\ i-1 \in Nat /\ i-1 \in 0..Width-1
        BY <3>2, Wide
      <4>2. f[i-1] \in Nat
        BY <4>1, <1>1
      <4>3. f[i] = Step[i-1][f[i-1]]
        BY <3>2, <1>1, Zenon DEF Recursive
      <4>4. QED
        BY <3>2, <4>1, <4>2, <4>3
    <3>3. QED
      BY <3>1, <3>2
  <2>2. QED
    BY <2>1, <1>1, Zenon
<1>3. Low(m) = Body(Low(m))
  <2>1. Low(m) = CHOOSE g : g = Body(g)
    BY DEF Low, Value
  <2>2. QED
    BY <1>2, <2>1, Zenon
<1> DEFINE low == Low(m)
<1> HIDE DEF low
<1>4. \A i \in 0..Width : low[i] = IF i = 0 THEN 0 ELSE low[i-1] + Value(i-1)
  BY <1>3, Zenon DEF low
<1>5. \A i \in 0..Width : low[i] \in Nat
  <2> DEFINE T == {i \in 0..Width : low[i] \notin Nat}
  <2>1. SUFFICES ASSUME T # {} PROVE FALSE
    OBVIOUS
  <2>2. PICK i \in T : \A y \in T : i <= y
    <3>1. T \in SUBSET Nat
      BY Wide
    <3> HIDE DEF T
    <3>2. QED
      BY <2>1, <3>1, Smallest
  <2>3. i # 0
    BY <2>2, <1>4
  <2>4. i - 1 \in 0..Width /\ i - 1 \notin T /\ i - 1 \in 0..Width-1
    <3>1. i - 1 \in 0..Width /\ i \in Nat /\ i - 1 \in 0..Width-1
      BY <2>2, <2>3, Wide
    <3> HIDE DEF T
    <3>2. QED
      BY <2>2, <3>1
  <2>5. QED
    BY <2>2, <2>3, <2>4, <1>4, <1>0
<1>6. low[0] = 0
  BY <1>4, Wide
<1>7. ASSUME NEW b \in 0..Width-1
      PROVE  low[b+1] = low[b] + Value(b)
  <2>1. b + 1 \in 0..Width /\ b + 1 # 0 /\ (b + 1) - 1 = b
    BY Wide
  <2>2. QED
    BY <2>1, <1>4
<1>8. Number(m) = low[Width]
  BY Zenon DEF Number, Low, low
<1>9. QED
  BY <1>5, <1>6, <1>7, <1>8 DEF low, Value

(* They are less than the value of bit b, *)
LEMMA LowFits ==
  ASSUME NEW m, NEW b \in 0..Width
  PROVE  Low(m)[b] < PowerOfTwo[b]
<1> DEFINE T == {i \in 0..Width : ~(Low(m)[i] < PowerOfTwo[i])}
<1>1. SUFFICES ASSUME T # {} PROVE FALSE
  OBVIOUS
<1>2. PICK i \in T : \A y \in T : i <= y
  <2>1. T \in SUBSET Nat
    BY Wide
  <2> HIDE DEF T
  <2>2. QED
    BY <1>1, <2>1, Smallest
<1>3. i # 0
  BY <1>2, LowRule, Powers
<1>4. i - 1 \in 0..Width-1 /\ i - 1 \in 0..Width /\ i \in Nat /\ (i-1)+1 = i
  BY <1>2, <1>3, Wide
<1>5. i - 1 \notin T
  <2> HIDE DEF T
  <2>1. QED
    BY <1>2, <1>4
<1>6. PowerOfTwo[i] = 2 * PowerOfTwo[i-1] /\ PowerOfTwo[i-1] \in Nat
  BY <1>4, Powers
<1>7. /\ Low(m)[i] = Low(m)[i-1] + (IF i-1 \in m THEN PowerOfTwo[i-1] ELSE 0)
      /\ Low(m)[i-1] \in Nat
  BY <1>4, LowRule
<1>8. QED
  BY <1>2, <1>4, <1>5, <1>6, <1>7

(* and the bits from b on have a multiple of it. *)
LEMMA HighBits ==
  ASSUME NEW m, NEW b \in 0..Width
  PROVE  \E h, q \in Nat : /\ Low(m)[Width] = Low(m)[b] + h * PowerOfTwo[b]
                           /\ PowerOfTwo[Width] = q * PowerOfTwo[b]
<1> DEFINE p == PowerOfTwo[b]
           Multiple(i) == \E h, q \in Nat : /\ Low(m)[i] = Low(m)[b] + h * p
                                            /\ PowerOfTwo[i] = q * p
           T == {i \in b..Width : ~Multiple(i)}
<1>0. p \in Nat /\ b \in Nat /\ Width \in Nat
  BY PowerIsNat, Wide
<1>1. SUFFICES ASSUME T # {} PROVE FALSE
  <2>1. Width \in b..Width
    BY <1>0
  <2> HIDE DEF Multiple
  <2>2. Multiple(Width) => \E h, q \in Nat : /\ Low(m)[Width] = Low(m)[b] + h * p
                                             /\ PowerOfTwo[Width] = q * p
    BY DEF Multiple
  <2>3. QED
    BY <2>1, <2>2
<1>2. PICK i \in T : \A y \in T : i <= y
  <2>1. T \in SUBSET Nat
    BY <1>0
  <2> HIDE DEF T
  <2>2. QED
    BY <1>1, <2>1, Smallest
<1>3. i # b
  <2>1. Low(m)[b] \in Nat /\ p \in Nat
    BY LowRule, <1>0
  <2>2. Low(m)[b] = Low(m)[b] + 0 * p /\ p = 1 * p
    BY <2>1
  <2>3. Multiple(b)
    BY <2>2
  <2>4. QED
    BY <2>3, <1>2
<1>4. i - 1 \in b..Width /\ i - 1 \in 0..Width-1 /\ i - 1 \in 0..Width /\ i \in Nat /\ (i-1)+1 = i
  BY <1>2, <1>3, <1>0
<1>5. i - 1 \notin T
  <2> HIDE DEF T
  <2>1. QED
    BY <1>2, <1>4
<1>6. PICK h \in Nat, q \in Nat : /\ Low(m)[i-1] = Low(m)[b] + h * p
                                  /\ PowerOfTwo[i-1] = q * p
  BY <1>4, <1>5
<1>7. PowerOfTwo[i] = 2 * PowerOfTwo[i-1]
  BY <1>4, Powers
<1>8. Low(m)[i] = Low(m)[i-1] + (IF i-1 \in m THEN PowerOfTwo[i-1] ELSE 0)
  BY <1>4, LowRule
<1>9. Low(m)[b] \in Nat
  BY LowRule
<1>10. PowerOfTwo[i] = (2 * q) * p /\ 2 * q \in Nat
  BY <1>6, <1>7, <1>0
<1>11. CASE i-1 \in m
  <2>1. Low(m)[i] = Low(m)[b] + (h + q) * p /\ h + q \in Nat
    BY <1>6, <1>8, <1>9, <1>11, <1>0
  <2>2. QED
    BY <2>1, <1>10, <1>2
<1>12. CASE i-1 \notin m
  <2>1. Low(m)[i] = Low(m)[b] + h * p
    BY <1>6, <1>8, <1>9, <1>12, <1>0
  <2>2. QED
    BY <2>1, <1>10, <1>2
<1>13. QED
  BY <1>11, <1>12

(* One bit of a sum, by the carry into it. *)
Bit(m, b) == IF b \in m THEN 1 ELSE 0
LowSum(m, o, b) == Low(m)[b] + Low(o)[b]
CarryInto(m, o, b) == LowSum(m, o, b) >= PowerOfTwo[b]

LEMMA BitOfSum ==
  ASSUME NEW m, NEW o, NEW b \in Bits
  PROVE  b \in BitsOf((Number(m) + Number(o)) % PowerOfTwo[Width])
           <=> (Bit(m, b) + Bit(o, b) + (IF CarryInto(m, o, b) THEN 1 ELSE 0)) % 2 = 1
<1> DEFINE p == PowerOfTwo[b]
           s == Number(m) + Number(o)
           w == PowerOfTwo[Width]
           c == IF CarryInto(m, o, b) THEN 1 ELSE 0
           k == Bit(m, b) + Bit(o, b) + c
           r == LowSum(m, o, b) - c * p
<1>1. b \in 0..Width-1 /\ b \in 0..Width /\ b + 1 \in 0..Width /\ Width \in 0..Width
  BY Wide DEF Bits
<1>2. p \in Nat /\ p > 0 /\ PowerOfTwo[b+1] = 2 * p /\ w \in Nat
  <2>1. p \in Nat /\ PowerOfTwo[b+1] = 2 * p /\ w \in Nat
    BY <1>1, Powers
  <2>2. Low(m)[b] < p /\ Low(m)[b] \in Nat
    BY <1>1, LowFits, LowRule
  <2>3. QED
    BY <2>1, <2>2
<1>3. Low(m)[b] \in Nat /\ Low(o)[b] \in Nat /\ Low(m)[b] < p /\ Low(o)[b] < p
  BY <1>1, LowFits, LowRule
<1>4. /\ Low(m)[b+1] = Low(m)[b] + (IF b \in m THEN p ELSE 0)
      /\ Low(o)[b+1] = Low(o)[b] + (IF b \in o THEN p ELSE 0)
  BY <1>1, LowRule
<1>5. PICK g \in Nat, q \in Nat : /\ Low(m)[Width] = Low(m)[b+1] + g * PowerOfTwo[b+1]
                                  /\ w = q * PowerOfTwo[b+1]
  BY <1>1, HighBits
<1>6. PICK h \in Nat, q2 \in Nat : /\ Low(o)[Width] = Low(o)[b+1] + h * PowerOfTwo[b+1]
                                   /\ w = q2 * PowerOfTwo[b+1]
  BY <1>1, HighBits
<1>7. Number(m) = Low(m)[Width] /\ Number(o) = Low(o)[Width]
  BY LowRule
<1>8. s \in Nat /\ w > 0
  <2>1. Low(m)[Width] \in Nat /\ Low(o)[Width] \in Nat /\ Low(m)[Width] < w
    BY <1>1, LowRule, LowFits
  <2>2. QED
    BY <2>1, <1>7, <1>2
<1>9. r \in 0..p-1 /\ k \in 0..3
  <2>1. c = 0 \/ c = 1
    OBVIOUS
  <2>2. LowSum(m, o, b) \in Nat /\ LowSum(m, o, b) < 2 * p
    BY <1>3, <1>2 DEF LowSum
  <2>3. CASE CarryInto(m, o, b)
    BY <2>2, <2>3, <1>2 DEF CarryInto, Bit
  <2>4. CASE ~CarryInto(m, o, b)
    BY <2>2, <2>4, <1>2 DEF CarryInto, Bit
  <2>5. QED
    BY <2>3, <2>4
<1>10. PICK t \in Int : s % w = s - t * w
  <2> HIDE DEF s, w
  <2>1. QED
    BY <1>8, <1>2, ModRule, Zenon
<1>11. s % w \in Nat
  BY <1>8, <1>2
<1> DEFINE e == g + h - t * q
<1>12. s = r + k * p + (2 * (g + h)) * p
  <2>1. Low(m)[b+1] = Low(m)[b] + Bit(m, b) * p /\ Low(o)[b+1] = Low(o)[b] + Bit(o, b) * p
    BY <1>4, <1>3, <1>2 DEF Bit
  <2>2. s = (Low(m)[b+1] + g * (2 * p)) + (Low(o)[b+1] + h * (2 * p))
    BY <1>5, <1>6, <1>7, <1>2
  <2>3. Bit(m, b) \in Int /\ Bit(o, b) \in Int /\ c \in Int
    BY DEF Bit
  <2>4. r = (Low(m)[b] + Low(o)[b]) - c * p
    BY Zenon DEF LowSum
  <2> HIDE DEF c, r, s
  <2>5. s = ((Low(m)[b] + Bit(m, b) * p) + g * (2 * p)) + ((Low(o)[b] + Bit(o, b) * p) + h * (2 * p))
    BY <2>1, <2>2
  <2> HIDE DEF p
  <2>6. QED
    BY <2>3, <2>4, <2>5, <1>2, <1>3
<1>13. s % w = (k + 2 * e) * p + r
  <2>1. w = q * (2 * p)
    BY <1>5, <1>2
  <2> HIDE DEF r, k, s, w
  <2>2. QED
    BY <2>1, <1>12, <1>10, <1>9, <1>2
<1>14. (s % w) \div p = k + 2 * e
  <2>1. k + 2 * e \in Int
    BY <1>9
  <2> HIDE DEF r, k, s, w, e
  <2>2. QED
    BY <2>1, <1>13, <1>9, <1>2, DivRule, Zenon
<1>15. (k + 2 * e) % 2 = k % 2
  <2>1. e \in Int
    OBVIOUS
  <2> HIDE DEF k, e
  <2>2. QED
    BY <2>1, <1>9
<1>16. b \in BitsOf(s % w) <=> ((s % w) \div p) % 2 = 1
  BY DEF BitsOf
<1>17. QED
  BY <1>14, <1>15, <1>16

(* The carry goes on where two of the two bits and the carry into them are. *)
LEMMA CarryRule ==
  ASSUME NEW m, NEW o, NEW b \in Bits
  PROVE  /\ ~CarryInto(m, o, 0)
         /\ CarryInto(m, o, b + 1)
              <=> Bit(m, b) + Bit(o, b) + (IF CarryInto(m, o, b) THEN 1 ELSE 0) >= 2
<1> DEFINE p == PowerOfTwo[b]
<1>1. b \in 0..Width-1 /\ b \in 0..Width
  BY Wide DEF Bits
<1>2. p \in Nat /\ PowerOfTwo[b+1] = 2 * p
  BY <1>1, Powers
<1>3. Low(m)[b] \in Nat /\ Low(o)[b] \in Nat /\ Low(m)[b] < p /\ Low(o)[b] < p
  BY <1>1, LowFits, LowRule
<1>4. /\ Low(m)[b+1] = Low(m)[b] + (IF b \in m THEN p ELSE 0)
      /\ Low(o)[b+1] = Low(o)[b] + (IF b \in o THEN p ELSE 0)
  BY <1>1, LowRule
<1>5. ~CarryInto(m, o, 0)
  BY LowRule, Powers DEF CarryInto, LowSum
<1> HIDE DEF p
<1>6. CarryInto(m, o, b) <=> Low(m)[b] + Low(o)[b] >= p
  BY DEF CarryInto, LowSum, p
<1>7. CarryInto(m, o, b + 1) <=> Low(m)[b+1] + Low(o)[b+1] >= 2 * p
  BY <1>2 DEF CarryInto, LowSum
<1>8. QED
  BY <1>2, <1>3, <1>4, <1>5, <1>6, <1>7 DEF Bit

(* The bytes of a block that are escaped, when the first is or is not: a    *)
(* byte behind a backslash that is not escaped itself.                      *)
IsEscapeMap(prev_escaped, backslash, e) ==
    /\ e \in [0..Width -> BOOLEAN]
    /\ \A b \in 0..Width :
         e[b] <=> IF b = 0 THEN 0 \in prev_escaped ELSE b-1 \in backslash /\ ~e[b-1]

(* find_escaped_branchless: the carries of the addition run through the     *)
(* rows of backslashes that start at an odd bit, and so the bits of the sum *)
(* tell, behind each backslash, where its row began.                        *)
THEOREM FindEscapedIsExact ==
  ASSUME NEW prev_escaped \in SUBSET {0}, NEW backslash \in SUBSET Bits,
         NEW e, IsEscapeMap(prev_escaped, backslash, e)
  PROVE  /\ find_escaped(prev_escaped, backslash).escaped = {b \in Bits : e[b]}
         /\ find_escaped(prev_escaped, backslash).overflow = FirstBit(e[Width])
<1> DEFINE backs == backslash \ prev_escaped
           follows_escape == ShiftLeft(backs) \cup prev_escaped
           odd_starts == (backs \ EvenBits) \ follows_escape
           sum == Number(odd_starts) + Number(backs)
           sumbits == BitsOf(sum % PowerOfTwo[Width])
           invert_mask == ShiftLeft(sumbits)
           c(b) == CarryInto(odd_starts, backs, b)
<1>0. /\ Width \in Nat /\ Width >= 4 /\ Width % 2 = 0
      /\ \A b \in Bits : b \in 0..Width /\ b + 1 \in 0..Width /\ b \in Nat
  BY WidthAssumption DEF Bits
<1>1. find_escaped(prev_escaped, backslash) =
        IF backslash = {}
        THEN [escaped |-> prev_escaped, overflow |-> {}]
        ELSE [escaped |-> SymDiff(EvenBits, invert_mask) \cap follows_escape,
              overflow |-> FirstBit(sum >= PowerOfTwo[Width])]
  BY DEF find_escaped
<1>2. CASE backslash = {}
  <2>1. \A b \in 1..Width : ~e[b]
    BY <1>2, <1>0 DEF IsEscapeMap
  <2>2. e[0] <=> 0 \in prev_escaped
    BY <1>0 DEF IsEscapeMap
  <2>3. {b \in Bits : e[b]} = prev_escaped
    <3>1. 0 \in Bits /\ \A b \in Bits : b # 0 => b \in 1..Width
      BY <1>0 DEF Bits
    <3>2. QED
      BY <2>1, <2>2, <3>1, Zenon
  <2>4. ~e[Width]
    BY <2>1, <1>0
  <2>5. QED
    BY <1>1, <1>2, <2>3, <2>4 DEF FirstBit
<1>3. CASE backslash # {}
  <2>0. /\ backs \subseteq Bits /\ odd_starts \subseteq backs
        /\ \A b \in Bits : b \in backs <=> b \in backslash /\ ~(b = 0 /\ e[0])
        /\ \A b \in Bits : b + 1 \in Bits => (b + 1 \in follows_escape <=> b \in backs)
        /\ 0 \in follows_escape <=> e[0]
        /\ \A b \in Bits : b \in odd_starts <=> b \in backs /\ b % 2 # 0 /\ b \notin follows_escape
    <3>1. e[0] <=> 0 \in prev_escaped
      BY <1>0 DEF IsEscapeMap
    <3>2. \A b \in Bits : b + 1 \in Bits => (b + 1 \in follows_escape <=> b \in backs)
      BY <1>0 DEF ShiftLeft, Bits
    <3>3. 0 \in follows_escape <=> e[0]
      BY <3>1, <1>0 DEF ShiftLeft, Bits
    <3>4. \A b \in Bits : b \in backs <=> b \in backslash /\ ~(b = 0 /\ e[0])
      BY <3>1, Zenon
    <3>5. \A b \in Bits : b \in EvenBits <=> b % 2 = 0
      BY DEF EvenBits
    <3> HIDE DEF follows_escape
    <3>6. QED
      BY <3>2, <3>3, <3>4, <3>5
  <2> HIDE DEF backs, follows_escape, odd_starts
  <2>1. \A b \in Bits :
          /\ ~c(0)
          /\ c(b+1) <=> Bit(odd_starts, b) + Bit(backs, b) + (IF c(b) THEN 1 ELSE 0) >= 2
    BY CarryRule
  <2>2. \A b \in Bits : b \in sumbits
            <=> (Bit(odd_starts, b) + Bit(backs, b) + (IF c(b) THEN 1 ELSE 0)) % 2 = 1
    <3>1. Number(odd_starts) + Number(backs) = sum
      OBVIOUS
    <3>2. TAKE b \in Bits
    <3>3. QED
      BY BitOfSum
  <2>3. \A b \in Bits : b + 1 \in Bits => (b + 1 \in invert_mask <=> b \in sumbits)
    BY <1>0 DEF ShiftLeft
  <2>4. 0 \notin invert_mask
    BY <1>0 DEF ShiftLeft, BitsOf, Bits
  <2> HIDE DEF c, sumbits, invert_mask
  <2> DEFINE Odd(b) == b % 2 # 0
             Ok(b) == /\ c(b+1) => b \in backs
                      /\ b \in backs => (e[b+1] <=> (c(b+1) <=> ~Odd(b+1)))
                      /\ b \in backs => (b \in sumbits <=> ~c(b+1))
                      /\ e[b+1] => b \in backs
  <2>5. \A b \in Bits : Ok(b)
    <3> DEFINE T == {b \in Bits : ~Ok(b)}
    <3>1. SUFFICES ASSUME T # {} PROVE FALSE
      OBVIOUS
    <3>2. PICK b \in T : \A y \in T : b <= y
      <4>1. T \in SUBSET Nat
        BY <1>0
      <4> HIDE DEF T
      <4>2. QED
        BY <3>1, <4>1, Smallest
    <3>3. b \in Bits /\ b \in Nat /\ ~Ok(b)
      BY <3>2, <1>0
    <3> HIDE DEF T, Ok
    <3>4. c(b+1) <=> Bit(odd_starts, b) + Bit(backs, b) + (IF c(b) THEN 1 ELSE 0) >= 2
      BY <3>3, <2>1, Zenon
    <3>5. b \in sumbits
            <=> (Bit(odd_starts, b) + Bit(backs, b) + (IF c(b) THEN 1 ELSE 0)) % 2 = 1
      BY <3>3, <2>2
    <3>6. e[b+1] <=> b \in backslash /\ ~e[b]
      <4>1. b + 1 \in 0..Width /\ b + 1 # 0 /\ (b+1)-1 = b
        BY <3>3, <1>0
      <4>2. QED
        BY <4>1 DEF IsEscapeMap
    <3>7. b \in odd_starts <=> b \in backs /\ Odd(b) /\ b \notin follows_escape
      BY <3>3, <2>0
    <3>8. Odd(b+1) <=> ~Odd(b)
      BY <3>3
    <3>9. b \in backs <=> b \in backslash /\ ~(b = 0 /\ e[0])
      BY <3>3, <2>0
    <3> HIDE DEF Odd
    <3>10. CASE b = 0
      <4>1. ~c(b)
        BY <3>10, <2>1, <3>3, Zenon
      <4>2. (b \in follows_escape <=> e[b]) /\ ~Odd(b)
        BY <3>10, <2>0 DEF Odd
      <4>3. b \notin odd_starts /\ ~c(b+1)
        BY <4>1, <4>2, <3>4, <3>7 DEF Bit
      <4>4. b \in backs => b \in sumbits
        BY <4>1, <4>3, <3>5 DEF Bit
      <4>5. QED
        BY <4>2, <4>3, <4>4, <3>3, <3>6, <3>8, <3>9, <3>10, Zenon DEF Ok
    <3>11. CASE b # 0
      <4>1. b - 1 \in Bits /\ (b-1)+1 = b /\ b - 1 < b
        BY <3>3, <3>11, <1>0 DEF Bits
      <4>2. Ok(b-1)
        <5>1. b - 1 \notin T
          <6> HIDE DEF T
          <6>1. QED
            BY <3>2, <3>3, <4>1
        <5>2. QED
          BY <5>1, <4>1 DEF T
      <4>3. b \in follows_escape <=> b - 1 \in backs
        BY <4>1, <3>3, <2>0
      <4>4. /\ c(b) => b - 1 \in backs
            /\ b - 1 \in backs => (e[b] <=> (c(b) <=> ~Odd(b)))
            /\ e[b] => b - 1 \in backs
        BY <4>1, <4>2 DEF Ok
      <4>5. b \in backs <=> b \in backslash
        BY <3>9, <3>11
      <4>6. c(b+1) <=> b \in backs /\ (b \in odd_starts \/ c(b))
        BY <3>4, <3>7, <4>3, <4>4 DEF Bit
      <4>7. b \in backs => (b \in sumbits <=> ~c(b+1))
        BY <3>4, <3>5, <3>7, <4>3, <4>4 DEF Bit
      <4>8. b \in backs => (e[b+1] <=> (c(b+1) <=> ~Odd(b+1)))
        BY <4>6, <3>6, <3>7, <3>8, <4>3, <4>4, <4>5
      <4>9. QED
        BY <4>5, <4>6, <4>7, <4>8, <3>6, <3>3 DEF Ok
    <3>12. QED
      BY <3>10, <3>11
  <2>6. SymDiff(EvenBits, invert_mask) \cap follows_escape = {b \in Bits : e[b]}
    <3>1. ASSUME NEW b \in Bits
          PROVE  b \in SymDiff(EvenBits, invert_mask) \cap follows_escape <=> e[b]
      <4>1. b \in SymDiff(EvenBits, invert_mask) <=> ~(b % 2 = 0 <=> b \in invert_mask)
        BY DEF SymDiff, EvenBits
      <4>2. CASE b = 0
        BY <4>1, <4>2, <2>4, <2>0
      <4>3. CASE b # 0
        <5>1. b - 1 \in Bits /\ (b-1)+1 = b
          BY <4>3, <1>0 DEF Bits
        <5>2. /\ b \in follows_escape <=> b - 1 \in backs
              /\ b \in invert_mask <=> b - 1 \in sumbits
          BY <5>1, <2>0, <2>3
        <5>3. Ok(b-1)
          BY <5>1, <2>5
        <5>4. /\ b - 1 \in backs => (e[b] <=> (c(b) <=> ~Odd(b)))
              /\ b - 1 \in backs => (b - 1 \in sumbits <=> ~c(b))
              /\ e[b] => b - 1 \in backs
          BY <5>1, <5>3
        <5>5. Odd(b) <=> ~(b % 2 = 0)
          OBVIOUS
        <5> HIDE DEF Odd, Ok
        <5>6. QED
          BY <5>2, <5>4, <5>5, <4>1
      <4>4. QED
        BY <4>2, <4>3
    <3>2. follows_escape \subseteq Bits
      <4>1. 0 \in Bits
        BY <1>0 DEF Bits
      <4>2. QED
        BY <4>1, Zenon DEF follows_escape, ShiftLeft
    <3>3. QED
      BY <3>1, <3>2
  <2>7. sum >= PowerOfTwo[Width] <=> e[Width]
    <3>1. c(Width) <=> sum >= PowerOfTwo[Width]
      <4>1. Number(odd_starts) = Low(odd_starts)[Width] /\ Number(backs) = Low(backs)[Width]
        BY LowRule
      <4>2. QED
        BY <4>1 DEF CarryInto, LowSum, c
    <3>2. Width - 1 \in Bits /\ (Width - 1) + 1 = Width
      BY <1>0 DEF Bits
    <3>3. Ok(Width - 1)
      BY <3>2, <2>5
    <3>4. /\ c(Width) => Width - 1 \in backs
          /\ Width - 1 \in backs => (e[Width] <=> (c(Width) <=> ~Odd(Width)))
          /\ e[Width] => Width - 1 \in backs
      BY <3>2, <3>3
    <3>5. ~Odd(Width)
      BY <1>0
    <3> HIDE DEF Ok, Odd
    <3>6. QED
      BY <3>1, <3>4, <3>5
  <2> HIDE DEF sum
  <2>8. FirstBit(sum >= PowerOfTwo[Width]) = FirstBit(e[Width])
    BY <2>7 DEF FirstBit
  <2>9. QED
    BY <1>1, <1>3, <2>6, <2>8
<1>4. QED
  BY <1>2, <1>3

(* prefix_xor() flips at each bit of the mask. *)
LEMMA PrefixXorRule ==
  ASSUME NEW m \in SUBSET Bits
  PROVE  /\ prefix_xor(m) \subseteq Bits
         /\ \A b \in Bits : b \in prefix_xor(m) <=> OddBelow(m, b+1)
<1>1. ASSUME NEW b \in Bits
      PROVE  b \in prefix_xor(m) <=> OddBelow(m, b+1)
  <2>1. {c \in m : c <= b} = {j \in 0..(b+1)-1 : j \in m}
    <3>1. \A c \in m : c \in Nat
      BY Wide DEF Bits
    <3>2. b \in Nat
      BY Wide DEF Bits
    <3>3. ASSUME NEW c \in m
          PROVE  c <= b <=> c \in 0..(b+1)-1
      <4>1. c \in Nat
        BY <3>1
      <4>2. QED
        BY <4>1, <3>2
    <3>4. QED
      BY <3>3, Zenon
  <2>2. QED
    BY <2>1, Zenon DEF prefix_xor, OddBelow
<1>2. QED
  BY <1>1 DEF prefix_xor

-----------------------------------------------------------------------------
(* One block of the scanner, by what it means: e says which of its bytes    *)
(* are escaped, s which are the contents or the end of a string.            *)
Operator(byte) == byte \in OperatorBytes \cup LikeOperators
ScalarByte(byte) == byte \notin OperatorBytes \cup LikeOperators \cup WhitespaceBytes

IsStringMap(before, in, e, s) ==
    /\ s \in [0..Width -> BOOLEAN]
    /\ s[0] = before
    /\ \A b \in Bits : s[b+1] <=> ~(s[b] <=> (in[b] = Quote /\ ~e[b]))

CarryOf(string, escaped, scalar) == [prev_in_string |-> AllBits(string),
                                     prev_escaped   |-> FirstBit(escaped),
                                     prev_scalar    |-> FirstBit(scalar)]

ScannedAs(block, in, scalar, e, s) ==
    LET Ends(b) == ScalarByte(in[b]) /\ ~(in[b] = Quote /\ ~e[b])
    IN  /\ block.in_string = {b \in Bits : s[b+1]}
        /\ block.whitespace = {b \in Bits : in[b] \in WhitespaceBytes /\ ~s[b+1]}
        /\ block.structural_start =
             {b \in Bits : /\ ~s[b]
                           /\ \/ Operator(in[b])
                              \/ /\ ScalarByte(in[b])
                                 /\ ~(IF b = 0 THEN scalar ELSE Ends(b-1))}
        /\ block.carry = CarryOf(s[Width], e[Width], Ends(Width-1))

LEMMA ScannerBlock ==
  ASSUME NEW in, NEW escaped \in BOOLEAN, NEW string \in BOOLEAN, NEW scalar \in BOOLEAN,
         NEW e, IsEscapeMap(FirstBit(escaped), Mask(in, {Backslash}), e),
         NEW s, IsStringMap(string, in, e, s)
  PROVE  ScannedAs(ScannerNext(CarryOf(string, escaped, scalar), in), in, scalar, e, s)
<1> DEFINE before == CarryOf(string, escaped, scalar)
           block == ScannerNext(before, in)
           escapes == find_escaped(FirstBit(escaped), Mask(in, {Backslash}))
           quotes == Mask(in, {Quote}) \ escapes.escaped
           strings == SymDiff(prefix_xor(quotes), AllBits(string))
           whitespace == Mask(in, WhitespaceBytes)
           op == Mask(in, OperatorBytes \cup LikeOperators)
           scal == Bits \ (op \cup whitespace)
           nonquote_scalar == scal \ quotes
           follows == ShiftLeft(nonquote_scalar) \cup FirstBit(scalar)
           string_tail == SymDiff(strings, quotes)
           Ends(b) == ScalarByte(in[b]) /\ ~(in[b] = Quote /\ ~e[b])
<1>0. /\ Width \in Nat /\ Width >= 4 /\ 0 \in Bits /\ Width - 1 \in Bits
      /\ \A b \in Bits : b \in Nat /\ b + 1 \in 0..Width /\ b \in 0..Width /\ b < Width
      /\ \A b \in Bits : b # 0 => b - 1 \in Bits /\ (b-1)+1 = b
  BY Wide DEF Bits
<1>1. /\ escapes.escaped = {b \in Bits : e[b]}
      /\ escapes.overflow = FirstBit(e[Width])
  <2>1. FirstBit(escaped) \in SUBSET {0} /\ Mask(in, {Backslash}) \in SUBSET Bits
    BY DEF FirstBit, Mask
  <2>2. QED
    BY <2>1, FindEscapedIsExact, Zenon
<1>2. block = [structural_start |-> (op \cup (scal \ follows)) \ string_tail,
               whitespace |-> whitespace \ strings,
               in_string  |-> strings,
               carry |-> [prev_in_string |-> AllBits(Width-1 \in strings),
                          prev_escaped   |-> escapes.overflow,
                          prev_scalar    |-> FirstBit(Width-1 \in nonquote_scalar)]]
  BY DEF ScannerNext, CarryOf
<1> HIDE DEF escapes, block
<1>3. \A b \in Bits : b \in quotes <=> in[b] = Quote /\ ~e[b]
  BY <1>1 DEF Mask
<1>4. quotes \in SUBSET Bits
  BY DEF Mask
<1> HIDE DEF quotes
<1>5. \A b \in Bits : s[b+1] <=> ~(OddBelow(quotes, b+1) <=> string)
  <2> DEFINE Ok(b) == s[b] <=> ~(OddBelow(quotes, b) <=> string)
             T == {b \in 0..Width : ~Ok(b)}
  <2>1. CASE T = {}
    BY <2>1, <1>0
  <2>2. CASE T # {}
    <3>1. PICK b \in T : \A y \in T : b <= y
      <4>1. T \in SUBSET Nat
        BY <1>0
      <4> HIDE DEF T
      <4>2. QED
        BY <2>2, <4>1, Smallest
    <3>2. b # 0
      <4>1. ~OddBelow(quotes, 0) /\ (OddBelow(quotes, 0+1) <=> ~(OddBelow(quotes, 0) <=> 0 \in quotes))
        BY OddBelowRule, Zenon
      <4>2. Ok(0)
        BY <4>1 DEF IsStringMap
      <4>3. QED
        BY <4>2, <3>1
    <3>3. b - 1 \in Bits /\ (b-1)+1 = b /\ b - 1 \in Nat /\ b \in Nat /\ b - 1 \in 0..Width
      BY <3>1, <3>2, <1>0 DEF Bits
    <3>4. Ok(b-1)
      <4>1. b - 1 \notin T
        <5> HIDE DEF T
        <5>1. QED
          BY <3>1, <3>3
      <4>2. QED
        BY <4>1, <3>3
    <3>5. OddBelow(quotes, b) <=> ~(OddBelow(quotes, b-1) <=> b-1 \in quotes)
      BY <3>3, OddBelowRule
    <3>6. s[b] <=> ~(s[b-1] <=> b-1 \in quotes)
      <4>1. s[(b-1)+1] <=> ~(s[b-1] <=> (in[b-1] = Quote /\ ~e[b-1]))
        BY <3>3 DEF IsStringMap
      <4>2. QED
        BY <4>1, <3>3, <1>3
    <3>7. Ok(b)
      BY <3>4, <3>5, <3>6
    <3>8. QED
      BY <3>7, <3>1
  <2>3. QED
    BY <2>1, <2>2
<1>6. strings = {b \in Bits : s[b+1]}
  <2>1. prefix_xor(quotes) \subseteq Bits /\ AllBits(string) \subseteq Bits
    BY <1>4, PrefixXorRule DEF AllBits
  <2>2. ASSUME NEW b \in Bits
        PROVE  b \in strings <=> s[b+1]
    <3>1. b \in prefix_xor(quotes) <=> OddBelow(quotes, b+1)
      BY <1>4, PrefixXorRule
    <3>2. b \in AllBits(string) <=> string
      BY DEF AllBits
    <3>3. QED
      BY <3>1, <3>2, <1>5 DEF SymDiff
  <2>3. strings \subseteq Bits
    BY <2>1 DEF SymDiff
  <2>4. QED
    BY <2>2, <2>3
<1> HIDE DEF strings
<1>7. \A b \in Bits : b \in string_tail <=> s[b]
  <2>1. TAKE b \in Bits
  <2>2. s[b+1] <=> ~(s[b] <=> b \in quotes)
    BY <1>3 DEF IsStringMap
  <2>3. s[b] \in BOOLEAN /\ s[b+1] \in BOOLEAN
    BY <1>0, Zenon DEF IsStringMap
  <2>4. b \in strings <=> s[b+1]
    BY <1>6
  <2>5. QED
    BY <2>2, <2>3, <2>4 DEF SymDiff
<1> HIDE DEF string_tail
<1>8. /\ op \subseteq Bits /\ scal \subseteq Bits
      /\ \A b \in Bits : /\ b \in op <=> Operator(in[b])
                         /\ b \in scal <=> ScalarByte(in[b])
                         /\ b \in whitespace <=> in[b] \in WhitespaceBytes
                         /\ b \in nonquote_scalar <=> Ends(b)
  <2>1. op \subseteq Bits /\ scal \subseteq Bits
    BY DEF Mask
  <2>2. ASSUME NEW b \in Bits
        PROVE  /\ b \in op <=> Operator(in[b])
               /\ b \in scal <=> ScalarByte(in[b])
               /\ b \in whitespace <=> in[b] \in WhitespaceBytes
    BY DEF Mask, Operator, ScalarByte
  <2> HIDE DEF op, scal, whitespace
  <2>3. QED
    BY <2>1, <2>2, <1>3
<1>9. \A b \in Bits : b \in follows <=> IF b = 0 THEN scalar ELSE Ends(b-1)
  <2>1. TAKE b \in Bits
  <2>2. b \in FirstBit(scalar) <=> b = 0 /\ scalar
    BY Zenon DEF FirstBit
  <2>3. b \in ShiftLeft(nonquote_scalar) <=> b - 1 \in nonquote_scalar
    BY DEF ShiftLeft
  <2>4. b = 0 => b - 1 \notin nonquote_scalar
    <3>1. nonquote_scalar \subseteq Bits
      BY <1>8
    <3>2. 0 - 1 \notin Bits
      BY <1>0
    <3> HIDE DEF nonquote_scalar
    <3>3. QED
      BY <3>1, <3>2
  <2>5. b # 0 => (b - 1 \in nonquote_scalar <=> Ends(b-1))
    BY <1>8, <1>0, Zenon
  <2> HIDE DEF nonquote_scalar, Ends
  <2>6. QED
    BY <2>2, <2>3, <2>4, <2>5
<1> HIDE DEF follows
<1>10. block.in_string = {b \in Bits : s[b+1]}
  BY <1>2, <1>6
<1>11. block.whitespace = {b \in Bits : in[b] \in WhitespaceBytes /\ ~s[b+1]}
  <2>1. block.whitespace = whitespace \ strings
    BY <1>2
  <2>2. whitespace \subseteq Bits
    BY DEF Mask
  <2> HIDE DEF whitespace
  <2>3. QED
    BY <2>1, <2>2, <1>6, <1>8
<1>12. block.structural_start =
                  {b \in Bits : /\ ~s[b]
                                /\ \/ Operator(in[b])
                                   \/ /\ ScalarByte(in[b])
                                      /\ ~(IF b = 0 THEN scalar ELSE Ends(b-1))}
  <2>1. block.structural_start = (op \cup (scal \ follows)) \ string_tail
    <3> HIDE DEF op, scal, nonquote_scalar, whitespace
    <3>1. QED
      BY <1>2
  <2>2. ASSUME NEW b \in Bits
        PROVE  b \in (op \cup (scal \ follows)) \ string_tail
                <=> /\ ~s[b]
                    /\ \/ Operator(in[b])
                       \/ /\ ScalarByte(in[b])
                          /\ ~(IF b = 0 THEN scalar ELSE Ends(b-1))
    <3>1. /\ b \in op <=> Operator(in[b])
          /\ b \in scal <=> ScalarByte(in[b])
      BY <1>8, Zenon
    <3>2. b \in follows <=> IF b = 0 THEN scalar ELSE Ends(b-1)
      BY <1>9
    <3>3. b \in string_tail <=> s[b]
      BY <1>7
    <3> HIDE DEF op, scal, Ends
    <3>4. QED
      BY <3>1, <3>2, <3>3
  <2> HIDE DEF op, scal, Ends
  <2>3. QED
    BY <2>1, <2>2, <1>8
<1>13. block.carry = [prev_in_string |-> AllBits(s[Width]),
                      prev_escaped |-> FirstBit(e[Width]),
                      prev_scalar |-> FirstBit(Ends(Width-1))]
  <2>1. (Width-1 \in strings) <=> s[Width]
    <3>1. (Width-1)+1 = Width
      BY <1>0
    <3>2. QED
      BY <3>1, <1>0, <1>6
  <2>2. AllBits(Width-1 \in strings) = AllBits(s[Width])
    BY <2>1 DEF AllBits
  <2>3. (Width-1 \in nonquote_scalar) <=> Ends(Width-1)
    BY <1>0, <1>8, Zenon
  <2>4. FirstBit(Width-1 \in nonquote_scalar) = FirstBit(Ends(Width-1))
    <3> HIDE DEF nonquote_scalar, Ends
    <3>1. QED
      BY <2>3 DEF FirstBit
  <2>5. block.carry = [prev_in_string |-> AllBits(Width-1 \in strings),
                       prev_escaped   |-> escapes.overflow,
                       prev_scalar    |-> FirstBit(Width-1 \in nonquote_scalar)]
    BY <1>2
  <2> HIDE DEF nonquote_scalar, Ends
  <2>6. QED
    BY <2>2, <2>4, <2>5, <1>1
<1>14. QED
  BY <1>10, <1>11, <1>12, <1>13, Zenon DEF ScannedAs, CarryOf, block

-----------------------------------------------------------------------------
(* A text t of which n bytes are read, with blanks behind it: what is at an *)
(* offset, by the recursion that the blocks follow.                         *)
ByteAt(t, n, i) == IF i < n THEN At(t, i) ELSE Space
EscAt(t, n, i)  == i <= n /\ i \in EscapedBytes(t)
StrAt(t, n, i)  == StringTail(Classes(t), IF i <= n THEN i ELSE n)
QuoteAt(t, n, i) == ByteAt(t, n, i) = Quote /\ ~EscAt(t, n, i)
ScalAt(t, n, i) == i > 0 /\ ScalarByte(ByteAt(t, n, i-1)) /\ ~QuoteAt(t, n, i-1)
StartAt(t, n, i) == /\ ~StrAt(t, n, i)
                    /\ \/ Operator(ByteAt(t, n, i))
                       \/ ScalarByte(ByteAt(t, n, i)) /\ ~ScalAt(t, n, i)
Carries(t, n, i) == CarryOf(StrAt(t, n, i), EscAt(t, n, i), ScalAt(t, n, i))
PaddedBlock(t, n, at) == [b \in Bits |-> ByteAt(t, n, at + b)]

Escape(t, f, i) == i > 0 /\ At(t, i-1) = Backslash /\ ~f[i-1]

LEMMA EscapedRule ==
  ASSUME NEW t \in Seq(Byte), NEW i \in 0..Len(t)
  PROVE  i \in EscapedBytes(t)
           <=> i > 0 /\ At(t, i-1) = Backslash /\ i-1 \notin EscapedBytes(t)
<1> DEFINE Step == [j \in Nat |-> [x \in BOOLEAN |-> At(t, j) = Backslash /\ ~x]]
           Body(f) == [j \in 0..Len(t) |-> Escape(t, f, j)]
           escaped == CHOOSE f : f = Body(f)
<1>0. Len(t) \in Nat
  OBVIOUS
<1>1. PICK f \in [0..Len(t) -> BOOLEAN] : Recursive(f, Len(t), FALSE, Step)
  <2>1. \A j \in Nat, x \in BOOLEAN : Step[j][x] \in BOOLEAN
    OBVIOUS
  <2> HIDE DEF Step
  <2>2. FALSE \in BOOLEAN
    OBVIOUS
  <2>3. \A n \in Nat : \E f \in [0..n -> BOOLEAN] : Recursive(f, n, FALSE, Step)
    BY <2>1, <2>2, Recursion, Zenon
  <2>4. QED
    BY <2>3, <1>0, Zenon
<1>2. f = Body(f)
  <2>1. ASSUME NEW j \in 0..Len(t)
        PROVE  f[j] = Escape(t, f, j)
    <3>1. CASE j = 0
      BY <3>1, <1>1 DEF Recursive, Escape
    <3>2. CASE j # 0
      <4>1. j-1 \in 0..Len(t) /\ j-1 \in Nat /\ j > 0
        BY <3>2, <1>0
      <4>2. f[j-1] \in BOOLEAN
        BY <4>1, <1>1
      <4>3. f[j] = Step[j-1][f[j-1]]
        BY <3>2, <1>1, Zenon DEF Recursive
      <4>4. QED
        BY <4>1, <4>2, <4>3 DEF Escape
    <3>3. QED
      BY <3>1, <3>2
  <2>2. QED
    BY <2>1, <1>1, Zenon
<1>3. escaped = Body(escaped)
  BY <1>2, Zenon
<1>4. EscapedBytes(t) = {j \in 0..Len(t) : escaped[j]}
  BY Zenon DEF EscapedBytes, Escape
<1> HIDE DEF escaped
<1>5. \A j \in 0..Len(t) : escaped[j] = Escape(t, escaped, j)
  BY <1>3, Zenon
<1>6. \A j \in 0..Len(t) : j \in EscapedBytes(t) <=> Escape(t, escaped, j)
  BY <1>4, <1>5, Zenon
<1>7. i > 0 => i-1 \in 0..Len(t)
  BY <1>0
<1>8. QED
  BY <1>4, <1>6, <1>7, Zenon DEF Escape

LEMMA ClassOfByte ==
  ASSUME NEW t \in Seq(Byte), NEW i \in 0..Len(t)-1
  PROVE  LET c == Classes(t)
             b == At(t, i)
         IN  /\ b \in Byte
             /\ Len(c) = Len(t)
             /\ At(c, i) = "q" <=> b = Quote /\ i \notin EscapedBytes(t)
             /\ At(c, i) \in Operators <=> b \in OperatorBytes
             /\ At(c, i) = Blank <=> b \in WhitespaceBytes
             /\ At(c, i) = "u" <=> b >= 192
<1>1. i + 1 \in 1..Len(t) /\ DOMAIN t = 1..Len(t) /\ (i + 1) - 1 = i
  OBVIOUS
<1>2. At(t, i) \in Byte
  BY <1>1 DEF At
<1>3. Len(Classes(t)) = Len(t)
  BY <1>1 DEF Classes
<1>4. At(Classes(t), i) =
        CASE At(t, i) = Quote /\ i \notin EscapedBytes(t) -> "q"
          [] At(t, i) = 91  -> "["
          [] At(t, i) = 93  -> "]"
          [] At(t, i) = 123 -> "{"
          [] At(t, i) = 125 -> "}"
          [] At(t, i) = 44  -> ","
          [] At(t, i) = 58  -> ":"
          [] At(t, i) \in WhitespaceBytes -> Blank
          [] At(t, i) >= 192 -> "u"
          [] OTHER -> "d"
  BY <1>1, Zenon DEF Classes, At
<1>5. At(t, i) \in 0..255 /\ (i \notin EscapedBytes(t)) \in BOOLEAN
  BY <1>2 DEF Byte
<1>6. /\ "q" \notin Operators \cup {Blank, "u", "d"}
      /\ Operators \cap {Blank, "u", "d"} = {}
      /\ Blank \notin {"u", "d"} /\ "u" # "d"
  BY Zenon DEF Operators, Blank
<1>7. Operators = {"[", "]", "{", "}", ",", ":"}
  BY Zenon DEF Operators
<1>8. /\ At(Classes(t), i) = "q" <=> At(t, i) = Quote /\ i \notin EscapedBytes(t)
      /\ At(Classes(t), i) \in Operators <=> At(t, i) \in OperatorBytes
      /\ At(Classes(t), i) = Blank <=> At(t, i) \in WhitespaceBytes
      /\ At(Classes(t), i) = "u" <=> At(t, i) >= 192
  <2> DEFINE b == At(t, i)
             free == i \notin EscapedBytes(t)
             c == At(Classes(t), i)
             q == "q"  u == "u"  d == "d"
             c1 == "["  c2 == "]"  c3 == "{"  c4 == "}"  c5 == ","  c6 == ":"
  <2>1. c = CASE b = Quote /\ free -> q
              [] b = 91  -> c1
              [] b = 93  -> c2
              [] b = 123 -> c3
              [] b = 125 -> c4
              [] b = 44  -> c5
              [] b = 58  -> c6
              [] b \in WhitespaceBytes -> Blank
              [] b >= 192 -> u
              [] OTHER -> d
    BY <1>4, Zenon
  <2>2. b \in 0..255 /\ free \in BOOLEAN
    BY <1>5
  <2>3. /\ q \notin Operators \cup {Blank, u, d}
        /\ Operators \cap {Blank, u, d} = {}
        /\ Blank \notin {u, d} /\ u # d
        /\ Operators = {c1, c2, c3, c4, c5, c6}
    BY <1>6, <1>7, Zenon
  <2> HIDE DEF b, free, c, q, u, d, c1, c2, c3, c4, c5, c6
  <2>4. \A x \in Operators : x # q /\ x # Blank /\ x # u /\ x # d
    BY <2>3, Zenon
  <2>5. {c1, c2, c3, c4, c5, c6} \subseteq Operators
    BY <2>3
  <2>6. /\ c = q <=> b = Quote /\ free
        /\ c \in Operators <=> b \in OperatorBytes
        /\ c = Blank <=> b \in WhitespaceBytes
        /\ c = u <=> b >= 192
    <3>1. CASE b = Quote /\ free
      BY <2>1, <2>3, <3>1 DEF Quote, OperatorBytes, WhitespaceBytes, Space
    <3>2. CASE b \in OperatorBytes
      BY <2>1, <2>4, <2>5, <3>2 DEF Quote, OperatorBytes, WhitespaceBytes, Space
    <3>3. CASE b \in WhitespaceBytes
      <4>1. c = Blank /\ b # Quote /\ b \notin OperatorBytes /\ ~(b >= 192)
        BY <2>1, <3>3 DEF Quote, OperatorBytes, WhitespaceBytes, Space
      <4>2. Blank # q /\ Blank \notin Operators /\ Blank # u
        BY <2>3, <2>4, Zenon
      <4>3. QED
        BY <4>1, <4>2, <3>3, Zenon
    <3>4. CASE b >= 192
      <4>1. c = u /\ b # Quote /\ b \notin OperatorBytes /\ b \notin WhitespaceBytes
        BY <2>1, <2>2, <3>4 DEF Quote, OperatorBytes, WhitespaceBytes, Space
      <4>2. u # q /\ u \notin Operators /\ u # Blank
        BY <2>3, <2>4, Zenon
      <4>3. QED
        BY <4>1, <4>2, <3>4, Zenon
    <3>5. CASE ~(b = Quote /\ free) /\ b \notin OperatorBytes \cup WhitespaceBytes /\ ~(b >= 192)
      BY <2>1, <2>2, <2>3, <2>4, <3>5 DEF Quote, OperatorBytes, WhitespaceBytes, Space
    <3>6. QED
      BY <3>1, <3>2, <3>3, <3>4, <3>5
  <2>7. QED
    BY <2>6, Zenon DEF b, free, c, q, u
<1>9. QED
  BY <1>2, <1>3, <1>8, Zenon

LEMMA OffsetRules ==
  ASSUME NEW t \in Seq(Byte), NEW n \in 0..Len(t), NEW i \in Nat
  PROVE  /\ ~EscAt(t, n, 0)
         /\ EscAt(t, n, i+1) <=> ByteAt(t, n, i) = Backslash /\ ~EscAt(t, n, i)
         /\ ~StrAt(t, n, 0)
         /\ StrAt(t, n, i+1) <=> ~(StrAt(t, n, i) <=> QuoteAt(t, n, i))
<1>0. Len(t) \in Nat /\ n \in Nat
  OBVIOUS
<1>1. ~EscAt(t, n, 0)
  <2>1. 0 \in 0..Len(t)
    BY <1>0
  <2>2. QED
    BY <2>1, EscapedRule DEF EscAt
<1>2. EscAt(t, n, i+1) <=> ByteAt(t, n, i) = Backslash /\ ~EscAt(t, n, i)
  <2>1. CASE i + 1 <= n
    <3>1. i + 1 \in 0..Len(t) /\ (i + 1) - 1 = i /\ i + 1 > 0 /\ i < n
      BY <2>1, <1>0
    <3>2. i + 1 \in EscapedBytes(t) <=> At(t, i) = Backslash /\ i \notin EscapedBytes(t)
      BY <3>1, EscapedRule
    <3>3. QED
      BY <3>1, <3>2 DEF EscAt, ByteAt
  <2>2. CASE ~(i + 1 <= n)
    BY <2>2, <1>0 DEF EscAt, ByteAt, Space, Backslash
  <2>3. QED
    BY <2>1, <2>2
<1>3. ~StrAt(t, n, 0)
  <2>1. \A j \in Nat : ~StringTail(Classes(t), 0)
    BY StringTailRule
  <2>2. QED
    BY <2>1, <1>0 DEF StrAt
<1>4. StrAt(t, n, i+1) <=> ~(StrAt(t, n, i) <=> QuoteAt(t, n, i))
  <2>1. CASE i < n
    <3>1. i \in 0..Len(t)-1 /\ i + 1 <= n /\ i <= n
      BY <2>1, <1>0
    <3>2. At(Classes(t), i) = "q" <=> QuoteAt(t, n, i)
      BY <3>1, <2>1, ClassOfByte DEF QuoteAt, ByteAt, EscAt
    <3>3. StringTail(Classes(t), i+1) <=> ~(StringTail(Classes(t), i) <=> At(Classes(t), i) = "q")
      BY StringTailRule, Zenon
    <3>4. QED
      BY <3>1, <3>2, <3>3 DEF StrAt
  <2>2. CASE ~(i < n)
    <3>1. ~QuoteAt(t, n, i)
      BY <2>2 DEF QuoteAt, ByteAt, Space, Quote
    <3>2. ~(i + 1 <= n) /\ (i <= n => i = n)
      BY <2>2, <1>0
    <3>3. QED
      BY <3>1, <3>2 DEF StrAt
  <2>3. QED
    BY <2>1, <2>2
<1>5. QED
  BY <1>1, <1>2, <1>3, <1>4

(* A block of the scanner says of each of its bytes what the text says, and *)
(* carries to the next block what is true of its first byte.                *)
LEMMA BlockOfText ==
  ASSUME NEW t \in Seq(Byte), NEW n \in 0..Len(t), NEW at \in Nat,
         NEW block, block = ScannerNext(Carries(t, n, at), PaddedBlock(t, n, at))
  PROVE  /\ block.in_string = {b \in Bits : StrAt(t, n, at + b + 1)}
         /\ block.whitespace = {b \in Bits : /\ ByteAt(t, n, at + b) \in WhitespaceBytes
                                             /\ ~StrAt(t, n, at + b + 1)}
         /\ block.structural_start = {b \in Bits : StartAt(t, n, at + b)}
         /\ block.carry = Carries(t, n, at + Width)
<1> DEFINE in == PaddedBlock(t, n, at)
           e == [b \in 0..Width |-> EscAt(t, n, at + b)]
           s == [b \in 0..Width |-> StrAt(t, n, at + b)]
           Ends(b) == ScalarByte(in[b]) /\ ~(in[b] = Quote /\ ~e[b])
<1>0. /\ Width \in Nat /\ 0 \in Bits /\ Width - 1 \in Bits /\ Width \in 0..Width
      /\ 0 \in 0..Width
      /\ \A b \in Bits : /\ b \in Nat /\ b + 1 \in 0..Width /\ b \in 0..Width /\ at + b \in Nat
                         /\ at + (b + 1) = (at + b) + 1
      /\ \A b \in 0..Width : b # 0 => /\ b - 1 \in Bits /\ at + (b-1) = (at + b) - 1
                                       /\ at + b > 0 /\ (b-1)+1 = b /\ b - 1 \in 0..Width
  BY Wide DEF Bits
<1>1. \A b \in Bits : in[b] = ByteAt(t, n, at + b)
  BY DEF PaddedBlock
<1>2. \A b \in 0..Width : /\ e[b] = EscAt(t, n, at + b) /\ e[b] \in BOOLEAN
                          /\ s[b] = StrAt(t, n, at + b) /\ s[b] \in BOOLEAN
  BY DEF EscAt, StrAt, StringTail
<1>3. e \in [0..Width -> BOOLEAN] /\ s \in [0..Width -> BOOLEAN]
  BY <1>2
<1> HIDE DEF e, s, in
<1>4. IsEscapeMap(FirstBit(EscAt(t, n, at)), Mask(in, {Backslash}), e)
  <2>1. ASSUME NEW b \in 0..Width
        PROVE  e[b] <=> IF b = 0 THEN 0 \in FirstBit(EscAt(t, n, at))
                        ELSE b-1 \in Mask(in, {Backslash}) /\ ~e[b-1]
    <3>1. CASE b = 0
      <4>1. at + b = at
        BY <3>1
      <4>2. e[b] = EscAt(t, n, at)
        BY <4>1, <1>2
      <4>3. QED
        BY <4>2, <3>1 DEF FirstBit
    <3>2. CASE b # 0
      <4>1. b - 1 \in Bits /\ b - 1 \in 0..Width /\ (at + (b-1)) + 1 = at + b /\ at + (b-1) \in Nat
        BY <3>2, <1>0
      <4>2. EscAt(t, n, at + b) <=> ByteAt(t, n, at + (b-1)) = Backslash /\ ~EscAt(t, n, at + (b-1))
        BY <4>1, OffsetRules, Zenon
      <4>3. b-1 \in Mask(in, {Backslash}) <=> ByteAt(t, n, at + (b-1)) = Backslash
        BY <4>1, <1>1 DEF Mask
      <4>4. QED
        BY <4>1, <4>2, <4>3, <1>2, <3>2
    <3>3. QED
      BY <3>1, <3>2
  <2>2. QED
    BY <2>1, <1>3, Zenon DEF IsEscapeMap
<1>5. IsStringMap(StrAt(t, n, at), in, e, s)
  <2>1. s[0] = StrAt(t, n, at)
    <3>1. at + 0 = at
      OBVIOUS
    <3>2. QED
      BY <3>1, <1>0, <1>2, Zenon
  <2>2. ASSUME NEW b \in Bits
        PROVE  s[b+1] <=> ~(s[b] <=> (in[b] = Quote /\ ~e[b]))
    <3>1. StrAt(t, n, (at + b)+1) <=> ~(StrAt(t, n, at + b) <=> QuoteAt(t, n, at + b))
      BY <1>0, OffsetRules, Zenon
    <3>2. QuoteAt(t, n, at + b) <=> in[b] = Quote /\ ~e[b]
      BY <1>0, <1>1, <1>2, Zenon DEF QuoteAt
    <3>3. s[b+1] = StrAt(t, n, (at + b)+1) /\ s[b] = StrAt(t, n, at + b)
      <4>1. b \in 0..Width /\ b+1 \in 0..Width /\ at + (b+1) = (at + b)+1
        BY <1>0
      <4>2. QED
        BY <4>1, <1>2, Zenon
    <3>4. QED
      BY <3>1, <3>2, <3>3
  <2>3. QED
    BY <2>1, <2>2, <1>3 DEF IsStringMap
<1>6. /\ EscAt(t, n, at) \in BOOLEAN /\ StrAt(t, n, at) \in BOOLEAN
      /\ ScalAt(t, n, at) \in BOOLEAN
  BY DEF EscAt, StrAt, ScalAt, StringTail
<1>7. /\ block.in_string = {b \in Bits : s[b+1]}
      /\ block.whitespace = {b \in Bits : in[b] \in WhitespaceBytes /\ ~s[b+1]}
      /\ block.structural_start =
           {b \in Bits : /\ ~s[b]
                         /\ \/ Operator(in[b])
                            \/ /\ ScalarByte(in[b])
                               /\ ~(IF b = 0 THEN ScalAt(t, n, at) ELSE Ends(b-1))}
      /\ block.carry = [prev_in_string |-> AllBits(s[Width]),
                        prev_escaped |-> FirstBit(e[Width]),
                        prev_scalar |-> FirstBit(Ends(Width-1))]
  <2>1. block = ScannerNext(Carries(t, n, at), in)
    BY DEF in
  <2>2. QED
    <3>1. ScannedAs(ScannerNext(Carries(t, n, at), in), in, ScalAt(t, n, at), e, s)
      BY <1>4, <1>5, <1>6, ScannerBlock, Zenon DEF Carries
    <3>2. ScannedAs(block, in, ScalAt(t, n, at), e, s)
      BY <2>1, <3>1, Zenon
    <3>3. QED
      BY <3>2, Zenon DEF ScannedAs, CarryOf
<1>8. \A b \in 0..Width : b # 0 => (Ends(b-1) <=> ScalAt(t, n, at + b))
  <2>1. TAKE b \in 0..Width
  <2>2. HAVE b # 0
  <2>0. b - 1 \in Bits /\ b - 1 \in 0..Width /\ at + (b-1) = (at + b) - 1 /\ at + b > 0
    BY <2>2, <1>0
  <2>3. /\ in[b-1] = ByteAt(t, n, (at + b) - 1) /\ e[b-1] = EscAt(t, n, (at + b) - 1)
        /\ at + b > 0
    <3>1. in[b-1] = ByteAt(t, n, at + (b-1)) /\ e[b-1] = EscAt(t, n, at + (b-1))
      BY <2>0, <1>1, <1>2, Zenon
    <3>2. QED
      BY <3>1, <2>0, Zenon
  <2>4. QED
    BY <2>3 DEF ScalAt, QuoteAt
<1> HIDE DEF Ends
<1>9. {b \in Bits : s[b+1]} = {b \in Bits : StrAt(t, n, at + b + 1)}
  <2>1. ASSUME NEW b \in Bits
        PROVE  s[b+1] = StrAt(t, n, at + b + 1)
    <3>1. b+1 \in 0..Width /\ at + (b+1) = at + b + 1
      BY <1>0
    <3>2. QED
      BY <3>1, <1>2, Zenon
  <2>2. QED
    BY <2>1
<1>10. {b \in Bits : in[b] \in WhitespaceBytes /\ ~s[b+1]}
         = {b \in Bits : /\ ByteAt(t, n, at + b) \in WhitespaceBytes
                         /\ ~StrAt(t, n, at + b + 1)}
  <2>1. ASSUME NEW b \in Bits
        PROVE  s[b+1] = StrAt(t, n, at + b + 1)
    <3>1. b+1 \in 0..Width /\ at + (b+1) = at + b + 1
      BY <1>0
    <3>2. QED
      BY <3>1, <1>2, Zenon
  <2>2. QED
    BY <2>1, <1>1
<1>11. ASSUME NEW b \in Bits
       PROVE  StartAt(t, n, at + b)
                <=> /\ ~s[b]
                    /\ \/ Operator(in[b])
                       \/ /\ ScalarByte(in[b])
                          /\ ~(IF b = 0 THEN ScalAt(t, n, at) ELSE Ends(b-1))
  <2>1. s[b] = StrAt(t, n, at + b) /\ in[b] = ByteAt(t, n, at + b) /\ b \in 0..Width
    BY <1>0, <1>1, <1>2, Zenon
  <2>2. ScalAt(t, n, at + b) <=> IF b = 0 THEN ScalAt(t, n, at) ELSE Ends(b-1)
    <3>1. CASE b = 0
      <4>1. at + b = at
        BY <3>1
      <4>2. QED
        BY <4>1, <3>1
    <3>2. CASE b # 0
      BY <3>2, <2>1, <1>8
    <3>3. QED
      BY <3>1, <3>2
  <2>3. QED
    BY <2>1, <2>2, Zenon DEF StartAt
<1>12. block.structural_start = {b \in Bits : StartAt(t, n, at + b)}
  BY <1>7, <1>11
<1>13. block.carry = Carries(t, n, at + Width)
  <2>1. Width # 0 /\ Width \in 0..Width
    BY Wide
  <2>2. Ends(Width-1) <=> ScalAt(t, n, at + Width)
    BY <2>1, <1>8
  <2>3. FirstBit(Ends(Width-1)) = FirstBit(ScalAt(t, n, at + Width))
    BY <2>2 DEF FirstBit
  <2>4. s[Width] = StrAt(t, n, at + Width) /\ e[Width] = EscAt(t, n, at + Width)
    BY <2>1, <1>2
  <2>5. block.carry = [prev_in_string |-> AllBits(s[Width]),
                       prev_escaped |-> FirstBit(e[Width]),
                       prev_scalar |-> FirstBit(Ends(Width-1))]
    BY <1>7
  <2>6. QED
    BY <2>3, <2>4, <2>5, Zenon DEF Carries, CarryOf
<1>14. QED
  BY <1>7, <1>9, <1>10, <1>12, <1>13

(* The recursion by offsets and the classes of StructuralIndex. *)
LEMMA FollowsByClass ==
  ASSUME NEW t \in Seq(Byte), NEW n \in 0..Len(t), NEW i \in 0..n,
         i = 0 \/ At(t, i-1) \notin LikeOperators
  PROVE  ScalAt(t, n, i) <=> FollowsScalar(Classes(t), i)
<1>1. CASE i = 0
  BY <1>1 DEF ScalAt, FollowsScalar
<1>2. CASE i # 0
  <2>1. i > 0 /\ i - 1 \in 0..Len(t)-1 /\ i - 1 < n /\ i - 1 <= n
    BY <1>2
  <2>2. ByteAt(t, n, i-1) = At(t, i-1) /\ (EscAt(t, n, i-1) <=> i-1 \in EscapedBytes(t))
    BY <2>1 DEF ByteAt, EscAt
  <2>3. /\ At(Classes(t), i-1) = "q" <=> At(t, i-1) = Quote /\ i-1 \notin EscapedBytes(t)
        /\ At(Classes(t), i-1) \in Operators <=> At(t, i-1) \in OperatorBytes
        /\ At(Classes(t), i-1) = Blank <=> At(t, i-1) \in WhitespaceBytes
    BY <2>1, ClassOfByte
  <2>4. QED
    BY <2>1, <2>2, <2>3, <1>2 DEF ScalAt, FollowsScalar, ScalarByte, Scalar, QuoteAt
<1>3. QED
  BY <1>1, <1>2

LEMMA StartsByClass ==
  ASSUME NEW t \in Seq(Byte), NEW n \in 0..Len(t), NEW i \in Nat, i < n,
         Classification, \A j \in ForeignBytes(t) : i < j
  PROVE  StartAt(t, n, i) <=> StructuralStart(Classes(t), i)
<1>0. i \in 0..Len(t)-1 /\ i \in 0..n /\ i <= n /\ n \in Nat /\ Len(t) \in Nat
  OBVIOUS
<1>1. StrAt(t, n, i) <=> StringTail(Classes(t), i)
  BY <1>0 DEF StrAt
<1>2. CASE StrAt(t, n, i)
  BY <1>1, <1>2 DEF StartAt, StructuralStart
<1>3. CASE ~StrAt(t, n, i)
  <2>1. ASSUME NEW j \in 0..Len(t)-1, j <= i, ~StringTail(Classes(t), j)
        PROVE  At(t, j) \notin LikeOperators
    <3>1. ~(At(t, j) < Space /\ At(t, j) \notin WhitespaceBytes)
      <4>1. j \notin ForeignBytes(t)
        BY <2>1
      <4>2. QED
        BY <4>1, <2>1, Zenon DEF ForeignBytes
    <3>2. At(t, j) \in LikeOperators => At(t, j) < Space /\ At(t, j) \notin WhitespaceBytes
      <4>1. \A x \in 0..32-1 : x < 32
        OBVIOUS
      <4>2. QED
        BY <4>1, Zenon DEF Classification, Space
    <3>3. QED
      BY <3>1, <3>2
  <2>2. At(t, i) \notin LikeOperators
    BY <2>1, <1>0, <1>1, <1>3
  <2>3. i = 0 \/ At(t, i-1) \notin LikeOperators
    <3>1. SUFFICES ASSUME i # 0, At(t, i-1) \in LikeOperators
                   PROVE  FALSE
      OBVIOUS
    <3>2. /\ i - 1 \in Nat /\ i - 1 \in 0..Len(t)-1 /\ (i-1)+1 = i
          /\ i - 1 <= n /\ i - 1 < n /\ i - 1 <= i
      BY <3>1, <1>0
    <3>3. StrAt(t, n, i-1)
      BY <3>1, <3>2, <2>1 DEF StrAt
    <3>4. QuoteAt(t, n, i-1)
      BY <3>2, <3>3, <1>3, OffsetRules
    <3>5. At(t, i-1) = Quote
      BY <3>2, <3>4 DEF QuoteAt, ByteAt
    <3>6. QED
      BY <3>1, <3>5 DEF Classification, Quote, Space
  <2>4. ScalAt(t, n, i) <=> FollowsScalar(Classes(t), i)
    BY <2>3, <1>0, FollowsByClass
  <2>5. ByteAt(t, n, i) = At(t, i)
    BY DEF ByteAt
  <2>6. /\ At(Classes(t), i) \in Operators <=> At(t, i) \in OperatorBytes
        /\ At(Classes(t), i) = Blank <=> At(t, i) \in WhitespaceBytes
    BY <1>0, ClassOfByte
  <2>7. QED
    BY <1>1, <2>2, <2>4, <2>5, <2>6
       DEF StartAt, StructuralStart, Operator, ScalarByte, Scalar
<1>4. QED
  BY <1>2, <1>3

(* The indexes of a mask list its bits.                                     *)
LEMMA IndexesOfLists ==
  ASSUME NEW m \in SUBSET Bits, NEW at \in Int, m # {} => at \in Nat
  PROVE  /\ Lists(IndexesOf(m, at), {at + b : b \in m})
         /\ Len(IndexesOf(m, at)) <= Width
<1> DEFINE One(b) == IF b \in m THEN <<at + b>> ELSE <<>>
           Step == [i \in Nat |-> [x \in Seq(Nat) |-> x \o One(i)]]
           Body(f) == [b \in 0..Width |-> IF b = 0 THEN <<>>
                        ELSE f[b-1] \o (IF b-1 \in m THEN <<at + b-1>> ELSE <<>>)]
           upto == CHOOSE f : f = Body(f)
           Upto(b) == {at + i : i \in {j \in m : j < b}}
<1>0. Width \in Nat /\ Width \in 0..Width /\ Bits \subseteq Nat /\ 0 \in 0..Width
  BY Wide DEF Bits
<1>1. ASSUME NEW b \in Nat
      PROVE  /\ One(b) \in Seq(Nat)
             /\ Lists(One(b), {at + i : i \in {j \in m : j = b}})
             /\ Len(One(b)) <= 1
  <2>1. CASE b \in m
    <3>1. at + b \in Nat /\ {at + i : i \in {j \in m : j = b}} = {at + b}
      BY <2>1
    <3>2. Lists(<<at + b>>, {at + b})
      BY <3>1, ListsOne
    <3>3. <<at + b>> \in Seq(Nat) /\ Len(<<at + b>>) <= 1
      BY <3>1
    <3>4. QED
      BY <2>1, <3>1, <3>2, <3>3
  <2>2. CASE b \notin m
    <3>1. {at + i : i \in {j \in m : j = b}} = {}
      BY <2>2
    <3>2. One(b) = <<>>
      BY <2>2
    <3>3. <<>> \in Seq(Nat) /\ Len(<<>>) <= 1
      OBVIOUS
    <3> HIDE DEF One
    <3>4. QED
      BY <3>1, <3>2, <3>3, ListsNone, Zenon
  <2>3. QED
    BY <2>1, <2>2
<1>2. PICK f \in [0..Width -> Seq(Nat)] : Recursive(f, Width, <<>>, Step)
  <2>1. \A i \in Nat, x \in Seq(Nat) : Step[i][x] \in Seq(Nat)
    <3> HIDE DEF One
    <3>1. ASSUME NEW i \in Nat, NEW x \in Seq(Nat)
          PROVE  x \o One(i) \in Seq(Nat)
      <4>1. One(i) \in Seq(Nat)
        BY <1>1, Zenon
      <4>2. QED
        BY <4>1
    <3>2. \A i \in Nat, x \in Seq(Nat) : Step[i][x] = x \o One(i)
      OBVIOUS
    <3> HIDE DEF Step
    <3>3. QED
      BY <3>1, <3>2, Zenon
  <2> HIDE DEF Step
  <2>2. <<>> \in Seq(Nat)
    OBVIOUS
  <2>3. \A n \in Nat : \E f \in [0..n -> Seq(Nat)] : Recursive(f, n, <<>>, Step)
    BY <2>1, <2>2, Recursion, Zenon
  <2>4. QED
    BY <2>3, <1>0, Zenon
<1>3. f = Body(f)
  <2>1. ASSUME NEW b \in 0..Width
        PROVE  f[b] = IF b = 0 THEN <<>>
                      ELSE f[b-1] \o (IF b-1 \in m THEN <<at + b-1>> ELSE <<>>)
    <3>1. CASE b = 0
      BY <3>1, <1>2, Zenon DEF Recursive
    <3>2. CASE b # 0
      <4>1. b - 1 \in Nat /\ b - 1 \in 0..Width /\ at + (b-1) = at + b-1
        BY <3>2, <1>0
      <4>2. f[b] = Step[b-1][f[b-1]]
        BY <3>2, <1>2, Zenon DEF Recursive
      <4>3. f[b-1] \in Seq(Nat)
        BY <4>1, <1>2
      <4> HIDE DEF One
      <4>4. f[b] = f[b-1] \o One(b-1)
        BY <4>1, <4>2, <4>3, Zenon
      <4>5. QED
        BY <4>4, <4>1, <3>2, Zenon DEF One
    <3>3. QED
      BY <3>1, <3>2, Zenon
  <2>2. QED
    BY <2>1, <1>2, Zenon
<1>4. upto = Body(upto)
  BY <1>3, Zenon
<1>5. IndexesOf(m, at) = upto[Width]
  BY Zenon DEF IndexesOf
<1> HIDE DEF upto
<1>6. /\ upto[0] = <<>>
      /\ \A b \in 0..Width : b # 0 => upto[b] = upto[b-1] \o One(b-1)
  <2>1. \A b \in 0..Width : upto[b] = IF b = 0 THEN <<>>
                  ELSE upto[b-1] \o (IF b-1 \in m THEN <<at + b-1>> ELSE <<>>)
    BY <1>4, Zenon
  <2>2. \A b \in 0..Width : b # 0 => at + (b-1) = at + b-1
    BY <1>0
  <2>3. QED
    BY <2>1, <2>2, <1>0, Zenon
<1> HIDE DEF One
<1> DEFINE Ok(b) == upto[b] \in Seq(Nat) /\ Lists(upto[b], Upto(b)) /\ Len(upto[b]) <= b
           T == {b \in 0..Width : ~Ok(b)}
<1>7. SUFFICES ASSUME T # {}
               PROVE  FALSE
  <2>1. Upto(Width) = {at + b : b \in m}
    BY <1>0 DEF Bits
  <2> HIDE DEF Upto
  <2>2. QED
    BY <2>1, <1>0, <1>5, Zenon
<1>8. PICK b \in T : \A y \in T : b <= y
  <2>1. T \in SUBSET Nat
    BY <1>0
  <2> HIDE DEF T
  <2>2. QED
    BY <2>1, <1>7, Smallest
<1>9. b \in 0..Width /\ ~Ok(b)
  BY <1>8
<1>10. b # 0
  <2>1. Upto(0) = {}
    BY <1>0
  <2> HIDE DEF Upto
  <2>2. <<>> \in Seq(Nat) /\ Len(<<>>) <= 0
    OBVIOUS
  <2>3. Ok(0)
    BY <2>1, <2>2, <1>6, ListsNone, Zenon
  <2>4. QED
    BY <2>3, <1>9
<1>11. b - 1 \in 0..Width /\ b - 1 \in Nat /\ b \in Nat
  BY <1>9, <1>10, <1>0
<1>12. Ok(b-1)
  <2>1. b - 1 \notin T
    <3> HIDE DEF T
    <3>1. QED
      BY <1>8, <1>11
  <2>2. QED
    BY <2>1, <1>11
<1> HIDE DEF T
<1>13. Lists(upto[b-1] \o One(b-1), Upto(b-1) \cup {at + i : i \in {j \in m : j = b-1}})
  <2> DEFINE R == {at + i : i \in {j \in m : j = b-1}}
  <2>1. Upto(b-1) \in SUBSET Nat /\ R \in SUBSET Nat /\ \A x \in Upto(b-1), y \in R : x < y
    BY <1>0
  <2>2. Lists(One(b-1), R)
    BY <1>1, <1>11
  <2> HIDE DEF R, Upto
  <2>3. QED
    BY <2>1, <2>2, <1>12, ListsConcat DEF R
<1>14. Upto(b-1) \cup {at + i : i \in {j \in m : j = b-1}} = Upto(b)
  <2>0. \A j \in m : j \in Nat
    BY <1>0
  <2>1. {j \in m : j < b} = {j \in m : j < b-1} \cup {j \in m : j = b-1}
    BY <2>0, <1>11
  <2>2. QED
    BY <2>1, Zenon
<1>15. upto[b] \in Seq(Nat) /\ Len(upto[b]) <= b
  <2>1. upto[b] = upto[b-1] \o One(b-1)
    BY <1>6, <1>9, <1>10, Zenon
  <2>2. One(b-1) \in Seq(Nat) /\ Len(One(b-1)) <= 1
    BY <1>1, <1>11, Zenon
  <2>3. upto[b-1] \in Seq(Nat) /\ Len(upto[b-1]) <= b-1
    BY <1>12
  <2> DEFINE x == upto[b-1]  y == One(b-1)
  <2> HIDE DEF x, y
  <2>4. x \in Seq(Nat) /\ y \in Seq(Nat) /\ Len(x) <= b-1 /\ Len(y) <= 1
    BY <2>2, <2>3 DEF x, y
  <2>5. x \o y \in Seq(Nat) /\ Len(x \o y) <= b
    BY <2>4, <1>11
  <2>6. QED
    BY <2>1, <2>5, Zenon DEF x, y
<1>16. Ok(b)
  <2> HIDE DEF Upto
  <2>1. upto[b] = upto[b-1] \o One(b-1)
    BY <1>6, <1>9, <1>10, Zenon
  <2>2. QED
    BY <2>1, <1>13, <1>14, <1>15, Zenon
<1>17. QED
  BY <1>16, <1>9

-----------------------------------------------------------------------------
(* What the indexer has found in front of an offset.                        *)
Starts(t, n, i)   == {j \in 0..i-1 : StartAt(t, n, j)}
Controls(t, n, i) == \E j \in 0..i-1 : ByteAt(t, n, j) \in 0..31 /\ StrAt(t, n, j+1)

IndexedTo(t, n, st, at) ==
    /\ st.scanner = Carries(t, n, at)
    /\ st.structurals \in SUBSET Bits
    /\ st.structurals # {} => at - Width \in Nat
    /\ Lists(st.tail \o IndexesOf(st.structurals, at - Width), Starts(t, n, at))
    /\ st.unescaped \in BOOLEAN
    /\ st.unescaped <=> Controls(t, n, at)

LEMMA StartsInBlock ==
  ASSUME NEW t, NEW n, NEW at \in Nat
  PROVE  Starts(t, n, at) \cup {at + b : b \in {c \in Bits : StartAt(t, n, at + c)}}
           = Starts(t, n, at + Width)
<1> DEFINE New == {at + b : b \in {c \in Bits : StartAt(t, n, at + c)}}
<1>0. Width \in Nat
  BY Wide
<1>1. ASSUME NEW x \in Starts(t, n, at + Width), x \notin Starts(t, n, at)
      PROVE  x \in New
  <2>1. x \in 0..at+Width-1 /\ StartAt(t, n, x) /\ ~(x < at)
    BY <1>1, <1>0 DEF Starts
  <2>2. x - at \in Bits /\ at + (x - at) = x
    BY <2>1, <1>0 DEF Bits
  <2>3. QED
    BY <2>1, <2>2
<1>2. ASSUME NEW x \in New
      PROVE  x \in Starts(t, n, at + Width)
  BY <1>0 DEF Bits, Starts
<1>3. Starts(t, n, at) \subseteq Starts(t, n, at + Width)
  BY <1>0 DEF Starts
<1>4. QED
  BY <1>1, <1>2, <1>3

LEMMA ControlsInBlock ==
  ASSUME NEW t, NEW n, NEW at \in Nat
  PROVE  Controls(t, n, at + Width)
           <=> \/ Controls(t, n, at)
               \/ \E b \in Bits : ByteAt(t, n, at + b) \in 0..31 /\ StrAt(t, n, at + b + 1)
<1>0. Width \in Nat
  BY Wide
<1>1. ASSUME NEW j \in 0..(at+Width)-1, ByteAt(t, n, j) \in 0..31 /\ StrAt(t, n, j+1), ~Controls(t, n, at)
      PROVE  \E b \in Bits : ByteAt(t, n, at + b) \in 0..31 /\ StrAt(t, n, at + b + 1)
  <2>1. ~(j \in 0..at-1)
    BY <1>1 DEF Controls
  <2>2. j - at \in Bits /\ at + (j - at) = j
    BY <2>1, <1>0 DEF Bits
  <2>3. QED
    BY <2>2, <1>1
<1>2. ASSUME NEW b \in Bits, ByteAt(t, n, at + b) \in 0..31 /\ StrAt(t, n, at + b + 1)
      PROVE  Controls(t, n, at + Width)
  <2>1. at + b \in 0..(at+Width)-1
    BY <1>0 DEF Bits
  <2>2. QED
    BY <2>1, <1>2 DEF Controls
<1>3. Controls(t, n, at) => Controls(t, n, at + Width)
  <2>1. \A j \in 0..at-1 : j \in 0..(at+Width)-1
    BY <1>0
  <2>2. QED
    BY <2>1 DEF Controls
<1>4. QED
  BY <1>1, <1>2, <1>3 DEF Controls

(* One block on: what a block finds and carries is what the text says.      *)
LEMMA IndexerKeeps ==
  ASSUME text \in Seq(Byte), len \in 0..Len(text), NEW at \in Nat,
         NEW st, IndexedTo(text, len, st, at)
  PROVE  /\ IndexedTo(text, len, IndexerNext(st, at), at + Width)
         /\ IndexerNext(st, at).checker
              = check_next_input(st.checker, PaddedBlock(text, len, at))
<1> DEFINE in == PaddedBlock(text, len, at)
           block == ScannerNext(Carries(text, len, at), in)
           nx == IndexerNext(st, at)
           new == {b \in Bits : StartAt(text, len, at + b)}
<1>0. Width \in Nat /\ at + Width \in Nat /\ (at + Width) - Width = at
  BY Wide
<1>1. Block(at) = in
  BY DEF Block, PaddedBlock, ByteAt
<1>2. nx = IndexBlock(st, in, block, at)
  BY <1>1 DEF IndexerNext, IndexedTo
<1>3. /\ nx.scanner = block.carry
      /\ nx.tail = st.tail \o IndexesOf(st.structurals, at - Width)
      /\ nx.structurals = block.structural_start
      /\ nx.unescaped = (st.unescaped \/ Mask(in, 0..31) \cap block.in_string # {})
      /\ nx.checker = check_next_input(st.checker, in)
  <2> HIDE DEF in, block, nx
  <2>1. QED
    BY <1>2, Zenon DEF IndexBlock
<1>4. /\ block.in_string = {b \in Bits : StrAt(text, len, at + b + 1)}
      /\ block.structural_start = new
      /\ block.carry = Carries(text, len, at + Width)
  BY BlockOfText
<1> HIDE DEF nx, block
<1>5. nx.structurals = new /\ new \in SUBSET Bits
  BY <1>3, <1>4
<1>6. Lists(nx.tail \o IndexesOf(nx.structurals, (at + Width) - Width), Starts(text, len, at + Width))
  <2> DEFINE R == {at + b : b \in new}
  <2>1. Lists(nx.tail, Starts(text, len, at))
    BY <1>3 DEF IndexedTo
  <2>2. Lists(IndexesOf(new, at), R)
    <3> HIDE DEF new
    <3>1. at \in Int /\ (new # {} => at \in Nat)
      OBVIOUS
    <3>2. QED
      BY <3>1, <1>5, IndexesOfLists, Zenon
  <2>3. Starts(text, len, at) \in SUBSET Nat /\ R \in SUBSET Nat
        /\ \A x \in Starts(text, len, at), y \in R : x < y
    BY DEF Starts, Bits
  <2>4. Starts(text, len, at) \cup R = Starts(text, len, at + Width)
    BY StartsInBlock
  <2> HIDE DEF R, new
  <2>5. Lists(nx.tail \o IndexesOf(new, at), Starts(text, len, at) \cup R)
    BY <2>1, <2>2, <2>3, ListsConcat
  <2>6. QED
    BY <2>4, <2>5, <1>0, <1>5, Zenon
<1>7. nx.unescaped \in BOOLEAN /\ (nx.unescaped <=> Controls(text, len, at + Width))
  <2>1. Mask(in, 0..31) \cap block.in_string # {}
          <=> \E b \in Bits : /\ ByteAt(text, len, at + b) \in 0..31
                              /\ StrAt(text, len, at + b + 1)
    BY <1>4, Zenon DEF Mask, PaddedBlock
  <2> HIDE DEF in
  <2>2. st.unescaped \in BOOLEAN /\ (st.unescaped <=> Controls(text, len, at))
    BY DEF IndexedTo
  <2>3. QED
    BY <2>1, <2>2, <1>3, ControlsInBlock, Zenon
<1>8. IndexedTo(text, len, nx, at + Width)
  BY <1>0, <1>3, <1>4, <1>5, <1>6, <1>7, Zenon DEF IndexedTo
<1>9. QED
  BY <1>3, <1>8 DEF nx

-----------------------------------------------------------------------------
(* The minifier: the bytes at the offsets of a set, in order.               *)
Picks(o, t, n, T) ==
    \E s : Lists(s, T) /\ o = [k \in DOMAIN s |-> ByteAt(t, n, s[k])]

KeptIn(t, n, i, j) ==
    {x \in i..j-1 : ByteAt(t, n, x) \in WhitespaceBytes => StrAt(t, n, x+1)}

LEMMA ByteAtIsByte ==
  ASSUME NEW t \in Seq(Byte), NEW n \in 0..Len(t), NEW i \in Nat
  PROVE  ByteAt(t, n, i) \in Byte
<1>1. CASE i < n
  <2>1. i + 1 \in 1..Len(t) /\ DOMAIN t = 1..Len(t)
    BY <1>1
  <2>2. t[i+1] \in Byte
    BY <2>1
  <2>3. QED
    BY <1>1, <2>2 DEF ByteAt, At
<1>2. CASE ~(i < n)
  BY <1>2 DEF ByteAt, Byte, Space
<1>3. QED
  BY <1>1, <1>2

LEMMA PicksTyped ==
  ASSUME NEW t \in Seq(Byte), NEW n \in 0..Len(t), NEW T \in SUBSET Nat, NEW o, Picks(o, t, n, T)
  PROVE  o \in Seq(Byte)
<1>1. PICK s : Lists(s, T) /\ o = [k \in DOMAIN s |-> ByteAt(t, n, s[k])]
  BY DEF Picks
<1>2. s \in Seq(Nat) /\ DOMAIN s = 1..Len(s) /\ Len(s) \in Nat
  BY <1>1 DEF Lists
<1>3. \A k \in 1..Len(s) : ByteAt(t, n, s[k]) \in Byte
  BY <1>2, ByteAtIsByte
<1>4. o \in [1..Len(s) -> Byte]
  BY <1>1, <1>2, <1>3
<1>5. QED
  BY <1>2, <1>4, SeqByIndex, Zenon

LEMMA PicksConcat ==
  ASSUME NEW t, NEW n, NEW S \in SUBSET Nat, NEW R \in SUBSET Nat,
         NEW o, NEW p, Picks(o, t, n, S), Picks(p, t, n, R), \A x \in S, y \in R : x < y
  PROVE  Picks(o \o p, t, n, S \cup R)
<1>1. PICK s : Lists(s, S) /\ o = [k \in DOMAIN s |-> ByteAt(t, n, s[k])]
  BY DEF Picks
<1>2. PICK r : Lists(r, R) /\ p = [k \in DOMAIN r |-> ByteAt(t, n, r[k])]
  BY DEF Picks
<1>3. Lists(s \o r, S \cup R)
  BY <1>1, <1>2, ListsConcat
<1>4. /\ s \in Seq(Nat) /\ r \in Seq(Nat) /\ Len(s) \in Nat /\ Len(r) \in Nat
      /\ DOMAIN s = 1..Len(s) /\ DOMAIN r = 1..Len(r)
  BY <1>1, <1>2 DEF Lists
<1> DEFINE Value == [x \in Nat |-> ByteAt(t, n, x)]
           V == {Value[x] : x \in Nat}
<1>5. o = [k \in 1..Len(s) |-> Value[s[k]]] /\ p = [k \in 1..Len(r) |-> Value[r[k]]]
  BY <1>1, <1>2, <1>4
<1>6. [k \in DOMAIN (s \o r) |-> ByteAt(t, n, (s \o r)[k])]
        = [k \in DOMAIN (s \o r) |-> Value[(s \o r)[k]]]
  BY <1>4
<1>7. \A x \in Nat : Value[x] \in V
  OBVIOUS
<1> HIDE DEF Value, V
<1>8. o \o p = [k \in DOMAIN (s \o r) |-> Value[(s \o r)[k]]]
  <2>1. /\ o \in Seq(V) /\ Len(o) = Len(s) /\ p \in Seq(V) /\ Len(p) = Len(r)
    <3>1. o \in [1..Len(s) -> V] /\ p \in [1..Len(r) -> V]
      BY <1>5, <1>4, <1>7
    <3>2. QED
      BY <3>1, <1>4, SeqByIndex, Zenon
  <2>2. /\ DOMAIN (s \o r) = 1..(Len(s) + Len(r))
        /\ \A k \in 1..(Len(s) + Len(r)) :
             (s \o r)[k] = IF k <= Len(s) THEN s[k] ELSE r[k - Len(s)]
    <3>1. IsConcat(s \o r, s, r)
      BY <1>4, ConcatByIndex, Zenon
    <3>2. QED
      BY <3>1, Zenon DEF IsConcat
  <2>3. /\ DOMAIN (o \o p) = 1..(Len(s) + Len(r))
        /\ o \o p = [k \in DOMAIN (o \o p) |-> (o \o p)[k]]
        /\ \A k \in 1..(Len(s) + Len(r)) :
             (o \o p)[k] = IF k <= Len(s) THEN o[k] ELSE p[k - Len(s)]
    <3>1. IsConcat(o \o p, o, p)
      BY <2>1, ConcatByIndex, Zenon
    <3>2. Len(o) = Len(s) /\ Len(p) = Len(r)
      BY <2>1
    <3>3. QED
      BY <3>1, <3>2, Zenon DEF IsConcat
  <2> DEFINE sr == s \o r  op == o \o p
  <2> HIDE DEF sr, op
  <2>4. ASSUME NEW k \in 1..(Len(s) + Len(r))
        PROVE  op[k] = Value[sr[k]]
    <3>1. CASE k <= Len(s)
      <4>1. sr[k] = s[k] /\ op[k] = o[k] /\ k \in 1..Len(s)
        BY <3>1, <2>2, <2>3, <1>4 DEF sr, op
      <4>2. QED
        BY <4>1, <1>5
    <3>2. CASE ~(k <= Len(s))
      <4>1. sr[k] = r[k - Len(s)] /\ op[k] = p[k - Len(s)]
        BY <3>2, <2>2, <2>3 DEF sr, op
      <4>2. k - Len(s) \in 1..Len(r)
        BY <3>2, <1>4
      <4>3. QED
        BY <4>1, <4>2, <1>5
    <3>3. QED
      BY <3>1, <3>2
  <2>5. QED
    BY <2>2, <2>3, <2>4, Zenon DEF sr, op
<1>9. QED
  BY <1>3, <1>6, <1>8, Zenon DEF Picks

LEMMA PicksNone ==
  ASSUME NEW t, NEW n
  PROVE  Picks(<<>>, t, n, {})
<1>1. <<>> = [k \in DOMAIN <<>> |-> ByteAt(t, n, <<>>[k])]
  OBVIOUS
<1>2. QED
  BY <1>1, ListsNone, Zenon DEF Picks

(* What compress() keeps of a block.                                        *)
LEMMA CompressPicks ==
  ASSUME NEW t \in Seq(Byte), NEW n \in 0..Len(t), NEW at \in Nat,
         NEW block, block = ScannerNext(Carries(t, n, at), PaddedBlock(t, n, at))
  PROVE  /\ Picks(Compress(PaddedBlock(t, n, at), block.whitespace), t, n,
                  KeptIn(t, n, at, at + Width))
         /\ Len(Compress(PaddedBlock(t, n, at), block.whitespace)) <= Width
         /\ Len(Compress(PaddedBlock(t, n, at), block.whitespace)) \in Nat
<1> DEFINE in == PaddedBlock(t, n, at)
           m == Bits \ block.whitespace
           low == IndexesOf(m, 0)
           high == [k \in DOMAIN low |-> at + low[k]]
           o == Compress(in, block.whitespace)
<1>0. Width \in Nat /\ Bits \subseteq Nat
  BY Wide DEF Bits
<1>1. m = {b \in Bits : ByteAt(t, n, at + b) \in WhitespaceBytes => StrAt(t, n, at + b + 1)}
  BY BlockOfText
<1>2. Lists(low, {0 + b : b \in m}) /\ Len(low) <= Width
  <2>1. m \in SUBSET Bits /\ 0 \in Int /\ (m # {} => 0 \in Nat)
    OBVIOUS
  <2> HIDE DEF m
  <2>2. QED
    BY <2>1, IndexesOfLists
<1>3. o = [k \in DOMAIN low |-> in[low[k]]]
  BY DEF Compress
<1> HIDE DEF o, low
<1>4. /\ low \in Seq(Nat) /\ DOMAIN low = 1..Len(low) /\ Len(low) \in Nat
      /\ \A k \in DOMAIN low : low[k] \in m
      /\ \A b \in m : \E k \in DOMAIN low : low[k] = b
      /\ \A j, k \in DOMAIN low : j < k => low[j] < low[k]
  <2>0. m \subseteq Nat
    BY <1>0, Zenon
  <2> HIDE DEF m
  <2>1. {0 + b : b \in m} = m
    <3>1. \A b \in Nat : 0 + b = b
      OBVIOUS
    <3>2. \A b \in m : 0 + b = b
      BY <2>0, <3>1
    <3>3. QED
      BY <3>2, Zenon
  <2>2. Lists(low, m)
    BY <2>1, <1>2, Zenon
  <2>3. low \in Seq(Nat)
    BY <2>2 DEF Lists
  <2>4. DOMAIN low = 1..Len(low) /\ Len(low) \in Nat
    BY <2>3
  <2>5. QED
    BY <2>2, <2>4, Zenon DEF Lists
<1>5. m \subseteq Bits
  OBVIOUS
<1> HIDE DEF m
<1>6. Lists(high, {at + b : b \in m})
  <2>1. high \in [1..Len(low) -> Nat]
    BY <1>4
  <2>2. high \in Seq(Nat) /\ DOMAIN high = DOMAIN low
    BY <2>1, <1>4, SeqDef
  <2>3. \A j, k \in DOMAIN high : j < k => high[j] < high[k]
    <3>1. ASSUME NEW j \in DOMAIN low, NEW k \in DOMAIN low, j < k
          PROVE  high[j] < high[k]
      <4>1. low[j] \in Nat /\ low[k] \in Nat /\ low[j] < low[k]
        BY <3>1, <1>4
      <4>2. QED
        BY <4>1
    <3> HIDE DEF high
    <3>2. QED
      BY <3>1, <2>2
  <2>4. \A k \in DOMAIN high : high[k] \in {at + b : b \in m}
    BY <2>2, <1>4
  <2>5. \A x \in {at + b : b \in m} : \E k \in DOMAIN high : high[k] = x
    BY <2>2, <1>4
  <2>6. QED
    BY <2>2, <2>3, <2>4, <2>5 DEF Lists
<1>7. {at + b : b \in m} = KeptIn(t, n, at, at + Width)
  <2>1. ASSUME NEW x \in KeptIn(t, n, at, at + Width)
        PROVE  x \in {at + b : b \in m}
    <3>1. x \in at..(at + Width)-1 /\ (ByteAt(t, n, x) \in WhitespaceBytes => StrAt(t, n, x+1))
      BY <2>1 DEF KeptIn
    <3>2. x - at \in Bits /\ at + (x - at) = x
      BY <3>1, <1>0 DEF Bits
    <3>3. x - at \in m
      BY <3>1, <3>2, <1>1
    <3>4. QED
      BY <3>2, <3>3
  <2>2. ASSUME NEW b \in m
        PROVE  at + b \in KeptIn(t, n, at, at + Width)
    <3>1. b \in Bits /\ (ByteAt(t, n, at + b) \in WhitespaceBytes => StrAt(t, n, at + b + 1))
      BY <1>1
    <3>2. at + b \in at..(at + Width)-1
      BY <3>1, <1>0 DEF Bits
    <3>3. QED
      BY <3>1, <3>2 DEF KeptIn
  <2>3. QED
    BY <2>1, <2>2
<1>8. o = [k \in DOMAIN high |-> ByteAt(t, n, high[k])]
  <2>1. \A k \in DOMAIN low : in[low[k]] = ByteAt(t, n, high[k])
    <3>1. \A b \in Bits : in[b] = ByteAt(t, n, at + b)
      BY DEF PaddedBlock
    <3> HIDE DEF in
    <3>2. QED
      BY <3>1, <1>4, <1>5
  <2>2. DOMAIN high = DOMAIN low
    OBVIOUS
  <2> HIDE DEF high, in
  <2>3. QED
    BY <2>1, <2>2, <1>3, Zenon
<1>9. Len(o) = Len(low)
  <2> DEFINE V == {in[low[k]] : k \in DOMAIN low}
  <2>1. \A k \in DOMAIN low : in[low[k]] \in V
    OBVIOUS
  <2> HIDE DEF V
  <2>2. o \in [1..Len(low) -> V]
    BY <2>1, <1>3, <1>4
  <2>3. QED
    BY <2>2, <1>4, SeqByIndex
<1>10. Picks(o, t, n, KeptIn(t, n, at, at + Width))
  BY <1>6, <1>7, <1>8, Zenon DEF Picks
<1>11. QED
  BY <1>2, <1>4, <1>9, <1>10 DEF o

-----------------------------------------------------------------------------
(* One block on for the minifier.                                           *)
LEMMA MinifierKeeps ==
  ASSUME text \in Seq(Byte), len \in 0..Len(text), NEW at \in Nat, NEW from \in 0..at,
         NEW st, st.scanner = Carries(text, len, at),
         Picks(st.out, text, len, KeptIn(text, len, from, at)),
         NEW nx, nx = MinifierNext(st, at)
  PROVE  /\ nx.scanner = Carries(text, len, at + Width)
         /\ Picks(nx.out, text, len, KeptIn(text, len, from, at + Width))
         /\ nx.reach = Len(st.out) + Width
         /\ Len(nx.out) <= Len(st.out) + Width
         /\ Len(st.out) \in Nat /\ Len(nx.out) \in Nat
<1> DEFINE in == PaddedBlock(text, len, at)
           block == ScannerNext(Carries(text, len, at), in)
           kept == Compress(in, block.whitespace)
<1>0. Width \in Nat
  BY Wide
<1>1. Block(at) = in
  BY DEF Block, PaddedBlock, ByteAt
<1>2. nx = Compressed(st, in, block)
  BY <1>1 DEF MinifierNext
<1>3. /\ nx.out = st.out \o kept
      /\ nx.reach = Len(st.out) + Width
      /\ nx.scanner = block.carry
  <2>1. nx = [out |-> st.out \o kept, reach |-> Len(st.out) + Width,
              scanner |-> block.carry]
    BY <1>2, Zenon DEF Compressed
  <2> DEFINE o == st.out \o kept  r == Len(st.out) + Width  c == block.carry
  <2>2. nx = [out |-> o, reach |-> r, scanner |-> c]
    BY <2>1, Zenon
  <2> HIDE DEF o, r, c
  <2>3. nx.out = o /\ nx.reach = r /\ nx.scanner = c
    BY <2>2
  <2>4. QED
    BY <2>3, Zenon DEF o, r, c
<1>4. block.carry = Carries(text, len, at + Width)
  BY BlockOfText
<1>5. Picks(kept, text, len, KeptIn(text, len, at, at + Width)) /\ Len(kept) <= Width
  BY CompressPicks
<1> HIDE DEF kept, block, in
<1>6. /\ KeptIn(text, len, from, at) \in SUBSET Nat
      /\ KeptIn(text, len, at, at + Width) \in SUBSET Nat
      /\ \A x \in KeptIn(text, len, from, at), y \in KeptIn(text, len, at, at + Width) : x < y
  BY <1>0 DEF KeptIn
<1>7. KeptIn(text, len, from, at) \cup KeptIn(text, len, at, at + Width)
        = KeptIn(text, len, from, at + Width)
  <2>1. \A x \in Int : x \in from..(at + Width)-1 <=> x \in from..at-1 \/ x \in at..(at + Width)-1
    BY <1>0
  <2>2. \A x : x \in from..(at + Width)-1 <=> x \in from..at-1 \/ x \in at..(at + Width)-1
    BY <2>1, <1>0
  <2>3. QED
    BY <2>2, Zenon DEF KeptIn
<1>8. Picks(nx.out, text, len, KeptIn(text, len, from, at + Width))
  BY <1>3, <1>5, <1>6, <1>7, PicksConcat
<1>9. st.out \in Seq(Byte) /\ kept \in Seq(Byte)
  BY <1>5, <1>6, PicksTyped
<1>10. /\ Len(st.out) \in Nat /\ Len(nx.out) \in Nat
       /\ Len(nx.out) <= Len(st.out) + Width
  <2> DEFINE a == st.out
  <2> HIDE DEF a
  <2>1. a \in Seq(Byte) /\ nx.out = a \o kept
    BY <1>3, <1>9 DEF a
  <2>2. Len(a) \in Nat /\ Len(nx.out) = Len(a) + Len(kept) /\ Len(kept) \in Nat
    BY <2>1, <1>9, ConcatProperties, LenProperties
  <2>3. QED
    BY <2>2, <1>0, <1>5 DEF a
<1>11. QED
  BY <1>3, <1>4, <1>8, <1>10

LEMMA MinifyBlocksKeep ==
  ASSUME text \in Seq(Byte), len \in 0..Len(text), idx \in Nat,
         step_size \in {Width, 2*Width}, scanner = Carries(text, len, idx),
         NEW st, st = MinifyBlocks
  PROVE  /\ st.scanner = Carries(text, len, idx + step_size)
         /\ Picks(st.out, text, len, KeptIn(text, len, idx, idx + step_size))
         /\ st.out \in Seq(Byte) /\ Len(st.out) \in Nat /\ Len(st.out) <= step_size
         /\ st.reach \in Nat /\ st.reach <= step_size
<1> DEFINE none == [out |-> <<>>, reach |-> 0, scanner |-> scanner]
           first == MinifierNext(none, idx)
           second == MinifierNext(first, idx + Width)
<1>0. Width \in Nat /\ Width > 0 /\ idx + Width \in Nat /\ idx \in 0..idx /\ idx \in 0..idx+Width
      /\ (idx + Width) + Width = idx + 2*Width
  BY Wide
<1>1. st = IF SecondBlock THEN second ELSE first
  BY DEF MinifyBlocks
<1>2. none.scanner = Carries(text, len, idx) /\ none.out = <<>>
  OBVIOUS
<1>3. KeptIn(text, len, idx, idx) = {}
  BY DEF KeptIn
<1>4. Picks(none.out, text, len, KeptIn(text, len, idx, idx)) /\ Len(none.out) = 0
  BY <1>2, <1>3, PicksNone
<1> HIDE DEF none
<1>5. /\ first.scanner = Carries(text, len, idx + Width)
      /\ Picks(first.out, text, len, KeptIn(text, len, idx, idx + Width))
      /\ first.reach = Width /\ Len(first.out) <= Width /\ Len(first.out) \in Nat
  BY <1>0, <1>2, <1>4, MinifierKeeps
<1> HIDE DEF first
<1>6. /\ second.scanner = Carries(text, len, idx + 2*Width)
      /\ Picks(second.out, text, len, KeptIn(text, len, idx, idx + 2*Width))
      /\ second.reach \in Nat /\ second.reach <= 2*Width
      /\ Len(second.out) <= 2*Width /\ Len(second.out) \in Nat
  <2>1. /\ second.scanner = Carries(text, len, (idx + Width) + Width)
        /\ Picks(second.out, text, len, KeptIn(text, len, idx, (idx + Width) + Width))
        /\ second.reach = Len(first.out) + Width
        /\ Len(second.out) <= Len(first.out) + Width /\ Len(second.out) \in Nat
    BY <1>0, <1>5, MinifierKeeps
  <2> HIDE DEF second
  <2>2. /\ second.scanner = Carries(text, len, idx + 2*Width)
        /\ Picks(second.out, text, len, KeptIn(text, len, idx, idx + 2*Width))
    BY <2>1, <1>0, Zenon
  <2> DEFINE a == Len(first.out)  b == Len(second.out)  r == second.reach
  <2>3. r = a + Width /\ b <= a + Width /\ b \in Nat /\ a \in Nat /\ a <= Width
    BY <2>1, <1>5
  <2> HIDE DEF a, b, r
  <2>4. r \in Nat /\ r <= 2*Width /\ b <= 2*Width
    BY <2>3, <1>0
  <2>5. QED
    BY <2>1, <2>2, <2>4, Zenon DEF r, b
<1> HIDE DEF second
<1>7. /\ st.scanner = Carries(text, len, idx + step_size)
      /\ Picks(st.out, text, len, KeptIn(text, len, idx, idx + step_size))
      /\ Len(st.out) \in Nat /\ Len(st.out) <= step_size
      /\ st.reach \in Nat /\ st.reach <= step_size
  <2>1. CASE step_size = 2*Width
    BY <2>1, <1>1, <1>6 DEF SecondBlock
  <2>2. CASE step_size = Width
    <3>1. ~SecondBlock
      BY <2>2, <1>0 DEF SecondBlock
    <3>2. QED
      BY <2>2, <3>1, <1>0, <1>1, <1>5
  <2>3. QED
    BY <2>1, <2>2
<1>8. KeptIn(text, len, idx, idx + step_size) \in SUBSET Nat
  BY DEF KeptIn
<1>9. st.out \in Seq(Byte)
  BY <1>7, <1>8, PicksTyped
<1>10. QED
  BY <1>7, <1>9

(* And for the indexer, by one block or two.                                *)
Held == [scanner |-> scanner, tail |-> tail, structurals |-> prev_structurals,
         unescaped |-> unescaped_chars_error, checker |-> checker]

LEMMA IndexBlocksKeep ==
  ASSUME text \in Seq(Byte), len \in 0..Len(text), idx \in Nat,
         step_size \in {Width, 2*Width}, IndexedTo(text, len, Held, idx), IndexBlocks
  PROVE  /\ IndexedTo(text, len, Held', idx')
         /\ idx' = idx + step_size
         /\ LET once == check_next_input(checker, PaddedBlock(text, len, idx))
            IN  checker' = IF step_size = Width THEN once
                           ELSE check_next_input(once, PaddedBlock(text, len, idx + Width))
<1> DEFINE first == IndexerNext(Held, idx)
           second == IndexerNext(first, idx + Width)
           st == IF SecondBlock THEN second ELSE first
<1>0. Width \in Nat /\ Width > 0 /\ idx + Width \in Nat /\ (idx + Width) + Width = idx + 2*Width
  BY Wide
<1>1. /\ scanner' = st.scanner
      /\ tail' = st.tail
      /\ prev_structurals' = st.structurals
      /\ unescaped_chars_error' = st.unescaped
      /\ checker' = st.checker
      /\ idx' = idx + step_size
  BY Zenon DEF IndexBlocks, Held
<1>2. /\ IndexedTo(text, len, first, idx + Width)
      /\ first.checker = check_next_input(checker, PaddedBlock(text, len, idx))
  <2>1. Held.checker = checker
    BY DEF Held
  <2>2. QED
    BY <2>1, IndexerKeeps
<1> HIDE DEF first
<1>3. /\ IndexedTo(text, len, second, idx + 2*Width)
      /\ second.checker = check_next_input(first.checker, PaddedBlock(text, len, idx + Width))
  <2>1. /\ IndexedTo(text, len, second, (idx + Width) + Width)
        /\ second.checker = check_next_input(first.checker, PaddedBlock(text, len, idx + Width))
    BY <1>0, <1>2, IndexerKeeps
  <2>2. QED
    BY <2>1, <1>0
<1> HIDE DEF second
<1>4. /\ IndexedTo(text, len, st, idx + step_size)
      /\ LET once == check_next_input(checker, PaddedBlock(text, len, idx))
         IN  st.checker = IF step_size = Width THEN once
                          ELSE check_next_input(once, PaddedBlock(text, len, idx + Width))
  <2>1. CASE step_size = 2*Width
    <3>1. SecondBlock /\ step_size # Width
      BY <2>1, <1>0 DEF SecondBlock
    <3>2. QED
      BY <2>1, <3>1, <1>2, <1>3
  <2>2. CASE step_size = Width
    <3>1. ~SecondBlock
      BY <2>2, <1>0 DEF SecondBlock
    <3>2. QED
      BY <2>2, <3>1, <1>2
  <2>3. QED
    BY <2>1, <2>2
<1> HIDE DEF st
<1>5. /\ Held'.scanner = st.scanner /\ Held'.tail = st.tail
      /\ Held'.structurals = st.structurals /\ Held'.unescaped = st.unescaped
  BY <1>1 DEF Held
<1>6. IndexedTo(text, len, Held', idx')
  BY <1>1, <1>4, <1>5, Zenon DEF IndexedTo
<1>7. QED
  BY <1>1, <1>4, <1>6

-----------------------------------------------------------------------------
(* The invariant of the scan.  Of a task that has begun it says how much is *)
(* read, and of each task what it has in front of idx.                      *)
Asked == /\ text \in Seq(Byte) /\ task \in Tasks
         /\ step_size \in {Width, 2*Width} /\ idx \in Nat

Fresh == /\ answer = Pending /\ idx = 0
         /\ scanner = CarryOf(FALSE, FALSE, FALSE)
         /\ checker = NewChecker /\ prev_structurals = {}
         /\ unescaped_chars_error = FALSE /\ tail = <<>>
         /\ out = <<>> /\ written = 0

Begun == IF len = Unread THEN Fresh
         ELSE /\ len \in 0..Len(text)
              /\ len = IF task \in Streaming THEN trim_partial_utf8(text) ELSE Len(text)

Within == answer = Pending /\ len # Unread => idx <= len

Scanned == Scans => scanner = Carries(text, len, idx)

IndexedSoFar == Scans /\ task # "minify" => IndexedTo(text, len, Held, idx)

MinifiedSoFar == Scans /\ task = "minify" => Picks(out, text, len, KeptIn(text, len, 0, idx))

Wrote == task = "minify" => /\ out \in Seq(Byte) /\ Len(out) <= idx
                            /\ written \in Nat /\ written <= Len(text)

KernelInv == /\ Asked /\ Begun /\ Within /\ Scanned
             /\ IndexedSoFar /\ MinifiedSoFar /\ Wrote

LEMMA TrimStays ==
  ASSUME NEW t \in Seq(Byte)
  PROVE  trim_partial_utf8(t) \in 0..Len(t)
<1>1. Len(t) \in Nat
  OBVIOUS
<1>2. QED
  BY <1>1 DEF trim_partial_utf8

LEMMA CarriesAtStart ==
  ASSUME NEW t \in Seq(Byte), NEW n \in 0..Len(t)
  PROVE  Carries(t, n, 0) = CarryOf(FALSE, FALSE, FALSE)
<1>1. ~EscAt(t, n, 0) /\ ~StrAt(t, n, 0)
  <2>1. 0 \in Nat
    OBVIOUS
  <2>2. QED
    BY <2>1, OffsetRules
<1>2. ~ScalAt(t, n, 0)
  BY DEF ScalAt
<1>3. EscAt(t, n, 0) = FALSE /\ StrAt(t, n, 0) = FALSE /\ ScalAt(t, n, 0) = FALSE
  BY <1>1, <1>2 DEF EscAt, StrAt, ScalAt, StringTail
<1>4. QED
  BY <1>3, Zenon DEF Carries

LEMMA IndexedAtStart ==
  ASSUME NEW t \in Seq(Byte), NEW n \in 0..Len(t), NEW st,
         st.scanner = CarryOf(FALSE, FALSE, FALSE), st.structurals = {},
         st.unescaped = FALSE, st.tail = <<>>
  PROVE  IndexedTo(t, n, st, 0)
<1>0. Width \in Nat /\ 0 - Width \in Int
  BY Wide
<1>1. Starts(t, n, 0) = {} /\ ~Controls(t, n, 0)
  BY DEF Starts, Controls
<1>2. Lists(IndexesOf({}, 0 - Width), {})
  <2>1. {} \in SUBSET Bits
    OBVIOUS
  <2>2. Lists(IndexesOf({}, 0 - Width), {(0 - Width) + b : b \in {}})
    BY <2>1, <1>0, IndexesOfLists
  <2>3. {(0 - Width) + b : b \in {}} = {}
    OBVIOUS
  <2>4. QED
    BY <2>2, <2>3, Zenon
<1> DEFINE i == IndexesOf({}, 0 - Width)
<1>3. Lists(<<>> \o i, {})
  <2>1. i \in Seq(Nat)
    BY <1>2 DEF Lists
  <2> HIDE DEF i
  <2>2. <<>> \o i = i
    BY <2>1
  <2>3. QED
    BY <2>2, <1>2 DEF i
<1>4. QED
  BY <1>1, <1>3, CarriesAtStart, Zenon DEF IndexedTo

LEMMA KernelInit == Init => KernelInv
<1> SUFFICES ASSUME Init
             PROVE  KernelInv
  OBVIOUS
<1>1. text \in Seq(Byte) /\ task \in Tasks /\ step_size \in {Width, 2*Width} /\ idx = 0 /\ idx \in Nat
  BY DEF Init
<1>2. len = Unread
  BY DEF Init
<1>3. scanner = CarryOf(FALSE, FALSE, FALSE)
  <2>1. AllBits(FALSE) = {} /\ FirstBit(FALSE) = {}
    BY DEF AllBits, FirstBit
  <2>2. QED
    BY <2>1, Zenon DEF Init, CarryOf
<1>4. Fresh
  BY <1>1, <1>3, Zenon DEF Init, Fresh
<1>5. ~Scans
  BY <1>2 DEF Scans
<1>6. Len(text) \in Nat /\ Len(<<>>) = 0 /\ <<>> \in Seq(Byte)
  BY <1>1
<1>7. Wrote
  BY <1>1, <1>4, <1>6 DEF Wrote, Fresh
<1>8. QED
  BY <1>1, <1>2, <1>4, <1>5, <1>7, Zenon
     DEF KernelInv, Asked, Begun, Within, Scanned, IndexedSoFar, MinifiedSoFar

(* A task begins.                                                           *)
LEMMA KernelBegins ==
  ASSUME KernelInv, BeginIndex \/ BeginMinify
  PROVE  KernelInv'
<1>1. /\ len = Unread
      /\ len' = IF task \in Streaming THEN trim_partial_utf8(text) ELSE Len(text)
      /\ UNCHANGED <<inputVars, idx, scanner, indexVars, minifyVars>>
  <2>1. CASE BeginIndex
    BY <2>1 DEF BeginIndex
  <2>2. CASE BeginMinify
    BY <2>2 DEF BeginMinify, Streaming, inputVars
  <2>3. QED
    BY <2>1, <2>2
<1>2. text \in Seq(Byte) /\ Len(text) \in Nat
  BY DEF KernelInv, Asked
<1>3. len' \in 0..Len(text) /\ len' # Unread
  BY <1>1, <1>2, TrimStays DEF Unread
<1>4. UNCHANGED <<text, task, step_size, idx, scanner, checker, prev_structurals,
                  unescaped_chars_error, tail, out, written>>
  BY <1>1 DEF inputVars, indexVars, minifyVars
<1>5. Fresh
  BY <1>1 DEF KernelInv, Begun
<1>6. Asked' /\ Begun' /\ Within'
  BY <1>1, <1>2, <1>3, <1>4, <1>5 DEF KernelInv, Asked, Begun, Within, Fresh, Streaming
<1>7. Scanned'
  <2>1. Carries(text, len', 0) = CarryOf(FALSE, FALSE, FALSE)
    BY <1>2, <1>3, CarriesAtStart, Zenon
  <2>2. QED
    BY <2>1, <1>4, <1>5, Zenon DEF Scanned, Fresh
<1>8. IndexedSoFar'
  <2>1. /\ Held'.scanner = CarryOf(FALSE, FALSE, FALSE) /\ Held'.structurals = {}
        /\ Held'.unescaped = FALSE /\ Held'.tail = <<>>
    BY <1>4, <1>5 DEF Held, Fresh
  <2>2. IndexedTo(text, len', Held', 0)
    BY <2>1, <1>2, <1>3, IndexedAtStart, Zenon
  <2>3. QED
    BY <2>2, <1>4, <1>5, Zenon DEF IndexedSoFar, Fresh
<1>9. MinifiedSoFar'
  <2>1. KeptIn(text, len', 0, 0) = {}
    BY DEF KeptIn
  <2>2. Picks(<<>>, text, len', KeptIn(text, len', 0, 0))
    BY <2>1, PicksNone, Zenon
  <2>3. QED
    BY <2>2, <1>4, <1>5, Zenon DEF MinifiedSoFar, Fresh
<1>10. Wrote'
  BY <1>4 DEF KernelInv, Wrote
<1>11. QED
  BY <1>6, <1>7, <1>8, <1>9, <1>10 DEF KernelInv

LEMMA FullBlock ==
  ASSUME len \in Nat, idx \in Nat, step_size \in {Width, 2*Width}
  PROVE  /\ step_size \in Nat /\ step_size > 0
         /\ has_full_block => idx + step_size <= len
         /\ ~has_full_block /\ idx <= len => len <= idx + step_size
<1>1. step_size \in Nat /\ step_size > 0
  BY Wide
<1>2. QED
  BY <1>1 DEF has_full_block, lenminusstep

LEMMA IndexStepKeeps ==
  ASSUME KernelInv, IndexStep
  PROVE  KernelInv'
<1>1. /\ task \in {"regular"} \cup Streaming /\ task # "minify" /\ task # "validate"
      /\ answer = Pending /\ len # Unread /\ has_full_block /\ IndexBlocks
      /\ UNCHANGED <<text, task, step_size, answer, len, out, written>>
  BY DEF IndexStep, inputVars, minifyVars, Streaming
<1>2. /\ text \in Seq(Byte) /\ idx \in Nat /\ step_size \in {Width, 2*Width}
      /\ len \in 0..Len(text) /\ len \in Nat
  BY <1>1 DEF KernelInv, Asked, Begun
<1>3. IndexedTo(text, len, Held, idx)
  BY <1>1 DEF KernelInv, IndexedSoFar, Scans
<1>4. IndexedTo(text, len, Held', idx') /\ idx' = idx + step_size
  BY <1>1, <1>2, <1>3, IndexBlocksKeep
<1>5. idx' \in Nat /\ idx' <= len
  BY <1>1, <1>2, <1>4, FullBlock
<1>6. Held'.scanner = scanner'
  BY DEF Held
<1>7. scanner' = Carries(text, len, idx')
  BY <1>4, <1>6 DEF IndexedTo
<1>8. Asked' /\ Begun' /\ Within'
  BY <1>1, <1>2, <1>5 DEF KernelInv, Asked, Begun, Within, Streaming
<1>9. Scanned' /\ IndexedSoFar' /\ MinifiedSoFar' /\ Wrote'
  BY <1>1, <1>4, <1>7, Zenon DEF Scanned, IndexedSoFar, MinifiedSoFar, Wrote
<1>10. QED
  BY <1>8, <1>9 DEF KernelInv

(* What finish() leaves is an answer.                                       *)
LEMMA FinishAnswers ==
  ASSUME task \in {"regular"} \cup Streaming, len \in Nat,
         NEW found \in Seq(Nat), NEW unclosed, NEW unescaped, NEW end
  PROVE  Finish(found, unclosed, unescaped, end) \in Answers
<1> DEFINE n        == Len(found)
           padded   == found \o <<len, len, 0>>
           kept     == IF unclosed THEN n - 1 ELSE n
           complete == FindNextDocumentIndex(Classes(text), padded, kept)
           final    == [padded EXCEPT ![complete + 2] = padded[complete + 1],
                                      ![complete + 1] = len]
           utf8     == IF end.error THEN "UTF8_ERROR" ELSE "SUCCESS"
           Leave(err, m, i) == [err |-> err, n |-> m, idx |-> i]
           answered == Finish(found, unclosed, unescaped, end)
<1>1. answered = IF task = "regular" /\ unclosed THEN NoIndexes("UNCLOSED_STRING")
                 ELSE IF unescaped THEN NoIndexes("UNESCAPED_CHARS")
                 ELSE IF n = 0 THEN Leave("EMPTY", 0, padded)
                 ELSE IF found[n] > len THEN Leave("UNEXPECTED_ERROR", n, padded)
                 ELSE CASE task = "regular" -> Leave(utf8, n, padded)
                        [] task = "streaming_final" ->
                             Leave(IF complete = 0 THEN "EMPTY" ELSE utf8, complete, final)
                        [] task = "streaming_partial" ->
                             IF complete > 0 THEN Leave(utf8, complete, padded)
                             ELSE IF kept = 0 \/ padded[1] = 0
                             THEN Leave("CAPACITY", kept, padded)
                             ELSE Leave("EMPTY", 0, padded)
  BY Zenon DEF Finish
<1>2. padded \in Seq(Nat) /\ Len(padded) = n + 3 /\ n \in Nat
  <2>1. <<len, len, 0>> \in Seq(Nat) /\ Len(<<len, len, 0>>) = 3
    OBVIOUS
  <2> DEFINE more == <<len, len, 0>>
  <2> HIDE DEF more
  <2>2. found \o more \in Seq(Nat) /\ Len(found \o more) = Len(found) + Len(more)
        /\ Len(found) \in Nat
    BY <2>1, ConcatProperties, LenProperties DEF more
  <2>3. QED
    BY <2>1, <2>2 DEF more
<1> HIDE DEF n, padded
<1>3. \A s \in Seq(Nat) : s \in Seq(Int)
  <2>1. TAKE s \in Seq(Nat)
  <2>2. s \in [1..Len(s) -> Nat] /\ Len(s) \in Nat
    BY LenProperties
  <2>3. s \in [1..Len(s) -> Int]
    BY <2>2
  <2>4. QED
    BY <2>2, <2>3, SeqByIndex
<1>4. ASSUME NEW err \in ErrorCodes, NEW m \in Int, NEW i \in Seq(Nat)
      PROVE  Leave(err, m, i) \in Answers
  BY <1>3, <1>4, Zenon DEF Answers
<1>5. utf8 \in ErrorCodes
  BY DEF ErrorCodes
<1>0. /\ {"UNCLOSED_STRING", "UNESCAPED_CHARS", "EMPTY", "CAPACITY", "UNEXPECTED_ERROR"}
           \subseteq ErrorCodes
      /\ 0 \in Int
  BY DEF ErrorCodes
<1>6. n # 0 => kept \in Nat /\ kept <= n
  BY <1>2
<1> HIDE DEF kept, utf8
<1>7. n # 0 => complete \in 0..kept
  BY <1>6, CutsWithinIndexes
<1> HIDE DEF complete
<1>8. n # 0 => final \in Seq(Nat)
  <2>1. SUFFICES ASSUME n # 0
                 PROVE  final \in Seq(Nat)
    OBVIOUS
  <2>2. complete \in Nat /\ complete + 1 \in 1..Len(padded) /\ complete + 2 \in 1..Len(padded)
    BY <2>1, <1>2, <1>6, <1>7
  <2>3. padded[complete + 1] \in Nat
    BY <2>2, <1>2
  <2> DEFINE one == [padded EXCEPT ![complete + 2] = padded[complete + 1]]
  <2>4. one \in Seq(Nat) /\ Len(one) = Len(padded)
    BY <2>2, <2>3, <1>2, ExceptSeq
  <2>5. final = [one EXCEPT ![complete + 1] = len]
    OBVIOUS
  <2> HIDE DEF one, final
  <2>6. QED
    BY <2>2, <2>4, <2>5, ExceptSeq
<1> HIDE DEF final
<1>9. <<>> \in Seq(Nat)
  OBVIOUS
<1>10. NoIndexes("UNCLOSED_STRING") \in Answers /\ NoIndexes("UNESCAPED_CHARS") \in Answers
  BY <1>0, <1>4, <1>9, Zenon DEF NoIndexes
<1>11. CASE (task = "regular" /\ unclosed) \/ unescaped \/ n = 0
  <2>1. answered \in {NoIndexes("UNCLOSED_STRING"), NoIndexes("UNESCAPED_CHARS"),
                      Leave("EMPTY", 0, padded)}
    BY <1>1, <1>11, Zenon
  <2>2. Leave("EMPTY", 0, padded) \in Answers
    BY <1>0, <1>2, <1>4, Zenon
  <2>3. QED
    BY <2>1, <2>2, <1>10, Zenon
<1>12. CASE ~((task = "regular" /\ unclosed) \/ unescaped \/ n = 0)
  <2>0. n # 0 /\ kept \in Nat /\ kept \in Int /\ complete \in Int /\ n \in Int /\ 0 \in Int
    BY <1>12, <1>2, <1>6, <1>7
  <2>1. CASE found[n] > len
    <3>1. answered = Leave("UNEXPECTED_ERROR", n, padded)
      BY <1>1, <1>12, <2>1, Zenon
    <3>2. QED
      BY <3>1, <2>0, <1>0, <1>2, <1>4, Zenon
  <2>2. CASE ~(found[n] > len) /\ task = "regular"
    <3>1. answered = Leave(utf8, n, padded)
      BY <1>1, <1>12, <2>2
    <3>2. QED
      BY <3>1, <2>0, <1>2, <1>4, <1>5, Zenon
  <2>3. CASE ~(found[n] > len) /\ task = "streaming_final"
    <3>1. answered = Leave(IF complete = 0 THEN "EMPTY" ELSE utf8, complete, final)
      BY <1>1, <1>12, <2>3
    <3>2. (IF complete = 0 THEN "EMPTY" ELSE utf8) \in ErrorCodes
      BY <1>0, <1>5
    <3>3. QED
      BY <3>1, <3>2, <2>0, <1>4, <1>8, Zenon
  <2>4. CASE ~(found[n] > len) /\ task = "streaming_partial"
    <3>1. answered = IF complete > 0 THEN Leave(utf8, complete, padded)
                     ELSE IF kept = 0 \/ padded[1] = 0
                     THEN Leave("CAPACITY", kept, padded)
                     ELSE Leave("EMPTY", 0, padded)
      BY <1>1, <1>12, <2>4
    <3>2. answered \in {Leave(utf8, complete, padded), Leave("CAPACITY", kept, padded),
                        Leave("EMPTY", 0, padded)}
      BY <3>1, Zenon
    <3>3. Leave(utf8, complete, padded) \in Answers
      BY <2>0, <1>2, <1>4, <1>5, Zenon
    <3>4. Leave("CAPACITY", kept, padded) \in Answers /\ Leave("EMPTY", 0, padded) \in Answers
      BY <2>0, <1>0, <1>2, <1>4, Zenon
    <3>5. QED
      BY <3>2, <3>3, <3>4, Zenon
  <2>5. QED
    BY <2>1, <2>2, <2>3, <2>4 DEF Streaming
<1>13. QED
  BY <1>11, <1>12

LEMMA IndexLastKeeps ==
  ASSUME KernelInv, IndexLast, NoAnswerYet
  PROVE  /\ KernelInv' /\ answer' # Pending
         /\ IndexedTo(text, len, Held', idx') /\ len <= idx' /\ idx' \in Nat
<1> DEFINE found == tail' \o IndexesOf(prev_structurals', idx' - Width)
           end == check_eof(checker')
<1>1. /\ task \in {"regular"} \cup Streaming /\ task # "minify" /\ task # "validate"
      /\ answer = Pending /\ len # Unread /\ ~has_full_block /\ IndexBlocks
      /\ UNCHANGED <<text, task, step_size, len, out, written>>
      /\ answer' = Finish(found, scanner'.prev_in_string # {}, unescaped_chars_error', end)
  BY DEF IndexLast, inputVars, minifyVars, Streaming
<1>2. /\ text \in Seq(Byte) /\ idx \in Nat /\ step_size \in {Width, 2*Width}
      /\ len \in 0..Len(text) /\ len \in Nat /\ idx <= len
  BY <1>1 DEF KernelInv, Asked, Begun, Within
<1>3. IndexedTo(text, len, Held, idx)
  BY <1>1 DEF KernelInv, IndexedSoFar, Scans
<1>4. IndexedTo(text, len, Held', idx') /\ idx' = idx + step_size
  BY <1>1, <1>2, <1>3, IndexBlocksKeep
<1>5. idx' \in Nat /\ len <= idx'
  BY <1>1, <1>2, <1>4, FullBlock
<1>6. found \in Seq(Nat)
  <2>1. Held'.tail = tail' /\ Held'.structurals = prev_structurals'
    BY DEF Held
  <2>2. QED
    BY <2>1, <1>4, Zenon DEF IndexedTo, Lists
<1> HIDE DEF found, end
<1>7. answer' \in Answers
  BY <1>1, <1>2, <1>6, FinishAnswers
<1>8. answer' # Pending
  BY <1>7 DEF NoAnswerYet
<1>9. Asked' /\ Begun' /\ Within'
  BY <1>1, <1>2, <1>5, <1>8 DEF KernelInv, Asked, Begun, Within, Streaming
<1>10. Scanned' /\ IndexedSoFar' /\ MinifiedSoFar' /\ Wrote'
  BY <1>1, <1>8, Zenon DEF Scanned, IndexedSoFar, MinifiedSoFar, Wrote, Scans
<1>11. QED
  BY <1>4, <1>5, <1>8, <1>9, <1>10 DEF KernelInv

LEMMA KeptInJoins ==
  ASSUME NEW t, NEW n, NEW i \in Nat, NEW j \in Nat, NEW k \in Nat, i <= j, j <= k
  PROVE  /\ KeptIn(t, n, i, j) \in SUBSET Nat /\ KeptIn(t, n, j, k) \in SUBSET Nat
         /\ \A x \in KeptIn(t, n, i, j), y \in KeptIn(t, n, j, k) : x < y
         /\ KeptIn(t, n, i, j) \cup KeptIn(t, n, j, k) = KeptIn(t, n, i, k)
<1>1. \A x : x \in i..k-1 <=> x \in i..j-1 \/ x \in j..k-1
  OBVIOUS
<1>2. KeptIn(t, n, i, j) \cup KeptIn(t, n, j, k) = KeptIn(t, n, i, k)
  BY <1>1, Zenon DEF KeptIn
<1>3. /\ KeptIn(t, n, i, j) \in SUBSET Nat /\ KeptIn(t, n, j, k) \in SUBSET Nat
      /\ \A x \in KeptIn(t, n, i, j), y \in KeptIn(t, n, j, k) : x < y
  BY DEF KeptIn
<1>4. QED
  BY <1>2, <1>3

LEMMA KeptSoFar ==
  ASSUME NEW t, NEW n \in Nat, NEW j \in Nat, j <= n
  PROVE  /\ KeptIn(t, n, 0, j) \in SUBSET Nat /\ KeptIn(t, n, j, n) \in SUBSET Nat
         /\ \A x \in KeptIn(t, n, 0, j), y \in KeptIn(t, n, j, n) : x < y
         /\ KeptIn(t, n, 0, j) \cup KeptIn(t, n, j, n) = KeptIn(t, n, 0, n)
<1>1. 0 \in Nat /\ 0 <= j
  OBVIOUS
<1>2. QED
  BY <1>1, KeptInJoins

LEMMA MinifyStepKeeps ==
  ASSUME KernelInv, MinifyStep
  PROVE  KernelInv'
<1>1. /\ task = "minify" /\ answer = Pending /\ len # Unread /\ has_full_block
      /\ out' = out \o MinifyBlocks.out
      /\ written' = Max({written, Len(out) + MinifyBlocks.reach})
      /\ scanner' = MinifyBlocks.scanner
      /\ idx' = idx + step_size
      /\ UNCHANGED <<text, task, step_size, answer, len>>
  BY Zenon DEF MinifyStep, inputVars
<1> DEFINE st == MinifyBlocks
<1>2. /\ text \in Seq(Byte) /\ idx \in Nat /\ step_size \in {Width, 2*Width}
      /\ len \in 0..Len(text) /\ len \in Nat /\ Len(text) \in Nat /\ len = Len(text)
  BY <1>1 DEF KernelInv, Asked, Begun, Streaming
<1>3. scanner = Carries(text, len, idx)
  BY <1>1 DEF KernelInv, Scanned, Scans
<1>4. Picks(out, text, len, KeptIn(text, len, 0, idx))
  BY <1>1 DEF KernelInv, MinifiedSoFar, Scans
<1>5. out \in Seq(Byte) /\ Len(out) <= idx /\ written \in Nat /\ written <= Len(text)
  BY <1>1 DEF KernelInv, Wrote
<1>6. /\ st.scanner = Carries(text, len, idx + step_size)
      /\ Picks(st.out, text, len, KeptIn(text, len, idx, idx + step_size))
      /\ st.out \in Seq(Byte) /\ Len(st.out) \in Nat /\ Len(st.out) <= step_size
      /\ st.reach \in Nat /\ st.reach <= step_size
  BY <1>2, <1>3, MinifyBlocksKeep
<1> DEFINE o == st.out  r == st.reach  m == Len(out)
<1> HIDE DEF st
<1>7. step_size \in Nat /\ idx + step_size <= len
  BY <1>1, <1>2, FullBlock
<1>8. /\ Picks(out', text, len, KeptIn(text, len, 0, idx'))
      /\ out' \in Seq(Byte) /\ Len(out') <= idx'
  <2>1. out' = out \o o /\ o \in Seq(Byte)
    BY <1>1, <1>6 DEF st
  <2>2. Picks(out \o o, text, len, KeptIn(text, len, 0, idx + step_size))
    <3>1. idx + step_size \in Nat /\ 0 \in Nat /\ 0 <= idx /\ idx <= idx + step_size
      BY <1>2, <1>7
    <3> DEFINE A == KeptIn(text, len, 0, idx)  B == KeptIn(text, len, idx, idx + step_size)
    <3>2. /\ A \in SUBSET Nat /\ B \in SUBSET Nat /\ \A x \in A, y \in B : x < y
          /\ A \cup B = KeptIn(text, len, 0, idx + step_size)
      BY <3>1, <1>2, KeptInJoins
    <3>3. Picks(o, text, len, B) /\ Picks(out, text, len, A)
      BY <1>4, <1>6
    <3> HIDE DEF A, B, o
    <3>4. QED
      BY <3>2, <3>3, PicksConcat
  <2> HIDE DEF o
  <2>3. /\ out \o o \in Seq(Byte) /\ Len(out \o o) = Len(out) + Len(o)
        /\ Len(out) \in Nat /\ Len(o) \in Nat
    BY <2>1, <1>5, ConcatProperties, LenProperties
  <2>4. Len(o) <= step_size
    BY <1>6 DEF o
  <2>5. Len(out \o o) <= idx + step_size
    BY <2>3, <2>4, <1>5, <1>2, <1>7
  <2>6. QED
    BY <2>1, <2>2, <2>3, <2>5, <1>1
<1>9. written' \in Nat /\ written' <= Len(text)
  <2>1. m \in Nat /\ m <= idx /\ r \in Nat /\ r <= step_size
    BY <1>5, <1>6
  <2>2. written' = Max({written, m + r})
    BY <1>1 DEF st
  <2> HIDE DEF m, r
  <2>3. written' = IF written >= m + r THEN written ELSE m + r
    BY <2>1, <2>2, <1>5, MaxOfTwo
  <2>4. QED
    BY <2>1, <2>3, <1>5, <1>2, <1>7
<1>10. idx' \in Nat /\ idx' <= len
  BY <1>1, <1>2, <1>7
<1>11. Asked' /\ Begun' /\ Within'
  BY <1>1, <1>2, <1>10 DEF KernelInv, Asked, Begun, Within, Streaming
<1>12. Scanned' /\ IndexedSoFar' /\ MinifiedSoFar' /\ Wrote'
  <2>1. scanner' = Carries(text, len, idx')
    BY <1>1, <1>6 DEF st
  <2>2. QED
    BY <2>1, <1>1, <1>8, <1>9, Zenon DEF Scanned, IndexedSoFar, MinifiedSoFar, Wrote
<1>13. QED
  BY <1>11, <1>12 DEF KernelInv

(* The minified text is the one whose bytes are kept.                       *)
LEMMA PicksUnique ==
  ASSUME NEW t, NEW n, NEW T \in SUBSET Nat, NEW o, NEW p, Picks(o, t, n, T), Picks(p, t, n, T)
  PROVE  o = p
<1>1. PICK s : Lists(s, T) /\ o = [k \in DOMAIN s |-> ByteAt(t, n, s[k])]
  BY DEF Picks
<1>2. PICK r : Lists(r, T) /\ p = [k \in DOMAIN r |-> ByteAt(t, n, r[k])]
  BY DEF Picks
<1>3. s = r
  BY <1>1, <1>2, ListsUnique
<1>4. QED
  BY <1>1, <1>2, <1>3

LEMMA PicksOne ==
  ASSUME NEW t, NEW n, NEW i \in Nat
  PROVE  Picks(<<ByteAt(t, n, i)>>, t, n, {i})
<1>1. Lists(<<i>>, {i})
  BY ListsOne
<1>2. <<ByteAt(t, n, i)>> = [k \in DOMAIN <<i>> |-> ByteAt(t, n, <<i>>[k])]
  OBVIOUS
<1>3. QED
  BY <1>1, <1>2, Zenon DEF Picks

LEMMA KeptByClass ==
  ASSUME NEW t \in Seq(Byte), NEW i \in 0..Len(t)-1
  PROVE  (At(Classes(t), i) = Blank => StringTail(Classes(t), i))
           <=> (ByteAt(t, Len(t), i) \in WhitespaceBytes => StrAt(t, Len(t), i+1))
<1>0. i \in Nat /\ i < Len(t) /\ i <= Len(t) /\ Len(t) \in Nat /\ Len(t) \in 0..Len(t)
  OBVIOUS
<1>1. ByteAt(t, Len(t), i) = At(t, i)
  BY <1>0 DEF ByteAt
<1>2. At(Classes(t), i) = Blank <=> At(t, i) \in WhitespaceBytes
  BY ClassOfByte
<1>3. StrAt(t, Len(t), i) <=> StringTail(Classes(t), i)
  BY <1>0 DEF StrAt
<1>4. At(t, i) \in WhitespaceBytes => ~QuoteAt(t, Len(t), i)
  BY <1>1 DEF QuoteAt, WhitespaceBytes, Quote, Space
<1>5. StrAt(t, Len(t), i+1) <=> ~(StrAt(t, Len(t), i) <=> QuoteAt(t, Len(t), i))
  BY <1>0, OffsetRules, Zenon
<1>6. QED
  BY <1>1, <1>2, <1>3, <1>4, <1>5

LEMMA MinifiedPicks ==
  ASSUME NEW t \in Seq(Byte)
  PROVE  Picks(Minified(t), t, Len(t), KeptIn(t, Len(t), 0, Len(t)))
<1> DEFINE n == Len(t)
           c == Classes(t)
           Kept(i) == At(c, i) = Blank => StringTail(c, i)
           One(i) == IF Kept(i) THEN <<At(t, i)>> ELSE <<>>
           Step == [i \in Nat |-> [x \in Seq(Byte) |-> IF i < n THEN x \o One(i) ELSE <<>>]]
           Body(f) == [i \in 0..n |-> IF i = 0 THEN <<>>
                        ELSE f[i-1] \o (IF Kept(i-1) THEN <<At(t, i-1)>> ELSE <<>>)]
           upto == CHOOSE f : f = Body(f)
<1>0. n \in Nat /\ n \in 0..n /\ n \in 0..Len(t)
  OBVIOUS
<1>1. ASSUME NEW i \in 0..n-1
      PROVE  /\ One(i) \in Seq(Byte)
             /\ Picks(One(i), t, n, KeptIn(t, n, i, i+1))
  <2>1. i < n /\ i \in Nat /\ ByteAt(t, n, i) = At(t, i)
    BY <1>0 DEF ByteAt
  <2>2. Kept(i) <=> (ByteAt(t, n, i) \in WhitespaceBytes => StrAt(t, n, i+1))
    BY KeptByClass
  <2>3. i..(i+1)-1 = {i}
    BY <2>1
  <2>4. KeptIn(t, n, i, i+1) = IF Kept(i) THEN {i} ELSE {}
    <3> HIDE DEF Kept
    <3>1. KeptIn(t, n, i, i+1)
            = {x \in {i} : ByteAt(t, n, x) \in WhitespaceBytes => StrAt(t, n, x+1)}
      BY <2>3, Zenon DEF KeptIn
    <3>2. QED
      BY <3>1, <2>2, Zenon
  <2>5. At(t, i) \in Byte
    BY ClassOfByte
  <2>6. <<At(t, i)>> \in Seq(Byte) /\ <<>> \in Seq(Byte)
    BY <2>5
  <2>7. Picks(<<At(t, i)>>, t, n, {i}) /\ Picks(<<>>, t, n, {})
    <3>1. Picks(<<ByteAt(t, n, i)>>, t, n, {i})
      BY <2>1, PicksOne
    <3>2. QED
      BY <3>1, <2>1, PicksNone
  <2> HIDE DEF Kept
  <2>8. QED
    BY <2>4, <2>6, <2>7
<1> HIDE DEF Kept
<1>2. PICK f \in [0..n -> Seq(Byte)] : Recursive(f, n, <<>>, Step)
  <2>1. \A i \in Nat, x \in Seq(Byte) : Step[i][x] \in Seq(Byte)
    <3> HIDE DEF One
    <3>1. ASSUME NEW i \in Nat, NEW x \in Seq(Byte)
          PROVE  (IF i < n THEN x \o One(i) ELSE <<>>) \in Seq(Byte)
      <4>1. CASE i < n
        <5>1. i \in 0..n-1
          BY <4>1, <1>0
        <5>2. One(i) \in Seq(Byte)
          BY <5>1, <1>1
        <5>3. x \o One(i) \in Seq(Byte)
          BY <5>2
        <5>4. QED
          BY <4>1, <5>3
      <4>2. CASE ~(i < n)
        BY <4>2
      <4>3. QED
        BY <4>1, <4>2
    <3>2. \A i \in Nat, x \in Seq(Byte) : Step[i][x] = IF i < n THEN x \o One(i) ELSE <<>>
      OBVIOUS
    <3> HIDE DEF Step
    <3>3. QED
      BY <3>1, <3>2, Zenon
  <2> HIDE DEF Step
  <2>2. <<>> \in Seq(Byte)
    OBVIOUS
  <2>3. \A k \in Nat : \E f \in [0..k -> Seq(Byte)] : Recursive(f, k, <<>>, Step)
    BY <2>1, <2>2, Recursion, Zenon
  <2>4. QED
    BY <2>3, <1>0
<1>3. f = Body(f)
  <2>1. ASSUME NEW i \in 0..n
        PROVE  f[i] = IF i = 0 THEN <<>>
                      ELSE f[i-1] \o (IF Kept(i-1) THEN <<At(t, i-1)>> ELSE <<>>)
    <3>1. CASE i = 0
      BY <3>1, <1>2, Zenon DEF Recursive
    <3>2. CASE i # 0
      <4>1. i - 1 \in Nat /\ i - 1 \in 0..n /\ i - 1 < n
        BY <3>2, <1>0
      <4>2. f[i] = Step[i-1][f[i-1]]
        BY <3>2, <1>2, Zenon DEF Recursive
      <4>3. f[i-1] \in Seq(Byte)
        BY <4>1, <1>2, Zenon
      <4> HIDE DEF One
      <4>4. f[i] = f[i-1] \o One(i-1)
        BY <4>1, <4>2, <4>3
      <4>5. QED
        BY <4>4, <3>2, Zenon DEF One
    <3>3. QED
      BY <3>1, <3>2, Zenon
  <2>2. QED
    BY <2>1, <1>2, Zenon
<1>4. upto = Body(upto)
  BY <1>3, Zenon
<1>5. Minified(t) = upto[n]
  BY Zenon DEF Minified, Kept
<1> HIDE DEF upto
<1>6. upto[0] = <<>> /\ \A i \in 0..n : i # 0 => upto[i] = upto[i-1] \o One(i-1)
  <2>1. \A i \in 0..n : upto[i] = IF i = 0 THEN <<>> ELSE upto[i-1] \o One(i-1)
    BY <1>4, Zenon
  <2>2. 0 \in 0..n
    BY <1>0
  <2>3. QED
    BY <2>1, <2>2, Zenon
<1> HIDE DEF One
<1> DEFINE Ok(i) == Picks(upto[i], t, n, KeptIn(t, n, 0, i))
           T == {i \in 0..n : ~Ok(i)}
<1>7. SUFFICES ASSUME T # {}
               PROVE  FALSE
  BY <1>0, <1>5
<1>8. PICK i \in T : \A y \in T : i <= y
  <2>1. T \in SUBSET Nat
    OBVIOUS
  <2> HIDE DEF T
  <2>2. QED
    BY <2>1, <1>7, Smallest
<1>9. i \in 0..n /\ ~Ok(i)
  BY <1>8
<1>10. i # 0
  <2>1. KeptIn(t, n, 0, 0) = {}
    BY DEF KeptIn
  <2>2. Ok(0)
    BY <2>1, <1>6, PicksNone, Zenon
  <2>3. QED
    BY <2>2, <1>9
<1>11. i - 1 \in 0..n-1 /\ i - 1 \in 0..n /\ i - 1 \in Nat /\ i \in Nat /\ (i-1)+1 = i /\ 0 <= i-1 /\ i-1 <= i
  BY <1>9, <1>10, <1>0
<1>12. Ok(i-1)
  <2>1. i - 1 \notin T
    <3> HIDE DEF T
    <3>1. i \in Nat /\ ~(i <= i - 1)
      BY <1>11
    <3>2. QED
      BY <3>1, <1>8
  <2>2. QED
    BY <2>1, <1>11
<1> HIDE DEF T
<1>13. Picks(One(i-1), t, n, KeptIn(t, n, i-1, i))
  BY <1>1, <1>11
<1>14. /\ KeptIn(t, n, 0, i-1) \in SUBSET Nat /\ KeptIn(t, n, i-1, i) \in SUBSET Nat
       /\ \A x \in KeptIn(t, n, 0, i-1), y \in KeptIn(t, n, i-1, i) : x < y
       /\ KeptIn(t, n, 0, i-1) \cup KeptIn(t, n, i-1, i) = KeptIn(t, n, 0, i)
  <2>1. 0 \in Nat
    OBVIOUS
  <2>2. QED
    BY <2>1, <1>11, KeptInJoins
<1>15. upto[i] = upto[i-1] \o One(i-1)
  BY <1>6, <1>9, <1>10
<1>16. Picks(upto[i-1] \o One(i-1), t, n, KeptIn(t, n, 0, i-1) \cup KeptIn(t, n, i-1, i))
  BY <1>12, <1>13, <1>14, PicksConcat
<1>17. QED
  BY <1>9, <1>14, <1>15, <1>16, Zenon

(* The last step of the minifier: nothing behind the text is kept, so that  *)
(* no more is copied than is left, and nothing less.                        *)
LEMMA MinifyLastKeeps ==
  ASSUME KernelInv, MinifyLast, NoAnswerYet
  PROVE  /\ KernelInv' /\ answer' # Pending
         /\ UnclosedString(Classes(text)) => answer'.err = "UNCLOSED_STRING"
         /\ ~UnclosedString(Classes(text)) => /\ answer'.err = "SUCCESS"
                                             /\ answer'.out = Minified(text)
<1> DEFINE st == MinifyBlocks
           o == st.out
           m == Min({Len(o), len - idx})
           p == SubSeq(o, 1, m)
<1>1. /\ task = "minify" /\ answer = Pending /\ len # Unread /\ ~has_full_block
      /\ out' = out \o p
      /\ written' = Max({written, Len(out')})
      /\ scanner' = IF len = idx THEN scanner ELSE st.scanner
      /\ idx' = IF len = idx THEN idx ELSE idx + step_size
      /\ answer' = IF scanner'.prev_in_string # {}
                   THEN [err |-> "UNCLOSED_STRING", out |-> <<>>]
                   ELSE [err |-> "SUCCESS", out |-> out']
      /\ UNCHANGED <<text, task, step_size, len>>
  BY Zenon DEF MinifyLast, inputVars
<1>2. /\ text \in Seq(Byte) /\ idx \in Nat /\ step_size \in {Width, 2*Width}
      /\ len \in 0..Len(text) /\ len \in Nat /\ Len(text) \in Nat /\ len = Len(text) /\ idx <= len
  BY <1>1 DEF KernelInv, Asked, Begun, Within, Streaming
<1>3. scanner = Carries(text, len, idx)
  BY <1>1 DEF KernelInv, Scanned, Scans
<1>4. Picks(out, text, len, KeptIn(text, len, 0, idx))
  BY <1>1 DEF KernelInv, MinifiedSoFar, Scans
<1>5. out \in Seq(Byte) /\ Len(out) <= idx /\ written \in Nat /\ written <= Len(text)
  BY <1>1 DEF KernelInv, Wrote
<1>6. /\ st.scanner = Carries(text, len, idx + step_size)
      /\ Picks(o, text, len, KeptIn(text, len, idx, idx + step_size))
      /\ o \in Seq(Byte) /\ Len(o) \in Nat /\ Len(o) <= step_size
  BY <1>2, <1>3, MinifyBlocksKeep
<1> HIDE DEF st
<1>7. step_size \in Nat /\ len <= idx + step_size
  BY <1>1, <1>2, FullBlock
<1> HIDE DEF o
<1>8. /\ m \in Nat /\ m <= len - idx /\ m <= Len(o)
      /\ Len(o) <= len - idx => m = Len(o)
  <2>1. len - idx \in Nat
    BY <1>2
  <2>2. m = IF Len(o) <= len - idx THEN Len(o) ELSE len - idx
    BY <2>1, <1>6, MinOfTwo
  <2>3. QED
    BY <2>1, <2>2, <1>6
<1> HIDE DEF m
<1>9. p \in Seq(Byte) /\ Len(p) = m
  BY <1>6, <1>8
<1>10. m = Len(o) => p = o
  BY <1>6
<1> HIDE DEF p
<1>11. /\ out' \in Seq(Byte) /\ Len(out') = Len(out) + m /\ Len(out) \in Nat
  BY <1>1, <1>5, <1>9, ConcatProperties, LenProperties, Zenon
<1>12. scanner' = Carries(text, len, idx') /\ len <= idx' /\ idx' \in Nat
  BY <1>1, <1>2, <1>3, <1>6, <1>7
<1>13. Wrote'
  <2>1. Len(out') <= idx' /\ Len(out') \in Nat /\ Len(out') <= len
    BY <1>2, <1>5, <1>8, <1>11, <1>12
  <2>2. written' = IF written >= Len(out') THEN written ELSE Len(out')
    BY <2>1, <1>1, <1>5, MaxOfTwo
  <2>3. QED
    BY <2>1, <2>2, <1>1, <1>2, <1>5, <1>11 DEF Wrote
<1>14. answer' \in Answers
  <2>1. {"UNCLOSED_STRING", "SUCCESS"} \subseteq ErrorCodes
    BY DEF ErrorCodes
  <2>2. <<>> \in Seq(Byte)
    OBVIOUS
  <2>3. answer' \in [err : ErrorCodes, out : Seq(Byte)]
    BY <2>1, <2>2, <1>1, <1>11
  <2>4. QED
    BY <2>3, Zenon DEF Answers
<1>15. answer' # Pending
  BY <1>14 DEF NoAnswerYet
<1>16. Asked' /\ Begun' /\ Within' /\ Scanned' /\ IndexedSoFar' /\ MinifiedSoFar'
  <2>1. ~Scans'
    BY <1>15 DEF Scans
  <2>2. Asked' /\ Begun' /\ Within'
    BY <1>1, <1>2, <1>12, <1>15, Zenon DEF KernelInv, Asked, Begun, Within, Streaming
  <2>3. QED
    BY <2>1, <2>2 DEF Scanned, IndexedSoFar, MinifiedSoFar
<1>17. scanner'.prev_in_string # {} <=> UnclosedString(Classes(text))
  <2>1. StrAt(text, len, idx') = StringTail(Classes(text), len)
    BY <1>12, <1>2 DEF StrAt
  <2>2. Len(Classes(text)) = len
    BY <1>2 DEF Classes
  <2>3. scanner'.prev_in_string = AllBits(StrAt(text, len, idx'))
    BY <1>12 DEF Carries, CarryOf
  <2>4. Bits # {}
    BY Wide DEF Bits
  <2>5. QED
    BY <2>1, <2>2, <2>3, <2>4 DEF AllBits, UnclosedString
<1>18. ASSUME ~UnclosedString(Classes(text))
       PROVE  out' = Minified(text)
  <2>1. KeptIn(text, len, idx, idx + step_size) = KeptIn(text, len, idx, len)
    <3>1. ASSUME NEW x \in Nat, x >= len
          PROVE  ByteAt(text, len, x) \in WhitespaceBytes /\ ~StrAt(text, len, x+1)
      <4>1. ByteAt(text, len, x) = Space
        BY <3>1, <1>2 DEF ByteAt
      <4>2. StrAt(text, len, x+1) = StringTail(Classes(text), len)
        BY <3>1, <1>2 DEF StrAt
      <4>3. Len(Classes(text)) = len
        BY <1>2 DEF Classes
      <4>4. QED
        BY <4>1, <4>2, <4>3, <1>18 DEF WhitespaceBytes, UnclosedString
    <3>2. \A x \in idx..(idx + step_size)-1 : x \in Nat /\ (x >= len \/ x \in idx..len-1)
      BY <1>2, <1>7
    <3>3. \A x \in idx..len-1 : x \in idx..(idx + step_size)-1
      BY <1>2, <1>7
    <3>4. QED
      BY <3>1, <3>2, <3>3, Zenon DEF KeptIn
  <2>2. Picks(o, text, len, KeptIn(text, len, idx, len))
    BY <2>1, <1>6
  <2>3. Len(o) <= len - idx
    <3>1. PICK s : /\ Lists(s, KeptIn(text, len, idx, len))
                   /\ o = [k \in DOMAIN s |-> ByteAt(text, len, s[k])]
      BY <2>2 DEF Picks
    <3>2. KeptIn(text, len, idx, len) \in SUBSET (idx..len-1)
      BY DEF KeptIn
    <3>3. Len(s) <= len - idx
      BY <3>1, <3>2, <1>2, ListIsShort, Zenon
    <3>4. s \in Seq(Nat) /\ Len(s) \in Nat /\ DOMAIN s = 1..Len(s)
      BY <3>1 DEF Lists
    <3>5. \A k \in 1..Len(s) : ByteAt(text, len, s[k]) \in Byte
      BY <3>4, <1>2, ByteAtIsByte
    <3>6. o \in [1..Len(s) -> Byte]
      BY <3>1, <3>4, <3>5
    <3>7. Len(o) = Len(s)
      BY <3>4, <3>6, SeqByIndex
    <3>8. QED
      BY <3>3, <3>7
  <2>4. out' = out \o o
    BY <2>3, <1>1, <1>8, <1>10
  <2>5. Picks(out', text, len, KeptIn(text, len, 0, len))
    <3> DEFINE A == KeptIn(text, len, 0, idx)  B == KeptIn(text, len, idx, len)
    <3>1. /\ A \in SUBSET Nat /\ B \in SUBSET Nat /\ \A x \in A, y \in B : x < y
          /\ A \cup B = KeptIn(text, len, 0, len)
      <4>1. idx \in Nat /\ len \in Nat /\ idx <= len
        BY <1>2
      <4>2. QED
        BY <4>1, KeptSoFar, Zenon
    <3>2. Picks(out, text, len, A) /\ Picks(o, text, len, B)
      BY <1>4, <2>2
    <3> HIDE DEF A, B
    <3>3. Picks(out \o o, text, len, A \cup B)
      BY <3>1, <3>2, PicksConcat
    <3>4. QED
      BY <3>1, <3>3, <2>4, Zenon
  <2>6. Picks(Minified(text), text, len, KeptIn(text, len, 0, len))
    BY <1>2, MinifiedPicks
  <2>7. KeptIn(text, len, 0, len) \in SUBSET Nat
    BY DEF KeptIn
  <2>8. QED
    BY <2>5, <2>6, <2>7, PicksUnique
<1>19. KernelInv'
  BY <1>13, <1>16 DEF KernelInv
<1>20. /\ UnclosedString(Classes(text)) => answer'.err = "UNCLOSED_STRING"
       /\ ~UnclosedString(Classes(text)) => /\ answer'.err = "SUCCESS"
                                           /\ answer'.out = Minified(text)
  <2>1. CASE UnclosedString(Classes(text))
    <3>1. answer' = [err |-> "UNCLOSED_STRING", out |-> <<>>]
      BY <2>1, <1>1, <1>17, Zenon
    <3>2. QED
      BY <2>1, <3>1
  <2>2. CASE ~UnclosedString(Classes(text))
    <3>1. answer' = [err |-> "SUCCESS", out |-> out']
      BY <2>2, <1>1, <1>17, Zenon
    <3>2. answer'.err = "SUCCESS" /\ answer'.out = out'
      BY <3>1
    <3>3. QED
      BY <2>2, <3>2, <1>18
  <2>3. QED
    BY <2>1, <2>2
<1>21. QED
  BY <1>15, <1>19, <1>20

-----------------------------------------------------------------------------
(* The UTF-8 check.  What the three tables give for a pair of bytes.        *)

(* The bytes that may follow a first byte.                                  *)
SecondRange(first) == CASE first = 224 -> 160..191
                        [] first = 237 -> 128..159
                        [] first = 240 -> 144..191
                        [] first = 244 -> 128..143
                        [] first \in (194..243) \ {224, 237, 240} -> 128..191
                        [] first \in 245..255 \cup {192, 193} -> {}

(* The nibbles decide.                                                      *)
LEMMA Nibbles ==
  ASSUME NEW b \in Byte
  PROVE  /\ b \div 16 \in 0..15 /\ b % 16 \in 0..15
         /\ b < 128 <=> b \div 16 \in 0..7
         /\ b \in 128..191 <=> b \div 16 \in 8..11
         /\ b >= 192 <=> b \div 16 \in 12..15
  BY DEF Byte

LEMMA SecondHigh ==
  ASSUME NEW b \in Byte
  PROVE  /\ b \notin 128..191 => byte_2_high(b \div 16) = {"TOO_SHORT"}
         /\ b \in 128..143 => byte_2_high(b \div 16) =
                {"TOO_LONG", "OVERLONG_2", "TWO_CONTS", "OVERLONG_3", "4_BYTE"}
         /\ b \in 144..159 => byte_2_high(b \div 16) =
                {"TOO_LONG", "OVERLONG_2", "TWO_CONTS", "OVERLONG_3", "TOO_LARGE"}
         /\ b \in 160..191 => byte_2_high(b \div 16) =
                {"TOO_LONG", "OVERLONG_2", "TWO_CONTS", "SURROGATE", "TOO_LARGE"}
<1> DEFINE n == b \div 16
<1>1. /\ b \notin 128..191 => n \in (0..7) \cup (12..15)
      /\ b \in 128..143 => n = 8
      /\ b \in 144..159 => n = 9
      /\ b \in 160..191 => n \in 10..11
  BY DEF Byte
<1>2. n \in (0..7) \cup (12..15) => n # 8 /\ n # 9 /\ n \notin 10..11
  OBVIOUS
<1> HIDE DEF n
<1>3. QED
  BY <1>1, <1>2 DEF byte_2_high, n

LEMMA FirstHigh ==
  ASSUME NEW p \in Byte
  PROVE  /\ p \in 0..127 => byte_1_high(p \div 16) = {"TOO_LONG"}
         /\ p \in 128..191 => byte_1_high(p \div 16) = {"TWO_CONTS"}
         /\ p \in 192..207 => byte_1_high(p \div 16) = {"TOO_SHORT", "OVERLONG_2"}
         /\ p \in 208..223 => byte_1_high(p \div 16) = {"TOO_SHORT"}
         /\ p \in 224..239 => byte_1_high(p \div 16) = {"TOO_SHORT", "OVERLONG_3", "SURROGATE"}
         /\ p \in 240..255 => byte_1_high(p \div 16) = {"TOO_SHORT", "TOO_LARGE", "4_BYTE"}
<1> DEFINE n == p \div 16
<1>1. /\ p \in 0..127 => n \in 0..7
      /\ p \in 128..191 => n \in 8..11
      /\ p \in 192..207 => n = 12
      /\ p \in 208..223 => n = 13
      /\ p \in 224..239 => n = 14
      /\ p \in 240..255 => n = 15
  BY DEF Byte
<1> HIDE DEF n
<1>2. QED
  BY <1>1 DEF byte_1_high, n

LowPart(p) == byte_1_low(p % 16) \ Carry

LEMMA FirstLow ==
  ASSUME NEW p \in Byte
  PROVE  /\ Carry \subseteq byte_1_low(p % 16)
         /\ p \in {192, 193} => "OVERLONG_2" \in byte_1_low(p % 16)
         /\ p \in 194..207 => "OVERLONG_2" \notin byte_1_low(p % 16)
         /\ p \in 224..239 => ("OVERLONG_3" \in byte_1_low(p % 16) <=> p = 224)
         /\ p \in 224..239 => ("SURROGATE" \in byte_1_low(p % 16) <=> p = 237)
         /\ p \in 240..255 => ("TOO_LARGE" \in byte_1_low(p % 16) <=> p >= 244)
         /\ p \in 240..255 => ("4_BYTE" \in byte_1_low(p % 16) <=> p = 240 \/ p >= 245)
<1> DEFINE n == p % 16
<1>1. /\ n \in 0..15
      /\ p \in {192, 193} => n \in 0..1
      /\ p \in 194..207 => n \in 2..15
      /\ p \in 224..239 => /\ n = 0 <=> p = 224
                           /\ n = 13 <=> p = 237
      /\ p \in 240..255 => /\ n = 0 <=> p = 240
                           /\ n \in 4..15 <=> p >= 244
                           /\ n \in 5..15 <=> p >= 245
  BY DEF Byte
<1> HIDE DEF n
<1> DEFINE low == byte_1_low(n)
<1>2. /\ n = 0 => low = Carry \cup {"OVERLONG_3", "OVERLONG_2", "4_BYTE"}
      /\ n = 1 => low = Carry \cup {"OVERLONG_2"}
      /\ n \in 2..3 => low = Carry
      /\ n = 4 => low = Carry \cup {"TOO_LARGE"}
      /\ n = 13 => low = Carry \cup {"TOO_LARGE", "4_BYTE", "SURROGATE"}
      /\ n \in (5..15) \ {13} => low = Carry \cup {"TOO_LARGE", "4_BYTE"}
  BY DEF byte_1_low
<1> HIDE DEF low
<1>3. n = 0 \/ n = 1 \/ n \in 2..3 \/ n = 4 \/ n = 13 \/ n \in (5..15) \ {13}
  BY <1>1
<1>4. /\ Carry \subseteq low
      /\ "OVERLONG_2" \in low <=> n \in 0..1
      /\ "OVERLONG_3" \in low <=> n = 0
      /\ "SURROGATE" \in low <=> n = 13
      /\ "TOO_LARGE" \in low <=> n \in 4..15
      /\ "4_BYTE" \in low <=> n = 0 \/ n \in 5..15
  BY <1>2, <1>3 DEF Carry
<1>5. /\ n \in 0..1 => ~(n \in 2..15)
  OBVIOUS
<1>6. QED
  BY <1>1, <1>4, <1>5 DEF low, n

(* Of a pair of bytes the tables find: a first byte without a second one, a *)
(* second one without a first, two continuations, or a pair that no         *)
(* character has.                                                           *)
PairCheck(b, p) ==
    LET k == check_special_cases(b, p)
    IN  /\ b \notin 128..191 /\ p < 192 => k = {}
        /\ b \notin 128..191 /\ p >= 192 => k # {} /\ k # {"TWO_CONTS"}
        /\ b \in 128..191 /\ p < 128 => k # {} /\ k # {"TWO_CONTS"}
        /\ b \in 128..191 /\ p \in 128..191 => k = {"TWO_CONTS"}
        /\ b \in 128..191 /\ p >= 192 => (k = {} <=> b \in SecondRange(p)) /\ k # {"TWO_CONTS"}

LEMMA PairsChecked ==
  ASSUME NEW b \in Byte, NEW p \in Byte
  PROVE  PairCheck(b, p)
<1> DEFINE k == check_special_cases(b, p)
           h == byte_1_high(p \div 16)
           l == byte_1_low(p % 16)
           s == byte_2_high(b \div 16)
<1>1. k = h \cap l \cap s
  BY DEF check_special_cases
<1>2. /\ b \notin 128..191 => s = {"TOO_SHORT"}
      /\ b \in 128..143 => s = {"TOO_LONG", "OVERLONG_2", "TWO_CONTS", "OVERLONG_3", "4_BYTE"}
      /\ b \in 144..159 => s = {"TOO_LONG", "OVERLONG_2", "TWO_CONTS", "OVERLONG_3", "TOO_LARGE"}
      /\ b \in 160..191 => s = {"TOO_LONG", "OVERLONG_2", "TWO_CONTS", "SURROGATE", "TOO_LARGE"}
  BY SecondHigh
<1>3. /\ p \in 0..127 => h = {"TOO_LONG"}
      /\ p \in 128..191 => h = {"TWO_CONTS"}
      /\ p \in 192..207 => h = {"TOO_SHORT", "OVERLONG_2"}
      /\ p \in 208..223 => h = {"TOO_SHORT"}
      /\ p \in 224..239 => h = {"TOO_SHORT", "OVERLONG_3", "SURROGATE"}
      /\ p \in 240..255 => h = {"TOO_SHORT", "TOO_LARGE", "4_BYTE"}
  BY FirstHigh
<1>4. /\ "TOO_SHORT" \in l /\ "TOO_LONG" \in l /\ "TWO_CONTS" \in l
      /\ p \in {192, 193} => "OVERLONG_2" \in l
      /\ p \in 194..207 => "OVERLONG_2" \notin l
      /\ p \in 224..239 => ("OVERLONG_3" \in l <=> p = 224)
      /\ p \in 224..239 => ("SURROGATE" \in l <=> p = 237)
      /\ p \in 240..255 => ("TOO_LARGE" \in l <=> p >= 244)
      /\ p \in 240..255 => ("4_BYTE" \in l <=> p = 240 \/ p >= 245)
  BY FirstLow DEF Carry
<1> HIDE DEF k, h, l, s
<1>5. /\ p \in 0..127 \/ p \in 128..191 \/ p \in 192..207 \/ p \in 208..223
            \/ p \in 224..239 \/ p \in 240..255
      /\ b \notin 128..191 \/ b \in 128..143 \/ b \in 144..159 \/ b \in 160..191
  BY DEF Byte
<1>6. b \notin 128..191 /\ p < 192 => k = {}
  <2>1. p < 192 => p \in 0..127 \/ p \in 128..191
    BY DEF Byte
  <2>2. QED
    BY <2>1, <1>1, <1>2, <1>3
<1>7. b \notin 128..191 /\ p >= 192 => k # {} /\ k # {"TWO_CONTS"}
  <2>1. p >= 192 => "TOO_SHORT" \in h
    BY <1>3, <1>5
  <2>2. b \notin 128..191 /\ p >= 192 => "TOO_SHORT" \in k
    BY <2>1, <1>1, <1>2, <1>4
  <2>3. QED
    BY <2>2
<1>8. b \in 128..191 => "TOO_LONG" \in s /\ "TWO_CONTS" \in s /\ "TOO_SHORT" \notin s /\ "OVERLONG_2" \in s
  <2>1. b \in 128..191 => b \in 128..143 \/ b \in 144..159 \/ b \in 160..191
    OBVIOUS
  <2>2. QED
    BY <2>1, <1>2
<1>9. b \in 128..191 /\ p < 128 => k # {} /\ k # {"TWO_CONTS"}
  <2>1. p < 128 => "TOO_LONG" \in h
    BY <1>3 DEF Byte
  <2>2. b \in 128..191 /\ p < 128 => "TOO_LONG" \in k
    BY <2>1, <1>1, <1>8, <1>4
  <2>3. QED
    BY <2>2
<1>10. b \in 128..191 /\ p \in 128..191 => k = {"TWO_CONTS"}
  BY <1>1, <1>3, <1>4, <1>8
<1>11. b \in 128..191 /\ p >= 192 => k # {"TWO_CONTS"}
  <2>1. p >= 192 => "TWO_CONTS" \notin h
    BY <1>3, <1>5
  <2>2. QED
    BY <2>1, <1>1
<1>12. b \in 128..191 /\ p \in 192..223 => (k = {} <=> p >= 194)
  <2>1. p \in 192..223 => p \in {192, 193} \/ p \in 194..207 \/ p \in 208..223
    OBVIOUS
  <2>2. CASE b \in 128..191 /\ p \in {192, 193}
    <3>1. "OVERLONG_2" \in h
      BY <2>2, <1>3
    <3>2. "OVERLONG_2" \in k
      BY <3>1, <2>2, <1>1, <1>4, <1>8
    <3>3. QED
      BY <3>2, <2>2
  <2>3. CASE b \in 128..191 /\ p \in 194..207
    <3>1. h = {"TOO_SHORT", "OVERLONG_2"} /\ "OVERLONG_2" \notin l
      BY <2>3, <1>3, <1>4
    <3>2. k = {}
      BY <3>1, <1>1, <1>8, <2>3
    <3>3. QED
      BY <3>2, <2>3
  <2>4. CASE b \in 128..191 /\ p \in 208..223
    <3>1. k = {}
      BY <2>4, <1>1, <1>3, <1>8
    <3>2. QED
      BY <3>1, <2>4
  <2>5. QED
    BY <2>1, <2>2, <2>3, <2>4
<1>13. b \in 128..191 /\ p \in 224..239 =>
         (k = {} <=> ~(p = 224 /\ b < 160) /\ ~(p = 237 /\ b >= 160))
  <2> SUFFICES ASSUME b \in 128..191, p \in 224..239
               PROVE  k = {} <=> ~(p = 224 /\ b < 160) /\ ~(p = 237 /\ b >= 160)
    OBVIOUS
  <2>1. h = {"TOO_SHORT", "OVERLONG_3", "SURROGATE"} /\ "TOO_SHORT" \notin s
    BY <1>3, <1>8
  <2>2. /\ "OVERLONG_3" \in l <=> p = 224
        /\ "SURROGATE" \in l <=> p = 237
    BY <1>4
  <2>3. /\ "OVERLONG_3" \in s <=> b < 160
        /\ "SURROGATE" \in s <=> b >= 160
    BY <1>2
  <2>4. k = {} <=> ~("OVERLONG_3" \in l /\ "OVERLONG_3" \in s) /\ ~("SURROGATE" \in l /\ "SURROGATE" \in s)
    BY <2>1, <1>1
  <2>5. QED
    BY <2>2, <2>3, <2>4
<1>14. b \in 128..191 /\ p \in 240..255 =>
         (k = {} <=> ~(p = 240 /\ b < 144) /\ ~(p >= 244 /\ b >= 144) /\ p < 245)
  <2> SUFFICES ASSUME b \in 128..191, p \in 240..255
               PROVE  k = {} <=> ~(p = 240 /\ b < 144) /\ ~(p >= 244 /\ b >= 144) /\ p < 245
    OBVIOUS
  <2>1. h = {"TOO_SHORT", "TOO_LARGE", "4_BYTE"} /\ "TOO_SHORT" \notin s
    BY <1>3, <1>8
  <2>2. /\ "TOO_LARGE" \in l <=> p >= 244
        /\ "4_BYTE" \in l <=> p = 240 \/ p >= 245
    BY <1>4
  <2>3. /\ "TOO_LARGE" \in s <=> b >= 144
        /\ "4_BYTE" \in s <=> b < 144
    BY <1>2
  <2>4. k = {} <=> ~("TOO_LARGE" \in l /\ "TOO_LARGE" \in s) /\ ~("4_BYTE" \in l /\ "4_BYTE" \in s)
    BY <2>1, <1>1
  <2>5. QED
    BY <2>2, <2>3, <2>4
<1>15. b \in 128..191 /\ p >= 192 => (k = {} <=> b \in SecondRange(p))
  <2>1. p >= 192 =>
        SecondRange(p) = IF p = 224 THEN 160..191 ELSE IF p = 237 THEN 128..159
                         ELSE IF p = 240 THEN 144..191 ELSE IF p = 244 THEN 128..143
                         ELSE IF p \in 194..243 THEN 128..191 ELSE {}
    BY DEF SecondRange, Byte
  <2>2. p >= 192 => p \in 192..223 \/ p \in 224..239 \/ p \in 240..255
    BY DEF Byte
  <2>3. QED
    BY <2>1, <2>2, <1>12, <1>13, <1>14
<1>16. QED
  BY <1>6, <1>7, <1>9, <1>10, <1>11, <1>15 DEF k, PairCheck

(* The bytes in a line: those of the text, spaces behind it and zeros in    *)
(* front of it.  A byte of a line is misplaced if the three before it do    *)
(* not allow it; at a position a character may be cut.                      *)
Line(t, n) == [i \in Int |-> IF i < 0 THEN 0 ELSE ByteAt(t, n, i)]
Misplaced(B, i) == check_special_cases(B[i], B[i-1]) #
                     IF must_be_2_3_continuation(B[i-2], B[i-3])
                     THEN {"TWO_CONTS"} ELSE {}
Cut(B, i) == B[i-1] >= 192 \/ B[i-2] >= 224 \/ B[i-3] >= 240
Good(B, i, n) == (\A j \in i..n-1 : ~Misplaced(B, j)) /\ ~Cut(B, n)

LEMMA AsciiPlace ==
  ASSUME NEW B \in [Int -> Byte], NEW i \in Int, B[i] < 128
  PROVE  /\ Misplaced(B, i) <=> Cut(B, i)
         /\ Cut(B, i+1) => Cut(B, i)
<1>1. /\ i-1 \in Int /\ i-2 \in Int /\ i-3 \in Int
      /\ (i+1)-1 = i /\ (i+1)-2 = i-1 /\ (i+1)-3 = i-2
  OBVIOUS
<1>2. B[i] \in Byte /\ B[i-1] \in Byte /\ B[i-2] \in Byte /\ B[i-3] \in Byte
  BY <1>1
<1>3. B[i] \notin 128..191
  OBVIOUS
<1>4. /\ B[i-1] < 192 => check_special_cases(B[i], B[i-1]) = {}
      /\ B[i-1] >= 192 => /\ check_special_cases(B[i], B[i-1]) # {}
                          /\ check_special_cases(B[i], B[i-1]) # {"TWO_CONTS"}
  BY <1>2, <1>3, PairsChecked DEF PairCheck
<1>5. B[i-1] < 192 \/ B[i-1] >= 192
  BY <1>2 DEF Byte
<1>6. {} # {"TWO_CONTS"}
  OBVIOUS
<1>7. Misplaced(B, i) <=> Cut(B, i)
  BY <1>4, <1>5, <1>6 DEF Misplaced, Cut, must_be_2_3_continuation
<1>8. Cut(B, i+1) => Cut(B, i)
  BY <1>1, <1>2 DEF Cut, Byte
<1>9. QED
  BY <1>7, <1>8

(* Where no character is cut only a continuation is misplaced, and behind a *)
(* first byte whatever does not go on with its character.                   *)
LEMMA PlacesOfCharacter ==
  ASSUME NEW B \in [Int -> Byte], NEW i \in Int, ~Cut(B, i)
  PROVE  /\ Misplaced(B, i) <=> B[i] \in 128..191
         /\ B[i] >= 192 => /\ Cut(B, i+1)
                           /\ Misplaced(B, i+1) <=> B[i+1] \notin SecondRange(B[i])
         /\ B[i] >= 192 /\ B[i+1] \in SecondRange(B[i]) =>
              /\ B[i] \in 194..244 /\ B[i+1] \in 128..191
              /\ Cut(B, i+2) <=> B[i] >= 224
              /\ B[i] >= 224 => (Misplaced(B, i+2) <=> B[i+2] \notin 128..191)
         /\ B[i] >= 224 /\ B[i+1] \in 128..191 /\ B[i+2] \in 128..191 =>
              /\ Cut(B, i+3) <=> B[i] >= 240
              /\ B[i] >= 240 => (Misplaced(B, i+3) <=> B[i+3] \notin 128..191)
         /\ B[i+1] \in 128..191 /\ B[i+2] \in 128..191 /\ B[i+3] \in 128..191
              => ~Cut(B, i+4)
<1>1. /\ i-1 \in Int /\ i-2 \in Int /\ i-3 \in Int /\ i+1 \in Int /\ i+2 \in Int /\ i+3 \in Int
      /\ (i+1)-1 = i /\ (i+1)-2 = i-1 /\ (i+1)-3 = i-2
      /\ (i+2)-1 = i+1 /\ (i+2)-2 = i /\ (i+2)-3 = i-1
      /\ (i+3)-1 = i+2 /\ (i+3)-2 = i+1 /\ (i+3)-3 = i
      /\ (i+4)-1 = i+3 /\ (i+4)-2 = i+2 /\ (i+4)-3 = i+1
  OBVIOUS
<1> DEFINE a == B[i-3]  b == B[i-2]  c == B[i-1]  w == B[i]  x == B[i+1]  y == B[i+2]  z == B[i+3]
<1>2. /\ a \in 0..255 /\ b \in 0..255 /\ c \in 0..255 /\ w \in 0..255 /\ x \in 0..255
      /\ y \in 0..255 /\ z \in 0..255
  BY <1>1 DEF Byte
<1>3. c < 192 /\ b < 224 /\ a < 240
  BY <1>2 DEF Cut
<1>4. /\ Misplaced(B, i) <=> check_special_cases(w, c) # {}
      /\ Misplaced(B, i+1) <=> check_special_cases(x, w) # {}
      /\ Misplaced(B, i+2) <=> check_special_cases(y, x) # (IF w >= 224 THEN {"TWO_CONTS"} ELSE {})
      /\ x < 224 => (Misplaced(B, i+3) <=> check_special_cases(z, y) # (IF w >= 240 THEN {"TWO_CONTS"} ELSE {}))
  <2>1. /\ ~must_be_2_3_continuation(b, a) /\ ~must_be_2_3_continuation(c, b)
        /\ must_be_2_3_continuation(w, c) <=> w >= 224
        /\ x < 224 => (must_be_2_3_continuation(x, w) <=> w >= 240)
    BY <1>2, <1>3 DEF must_be_2_3_continuation
  <2>2. QED
    BY <2>1, <1>1 DEF Misplaced
<1>5. /\ Cut(B, i+1) <=> w >= 192
      /\ Cut(B, i+2) <=> x >= 192 \/ w >= 224
      /\ Cut(B, i+3) <=> y >= 192 \/ x >= 224 \/ w >= 240
      /\ Cut(B, i+4) <=> z >= 192 \/ y >= 224 \/ x >= 240
  BY <1>1, <1>2, <1>3 DEF Cut
<1>6. w \in Byte /\ x \in Byte /\ y \in Byte /\ z \in Byte /\ c \in Byte
  BY <1>2 DEF Byte
<1> HIDE DEF a, b, c, w, x, y, z
<1>7. check_special_cases(w, c) # {} <=> w \in 128..191
  <2>1. /\ w \notin 128..191 /\ c < 192 => check_special_cases(w, c) = {}
        /\ w \in 128..191 /\ c < 128 => check_special_cases(w, c) # {}
        /\ w \in 128..191 /\ c \in 128..191 => check_special_cases(w, c) = {"TWO_CONTS"}
    BY <1>6, PairsChecked, Zenon DEF PairCheck
  <2>2. c < 128 \/ c \in 128..191
    BY <1>2, <1>3
  <2>3. {} # {"TWO_CONTS"}
    OBVIOUS
  <2>4. QED
    BY <2>1, <2>2, <2>3, <1>3
<1>8. w >= 192 => (check_special_cases(x, w) # {} <=> x \notin SecondRange(w))
  <2>1. w >= 192 /\ x \notin 128..191 => x \notin SecondRange(w)
    BY <1>2 DEF SecondRange
  <2>2. QED
    BY <2>1, <1>6, PairsChecked DEF PairCheck
<1>9. w >= 192 /\ x \in SecondRange(w) => w \in 194..244 /\ x \in 128..191
  BY <1>2 DEF SecondRange
<1>10. /\ x \in 128..191 => (check_special_cases(y, x) # {"TWO_CONTS"} <=> y \notin 128..191)
       /\ y \in 128..191 => (check_special_cases(z, y) # {"TWO_CONTS"} <=> z \notin 128..191)
  <2>1. ASSUME NEW p \in Byte, NEW q \in Byte, p \in 128..191
        PROVE  check_special_cases(q, p) # {"TWO_CONTS"} <=> q \notin 128..191
    <3>1. /\ q \notin 128..191 /\ p < 192 => check_special_cases(q, p) = {}
          /\ q \in 128..191 /\ p \in 128..191 => check_special_cases(q, p) = {"TWO_CONTS"}
      BY PairsChecked, Zenon DEF PairCheck
    <3>2. {} # {"TWO_CONTS"} /\ p < 192
      BY <2>1
    <3>3. QED
      BY <3>1, <3>2, <2>1
  <2>2. QED
    BY <2>1, <1>6
<1>11. /\ Misplaced(B, i) <=> w \in 128..191
       /\ w >= 192 => /\ Cut(B, i+1)
                      /\ Misplaced(B, i+1) <=> x \notin SecondRange(w)
       /\ w >= 192 /\ x \in SecondRange(w) =>
            /\ w \in 194..244 /\ x \in 128..191
            /\ Cut(B, i+2) <=> w >= 224
            /\ w >= 224 => (Misplaced(B, i+2) <=> y \notin 128..191)
       /\ w >= 224 /\ x \in 128..191 /\ y \in 128..191 =>
            /\ Cut(B, i+3) <=> w >= 240
            /\ w >= 240 => (Misplaced(B, i+3) <=> z \notin 128..191)
       /\ x \in 128..191 /\ y \in 128..191 /\ z \in 128..191 => ~Cut(B, i+4)
  <2>1. /\ x \in 128..191 => x < 192 /\ x < 224
        /\ y \in 128..191 => y < 192
    OBVIOUS
  <2>2. /\ w >= 192 /\ x \in SecondRange(w) =>
            /\ Cut(B, i+2) <=> w >= 224
            /\ w >= 224 => (Misplaced(B, i+2) <=> y \notin 128..191)
    BY <2>1, <1>2, <1>4, <1>5, <1>9, <1>10
  <2>3. w >= 224 /\ x \in 128..191 /\ y \in 128..191 =>
            /\ Cut(B, i+3) <=> w >= 240
            /\ w >= 240 => (Misplaced(B, i+3) <=> z \notin 128..191)
    BY <2>1, <1>2, <1>4, <1>5, <1>10
  <2>4. x \in 128..191 /\ y \in 128..191 /\ z \in 128..191 => ~Cut(B, i+4)
    BY <1>2, <1>5
  <2>5. QED
    BY <2>2, <2>3, <2>4, <1>4, <1>5, <1>7, <1>8, <1>9
<1>12. QED
  BY <1>11 DEF w, x, y, z

(* A character of k bytes.                                                  *)
Fits(B, i, k) == \/ k = 1 /\ B[i] < 128
                 \/ k = 2 /\ B[i] \in 194..223 /\ B[i+1] \in SecondRange(B[i])
                 \/ k = 3 /\ B[i] \in 224..239 /\ B[i+1] \in SecondRange(B[i])
                          /\ B[i+2] \in 128..191
                 \/ k = 4 /\ B[i] \in 240..244 /\ B[i+1] \in SecondRange(B[i])
                          /\ B[i+2] \in 128..191 /\ B[i+3] \in 128..191

LEMMA FitsIsGood ==
  ASSUME NEW B \in [Int -> Byte], NEW i \in Int, ~Cut(B, i), NEW k \in 1..4, Fits(B, i, k)
  PROVE  Good(B, i, i+k)
<1>1. B[i] \in Byte
  OBVIOUS
<1>2. CASE k = 1
  <2>1. B[i] < 128
    BY <1>2 DEF Fits
  <2>2. ~Misplaced(B, i) /\ ~Cut(B, i+1)
    BY <2>1, AsciiPlace
  <2>3. i..(i+1)-1 = {i}
    OBVIOUS
  <2>4. QED
    BY <2>2, <2>3, <1>2 DEF Good
<1>3. CASE k = 2
  <2>1. B[i] \in 194..223 /\ B[i+1] \in SecondRange(B[i])
    BY <1>3 DEF Fits
  <2>2. B[i] >= 192 /\ ~(B[i] >= 224) /\ B[i] \notin 128..191
    BY <2>1
  <2>3. ~Misplaced(B, i) /\ ~Misplaced(B, i+1) /\ ~Cut(B, i+2)
    BY <2>1, <2>2, PlacesOfCharacter
  <2>4. i..(i+2)-1 = {i, i+1}
    OBVIOUS
  <2>5. QED
    BY <2>3, <2>4, <1>3 DEF Good
<1>4. CASE k = 3
  <2>1. B[i] \in 224..239 /\ B[i+1] \in SecondRange(B[i]) /\ B[i+2] \in 128..191
    BY <1>4 DEF Fits
  <2>2. B[i] >= 192 /\ B[i] >= 224 /\ ~(B[i] >= 240) /\ B[i] \notin 128..191
    BY <2>1
  <2>3. ~Misplaced(B, i) /\ ~Misplaced(B, i+1) /\ ~Misplaced(B, i+2) /\ ~Cut(B, i+3)
    BY <2>1, <2>2, PlacesOfCharacter
  <2>4. i..(i+3)-1 = {i, i+1, i+2}
    OBVIOUS
  <2>5. QED
    BY <2>3, <2>4, <1>4 DEF Good
<1>5. CASE k = 4
  <2>1. B[i] \in 240..244 /\ B[i+1] \in SecondRange(B[i]) /\ B[i+2] \in 128..191
        /\ B[i+3] \in 128..191
    BY <1>5 DEF Fits
  <2>2. B[i] >= 192 /\ B[i] >= 224 /\ B[i] >= 240 /\ B[i] \notin 128..191
    BY <2>1
  <2>3. /\ ~Misplaced(B, i) /\ ~Misplaced(B, i+1) /\ ~Misplaced(B, i+2) /\ ~Misplaced(B, i+3)
        /\ ~Cut(B, i+4)
    BY <2>1, <2>2, PlacesOfCharacter
  <2>4. i..(i+4)-1 = {i, i+1, i+2, i+3}
    OBVIOUS
  <2>5. QED
    BY <2>3, <2>4, <1>5 DEF Good
<1>6. QED
  BY <1>2, <1>3, <1>4, <1>5

(* Where nothing is misplaced the next character is whole.                  *)
LEMMA GoodFits ==
  ASSUME NEW B \in [Int -> Byte], NEW i \in Int, NEW n \in Int, i < n,
         ~Cut(B, i), Good(B, i, n)
  PROVE  \E k \in 1..4 : i+k <= n /\ Fits(B, i, k)
<1>1. B[i] \in 0..255
  BY DEF Byte
<1>2. \A j \in Int : i <= j /\ j < n => ~Misplaced(B, j)
  BY DEF Good
<1>3. ~Cut(B, n)
  BY DEF Good
<1>4. ~(B[i] \in 128..191)
  BY <1>2, PlacesOfCharacter
<1>5. CASE B[i] < 128
  BY <1>5 DEF Fits
<1>6. CASE B[i] >= 192
  <2>1. i+1 < n
    <3>1. Cut(B, i+1)
      BY <1>6, PlacesOfCharacter
    <3>2. n # i+1
      BY <3>1, <1>3
    <3>3. QED
      BY <3>2
  <2>2. ~Misplaced(B, i+1)
    BY <2>1, <1>2
  <2>3. B[i+1] \in SecondRange(B[i]) /\ B[i] \in 194..244 /\ B[i+1] \in 128..191
    BY <2>2, <1>6, PlacesOfCharacter
  <2>4. CASE B[i] < 224
    <3>1. Fits(B, i, 2)
      BY <2>3, <2>4 DEF Fits
    <3>2. QED
      BY <3>1, <2>1
  <2>5. CASE B[i] >= 224
    <3>1. i+2 < n
      <4>1. Cut(B, i+2)
        BY <2>3, <2>5, <1>6, PlacesOfCharacter
      <4>2. n # i+2
        BY <4>1, <1>3
      <4>3. QED
        BY <4>2, <2>1
    <3>2. ~Misplaced(B, i+2)
      BY <3>1, <1>2
    <3>3. B[i+2] \in 128..191
      BY <3>2, <2>3, <2>5, <1>6, PlacesOfCharacter
    <3>4. CASE B[i] < 240
      <4>1. Fits(B, i, 3)
        BY <3>3, <2>3, <2>5, <3>4 DEF Fits
      <4>2. QED
        BY <4>1, <3>1
    <3>5. CASE B[i] >= 240
      <4>1. i+3 < n
        <5>1. Cut(B, i+3)
          BY <2>3, <2>5, <3>3, <3>5, PlacesOfCharacter
        <5>2. n # i+3
          BY <5>1, <1>3
        <5>3. QED
          BY <5>2, <3>1
      <4>2. ~Misplaced(B, i+3)
        BY <4>1, <1>2
      <4>3. B[i+3] \in 128..191
        BY <4>2, <3>3, <2>3, <2>5, <3>5, PlacesOfCharacter
      <4>4. Fits(B, i, 4)
        BY <4>3, <3>3, <2>3, <3>5 DEF Fits
      <4>5. QED
        BY <4>4, <4>1
    <3>6. QED
      BY <3>4, <3>5, <1>1
  <2>6. QED
    BY <2>4, <2>5, <1>1
<1>7. QED
  BY <1>1, <1>4, <1>5, <1>6

LEMMA GoodSplits ==
  ASSUME NEW B, NEW i \in Int, NEW m \in Int, NEW n \in Int, i <= m, m <= n
  PROVE  Good(B, i, n) <=> (\A j \in i..m-1 : ~Misplaced(B, j)) /\ Good(B, m, n)
<1>1. \A j : j \in i..n-1 <=> j \in i..m-1 \/ j \in m..n-1
  OBVIOUS
<1>2. QED
  BY <1>1, Zenon DEF Good

LEMMA LineOfText ==
  ASSUME NEW t \in Seq(Byte), NEW n \in 0..Len(t)
  PROVE  /\ Line(t, n) \in [Int -> Byte]
         /\ \A i \in 0..n-1 : Line(t, n)[i] = At(t, i)
         /\ \A i \in Int : i >= n => Line(t, n)[i] = Space
         /\ \A i \in Int : i < 0 => Line(t, n)[i] = 0
<1>1. \A i \in Nat : ByteAt(t, n, i) \in Byte
  BY ByteAtIsByte
<1>2. \A i \in Int : Line(t, n)[i] = IF i < 0 THEN 0 ELSE ByteAt(t, n, i)
  BY DEF Line
<1>3. 0 \in Byte
  BY DEF Byte
<1>4. Line(t, n) \in [Int -> Byte]
  <2>1. \A i \in Int : (IF i < 0 THEN 0 ELSE ByteAt(t, n, i)) \in Byte
    BY <1>1, <1>3
  <2>2. QED
    BY <2>1, Zenon DEF Line
<1>5. QED
  BY <1>2, <1>4 DEF ByteAt

(* The characters of the reference, in the terms of the tables.             *)
LengthOf(first) == CASE first \in 0..127   -> 1
                     [] first \in 194..223 -> 2
                     [] first \in 224..239 -> 3
                     [] first \in 240..244 -> 4
                     [] OTHER              -> 0
SecondOf(first) == CASE first = 224 -> 160..191
                     [] first = 237 -> 128..159
                     [] first = 240 -> 144..191
                     [] first = 244 -> 128..143
                     [] OTHER       -> 128..191

LEMMA FirstByteRules ==
  ASSUME NEW f \in 0..255
  PROVE  /\ LengthOf(f) \in 0..4
         /\ LengthOf(f) = 1 <=> f < 128
         /\ LengthOf(f) = 2 <=> f \in 194..223
         /\ LengthOf(f) = 3 <=> f \in 224..239
         /\ LengthOf(f) = 4 <=> f \in 240..244
         /\ f \in 194..244 => SecondOf(f) = SecondRange(f)
<1>1. LengthOf(f) = IF f <= 127 THEN 1 ELSE IF f \in 194..223 THEN 2
                    ELSE IF f \in 224..239 THEN 3 ELSE IF f \in 240..244 THEN 4 ELSE 0
  <2>1. CASE f \in 0..127
    BY <2>1 DEF LengthOf
  <2>2. CASE f \in 194..223
    BY <2>2 DEF LengthOf
  <2>3. CASE f \in 224..239
    BY <2>3 DEF LengthOf
  <2>4. CASE f \in 240..244
    BY <2>4 DEF LengthOf
  <2>5. CASE f \notin 0..127 /\ f \notin 194..223 /\ f \notin 224..239 /\ f \notin 240..244
    <3>1. LengthOf(f) = 0
      BY <2>5, SMTT(30) DEF LengthOf
    <3>2. QED
      BY <3>1, <2>5
  <2>6. QED
    BY <2>1, <2>2, <2>3, <2>4, <2>5
<1>2. f \in 194..244 => SecondOf(f) = SecondRange(f)
  <2>1. CASE f = 224
    BY <2>1 DEF SecondOf, SecondRange
  <2>2. CASE f = 237
    BY <2>2 DEF SecondOf, SecondRange
  <2>3. CASE f = 240
    BY <2>3 DEF SecondOf, SecondRange
  <2>4. CASE f = 244
    BY <2>4 DEF SecondOf, SecondRange
  <2>5. CASE f # 224 /\ f # 237 /\ f # 240 /\ f # 244
    <3>1. SecondOf(f) = 128..191
      BY <2>5, Zenon DEF SecondOf
    <3>2. f \in 194..244 => SecondRange(f) = 128..191
      BY <2>5 DEF SecondRange
    <3>3. QED
      BY <3>1, <3>2
  <2>6. QED
    BY <2>1, <2>2, <2>3, <2>4, <2>5
<1>3. QED
  BY <1>1, <1>2

LEMMA ContinuationsByLength ==
  ASSUME NEW k \in 1..4, NEW l \in 0..4, NEW s, NEW c
  PROVE  (k = l /\ (l > 1 => c[2] \in s) /\ \A m \in 3..l : c[m] \in 128..191)
           <=> /\ l = k /\ (k >= 2 => c[2] \in s)
               /\ (k >= 3 => c[3] \in 128..191) /\ (k = 4 => c[4] \in 128..191)
<1>1. l > 1 <=> l >= 2
  OBVIOUS
<1>2. (\A m \in 3..l : c[m] \in 128..191)
        <=> (l >= 3 => c[3] \in 128..191) /\ (l = 4 => c[4] \in 128..191)
  <2>1. \A m \in Int : m \in 3..l <=> (m = 3 /\ l >= 3) \/ (m = 4 /\ l = 4)
    OBVIOUS
  <2>2. QED
    BY <2>1
<1>3. QED
  BY <1>1, <1>2

LEMMA WholeCharacter ==
  ASSUME NEW t \in Seq(Byte), NEW i \in 0..Len(t)-1, NEW k \in 1..4, i+k <= Len(t)
  PROVE  WellFormedCharacter(SubSeq(t, i+1, i+k)) <=> Fits(Line(t, Len(t)), i, k)
<1> DEFINE n == Len(t)
           B == Line(t, n)
           c == SubSeq(t, i+1, i+k)
           l == LengthOf(c[1])
           s == SecondOf(c[1])
<1> SUFFICES WellFormedCharacter(c) <=> Fits(B, i, k)
  OBVIOUS
<1>0. n \in Nat /\ n \in 0..n
  OBVIOUS
<1>1. Len(c) = k /\ \A m \in 1..k : c[m] = t[i+m]
  BY <1>0
<1>2. \A m \in 1..k : c[m] = B[(i+m)-1]
  <2>1. \A m \in 1..k : (i+m)-1 \in 0..n-1 /\ ((i+m)-1)+1 = i+m
    BY <1>0
  <2>2. \A j \in 0..n-1 : B[j] = t[j+1]
    BY <1>0, LineOfText, Zenon DEF At
  <2> HIDE DEF B, c, n
  <2>3. QED
    BY <2>1, <2>2, <1>1
<1>3. /\ c[1] = B[i]
      /\ k >= 2 => c[2] = B[i+1]
      /\ k >= 3 => c[3] = B[i+2]
      /\ k = 4 => c[4] = B[i+3]
  <2>1. (i+1)-1 = i /\ (i+2)-1 = i+1 /\ (i+3)-1 = i+2 /\ (i+4)-1 = i+3
    OBVIOUS
  <2>2. 1 \in 1..k /\ (k >= 2 => 2 \in 1..k) /\ (k >= 3 => 3 \in 1..k) /\ (k = 4 => 4 \in 1..k)
    OBVIOUS
  <2> HIDE DEF B, c
  <2>3. QED
    BY <2>1, <2>2, <1>2
<1>4. B[i] \in 0..255
  <2>1. B \in [Int -> Byte] /\ i \in Int
    BY <1>0, LineOfText
  <2> HIDE DEF B
  <2>2. QED
    BY <2>1 DEF Byte
<1> HIDE DEF B, c
<1>5. WellFormedCharacter(c) <=>
        /\ Len(c) = l /\ (l > 1 => c[2] \in s)
        /\ \A m \in 3..l : c[m] \in 128..191
  BY Zenon DEF WellFormedCharacter, IsContinuation, LengthOf, SecondOf
<1> DEFINE x == B[i]  y == B[i+1]  z == B[i+2]  w == B[i+3]
<1>6. /\ l \in 0..4
      /\ l = 1 <=> x < 128
      /\ l = 2 <=> x \in 194..223
      /\ l = 3 <=> x \in 224..239
      /\ l = 4 <=> x \in 240..244
      /\ x \in 194..244 => s = SecondRange(x)
  <2>1. x \in 0..255 /\ l = LengthOf(x) /\ s = SecondOf(x)
    BY <1>3, <1>4, Zenon
  <2> HIDE DEF x, l, s
  <2>2. /\ LengthOf(x) \in 0..4
        /\ (LengthOf(x) = 1 <=> x < 128)
        /\ (LengthOf(x) = 2 <=> x \in 194..223)
        /\ (LengthOf(x) = 3 <=> x \in 224..239)
        /\ (LengthOf(x) = 4 <=> x \in 240..244)
        /\ (x \in 194..244 => SecondOf(x) = SecondRange(x))
    <3>1. x \in 0..255
      BY <2>1
    <3>2. QED
      BY <3>1, FirstByteRules, Zenon
  <2>3. QED
    BY <2>1, <2>2
<1> HIDE DEF l, s
<1>7. WellFormedCharacter(c) <=>
        /\ l = k /\ (k >= 2 => c[2] \in s)
        /\ (k >= 3 => c[3] \in 128..191) /\ (k = 4 => c[4] \in 128..191)
  <2>1. l \in 0..4
    BY <1>6
  <2>2. (k = l /\ (l > 1 => c[2] \in s) /\ \A m \in 3..l : c[m] \in 128..191)
          <=> /\ l = k /\ (k >= 2 => c[2] \in s)
              /\ (k >= 3 => c[3] \in 128..191) /\ (k = 4 => c[4] \in 128..191)
    BY <2>1, ContinuationsByLength
  <2>3. Len(c) = k
    BY <1>1
  <2>4. QED
    BY <2>2, <2>3, <1>5, Zenon
<1>8. Fits(B, i, k) <=>
        \/ k = 1 /\ x < 128
        \/ k = 2 /\ x \in 194..223 /\ y \in SecondRange(x)
        \/ k = 3 /\ x \in 224..239 /\ y \in SecondRange(x) /\ z \in 128..191
        \/ k = 4 /\ x \in 240..244 /\ y \in SecondRange(x) /\ z \in 128..191
                 /\ w \in 128..191
  BY Zenon DEF Fits
<1> DEFINE Third == z \in 128..191  Fourth == w \in 128..191  Second == y \in SecondRange(x)
           P == WellFormedCharacter(c)
           Q == Fits(B, i, k)
<1>9. /\ k >= 2 => (c[2] \in s <=> y \in s)
      /\ k >= 3 => (c[3] \in 128..191 <=> Third)
      /\ k = 4 => (c[4] \in 128..191 <=> Fourth)
      /\ l \in 2..4 => (y \in s <=> Second)
  <2>1. l \in 2..4 => x \in 194..244
    BY <1>6, <1>4
  <2>2. l \in 2..4 => s = SecondRange(x)
    BY <2>1, <1>6, Zenon
  <2> HIDE DEF x, y, z, w
  <2>3. /\ (k >= 2 => c[2] = y)
        /\ (k >= 3 => c[3] = z)
        /\ (k = 4 => c[4] = w)
    BY <1>3, Zenon DEF y, z, w
  <2>4. QED
    BY <2>2, <2>3, Zenon
<1> HIDE DEF Third, Fourth, Second, P, Q, x
<1>10. QED
  <2>1. P <=> l = k /\ (k >= 2 => Second) /\ (k >= 3 => Third) /\ (k = 4 => Fourth)
    <3>1. k >= 2 /\ l = k => l \in 2..4
      OBVIOUS
    <3>2. k >= 3 => k >= 2
      OBVIOUS
    <3>3. QED
      BY <3>1, <3>2, <1>7, <1>9 DEF P
  <2>2. Q <=>
          \/ k = 1 /\ x < 128
          \/ k = 2 /\ x \in 194..223 /\ Second
          \/ k = 3 /\ x \in 224..239 /\ Second /\ Third
          \/ k = 4 /\ x \in 240..244 /\ Second /\ Third /\ Fourth
    BY <1>8, Zenon DEF Q, Third, Fourth, Second
  <2>3. P <=> Q
    <3>1. k = 1 \/ k = 2 \/ k = 3 \/ k = 4
      OBVIOUS
    <3>2. /\ (l = 1 <=> x < 128)
          /\ (l = 2 <=> x \in 194..223)
          /\ (l = 3 <=> x \in 224..239)
          /\ (l = 4 <=> x \in 240..244)
      BY <1>6, Zenon
    <3> DEFINE X1 == x < 128  X2 == x \in 194..223
               X3 == x \in 224..239  X4 == x \in 240..244
    <3> HIDE DEF X1, X2, X3, X4, l
    <3>3. CASE k = 1
      BY <3>2, <2>1, <2>2, <3>3 DEF X1, X2, X3, X4
    <3>4. CASE k = 2
      BY <3>2, <2>1, <2>2, <3>4 DEF X1, X2, X3, X4
    <3>5. CASE k = 3
      BY <3>2, <2>1, <2>2, <3>5 DEF X1, X2, X3, X4
    <3>6. CASE k = 4
      BY <3>2, <2>1, <2>2, <3>6 DEF X1, X2, X3, X4
    <3>7. QED
      BY <3>1, <3>3, <3>4, <3>5, <3>6
  <2>4. QED
    BY <2>3, Zenon DEF P, Q

(* From a position on the text is valid.                                    *)
FromHere(t, V, i) ==
    \/ i = Len(t)
    \/ \E k \in 1..Min({4, Len(t) - i}) :
         /\ WellFormedCharacter(SubSeq(t, i + 1, i + k))
         /\ V[i + k]

LEMMA FourAtMost ==
  ASSUME NEW n \in Nat, NEW i \in 0..n, NEW k \in Int
  PROVE  k \in 1..Min({4, n - i}) <=> k \in 1..4 /\ i+k <= n
<1>1. n - i \in Nat /\ 4 \in Nat
  OBVIOUS
<1>2. Min({4, n - i}) = IF 4 <= n - i THEN 4 ELSE n - i
  BY <1>1, MinOfTwo
<1>3. QED
  BY <1>1, <1>2

LEMMA ValidExists ==
  ASSUME NEW t \in Seq(Byte)
  PROVE  \E V \in [0..Len(t) -> BOOLEAN] : \A i \in 0..Len(t) : V[i] = FromHere(t, V, i)
<1> DEFINE n == Len(t)
           Has(m) == \E V \in [n-m..n -> BOOLEAN] : \A i \in n-m..n : V[i] = FromHere(t, V, i)
           T == {m \in 0..n : ~Has(m)}
<1>0. n \in Nat
  OBVIOUS
<1>1. SUFFICES ASSUME T # {}
               PROVE  FALSE
  <2>1. ASSUME T = {}
        PROVE  Has(n)
    <3> HIDE DEF Has
    <3>1. QED
      BY <2>1, <1>0
  <2>2. n - n = 0
    BY <1>0
  <2>3. QED
    BY <2>1, <2>2, Zenon
<1>2. PICK m \in T : \A y \in T : m <= y
  <2>1. T \in SUBSET Nat
    <3> HIDE DEF Has
    <3>1. QED
      BY <1>0
  <2> HIDE DEF T
  <2>2. QED
    BY <1>1, <2>1, Smallest
<1>3. m \in 0..n /\ ~Has(m)
  BY <1>2, Zenon
<1>4. CASE m = 0
  <2> DEFINE V == [i \in n-m..n |-> TRUE]
  <2>1. \A i \in n-m..n : i = n
    BY <1>4, <1>0
  <2>2. \A i \in n-m..n : V[i] = FromHere(t, V, i)
    <3>1. \A i \in n-m..n : FromHere(t, V, i) = TRUE
      BY <2>1 DEF FromHere
    <3>2. QED
      BY <3>1, Zenon
  <2>3. V \in [n-m..n -> BOOLEAN]
    BY Zenon
  <2> HIDE DEF V
  <2>4. QED
    BY <2>2, <2>3, <1>3, Zenon
<1>5. CASE m # 0
  <2> DEFINE a == n - m
  <2>1. m-1 \in 0..n /\ n-(m-1) = a+1 /\ a \in 0..n-1 /\ a \in Int
    BY <1>3, <1>5, <1>0
  <2>2. Has(m-1)
    <3>1. m-1 \notin T
      <4> HIDE DEF T, Has
      <4>1. m-1 < m
        BY <1>3
      <4>2. QED
        BY <4>1, <1>2, <1>3
    <3>2. QED
      BY <3>1, <2>1, Zenon
  <2>3. PICK W \in [a+1..n -> BOOLEAN] : \A i \in a+1..n : W[i] = FromHere(t, W, i)
    BY <2>2, <2>1, Zenon
  <2> DEFINE V == [i \in a..n |-> IF i = a THEN FromHere(t, W, a) ELSE W[i]]
  <2>4. V \in [a..n -> BOOLEAN]
    <3>1. FromHere(t, W, a) \in BOOLEAN
      BY DEF FromHere
    <3>2. \A i \in a..n : i # a => i \in a+1..n
      BY <2>1, <1>0
    <3> HIDE DEF a
    <3>3. QED
      BY <3>1, <3>2, <2>3
  <2>5. ASSUME NEW i \in a..n
        PROVE  FromHere(t, V, i) = FromHere(t, W, i)
    <3>1. \A k \in 1..Min({4, n - i}) : V[i+k] = W[i+k]
      <4>1. i \in 0..n
        BY <2>1, <1>0
      <4>2. ASSUME NEW k \in 1..Min({4, n - i})
            PROVE  i+k \in a..n /\ i+k # a
        <5>1. k \in Int
          OBVIOUS
        <5>2. k \in 1..4 /\ i+k <= n
          BY <5>1, <4>1, <1>0, FourAtMost, Zenon
        <5>3. QED
          BY <5>2, <2>1, <1>0
      <4> HIDE DEF a
      <4>3. QED
        BY <4>2
    <3> HIDE DEF V
    <3>2. QED
      BY <3>1, Zenon DEF FromHere
  <2>6. \A i \in a..n : V[i] = FromHere(t, V, i)
    <3>1. \A i \in a..n : i # a => i \in a+1..n
      BY <2>1, <1>0
    <3>2. \A i \in a..n : V[i] = FromHere(t, W, i)
      <4> HIDE DEF a
      <4>1. QED
        BY <3>1, <2>3, Zenon
    <3> HIDE DEF V, a
    <3>3. QED
      BY <3>2, <2>5, Zenon
  <2> HIDE DEF V
  <2>7. QED
    BY <2>4, <2>6, <1>3, Zenon
<1>6. QED
  BY <1>4, <1>5

LEMMA ValidRule ==
  ASSUME NEW t \in Seq(Byte)
  PROVE  \E V \in [0..Len(t) -> BOOLEAN] :
            /\ ValidUtf8(t) = V[0]
            /\ \A i \in 0..Len(t) : V[i] <=> FromHere(t, V, i)
<1> DEFINE Body(V) == [i \in 0..Len(t) |-> FromHere(t, V, i)]
           valid == CHOOSE V : V = Body(V)
<1>0. Len(t) \in Nat
  OBVIOUS
<1>1. PICK V \in [0..Len(t) -> BOOLEAN] : \A i \in 0..Len(t) : V[i] = FromHere(t, V, i)
  BY ValidExists
<1>2. V = Body(V)
  BY <1>1, Zenon
<1>3. valid = Body(valid)
  BY <1>2, Zenon
<1>4. ValidUtf8(t) = valid[0]
  BY Zenon DEF ValidUtf8, FromHere
<1> HIDE DEF valid
<1>5. valid \in [0..Len(t) -> BOOLEAN]
  <2>1. \A i \in 0..Len(t) : FromHere(t, valid, i) \in BOOLEAN
    BY Zenon DEF FromHere
  <2>2. QED
    BY <2>1, <1>3, Zenon
<1>6. \A i \in 0..Len(t) : valid[i] = FromHere(t, valid, i)
  BY <1>3, Zenon
<1>7. QED
  BY <1>4, <1>5, <1>6, Zenon

(* A text is valid when none of its bytes is misplaced and its end cuts no  *)
(* character.                                                               *)
LEMMA ValidIsGood ==
  ASSUME NEW t \in Seq(Byte)
  PROVE  ValidUtf8(t) <=> Good(Line(t, Len(t)), 0, Len(t))
<1> DEFINE n == Len(t)
           B == Line(t, n)
<1>0. n \in Nat /\ n \in 0..n /\ n \in Int
  OBVIOUS
<1>1. B \in [Int -> Byte]
  BY <1>0, LineOfText
<1>2. PICK V \in [0..n -> BOOLEAN] :
            /\ ValidUtf8(t) = V[0]
            /\ \A i \in 0..n : V[i] <=> FromHere(t, V, i)
  BY ValidRule
<1> DEFINE Same(i) == ~Cut(B, i) => (V[i] <=> Good(B, i, n))
           T == {m \in 0..n : ~Same(n-m)}
<1>3. ASSUME NEW i \in 0..n
      PROVE  V[i] <=> \/ i = n
                      \/ \E k \in 1..4 : i+k <= n /\ Fits(B, i, k) /\ V[i+k]
  <2>1. CASE i = n
    BY <2>1, <1>2 DEF FromHere
  <2>2. CASE i # n
    <3>1. i \in 0..n-1
      BY <2>2, <1>0
    <3>2. \A k : k \in 1..Min({4, n - i}) <=> k \in 1..4 /\ i+k <= n
      <4>1. \A k \in Int : k \in 1..Min({4, n - i}) <=> k \in 1..4 /\ i+k <= n
        BY <1>0, FourAtMost, Zenon
      <4>2. \A k : k \in 1..Min({4, n - i}) => k \in Int
        OBVIOUS
      <4>3. \A k : k \in 1..4 => k \in Int
        OBVIOUS
      <4>4. QED
        BY <4>1, <4>2, <4>3, Zenon
    <3>3. \A k \in 1..4 : i+k <= n =>
             (WellFormedCharacter(SubSeq(t, i+1, i+k)) <=> Fits(B, i, k))
      BY <3>1, WholeCharacter
    <3>4. V[i] <=> \E k \in 1..Min({4, n - i}) :
                      WellFormedCharacter(SubSeq(t, i+1, i+k)) /\ V[i+k]
      BY <2>2, <1>2, Zenon DEF FromHere
    <3> HIDE DEF n, B
    <3>5. QED
      BY <2>2, <3>2, <3>3, <3>4, Zenon
  <2>3. QED
    BY <2>1, <2>2
<1> HIDE DEF B
<1>4. T = {}
  <2> SUFFICES ASSUME T # {}
               PROVE  FALSE
    OBVIOUS
  <2>1. PICK m \in T : \A y \in T : m <= y
    <3>1. T \in SUBSET Nat
      <4> HIDE DEF Same
      <4>1. QED
        BY <1>0
    <3> HIDE DEF T
    <3>2. QED
      BY <3>1, Smallest
  <2>2. m \in 0..n /\ ~Same(n-m)
    BY <2>1, Zenon
  <2> DEFINE i == n - m
  <2>3. i \in 0..n /\ i \in Int /\ ~Cut(B, i) /\ ~(V[i] <=> Good(B, i, n))
    BY <2>2, <1>0
  <2>4. \A j \in 0..n : i < j /\ ~Cut(B, j) => (V[j] <=> Good(B, j, n))
    <3>1. ASSUME NEW j \in 0..n, i < j
          PROVE  Same(j)
      <4>1. n-j \in 0..n /\ n-(n-j) = j /\ ~(m <= n-j)
        BY <3>1, <2>2, <1>0
      <4>2. n-j \notin T
        <5> HIDE DEF T
        <5>1. QED
          BY <4>1, <2>1
      <4>3. QED
        BY <4>1, <4>2, Zenon
    <3> HIDE DEF i
    <3>2. QED
      BY <3>1
  <2> HIDE DEF i, T, Same
  <2>5. CASE i = n
    <3>1. V[i]
      BY <2>5, <1>3, <1>0
    <3>2. n..n-1 = {}
      BY <1>0
    <3>3. Good(B, i, n)
      BY <3>2, <2>3, <2>5 DEF Good
    <3>4. QED
      BY <3>1, <3>3, <2>3
  <2>6. CASE i < n
    <3>1. ASSUME NEW k \in 1..4, i+k <= n, Fits(B, i, k)
          PROVE  /\ ~Cut(B, i+k) /\ i+k \in 0..n
                 /\ Good(B, i, n) <=> Good(B, i+k, n)
                 /\ V[i+k] <=> Good(B, i+k, n)
      <4>1. Good(B, i, i+k)
        BY <3>1, <2>3, <1>1, FitsIsGood
      <4>2. ~Cut(B, i+k)
        BY <4>1 DEF Good
      <4>3. i+k \in 0..n /\ i < i+k /\ i+k \in Int
        BY <3>1, <2>3, <1>0
      <4>4. V[i+k] <=> Good(B, i+k, n)
        BY <4>2, <4>3, <2>4
      <4>5. Good(B, i, n) <=> (\A j \in i..(i+k)-1 : ~Misplaced(B, j)) /\ Good(B, i+k, n)
        <5>1. i <= i+k
          BY <4>3, <2>3
        <5>2. QED
          BY <5>1, <4>3, <2>3, <3>1, <1>0, GoodSplits
      <4>6. \A j \in i..(i+k)-1 : ~Misplaced(B, j)
        BY <4>1, Zenon DEF Good
      <4>7. QED
        BY <4>2, <4>3, <4>4, <4>5, <4>6
    <3>2. V[i] => Good(B, i, n)
      <4> SUFFICES ASSUME V[i]
                   PROVE  Good(B, i, n)
        OBVIOUS
      <4>1. i # n
        BY <2>6, <2>3
      <4>2. PICK k \in 1..4 : i+k <= n /\ Fits(B, i, k) /\ V[i+k]
        BY <4>1, <1>3, <2>3, Zenon
      <4>3. QED
        BY <4>2, <3>1, Zenon
    <3>3. Good(B, i, n) => V[i]
      <4> SUFFICES ASSUME Good(B, i, n)
                   PROVE  V[i]
        OBVIOUS
      <4>1. PICK k \in 1..4 : i+k <= n /\ Fits(B, i, k)
        BY <2>6, <2>3, <1>0, <1>1, GoodFits
      <4>2. V[i+k]
        BY <4>1, <3>1
      <4>3. QED
        BY <4>1, <4>2, <1>3, <2>3
    <3>4. QED
      BY <3>2, <3>3, <2>3
  <2>7. QED
    BY <2>5, <2>6, <2>3, <1>0
<1>5. Same(0)
  <2>1. n \in 0..n /\ n - n = 0
    BY <1>0
  <2>2. n \notin T
    BY <1>4, Zenon
  <2>3. QED
    BY <2>1, <2>2, Zenon
<1>6. ~Cut(B, 0)
  <2>1. 0-1 \in Int /\ 0-2 \in Int /\ 0-3 \in Int /\ 0-1 < 0 /\ 0-2 < 0 /\ 0-3 < 0
    OBVIOUS
  <2>2. B[0-1] = 0 /\ B[0-2] = 0 /\ B[0-3] = 0
    BY <2>1, <1>0, LineOfText DEF B
  <2>3. QED
    BY <2>2 DEF Cut
<1>7. QED
  BY <1>2, <1>5, <1>6 DEF B

(* Spaces behind the text change nothing.                                   *)
LEMMA GoodBeyond ==
  ASSUME NEW t \in Seq(Byte), NEW n \in 0..Len(t), NEW m \in Nat, n <= m
  PROVE  Good(Line(t, n), 0, m) <=> Good(Line(t, n), 0, n)
<1> DEFINE B == Line(t, n)
<1>0. n \in Int /\ n \in Nat /\ m \in Int /\ 0 \in Int /\ 0 <= n
  OBVIOUS
<1>1. B \in [Int -> Byte] /\ \A i \in Int : i >= n => B[i] = Space
  BY <1>0, LineOfText
<1> HIDE DEF B
<1>2. \A i \in Int : i >= n => /\ Misplaced(B, i) <=> Cut(B, i)
                               /\ Cut(B, i+1) => Cut(B, i)
  BY <1>1, AsciiPlace DEF Space
<1>3. ~Cut(B, n) => \A i \in Int : i >= n => ~Cut(B, i)
  <2> SUFFICES ASSUME ~Cut(B, n), NEW i \in Int, i >= n
               PROVE  ~Cut(B, i)
    OBVIOUS
  <2>1. ~Cut(B, n+1) /\ ~Cut(B, (n+1)+1)
    <3>1. n+1 \in Int /\ n+1 >= n
      BY <1>0
    <3>2. QED
      BY <3>1, <1>0, <1>2
  <2>2. CASE i >= n+3
    <3>1. /\ i-1 \in Int /\ i-2 \in Int /\ i-3 \in Int
          /\ i-1 >= n /\ i-2 >= n /\ i-3 >= n
      BY <2>2, <1>0
    <3>2. B[i-1] = 32 /\ B[i-2] = 32 /\ B[i-3] = 32
      BY <3>1, <1>1 DEF Space
    <3>3. QED
      BY <3>2 DEF Cut
  <2>3. CASE i < n+3
    <3>1. i = n \/ i = n+1 \/ i = (n+1)+1
      BY <2>3, <1>0
    <3>2. QED
      BY <3>1, <2>1
  <2>4. QED
    BY <2>2, <2>3, <1>0
<1>4. Good(B, 0, m) <=> (\A j \in 0..n-1 : ~Misplaced(B, j)) /\ Good(B, n, m)
  BY <1>0, GoodSplits
<1>5. Good(B, n, m) <=> ~Cut(B, n)
  <2>1. ASSUME ~Cut(B, n)
        PROVE  Good(B, n, m)
    <3>1. \A j \in n..m-1 : ~Misplaced(B, j)
      BY <2>1, <1>2, <1>3
    <3>2. ~Cut(B, m)
      BY <2>1, <1>3, <1>0
    <3>3. QED
      BY <3>1, <3>2 DEF Good
  <2>2. ASSUME Cut(B, n)
        PROVE  ~Good(B, n, m)
    <3>1. CASE m = n
      BY <3>1, <2>2 DEF Good
    <3>2. CASE m # n
      <4>1. n \in n..m-1
        BY <3>2, <1>0
      <4>2. Misplaced(B, n)
        BY <2>2, <1>0, <1>2
      <4>3. QED
        BY <4>1, <4>2 DEF Good
    <3>3. QED
      BY <3>1, <3>2
  <2>3. QED
    BY <2>1, <2>2
<1>6. QED
  BY <1>4, <1>5 DEF Good, B

(* The text that is read is a text of its own.                              *)
LEMMA LineOfPrefix ==
  ASSUME NEW t \in Seq(Byte), NEW n \in 0..Len(t)
  PROVE  /\ SubSeq(t, 1, n) \in Seq(Byte) /\ Len(SubSeq(t, 1, n)) = n
         /\ Line(SubSeq(t, 1, n), n) = Line(t, n)
<1>0. Len(t) \in Nat /\ n \in Nat
  OBVIOUS
<1> DEFINE s == SubSeq(t, 1, n)
<1>1. s \in Seq(Byte) /\ Len(s) = n /\ \A k \in 1..n : s[k] = t[k]
  BY <1>0
<1> HIDE DEF s
<1>2. \A i \in Nat : ByteAt(s, n, i) = ByteAt(t, n, i)
  <2>1. \A i \in Nat : i < n => i+1 \in 1..n
    BY <1>0
  <2>2. QED
    BY <2>1, <1>1 DEF ByteAt, At
<1>3. \A i \in Int : (IF i < 0 THEN 0 ELSE ByteAt(s, n, i)) = (IF i < 0 THEN 0 ELSE ByteAt(t, n, i))
  BY <1>2
<1>4. Line(s, n) = Line(t, n)
  BY <1>3, Zenon DEF Line
<1>5. QED
  BY <1>1, <1>4 DEF s

(* Two lines that go on alike.                                              *)
LEMMA SameBehind ==
  ASSUME NEW B \in [Int -> Byte], NEW C \in [Int -> Byte], NEW at \in Int,
         \A i \in Int : i >= at => B[i] = C[i],
         ~Cut(B, at), ~Cut(C, at), NEW i \in Int, i >= at
  PROVE  Misplaced(B, i) <=> Misplaced(C, i)
<1>1. /\ i-1 \in Int /\ i-2 \in Int /\ i-3 \in Int /\ B[i] = C[i]
      /\ at-1 \in Int /\ at-2 \in Int /\ at-3 \in Int
  OBVIOUS
<1>2. CASE i = at
  <2>1. Misplaced(B, i) <=> B[i] \in 128..191
    BY <1>2, PlacesOfCharacter
  <2>2. Misplaced(C, i) <=> C[i] \in 128..191
    BY <1>2, PlacesOfCharacter
  <2>3. QED
    BY <2>1, <2>2, <1>1
<1>3. CASE i > at
  <2>1. B[i-1] = C[i-1]
    BY <1>3, <1>1
  <2>2. must_be_2_3_continuation(B[i-2], B[i-3]) <=> must_be_2_3_continuation(C[i-2], C[i-3])
    <3>1. CASE i = at+1
      <4>1. i-2 = at-1 /\ i-3 = at-2
        BY <3>1
      <4>2. /\ B[at-1] \in 0..255 /\ B[at-2] \in 0..255 /\ C[at-1] \in 0..255 /\ C[at-2] \in 0..255
        BY <1>1 DEF Byte
      <4>3. QED
        BY <4>1, <4>2 DEF Cut, must_be_2_3_continuation
    <3>2. CASE i = at+2
      <4>1. i-2 = at /\ i-3 = at-1 /\ B[at] = C[at]
        BY <3>2
      <4>2. B[at-1] \in 0..255 /\ C[at-1] \in 0..255
        BY <1>1 DEF Byte
      <4>3. QED
        BY <4>1, <4>2 DEF Cut, must_be_2_3_continuation
    <3>3. CASE i > at+2
      <4>1. B[i-2] = C[i-2] /\ B[i-3] = C[i-3]
        BY <3>3, <1>1
      <4>2. QED
        BY <4>1 DEF must_be_2_3_continuation
    <3>4. QED
      BY <3>1, <3>2, <3>3, <1>3
  <2>3. QED
    BY <2>1, <2>2, <1>1, Zenon DEF Misplaced
<1>4. QED
  BY <1>2, <1>3

(* A block in front of which another one stands.                            *)
Behind(B, prev, at) == [i \in Int |-> IF i >= at THEN B[i]
                                      ELSE IF i >= at - 3 THEN prev[(Width + i) - at]
                                      ELSE 0]

LEMMA BlockIsBehind ==
  ASSUME NEW B \in [Int -> Byte], NEW at \in Int, NEW prev \in [Bits -> Byte],
         NEW in, in = [b \in Bits |-> B[at + b]]
  PROVE  /\ Behind(B, prev, at) \in [Int -> Byte]
         /\ Cut(Behind(B, prev, at), at) <=> is_incomplete(prev)
         /\ BlockHasError(in, prev)
              <=> \E j \in at..(at + Width)-1 : Misplaced(Behind(B, prev, at), j)
<1> DEFINE C == Behind(B, prev, at)
<1>0. Width \in Nat /\ Width >= 4 /\ Bits = 0..Width-1
  BY Wide DEF Bits
<1>1. \A i \in Int : C[i] = IF i >= at THEN B[i]
                            ELSE IF i >= at - 3 THEN prev[(Width + i) - at] ELSE 0
  BY DEF Behind
<1>2. \A i \in Int : i < at /\ i >= at - 3 => (Width + i) - at \in Bits
  BY <1>0
<1>3. C \in [Int -> Byte]
  <2>1. \A i \in Int : (IF i >= at THEN B[i] ELSE IF i >= at - 3 THEN prev[(Width + i) - at] ELSE 0) \in Byte
    <3>1. 0 \in Byte
      BY DEF Byte
    <3> HIDE DEF C
    <3>2. QED
      BY <3>1, <1>2
  <2>2. QED
    BY <2>1, Zenon DEF Behind
<1> HIDE DEF C
<1>4. C[at-1] = prev[Width-1] /\ C[at-2] = prev[Width-2] /\ C[at-3] = prev[Width-3]
  <2>1. /\ at-1 \in Int /\ at-2 \in Int /\ at-3 \in Int
        /\ (Width + (at-1)) - at = Width-1 /\ (Width + (at-2)) - at = Width-2
        /\ (Width + (at-3)) - at = Width-3
        /\ ~(at-1 >= at) /\ ~(at-2 >= at) /\ ~(at-3 >= at)
        /\ at-1 >= at-3 /\ at-2 >= at-3 /\ at-3 >= at-3
    BY <1>0
  <2>2. QED
    BY <2>1, <1>1
<1>5. Cut(C, at) <=> is_incomplete(prev)
  BY <1>4 DEF Cut, is_incomplete
<1>6. ASSUME NEW b \in Bits
      PROVE  /\ in[b] = C[at+b]
             /\ Before(in, prev, b, 1) = C[(at+b)-1]
             /\ Before(in, prev, b, 2) = C[(at+b)-2]
             /\ Before(in, prev, b, 3) = C[(at+b)-3]
  <2>0. b \in Nat /\ b < Width
    BY <1>0
  <2>1. in[b] = C[at+b]
    BY <2>0, <1>1
  <2>2. ASSUME NEW k \in 1..3
        PROVE  Before(in, prev, b, k) = C[(at+b)-k]
    <3>1. CASE b >= k
      <4>1. b-k \in Bits /\ at + (b-k) = (at+b)-k /\ (at+b)-k >= at /\ (at+b)-k \in Int
        BY <3>1, <2>0, <1>0
      <4>2. in[b-k] = C[(at+b)-k]
        BY <4>1, <1>1
      <4>3. QED
        BY <4>2, <3>1 DEF Before
    <3>2. CASE ~(b >= k)
      <4>1. /\ (at+b)-k \in Int /\ ~((at+b)-k >= at) /\ (at+b)-k >= at-3
            /\ (Width + ((at+b)-k)) - at = (Width + b) - k
        BY <3>2, <2>0, <1>0
      <4>2. C[(at+b)-k] = prev[(Width + b) - k]
        BY <4>1, <1>1
      <4>3. Before(in, prev, b, k) = prev[(Width + b) - k]
        <5>1. Width + (b - k) = (Width + b) - k
          BY <2>0, <1>0
        <5>2. QED
          BY <5>1, <3>2 DEF Before
      <4>4. QED
        BY <4>2, <4>3
    <3>3. QED
      BY <3>1, <3>2
  <2>3. QED
    BY <2>1, <2>2
<1>7. BlockHasError(in, prev) <=> \E b \in Bits : Misplaced(C, at+b)
  BY <1>6, Zenon DEF BlockHasError, Misplaced
<1>8. (\E b \in Bits : Misplaced(C, at+b)) <=> \E j \in at..(at + Width)-1 : Misplaced(C, j)
  <2>1. \A j \in at..(at + Width)-1 : j - at \in Bits /\ at + (j - at) = j
    BY <1>0
  <2>2. \A b \in Bits : at + b \in at..(at + Width)-1
    BY <1>0
  <2>3. QED
    BY <2>1, <2>2, Zenon
<1>9. QED
  BY <1>3, <1>5, <1>7, <1>8 DEF C

(* The checker in front of a position: it knows of every misplaced byte     *)
(* before it, and of the last block that is not ASCII what it needs for the *)
(* next.                                                                    *)
CheckedTo(t, n, c, at) ==
    LET B == Line(t, n)
    IN  /\ c \in [error : BOOLEAN, prev_input_block : [Bits -> Byte],
                  prev_incomplete : BOOLEAN]
        /\ c.error <=> \E j \in 0..at-1 : Misplaced(B, j)
        /\ ~c.error => /\ c.prev_incomplete <=> Cut(B, at)
                       /\ c.prev_incomplete <=> is_incomplete(c.prev_input_block)
                       /\ Cut(B, at) => \A k \in 1..3 :
                                          c.prev_input_block[Width-k] = B[at-k]

LEMMA NothingCutAtStart ==
  ASSUME NEW t \in Seq(Byte), NEW n \in 0..Len(t)
  PROVE  ~Cut(Line(t, n), 0)
<1>1. 0-1 \in Int /\ 0-2 \in Int /\ 0-3 \in Int /\ 0-1 < 0 /\ 0-2 < 0 /\ 0-3 < 0
  OBVIOUS
<1>2. Line(t, n)[0-1] = 0 /\ Line(t, n)[0-2] = 0 /\ Line(t, n)[0-3] = 0
  BY <1>1, LineOfText
<1>3. QED
  BY <1>2 DEF Cut

LEMMA NewCheckerIsRight ==
  ASSUME NEW t \in Seq(Byte), NEW n \in 0..Len(t)
  PROVE  CheckedTo(t, n, NewChecker, 0)
<1>1. ~Cut(Line(t, n), 0)
  BY NothingCutAtStart
<1>2. [b \in Bits |-> 0] \in [Bits -> Byte]
  BY DEF Byte
<1>3. ~is_incomplete([b \in Bits |-> 0])
  <2>1. Width-1 \in Bits /\ Width-2 \in Bits /\ Width-3 \in Bits
    BY Wide DEF Bits
  <2>2. QED
    BY <2>1 DEF is_incomplete
<1>4. 0..0-1 = {}
  OBVIOUS
<1> DEFINE z == [b \in Bits |-> 0]
<1> HIDE DEF z
<1>5. NewChecker = [error |-> FALSE, prev_input_block |-> z, prev_incomplete |-> FALSE]
  BY DEF NewChecker, z
<1>6. z \in [Bits -> Byte] /\ ~is_incomplete(z)
  BY <1>2, <1>3 DEF z
<1>7. QED
  BY <1>1, <1>4, <1>5, <1>6 DEF CheckedTo

(* The last bytes of a block.                                               *)
LEMMA EndOfBlock ==
  ASSUME NEW B \in [Int -> Byte], NEW at \in Int, NEW in, in = [b \in Bits |-> B[at + b]]
  PROVE  /\ in \in [Bits -> Byte]
         /\ \A k \in 1..3 : in[Width-k] = B[(at+Width)-k]
         /\ is_incomplete(in) <=> Cut(B, at+Width)
<1>0. Width \in Nat /\ Width >= 4 /\ Bits = 0..Width-1
  BY Wide DEF Bits
<1>1. in \in [Bits -> Byte]
  BY <1>0
<1>2. \A k \in 1..3 : in[Width-k] = B[(at+Width)-k]
  <2>1. \A k \in 1..3 : Width-k \in Bits /\ at + (Width-k) = (at+Width)-k
    BY <1>0
  <2>2. QED
    BY <2>1
<1>3. in[Width-1] = B[(at+Width)-1] /\ in[Width-2] = B[(at+Width)-2] /\ in[Width-3] = B[(at+Width)-3]
  BY <1>2
<1>4. QED
  BY <1>1, <1>2, <1>3 DEF is_incomplete, Cut

(* A block of ASCII has a misplaced byte when a character is cut in front   *)
(* of it, and cuts none itself.                                             *)
LEMMA AsciiBlock ==
  ASSUME NEW B \in [Int -> Byte], NEW at \in Int,
         \A j \in Int : at <= j /\ j < at + Width => B[j] < 128
  PROVE  /\ (\E j \in at..(at+Width)-1 : Misplaced(B, j)) <=> Cut(B, at)
         /\ ~Cut(B, at + Width)
<1>0. Width \in Nat /\ Width >= 4 /\ at + Width \in Int
  BY Wide
<1>1. \A j \in Int : at <= j /\ j < at + Width =>
          /\ Misplaced(B, j) <=> Cut(B, j)
          /\ Cut(B, j+1) => Cut(B, j)
  BY AsciiPlace
<1>2. \A j \in Int : at + 3 <= j /\ j <= at + Width => ~Cut(B, j)
  <2> SUFFICES ASSUME NEW j \in Int, at + 3 <= j, j <= at + Width
               PROVE  ~Cut(B, j)
    OBVIOUS
  <2>1. /\ j-1 \in Int /\ at <= j-1 /\ j-1 < at+Width
        /\ j-2 \in Int /\ at <= j-2 /\ j-2 < at+Width
        /\ j-3 \in Int /\ at <= j-3 /\ j-3 < at+Width
    BY <1>0
  <2>2. B[j-1] < 128 /\ B[j-2] < 128 /\ B[j-3] < 128
    BY <2>1
  <2>3. B[j-1] \in 0..255 /\ B[j-2] \in 0..255 /\ B[j-3] \in 0..255
    BY <2>1 DEF Byte
  <2>4. QED
    BY <2>2, <2>3 DEF Cut
<1>3. \A j \in Int : at <= j /\ j < at + Width => (Cut(B, j) => Cut(B, at))
  <2> SUFFICES ASSUME NEW j \in Int, at <= j, j < at + Width, Cut(B, j)
               PROVE  Cut(B, at)
    OBVIOUS
  <2>1. j < at + 3
    BY <1>0, <1>2
  <2>2. j = at \/ j = at+1 \/ j = (at+1)+1
    BY <2>1
  <2>3. /\ at+1 \in Int /\ at <= at+1 /\ at+1 < at+Width /\ at < at+Width
    BY <1>0
  <2>4. QED
    BY <2>2, <2>3, <1>1
<1>4. at \in at..(at+Width)-1
  BY <1>0
<1>5. at + 3 <= at + Width
  BY <1>0
<1>6. QED
  BY <1>0, <1>1, <1>2, <1>3, <1>4, <1>5

LEMMA CheckerKeeps ==
  ASSUME NEW t \in Seq(Byte), NEW n \in 0..Len(t), NEW at \in Nat, NEW c,
         CheckedTo(t, n, c, at)
  PROVE  CheckedTo(t, n, check_next_input(c, PaddedBlock(t, n, at)), at + Width)
<1> DEFINE B == Line(t, n)
           in == PaddedBlock(t, n, at)
           e == c.error  p == c.prev_input_block  q == c.prev_incomplete
           d == check_next_input(c, in)
           Seen(i) == \E j \in 0..i-1 : Misplaced(B, j)
           New == \E j \in at..(at+Width)-1 : Misplaced(B, j)
<1> SUFFICES CheckedTo(t, n, d, at + Width)
  OBVIOUS
<1>0. Width \in Nat /\ Width >= 4 /\ Bits = 0..Width-1 /\ at \in Int /\ at + Width \in Int
  BY Wide DEF Bits
<1>1. B \in [Int -> Byte]
  BY LineOfText
<1>2. in = [b \in Bits |-> B[at + b]]
  <2>1. \A b \in Bits : ByteAt(t, n, at + b) = B[at + b]
    BY <1>0 DEF Line
  <2> HIDE DEF B
  <2>2. QED
    BY <2>1, Zenon DEF PaddedBlock
<1>3. /\ c \in [error : BOOLEAN, prev_input_block : [Bits -> Byte], prev_incomplete : BOOLEAN]
      /\ e <=> Seen(at)
      /\ ~e => /\ q <=> Cut(B, at)
               /\ q <=> is_incomplete(p)
               /\ Cut(B, at) => \A k \in 1..3 : p[Width-k] = B[at-k]
  BY Zenon DEF CheckedTo
<1>4. c = [error |-> e, prev_input_block |-> p, prev_incomplete |-> q]
      /\ e \in BOOLEAN /\ q \in BOOLEAN /\ p \in [Bits -> Byte]
  BY <1>3
<1>5. Seen(at + Width) <=> Seen(at) \/ New
  <2>1. \A j : j \in 0..(at + Width)-1 <=> j \in 0..at-1 \/ j \in at..(at+Width)-1
    BY <1>0
  <2>2. QED
    BY <2>1, Zenon
<1> HIDE DEF B, in, Seen, New
<1>6. is_ascii(in) <=> \A j \in Int : at <= j /\ j < at + Width => B[j] < 128
  <2>1. \A j \in Int : at <= j /\ j < at + Width => j - at \in Bits /\ at + (j - at) = j
    BY <1>0
  <2>2. \A b \in Bits : at + b \in Int /\ at <= at + b /\ at + b < at + Width
    BY <1>0
  <2>3. QED
    BY <2>1, <2>2, <1>2, Zenon DEF is_ascii
<1>7. /\ in \in [Bits -> Byte]
      /\ \A k \in 1..3 : in[Width-k] = B[(at+Width)-k]
      /\ is_incomplete(in) <=> Cut(B, at+Width)
  BY <1>0, <1>1, <1>2, EndOfBlock, Zenon
<1>8. ~e => (BlockHasError(in, p) <=> New)
  <2> SUFFICES ASSUME ~e
               PROVE  BlockHasError(in, p) <=> New
    OBVIOUS
  <2> DEFINE C == Behind(B, p, at)
  <2>1. /\ C \in [Int -> Byte]
        /\ Cut(C, at) <=> is_incomplete(p)
        /\ BlockHasError(in, p) <=> \E j \in at..(at + Width)-1 : Misplaced(C, j)
    BY <1>0, <1>1, <1>2, <1>4, BlockIsBehind, Zenon
  <2>2. \A i \in Int : C[i] = IF i >= at THEN B[i]
                              ELSE IF i >= at - 3 THEN p[(Width + i) - at] ELSE 0
    BY DEF Behind
  <2> HIDE DEF C
  <2>3. \A i \in Int : i >= at => (Misplaced(C, i) <=> Misplaced(B, i))
    <3>1. CASE ~Cut(B, at)
      <4>1. ~Cut(C, at)
        BY <3>1, <2>1, <1>3
      <4>2. \A i \in Int : i >= at => B[i] = C[i]
        BY <2>2
      <4>3. QED
        BY <3>1, <4>1, <4>2, <2>1, <1>0, <1>1, SameBehind, Zenon
    <3>2. CASE Cut(B, at)
      <4>1. \A k \in 1..3 : p[Width-k] = B[at-k]
        BY <3>2, <1>3
      <4>2. \A i \in Int : i >= at - 3 => C[i] = B[i]
        <5> SUFFICES ASSUME NEW i \in Int, i >= at - 3
                     PROVE  C[i] = B[i]
          OBVIOUS
        <5>1. CASE i >= at
          BY <5>1, <2>2
        <5>2. CASE i < at
          <6>1. at - i \in 1..3 /\ Width - (at - i) = (Width + i) - at /\ at - (at - i) = i
            BY <5>2, <1>0
          <6>2. p[(Width + i) - at] = B[i]
            BY <6>1, <4>1, Zenon
          <6>3. QED
            BY <6>2, <5>2, <2>2
        <5>3. QED
          BY <5>1, <5>2
      <4>3. ASSUME NEW i \in Int, i >= at
            PROVE  Misplaced(C, i) <=> Misplaced(B, i)
        <5>1. /\ i-1 \in Int /\ i-2 \in Int /\ i-3 \in Int
              /\ i >= at-3 /\ i-1 >= at-3 /\ i-2 >= at-3 /\ i-3 >= at-3
          BY <4>3
        <5>2. C[i] = B[i] /\ C[i-1] = B[i-1] /\ C[i-2] = B[i-2] /\ C[i-3] = B[i-3]
          BY <5>1, <4>2
        <5>3. QED
          BY <5>2, Zenon DEF Misplaced
      <4>4. QED
        BY <4>3
    <3>3. QED
      BY <3>1, <3>2
  <2>4. \A j \in at..(at + Width)-1 : j \in Int /\ j >= at
    BY <1>0
  <2>5. QED
    BY <2>1, <2>3, <2>4, Zenon DEF New
<1> HIDE DEF e, p, q
<1>9. CASE is_ascii(in)
  <2>1. d = [error |-> e \/ q, prev_input_block |-> p, prev_incomplete |-> q]
    BY <1>9, <1>4 DEF check_next_input
  <2>2. /\ New <=> Cut(B, at)
        /\ ~Cut(B, at + Width)
    BY <1>6, <1>9, <1>1, <1>0, AsciiBlock DEF New
  <2> HIDE DEF d
  <2>3. d \in [error : BOOLEAN, prev_input_block : [Bits -> Byte], prev_incomplete : BOOLEAN]
    BY <2>1, <1>4
  <2>4. d.error <=> Seen(at + Width)
    BY <2>1, <2>2, <1>3, <1>4, <1>5 DEF e, q
  <2>5. ~d.error => /\ d.prev_incomplete <=> Cut(B, at + Width)
                    /\ d.prev_incomplete <=> is_incomplete(d.prev_input_block)
    BY <2>1, <2>2, <1>3, <1>4 DEF e, p, q
  <2>6. QED
    BY <2>2, <2>3, <2>4, <2>5, Zenon DEF CheckedTo, B, Seen
<1>10. CASE ~is_ascii(in)
  <2> DEFINE r == BlockHasError(in, p)  s == is_incomplete(in)
  <2>1. d = [error |-> e \/ r, prev_input_block |-> in, prev_incomplete |-> s]
    BY <1>10 DEF check_next_input, e, p
  <2>2. r \in BOOLEAN /\ s \in BOOLEAN
    BY DEF BlockHasError, is_incomplete
  <2> HIDE DEF d, r, s
  <2>3. d \in [error : BOOLEAN, prev_input_block : [Bits -> Byte], prev_incomplete : BOOLEAN]
    BY <2>1, <2>2, <1>4, <1>7
  <2>4. d.error <=> Seen(at + Width)
    BY <2>1, <2>2, <1>3, <1>4, <1>5, <1>8 DEF e, r, p
  <2>5. ~d.error => /\ d.prev_incomplete <=> Cut(B, at + Width)
                    /\ d.prev_incomplete <=> is_incomplete(d.prev_input_block)
    BY <2>1, <2>2, <1>7 DEF s
  <2>6. \A k \in 1..3 : d.prev_input_block[Width-k] = B[(at+Width)-k]
    BY <2>1, <1>7
  <2>7. QED
    BY <2>3, <2>4, <2>5, <2>6, Zenon DEF CheckedTo, B, Seen
<1>11. QED
  BY <1>9, <1>10

(* The verdict of the checker behind the text.                              *)
LEMMA Verdict ==
  ASSUME NEW t \in Seq(Byte), NEW n \in 0..Len(t), NEW at \in Nat, n <= at, NEW c,
         CheckedTo(t, n, c, at)
  PROVE  /\ check_eof(c).error \in BOOLEAN
         /\ check_eof(c).error <=> ~ValidUtf8(SubSeq(t, 1, n))
<1> DEFINE B == Line(t, n)
           e == c.error  q == c.prev_incomplete
<1>1. /\ c \in [error : BOOLEAN, prev_input_block : [Bits -> Byte], prev_incomplete : BOOLEAN]
      /\ e <=> \E j \in 0..at-1 : Misplaced(B, j)
      /\ ~e => (q <=> Cut(B, at))
  BY Zenon DEF CheckedTo
<1>2. e \in BOOLEAN /\ q \in BOOLEAN /\ check_eof(c).error = (e \/ q)
  BY <1>1 DEF check_eof
<1> HIDE DEF B, e, q
<1>3. Good(B, 0, at) <=> ~e /\ ~q
  BY <1>1, <1>2 DEF Good
<1>4. Good(B, 0, at) <=> Good(B, 0, n)
  BY GoodBeyond DEF B
<1>5. Good(B, 0, n) <=> ValidUtf8(SubSeq(t, 1, n))
  <2>1. /\ SubSeq(t, 1, n) \in Seq(Byte) /\ Len(SubSeq(t, 1, n)) = n
        /\ Line(SubSeq(t, 1, n), n) = Line(t, n)
    BY LineOfPrefix
  <2>2. ValidUtf8(SubSeq(t, 1, n))
          <=> Good(Line(SubSeq(t, 1, n), Len(SubSeq(t, 1, n))), 0, Len(SubSeq(t, 1, n)))
    BY <2>1, ValidIsGood, Zenon
  <2>3. QED
    BY <2>1, <2>2, Zenon DEF B
<1>6. QED
  BY <1>2, <1>3, <1>4, <1>5

LEMMA ClassesAreASequence ==
  ASSUME NEW t \in Seq(Byte)
  PROVE  Len(Classes(t)) = Len(t) /\ DOMAIN Classes(t) = 1..Len(t)
<1>1. DOMAIN t = 1..Len(t) /\ Len(t) \in Nat
  OBVIOUS
<1>2. DOMAIN Classes(t) = DOMAIN t
  BY Zenon DEF Classes
<1>3. Len(Classes(t)) = Len(t)
  BY <1>1 DEF Classes
<1>4. QED
  BY <1>1, <1>2, <1>3

LEMMA WindowLists ==
  ASSUME NEW t \in Seq(Byte), NEW n \in 0..Len(t), NEW i \in 0..n,
         Classification, \A j \in ForeignBytes(t) : i <= j
  PROVE  Lists(Structurals(Window(Classes(t), 0, i)), Starts(t, n, i))
<1> DEFINE c == Classes(t)
           w == Window(c, 0, i)
           T == {j \in 0..i-1 : StructuralStart(c, j)}
<1>0. i \in Nat /\ n \in Nat /\ Len(t) \in Nat /\ i \in 0..Len(t) /\ i <= n
  OBVIOUS
<1>1. c = [k \in 1..Len(t) |-> c[k]]
  BY <1>0 DEF Classes
<1> HIDE DEF c
<1>2. Len(w) = i /\ \A j \in 0..i-1 : StructuralStart(w, j) <=> StructuralStart(c, j)
  BY <1>0, <1>1, WindowOfClasses, Zenon
<1> HIDE DEF w
<1>3. Lists(Structurals(w), T)
  <2>1. Lists(Structurals(w), {j \in 0..i-1 : StructuralStart(w, j)})
    BY <1>0, <1>2, StructuralsList
  <2>2. {j \in 0..i-1 : StructuralStart(w, j)} = T
    BY <1>2
  <2>3. QED
    BY <2>1, <2>2, Zenon
<1>4. Starts(t, n, i) = T
  <2>1. ASSUME NEW j \in 0..i-1
        PROVE  StartAt(t, n, j) <=> StructuralStart(c, j)
    <3>1. j \in Nat /\ j < n /\ j < i
      BY <1>0
    <3>2. \A x \in ForeignBytes(t) : j < x
      <4>1. \A x \in ForeignBytes(t) : x \in Int
        BY <1>0 DEF ForeignBytes
      <4>2. QED
        BY <3>1, <4>1, <1>0
    <3>3. QED
      BY <3>1, <3>2, StartsByClass DEF c
  <2>2. QED
    BY <2>1 DEF Starts
<1>5. QED
  BY <1>3, <1>4, Zenon DEF w, c

LEMMA IndexesOfWindow ==
  ASSUME NEW t \in Seq(Byte), NEW n \in 0..Len(t), NEW i \in 0..n,
         Classification, \A j \in ForeignBytes(t) : i <= j,
         NEW s, Lists(s, Starts(t, n, i))
  PROVE  s = Structurals(Window(Classes(t), 0, i))
<1>1. Lists(Structurals(Window(Classes(t), 0, i)), Starts(t, n, i))
  BY WindowLists
<1>2. Starts(t, n, i) \in SUBSET Nat
  BY DEF Starts
<1>3. QED
  BY <1>1, <1>2, ListsUnique

(* Behind the text nothing starts.                                          *)
LEMMA StartsEnd ==
  ASSUME NEW t \in Seq(Byte), NEW n \in 0..Len(t), NEW at \in Nat, n <= at, Classification
  PROVE  Starts(t, n, at) = Starts(t, n, n)
<1>0. n \in Nat
  OBVIOUS
<1>1. ASSUME NEW j \in Nat, n <= j
      PROVE  ~StartAt(t, n, j)
  <2>1. ByteAt(t, n, j) = Space
    BY <1>1, <1>0 DEF ByteAt
  <2>2. Space \notin OperatorBytes /\ Space \notin LikeOperators /\ Space \in WhitespaceBytes
    BY DEF Classification, Space, OperatorBytes, WhitespaceBytes
  <2>3. QED
    BY <2>1, <2>2 DEF StartAt, Operator, ScalarByte
<1>2. \A j \in 0..at-1 : j \in Nat /\ (n <= j \/ j \in 0..n-1)
  BY <1>0
<1>3. \A j \in 0..n-1 : j \in 0..at-1
  BY <1>0
<1>4. QED
  BY <1>1, <1>2, <1>3, Zenon DEF Starts

(* Whatever the classes of control characters, a text has a token if it is  *)
(* not all whitespace.                                                      *)
LEMMA NothingFound ==
  ASSUME NEW t \in Seq(Byte), Classification
  PROVE  Starts(t, Len(t), Len(t)) = {} <=> Structurals(Classes(t)) = <<>>
<1> DEFINE n == Len(t)
           c == Classes(t)
           Solid == {i \in 0..n-1 : At(t, i) \notin WhitespaceBytes}
<1>0. n \in Nat /\ n \in 0..n
  OBVIOUS
<1>1. Len(c) = n
  BY ClassesAreASequence
<1>2. Structurals(c) = <<>> <=> \A j \in 0..n-1 : ~StructuralStart(c, j)
  <2>1. Lists(Structurals(c), {j \in 0..n-1 : StructuralStart(c, j)})
    BY <1>0, <1>1, StructuralsList
  <2> DEFINE s == Structurals(c)
  <2>2. s \in Seq(Nat) /\ DOMAIN s = 1..Len(s) /\ Len(s) \in Nat
    BY <2>1 DEF Lists
  <2> HIDE DEF s
  <2>3. s = <<>> <=> DOMAIN s = {}
    <3>1. DOMAIN s = {} => Len(s) = 0
      BY <2>2
    <3>2. Len(s) = 0 => s = <<>>
      BY <2>2
    <3>3. Len(<<>>) = 0 /\ 1..0 = {}
      OBVIOUS
    <3>4. QED
      BY <3>1, <3>2, <3>3, <2>2
  <2>4. DOMAIN s = {} <=> {j \in 0..n-1 : StructuralStart(c, j)} = {}
    BY <2>1 DEF Lists, s
  <2>5. QED
    BY <2>3, <2>4 DEF s
<1>3. ASSUME NEW i \in 0..n-1
      PROVE  /\ ByteAt(t, n, i) = At(t, i)
             /\ StrAt(t, n, i) <=> StringTail(c, i)
             /\ At(c, i) \in Operators <=> At(t, i) \in OperatorBytes
             /\ At(c, i) = Blank <=> At(t, i) \in WhitespaceBytes
             /\ At(c, i) = "q" => At(t, i) = Quote
  BY <1>0, ClassOfByte DEF ByteAt, StrAt
<1>4. WhitespaceBytes \cap OperatorBytes = {} /\ WhitespaceBytes \cap LikeOperators = {}
      /\ Quote \notin WhitespaceBytes
  BY DEF Classification, Space, OperatorBytes, WhitespaceBytes, Quote
<1>5. CASE Solid = {}
  <2>1. \A i \in 0..n-1 : At(t, i) \in WhitespaceBytes
    BY <1>5
  <2>2. \A i \in 0..n-1 : ~StructuralStart(c, i)
    <3>1. \A i \in 0..n-1 : At(c, i) = Blank /\ At(c, i) \notin Operators
      BY <2>1, <1>3, <1>4
    <3>2. QED
      BY <3>1 DEF StructuralStart, Scalar
  <2>3. \A i \in 0..n-1 : ~StartAt(t, n, i)
    <3>1. \A i \in 0..n-1 : ByteAt(t, n, i) \in WhitespaceBytes
      BY <2>1, <1>3
    <3>2. QED
      BY <3>1, <1>4 DEF StartAt, Operator, ScalarByte
  <2>4. Starts(t, n, n) = {}
    BY <2>3 DEF Starts
  <2>5. QED
    BY <2>2, <2>4, <1>2
<1>6. CASE Solid # {}
  <2>1. PICK i \in Solid : \A j \in Solid : i <= j
    <3>1. Solid \in SUBSET Nat
      BY <1>0
    <3> HIDE DEF Solid
    <3>2. QED
      BY <3>1, <1>6, Smallest
  <2>2. i \in 0..n-1 /\ At(t, i) \notin WhitespaceBytes
    BY <2>1
  <2>3. \A j \in 0..i-1 : j \in 0..n-1 /\ At(t, j) \in WhitespaceBytes
    BY <2>1, <2>2, <1>0
  <2>4. ~StringTail(c, i)
    <3>1. \A j \in 0..i-1 : At(c, j) # "q"
      BY <2>3, <1>3, <1>4
    <3>2. {j \in 0..i-1 : At(c, j) = "q"} = {}
      BY <3>1
    <3>3. QuotesBefore(c, i) = 0
      BY <3>2, FS_EmptySet, Zenon DEF QuotesBefore
    <3>4. QED
      BY <3>3 DEF StringTail
  <2>5. i > 0 => i-1 \in 0..i-1 /\ i-1 \in 0..n-1
    BY <2>2
  <2>6. ~FollowsScalar(c, i)
    <3>1. i > 0 => At(c, i-1) = Blank
      BY <2>3, <2>5, <1>3
    <3>2. QED
      BY <3>1 DEF FollowsScalar, Scalar
  <2>7. ~ScalAt(t, n, i)
    <3>1. i > 0 => ByteAt(t, n, i-1) \in WhitespaceBytes
      BY <2>3, <2>5, <1>3
    <3>2. QED
      BY <3>1 DEF ScalAt, ScalarByte
  <2>8. StructuralStart(c, i)
    BY <2>2, <2>4, <2>6, <1>3 DEF StructuralStart, Scalar
  <2>9. StartAt(t, n, i)
    BY <2>2, <2>4, <2>7, <1>3 DEF StartAt, Operator, ScalarByte
  <2>10. Starts(t, n, n) # {}
    BY <2>2, <2>9 DEF Starts
  <2>11. QED
    BY <2>2, <2>8, <2>10, <1>2
<1>7. QED
  BY <1>5, <1>6

(* A control character in a string.                                         *)
LEMMA ControlsByClass ==
  ASSUME NEW t \in Seq(Byte), NEW n \in 0..Len(t), NEW at \in Nat, n <= at
  PROVE  /\ Controls(t, n, at) => ControlInString(t)
         /\ n = Len(t) /\ ControlInString(t) => Controls(t, n, at)
<1>0. n \in Nat /\ Len(t) \in Nat /\ n <= Len(t)
  OBVIOUS
<1>1. ASSUME NEW j \in Nat, j < n
      PROVE  /\ j \in 0..Len(t)-1 /\ ByteAt(t, n, j) = At(t, j)
             /\ At(t, j) < Space =>
                  (StrAt(t, n, j+1) <=> StringTail(Classes(t), j) /\ At(Classes(t), j) # "q")
  <2>1. j \in 0..Len(t)-1 /\ ByteAt(t, n, j) = At(t, j) /\ j <= n
    BY <1>0, <1>1 DEF ByteAt
  <2>2. At(t, j) < Space => ~QuoteAt(t, n, j) /\ At(Classes(t), j) # "q"
    BY <2>1, ClassOfByte DEF QuoteAt, Quote, Space
  <2>3. StrAt(t, n, j+1) <=> ~(StrAt(t, n, j) <=> QuoteAt(t, n, j))
    BY OffsetRules, Zenon
  <2>4. StrAt(t, n, j) <=> StringTail(Classes(t), j)
    BY <2>1 DEF StrAt
  <2>5. QED
    BY <2>1, <2>2, <2>3, <2>4
<1>2. ASSUME Controls(t, n, at)
      PROVE  ControlInString(t)
  <2>1. PICK j \in 0..at-1 : ByteAt(t, n, j) \in 0..31 /\ StrAt(t, n, j+1)
    BY <1>2 DEF Controls
  <2>2. j \in Nat /\ j < n
    BY <2>1, <1>0 DEF ByteAt, Space
  <2>3. At(t, j) < Space
    <3>1. ByteAt(t, n, j) = At(t, j)
      BY <2>2, <1>1, Zenon
    <3>2. \A x \in 0..31 : x < Space
      BY DEF Space
    <3>3. QED
      BY <3>1, <3>2, <2>1, Zenon
  <2>4. j \in StringContents(t)
    BY <2>1, <2>2, <2>3, <1>1 DEF StringContents
  <2>5. QED
    BY <2>3, <2>4 DEF ControlInString
<1>3. ASSUME n = Len(t), ControlInString(t)
      PROVE  Controls(t, n, at)
  <2>1. PICK j \in StringContents(t) : At(t, j) < Space
    BY <1>3 DEF ControlInString
  <2>2. j \in 0..Len(t)-1 /\ StringTail(Classes(t), j) /\ At(Classes(t), j) # "q"
    BY <2>1 DEF StringContents
  <2>3. j \in Nat /\ j < n /\ j \in 0..at-1
    BY <2>2, <1>3, <1>0
  <2>4. StrAt(t, n, j+1) /\ ByteAt(t, n, j) = At(t, j)
    BY <2>1, <2>2, <2>3, <1>1
  <2>5. At(t, j) \in 0..31
    <3>1. At(t, j) \in Byte
      BY <2>2, ClassOfByte, Zenon
    <3>2. \A x \in Byte : x < Space => x \in 0..31
      BY DEF Byte, Space
    <3>3. QED
      BY <3>1, <3>2, <2>1, Zenon
  <2>6. QED
    BY <2>3, <2>4, <2>5 DEF Controls
<1>4. QED
  BY <1>2, <1>3

(* The text that is left when its last character is cut off.                *)
LEMMA TrimmedTexts ==
  ASSUME NEW t \in Seq(Byte), t # <<>>, Len(t) - trim_partial_utf8(t) <= 1
  PROVE  Trimmed(Classes(t), 0, Len(t)) = trim_partial_utf8(t)
<1> DEFINE n == Len(t)
<1>0. n \in Nat /\ n > 0 /\ n-1 \in 0..n-1 /\ (0+n)-1 = n-1
  <2>1. n \in Nat /\ n # 0
    OBVIOUS
  <2>2. QED
    BY <2>1
<1>1. At(Classes(t), n-1) = "u" <=> At(t, n-1) >= 192
  BY <1>0, ClassOfByte, Zenon
<1>2. Trimmed(Classes(t), 0, n) = IF At(t, n-1) >= 192 THEN n-1 ELSE n
  <2>1. Trimmed(Classes(t), 0, n) = IF At(Classes(t), 0 + n - 1) = "u" THEN n-1 ELSE n
    BY <1>0 DEF Trimmed
  <2>2. 0 + n - 1 = n - 1
    BY <1>0
  <2>3. QED
    BY <2>1, <2>2, <1>1
<1>3. trim_partial_utf8(t) = IF At(t, n-1) >= 192 THEN n-1
                             ELSE IF n >= 2 /\ At(t, n-2) >= 224 THEN n-2
                             ELSE IF n >= 3 /\ At(t, n-3) >= 240 THEN n-3 ELSE n
  BY <1>0 DEF trim_partial_utf8
<1>4. QED
  BY <1>0, <1>2, <1>3

(* finish() of a whole document.                                            *)
LEMMA FinishOfDocument ==
  ASSUME text \in Seq(Byte), text # <<>>, task = "regular", len = Len(text), Classification,
         NEW found, Lists(found, Starts(text, len, len)),
         NEW unclosed \in BOOLEAN, unclosed <=> UnclosedString(Classes(text)),
         NEW unescaped \in BOOLEAN, unescaped <=> ControlInString(text),
         NEW end, end.error \in BOOLEAN, end.error <=> ~ValidUtf8(text)
  PROVE  LET a == Finish(found, unclosed, unescaped, end)
         IN  /\ a.err = TheError(text)
             /\ a.err = "SUCCESS" => a.idx = found \o <<len, len, 0>>
<1> SUFFICES ASSUME NEW a, a = Finish(found, unclosed, unescaped, end)
             PROVE  /\ a.err = TheError(text)
                    /\ a.err = "SUCCESS" => a.idx = found \o <<len, len, 0>>
  BY Zenon
<1> DEFINE n == Len(found)
           padded == found \o <<len, len, 0>>
           utf8 == IF end.error THEN "UTF8_ERROR" ELSE "SUCCESS"
           Leave(err, m, i) == [err |-> err, n |-> m, idx |-> i]
           s == Structurals(Classes(text))
<1>0. len \in Nat /\ len \in 0..Len(text)
  OBVIOUS
<1>1. found \in Seq(Nat) /\ n \in Nat /\ DOMAIN found = 1..n
  BY DEF Lists
<1>2. n = 0 <=> s = <<>>
  <2>1. Starts(text, len, len) = {} <=> s = <<>>
    BY NothingFound
  <2>2. n = 0 => Starts(text, len, len) = {}
    BY <1>1 DEF Lists
  <2>3. n # 0 => Starts(text, len, len) # {}
    <3>1. n # 0 => 1 \in DOMAIN found
      BY <1>1
    <3>2. QED
      BY <3>1 DEF Lists
  <2>4. QED
    BY <2>1, <2>2, <2>3
<1>3. n # 0 => ~(found[n] > len)
  <2>1. n # 0 => n \in DOMAIN found
    BY <1>1
  <2>2. n # 0 => found[n] \in Starts(text, len, len)
    BY <2>1 DEF Lists
  <2>3. \A x \in Starts(text, len, len) : ~(x > len)
    BY <1>0 DEF Starts
  <2>4. QED
    BY <2>2, <2>3
<1> HIDE DEF padded, s, n, utf8
<1>4. a = IF unclosed THEN NoIndexes("UNCLOSED_STRING")
          ELSE IF unescaped THEN NoIndexes("UNESCAPED_CHARS")
          ELSE IF n = 0 THEN Leave("EMPTY", 0, padded)
          ELSE IF found[n] > len THEN Leave("UNEXPECTED_ERROR", n, padded)
          ELSE Leave(utf8, n, padded)
  <2> DEFINE kept     == IF unclosed THEN n - 1 ELSE n
             complete == FindNextDocumentIndex(Classes(text), padded, kept)
             final    == [padded EXCEPT ![complete + 2] = padded[complete + 1],
                                        ![complete + 1] = len]
  <2>1. a = IF task = "regular" /\ unclosed THEN NoIndexes("UNCLOSED_STRING")
            ELSE IF unescaped THEN NoIndexes("UNESCAPED_CHARS")
            ELSE IF n = 0 THEN Leave("EMPTY", 0, padded)
            ELSE IF found[n] > len THEN Leave("UNEXPECTED_ERROR", n, padded)
            ELSE CASE task = "regular" -> Leave(utf8, n, padded)
                   [] task = "streaming_final" ->
                        Leave(IF complete = 0 THEN "EMPTY" ELSE utf8, complete, final)
                   [] task = "streaming_partial" ->
                        IF complete > 0 THEN Leave(utf8, complete, padded)
                        ELSE IF kept = 0 \/ padded[1] = 0
                        THEN Leave("CAPACITY", kept, padded)
                        ELSE Leave("EMPTY", 0, padded)
    BY Zenon DEF Finish, n, padded, utf8
  <2> HIDE DEF kept, complete, final
  <2>2. QED
    BY <2>1
<1>5. \A err, m, i : Leave(err, m, i).err = err /\ Leave(err, m, i).idx = i
  OBVIOUS
<1>6. NoIndexes("UNCLOSED_STRING").err = "UNCLOSED_STRING"
      /\ NoIndexes("UNESCAPED_CHARS").err = "UNESCAPED_CHARS"
  BY DEF NoIndexes
<1>7. TheError(text) = IF UnclosedString(Classes(text)) THEN "UNCLOSED_STRING"
                       ELSE IF ControlInString(text) THEN "UNESCAPED_CHARS"
                       ELSE IF s = <<>> THEN "EMPTY"
                       ELSE IF ValidUtf8(text) THEN "SUCCESS" ELSE "UTF8_ERROR"
  <2>1. CASE UnclosedString(Classes(text))
    BY <2>1, Zenon DEF TheError
  <2>2. CASE ~UnclosedString(Classes(text)) /\ ControlInString(text)
    BY <2>2, Zenon DEF TheError
  <2>3. CASE ~UnclosedString(Classes(text)) /\ ~ControlInString(text)
    BY <2>3, Zenon DEF TheError, s
  <2>4. QED
    BY <2>1, <2>2, <2>3
<1> HIDE DEF Leave
<1>8. a.err = TheError(text)
  <2>1. a.err = IF unclosed THEN "UNCLOSED_STRING" ELSE IF unescaped THEN "UNESCAPED_CHARS"
                ELSE IF n = 0 THEN "EMPTY" ELSE utf8
    BY <1>3, <1>4, <1>5, <1>6
  <2>2. utf8 = IF ValidUtf8(text) THEN "SUCCESS" ELSE "UTF8_ERROR"
    BY DEF utf8
  <2>3. QED
    BY <2>1, <2>2, <1>2, <1>7
<1>9. a.err = "SUCCESS" => a.idx = padded
  <2>1. "UNCLOSED_STRING" # "SUCCESS" /\ "UNESCAPED_CHARS" # "SUCCESS"
    OBVIOUS
  <2>2. a.err = "SUCCESS" => ~unclosed /\ ~unescaped
    BY <2>1, <1>4, <1>6, Zenon
  <2>3. ~unclosed /\ ~unescaped => a.idx = padded
    BY <1>4, <1>5
  <2>4. QED
    BY <2>2, <2>3
<1>10. QED
  BY <1>8, <1>9, Zenon DEF padded

LEMMA WindowOfText ==
  ASSUME NEW t \in Seq(Byte), NEW n \in 0..Len(t)
  PROVE  LET w == Window(Classes(t), 0, n)
         IN  /\ Len(w) = n
             /\ \A j \in 0..n-1 : At(w, j) = At(Classes(t), j)
             /\ StringTail(w, n) <=> StringTail(Classes(t), n)
<1> DEFINE c == Classes(t)
           w == Window(c, 0, n)
<1>0. Len(t) \in Nat /\ n \in 0..n
  OBVIOUS
<1>1. c = [k \in 1..Len(t) |-> c[k]]
  BY <1>0 DEF Classes
<1> HIDE DEF c
<1>2. /\ Len(w) = n
      /\ \A j \in 0..n-1 : At(w, j) = At(c, j)
      /\ \A j \in 0..n : StringTail(w, j) <=> StringTail(c, j)
  BY <1>0, <1>1, WindowOfClasses, Zenon
<1> HIDE DEF w
<1>3. Len(w) = n /\ (\A j \in 0..n-1 : At(w, j) = At(c, j))
      /\ (StringTail(w, n) <=> StringTail(c, n))
  BY <1>0, <1>2, Zenon
<1>4. QED
  BY <1>3, Zenon DEF c, w

(* What finish() leaves of a window of a stream in UTF-8.                   *)
WindowLeft(c, m, mode, found, unclosed) ==
    LET n      == Len(found)
        padded == found \o <<m, m, 0>>
        kept   == IF unclosed THEN n - 1 ELSE n
        cut    == FindNextDocumentIndex(c, padded, kept)
        final  == [padded EXCEPT ![cut + 2] = padded[cut + 1], ![cut + 1] = m]
        Leave(err, k, i) == [err |-> err, n |-> k, idx |-> i]
    IN  IF n = 0 THEN Leave("EMPTY", 0, padded)
        ELSE IF mode = "streaming_final"
             THEN Leave(IF cut = 0 THEN "EMPTY" ELSE "SUCCESS", cut, final)
        ELSE IF cut > 0 THEN Leave("SUCCESS", cut, padded)
        ELSE IF kept = 0 \/ padded[1] = 0 THEN Leave("CAPACITY", kept, padded)
        ELSE Leave("EMPTY", 0, padded)

(* What a kernel's finish() leaves is what Stage1 does. *)
LeavesAs(a, r) == a.err = r.err /\ a.n = r.parser.n /\ a.idx = r.parser.idx

LEMMA WindowFinished ==
  ASSUME NEW t \in Seq(Byte), NEW m \in 1..Len(t), Trimmed(Classes(t), 0, Len(t)) = m,
         NEW mode \in Streaming, NEW found \in Seq(Nat),
         found = Structurals(Window(Classes(t), 0, m)),
         \A k \in 1..Len(found) : found[k] \in 0..m-1,
         NEW unclosed \in BOOLEAN, unclosed <=> StringTail(Classes(t), m)
  PROVE  LeavesAs(WindowLeft(Classes(t), m, mode, found, unclosed),
                  Stage1(NewParser(0), Classes(t), 0, Len(t), mode))
<1> SUFFICES ASSUME NEW a, a = WindowLeft(Classes(t), m, mode, found, unclosed),
                    NEW r, r = Stage1(NewParser(0), Classes(t), 0, Len(t), mode)
             PROVE  a.err = r.err /\ a.n = r.parser.n /\ a.idx = r.parser.idx
  BY Zenon DEF LeavesAs
<1> DEFINE c == Classes(t)
           w == Window(c, 0, m)
           n == Len(found)
           padded == found \o <<m, m, 0>>
           kept == IF unclosed THEN n - 1 ELSE n
           cut == FindNextDocumentIndex(c, padded, kept)
           final == [padded EXCEPT ![cut + 2] = padded[cut + 1], ![cut + 1] = m]
           Leave(err, k, i) == [err |-> err, n |-> k, idx |-> i]
           Left(err, i, k) == [err |-> err, parser |-> Indexed(0, Len(t), i, k)]
<1>0. m \in Nat /\ m \in 0..Len(t) /\ Len(t) \in Nat /\ m > 0
  OBVIOUS
<1>1. n \in Nat /\ DOMAIN found = 1..n
  OBVIOUS
<1>2. \A k \in 1..n : found[k] \in 0..m-1
  OBVIOUS
<1>3. Trimmed(c, 0, Len(t)) = m
  OBVIOUS
<1>4. found = Structurals(w)
  OBVIOUS
<1>5. /\ Len(w) = m /\ \A j \in 0..m-1 : At(w, j) = At(c, j)
      /\ StringTail(w, m) <=> StringTail(c, m)
  BY <1>0, WindowOfText, Zenon
<1>6. unclosed <=> UnclosedString(w)
  BY <1>5 DEF UnclosedString
<1>7. padded \in Seq(Nat) /\ \A k \in 1..n : padded[k] = found[k]
  <2> DEFINE more == <<m, m, 0>>
  <2>1. more \in Seq(Nat)
    BY <1>0
  <2> HIDE DEF more
  <2>2. found \o more \in Seq(Nat) /\ \A k \in 1..Len(found) : (found \o more)[k] = found[k]
    BY <2>1, <1>1, ConcatProperties
  <2>3. QED
    BY <2>2 DEF more
<1>8. n # 0 => FindNextDocumentIndex(w, padded, kept) = cut
  <2> SUFFICES ASSUME n # 0
               PROVE  FindNextDocumentIndex(w, padded, kept) = cut
    OBVIOUS
  <2>1. kept \in Nat /\ kept <= n
    BY <1>1
  <2>2. \A k \in 1..kept : padded[k] \in 0..m-1
    <3>1. \A k \in 1..kept : k \in 1..n
      BY <2>1, <1>1
    <3> HIDE DEF padded, kept
    <3>2. QED
      BY <3>1, <1>2, <1>7, Zenon
  <2>3. \A k \in 1..kept : At(w, padded[k]) = At(c, padded[k])
    BY <2>2, <1>5, Zenon
  <2> HIDE DEF kept, padded, w, c
  <2>4. FindNextDocumentIndex(w, padded, kept) = FindNextDocumentIndex(c, padded, kept)
    BY <2>1, <2>3, SameTokensSameCut
  <2>5. QED
    BY <2>4
<1>9. n = 0 <=> found = <<>>
  BY <1>1
<1>10. a = IF n = 0 THEN Leave("EMPTY", 0, padded)
           ELSE IF mode = "streaming_final"
                THEN Leave(IF cut = 0 THEN "EMPTY" ELSE "SUCCESS", cut, final)
           ELSE IF cut > 0 THEN Leave("SUCCESS", cut, padded)
           ELSE IF kept = 0 \/ padded[1] = 0 THEN Leave("CAPACITY", kept, padded)
           ELSE Leave("EMPTY", 0, padded)
  BY Zenon DEF WindowLeft
<1>11. r = IF n = 0 THEN Left("EMPTY", padded, 0)
           ELSE IF mode = "streaming_final"
                THEN Left(IF cut = 0 THEN "EMPTY" ELSE "SUCCESS", final, cut)
           ELSE IF cut > 0 THEN Left("SUCCESS", padded, cut)
           ELSE IF kept = 0 \/ padded[1] = 0 THEN Left("CAPACITY", padded, kept)
           ELSE Left("EMPTY", padded, 0)
  <2> DEFINE keep == IF UnclosedString(w) THEN Len(found) - 1 ELSE Len(found)
             other == FindNextDocumentIndex(w, padded, keep)
             last == [padded EXCEPT ![other + 2] = padded[other + 1], ![other + 1] = m]
             old == [err |-> "UTF8_ERROR",
                     parser |-> [NewParser(0) EXCEPT !.buf = 0, !.len = Len(t)]]
  <2>1. r = FinishWindow(NewParser(0), c, 0, Len(t), mode, found)
    <3>1. r = FinishWindow(NewParser(0), c, 0, Len(t), mode,
                   Structurals(Window(c, 0, Trimmed(c, 0, Len(t)))))
      BY Zenon DEF Stage1
    <3>2. QED
      BY <3>1, <1>3, <1>4
  <2>2. r = CASE m = 0 -> old
              [] m > 0 /\ found = <<>> -> Left("EMPTY", padded, 0)
              [] found # <<>> /\ mode = "streaming_final" ->
                   Left(IF other = 0 THEN "EMPTY" ELSE "SUCCESS", last, other)
              [] found # <<>> /\ mode = "streaming_partial" ->
                   IF other > 0 THEN Left("SUCCESS", padded, other)
                   ELSE IF keep = 0 \/ padded[1] = 0 THEN Left("CAPACITY", padded, keep)
                   ELSE Left("EMPTY", padded, 0)
    <3> DEFINE trim == Trimmed(c, 0, Len(t))
    <3>1. trim = m
      BY <1>3
    <3> DEFINE v == Window(c, 0, trim)
               p == found \o <<trim, trim, 0>>
               k == IF UnclosedString(v) THEN Len(found) - 1 ELSE Len(found)
               g == FindNextDocumentIndex(v, p, k)
               f == [p EXCEPT ![g + 2] = p[g + 1], ![g + 1] = trim]
    <3>2. r = CASE trim = 0 -> old
                [] trim > 0 /\ found = <<>> -> Left("EMPTY", p, 0)
                [] found # <<>> /\ mode = "streaming_final" ->
                     Left(IF g = 0 THEN "EMPTY" ELSE "SUCCESS", f, g)
                [] found # <<>> /\ mode = "streaming_partial" ->
                     IF g > 0 THEN Left("SUCCESS", p, g)
                     ELSE IF k = 0 \/ p[1] = 0 THEN Left("CAPACITY", p, k)
                     ELSE Left("EMPTY", p, 0)
      BY <2>1, Zenon DEF FinishWindow
    <3> HIDE DEF trim
    <3>3. v = w /\ p = padded
      BY <3>1
    <3> HIDE DEF v, p, w, padded
    <3>4. k = keep
      BY <3>3
    <3> HIDE DEF k, keep
    <3>5. g = other
      BY <3>3, <3>4
    <3> HIDE DEF g, other
    <3>6. f = last
      BY <3>1, <3>3, <3>5
    <3> HIDE DEF f, last, old, Left, c, n
    <3>7. QED
      BY <3>1, <3>2, <3>3, <3>4, <3>5, <3>6, Zenon
  <2>3. keep = kept
    BY <1>6
  <2>4. n # 0 => other = cut /\ last = final
    <3>1. n # 0 => other = cut
      BY <2>3, <1>8
    <3> HIDE DEF other, cut
    <3>2. QED
      BY <3>1, Zenon
  <2>5. mode \in {"streaming_partial", "streaming_final"} /\ "streaming_partial" # "streaming_final"
    BY DEF Streaming
  <2> HIDE DEF keep, kept, other, cut, last, final, padded, n, Left, old, w, c
  <2>6. QED
    BY <2>2, <2>3, <2>4, <2>5, <1>0, <1>9
<1>12. \A err, k, i : /\ Leave(err, k, i).err = Left(err, i, k).err
                      /\ Leave(err, k, i).n = Left(err, i, k).parser.n
                      /\ Leave(err, k, i).idx = Left(err, i, k).parser.idx
  BY DEF Indexed
<1> HIDE DEF kept, cut, final, padded, n, Leave, Left
<1>13. CASE n = 0
  BY <1>13, <1>10, <1>11, <1>12
<1>14. CASE n # 0 /\ mode = "streaming_final"
  BY <1>14, <1>10, <1>11, <1>12
<1>15. CASE n # 0 /\ mode # "streaming_final"
  BY <1>15, <1>10, <1>11, <1>12
<1>16. QED
  BY <1>13, <1>14, <1>15

(* finish() of a window of a stream.                                        *)
LEMMA FinishOfWindow ==
  ASSUME text \in Seq(Byte), text # <<>>, task \in Streaming, Classification,
         len = trim_partial_utf8(text), len # 0, Len(text) - len <= 1,
         ForeignBytes(text) = {},
         NEW found, Lists(found, Starts(text, len, len)),
         NEW unclosed \in BOOLEAN, unclosed <=> StringTail(Classes(text), len),
         NEW end, end.error = FALSE
  PROVE  LET a == Finish(found, unclosed, FALSE, end)
             r == Stage1(NewParser(0), Classes(text), 0, Len(text), task)
         IN  a.err = r.err /\ a.n = r.parser.n /\ a.idx = r.parser.idx
<1> SUFFICES ASSUME NEW a, a = Finish(found, unclosed, FALSE, end),
                    NEW r, r = Stage1(NewParser(0), Classes(text), 0, Len(text), task)
             PROVE  a.err = r.err /\ a.n = r.parser.n /\ a.idx = r.parser.idx
  BY Zenon
<1> DEFINE c == Classes(text)
           n == Len(found)
           padded == found \o <<len, len, 0>>
           kept == IF unclosed THEN n - 1 ELSE n
           cut == FindNextDocumentIndex(c, padded, kept)
           final == [padded EXCEPT ![cut + 2] = padded[cut + 1], ![cut + 1] = len]
           Leave(err, m, i) == [err |-> err, n |-> m, idx |-> i]
<1>0. len \in Nat /\ len \in 0..Len(text) /\ Len(text) \in Nat /\ len > 0
  BY TrimStays
<1>1. found \in Seq(Nat) /\ n \in Nat /\ DOMAIN found = 1..n
  BY DEF Lists
<1>2. \A k \in 1..n : found[k] \in 0..len-1
  <2>1. \A k \in 1..n : found[k] \in Starts(text, len, len)
    BY <1>1, Zenon DEF Lists
  <2>2. QED
    BY <2>1 DEF Starts
<1>3. Trimmed(c, 0, Len(text)) = len
  BY TrimmedTexts
<1>4. found = Structurals(Window(Classes(text), 0, len))
  <2>1. \A j \in ForeignBytes(text) : len <= j
    OBVIOUS
  <2>2. len \in 0..len
    BY <1>0
  <2>3. QED
    BY <2>1, <2>2, <1>0, IndexesOfWindow
<1>5. n # 0 => ~(found[n] > len)
  <2>1. n # 0 => n \in 1..n
    BY <1>1
  <2>2. n # 0 => found[n] \in 0..len-1
    BY <2>1, <1>2
  <2>3. QED
    BY <2>2, <1>0
<1>6. a = IF n = 0 THEN Leave("EMPTY", 0, padded)
           ELSE IF task = "streaming_final"
                THEN Leave(IF cut = 0 THEN "EMPTY" ELSE "SUCCESS", cut, final)
           ELSE IF cut > 0 THEN Leave("SUCCESS", cut, padded)
           ELSE IF kept = 0 \/ padded[1] = 0 THEN Leave("CAPACITY", kept, padded)
           ELSE Leave("EMPTY", 0, padded)
  <2> DEFINE utf8 == IF end.error THEN "UTF8_ERROR" ELSE "SUCCESS"
  <2>1. a = IF task = "regular" /\ unclosed THEN NoIndexes("UNCLOSED_STRING")
            ELSE IF FALSE THEN NoIndexes("UNESCAPED_CHARS")
            ELSE IF n = 0 THEN Leave("EMPTY", 0, padded)
            ELSE IF found[n] > len THEN Leave("UNEXPECTED_ERROR", n, padded)
            ELSE CASE task = "regular" -> Leave(utf8, n, padded)
                   [] task = "streaming_final" ->
                        Leave(IF cut = 0 THEN "EMPTY" ELSE utf8, cut, final)
                   [] task = "streaming_partial" ->
                        IF cut > 0 THEN Leave(utf8, cut, padded)
                        ELSE IF kept = 0 \/ padded[1] = 0
                        THEN Leave("CAPACITY", kept, padded)
                        ELSE Leave("EMPTY", 0, padded)
    BY Zenon DEF Finish
  <2>2. utf8 = "SUCCESS"
    OBVIOUS
  <2>3. task # "regular" /\ task \in {"streaming_partial", "streaming_final"}
    BY DEF Streaming
  <2> HIDE DEF kept, cut, final, padded, utf8, n, Leave
  <2>4. QED
    BY <2>1, <2>2, <2>3, <1>5, Zenon
<1>7. a = WindowLeft(c, len, task, found, unclosed)
  BY <1>6, Zenon DEF WindowLeft
<1>8. /\ len \in 1..Len(text) /\ task \in Streaming
      /\ Trimmed(Classes(text), 0, Len(text)) = len
      /\ \A k \in 1..Len(found) : found[k] \in 0..len-1
  BY <1>0, <1>2, <1>3
<1> HIDE DEF c, n, padded, kept, cut, final, Leave
<1>9. LeavesAs(WindowLeft(Classes(text), len, task, found, unclosed),
               Stage1(NewParser(0), Classes(text), 0, Len(text), task))
  BY <1>1, <1>4, <1>8, WindowFinished, Zenon
<1>10. QED
  BY <1>7, <1>9, Zenon DEF c, LeavesAs

-----------------------------------------------------------------------------
(* The invariant of the kernel: that of the scan, the UTF-8 checker in front*)
(* of idx, and of a task that is done its answer.                           *)
OneBlock == task = "validate" => step_size = Width

CheckedSoFar ==
    answer = Pending /\ len # Unread /\ task # "minify" => CheckedTo(text, len, checker, idx)

(* An empty text has its answer at once.                                    *)
SomeText == answer = Pending /\ len # Unread /\ task \notin {"minify", "validate"} => len # 0

MinifyAnswer ==
    task = "minify" =>
      IF UnclosedString(Classes(text)) THEN answer.err = "UNCLOSED_STRING"
      ELSE answer.err = "SUCCESS" /\ answer.out = Minified(text)

ValidateAnswer == task = "validate" => answer.valid = ValidUtf8(text)

DocumentAnswer ==
    task = "regular" =>
      /\ answer.err = TheError(text)
      /\ answer.err = "SUCCESS" =>
           \E s : Lists(s, Starts(text, len, len)) /\ answer.idx = s \o <<len, len, 0>>

CleanWindow ==
    /\ task \in Streaming
    /\ text # <<>>
    /\ ~ControlInString(text)
    /\ ForeignBytes(text) = {}
    /\ len > 0 => ValidUtf8(SubSeq(text, 1, len))
    /\ Len(text) - len <= 1

StreamAnswer ==
    CleanWindow =>
      LET r == Stage1(NewParser(0), Classes(text), 0, Len(text), task)
      IN  /\ answer.err = r.err
          /\ len > 0 \/ answer.err # "UTF8_ERROR" =>
               /\ answer.n = r.parser.n
               /\ answer.idx = r.parser.idx

Answered == /\ MinifyAnswer /\ ValidateAnswer /\ DocumentAnswer /\ StreamAnswer

VectorInv == /\ KernelInv /\ OneBlock /\ CheckedSoFar /\ SomeText
             /\ answer # Pending => Answered

LEMMA VectorInit == Init => VectorInv
<1> SUFFICES ASSUME Init
             PROVE  VectorInv
  OBVIOUS
<1>1. KernelInv
  BY KernelInit
<1>2. answer = Pending /\ len = Unread /\ OneBlock
  BY DEF Init, OneBlock
<1>3. QED
  BY <1>1, <1>2, Zenon DEF VectorInv, CheckedSoFar, SomeText

(* A text with nothing in it.                                               *)
LEMMA NothingToRead ==
  ASSUME Classification, NEW t \in Seq(Byte), Len(t) = 0
  PROVE  TheError(t) = "EMPTY"
<1> DEFINE c == Classes(t)
           s == Structurals(c)
<1>1. Len(c) = 0
  BY ClassesAreASequence, Zenon
<1> HIDE DEF c
<1>2. ~UnclosedString(c)
  <2>1. \A j \in Nat : ~StringTail(c, 0)
    BY StringTailRule
  <2>2. ~StringTail(c, 0)
    BY <2>1
  <2>3. QED
    BY <1>1, <2>2, Zenon DEF UnclosedString
<1>3. ~ControlInString(t)
  <2>1. 0..Len(t)-1 = {}
    OBVIOUS
  <2>2. StringContents(t) = {}
    BY <2>1, Zenon DEF StringContents
  <2>3. QED
    BY <2>2, Zenon DEF ControlInString
<1>4. Structurals(c) = <<>>
  <2>1. 0 \in Nat /\ 0 \in 0..Len(t)
    OBVIOUS
  <2>2. Starts(t, Len(t), Len(t)) = {}
    BY DEF Starts
  <2>3. QED
    BY <2>2, NothingFound, Zenon DEF c
<1> HIDE DEF s
<1>5. QED
  BY <1>2, <1>3, <1>4, Zenon DEF TheError, c

(* Nothing is left of a window but the start of a character.                *)
LEMMA NothingLeft ==
  ASSUME NEW t \in Seq(Byte), t # <<>>, trim_partial_utf8(t) = 0, Len(t) - 0 <= 1,
         NEW mode
  PROVE  Stage1(NewParser(0), Classes(t), 0, Len(t), mode).err = "UTF8_ERROR"
<1>1. Trimmed(Classes(t), 0, Len(t)) = 0
  BY TrimmedTexts
<1> DEFINE c == Classes(t)
           found == Structurals(Window(c, 0, Trimmed(c, 0, Len(t))))
           r == FinishWindow(NewParser(0), c, 0, Len(t), mode, found)
           old == [err |-> "UTF8_ERROR",
                   parser |-> [NewParser(0) EXCEPT !.buf = 0, !.len = Len(t)]]
<1>2. Stage1(NewParser(0), c, 0, Len(t), mode) = r
  BY Zenon DEF Stage1
<1>0. found = <<>>
  <2> DEFINE w == Window(c, 0, 0)
             T == {j \in 0..0-1 : StructuralStart(w, j)}
  <2>1. 0 \in 0..Len(t) /\ 0 \in Nat
    OBVIOUS
  <2>2. Len(w) = 0
    BY <2>1, WindowOfText, Zenon
  <2> HIDE DEF w
  <2>3. Lists(Structurals(w), T)
    BY <2>1, <2>2, StructuralsList, Zenon
  <2>4. T = {}
    OBVIOUS
  <2>5. Structurals(w) \in Seq(Nat) /\ DOMAIN Structurals(w) = {}
    BY <2>3, <2>4 DEF Lists
  <2>6. Structurals(w) = <<>>
    BY <2>5
  <2>7. QED
    BY <2>6, <1>1 DEF w
<1> HIDE DEF found
<1>3. r = old
  <2> DEFINE trim == Trimmed(c, 0, Len(t))
             w == Window(c, 0, trim)
             p == found \o <<trim, trim, 0>>
             k == IF UnclosedString(w) THEN Len(found) - 1 ELSE Len(found)
             m == FindNextDocumentIndex(w, p, k)
             f == [p EXCEPT ![m + 2] = p[m + 1], ![m + 1] = trim]
             Left(err, i, n) == [err |-> err, parser |-> Indexed(0, Len(t), i, n)]
  <2>1. r = CASE trim = 0 -> old
              [] trim > 0 /\ found = <<>> -> Left("EMPTY", p, 0)
              [] found # <<>> /\ mode = "streaming_final" ->
                   Left(IF m = 0 THEN "EMPTY" ELSE "SUCCESS", f, m)
              [] found # <<>> /\ mode = "streaming_partial" ->
                   IF m > 0 THEN Left("SUCCESS", p, m)
                   ELSE IF k = 0 \/ p[1] = 0 THEN Left("CAPACITY", p, k)
                   ELSE Left("EMPTY", p, 0)
    BY Zenon DEF FinishWindow
  <2>2. trim = 0
    BY <1>1
  <2> HIDE DEF trim, old, Left, p, k, m, f, w, r
  <2>3. QED
    BY <2>1, <2>2, <1>0
<1>4. QED
  BY <1>2, <1>3

LEMMA VectorBegins ==
  ASSUME VectorInv, BeginIndex \/ BeginMinify, Classification, NoAnswerYet
  PROVE  VectorInv'
<1>1. KernelInv'
  BY KernelBegins DEF VectorInv
<1>2. /\ len = Unread
      /\ len' = IF task \in Streaming THEN trim_partial_utf8(text) ELSE Len(text)
      /\ UNCHANGED <<text, task, step_size, idx, checker>>
  <2>1. CASE BeginIndex
    BY <2>1 DEF BeginIndex, inputVars, indexVars
  <2>2. CASE BeginMinify
    BY <2>2 DEF BeginMinify, Streaming, inputVars, indexVars
  <2>3. QED
    BY <2>1, <2>2
<1>3. /\ text \in Seq(Byte) /\ Len(text) \in Nat
      /\ idx = 0 /\ checker = NewChecker /\ answer = Pending
  BY <1>2 DEF VectorInv, KernelInv, Asked, Begun, Fresh
<1>4. len' \in 0..Len(text)
  BY <1>2, <1>3, TrimStays
<1>5. OneBlock'
  BY <1>2 DEF VectorInv, OneBlock
<1>6. CheckedSoFar'
  <2>1. CheckedTo(text, len', NewChecker, 0)
    BY <1>3, <1>4, NewCheckerIsRight
  <2>2. QED
    BY <2>1, <1>2, <1>3, Zenon DEF CheckedSoFar
<1>7. ASSUME answer' # Pending
      PROVE  Answered'
  <2>1. /\ BeginIndex
        /\ task # "minify" /\ task # "validate"
        /\ answer' = IF text = <<>> THEN NoIndexes("EMPTY") ELSE NoIndexes("UTF8_ERROR")
        /\ text = <<>> \/ len' = 0
    BY <1>3, <1>7 DEF BeginIndex, BeginMinify, Streaming
  <2>2. MinifyAnswer' /\ ValidateAnswer'
    BY <2>1, <1>2 DEF MinifyAnswer, ValidateAnswer
  <2>3. DocumentAnswer'
    <3>1. SUFFICES ASSUME task = "regular"
                   PROVE  answer'.err = TheError(text) /\ answer'.err # "SUCCESS"
      BY <1>2, Zenon DEF DocumentAnswer
    <3>2. Len(text) = 0 /\ text = <<>>
      BY <3>1, <2>1, <1>2, <1>3 DEF Streaming
    <3>3. TheError(text) = "EMPTY"
      BY <3>2, <1>3, NothingToRead, Zenon
    <3>4. answer'.err = "EMPTY"
      BY <3>2, <2>1 DEF NoIndexes
    <3>5. QED
      BY <3>3, <3>4
  <2>4. StreamAnswer'
    <3> DEFINE r == Stage1(NewParser(0), Classes(text), 0, Len(text), task)
    <3>1. SUFFICES ASSUME CleanWindow'
                   PROVE  /\ answer'.err = r.err /\ answer'.err = "UTF8_ERROR"
                          /\ ~(len' > 0)
      BY <1>2, Zenon DEF StreamAnswer
    <3>2. task \in Streaming /\ text # <<>> /\ Len(text) - len' <= 1
      BY <3>1, <1>2 DEF CleanWindow
    <3>3. len' = 0 /\ trim_partial_utf8(text) = 0
      BY <3>2, <2>1, <1>2
    <3>4. r.err = "UTF8_ERROR"
      BY <3>2, <3>3, <1>3, NothingLeft
    <3>5. answer'.err = "UTF8_ERROR"
      BY <3>2, <2>1 DEF NoIndexes
    <3>6. QED
      BY <3>3, <3>4, <3>5
  <2>5. QED
    BY <2>2, <2>3, <2>4 DEF Answered
<1>8. SomeText'
  <2>1. SUFFICES ASSUME answer' = Pending, BeginIndex
                 PROVE  len' # 0
    BY <1>2 DEF SomeText, BeginMinify
  <2>2. "UTF8_ERROR" \in ErrorCodes /\ 0 \in Int /\ <<>> \in Seq(Int)
    BY DEF ErrorCodes
  <2>3. NoIndexes("UTF8_ERROR") \in Answers
    BY <2>2, Zenon DEF NoIndexes, Answers
  <2>4. "EMPTY" \in ErrorCodes
    BY DEF ErrorCodes
  <2>5. NoIndexes("EMPTY") \in Answers
    BY <2>2, <2>4, Zenon DEF NoIndexes, Answers
  <2>6. NoIndexes("UTF8_ERROR") # Pending /\ NoIndexes("EMPTY") # Pending
    BY <2>3, <2>5, Zenon DEF NoAnswerYet
  <2>7. QED
    BY <2>1, <2>6, Zenon DEF BeginIndex
<1>9. QED
  BY <1>1, <1>5, <1>6, <1>7, <1>8 DEF VectorInv

(* One block or two have gone through the checker.                          *)
LEMMA BlocksChecked ==
  ASSUME text \in Seq(Byte), len \in 0..Len(text), idx \in Nat,
         step_size \in {Width, 2*Width}, CheckedTo(text, len, checker, idx),
         NEW c,
         LET once == check_next_input(checker, PaddedBlock(text, len, idx))
         IN  c = IF step_size = Width THEN once
                 ELSE check_next_input(once, PaddedBlock(text, len, idx + Width))
  PROVE  CheckedTo(text, len, c, idx + step_size)
<1> DEFINE once == check_next_input(checker, PaddedBlock(text, len, idx))
           twice == check_next_input(once, PaddedBlock(text, len, idx + Width))
<1>0. Width \in Nat /\ Width > 0 /\ idx + Width \in Nat /\ (idx + Width) + Width = idx + 2*Width
  BY Wide
<1>1. CheckedTo(text, len, once, idx + Width)
  BY CheckerKeeps
<1> HIDE DEF once
<1>2. CheckedTo(text, len, twice, (idx + Width) + Width)
  BY <1>0, <1>1, CheckerKeeps
<1>3. c = IF step_size = Width THEN once ELSE twice
  BY Zenon DEF once, twice
<1> HIDE DEF twice
<1>4. QED
  BY <1>0, <1>1, <1>2, <1>3

LEMMA VectorIndexStep ==
  ASSUME VectorInv, IndexStep
  PROVE  VectorInv'
<1>1. KernelInv'
  BY IndexStepKeeps DEF VectorInv
<1>2. /\ task # "minify" /\ task # "validate"
      /\ answer = Pending /\ len # Unread /\ IndexBlocks
      /\ UNCHANGED <<text, task, step_size, answer, len>>
  BY DEF IndexStep, inputVars, Streaming
<1>3. /\ text \in Seq(Byte) /\ len \in 0..Len(text) /\ idx \in Nat
      /\ step_size \in {Width, 2*Width} /\ IndexedTo(text, len, Held, idx)
      /\ CheckedTo(text, len, checker, idx)
  BY <1>2 DEF VectorInv, KernelInv, Asked, Begun, IndexedSoFar, Scans, CheckedSoFar
<1>4. /\ idx' = idx + step_size
      /\ LET once == check_next_input(checker, PaddedBlock(text, len, idx))
         IN  checker' = IF step_size = Width THEN once
                        ELSE check_next_input(once, PaddedBlock(text, len, idx + Width))
  BY <1>2, <1>3, IndexBlocksKeep, Zenon
<1>5. CheckedTo(text, len, checker', idx + step_size)
  BY <1>3, <1>4, BlocksChecked, Zenon
<1>6. CheckedSoFar' /\ OneBlock' /\ SomeText'
  <2>1. OneBlock /\ SomeText
    BY DEF VectorInv
  <2>2. QED
    BY <2>1, <1>2, <1>4, <1>5, Zenon DEF CheckedSoFar, OneBlock, SomeText
<1>7. QED
  BY <1>1, <1>2, <1>6, Zenon DEF VectorInv

LEMMA VectorIndexLast ==
  ASSUME VectorInv, IndexLast, Classification, NoAnswerYet
  PROVE  VectorInv'
<1> DEFINE found == tail' \o IndexesOf(prev_structurals', idx' - Width)
           unclosed == scanner'.prev_in_string # {}
           unescaped == unescaped_chars_error'
           end == check_eof(checker')
<1>1. /\ KernelInv' /\ answer' # Pending
      /\ IndexedTo(text, len, Held', idx') /\ len <= idx' /\ idx' \in Nat
  BY IndexLastKeeps, Zenon DEF VectorInv
<1>2. /\ task \in {"regular"} \cup Streaming /\ task # "minify" /\ task # "validate"
      /\ answer = Pending /\ len # Unread /\ IndexBlocks
      /\ UNCHANGED <<text, task, step_size, len>>
      /\ answer' = Finish(found, unclosed, unescaped, end)
  BY DEF IndexLast, inputVars, Streaming
<1>3. /\ text \in Seq(Byte) /\ len \in 0..Len(text) /\ len \in Nat /\ idx \in Nat
      /\ len = IF task \in Streaming THEN trim_partial_utf8(text) ELSE Len(text)
      /\ step_size \in {Width, 2*Width} /\ IndexedTo(text, len, Held, idx)
      /\ CheckedTo(text, len, checker, idx)
  BY <1>2 DEF VectorInv, KernelInv, Asked, Begun, IndexedSoFar, Scans, CheckedSoFar
<1>4. /\ idx' = idx + step_size
      /\ LET once == check_next_input(checker, PaddedBlock(text, len, idx))
         IN  checker' = IF step_size = Width THEN once
                        ELSE check_next_input(once, PaddedBlock(text, len, idx + Width))
  BY <1>2, <1>3, IndexBlocksKeep, Zenon
<1>5. CheckedTo(text, len, checker', idx')
  <2>1. CheckedTo(text, len, checker', idx + step_size)
    BY <1>3, <1>4, BlocksChecked, Zenon
  <2>2. QED
    BY <2>1, <1>4, Zenon
<1>6. end.error \in BOOLEAN /\ (end.error <=> ~ValidUtf8(SubSeq(text, 1, len)))
  BY <1>1, <1>3, <1>5, Verdict
<1>7. /\ Held'.scanner = scanner' /\ Held'.tail = tail'
      /\ Held'.structurals = prev_structurals' /\ Held'.unescaped = unescaped_chars_error'
  BY DEF Held
<1>8. Lists(found, Starts(text, len, len))
  <2>1. Lists(found, Starts(text, len, idx'))
    BY <1>1, <1>7, Zenon DEF IndexedTo
  <2>2. Starts(text, len, idx') = Starts(text, len, len)
    BY <1>1, <1>3, StartsEnd
  <2>3. QED
    BY <2>1, <2>2
<1>9. unclosed <=> StringTail(Classes(text), len)
  <2>1. scanner' = CarryOf(StrAt(text, len, idx'), EscAt(text, len, idx'), ScalAt(text, len, idx'))
    BY <1>1, <1>7, Zenon DEF IndexedTo, Carries
  <2>2. scanner'.prev_in_string = AllBits(StrAt(text, len, idx'))
    BY <2>1 DEF CarryOf
  <2>3. 0 \in Bits
    BY Wide DEF Bits
  <2>4. unclosed <=> StrAt(text, len, idx')
    BY <2>2, <2>3 DEF AllBits
  <2>5. (IF idx' <= len THEN idx' ELSE len) = len
    BY <1>1, <1>3
  <2>6. QED
    BY <2>4, <2>5, Zenon DEF StrAt
<1>10. unescaped \in BOOLEAN /\ (unescaped <=> Controls(text, len, idx'))
  BY <1>1, <1>7, Zenon DEF IndexedTo
<1>11. /\ unescaped => ControlInString(text)
       /\ len = Len(text) /\ ControlInString(text) => unescaped
  BY <1>1, <1>3, <1>10, ControlsByClass
<1>12. unclosed \in BOOLEAN
  OBVIOUS
<1> HIDE DEF found, unclosed, unescaped, end
<1>13. text # <<>> /\ len # 0
  <2>1. len # 0
    BY <1>2 DEF VectorInv, SomeText
  <2>2. QED
    BY <2>1, <1>3
<1>14. DocumentAnswer'
  <2>1. SUFFICES ASSUME task = "regular"
                 PROVE  /\ answer'.err = TheError(text)
                        /\ answer'.err = "SUCCESS" =>
                             \E s : Lists(s, Starts(text, len, len))
                                      /\ answer'.idx = s \o <<len, len, 0>>
    BY <1>2, Zenon DEF DocumentAnswer
  <2>2. len = Len(text)
    BY <2>1, <1>3 DEF Streaming
  <2>3. SubSeq(text, 1, len) = text
    BY <2>2, <1>3, SubSeqFull, Zenon
  <2>4. end.error <=> ~ValidUtf8(text)
    BY <2>3, <1>6, Zenon
  <2>5. unclosed <=> UnclosedString(Classes(text))
    <3>1. Len(Classes(text)) = len
      BY <2>2, <1>3, ClassesAreASequence, Zenon
    <3>2. QED
      BY <3>1, <1>9, Zenon DEF UnclosedString
  <2>6. unescaped <=> ControlInString(text)
    BY <2>2, <1>11
  <2>8. answer'.err = TheError(text)
        /\ (answer'.err = "SUCCESS" => answer'.idx = found \o <<len, len, 0>>)
    <3>1. end.error \in BOOLEAN /\ unescaped \in BOOLEAN /\ text \in Seq(Byte)
      BY <1>3, <1>6, <1>10
    <3>2. LET a == Finish(found, unclosed, unescaped, end)
          IN  /\ a.err = TheError(text)
              /\ a.err = "SUCCESS" => a.idx = found \o <<len, len, 0>>
      BY <3>1, <2>1, <2>2, <2>4, <2>5, <2>6, <1>8, <1>12, <1>13, FinishOfDocument
    <3>3. QED
      BY <3>2, <1>2, Zenon
  <2>9. QED
    BY <2>8, <1>8, Zenon
<1>15. StreamAnswer'
  <2> DEFINE r == Stage1(NewParser(0), Classes(text), 0, Len(text), task)
  <2>1. SUFFICES ASSUME CleanWindow
                 PROVE  /\ answer'.err = r.err
                        /\ answer'.n = r.parser.n /\ answer'.idx = r.parser.idx
    <3>1. CleanWindow' <=> CleanWindow
      BY <1>2 DEF CleanWindow
    <3>2. QED
      BY <3>1, <1>2, Zenon DEF StreamAnswer
  <2>2. /\ task \in Streaming /\ text # <<>> /\ ~ControlInString(text)
        /\ ForeignBytes(text) = {} /\ Len(text) - len <= 1
    BY <2>1 DEF CleanWindow
  <2>9. len > 0 => ValidUtf8(SubSeq(text, 1, len))
    BY <2>1 DEF CleanWindow
  <2>3. len = trim_partial_utf8(text)
    BY <2>2, <1>3
  <2>4. end.error = FALSE
    BY <2>9, <1>3, <1>6, <1>13
  <2>5. unescaped = FALSE
    BY <2>2, <1>10, <1>11
  <2>6. answer' = Finish(found, unclosed, FALSE, end)
    BY <2>5, <1>2, Zenon
  <2>7. text \in Seq(Byte)
    BY <1>3
  <2>8. LET a == Finish(found, unclosed, FALSE, end)
        IN  a.err = r.err /\ a.n = r.parser.n /\ a.idx = r.parser.idx
    BY <2>2, <2>3, <2>4, <2>7, <1>8, <1>9, <1>12, <1>13, FinishOfWindow, Zenon
  <2>10. QED
    BY <2>8, <2>6, Zenon
<1>16. Answered'
  BY <1>2, <1>14, <1>15, Zenon DEF Answered, MinifyAnswer, ValidateAnswer
<1>17. QED
  BY <1>1, <1>2, <1>16, Zenon DEF VectorInv, OneBlock, CheckedSoFar, SomeText

LEMMA VectorMinifies ==
  ASSUME VectorInv, MinifyStep \/ MinifyLast, NoAnswerYet
  PROVE  VectorInv'
<1>1. KernelInv'
  BY MinifyStepKeeps, MinifyLastKeeps, Zenon DEF VectorInv
<1>2. task = "minify" /\ answer = Pending /\ UNCHANGED <<text, task, step_size>>
  BY DEF MinifyStep, MinifyLast, inputVars
<1>3. task' # "validate" /\ task' # "regular" /\ task' \notin Streaming /\ task' = "minify"
  BY <1>2 DEF Streaming
<1>4. OneBlock' /\ CheckedSoFar' /\ SomeText'
  BY <1>3 DEF OneBlock, CheckedSoFar, SomeText
<1>5. answer' # Pending => MinifyAnswer'
  <2>1. CASE MinifyStep
    BY <2>1, <1>2 DEF MinifyStep
  <2>2. CASE MinifyLast
    <3>1. /\ UnclosedString(Classes(text)) => answer'.err = "UNCLOSED_STRING"
          /\ ~UnclosedString(Classes(text)) => /\ answer'.err = "SUCCESS"
                                               /\ answer'.out = Minified(text)
      BY <2>2, MinifyLastKeeps, Zenon DEF VectorInv
    <3>2. QED
      BY <3>1, <1>2, Zenon DEF MinifyAnswer
  <2>3. QED
    BY <1>2, <2>1, <2>2, Zenon
<1>6. ValidateAnswer' /\ DocumentAnswer' /\ StreamAnswer'
  BY <1>3, Zenon DEF ValidateAnswer, DocumentAnswer, StreamAnswer, CleanWindow
<1>7. QED
  BY <1>1, <1>4, <1>5, <1>6, Zenon DEF VectorInv, Answered

LEMMA VectorValidates ==
  ASSUME VectorInv, ValidateStep \/ ValidateLast, NoAnswerYet
  PROVE  VectorInv'
<1>1. /\ task = "validate" /\ answer = Pending /\ len # Unread
      /\ checker' = check_next_input(checker, Block(idx))
      /\ idx' = idx + step_size
      /\ UNCHANGED <<text, behind, task, step_size, len, scanner, prev_structurals,
                     unescaped_chars_error, tail, out, written>>
  BY DEF ValidateStep, ValidateLast, inputVars, minifyVars
<1>2. /\ text \in Seq(Byte) /\ Len(text) \in Nat /\ task \in Tasks /\ idx \in Nat
      /\ step_size = Width /\ step_size \in {Width, 2*Width}
      /\ len \in 0..Len(text) /\ len = Len(text) /\ len \in Nat
      /\ CheckedTo(text, len, checker, idx) /\ idx <= len
  BY <1>1 DEF VectorInv, KernelInv, Asked, Begun, Within, CheckedSoFar, OneBlock, Streaming
<1>3. idx' = idx + Width /\ idx' \in Nat
  BY <1>1, <1>2, Wide
<1>4. Block(idx) = PaddedBlock(text, len, idx)
  BY Zenon DEF Block, PaddedBlock, ByteAt
<1>5. CheckedTo(text, len, checker', idx')
  BY <1>1, <1>2, <1>3, <1>4, CheckerKeeps
<1>6. task' = "validate" /\ task' \notin {"minify", "regular"} \cup Streaming
  BY <1>1 DEF Streaming
<1>7. Asked' /\ Begun'
  BY <1>1, <1>2, <1>3, <1>6 DEF Asked, Begun, VectorInv, KernelInv
<1>8. Scanned' /\ IndexedSoFar' /\ MinifiedSoFar' /\ Wrote'
  BY <1>6 DEF Scanned, IndexedSoFar, MinifiedSoFar, Wrote, Scans
<1>9. OneBlock' /\ CheckedSoFar' /\ SomeText'
  BY <1>1, <1>2, <1>5, <1>6 DEF OneBlock, CheckedSoFar, SomeText
<1>10. CASE ValidateStep
  <2>1. answer' = Pending /\ has_full_block
    BY <1>1, <1>10 DEF ValidateStep
  <2>2. idx + step_size <= len
    BY <2>1, <1>2, FullBlock
  <2>3. Within'
    BY <2>2, <1>1 DEF Within
  <2>4. QED
    BY <2>1, <2>3, <1>7, <1>8, <1>9, Zenon DEF VectorInv, KernelInv
<1>11. CASE ValidateLast
  <2>1. answer' = [valid |-> ~check_eof(checker').error] /\ ~has_full_block
    BY <1>11 DEF ValidateLast
  <2>2. len <= idx'
    BY <2>1, <1>1, <1>2, FullBlock
  <2>3. /\ check_eof(checker').error \in BOOLEAN
        /\ check_eof(checker').error <=> ~ValidUtf8(SubSeq(text, 1, len))
    BY <2>2, <1>2, <1>3, <1>5, Verdict
  <2>4. SubSeq(text, 1, len) = text
    BY <1>2, SubSeqFull
  <2>5. answer' # Pending
    <3>1. (~check_eof(checker').error) \in BOOLEAN
      BY <2>3
    <3>2. answer' \in [valid : BOOLEAN]
      BY <3>1, <2>1, Zenon
    <3>3. QED
      BY <3>2, Zenon DEF NoAnswerYet, Answers
  <2>6. answer'.valid = ValidUtf8(text)
    <3>1. ValidUtf8(text) \in BOOLEAN
      <4>1. \E V \in [0..Len(text) -> BOOLEAN] : ValidUtf8(text) = V[0]
        BY <1>2, ValidRule, Zenon
      <4>2. QED
        BY <4>1, <1>2
    <3>2. answer'.valid = ~check_eof(checker').error
      BY <2>1, Zenon
    <3>3. QED
      BY <3>1, <3>2, <2>3, <2>4, Zenon
  <2>7. Answered'
    BY <2>6, <1>1, <1>6, Zenon
       DEF Answered, MinifyAnswer, ValidateAnswer, DocumentAnswer, StreamAnswer, CleanWindow
  <2>8. QED
    BY <2>5, <2>7, <1>7, <1>8, <1>9, Zenon DEF VectorInv, KernelInv, Within
<1>12. QED
  BY <1>10, <1>11

LEMMA VectorStep ==
  ASSUME Classification, NoAnswerYet
  PROVE  VectorInv /\ [Next]_vars => VectorInv'
<1> SUFFICES ASSUME VectorInv, [Next]_vars
             PROVE  VectorInv'
  OBVIOUS
<1>1. CASE BeginIndex \/ BeginMinify
  BY <1>1, VectorBegins
<1>2. CASE IndexStep
  BY <1>2, VectorIndexStep
<1>3. CASE IndexLast
  BY <1>3, VectorIndexLast
<1>4. CASE MinifyStep \/ MinifyLast
  BY <1>4, VectorMinifies
<1>5. CASE ValidateStep \/ ValidateLast
  BY <1>5, VectorValidates
<1>6. CASE UNCHANGED vars
  <2>1. UNCHANGED <<text, task, step_size, answer, len, idx, scanner, checker, prev_structurals,
                    unescaped_chars_error, tail, out, written>>
    BY <1>6 DEF vars, inputVars, indexVars, minifyVars
  <2>2. Held' = Held
    BY <2>1 DEF Held
  <2>3. KernelInv'
    BY <2>1, <2>2, Zenon DEF VectorInv, KernelInv, Asked, Begun, Fresh, Within, Scanned, Scans,
                            IndexedSoFar, MinifiedSoFar, Wrote
  <2>4. OneBlock' /\ CheckedSoFar' /\ SomeText'
    BY <2>1, Zenon DEF VectorInv, OneBlock, CheckedSoFar, SomeText
  <2>5. answer' # Pending => Answered'
    BY <2>1, Zenon DEF VectorInv, Answered, MinifyAnswer, ValidateAnswer, DocumentAnswer,
                       StreamAnswer, CleanWindow
  <2>6. QED
    BY <2>3, <2>4, <2>5, Zenon DEF VectorInv
<1>7. QED
  BY <1>1, <1>2, <1>3, <1>4, <1>5, <1>6 DEF Next

(* The invariant of the vector kernels, for every width of a block, every   *)
(* text and every classification of control characters that leaves the      *)
(* others alone.                                                            *)
THEOREM VectorInvariant ==
  ASSUME Classification, NoAnswerYet
  PROVE  Spec => []VectorInv
<1>1. VectorInv /\ [Next]_vars => VectorInv'
  BY VectorStep
<1>2. QED
  BY <1>1, VectorInit, PTL DEF Spec

LEMMA InvCarries == VectorInv => CarriesDescribeText
<1> SUFFICES ASSUME VectorInv, Scans
             PROVE  LET c == Classes(text)
                    IN  /\ scanner.prev_in_string = AllBits(StringTail(c, idx))
                        /\ scanner.prev_escaped = FirstBit(idx \in EscapedBytes(text))
                        /\ (idx = 0 \/ At(text, idx-1) \notin LikeOperators)
                              => scanner.prev_scalar = FirstBit(FollowsScalar(c, idx))
  BY Zenon DEF CarriesDescribeText
<1>1. /\ text \in Seq(Byte) /\ len \in 0..Len(text) /\ idx \in 0..len /\ idx <= len
      /\ scanner = Carries(text, len, idx)
  BY DEF Scans, VectorInv, KernelInv, Asked, Begun, Within, Scanned
<1> DEFINE c == Classes(text)
<1>2. /\ scanner.prev_in_string = AllBits(StrAt(text, len, idx))
      /\ scanner.prev_escaped = FirstBit(EscAt(text, len, idx))
      /\ scanner.prev_scalar = FirstBit(ScalAt(text, len, idx))
  BY <1>1 DEF Carries, CarryOf
<1>3. StrAt(text, len, idx) = StringTail(c, idx)
  BY <1>1, Zenon DEF StrAt
<1>4. EscAt(text, len, idx) <=> idx \in EscapedBytes(text)
  BY <1>1, Zenon DEF EscAt
<1>5. idx = 0 \/ At(text, idx-1) \notin LikeOperators
        => (ScalAt(text, len, idx) <=> FollowsScalar(c, idx))
  BY <1>1, FollowsByClass
<1>6. scanner.prev_escaped = FirstBit(idx \in EscapedBytes(text))
  BY <1>2, <1>4, Zenon DEF FirstBit
<1>7. idx = 0 \/ At(text, idx-1) \notin LikeOperators
        => scanner.prev_scalar = FirstBit(FollowsScalar(c, idx))
  BY <1>2, <1>5, Zenon DEF FirstBit
<1>8. QED
  BY <1>2, <1>3, <1>6, <1>7, Zenon

LEMMA InvIndexed == Classification /\ VectorInv => PrefixIndexed
<1> SUFFICES ASSUME Classification, VectorInv, Scans, task # "minify",
                    ForeignBytes(text) = {}
             PROVE  tail \o IndexesOf(prev_structurals, idx - Width)
                      = Structurals(Window(Classes(text), 0, idx))
  BY Zenon DEF PrefixIndexed
<1>1. /\ text \in Seq(Byte) /\ len \in 0..Len(text) /\ idx \in 0..len
      /\ IndexedTo(text, len, Held, idx)
  BY DEF Scans, VectorInv, KernelInv, Asked, Begun, Within, IndexedSoFar
<1>2. Held.tail = tail /\ Held.structurals = prev_structurals
  BY DEF Held
<1>3. Lists(tail \o IndexesOf(prev_structurals, idx - Width), Starts(text, len, idx))
  BY <1>1, <1>2, Zenon DEF IndexedTo
<1>4. \A j \in ForeignBytes(text) : idx <= j
  OBVIOUS
<1>5. QED
  BY <1>1, <1>3, <1>4, IndexesOfWindow, Zenon

LEMMA InvExact == VectorInv => VectorStage1IsExact
  BY Zenon DEF VectorInv, Answered, DocumentAnswer, StreamAnswer, CleanWindow,
               VectorStage1IsExact
=============================================================================
