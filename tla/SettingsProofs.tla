--------------------------- MODULE SettingsProofs ---------------------------
(***************************************************************************)
(* Proofs about Settings, for integers of any width, any defaults and any  *)
(* environment and .env file.                                              *)
(***************************************************************************)
EXTENDS Settings, FiniteSetTheorems, FunctionTheorems, TLAPS

-----------------------------------------------------------------------------
(***************************************************************************)
(* Powers of two count subsets: the laws of exponents follow from the      *)
(* cardinality of a power set and of a product.                            *)
(***************************************************************************)

LEMMA PowerCounts ==
  ASSUME NEW a \in Nat, NEW n \in Nat
  PROVE  /\ IsFiniteSet(SUBSET ((a + 1)..(a + n)))
         /\ Cardinality(SUBSET ((a + 1)..(a + n))) = 2^n
<1>1. /\ IsFiniteSet((a + 1)..(a + n))
      /\ Cardinality((a + 1)..(a + n)) = n
  <2>1. a + 1 \in Int /\ a + n \in Int
    OBVIOUS
  <2>2. /\ IsFiniteSet((a + 1)..(a + n))
        /\ Cardinality((a + 1)..(a + n)) =
             IF a + 1 > a + n THEN 0 ELSE (a + n) - (a + 1) + 1
    BY <2>1, FS_Interval
  <2> QED
    BY <2>2
<1> QED
  BY <1>1, FS_SUBSET

LEMMA PowerType ==
  ASSUME NEW n \in Nat PROVE 2^n \in Nat /\ 2^n >= 1
<1> DEFINE S == SUBSET ((0 + 1)..(0 + n))
<1>1. IsFiniteSet(S) /\ Cardinality(S) = 2^n
  BY PowerCounts
<1>2. {} \in S
  OBVIOUS
<1> HIDE DEF S
<1>3. Cardinality(S) \in Nat /\ Cardinality(S) # 0
  BY <1>1, <1>2, FS_CardinalityType, FS_EmptySet
<1> QED
  BY <1>1, <1>3

\* A subset of 1..(m + n) is one of 1..m and one of (m + 1)..(m + n).
LEMMA PowerAdds ==
  ASSUME NEW m \in Nat, NEW n \in Nat PROVE 2^(m + n) = 2^m * 2^n
<1> DEFINE A == (0 + 1)..(0 + m)
           B == (m + 1)..(m + n)
           C == (0 + 1)..(0 + (m + n))
<1>1. A \cap B = {} /\ A \cup B = C
  OBVIOUS
<1>2. /\ IsFiniteSet(SUBSET A) /\ Cardinality(SUBSET A) = 2^m
      /\ IsFiniteSet(SUBSET B) /\ Cardinality(SUBSET B) = 2^n
      /\ IsFiniteSet(SUBSET C) /\ Cardinality(SUBSET C) = 2^(m + n)
  <2>1. m + n \in Nat /\ 0 \in Nat
    OBVIOUS
  <2> QED
    BY <2>1, PowerCounts
<1> HIDE DEF A, B, C
<1>3. /\ IsFiniteSet((SUBSET A) \X (SUBSET B))
      /\ Cardinality((SUBSET A) \X (SUBSET B)) = 2^m * 2^n
  BY <1>2, FS_Product
<1>4. PICK f : f = [X \in SUBSET C |-> <<X \cap A, X \cap B>>]
  OBVIOUS
<1>5. f \in [SUBSET C -> (SUBSET A) \X (SUBSET B)]
  BY <1>4
<1>6. ASSUME NEW X \in SUBSET C, NEW Y \in SUBSET C, f[X] = f[Y] PROVE X = Y
  <2>1. X \cap A = Y \cap A /\ X \cap B = Y \cap B
    BY <1>4, <1>6
  <2>2. X = (X \cap A) \cup (X \cap B) /\ Y = (Y \cap A) \cup (Y \cap B)
    BY <1>1
  <2> QED
    BY <2>1, <2>2
<1>7. ASSUME NEW t \in (SUBSET A) \X (SUBSET B) PROVE \E X \in SUBSET C : f[X] = t
  <2>1. PICK X : X = t[1] \cup t[2]
    OBVIOUS
  <2>2. X \in SUBSET C /\ X \cap A = t[1] /\ X \cap B = t[2]
    BY <1>1, <2>1
  <2>3. t = <<t[1], t[2]>>
    OBVIOUS
  <2>4. f[X] = <<X \cap A, X \cap B>>
    BY <1>4, <2>2
  <2> QED
    BY <2>2, <2>3, <2>4
<1>8. f \in Injection(SUBSET C, (SUBSET A) \X (SUBSET B))
  BY <1>5, <1>6 DEF Injection, IsInjective
<1>9. f \in Surjection(SUBSET C, (SUBSET A) \X (SUBSET B))
  BY <1>5, <1>7 DEF Surjection
<1> QED
  BY <1>2, <1>3, <1>8, <1>9, FS_Injection

LEMMA PowerDoubles ==
  ASSUME NEW n \in Nat, n >= 1 PROVE 2^n = 2 * 2^(n - 1)
<1>1. PICK m \in Nat : m = n - 1
  OBVIOUS
<1>2. 2^(m + 1) = 2^m * 2^1
  BY PowerAdds
<1>3. 2^1 = 2
  OBVIOUS
<1>4. 2^m \in Nat /\ n = m + 1
  BY <1>1, PowerType
<1> QED
  BY <1>1, <1>2, <1>3, <1>4

-----------------------------------------------------------------------------
(***************************************************************************)
(* The operators of the model.                                             *)
(***************************************************************************)

\* The bound of the integers: Width is -Half..(Half - 1).
Half == 2^(Bits - 1)

LEMMA HalfType ==
  /\ Half \in Nat /\ Half >= 1 /\ 2^Bits = 2 * Half
  /\ Width = -Half..(Half - 1) /\ 0 \in Width /\ Width \subseteq Int
<1>1. Bits \in Nat /\ Bits >= 1 /\ Bits - 1 \in Nat
  BY SettingsAssumption
<1>2. Half \in Nat /\ Half >= 1
  BY <1>1, PowerType DEF Half
<1>3. 2^Bits = 2 * Half
  BY <1>1, PowerDoubles DEF Half
<1>4. Width = -Half..(Half - 1)
  BY DEF Width, Half
<1> HIDE DEF Half
<1> QED
  BY <1>2, <1>3, <1>4

LEMMA MaxZero ==
  ASSUME NEW n \in Int
  PROVE  Max({0, n}) = IF n > 0 THEN n ELSE 0
<1> DEFINE m == IF n > 0 THEN n ELSE 0
<1>1. m \in {0, n} /\ \A y \in {0, n} : m >= y
  OBVIOUS
<1>2. \A x \in {0, n} : (\A y \in {0, n} : x >= y) => x = m
  OBVIOUS
<1> QED
  BY <1>1, <1>2 DEF Max

\* What Wrap returns: an integer of the width, n itself when n is one, and
\* otherwise n less a multiple of 2^Bits.
LEMMA WrapIs ==
  ASSUME NEW n \in Int
  PROVE  /\ Wrap(n) \in Width
         /\ n >= 0 /\ n < Half => Wrap(n) = n
         /\ \E t \in Int : Wrap(n) = n - t * (2 * Half)
<1> DEFINE M == 2 * Half
           low == n % M
<1>1. M \in Nat /\ M > 0 /\ Half \in Nat /\ 2^Bits = M
  BY HalfType
<1>2. Wrap(n) = IF low < Half THEN low ELSE low - M
  BY <1>1 DEF Wrap, Half
<1>3. Width = -Half..(Half - 1)
  BY HalfType
<1> HIDE DEF Half
<1>4. low \in Int /\ low >= 0 /\ low < M /\ n = M * (n \div M) + low /\ n \div M \in Int
  <2> HIDE DEF M
  <2> QED
    BY <1>1
<1>5. ASSUME n >= 0, n < Half PROVE low = n
  BY <1>1, <1>5
<1>6. Wrap(n) \in Width
  <2> HIDE DEF low
  <2> QED
    BY <1>1, <1>2, <1>3, <1>4
<1>7. \E t \in Int : Wrap(n) = n - t * M
  <2> DEFINE q == n \div M
  <2>1. q \in Int /\ low = n - q * M /\ low - M = n - (q + 1) * M
    <3> HIDE DEF low, q, M
    <3> QED
      BY <1>1, <1>4 DEF q
  <2> HIDE DEF low, q
  <2>2. q + 1 \in Int
    BY <2>1
  <2> QED
    BY <1>2, <2>1, <2>2
<1> HIDE DEF low
<1> QED
  BY <1>1, <1>2, <1>5, <1>6, <1>7

\* The delay is an integer of the width, and never above MaxBackoff.
LEMMA DelayType ==
  ASSUME cfg \in [Keys -> Width], NEW n \in Nat, n >= 1
  PROVE  /\ base \in Width /\ base \in Int /\ max \in Width /\ max \in Int
         /\ base * 2^(n - 1) \in Int
         /\ delay(n) \in Width /\ delay(n) \in Int /\ delay(n) <= max
<1>1. base \in Width /\ max \in Width
  BY DEF base, max, Keys
<1>2. base \in Int /\ max \in Int
  BY <1>1, HalfType
<1>3. 2^(n - 1) \in Nat
  BY PowerType
<1>4. base * 2^(n - 1) \in Int
  BY <1>2, <1>3
<1>5. PICK d : d = Wrap(base * 2^(n - 1))
  OBVIOUS
<1>6. d \in Width
  BY <1>4, <1>5, WrapIs
<1>7. d \in Int
  BY <1>6, HalfType
<1>8. delay(n) = IF d <= 0 \/ d > max THEN max ELSE d
  BY <1>5 DEF delay
<1> QED
  BY <1>1, <1>2, <1>4, <1>6, <1>7, <1>8

LEMMA BackoffIs ==
  ASSUME cfg \in [Keys -> Width], NEW n \in Nat, n >= 1, NEW x \in backoff(n)
  PROVE  /\ x \in Width /\ x \in Int /\ x <= max
         /\ delay(n) > 0 => x \in (delay(n) \div 2)..delay(n)
<1>1. PICK d : d = delay(n)
  OBVIOUS
<1>2. d \in Width /\ d \in Int /\ d <= max /\ max \in Int
  BY <1>1, DelayType
<1>3. x \in (IF d <= 1 THEN {d} ELSE (d \div 2)..(2 * (d \div 2)))
  BY <1>1 DEF backoff
<1>4. CASE d <= 1
  <2>1. x = d
    BY <1>3, <1>4
  <2>2. d > 0 => d = 1 /\ d \div 2 = 0
    BY <1>2, <1>4
  <2> QED
    BY <1>1, <1>2, <2>1, <2>2
<1>5. CASE d > 1
  <2>1. d \div 2 \in Nat /\ 2 * (d \div 2) <= d
    BY <1>2, <1>5
  <2>2. x \in (d \div 2)..(2 * (d \div 2))
    BY <1>2, <1>3, <1>5
  <2>3. x \in Int /\ x >= d \div 2 /\ x <= d /\ x >= 0
    BY <1>2, <2>1, <2>2
  <2>4. x \in Width
    BY <1>2, <2>3, HalfType
  <2> QED
    BY <1>1, <1>2, <2>1, <2>3, <2>4
<1> QED
  BY <1>2, <1>4, <1>5

\* While BaseBackoff * MaxBackoff fits the integer, the shift is the documented
\* multiplication, capped: a shift by n - 1 places is a multiple of 2^(n - 1) even
\* when it overflows, and it overflows only for 2^(n - 1) > MaxBackoff.
LEMMA DelayIsCapped ==
  ASSUME cfg \in [Keys -> Width], base > 0, max > 0, base * max < Half,
         NEW n \in Nat, n >= 1
  PROVE  delay(n) = Capped(n)
<1>1. PICK P : P = 2^(n - 1)
  OBVIOUS
<1>2. PICK b \in Int, m \in Int : b = base /\ m = max
  BY DelayType
<1>3. PICK d : d = Wrap(b * P)
  OBVIOUS
<1>4. PICK h \in Nat : h = Half
  BY HalfType
<1>5. P \in Nat /\ P >= 1 /\ b > 0 /\ m > 0 /\ b * m < h /\ b * P \in Nat
  BY <1>1, <1>2, <1>4, PowerType
<1>6. d \in Int
  BY <1>3, <1>5, WrapIs, HalfType
<1>7. /\ delay(n) = IF d <= 0 \/ d > m THEN m ELSE d
      /\ Capped(n) = IF b * P > m THEN m ELSE b * P
  BY <1>1, <1>2, <1>3 DEF delay, Capped
<1>8. CASE b * P < h
  <2>1. d = b * P
    BY <1>3, <1>4, <1>5, <1>8, WrapIs
  <2>2. b * P > 0
    BY <1>5
  <2> QED
    BY <1>5, <1>7, <2>1, <2>2
<1>9. CASE b * P >= h
  <2>1. b * m < b * P /\ m < P
    <3>1. b * m \in Int /\ b * m < b * P
      BY <1>5, <1>9
    <3>2. ASSUME P <= m PROVE FALSE
      <4>1. b * P <= b * m
        BY <1>5, <3>2
      <4> QED
        BY <1>5, <3>1, <4>1
    <3> QED
      BY <1>5, <3>1, <3>2
  <2>2. Capped(n) = m
    <3>1. b * P >= P
      BY <1>5
    <3> QED
      BY <1>5, <1>7, <2>1, <3>1
  <2>3. PICK t \in Int : d = b * P - t * (2 * h)
    <3>1. PICK v \in Int : v = b * P
      BY <1>5
    <3>2. \E t \in Int : Wrap(v) = v - t * (2 * Half)
      BY WrapIs
    <3> QED
      BY <1>3, <1>4, <3>1, <3>2
  <2>4. \E c \in Int : d = c * P \/ d = c * (2 * h)
    <3>0. 2 * h = 2^Bits /\ Bits \in Nat /\ n - 1 \in Nat
      BY <1>4, HalfType, SettingsAssumption
    <3>1. CASE n - 1 <= Bits
      <4>1. PICK k \in Nat : Bits = (n - 1) + k
        BY <3>0, <3>1
      <4>2. PICK Q \in Nat : Q = 2^k
        BY PowerType
      <4>3. 2 * h = P * Q
        BY <1>1, <3>0, <4>1, <4>2, PowerAdds
      <4>4. t * (P * Q) = (t * Q) * P
        BY <1>5
      <4>5. b * P - (t * Q) * P = (b - t * Q) * P
        BY <1>5
      <4>6. b - t * Q \in Int
        OBVIOUS
      <4> QED
        BY <2>3, <4>3, <4>4, <4>5, <4>6
    <3>2. CASE n - 1 > Bits
      <4>1. PICK k \in Nat : n - 1 = Bits + k
        BY <3>0, <3>2
      <4>2. PICK Q \in Nat : Q = 2^k
        BY PowerType
      <4>3. P = (2 * h) * Q
        BY <1>1, <3>0, <4>1, <4>2, PowerAdds
      <4>4. b * ((2 * h) * Q) = (b * Q) * (2 * h)
        OBVIOUS
      <4>5. (b * Q) * (2 * h) - t * (2 * h) = (b * Q - t) * (2 * h)
        OBVIOUS
      <4>6. b * Q - t \in Int
        OBVIOUS
      <4> QED
        BY <2>3, <4>3, <4>4, <4>5, <4>6
    <3> QED
      BY <3>0, <3>1, <3>2
  <2>5. ASSUME d > 0 PROVE d > m
    <3>1. PICK c \in Int : d = c * P \/ d = c * (2 * h)
      BY <2>4
    <3>2. m < 2 * h
      <4>1. b * m >= m
        BY <1>5
      <4> QED
        BY <1>5, <4>1
    <3>3. c >= 1
      BY <1>5, <2>5, <3>1
    <3>4. c * P >= P /\ c * (2 * h) >= 2 * h
      BY <1>5, <3>3
    <3> QED
      BY <1>5, <1>6, <2>1, <3>1, <3>2, <3>4
  <2> QED
    BY <1>6, <1>7, <2>2, <2>5
<1> QED
  BY <1>5, <1>8, <1>9

-----------------------------------------------------------------------------
(***************************************************************************)
(* Type correctness, with what the settings and the time of a charge are   *)
(* before the server is up.                                                *)
(***************************************************************************)

Retries == cfg["WORKER_MAX_RETRIES"]
Timeout == cfg["WORKER_ATTEMPT_TIMEOUT"]

\* The types, with Max({0, n}) resolved; no attempt is made before New returns,
\* and an attempt is within the budget.
RunInv ==
  /\ TypeOK
  /\ \A k \in Keys : env[k] \in Texts /\ file[k] \in Texts
  /\ server \in {"down", "loaded", "refused"} =>
       attempt = 0 /\ outcome = "none" /\ elapsed = 0
  /\ attempt > 0 => attempt <= Retries /\ outcome = "none"
  /\ attempt = 0 /\ outcome = "none" => elapsed = 0

LEMMA SettingTypes ==
  ASSUME RunInv
  PROVE  /\ cfg \in [Keys -> Width] /\ \A k \in Keys : cfg[k] \in Int
         /\ Retries \in Int /\ Timeout \in Int /\ max \in Int
         /\ attempt \in Nat /\ elapsed \in Nat
<1>1. cfg \in [Keys -> Width] /\ \A k \in Keys : cfg[k] \in Int
  BY HalfType DEF RunInv, TypeOK
<1>2. Retries \in Int /\ Timeout \in Int /\ max \in Int
  BY <1>1 DEF Retries, Timeout, max, Keys
<1>3. attempt \in Nat /\ elapsed \in Nat
  <2>1. Max({0, Retries}) \in Nat
    BY <1>2, MaxZero
  <2>2. attempt \in 0..Max({0, Retries}) /\ elapsed \in Nat
    BY DEF RunInv, TypeOK, Retries
  <2> QED
    BY <2>1, <2>2
<1> QED
  BY <1>1, <1>2, <1>3

\* Time an attempt takes.
LEMMA TookIs ==
  ASSUME Timeout \in Int, NEW t \in Took
  PROVE  /\ t \in Nat /\ Max({0, Timeout}) \in Nat /\ t <= Max({0, Timeout})
<1>1. Max({0, Timeout}) \in Nat
  BY MaxZero
<1>2. t = 0 \/ t = Max({0, Timeout})
  BY DEF Took, Timeout
<1> QED
  BY <1>1, <1>2

LEMMA RunInit == Init => RunInv
<1> SUFFICES ASSUME Init PROVE RunInv
  OBVIOUS
<1>1. cfg \in [Keys -> Width] /\ 0 \in Width
  BY HalfType, SettingsAssumption DEF Init
<1>2. Retries \in Int
  BY <1>1, HalfType DEF Retries, Keys
<1>3. 0 \in 0..Max({0, Retries})
  BY <1>2, MaxZero
<1>4. \A k \in Keys : env[k] \in Texts /\ file[k] \in Texts
  BY SettingsAssumption DEF Init
<1> QED
  BY <1>1, <1>3, <1>4 DEF Init, RunInv, TypeOK, Retries

LEMMA RunStep ==
  ASSUME RunInv, [Next]_vars PROVE RunInv'
<1>0. /\ cfg \in [Keys -> Width] /\ \A k \in Keys : cfg[k] \in Int
      /\ Retries \in Int /\ Timeout \in Int /\ max \in Int
      /\ attempt \in Nat /\ elapsed \in Nat
  BY SettingTypes
<1>1. CASE Load
  <2>1. \A k \in Keys : Convert(Get(k)) \in Width
    BY HalfType DEF Convert
  <2>2. cfg' \in [Keys -> Width]
    BY <1>1, <2>1 DEF Load
  <2>3. Retries' \in Int
    BY <2>2, HalfType DEF Retries, Keys
  <2>4. Max({0, Retries'}) \in Nat
    BY <2>3, MaxZero
  <2>5. attempt' = 0 /\ outcome' = "none" /\ elapsed' = 0
    BY <1>1 DEF Load, RunInv
  <2>6. attempt' \in 0..Max({0, cfg'["WORKER_MAX_RETRIES"]})
    BY <2>4, <2>5 DEF Retries
  <2>7. TypeOK'
    BY <1>1, <2>2, <2>5, <2>6 DEF Load, RunInv, TypeOK
  <2> QED
    BY <1>1, <2>5, <2>7 DEF Load, RunInv
<1>2. CASE New
  <2>1. cfg["WORKER_QUEUE_SIZE"] \in Int
    BY <1>0 DEF Keys
  <2>2. TypeOK'
    BY <1>2, <2>1 DEF New, RunInv, TypeOK
  <2> QED
    BY <1>2, <2>2 DEF New, RunInv, Retries
<1>3. CASE Reclaim
  <2>1. Batch \in Width
    BY <1>0 DEF Batch, Keys
  <2>2. TypeOK'
    BY <1>3, <2>1 DEF Reclaim, RunInv, TypeOK
  <2> QED
    BY <1>3, <2>2 DEF Reclaim, RunInv, Retries
<1>4. CASE NewTicker
  <2>1. TypeOK'
    BY <1>4 DEF NewTicker, RunInv, TypeOK
  <2> QED
    BY <1>4, <2>1 DEF NewTicker, RunInv, Retries
<1>5. CASE Charge
  <2>1. attempt' \in 0..Max({0, Retries}) /\ (attempt' > 0 => attempt' <= Retries)
    BY <1>0, <1>5, MaxZero DEF Charge, Retries
  <2>2. TypeOK'
    BY <1>5, <2>1 DEF Charge, RunInv, TypeOK, Retries
  <2>3. /\ outcome' \in {"none", "unasked"} /\ elapsed' = 0
        /\ attempt' > 0 => outcome' = "none"
    BY <1>0, <1>5 DEF Charge, RunInv, Retries
  <2> QED
    BY <1>5, <2>1, <2>2, <2>3 DEF Charge, RunInv, Retries
<1>6. CASE Accepted
  <2>1. elapsed' \in Nat
    BY <1>0, <1>6, TookIs DEF Accepted
  <2>2. attempt' \in 0..Max({0, Retries})
    BY <1>0, <1>6, MaxZero DEF Accepted
  <2>3. TypeOK'
    BY <1>6, <2>1, <2>2 DEF Accepted, RunInv, TypeOK, Retries
  <2> QED
    BY <1>6, <2>3 DEF Accepted, RunInv, Retries
<1>7. CASE Retry
  <2>1. slept' \in Width /\ slept' \in Int
    BY <1>0, <1>7, BackoffIs DEF Retry
  <2>2. Max({0, slept'}) \in Nat
    BY <2>1, MaxZero
  <2>3. elapsed' \in Nat
    BY <1>0, <1>7, <2>2, TookIs DEF Retry
  <2>4. attempt' \in 0..Max({0, Retries}) /\ attempt' <= Retries /\ attempt' > 0
    BY <1>0, <1>7, MaxZero DEF Retry, Retries
  <2>5. TypeOK'
    BY <1>7, <2>1, <2>3, <2>4 DEF Retry, RunInv, TypeOK, Retries
  <2> QED
    BY <1>0, <1>7, <2>4, <2>5 DEF Retry, RunInv, Retries
<1>8. CASE GiveUp
  <2>1. elapsed' \in Nat
    BY <1>0, <1>8, TookIs DEF GiveUp
  <2>2. attempt' \in 0..Max({0, Retries})
    BY <1>0, <1>8, MaxZero DEF GiveUp
  <2>3. TypeOK'
    BY <1>8, <2>1, <2>2 DEF GiveUp, RunInv, TypeOK, Retries
  <2> QED
    BY <1>8, <2>3 DEF GiveUp, RunInv, Retries
<1>9. CASE UNCHANGED vars
  BY <1>9 DEF vars, RunInv, TypeOK, Retries
<1> QED
  BY <1>1, <1>2, <1>3, <1>4, <1>5, <1>6, <1>7, <1>8, <1>9 DEF Next

LEMMA RunAlways == Spec => []RunInv
BY RunInit, RunStep, PTL DEF Spec

\* The settings keep their width whatever the environment and the file say, a
\* server that is up has a port and a queue, and charge stays within its budget
\* of attempts.
THEOREM TypeCorrect == Spec => []TypeOK
<1>1. RunInv => TypeOK
  BY DEF RunInv
<1> QED
  BY <1>1, RunAlways, PTL

-----------------------------------------------------------------------------
(***************************************************************************)
(* The waits between attempts.                                             *)
(***************************************************************************)

LEMMA SleepStep ==
  ASSUME RunInv, SleepsAsDocumented, [Next]_vars PROVE SleepsAsDocumented'
<1>0. cfg \in [Keys -> Width] /\ attempt \in Nat
  BY SettingTypes
<1>1. CASE Retry
  <2> SUFFICES ASSUME base > 0, max > 0, base * max < Half
               PROVE  slept' \in (Capped(attempt) \div 2)..Capped(attempt)
    <3>1. attempt' - 1 = attempt /\ cfg' = cfg
      BY <1>0, <1>1 DEF Retry
    <3> QED
      BY <3>1 DEF SleepsAsDocumented, Capped, base, max, Half
  <2>1. attempt >= 1 /\ slept' \in backoff(attempt)
    BY <1>0, <1>1 DEF Retry
  <2>2. delay(attempt) = Capped(attempt)
    BY <1>0, <2>1, DelayIsCapped
  <2>3. Capped(attempt) > 0
    <3>1. 2^(attempt - 1) \in Nat /\ 2^(attempt - 1) >= 1
      BY <1>0, <2>1, PowerType
    <3>2. base \in Int /\ max \in Int
      BY <1>0, <2>1, DelayType
    <3>3. base * 2^(attempt - 1) > 0
      BY <3>1, <3>2
    <3> QED
      BY <3>2, <3>3 DEF Capped
  <2> QED
    BY <1>0, <2>1, <2>2, <2>3, BackoffIs
<1>2. ASSUME attempt' <= 1 PROVE SleepsAsDocumented'
  <2>1. ~(attempt' > 1)
    <3>1. attempt' \in Nat
      <4>1. RunInv'
        BY RunStep
      <4>2. Retries' \in Int
        BY <4>1, HalfType DEF RunInv, TypeOK, Retries, Keys
      <4>3. Max({0, Retries'}) \in Nat
        BY <4>2, MaxZero
      <4> QED
        BY <4>1, <4>3 DEF RunInv, TypeOK, Retries
    <3> QED
      BY <1>2, <3>1
  <2> QED
    BY <2>1 DEF SleepsAsDocumented
<1>3. CASE Load
  BY <1>2, <1>3 DEF Load, RunInv
<1>4. CASE Charge
  BY <1>2, <1>4 DEF Charge
<1>5. CASE Accepted \/ GiveUp
  BY <1>2, <1>5 DEF Accepted, GiveUp
<1>6. ASSUME UNCHANGED <<cfg, attempt, slept>> PROVE SleepsAsDocumented'
  BY <1>6 DEF SleepsAsDocumented, Capped, base, max
<1> QED
  BY <1>1, <1>3, <1>4, <1>5, <1>6 DEF Next, New, Reclaim, NewTicker, vars

\* The wait before a retry is between half of BaseBackoff * 2^(attempt-1), capped
\* at MaxBackoff, and all of it, at every attempt and for integers of any width,
\* although the shift of backoff overflows.
THEOREM WaitsAreAsDocumented == Spec => []SleepsAsDocumented
<1>1. Init => SleepsAsDocumented
  BY DEF Init, SleepsAsDocumented
<1>2. RunInv /\ SleepsAsDocumented /\ [Next]_vars => SleepsAsDocumented'
  BY SleepStep
<1> QED
  BY <1>1, <1>2, RunAlways, PTL DEF Spec

-----------------------------------------------------------------------------
(***************************************************************************)
(* The time of a charge.  Before attempt n it has made n - 1 attempts and  *)
(* n - 1 waits.                                                            *)
(***************************************************************************)

TimeInv ==
  /\ ChargeIsBounded
  /\ attempt > 0 =>
       elapsed <= (attempt - 1) * Max({0, Timeout}) + (attempt - 1) * Max({0, max})

\* One more attempt within the budget stays within the bound of the whole run.
LEMMA LastAttempt ==
  ASSUME NEW n \in Nat, NEW R \in Nat, NEW T \in Nat, NEW M \in Nat, NEW e \in Nat,
         NEW t \in Nat, n >= 1, n <= R, t <= T, e <= (n - 1) * T + (n - 1) * M
  PROVE  e + t <= R * T + (R - 1) * M
<1>1. (n - 1) * T + T = n * T
  OBVIOUS
<1>2. PICK k \in Nat : R = n + k
  OBVIOUS
<1>3. R * T = n * T + k * T /\ (R - 1) * M = (n - 1) * M + k * M
  BY <1>2
<1>4. k * T \in Nat /\ k * M \in Nat /\ n * T \in Nat /\ (n - 1) * M \in Nat /\ (n - 1) * T \in Nat
  OBVIOUS
<1> QED
  BY <1>1, <1>3, <1>4

LEMMA TimeStep ==
  ASSUME RunInv, TimeInv, [Next]_vars PROVE TimeInv'
<1>0. /\ Retries \in Int /\ Timeout \in Int /\ max \in Int
      /\ attempt \in Nat /\ elapsed \in Nat /\ cfg \in [Keys -> Width]
  BY SettingTypes
<1>1. PICK T \in Nat, M \in Nat, R \in Nat :
        T = Max({0, Timeout}) /\ M = Max({0, max}) /\ R = Max({0, Retries})
  BY <1>0, MaxZero
<1>2. ASSUME attempt > 0
      PROVE  /\ R = Retries /\ R >= 1 /\ attempt >= 1 /\ attempt <= R
             /\ Max({0, Retries - 1}) = R - 1
             /\ elapsed <= (attempt - 1) * T + (attempt - 1) * M
  <2>1. attempt <= Retries
    BY <1>2 DEF RunInv
  <2>2. R = Retries /\ R >= 1 /\ attempt >= 1
    BY <1>0, <1>1, <1>2, <2>1, MaxZero
  <2>3. Max({0, Retries - 1}) = R - 1
    <3>1. Retries - 1 \in Int
      BY <1>0
    <3>2. Max({0, Retries - 1}) = IF Retries - 1 > 0 THEN Retries - 1 ELSE 0
      BY <3>1, MaxZero
    <3> QED
      BY <2>2, <3>2
  <2>4. elapsed <= (attempt - 1) * T + (attempt - 1) * M
    BY <1>1, <1>2 DEF TimeInv
  <2> QED
    BY <2>1, <2>2, <2>3, <2>4
<1>3. ASSUME attempt > 0, cfg' = cfg, elapsed' <= R * T + (R - 1) * M PROVE ChargeIsBounded'
  BY <1>1, <1>2, <1>3 DEF ChargeIsBounded, Retries, Timeout, max
<1>4. ASSUME attempt > 0, cfg' = cfg, attempt' = 0, NEW t \in Took, elapsed' = elapsed + t
      PROVE  TimeInv'
  <2>1. t \in Nat /\ t <= T
    BY <1>0, <1>1, <1>4, TookIs
  <2>2. elapsed + t <= R * T + (R - 1) * M
    BY <1>0, <1>2, <1>4, <2>1, LastAttempt
  <2>3. ChargeIsBounded'
    BY <1>3, <1>4, <2>2
  <2> QED
    BY <1>4, <2>3 DEF TimeInv
<1>5. CASE Accepted
  BY <1>4, <1>5 DEF Accepted
<1>6. CASE GiveUp
  BY <1>4, <1>6 DEF GiveUp
<1>7. CASE Retry
  <2>0. attempt > 0 /\ attempt < Retries /\ attempt' = attempt + 1 /\ cfg' = cfg
    BY <1>7 DEF Retry, Retries
  <2>1. PICK t \in Took : elapsed' = elapsed + t + Max({0, slept'})
    BY <1>7 DEF Retry
  <2>2. t \in Nat /\ t <= T
    BY <1>0, <1>1, TookIs
  <2>3. slept' \in Int /\ slept' <= max
    BY <1>0, <1>2, <1>7, BackoffIs DEF Retry
  <2>4. PICK w \in Nat : w = Max({0, slept'}) /\ w <= M
    BY <1>0, <1>1, <2>3, MaxZero
  <2>5. PICK n \in Nat : n = attempt /\ n >= 1 /\ n < R /\ elapsed <= (n - 1) * T + (n - 1) * M
    BY <1>0, <1>2, <2>0
  <2>6. (n - 1) * T + T = n * T /\ (n - 1) * M + M = n * M
    OBVIOUS
  <2>7. (n - 1) * T \in Nat /\ (n - 1) * M \in Nat /\ n * T \in Nat /\ n * M \in Nat
    BY <2>5
  <2>8. elapsed' <= n * T + n * M /\ elapsed' \in Nat
    BY <1>0, <2>1, <2>2, <2>4, <2>5, <2>6, <2>7
  <2>9. n * T + n * M <= R * T + (R - 1) * M
    <3>1. PICK k \in Nat : R = n + 1 + k
      BY <2>5
    <3>2. R * T = n * T + T + k * T /\ (R - 1) * M = n * M + k * M
      BY <3>1
    <3>3. k * T \in Nat /\ k * M \in Nat
      OBVIOUS
    <3> QED
      BY <2>7, <3>2, <3>3
  <2>10. ChargeIsBounded'
    <3>1. R * T \in Nat /\ (R - 1) * M \in Nat
      BY <2>5
    <3>2. elapsed' <= R * T + (R - 1) * M
      BY <2>7, <2>8, <2>9, <3>1
    <3> QED
      BY <1>3, <2>0, <3>2
  <2>11. attempt' - 1 = n
    BY <1>0, <2>0, <2>5
  <2> QED
    BY <1>1, <2>0, <2>8, <2>10, <2>11 DEF TimeInv, Timeout, max
<1>8. ASSUME elapsed' = 0, attempt' \in {0, 1}, RunInv' PROVE TimeInv'
  <2>1. Retries' \in Int /\ Timeout' \in Int /\ max' \in Int
    BY <1>8, HalfType DEF RunInv, TypeOK, Retries, Timeout, max, Keys
  <2>2. /\ Max({0, Retries'}) \in Nat /\ Max({0, Timeout'}) \in Nat /\ Max({0, max'}) \in Nat
        /\ Max({0, Retries' - 1}) \in Nat
    BY <2>1, MaxZero
  <2>3. /\ Max({0, Retries'}) * Max({0, Timeout'}) \in Nat
        /\ Max({0, Retries' - 1}) * Max({0, max'}) \in Nat
    BY <2>2
  <2>4. ChargeIsBounded'
    BY <1>8, <2>3 DEF ChargeIsBounded, Retries, Timeout
  <2>5. attempt' > 0 => (attempt' - 1) * Max({0, Timeout'}) + (attempt' - 1) * Max({0, max'}) = 0
    BY <1>8, <2>2
  <2> QED
    BY <1>8, <2>4, <2>5 DEF TimeInv
<1>9. CASE Load
  BY <1>8, <1>9, RunStep DEF Load, RunInv
<1>10. CASE Charge
  BY <1>8, <1>10, RunStep DEF Charge, RunInv
<1>11. ASSUME UNCHANGED <<cfg, attempt, elapsed>> PROVE TimeInv'
  BY <1>11 DEF TimeInv, ChargeIsBounded, Timeout, max
<1> QED
  BY <1>5, <1>6, <1>7, <1>9, <1>10, <1>11 DEF Next, New, Reclaim, NewTicker, vars

\* A run of charge takes at most its attempts at AttemptTimeout each and its waits
\* at MaxBackoff each, whatever the settings are, also those that make no sense.
THEOREM ChargeTakesBoundedTime == Spec => []ChargeIsBounded
<1>1. Init => TimeInv
  <2> SUFFICES ASSUME Init PROVE TimeInv
    OBVIOUS
  <2>1. RunInv
    BY RunInit
  <2>2. Retries \in Int /\ Timeout \in Int /\ max \in Int
    BY <2>1, SettingTypes
  <2>3. /\ Max({0, Retries}) \in Nat /\ Max({0, Timeout}) \in Nat /\ Max({0, max}) \in Nat
        /\ Max({0, Retries - 1}) \in Nat
    BY <2>2, MaxZero
  <2>4. /\ Max({0, Retries}) * Max({0, Timeout}) \in Nat
        /\ Max({0, Retries - 1}) * Max({0, max}) \in Nat
    BY <2>3
  <2>5. elapsed = 0 /\ attempt = 0
    BY DEF Init
  <2> QED
    BY <2>4, <2>5 DEF TimeInv, ChargeIsBounded, Retries, Timeout
<1>2. RunInv /\ TimeInv /\ [Next]_vars => TimeInv'
  BY TimeStep
<1>3. TimeInv => ChargeIsBounded
  BY DEF TimeInv
<1> QED
  BY <1>1, <1>2, <1>3, RunAlways, PTL DEF Spec

-----------------------------------------------------------------------------
(***************************************************************************)
(* Usable settings.                                                        *)
(***************************************************************************)

AllUsable == \A k \in Keys \ {"WORKER_SWEEP_BATCH_SIZE"} : Usable(k)

\* Load makes positive numbers of usable settings, which the guards of New,
\* reclaim, NewTicker and charge then pass.
ServeInv ==
  AllUsable =>
    /\ server # "down" => \A k \in Keys \ {"WORKER_SWEEP_BATCH_SIZE"} : cfg[k] > 0
    /\ server \notin {"refused", "panicked"}
    /\ sweeper \in {"swept", "ticking"} => limit > 0
    /\ outcome # "unasked"

LEMMA ServeStep ==
  ASSUME RunInv, ServeInv, [Next]_vars PROVE ServeInv'
<1>0. \A k \in Keys : cfg[k] \in Int
  BY SettingTypes
<1> SUFFICES ASSUME AllUsable'
             PROVE  /\ server' # "down" =>
                         \A k \in Keys \ {"WORKER_SWEEP_BATCH_SIZE"} : cfg'[k] > 0
                    /\ server' \notin {"refused", "panicked"}
                    /\ sweeper' \in {"swept", "ticking"} => limit' > 0
                    /\ outcome' # "unasked"
  BY DEF ServeInv
<1>1. env' = env /\ file' = file
  BY DEF Next, Load, New, Reclaim, NewTicker, Charge, Accepted, Retry, GiveUp, vars
<1>2. AllUsable
  BY <1>1 DEF AllUsable, Usable
<1>3. /\ server # "down" => \A k \in Keys \ {"WORKER_SWEEP_BATCH_SIZE"} : cfg[k] > 0
      /\ server \notin {"refused", "panicked"}
      /\ sweeper \in {"swept", "ticking"} => limit > 0
      /\ outcome # "unasked"
  BY <1>2 DEF ServeInv
<1>4. /\ {"SERVER_PORT", "WORKER_QUEUE_SIZE", "WORKER_SWEEP_INTERVAL", "WORKER_MAX_RETRIES"}
           \subseteq Keys \ {"WORKER_SWEEP_BATCH_SIZE"}
      /\ "WORKER_SWEEP_BATCH_SIZE" \in Keys
  BY DEF Keys
<1>5. CASE Load
  <2>1. ASSUME NEW k \in Keys \ {"WORKER_SWEEP_BATCH_SIZE"} PROVE Convert(Get(k)) > 0
    <3>1. Usable(k)
      BY <1>2 DEF AllUsable
    <3>2. Default[k] \in {n \in Width : n > 0}
      BY SettingsAssumption
    <3>3. Get(k) \in {n \in Width : n > 0}
      BY <3>1, <3>2 DEF Get, Usable
    <3> QED
      BY <3>3 DEF Convert
  <2>2. \A k \in Keys \ {"WORKER_SWEEP_BATCH_SIZE"} : cfg'[k] > 0
    BY <1>5, <2>1 DEF Load
  <2>3. cfg'["SERVER_PORT"] # 0
    BY <1>4, <2>2
  <2> QED
    BY <1>3, <1>5, <2>2, <2>3 DEF Load
<1>6. CASE New
  <2>1. server = "loaded" /\ ~(cfg["WORKER_QUEUE_SIZE"] < 0)
    BY <1>0, <1>3, <1>4, <1>6 DEF New
  <2> QED
    BY <1>3, <1>6, <2>1 DEF New
<1>7. CASE Reclaim
  <2>1. Batch > 0
    BY <1>0, <1>3, <1>4, <1>7 DEF Reclaim, Batch
  <2> QED
    BY <1>3, <1>7, <2>1 DEF Reclaim
<1>8. CASE NewTicker
  <2>1. ~(cfg["WORKER_SWEEP_INTERVAL"] <= 0)
    BY <1>0, <1>3, <1>4, <1>8 DEF NewTicker
  <2> QED
    BY <1>3, <1>8, <2>1 DEF NewTicker
<1>9. CASE Charge
  <2>1. ~(cfg["WORKER_MAX_RETRIES"] <= 0)
    BY <1>0, <1>3, <1>4, <1>9 DEF Charge
  <2> QED
    BY <1>3, <1>9, <2>1 DEF Charge
<1>10. CASE Accepted \/ Retry \/ GiveUp
  BY <1>3, <1>10 DEF Accepted, Retry, GiveUp
<1>11. CASE UNCHANGED vars
  BY <1>3, <1>11 DEF vars
<1> QED
  BY <1>5, <1>6, <1>7, <1>8, <1>9, <1>10, <1>11 DEF Next

\* With settings that are positive numbers wherever they are made, the server
\* comes up, its sweeper asks for rows and ticks, and every charge is asked for.
THEOREM UsableSettingsAreEnough == Spec => []UsableSettingsServe
<1>1. Init => ServeInv
  BY DEF Init, ServeInv
<1>2. RunInv /\ ServeInv /\ [Next]_vars => ServeInv'
  BY ServeStep
<1>3. ServeInv => UsableSettingsServe
  BY DEF ServeInv, UsableSettingsServe, AllUsable
<1> QED
  BY <1>1, <1>2, <1>3, RunAlways, PTL DEF Spec

=============================================================================
