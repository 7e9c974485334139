----------------------- MODULE CardEmulatorConfigProofs -----------------------
(***************************************************************************)
(* CardEmulatorConfig for every file: the emulator gets what the file says *)
(* last, and a number is the one that its digits write, wrapped.           *)
(***************************************************************************)
EXTENDS CardEmulatorConfig, SequenceTheorems, FiniteSetTheorems, WellFoundedInduction, TLAPS

-----------------------------------------------------------------------------
(* Induction over the natural numbers, for a set: the least number that is *)
(* not in it would have one before it that is.                             *)

Below == OpToRel(<, Nat)

LEMMA Least ==
  ASSUME NEW S \in SUBSET Nat, S # {}
  PROVE  \E n \in S : \A m \in S : n <= m
<1>1. IsWellFoundedOn(Below, Nat)
  BY NatLessThanWellFounded DEF Below
<1>2. PICK n \in S : \A m \in S : ~ (<<m, n>> \in Below)
  BY <1>1, WFMin
<1>3. Below = {ss \in Nat \X Nat : ss[1] < ss[2]}
  BY DEF Below, OpToRel
<1>4. \A m \in S : ~ m < n
  BY <1>2, <1>3
<1> QED BY <1>4

LEMMA Induction ==
  ASSUME NEW S \in SUBSET Nat, 0 \in S, \A n \in S : n + 1 \in S
  PROVE  S = Nat
<1> SUFFICES ASSUME Nat \ S # {} PROVE FALSE
  OBVIOUS
<1>1. PICK n \in Nat \ S : \A m \in Nat \ S : n <= m
  BY Least
<1>2. n # 0
  OBVIOUS
<1>3. n - 1 \in Nat /\ n - 1 \in S
  BY <1>1, <1>2
<1> QED BY <1>3

-----------------------------------------------------------------------------
(* Numbers.                                                                *)

(* A function of 0 .. n that is given at 0, and each time by the one       *)
(* before, exists.                                                         *)
Turns(f, str, n) ==
  f = [i \in 0 .. n |-> IF i = 0 THEN 0 ELSE (f[i - 1] * 10 + DigitOf(str[i])) % UIntSize]

Places(f, n) == f = [i \in 0 .. n |-> IF i = 0 THEN 1 ELSE 10 * f[i - 1]]

Sums(f, p, str, l, n) ==
  f = [i \in 0 .. n |-> IF i = 0 THEN 0 ELSE f[i - 1] + DigitOf(str[l + 1 - i]) * p[i - 1]]

LEMMA TurnsExist ==
  ASSUME NEW str, NEW n \in Nat
  PROVE  \E f : Turns(f, str, n)
<1> DEFINE S == {m \in Nat : \E f : Turns(f, str, m)}
<1>1. 0 \in S
  <2>1. Turns([i \in 0 .. 0 |-> 0], str, 0)
    BY DEF Turns
  <2> QED BY <2>1
<1>2. ASSUME NEW m \in S PROVE m + 1 \in S
  <2>0. m \in Nat
    OBVIOUS
  <2>1. PICK f : Turns(f, str, m)
    OBVIOUS
  <2> DEFINE g == [i \in 0 .. m + 1 |->
                     IF i = m + 1 THEN (f[m] * 10 + DigitOf(str[m + 1])) % UIntSize ELSE f[i]]
  <2>2. \A i \in 0 .. m : f[i] = IF i = 0 THEN 0 ELSE (f[i - 1] * 10 + DigitOf(str[i])) % UIntSize
    BY <2>1 DEF Turns
  <2>3. \A i \in 0 .. m + 1 : g[i] = IF i = 0 THEN 0 ELSE (g[i - 1] * 10 + DigitOf(str[i])) % UIntSize
    BY <2>0, <2>2
  <2>4. g = [i \in 0 .. m + 1 |-> g[i]]
    OBVIOUS
  <2> HIDE DEF g
  <2>5. Turns(g, str, m + 1)
    BY <2>3, <2>4 DEF Turns
  <2> QED BY <2>0, <2>5
<1> HIDE DEF S
<1>3. S \in SUBSET Nat
  BY DEF S
<1>4. S = Nat
  BY <1>1, <1>2, <1>3, Induction
<1> QED BY <1>4 DEF S

LEMMA PlacesExist ==
  ASSUME NEW n \in Nat
  PROVE  \E f : Places(f, n)
<1> DEFINE S == {m \in Nat : \E f : Places(f, m)}
<1>1. 0 \in S
  <2>1. Places([i \in 0 .. 0 |-> 1], 0)
    BY DEF Places
  <2> QED BY <2>1
<1>2. ASSUME NEW m \in S PROVE m + 1 \in S
  <2>0. m \in Nat
    OBVIOUS
  <2>1. PICK f : Places(f, m)
    OBVIOUS
  <2> DEFINE g == [i \in 0 .. m + 1 |-> IF i = m + 1 THEN 10 * f[m] ELSE f[i]]
  <2>2. \A i \in 0 .. m : f[i] = IF i = 0 THEN 1 ELSE 10 * f[i - 1]
    BY <2>1 DEF Places
  <2>3. \A i \in 0 .. m + 1 : g[i] = IF i = 0 THEN 1 ELSE 10 * g[i - 1]
    BY <2>0, <2>2
  <2>4. g = [i \in 0 .. m + 1 |-> g[i]]
    OBVIOUS
  <2> HIDE DEF g
  <2>5. Places(g, m + 1)
    BY <2>3, <2>4 DEF Places
  <2> QED BY <2>0, <2>5
<1> HIDE DEF S
<1>3. S \in SUBSET Nat
  BY DEF S
<1>4. S = Nat
  BY <1>1, <1>2, <1>3, Induction
<1> QED BY <1>4 DEF S

LEMMA SumsExist ==
  ASSUME NEW p, NEW str, NEW l, NEW n \in Nat
  PROVE  \E f : Sums(f, p, str, l, n)
<1> DEFINE S == {m \in Nat : \E f : Sums(f, p, str, l, m)}
<1>1. 0 \in S
  <2>1. Sums([i \in 0 .. 0 |-> 0], p, str, l, 0)
    BY DEF Sums
  <2> QED BY <2>1
<1>2. ASSUME NEW m \in S PROVE m + 1 \in S
  <2>0. m \in Nat
    OBVIOUS
  <2>1. PICK f : Sums(f, p, str, l, m)
    OBVIOUS
  <2> DEFINE g == [i \in 0 .. m + 1 |->
                     IF i = m + 1 THEN f[m] + DigitOf(str[l + 1 - (m + 1)]) * p[m] ELSE f[i]]
  <2>2. \A i \in 0 .. m : f[i] = IF i = 0 THEN 0 ELSE f[i - 1] + DigitOf(str[l + 1 - i]) * p[i - 1]
    BY <2>1 DEF Sums
  <2>3. \A i \in 0 .. m + 1 : g[i] = IF i = 0 THEN 0 ELSE g[i - 1] + DigitOf(str[l + 1 - i]) * p[i - 1]
    BY <2>0, <2>2
  <2>4. g = [i \in 0 .. m + 1 |-> g[i]]
    OBVIOUS
  <2> HIDE DEF g
  <2>5. Sums(g, p, str, l, m + 1)
    BY <2>3, <2>4 DEF Sums
  <2> QED BY <2>0, <2>5
<1> HIDE DEF S
<1>3. S \in SUBSET Nat
  BY DEF S
<1>4. S = Nat
  BY <1>1, <1>2, <1>3, Induction
<1> QED BY <1>4 DEF S

Uint == 0 .. UIntSize - 1

LEMMA DigitType ==
  ASSUME NEW str \in Seq(Tokens), Numeric(str), NEW i \in 1 .. Len(str)
  PROVE  DigitOf(str[i]) \in 0 .. 9
<1>1. str[i] \in ToSet(Digits)
  <2>1. i \in DOMAIN str
    OBVIOUS
  <2>2. str[i] \in ToSet(str)
    BY <2>1 DEF ToSet
  <2> QED BY <2>2 DEF Numeric
<1>2. DOMAIN Digits = 1 .. 10
  BY DEF Digits
<1>3. \E n \in 1 .. 10 : Digits[n] = str[i]
  BY <1>1, <1>2 DEF ToSet
<1>4. (CHOOSE n \in 1 .. 10 : Digits[n] = str[i]) \in 1 .. 10
  BY <1>3
<1> QED BY <1>4 DEF DigitOf

(* ret in the loop of strToUInt.                                           *)
LEMMA Loop ==
  ASSUME NEW str \in Seq(Tokens), Numeric(str)
  PROVE  \E ret :
           /\ ret[0] = 0 /\ strToUInt(str) = ret[Len(str)]
           /\ \A i \in 0 .. Len(str) : ret[i] \in Uint
           /\ \A i \in 1 .. Len(str) : ret[i] = (ret[i - 1] * 10 + DigitOf(str[i])) % UIntSize
<1> DEFINE ret[i \in 0 .. Len(str)] ==
             IF i = 0 THEN 0 ELSE (ret[i - 1] * 10 + DigitOf(str[i])) % UIntSize
<1>0. Len(str) \in Nat /\ UIntSize \in Nat /\ UIntSize > 0
  BY ConfigAssumption
<1>1. ret = CHOOSE f : Turns(f, str, Len(str))
  BY DEF Turns
<1>2. Turns(ret, str, Len(str))
  BY <1>0, <1>1, TurnsExist
<1>3. strToUInt(str) = ret[Len(str)]
  BY DEF strToUInt
<1> HIDE DEF ret
<1>4. /\ ret[0] = 0
      /\ \A i \in 1 .. Len(str) : ret[i] = (ret[i - 1] * 10 + DigitOf(str[i])) % UIntSize
  BY <1>0, <1>2 DEF Turns
<1> DEFINE S == {m \in Nat : m <= Len(str) => ret[m] \in Uint}
<1>5. 0 \in S
  BY <1>0, <1>4 DEF Uint
<1>6. ASSUME NEW m \in S PROVE m + 1 \in S
  <2> SUFFICES ASSUME m + 1 <= Len(str) PROVE ret[m + 1] \in Uint
    OBVIOUS
  <2>1. m \in Nat /\ ret[m] \in Uint /\ m + 1 \in 1 .. Len(str) /\ (m + 1) - 1 = m
    BY <1>0
  <2>2. ret[m + 1] = (ret[m] * 10 + DigitOf(str[m + 1])) % UIntSize
    BY <1>4, <2>1
  <2>3. ret[m] * 10 + DigitOf(str[m + 1]) \in Nat
    <3>1. DigitOf(str[m + 1]) \in 0 .. 9
      BY <2>1, DigitType
    <3>2. ret[m] \in Nat
      BY <1>0, <2>1 DEF Uint
    <3>3. \A x \in Nat, d \in 0 .. 9 : x * 10 + d \in Nat
      OBVIOUS
    <3> QED BY <3>1, <3>2, <3>3
  <2> QED BY <1>0, <2>2, <2>3 DEF Uint
<1> HIDE DEF S
<1>7. S = Nat
  <2>1. S \in SUBSET Nat
    BY DEF S
  <2> QED BY <1>5, <1>6, <2>1, Induction
<1>8. \A i \in 0 .. Len(str) : ret[i] \in Uint
  BY <1>0, <1>7 DEF S
<1> QED BY <1>3, <1>4, <1>8

LEMMA PlacesAndSums ==
  ASSUME NEW str \in Seq(Tokens)
  PROVE  \E place, sum :
           /\ place[0] = 1 /\ sum[0] = 0 /\ Decimal(str) = sum[Len(str)]
           /\ \A i \in 0 .. Len(str) - 1 :
                /\ place[i + 1] = 10 * place[i]
                /\ sum[i + 1] = sum[i] + DigitOf(str[Len(str) - i]) * place[i]
<1> DEFINE n == Len(str)
           place[i \in 0 .. n] == IF i = 0 THEN 1 ELSE 10 * place[i - 1]
           sum[i \in 0 .. n] == IF i = 0 THEN 0 ELSE sum[i - 1] + DigitOf(str[n + 1 - i]) * place[i - 1]
<1>0. n \in Nat
  OBVIOUS
<1>1. Decimal(str) = sum[n]
  BY DEF Decimal
<1>2. place = CHOOSE f : Places(f, n)
  BY DEF Places
<1>3. Places(place, n)
  BY <1>0, <1>2, PlacesExist
<1> HIDE DEF place
<1>4. sum = CHOOSE f : Sums(f, place, str, n, n)
  BY DEF Sums
<1>5. Sums(sum, place, str, n, n)
  BY <1>0, <1>4, SumsExist
<1> HIDE DEF sum
<1>6. /\ place[0] = 1 /\ sum[0] = 0
      /\ \A i \in 1 .. n : /\ place[i] = 10 * place[i - 1]
                           /\ sum[i] = sum[i - 1] + DigitOf(str[n + 1 - i]) * place[i - 1]
  <2> HIDE DEF n
  <2>1. place[0] = 1 /\ \A i \in 1 .. n : place[i] = 10 * place[i - 1]
    BY <1>0, <1>3 DEF Places
  <2>2. sum[0] = 0 /\ \A i \in 1 .. n : sum[i] = sum[i - 1] + DigitOf(str[n + 1 - i]) * place[i - 1]
    BY <1>0, <1>5 DEF Sums
  <2> QED BY <2>1, <2>2
<1>7. \A i \in 0 .. n - 1 : /\ place[i + 1] = 10 * place[i]
                            /\ sum[i + 1] = sum[i] + DigitOf(str[n - i]) * place[i]
  <2> TAKE i \in 0 .. n - 1
  <2>1. i + 1 \in 1 .. n /\ (i + 1) - 1 = i /\ n + 1 - (i + 1) = n - i
    BY <1>0
  <2> QED BY <1>6, <2>1
<1> QED BY <1>1, <1>6, <1>7

LEMMA Remainder ==
  ASSUME NEW r \in Uint, NEW c \in Nat
  PROVE  (r + UIntSize * c) % UIntSize = r
<1> DEFINE x == r + UIntSize * c
           q == x \div UIntSize
           s == x % UIntSize
<1>0. UIntSize \in Nat /\ UIntSize > 0 /\ r \in Nat /\ r < UIntSize
  BY ConfigAssumption DEF Uint
<1>1. x \in Nat
  BY <1>0
<1>2. q \in Nat /\ s \in Nat /\ s < UIntSize /\ x = UIntSize * q + s
  <2> HIDE DEF x
  <2> QED BY <1>0, <1>1
<1> HIDE DEF q, s
<1>3. q = c
  <2>1. r + UIntSize * c = UIntSize * q + s
    BY <1>2
  <2>2. ~ q > c
    <3> SUFFICES ASSUME q >= c + 1 PROVE FALSE
      BY <1>2
    <3>1. UIntSize * q >= UIntSize * (c + 1)
      BY <1>0, <1>2
    <3> QED BY <1>0, <1>2, <2>1, <3>1
  <2>3. ~ c > q
    <3> SUFFICES ASSUME c >= q + 1 PROVE FALSE
      BY <1>2
    <3>1. UIntSize * c >= UIntSize * (q + 1)
      BY <1>0, <1>2
    <3> QED BY <1>0, <1>2, <2>1, <3>1
  <2> QED BY <1>2, <2>2, <2>3
<1>4. s = r
  <2> HIDE DEF x
  <2>1. x = UIntSize * c + r
    BY <1>0 DEF x
  <2>2. UIntSize * c \in Nat
    BY <1>0
  <2> QED BY <1>0, <1>2, <1>3, <2>1, <2>2
<1> QED BY <1>4 DEF s

(* The number that the loop makes of digits is the one that they write,    *)
(* wrapped to an unsigned int, however many there are: what is read so far *)
(* with the weight of the digits that follow, and those, stay the number.  *)
THEOREM UIntIsDecimal ==
  ASSUME NEW str \in Seq(Tokens), Numeric(str)
  PROVE  strToUInt(str) \in Uint /\ strToUInt(str) = Decimal(str) % UIntSize
<1> DEFINE n == Len(str)
<1>0. n \in Nat /\ UIntSize \in Nat /\ UIntSize > 0
  BY ConfigAssumption
<1>1. PICK ret :
        /\ ret[0] = 0 /\ strToUInt(str) = ret[n]
        /\ \A i \in 0 .. n : ret[i] \in Uint
        /\ \A i \in 1 .. n : ret[i] = (ret[i - 1] * 10 + DigitOf(str[i])) % UIntSize
  BY Loop
<1>2. PICK place, sum :
        /\ place[0] = 1 /\ sum[0] = 0 /\ Decimal(str) = sum[n]
        /\ \A i \in 0 .. n - 1 : /\ place[i + 1] = 10 * place[i]
                                 /\ sum[i + 1] = sum[i] + DigitOf(str[n - i]) * place[i]
  BY PlacesAndSums
<1> DEFINE S == {m \in Nat : m <= n =>
                   /\ place[m] \in Nat /\ sum[m] \in Nat
                   /\ \E c \in Nat : ret[n - m] * place[m] + sum[m] = ret[n] + UIntSize * c}
<1>3. 0 \in S
  <2>1. n - 0 = n /\ ret[n] \in Nat
    BY <1>0, <1>1 DEF Uint
  <2>2. ret[n] * 1 + 0 = ret[n] + UIntSize * 0
    BY <1>0, <2>1
  <2> QED BY <1>2, <2>1, <2>2
<1>4. ASSUME NEW m \in S PROVE m + 1 \in S
  <2> SUFFICES ASSUME m + 1 <= n
               PROVE  /\ place[m + 1] \in Nat /\ sum[m + 1] \in Nat
                      /\ \E c \in Nat : ret[n - (m + 1)] * place[m + 1] + sum[m + 1] = ret[n] + UIntSize * c
    BY <1>0
  <2>1. m \in Nat /\ place[m] \in Nat /\ sum[m] \in Nat
    BY <1>0
  <2>2. PICK c \in Nat : ret[n - m] * place[m] + sum[m] = ret[n] + UIntSize * c
    BY <1>0, <2>1
  <2>3. m \in 0 .. n - 1 /\ n - m \in 1 .. n /\ (n - m) - 1 = n - (m + 1) /\ n - (m + 1) \in 0 .. n
    BY <1>0, <2>1
  <2>4. PICK p \in Nat, s \in Nat, d \in Nat, h \in Nat, r \in Nat, z \in Nat :
          p = place[m] /\ s = sum[m] /\ d = DigitOf(str[n - m]) /\ h = ret[n - (m + 1)] /\ r = ret[n - m] /\ z = ret[n]
    <3>1. DigitOf(str[n - m]) \in Nat
      <4>1. n - m \in 1 .. Len(str)
        BY <2>3
      <4>2. DigitOf(str[n - m]) \in 0 .. 9
        BY <4>1, DigitType
      <4> QED BY <4>2
    <3>2. \A i \in 0 .. n : ret[i] \in Nat
      BY <1>0, <1>1 DEF Uint
    <3>3. n - m \in 0 .. n /\ n \in 0 .. n
      BY <1>0, <2>3
    <3> QED BY <2>1, <2>3, <3>1, <3>2, <3>3
  <2>5. place[m + 1] = 10 * p /\ sum[m + 1] = s + d * p
    BY <1>2, <2>3, <2>4
  <2>6. r = (h * 10 + d) % UIntSize
    BY <1>1, <2>3, <2>4
  <2>7. PICK q \in Nat : h * 10 + d = UIntSize * q + r
    <3> DEFINE x == h * 10 + d
               q == x \div UIntSize
    <3>1. x \in Nat
      OBVIOUS
    <3>2. q \in Nat /\ x = UIntSize * q + (x % UIntSize)
      <4> HIDE DEF x
      <4> QED BY <1>0, <3>1
    <3> HIDE DEF q
    <3> QED BY <2>6, <3>2
  <2>8. r * p + s = z + UIntSize * c
    BY <2>2, <2>4
  <2>9. h * (10 * p) + (s + d * p) = z + UIntSize * (c + q * p)
    <3>1. h * (10 * p) + (s + d * p) = (h * 10 + d) * p + s
      OBVIOUS
    <3>2. (UIntSize * q + r) * p + s = UIntSize * (q * p) + (r * p + s)
      BY <1>0
    <3>3. UIntSize * (q * p) + (z + UIntSize * c) = z + UIntSize * (c + q * p)
      BY <1>0
    <3> QED BY <2>7, <2>8, <3>1, <3>2, <3>3
  <2>10. 10 * p \in Nat /\ s + d * p \in Nat /\ c + q * p \in Nat
    OBVIOUS
  <2> QED BY <2>4, <2>5, <2>9, <2>10
<1> HIDE DEF S
<1>5. n \in S
  <2>1. S \in SUBSET Nat
    BY DEF S
  <2>2. S = Nat
    BY <1>3, <1>4, <2>1, Induction
  <2> QED BY <1>0, <2>2
<1>6. PICK c \in Nat : ret[0] * place[n] + sum[n] = ret[n] + UIntSize * c /\ place[n] \in Nat /\ sum[n] \in Nat
  <2>1. n <= n /\ n - n = 0
    BY <1>0
  <2> QED BY <1>5, <2>1 DEF S
<1>7. sum[n] = ret[n] + UIntSize * c
  BY <1>1, <1>6
<1>8. ret[n] \in Uint
  BY <1>0, <1>1
<1> QED BY <1>1, <1>2, <1>7, <1>8, Remainder

-----------------------------------------------------------------------------
(* Lines.                                                                  *)

(* What UpTo cuts off begins with a token of ends, and none precedes it.   *)
LEMMA UpToIs ==
  ASSUME NEW tokens \in Seq(Tokens), NEW ends
  PROVE  \E n \in 0 .. Len(tokens) :
           /\ UpTo(tokens, ends) \in Seq(Tokens) /\ Len(UpTo(tokens, ends)) = n
           /\ \A i \in 1 .. n : UpTo(tokens, ends)[i] = tokens[i] /\ tokens[i] \notin ends
           /\ n < Len(tokens) => tokens[n + 1] \in ends
<1> DEFINE at == {i \in 1 .. Len(tokens) : tokens[i] \in ends}
<1>1. CASE at = {}
  <2>1. UpTo(tokens, ends) = tokens
    BY <1>1 DEF UpTo
  <2> QED BY <1>1, <2>1
<1>2. CASE at # {}
  <2>1. Min(at) \in at /\ \A j \in at : Min(at) <= j
    <3>1. \E i \in at : \A j \in at : i <= j
      <4>1. at \in SUBSET Nat
        OBVIOUS
      <4> HIDE DEF at
      <4> QED BY <1>2, <4>1, Least
    <3> HIDE DEF at
    <3> QED BY <3>1 DEF Min
  <2> DEFINE n == Min(at) - 1
  <2>2. Min(at) \in Nat /\ n \in 0 .. Len(tokens) /\ n + 1 = Min(at) /\ tokens[n + 1] \in ends
    BY <2>1
  <2>3. UpTo(tokens, ends) = SubSeq(tokens, 1, n)
    BY <1>2 DEF UpTo
  <2> HIDE DEF n
  <2>4. \A i \in 1 .. n : tokens[i] \notin ends /\ tokens[i] \in Tokens
    BY <2>1, <2>2
  <2>5. /\ SubSeq(tokens, 1, n) \in Seq(Tokens)
        /\ Len(SubSeq(tokens, 1, n)) = n
        /\ \A i \in 1 .. n : SubSeq(tokens, 1, n)[i] = tokens[i]
    BY <2>2
  <2> QED BY <2>2, <2>3, <2>4, <2>5
<1> QED BY <1>1, <1>2

(* The first n tokens say something; the key is the first m of them, and   *)
(* when there are more the next one is "=".                                *)
Shape(tokens, n, m) ==
  /\ n \in 0 .. Len(tokens) /\ m \in 0 .. n
  /\ Said(tokens) = 1 .. n /\ Cardinality(Said(tokens)) = n
  /\ Cleaned(tokens) \in Seq(Tokens) /\ Len(Cleaned(tokens)) = n
  /\ Key(tokens) \in Seq(Tokens) /\ Len(Key(tokens)) = m
  /\ \A i \in 1 .. n : Cleaned(tokens)[i] = tokens[i]
  /\ \A i \in 1 .. m : Key(tokens)[i] = tokens[i] /\ tokens[i] # "="
  /\ m < n => tokens[m + 1] = "="

LEMMA ShapeExists ==
  ASSUME NEW tokens \in Seq(Tokens)
  PROVE  \E n, m : Shape(tokens, n, m)
<1>1. PICK n \in 0 .. Len(tokens) :
        /\ Cleaned(tokens) \in Seq(Tokens) /\ Len(Cleaned(tokens)) = n
        /\ \A i \in 1 .. n : Cleaned(tokens)[i] = tokens[i] /\ tokens[i] \notin {"#", " "}
        /\ n < Len(tokens) => tokens[n + 1] \in {"#", " "}
  BY UpToIs DEF Cleaned
<1>2. PICK m \in 0 .. n :
        /\ Key(tokens) \in Seq(Tokens) /\ Len(Key(tokens)) = m
        /\ \A i \in 1 .. m : Key(tokens)[i] = Cleaned(tokens)[i] /\ Cleaned(tokens)[i] \notin {"="}
        /\ m < n => Cleaned(tokens)[m + 1] \in {"="}
  BY <1>1, UpToIs DEF Key
<1>0. n \in Nat /\ m \in Nat /\ m <= n /\ Len(tokens) \in Nat /\ n <= Len(tokens)
  OBVIOUS
<1>3. Said(tokens) = 1 .. n
  <2>1. ASSUME NEW i \in 1 .. n PROVE i \in Said(tokens)
    <3>1. i \in 1 .. Len(tokens) /\ \A j \in 1 .. i : j \in 1 .. n
      BY <1>0
    <3>2. \A j \in 1 .. i : tokens[j] \notin {"#", " "}
      BY <1>1, <3>1
    <3> QED BY <3>1, <3>2 DEF Said
  <2>2. ASSUME NEW i \in Said(tokens) PROVE i \in 1 .. n
    <3>0. i \in 1 .. Len(tokens)
      BY DEF Said
    <3>1. \A j \in 1 .. i : tokens[j] \notin {"#", " "}
      BY DEF Said
    <3>2. CASE i > n
      <4>1. n + 1 \in 1 .. i /\ n < Len(tokens)
        BY <1>0, <3>0, <3>2
      <4> QED BY <1>1, <3>1, <4>1
    <3> QED BY <1>0, <3>0, <3>2
  <2> QED BY <2>1, <2>2
<1>4. Cardinality(1 .. n) = n
  BY FS_Interval
<1>5. /\ \A i \in 1 .. n : Cleaned(tokens)[i] = tokens[i]
      /\ \A i \in 1 .. m : Key(tokens)[i] = tokens[i] /\ tokens[i] # "="
      /\ m < n => tokens[m + 1] = "="
  <2>1. \A i \in 1 .. n : Cleaned(tokens)[i] = tokens[i]
    BY <1>1
  <2>2. \A i \in 1 .. m : i \in 1 .. n
    BY <1>0
  <2>3. m < n => m + 1 \in 1 .. n
    BY <1>0
  <2>4. \A i \in 1 .. m : Key(tokens)[i] = Cleaned(tokens)[i] /\ Cleaned(tokens)[i] # "="
    BY <1>2
  <2>5. m < n => Cleaned(tokens)[m + 1] = "="
    BY <1>2
  <2> QED BY <2>1, <2>2, <2>3, <2>4, <2>5
<1>6. Shape(tokens, n, m)
  BY <1>1, <1>2, <1>3, <1>4, <1>5, Zenon DEF Shape
<1> QED BY <1>6, Zenon

(* The keys that a line may assign to. *)
Keys == {"type", "dev_name", "data_tx_delay", "reset_delay"}

(* The constructor and the plain reading see the same assignment: a key of *)
(* two words with a value, and the words before the first "=".             *)
LEMMA AssignsIs ==
  ASSUME NEW tokens \in Seq(Tokens), NEW key \in Keys
  PROVE  /\ Assigns(tokens, key) <=> HasValue(tokens) /\ configKey(tokens) = <<key>>
         /\ Assigns(tokens, key) => /\ Value(tokens) = Assigned(tokens)
                                    /\ Assigned(tokens) \in Seq(Tokens)
<1>1. PICK n, m : Shape(tokens, n, m)
  BY ShapeExists
<1>2. key # "="
  BY DEF Keys
<1>3. n \in Nat /\ m \in Nat /\ m <= n /\ n <= Len(tokens)
  BY <1>1 DEF Shape
<1>4. Assigns(tokens, key) <=> n >= 3 /\ tokens[1] = "card_emulator." /\ tokens[2] = key /\ tokens[3] = "="
  <2>1. {1, 2, 3} \subseteq Said(tokens) <=> n >= 3
    BY <1>1, <1>3 DEF Shape
  <2>2. CASE n >= 3
    <3> DEFINE start == SubSeq(tokens, 1, 3)
    <3>1. /\ start \in Seq(Tokens) /\ Len(start) = 3
          /\ start[1] = tokens[1] /\ start[2] = tokens[2] /\ start[3] = tokens[3]
      <4>1. \A i \in 1 .. 3 : tokens[i] \in Tokens
        BY <1>3, <2>2
      <4>2. start \in Seq(Tokens) /\ Len(start) = 3 - 1 + 1 /\ \A i \in 1 .. 3 - 1 + 1 : start[i] = tokens[1 + i - 1]
        BY <4>1, SubSeqProperties
      <4> QED BY <4>2
    <3> HIDE DEF start
    <3>2. start = <<tokens[1], tokens[2], tokens[3]>>
      BY <3>1
    <3>3. Assigns(tokens, key) <=> start = <<"card_emulator.", key, "=">>
      BY <2>1, <2>2 DEF Assigns, start
    <3> QED BY <2>2, <3>2, <3>3
  <2>3. CASE ~ n >= 3
    BY <2>1, <2>3 DEF Assigns
  <2> QED BY <2>2, <2>3
<1>5. configKey(tokens) = <<key>> <=> m = 2 /\ tokens[1] = "card_emulator." /\ tokens[2] = key
  <2>1. CASE m = 0
    <3>1. Key(tokens) = <<>>
      BY <1>1, <2>1 DEF Shape
    <3> QED BY <2>1, <3>1 DEF configKey
  <2>2. CASE m # 0
    <3>1. Key(tokens) # <<>> /\ Head(Key(tokens)) = tokens[1]
      BY <1>1, <1>3, <2>2 DEF Shape
    <3>2. /\ Len(Tail(Key(tokens))) = m - 1
          /\ \A i \in 1 .. m - 1 : Tail(Key(tokens))[i] = tokens[i + 1]
      BY <1>1, <1>3, <2>2, HeadTailProperties DEF Shape
    <3>3. Tail(Key(tokens)) \in Seq(Tokens)
      BY <1>1, <3>1, HeadTailProperties DEF Shape
    <3> DEFINE rest == Tail(Key(tokens))
    <3>5. rest \in Seq(Tokens) /\ Len(rest) = m - 1 /\ \A i \in 1 .. m - 1 : rest[i] = tokens[i + 1]
      BY <3>2, <3>3
    <3> HIDE DEF rest
    <3>4. rest = <<key>> <=> m = 2 /\ tokens[2] = key
      <4>1. ASSUME m = 2, tokens[2] = key PROVE rest = <<key>>
        <5>1. Len(rest) = 1 /\ rest[1] = key
          BY <3>5, <4>1
        <5>2. <<key>> \in Seq(Tokens)
          BY <1>3, <4>1
        <5>3. Len(rest) = Len(<<key>>) /\ \A i \in 1 .. Len(rest) : rest[i] = <<key>>[i]
          BY <5>1
        <5> QED BY <3>5, <5>2, <5>3, SeqEqual
      <4>2. ASSUME rest = <<key>> PROVE m = 2 /\ tokens[2] = key
        <5>1. Len(rest) = 1 /\ rest[1] = key
          BY <4>2
        <5>2. m - 1 = 1
          BY <3>5, <5>1
        <5>3. m = 2
          BY <1>3, <5>2
        <5> QED BY <3>5, <5>1, <5>3
      <4> QED BY <4>1, <4>2
    <3> QED BY <3>1, <3>4 DEF configKey, rest
  <2> QED BY <2>1, <2>2
<1>6. HasValue(tokens) <=> m < n
  BY <1>1 DEF HasValue, Shape
<1>7. Assigns(tokens, key) <=> HasValue(tokens) /\ configKey(tokens) = <<key>>
  <2>1. ASSUME Assigns(tokens, key) PROVE m = 2 /\ m < n
    <3>1. \A i \in 1 .. m : tokens[i] # "="
      BY <1>1 DEF Shape
    <3>2. ~ m >= 3
      BY <1>3, <1>4, <2>1, <3>1
    <3>3. m < n => tokens[m + 1] = "="
      BY <1>1 DEF Shape
    <3>4. m # 0 /\ m # 1
      BY <1>2, <1>3, <1>4, <2>1, <3>3
    <3> QED BY <1>3, <1>4, <2>1, <3>2, <3>4
  <2>2. ASSUME m = 2, m < n PROVE n >= 3 /\ tokens[3] = "="
    BY <1>1, <1>3, <2>2 DEF Shape
  <2> QED BY <1>4, <1>5, <1>6, <2>1, <2>2
<1>8. ASSUME Assigns(tokens, key)
      PROVE  Value(tokens) = Assigned(tokens) /\ Assigned(tokens) \in Seq(Tokens)
  <2>1. m = 2
    BY <1>5, <1>7, <1>8
  <2>2. Value(tokens) = SubSeq(Cleaned(tokens), 4, n) /\ Assigned(tokens) = SubSeq(tokens, 4, n)
    BY <1>1, <2>1 DEF Value, Assigned, Shape
  <2>3. \A i \in 4 .. n : Cleaned(tokens)[i] = tokens[i] /\ tokens[i] \in Tokens
    BY <1>1, <1>3 DEF Shape
  <2>4. SubSeq(Cleaned(tokens), 4, n) = SubSeq(tokens, 4, n)
    BY <1>3, <2>3
  <2>5. SubSeq(tokens, 4, n) \in Seq(Tokens)
    BY <1>3, <2>3, SubSeqProperties
  <2> QED BY <2>2, <2>4, <2>5
<1> QED BY <1>7, <1>8

(* The lines that are refused are those that are not sound; the others set *)
(* a key when they assign to it.                                           *)
LEMMA RefusedIs ==
  ASSUME NEW tokens \in Seq(Tokens)
  PROVE  /\ Refused(tokens) <=> ~ Sound(tokens)
         /\ \A key \in Keys : Sets(tokens, key) <=> Assigns(tokens, key) /\ ~ Refused(tokens)
<1>1. PICK n, m : Shape(tokens, n, m)
  BY ShapeExists
<1>2. n \in Nat /\ m \in Nat /\ m <= n
  BY <1>1 DEF Shape
<1>3. (Cleaned(tokens) = <<>> <=> n = 0) /\ (Said(tokens) = {} <=> n = 0)
  BY <1>1, <1>2 DEF Shape
<1>4. HasValue(tokens) <=> m < n
  BY <1>1 DEF HasValue, Shape
<1>5. (\E i \in Said(tokens) : tokens[i] = "=") <=> m < n
  <2>1. ASSUME m < n PROVE \E i \in Said(tokens) : tokens[i] = "="
    <3>1. m + 1 \in 1 .. n /\ tokens[m + 1] = "="
      BY <1>1, <1>2, <2>1 DEF Shape
    <3> QED BY <1>1, <3>1 DEF Shape
  <2>2. ASSUME NEW i \in Said(tokens), tokens[i] = "=" PROVE m < n
    <3>1. i \in 1 .. n
      BY <1>1 DEF Shape
    <3>2. ~ i \in 1 .. m
      BY <1>1, <2>2 DEF Shape
    <3> QED BY <1>2, <3>1, <3>2
  <2> QED BY <2>1, <2>2
<1>6. \A key \in Keys :
        /\ Assigns(tokens, key) <=> HasValue(tokens) /\ configKey(tokens) = <<key>>
        /\ Assigns(tokens, key) => Value(tokens) = Assigned(tokens)
  BY AssignsIs
<1>7. "type" \in Keys /\ "data_tx_delay" \in Keys /\ "reset_delay" \in Keys
  BY DEF Keys
<1>8. /\ Assigns(tokens, "type") <=> HasValue(tokens) /\ configKey(tokens) = <<"type">>
      /\ Assigns(tokens, "data_tx_delay") <=> HasValue(tokens) /\ configKey(tokens) = <<"data_tx_delay">>
      /\ Assigns(tokens, "reset_delay") <=> HasValue(tokens) /\ configKey(tokens) = <<"reset_delay">>
      /\ Assigns(tokens, "type") => Value(tokens) = Assigned(tokens)
      /\ Assigns(tokens, "data_tx_delay") => Value(tokens) = Assigned(tokens)
      /\ Assigns(tokens, "reset_delay") => Value(tokens) = Assigned(tokens)
  BY <1>6, <1>7
<1>9. HasValue(tokens) => n # 0
  BY <1>2, <1>4
<1>10. Refused(tokens) <=> ~ Sound(tokens)
  <2>1. Sound(tokens) <=>
          /\ n # 0 => HasValue(tokens)
          /\ Assigns(tokens, "type") => Assigned(tokens) \in {<<"season">>, <<"dummy">>}
          /\ Assigns(tokens, "data_tx_delay") => Numeric(Assigned(tokens))
          /\ Assigns(tokens, "reset_delay") => Numeric(Assigned(tokens))
    BY <1>3, <1>4, <1>5 DEF Sound
  <2>2. Refused(tokens) <=>
          /\ n # 0
          /\ \/ ~ HasValue(tokens)
             \/ configKey(tokens) = <<"type">> /\ Value(tokens) \notin {<<"season">>, <<"dummy">>}
             \/ configKey(tokens) = <<"data_tx_delay">> /\ ~ Numeric(Value(tokens))
             \/ configKey(tokens) = <<"reset_delay">> /\ ~ Numeric(Value(tokens))
    BY <1>3, Zenon DEF Refused
  <2> QED BY <1>8, <1>9, <2>1, <2>2, Zenon
<1>11. ASSUME NEW key \in Keys
       PROVE  Sets(tokens, key) <=> Assigns(tokens, key) /\ ~ Refused(tokens)
  <2>1. n # 0 /\ ~ Refused(tokens) => HasValue(tokens)
    BY <1>3 DEF Refused
  <2> QED BY <1>3, <1>6, <1>9, <2>1 DEF Sets
<1> QED BY <1>10, <1>11

-----------------------------------------------------------------------------
(* The state.                                                              *)

(* The value of the last of n lines that assigns to a key, or the default. *)
LastIn(n, key, default) ==
  LET at == {i \in 1 .. n : Assigns(file[i], key)}
  IN  IF at = {} THEN default ELSE Assigned(file[Max(at)])

LEMMA LastInNone ==
  ASSUME NEW key, NEW default
  PROVE  LastIn(0, key, default) = default
BY DEF LastIn

LEMMA LastInNext ==
  ASSUME NEW n \in Nat, NEW key, NEW default
  PROVE  LastIn(n + 1, key, default) =
           IF Assigns(file[n + 1], key) THEN Assigned(file[n + 1]) ELSE LastIn(n, key, default)
<1> DEFINE at(k) == {i \in 1 .. k : Assigns(file[i], key)}
<1>1. CASE Assigns(file[n + 1], key)
  <2>1. n + 1 \in at(n + 1) /\ \A i \in at(n + 1) : i \in Nat /\ n + 1 >= i
    BY <1>1
  <2>2. Max(at(n + 1)) = n + 1
    <3> HIDE DEF at
    <3>1. \A i \in at(n + 1) : (\A j \in at(n + 1) : i >= j) => i = n + 1
      BY <2>1
    <3> QED BY <2>1, <3>1 DEF Max
  <2> QED BY <1>1, <2>1, <2>2 DEF LastIn
<1>2. CASE ~ Assigns(file[n + 1], key)
  <2>1. at(n + 1) = at(n)
    BY <1>2
  <2> QED BY <1>2, <2>1 DEF LastIn
<1> QED BY <1>1, <1>2

LEMMA DefaultDelay ==
  LET str == <<"2", "0", "0">>
  IN  str \in Seq(Tokens) /\ Numeric(str) /\ strToUInt(str) = 200
<1> DEFINE str == <<"2", "0", "0">>
<1>1. str \in Seq(Tokens) /\ Len(str) = 3 /\ str[1] = "2" /\ str[2] = "0" /\ str[3] = "0"
  BY ConfigAssumption
<1>2. Numeric(str)
  <2>1. Digits[1] = "0" /\ Digits[3] = "2" /\ 1 \in DOMAIN Digits /\ 3 \in DOMAIN Digits
    BY DEF Digits
  <2>2. DOMAIN str = {1, 2, 3}
    BY <1>1
  <2>3. "0" \in ToSet(Digits) /\ "2" \in ToSet(Digits)
    BY <2>1 DEF ToSet
  <2>4. ToSet(str) \subseteq {"0", "2"}
    BY <1>1, <2>2 DEF ToSet
  <2> QED BY <2>3, <2>4 DEF Numeric
<1>3. DigitOf("2") = 2 /\ DigitOf("0") = 0
  <2>1. \A n \in 1 .. 10 : (Digits[n] = "2" <=> n = 3) /\ (Digits[n] = "0" <=> n = 1)
    BY DEF Digits
  <2>2. (CHOOSE n \in 1 .. 10 : Digits[n] = "2") = 3
    BY <2>1
  <2>3. (CHOOSE n \in 1 .. 10 : Digits[n] = "0") = 1
    BY <2>1
  <2> QED BY <2>2, <2>3 DEF DigitOf
<1> HIDE DEF str
<1>4. PICK ret :
        /\ ret[0] = 0 /\ strToUInt(str) = ret[Len(str)]
        /\ \A i \in 1 .. Len(str) : ret[i] = (ret[i - 1] * 10 + DigitOf(str[i])) % UIntSize
  BY <1>1, <1>2, Loop
<1>5. UIntSize \in Nat /\ UIntSize > 200000
  BY ConfigAssumption
<1>6. /\ ret[1] = (ret[0] * 10 + DigitOf(str[1])) % UIntSize
      /\ ret[2] = (ret[1] * 10 + DigitOf(str[2])) % UIntSize
      /\ ret[3] = (ret[2] * 10 + DigitOf(str[3])) % UIntSize
  BY <1>1, <1>4
<1>7. \A x \in Nat : x < UIntSize => x % UIntSize = x
  <2> TAKE x \in Nat
  <2> HAVE x < UIntSize
  <2>1. x \in Uint /\ x + UIntSize * 0 = x
    BY <1>5 DEF Uint
  <2> QED BY <2>1, Remainder
<1>8. ret[1] = 2
  BY <1>1, <1>3, <1>4, <1>5, <1>6, <1>7
<1>9. ret[2] = 20
  BY <1>1, <1>3, <1>5, <1>6, <1>7, <1>8
<1>10. ret[3] = 200
  BY <1>1, <1>3, <1>5, <1>6, <1>7, <1>9
<1> QED BY <1>1, <1>2, <1>4, <1>10 DEF str

(* How many lines have been parsed. *)
Parsed == IF pc = "parse" THEN next - 1 ELSE next

(* Where the stream is.  There is no line of a file that is not open.      *)
StreamInv ==
  /\ file = NoFile => next = 0 /\ line = <<>> /\ ~ eof /\ ~ Built
  /\ file # NoFile =>
       /\ file \in Seq(Lines) /\ Len(file) \in 1 .. MaxLines /\ next \in 0 .. Len(file)
       /\ pc = "open" => next = 0
       /\ pc # "thrown" => (eof <=> next = Len(file))
       /\ pc = "parse" => next >= 1 /\ line = file[next]
       /\ Built => next = Len(file)

(* The settings after some lines: each is what the last of them says that  *)
(* assigns to it.  A number is read from digits.                           *)
LinesInv ==
  LET type  == LastIn(Parsed, "type", <<"dummy">>)
      delay == LastIn(Parsed, "data_tx_delay", <<"2", "0", "0">>)
  IN  file # NoFile /\ pc # "thrown" =>
        /\ \A i \in 1 .. Parsed : Sound(file[i])
        /\ devName = LastIn(Parsed, "dev_name", Default.devName)
        /\ type \in {<<"season">>, <<"dummy">>} /\ emulatorType = EmulatorTypeOf(type)
        /\ delay \in Seq(Tokens) /\ Numeric(delay) /\ dataTXDelay = strToUInt(delay)

EmulatorInv ==
  emulator = IF pc # "running" THEN NoEmulator
             ELSE IF emulatorType = "DUMMY" THEN DummyEmulator
             ELSE [class |-> "Season", devName |-> devName, dataTXDelay |-> dataTXDelay]

IInv == TypeOK /\ StreamInv /\ LinesInv /\ EmulatorInv

LEMMA InitInv == Init => IInv
<1> SUFFICES ASSUME Init PROVE IInv
  OBVIOUS
<1>1. /\ pc = "open" /\ next = 0 /\ line = <<>> /\ eof = FALSE
      /\ devName = <<"/dev/ttyS0">> /\ resetDelay = 10000 /\ dataTXDelay = 200 /\ emulatorType = "DUMMY"
      /\ emulator = NoEmulator
  BY DEF Init, Default
<1>2. file # NoFile => file \in Seq(Lines) /\ Len(file) \in 1 .. MaxLines
  <2> SUFFICES ASSUME file # NoFile PROVE file \in Seq(Lines) /\ Len(file) \in 1 .. MaxLines
    OBVIOUS
  <2>1. file \in UNION {[1 .. m -> Lines] : m \in 0 .. MaxLines} /\ file # <<>>
    BY DEF Init, BoundedSeq, SeqOf
  <2>2. PICK m \in 0 .. MaxLines : file \in [1 .. m -> Lines]
    BY <2>1
  <2>3. m \in Nat /\ m <= MaxLines
    BY ConfigAssumption
  <2>4. file \in Seq(Lines) /\ Len(file) = m
    BY <2>2, <2>3
  <2>5. m # 0
    BY <2>1, <2>4
  <2> QED BY <2>3, <2>4, <2>5, ConfigAssumption
<1>3. UIntSize \in Nat /\ UIntSize > 200000 /\ MaxLines \in Nat
  BY ConfigAssumption
<1>4. TypeOK
  <2>1. file = NoFile \/ file \in Seq(Lines) \ {<<>>}
    BY <1>2, <1>3
  <2>2. next \in 0 .. MaxLines /\ resetDelay \in 0 .. UIntSize - 1 /\ dataTXDelay \in 0 .. UIntSize - 1
    BY <1>1, <1>3
  <2>3. devName \in Seq(Tokens)
    BY <1>1, ConfigAssumption
  <2>4. emulator \in [class : {"none", "DummyCardEmulator", "Season"},
                      devName : Seq(Tokens), dataTXDelay : 0 .. UIntSize - 1]
    BY <1>1, <1>3 DEF NoEmulator
  <2>5. /\ pc \in {"open", "loop", "parse", "built", "thrown", "running"}
        /\ line \in Lines \cup {<<>>} /\ eof \in BOOLEAN /\ emulatorType \in {"DUMMY", "SEASON"}
    <3>1. pc = "open" /\ line = <<>> /\ eof = FALSE /\ emulatorType = "DUMMY"
      BY <1>1
    <3> QED BY <3>1
  <2> QED BY <2>1, <2>2, <2>3, <2>4, <2>5, Zenon DEF TypeOK
<1>5. StreamInv
  BY <1>1, <1>2, <1>3 DEF StreamInv, Built
<1>6. LinesInv
  <2>1. Parsed = 0
    BY <1>1 DEF Parsed
  <2>2. EmulatorTypeOf(<<"dummy">>) = "DUMMY"
    BY DEF EmulatorTypeOf
  <2>3. /\ LastIn(Parsed, "dev_name", Default.devName) = <<"/dev/ttyS0">>
        /\ LastIn(Parsed, "type", <<"dummy">>) = <<"dummy">>
        /\ LastIn(Parsed, "data_tx_delay", <<"2", "0", "0">>) = <<"2", "0", "0">>
    BY <2>1, LastInNone DEF Default
  <2>4. <<"2", "0", "0">> \in Seq(Tokens) /\ Numeric(<<"2", "0", "0">>) /\ strToUInt(<<"2", "0", "0">>) = 200
    BY DefaultDelay
  <2>5. \A i \in 1 .. Parsed : Sound(file[i])
    BY <2>1
  <2> DEFINE type  == LastIn(Parsed, "type", <<"dummy">>)
             delay == LastIn(Parsed, "data_tx_delay", <<"2", "0", "0">>)
  <2>6. devName = LastIn(Parsed, "dev_name", Default.devName)
    <3>1. devName = <<"/dev/ttyS0">>
      BY <1>1
    <3> QED BY <2>3, <3>1, Zenon
  <2>7. type \in {<<"season">>, <<"dummy">>} /\ emulatorType = EmulatorTypeOf(type)
    <3>1. emulatorType = "DUMMY" /\ type = <<"dummy">>
      BY <1>1, <2>3
    <3> HIDE DEF type
    <3> QED BY <2>2, <3>1
  <2>8. delay \in Seq(Tokens) /\ Numeric(delay) /\ dataTXDelay = strToUInt(delay)
    <3>1. dataTXDelay = 200 /\ delay = <<"2", "0", "0">>
      BY <1>1, <2>3
    <3> HIDE DEF delay
    <3> QED BY <2>4, <3>1
  <2> QED BY <2>5, <2>6, <2>7, <2>8, Zenon DEF LinesInv
<1>7. EmulatorInv
  BY <1>1 DEF EmulatorInv
<1> QED BY <1>4, <1>5, <1>6, <1>7 DEF IInv

(* The line that is parsed is one of the file, or nothing.                 *)
LEMMA LineType ==
  ASSUME TypeOK
  PROVE  line \in Seq(Tokens)
<1>1. line \in Lines \/ line = <<>>
  BY DEF TypeOK
<1>2. Lines \subseteq Seq(Tokens)
  BY ConfigAssumption
<1>3. <<>> \in Seq(Tokens)
  OBVIOUS
<1> QED BY <1>1, <1>2, <1>3, Zenon

LEMMA TypeNext ==
  ASSUME IInv, [Next]_vars
  PROVE  TypeOK'
<1>0. TypeOK /\ StreamInv /\ UIntSize \in Nat /\ UIntSize > 200000 /\ MaxLines \in Nat
  BY ConfigAssumption DEF IInv
<1>1. CASE getline
  <2>1. CASE file = NoFile
    BY <1>0, <1>1, <2>1 DEF getline, settings, TypeOK
  <2>2. CASE file # NoFile
    <3>1. file \in Seq(Lines) /\ Len(file) \in 1 .. MaxLines /\ next \in 0 .. Len(file) /\ next # Len(file)
      BY <1>0, <1>1, <2>2 DEF StreamInv, getline
    <3>2. next + 1 \in 1 .. Len(file) /\ next + 1 \in 0 .. MaxLines
      BY <1>0, <3>1
    <3>3. file[next + 1] \in Lines
      BY <3>1, <3>2
    <3> QED BY <1>0, <1>1, <2>2, <3>2, <3>3 DEF getline, settings, TypeOK
  <2> QED BY <2>1, <2>2
<1>2. CASE parseLine
  <2>1. line \in Seq(Tokens)
    BY <1>0, LineType
  <2>2. Sets(line, "dev_name") => Value(line) \in Seq(Tokens)
    <3>1. "dev_name" \in Keys
      BY DEF Keys
    <3> QED BY <2>1, <3>1, RefusedIs, AssignsIs
  <2>3. Sets(line, "data_tx_delay") => strToUInt(Value(line)) \in 0 .. UIntSize - 1
    <3>1. "data_tx_delay" \in Keys
      BY DEF Keys
    <3>2. SUFFICES ASSUME Sets(line, "data_tx_delay") PROVE strToUInt(Value(line)) \in 0 .. UIntSize - 1
      OBVIOUS
    <3>3. Assigns(line, "data_tx_delay") /\ ~ Refused(line)
      BY <2>1, <3>1, <3>2, RefusedIs
    <3>4. Value(line) \in Seq(Tokens) /\ Value(line) = Assigned(line)
      BY <2>1, <3>1, <3>3, AssignsIs
    <3>5. Sound(line)
      BY <2>1, <3>3, RefusedIs
    <3>6. Numeric(Value(line))
      BY <3>3, <3>4, <3>5 DEF Sound
    <3> QED BY <3>4, <3>6, UIntIsDecimal DEF Uint
  <2>4. \A value : EmulatorTypeOf(value) \in {"DUMMY", "SEASON"}
    BY DEF EmulatorTypeOf
  <2>5. devName' \in Seq(Tokens)
    BY <1>0, <1>2, <2>2 DEF parseLine, TypeOK
  <2>6. dataTXDelay' \in 0 .. UIntSize - 1
    BY <1>0, <1>2, <2>3 DEF parseLine, TypeOK
  <2>7. emulatorType' \in {"DUMMY", "SEASON"}
    BY <1>0, <1>2, <2>4 DEF parseLine, TypeOK
  <2> QED BY <1>0, <1>2, <2>5, <2>6, <2>7 DEF parseLine, TypeOK
<1>3. CASE createNewEmulator
  <2>1. emulator' \in [class : {"none", "DummyCardEmulator", "Season"},
                       devName : Seq(Tokens), dataTXDelay : 0 .. UIntSize - 1]
    BY <1>0, <1>3 DEF createNewEmulator, DummyEmulator, TypeOK
  <2> QED BY <1>0, <1>3, <2>1 DEF createNewEmulator, settings, TypeOK
<1>4. CASE open \/ readFails \/ refuseLine \/ endOfFile \/ seasonThrows
  BY <1>0, <1>4 DEF open, readFails, refuseLine, endOfFile, seasonThrows, settings, TypeOK
<1>5. CASE UNCHANGED vars
  BY <1>0, <1>5 DEF vars, settings, TypeOK
<1> QED BY <1>1, <1>2, <1>3, <1>4, <1>5 DEF Next, Step, Terminating

LEMMA StreamNext ==
  ASSUME IInv, [Next]_vars
  PROVE  StreamInv'
<1>0. TypeOK /\ StreamInv /\ MaxLines \in Nat
  BY ConfigAssumption DEF IInv
<1>1. CASE getline
  <2>1. CASE file = NoFile
    BY <1>0, <1>1, <2>1 DEF getline, StreamInv, Built
  <2>2. CASE file # NoFile
    <3>1. /\ file \in Seq(Lines) /\ Len(file) \in 1 .. MaxLines
          /\ next \in 0 .. Len(file) /\ next # Len(file)
      BY <1>0, <1>1, <2>2 DEF StreamInv, getline
    <3>2. next + 1 \in 0 .. Len(file) /\ next + 1 >= 1
      BY <1>0, <3>1
    <3> QED BY <1>1, <2>2, <3>1, <3>2 DEF getline, StreamInv, Built
  <2> QED BY <2>1, <2>2
<1>2. CASE open \/ readFails \/ parseLine \/ refuseLine \/ endOfFile
  BY <1>0, <1>2 DEF open, readFails, parseLine, refuseLine, endOfFile, StreamInv, Built
<1>3. CASE createNewEmulator \/ seasonThrows
  BY <1>0, <1>3 DEF createNewEmulator, seasonThrows, StreamInv, Built
<1>4. CASE UNCHANGED vars
  BY <1>0, <1>4 DEF vars, StreamInv, Built
<1> QED BY <1>1, <1>2, <1>3, <1>4 DEF Next, Step, Terminating

LEMMA EmulatorNext ==
  ASSUME IInv, [Next]_vars
  PROVE  EmulatorInv'
<1>0. EmulatorInv
  BY DEF IInv
<1>1. CASE createNewEmulator
  BY <1>0, <1>1 DEF createNewEmulator, settings, EmulatorInv
<1>2. CASE open \/ getline \/ readFails \/ parseLine \/ refuseLine \/ endOfFile \/ seasonThrows
  BY <1>0, <1>2 DEF open, getline, readFails, parseLine, refuseLine, endOfFile, seasonThrows, EmulatorInv
<1>3. CASE UNCHANGED vars
  BY <1>0, <1>3 DEF vars, settings, EmulatorInv
<1> QED BY <1>1, <1>2, <1>3 DEF Next, Step, Terminating

(* A line more is parsed: what it assigns is what it sets.                 *)
LEMMA ParseNext ==
  ASSUME IInv, parseLine
  PROVE  LinesInv'
<1> SUFFICES ASSUME file # NoFile
             PROVE  LinesInv'
  BY DEF parseLine, LinesInv
<1> DEFINE tokens == file[next]
           n      == next - 1
<1>1. TypeOK /\ StreamInv /\ LinesInv /\ pc = "parse"
  BY DEF IInv, parseLine
<1>2. file \in Seq(Lines) /\ next \in 1 .. Len(file) /\ line = tokens
  BY <1>1 DEF StreamInv
<1>3. n \in Nat /\ n + 1 = next /\ Parsed = n
  BY <1>1, <1>2 DEF Parsed
<1>4. tokens \in Seq(Tokens)
  BY <1>1, <1>2, LineType
<1>5. Sound(tokens) /\ ~ Refused(tokens)
  BY <1>2, <1>4, RefusedIs DEF parseLine
<1>6. \A key \in Keys : /\ Sets(tokens, key) <=> Assigns(tokens, key)
                        /\ Assigns(tokens, key) => Value(tokens) = Assigned(tokens)
                                                   /\ Assigned(tokens) \in Seq(Tokens)
  BY <1>4, <1>5, RefusedIs, AssignsIs
<1>7. file' = file /\ next' = next /\ pc' = "loop" /\ Parsed' = next
  BY DEF parseLine, Parsed
<1>8. \A key, default :
        LastIn(next, key, default) =
          IF Assigns(tokens, key) THEN Assigned(tokens) ELSE LastIn(n, key, default)
  BY <1>3, LastInNext
<1>9. \A key, default : LastIn(Parsed, key, default)' = LastIn(next, key, default)
  BY <1>7 DEF LastIn
<1> HIDE DEF tokens, n
<1>10. \A i \in 1 .. Parsed' : Sound(file[i])'
  <2>1. \A i \in 1 .. next : i = next \/ i \in 1 .. n
    BY <1>2, <1>3
  <2>2. \A i \in 1 .. n : Sound(file[i])
    BY <1>1, <1>3 DEF LinesInv
  <2>3. \A i \in 1 .. next : Sound(file[i])
    BY <1>5, <2>1, <2>2 DEF tokens
  <2> QED BY <1>7, <2>3
<1>11. devName' = LastIn(next, "dev_name", Default.devName)
  <2>1. "dev_name" \in Keys
    BY DEF Keys
  <2>2. devName' = IF Sets(tokens, "dev_name") THEN Value(tokens) ELSE devName
    BY <1>2 DEF parseLine
  <2>3. devName = LastIn(n, "dev_name", Default.devName)
    BY <1>1, <1>3 DEF LinesInv
  <2> QED BY <1>6, <1>8, <2>1, <2>2, <2>3
<1>12. /\ LastIn(next, "type", <<"dummy">>) \in {<<"season">>, <<"dummy">>}
       /\ emulatorType' = EmulatorTypeOf(LastIn(next, "type", <<"dummy">>))
  <2>1. "type" \in Keys
    BY DEF Keys
  <2>2. emulatorType' = IF Sets(tokens, "type") THEN EmulatorTypeOf(Value(tokens)) ELSE emulatorType
    BY <1>2 DEF parseLine
  <2>3. /\ LastIn(n, "type", <<"dummy">>) \in {<<"season">>, <<"dummy">>}
        /\ emulatorType = EmulatorTypeOf(LastIn(n, "type", <<"dummy">>))
    BY <1>1, <1>3 DEF LinesInv
  <2>4. Assigns(tokens, "type") => Assigned(tokens) \in {<<"season">>, <<"dummy">>}
    BY <1>5 DEF Sound
  <2> QED BY <1>6, <1>8, <2>1, <2>2, <2>3, <2>4
<1>13. LET delay == LastIn(next, "data_tx_delay", <<"2", "0", "0">>)
       IN  delay \in Seq(Tokens) /\ Numeric(delay) /\ dataTXDelay' = strToUInt(delay)
  <2> DEFINE default == <<"2", "0", "0">>
             delay(k) == LastIn(k, "data_tx_delay", default)
  <2>1. "data_tx_delay" \in Keys
    BY DEF Keys
  <2>2. dataTXDelay' = IF Sets(tokens, "data_tx_delay") THEN strToUInt(Value(tokens)) ELSE dataTXDelay
    BY <1>2 DEF parseLine
  <2>3. delay(n) \in Seq(Tokens) /\ Numeric(delay(n)) /\ dataTXDelay = strToUInt(delay(n))
    BY <1>1, <1>3 DEF LinesInv
  <2>4. Assigns(tokens, "data_tx_delay") => Numeric(Assigned(tokens))
    BY <1>5 DEF Sound
  <2>5. delay(next) = IF Assigns(tokens, "data_tx_delay") THEN Assigned(tokens) ELSE delay(n)
    BY <1>8
  <2> HIDE DEF default, delay
  <2>6. delay(next) \in Seq(Tokens) /\ Numeric(delay(next)) /\ dataTXDelay' = strToUInt(delay(next))
    BY <1>6, <2>1, <2>2, <2>3, <2>4, <2>5
  <2> QED BY <2>6 DEF delay, default
<1> QED BY <1>9, <1>10, <1>11, <1>12, <1>13 DEF LinesInv, Default

LEMMA LinesNext ==
  ASSUME IInv, [Next]_vars
  PROVE  LinesInv'
<1>1. CASE parseLine
  BY <1>1, ParseNext
<1>2. CASE getline
  <2>1. CASE file = NoFile
    BY <1>2, <2>1 DEF getline, LinesInv
  <2>2. CASE file # NoFile
    <3>1. next \in Nat /\ pc = "loop"
      BY <1>2, <2>2 DEF IInv, StreamInv, getline
    <3>2. Parsed = next /\ Parsed' = next
      BY <1>2, <2>2, <3>1 DEF getline, Parsed
    <3> QED BY <1>2, <2>2, <3>1, <3>2
            DEF IInv, getline, settings, LinesInv, LastIn
  <2> QED BY <2>1, <2>2
<1>3. CASE \/ open \/ endOfFile \/ createNewEmulator \/ UNCHANGED vars
  <2>1. UNCHANGED <<file, next, devName, dataTXDelay, emulatorType>> /\ Parsed' = Parsed
        /\ (pc' # "thrown" => pc # "thrown")
    BY <1>3 DEF open, endOfFile, createNewEmulator, vars, settings, Parsed
  <2> QED BY <2>1 DEF IInv, LinesInv, LastIn
<1>4. CASE readFails \/ refuseLine \/ seasonThrows
  BY <1>4 DEF readFails, refuseLine, seasonThrows, LinesInv
<1> QED BY <1>1, <1>2, <1>3, <1>4 DEF Next, Step, Terminating

(* The invariant holds: the state of the stream, the settings after the    *)
(* lines that were parsed, and the emulator made of them.                  *)
THEOREM ConfigInvariant == Spec => []IInv
<1>1. Init => IInv
  BY InitInv
<1>2. IInv /\ [Next]_vars => IInv'
  BY TypeNext, StreamNext, LinesNext, EmulatorNext DEF IInv
<1> QED BY <1>1, <1>2, PTL DEF Spec

(* The settings and the emulator are of their types, at every step of the  *)
(* constructor: a delay fits an unsigned int.                              *)
THEOREM ConfigTypeCorrect == Spec => []TypeOK
<1>1. IInv => TypeOK
  BY DEF IInv
<1> QED BY <1>1, ConfigInvariant, PTL

(* The emulator has what the file says last, whatever the file holds, as   *)
(* long as it can be read: and then all of it was sound.                   *)
THEOREM SettingsOfFileHolds == Spec => []SettingsOfFile
<1>1. IInv => SettingsOfFile
  <2> SUFFICES ASSUME IInv PROVE SettingsOfFile
    OBVIOUS
  <2>0. CASE ~ Built
    BY <2>0 DEF SettingsOfFile, Built
  <2>1. CASE Built
    <3>1. file # NoFile /\ pc # "thrown" /\ next = Len(file) /\ Parsed = next
      BY <2>1 DEF IInv, StreamInv, Built, Parsed
    <3>2. \A key, default : LastOf(key, default) = LastIn(Parsed, key, default)
      BY <3>1 DEF LastOf, LastIn
    <3>3. /\ \A i \in 1 .. Len(file) : Sound(file[i])
          /\ devName = LastOf("dev_name", Default.devName)
          /\ LastOf("type", <<"dummy">>) \in {<<"season">>, <<"dummy">>}
          /\ emulatorType = EmulatorTypeOf(LastOf("type", <<"dummy">>))
          /\ LastOf("data_tx_delay", <<"2", "0", "0">>) \in Seq(Tokens)
          /\ Numeric(LastOf("data_tx_delay", <<"2", "0", "0">>))
          /\ dataTXDelay = strToUInt(LastOf("data_tx_delay", <<"2", "0", "0">>))
      BY <3>1, <3>2 DEF IInv, LinesInv
    <3>4. dataTXDelay = Decimal(LastOf("data_tx_delay", <<"2", "0", "0">>)) % UIntSize
      BY <3>3, UIntIsDecimal
    <3>5. emulatorType = "DUMMY" <=> LastOf("type", <<"dummy">>) = <<"dummy">>
      <4>1. <<"season">> # <<"dummy">>
        OBVIOUS
      <4> QED BY <3>3, <4>1 DEF EmulatorTypeOf
    <3>6. pc = "running" =>
            emulator = IF emulatorType = "DUMMY" THEN DummyEmulator
                       ELSE [class |-> "Season", devName |-> devName, dataTXDelay |-> dataTXDelay]
      BY DEF IInv, EmulatorInv
    <3> QED BY <3>1, <3>3, <3>4, <3>5, <3>6 DEF SettingsOfFile
  <2> QED BY <2>0, <2>1
<1> QED BY <1>1, ConfigInvariant, PTL
=============================================================================
