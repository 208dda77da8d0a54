------------------------- MODULE CommandLineProofs -------------------------
(***************************************************************************)
(* tryParseInt() of git-ps1 reads every number as it is written and refuses*)
(* every other text, for every text, INT_MAX and LONG_MAX; and options that*)
(* are applied one by one leave in CmdParam what the command line means as *)
(* a whole. What a recursive function computes is proved by induction on a *)
(* set of naturals.                                                        *)
(***************************************************************************)
EXTENDS CommandLine, SequenceTheorems, WellFoundedInduction, TLAPS

-----------------------------------------------------------------------------
(* Induction.                                                              *)

LEMMA Smallest ==
  ASSUME NEW S \in SUBSET Nat, S # {}
  PROVE  \E n \in S : \A m \in S : n <= m
<1> DEFINE R == OpToRel(<, Nat)
<1>1. IsWellFoundedOn(R, Nat)
  BY NatLessThanWellFounded
<1> HIDE DEF R
<1>2. PICK n \in S : \A m \in S : ~(<<m, n>> \in R)
  BY <1>1, WFMin
<1>3. \A m \in S : m < n => <<m, n>> \in R
  BY DEF R, OpToRel
<1>4. ASSUME NEW m \in S PROVE n <= m
  <2>1. m \in Nat /\ n \in Nat /\ ~(m < n)
    BY <1>2, <1>3
  <2> QED BY <2>1
<1> QED BY <1>4

\* What holds of 0, and of k + 1 when it holds of k, holds up to n.
LEMMA Induction ==
  ASSUME NEW n \in Nat, NEW S, 0 \in S, \A k \in S : k \in 0 .. n - 1 => k + 1 \in S
  PROVE  0 .. n \subseteq S
<1> DEFINE T == (0 .. n) \ S
<1> SUFFICES ASSUME T # {} PROVE FALSE
  OBVIOUS
<1>1. T \in SUBSET Nat
  OBVIOUS
<1> HIDE DEF T
<1>2. PICK m \in T : \A k \in T : m <= k
  BY <1>1, Smallest
<1>3. m \in 1 .. n /\ m \notin S
  BY DEF T
<1>4. m - 1 \notin T
  BY <1>2, <1>3
<1>5. m - 1 \in S /\ m - 1 \in 0 .. n - 1
  BY <1>3, <1>4 DEF T
<1>6. (m - 1) + 1 \in S
  BY <1>5
<1> QED BY <1>3, <1>6

\* f is the function over 0 .. n with this first value and these steps.
StepType(step, n) == \A i \in 1 .. n, v \in Int : step[i][v] \in Int
Computes(f, base, step, n) ==
  f \in [0 .. n -> Int] /\ f[0] = base /\ \A i \in 1 .. n : f[i] = step[i][f[i - 1]]

\* There is one.
LEMMA Recursion ==
  ASSUME NEW base, base \in Int, NEW n, n \in Nat, NEW step, StepType(step, n)
  PROVE  \E f : Computes(f, base, step, n)
<1> DEFINE Fits(f, k) == f[0] = base /\ \A i \in 1 .. k : f[i] = step[i][f[i - 1]]
           S == {k \in 0 .. n : \E f \in [0 .. k -> Int] : Fits(f, k)}
<1> USE DEF StepType
<1>1. 0 \in S
  <2> DEFINE g == [i \in 0 .. 0 |-> base]
  <2>1. g \in [0 .. 0 -> Int] /\ g[0] = base /\ 1 .. 0 = {}
    OBVIOUS
  <2> HIDE DEF g
  <2>2. Fits(g, 0) /\ 0 \in 0 .. n
    BY <2>1
  <2> QED BY <2>1, <2>2
<1>2. ASSUME NEW k \in S, k \in 0 .. n - 1 PROVE k + 1 \in S
  <2>1. PICK f \in [0 .. k -> Int] : Fits(f, k)
    OBVIOUS
  <2>0. k + 1 \in 1 .. n /\ k \in Nat /\ k \in 0 .. k
    BY <1>2
  <2>2. f[k] \in Int
    BY <2>0
  <2>9. step[k + 1][f[k]] \in Int
    BY <2>0, <2>2
  <2> DEFINE g == [i \in 0 .. k + 1 |-> IF i = k + 1 THEN step[i][f[k]] ELSE f[i]]
  <2>3. g \in [0 .. k + 1 -> Int]
    <3>1. ASSUME NEW i \in 0 .. k + 1 PROVE g[i] \in Int
      <4>1. CASE i = k + 1
         BY <4>1, <2>9
      <4>2. CASE i # k + 1
         BY <4>2, <2>0
      <4> QED BY <4>1, <4>2
    <3> QED BY <3>1
  <2>4. g[0] = base /\ \A i \in 1 .. k : g[i] = step[i][g[i - 1]]
    BY <2>0, <2>1
  <2>5. g[k + 1] = step[k + 1][g[k]]
    BY <2>0
  <2> HIDE DEF g
  <2>6. Fits(g, k + 1)
    BY <2>0, <2>4, <2>5
  <2> HIDE DEF Fits
  <2>7. k + 1 \in 0 .. n
    BY <2>0
  <2>8. \E h \in [0 .. k + 1 -> Int] : Fits(h, k + 1)
    BY <2>3, <2>6
  <2> QED BY <2>7, <2>8
<1> HIDE DEF S
<1>3. n \in S
  <2>1. 0 .. n \subseteq S
   BY <1>1, <1>2, Induction
  <2> QED BY <2>1
<1> QED BY <1>3 DEF S, Computes

\* f and g begin alike and stay alike.
StayAlike(f, g, n) ==
  f[0] = g[0] /\ \A i \in 1 .. n : f[i - 1] = g[i - 1] => f[i] = g[i]

LEMMA OnlyOne ==
  ASSUME NEW n, n \in Nat, NEW f, NEW g, StayAlike(f, g, n)
  PROVE  \A i \in 0 .. n : f[i] = g[i]
<1> USE DEF StayAlike
<1> DEFINE S == {i \in 0 .. n : f[i] = g[i]}
<1>1. 0 \in S
  OBVIOUS
<1>2. \A k \in S : k \in 0 .. n - 1 => k + 1 \in S
  OBVIOUS
<1> HIDE DEF S
<1>3. 0 .. n \subseteq S
  BY <1>1, <1>2, Induction
<1> QED BY <1>3 DEF S

-----------------------------------------------------------------------------
(* Digits and numbers.                                                     *)

\* f[i] is the value of the first i digits of str.
Values(f, str, n) ==
  /\ f \in [0 .. n -> Int] /\ f[0] = 0
  /\ \A i \in 1 .. n : f[i] = 10 * f[i - 1] + str[i] - 48

\* f[i] is what is left of v when i digits are taken off.
Remains(f, v, n) ==
  f \in [0 .. n -> Int] /\ f[0] = v /\ \A i \in 1 .. n : f[i] = f[i - 1] \div 10

\* The digits are those that the divisions take off, and nothing is left.
TakenOff(d, f, n) ==
  n > 0 /\ f[n] = 0 /\ \A i \in 1 .. n : d[n + 1 - i] = 48 + (f[i - 1] % 10)

\* Number() multiplies by ten and adds a digit, from the first to the last.
LEMMA NumberSteps ==
  ASSUME NEW str \in Seq(Nat), NEW n \in 0 .. Len(str)
  PROVE  \E f : Values(f, str, n) /\ f[n] = Number(str, n)
<1> DEFINE step == [i \in 1 .. n |-> [v \in Int |-> 10 * v + str[i] - 48]]
           Defines(f) == f = [i \in 0 .. n |-> IF i = 0 THEN 0 ELSE 10 * f[i - 1] + str[i] - 48]
<1>1. \A i \in 1 .. n, v \in Int : step[i][v] = 10 * v + str[i] - 48 /\ step[i][v] \in Int
  OBVIOUS
<1> HIDE DEF step, Defines
<1>2. StepType(step, n)
  BY <1>1 DEF StepType
<1>3. n \in Nat /\ 0 \in Int
  OBVIOUS
<1>4. PICK f : Computes(f, 0, step, n)
  BY <1>2, <1>3, Recursion
<1>5. f \in [0 .. n -> Int] /\ f[0] = 0
  BY <1>4 DEF Computes
<1>6. ASSUME NEW i \in 1 .. n PROVE f[i] = 10 * f[i - 1] + str[i] - 48
  <2>1. f[i - 1] \in Int
    BY <1>3, <1>5
  <2> QED BY <1>1, <1>4, <2>1 DEF Computes
<1>7. Values(f, str, n)
  BY <1>5, <1>6 DEF Values
<1>8. Defines(f)
  BY <1>3, <1>5, <1>6 DEF Defines
<1>9. ASSUME NEW g, Defines(g) PROVE g = f
  <2>1. DOMAIN g = 0 .. n /\ g[0] = 0 /\ \A i \in 1 .. n : g[i] = 10 * g[i - 1] + str[i] - 48
    BY <1>3, <1>9 DEF Defines
  <2>2. StayAlike(g, f, n)
    BY <1>3, <1>5, <1>6, <2>1 DEF StayAlike
  <2>3. \A i \in 0 .. n : g[i] = f[i]
    BY <1>3, <2>2, OnlyOne
  <2> QED BY <1>5, <1>9, <2>3 DEF Defines
<1>10. f = CHOOSE g : Defines(g)
  BY <1>8, <1>9
<1>11. f[n] = Number(str, n)
  BY <1>10 DEF Number, Defines
<1> QED BY <1>7, <1>11

\* Written() divides by ten again and again.
LEMMA WrittenSteps ==
  ASSUME NEW d, NEW n, n = Len(d), n \in Nat, NEW v, v \in Int
  PROVE  \E f : Remains(f, v, n) /\ (Written(d, v) <=> TakenOff(d, f, n))
<1> DEFINE step == [i \in 1 .. n |-> [u \in Int |-> u \div 10]]
           Defines(f) == f = [i \in 0 .. n |-> IF i = 0 THEN v ELSE f[i - 1] \div 10]
<1>1. \A i \in 1 .. n, u \in Int : step[i][u] = u \div 10 /\ step[i][u] \in Int
  OBVIOUS
<1> HIDE DEF step, Defines
<1>2. StepType(step, n)
  BY <1>1 DEF StepType
<1>4. PICK f : Computes(f, v, step, n)
  BY <1>2, Recursion
<1>5. f \in [0 .. n -> Int] /\ f[0] = v
  BY <1>4 DEF Computes
<1>6. ASSUME NEW i \in 1 .. n PROVE f[i] = f[i - 1] \div 10
  <2>1. f[i - 1] \in Int
    BY <1>5
  <2> QED BY <1>1, <1>4, <2>1 DEF Computes
<1>7. Remains(f, v, n)
  BY <1>5, <1>6 DEF Remains
<1>8. Defines(f)
  BY <1>5, <1>6 DEF Defines
<1>9. ASSUME NEW g, Defines(g) PROVE g = f
  <2>1. DOMAIN g = 0 .. n /\ g[0] = v /\ \A i \in 1 .. n : g[i] = g[i - 1] \div 10
    BY <1>9 DEF Defines
  <2>2. StayAlike(g, f, n)
    BY <1>5, <1>6, <2>1 DEF StayAlike
  <2>3. \A i \in 0 .. n : g[i] = f[i]
    BY <2>2, OnlyOne
  <2> QED BY <1>5, <1>9, <2>3 DEF Defines
<1>10. f = CHOOSE g : Defines(g)
  BY <1>8, <1>9
<1>11. Written(d, v) <=> TakenOff(d, f, n)
  BY <1>10 DEF Written, Defines, TakenOff
<1> QED BY <1>7, <1>11

LEMMA TimesTen ==
  ASSUME NEW q \in Nat, NEW r \in 0 .. 9
  PROVE  (10 * q + r) \div 10 = q /\ (10 * q + r) % 10 = r /\ 10 * q + r \in Nat
OBVIOUS

LEMMA DivTen ==
  ASSUME NEW x \in Int
  PROVE  x % 10 \in 0 .. 9 /\ 10 * (x \div 10) + (x % 10) = x
OBVIOUS

\* The first n characters of str are digits, and d consists of them.
Digital(d, str, n) ==
  /\ d \in Seq(Nat) /\ Len(d) = n
  /\ \A i \in 1 .. n : d[i] = str[i] /\ d[i] \in Digits

\* Reading undoes the divisions: each value is a tenth of the next one.
LEMMA ValuesDivide ==
  ASSUME NEW n, n \in Nat, NEW str, NEW d, Digital(d, str, n), NEW f, Values(f, str, n)
  PROVE  /\ \A i \in 0 .. n : f[i] \in Nat
         /\ \A i \in 1 .. n : f[i - 1] = f[i] \div 10 /\ d[i] = 48 + (f[i] % 10)
         /\ \A i \in 1 .. n : f[i] = 10 * f[i - 1] + (d[i] - 48)
<1>1. ASSUME NEW i \in 1 .. n
      PROVE  d[i] - 48 \in 0 .. 9 /\ d[i] \in Nat /\ f[i] = 10 * f[i - 1] + (d[i] - 48)
             /\ f[i] \in Int /\ f[i - 1] \in Int
  <2>1. d[i] \in 48 .. 57 /\ d[i] = str[i] /\ f[i] = 10 * f[i - 1] + str[i] - 48
    BY DEF Digital, Values, Digits
  <2>2. f[i] \in Int /\ f[i - 1] \in Int
    BY DEF Values
  <2> QED BY <2>1, <2>2
<1>2. \A i \in 0 .. n : f[i] \in Nat
  <2> DEFINE S == {i \in 0 .. n : f[i] \in Nat}
  <2>1. 0 \in S
    BY DEF Values
  <2>2. ASSUME NEW k \in S, k \in 0 .. n - 1 PROVE k + 1 \in S
    <3>1. k + 1 \in 1 .. n /\ (k + 1) - 1 = k
      BY <2>2
    <3>2. d[k + 1] - 48 \in 0 .. 9 /\ f[k + 1] = 10 * f[k] + (d[k + 1] - 48)
      BY <1>1, <3>1
    <3>3. f[k + 1] \in Nat
      BY <3>2, TimesTen
    <3> QED BY <3>1, <3>3
  <2> HIDE DEF S
  <2>3. 0 .. n \subseteq S
    BY <2>1, <2>2, Induction
  <2> QED BY <2>3 DEF S
<1>3. ASSUME NEW i \in 1 .. n PROVE f[i - 1] = f[i] \div 10 /\ d[i] = 48 + (f[i] % 10)
  <2>1. f[i - 1] \in Nat
    BY <1>2
  <2>2. d[i] - 48 \in 0 .. 9 /\ d[i] \in Nat /\ f[i] = 10 * f[i - 1] + (d[i] - 48)
    BY <1>1
  <2> DEFINE q == f[i - 1]
             r == d[i] - 48
  <2>3. q \in Nat /\ r \in 0 .. 9 /\ f[i] = 10 * q + r
    BY <2>1, <2>2
  <2> HIDE DEF q, r
  <2>4. f[i] \div 10 = q /\ f[i] % 10 = r
    BY <2>3, TimesTen
  <2> QED BY <2>2, <2>4 DEF q, r
<1> QED BY <1>1, <1>2, <1>3

\* What is written is the number that is read.
LEMMA WrittenIsNumber ==
  ASSUME NEW str \in Seq(Nat), NEW n, n \in 1 .. Len(str), NEW d, Digital(d, str, n)
  PROVE  Number(str, n) \in Nat /\ \A v \in Nat : Written(d, v) <=> v = Number(str, n)
<1>0. n \in Nat /\ n = Len(d) /\ n \in 0 .. Len(str) /\ n > 0
  BY DEF Digital
<1>1. PICK f : Values(f, str, n) /\ f[n] = Number(str, n)
  BY <1>0, NumberSteps
<1>2. f[n] \in Nat
  BY <1>0, <1>1, ValuesDivide
<1>3. \A i \in 1 .. n : f[i - 1] = f[i] \div 10 /\ d[i] = 48 + (f[i] % 10)
  BY <1>0, <1>1, ValuesDivide
<1>4. \A i \in 1 .. n : f[i] = 10 * f[i - 1] + (d[i] - 48)
  BY <1>0, <1>1, ValuesDivide
<1>5. ASSUME NEW v \in Nat, Written(d, v) PROVE v = f[n]
  <2>0. v \in Int
    OBVIOUS
  <2>1. PICK g : Remains(g, v, n) /\ TakenOff(d, g, n)
    BY <1>0, <1>5, <2>0, WrittenSteps
  <2> DEFINE h == [j \in 0 .. n |-> g[n - j]]
  <2>2. StayAlike(f, h, n)
    <3>1. f[0] = h[0]
      BY <1>0, <1>1, <2>1 DEF Values, TakenOff
    <3>2. ASSUME NEW i \in 1 .. n, f[i - 1] = h[i - 1] PROVE f[i] = h[i]
      <4> DEFINE x == g[n - i]
      <4>1. n - i \in 0 .. n /\ n + 1 - i \in 1 .. n /\ (n + 1 - i) - 1 = n - i
            /\ n + 1 - (n + 1 - i) = i /\ n - (i - 1) = n + 1 - i
        BY <1>0
      <4>2. x \in Int /\ g[n + 1 - i] = x \div 10 /\ d[i] = 48 + (x % 10)
        BY <2>1, <4>1 DEF Remains, TakenOff
      <4>3. h[i - 1] = g[n + 1 - i] /\ h[i] = x
        BY <1>0, <4>1
      <4> HIDE DEF x, h
      <4>4. f[i] = 10 * (x \div 10) + ((48 + (x % 10)) - 48)
        BY <1>4, <3>2, <4>2, <4>3
      <4>5. x % 10 \in 0 .. 9 /\ 10 * (x \div 10) + (x % 10) = x
        BY <4>2, DivTen
      <4> QED BY <4>2, <4>3, <4>4, <4>5
    <3> QED BY <3>1, <3>2 DEF StayAlike
  <2>3. h[n] = g[0]
    BY <1>0
  <2> HIDE DEF h
  <2>4. f[n] = h[n]
    BY <1>0, <2>2, OnlyOne
  <2> QED BY <2>1, <2>3, <2>4 DEF Remains
<1>6. Written(d, f[n])
  <2>1. f[n] \in Int
    BY <1>2
  <2>2. PICK g : Remains(g, f[n], n) /\ (Written(d, f[n]) <=> TakenOff(d, g, n))
    BY <1>0, <2>1, WrittenSteps
  <2> DEFINE h == [j \in 0 .. n |-> f[n - j]]
  <2>3. StayAlike(g, h, n)
    <3>1. g[0] = h[0]
      BY <1>0, <2>2 DEF Remains
    <3>2. ASSUME NEW i \in 1 .. n, g[i - 1] = h[i - 1] PROVE g[i] = h[i]
      <4>1. n + 1 - i \in 1 .. n /\ (n + 1 - i) - 1 = n - i /\ n - (i - 1) = n + 1 - i
            /\ i - 1 \in 0 .. n /\ i \in 0 .. n
        BY <1>0
      <4>2. f[n - i] = f[n + 1 - i] \div 10
        BY <1>3, <4>1
      <4>3. h[i - 1] = f[n + 1 - i] /\ h[i] = f[n - i]
        BY <4>1
      <4> HIDE DEF h
      <4> QED BY <2>2, <3>2, <4>2, <4>3 DEF Remains
    <3> QED BY <3>1, <3>2 DEF StayAlike
  <2>4. \A i \in 0 .. n : g[i] = f[n - i]
    <3>1. \A i \in 0 .. n : h[i] = f[n - i]
      OBVIOUS
    <3> HIDE DEF h
    <3>2. \A i \in 0 .. n : g[i] = h[i]
      BY <1>0, <2>3, OnlyOne
    <3> QED BY <3>1, <3>2
  <2>5. g[n] = 0
    <3>1. g[n] = f[0]
      BY <1>0, <2>4
    <3> QED BY <1>1, <3>1 DEF Values
  <2>6. ASSUME NEW i \in 1 .. n PROVE d[n + 1 - i] = 48 + (g[i - 1] % 10)
    <3>1. n + 1 - i \in 1 .. n /\ i - 1 \in 0 .. n /\ n - (i - 1) = n + 1 - i
      BY <1>0
    <3> QED BY <1>3, <2>4, <3>1
  <2> QED BY <1>0, <2>2, <2>5, <2>6 DEF TakenOff
<1> QED BY <1>1, <1>2, <1>5, <1>6

\* Only digits are written.
LEMMA WrittenDigits ==
  ASSUME NEW d, d \in Seq(Nat), NEW v, v \in Int, Written(d, v)
  PROVE  Len(d) > 0 /\ \A i \in 1 .. Len(d) : d[i] \in Digits
<1> DEFINE n == Len(d)
<1>0. n \in Nat
  OBVIOUS
<1> HIDE DEF n
<1>1. PICK f : Remains(f, v, n) /\ TakenOff(d, f, n)
  BY <1>0, WrittenSteps DEF n
<1>2. ASSUME NEW i \in 1 .. n PROVE d[i] \in Digits
  <2>1. n + 1 - i \in 1 .. n /\ n + 1 - (n + 1 - i) = i /\ (n + 1 - i) - 1 = n - i /\ n - i \in 0 .. n
    BY <1>0
  <2>2. d[i] = 48 + (f[n - i] % 10) /\ f[n - i] \in Int
    BY <1>1, <2>1 DEF Remains, TakenOff
  <2>3. f[n - i] % 10 \in 0 .. 9
    BY <2>2, DivTen
  <2> QED BY <2>2, <2>3 DEF Digits
<1> QED BY <1>1, <1>2 DEF TakenOff, n

-----------------------------------------------------------------------------
(* Parts of strings.                                                       *)

LEMMA SubSeqIs ==
  ASSUME NEW str \in Seq(Nat), NEW a, NEW c, c \in 0 .. Len(str), a \in 0 .. c
  PROVE  /\ SubSeq(str, a + 1, c) \in Seq(Nat) /\ Len(SubSeq(str, a + 1, c)) = c - a
         /\ \A i \in 1 .. c - a : SubSeq(str, a + 1, c)[i] = str[a + i]
<1>1. \A i \in a + 1 .. c : str[i] \in Nat
  OBVIOUS
<1> QED BY <1>1, SubSeqProperties

LEMMA DropIs ==
  ASSUME NEW str \in Seq(Nat), NEW k, k \in 0 .. Len(str)
  PROVE  /\ Drop(str, k) \in Seq(Nat) /\ Len(Drop(str, k)) = Len(str) - k
         /\ \A i \in 1 .. Len(str) - k : Drop(str, k)[i] = str[k + i]
BY SubSeqIs DEF Drop

\* n is how many of the first characters of str are in chars.
IsPrefix(str, chars, n) ==
  /\ n \in 0 .. Len(str) /\ \A i \in 1 .. n : str[i] \in chars
  /\ n < Len(str) => str[n + 1] \notin chars

LEMMA PrefixIs ==
  ASSUME NEW str \in Seq(Nat), NEW chars
  PROVE  IsPrefix(str, chars, Prefix(str, chars)) /\ \A n : IsPrefix(str, chars, n) => n = Prefix(str, chars)
<1> DEFINE S == {n \in 0 .. Len(str) : n < Len(str) => str[n + 1] \notin chars}
<1>1. Len(str) \in S /\ S \subseteq Nat
  OBVIOUS
<1> HIDE DEF S
<1>2. PICK n \in S : \A m \in S : n <= m
  BY <1>1, Smallest
<1>3. n \in 0 .. Len(str) /\ n \in Nat /\ (n < Len(str) => str[n + 1] \notin chars)
  BY DEF S
<1>4. ASSUME NEW i \in 1 .. n PROVE str[i] \in chars
  <2>1. i - 1 \notin S /\ i - 1 \in 0 .. Len(str) /\ i - 1 < Len(str) /\ (i - 1) + 1 = i
    BY <1>2, <1>3
  <2> QED BY <2>1 DEF S
<1>5. IsPrefix(str, chars, n)
  BY <1>3, <1>4 DEF IsPrefix
<1>6. ASSUME NEW m, IsPrefix(str, chars, m) PROVE m = n
  <2>1. m \in 0 .. Len(str) /\ (m < Len(str) => str[m + 1] \notin chars) /\ \A i \in 1 .. m : str[i] \in chars
    BY <1>6 DEF IsPrefix
  <2>2. CASE m < n
    <3>1. m + 1 \in 1 .. n /\ m < Len(str)
      BY <1>3, <2>1, <2>2
    <3> QED BY <1>4, <2>1, <3>1
  <2>3. CASE n < m
    <3>1. n + 1 \in 1 .. m /\ n < Len(str)
      BY <1>3, <2>1, <2>3
    <3> QED BY <1>3, <2>1, <3>1
  <2> QED BY <1>3, <2>1, <2>2, <2>3
<1>7. Prefix(str, chars) = CHOOSE m \in 0 .. Len(str) : IsPrefix(str, chars, m)
  BY DEF Prefix, IsPrefix
<1>8. Prefix(str, chars) = n
  BY <1>3, <1>5, <1>6, <1>7
<1> QED BY <1>5, <1>6, <1>8

\* What skipSpace() leaves begins with another character, or it is empty.
LEMMA SkipSpaceIs ==
  ASSUME NEW str \in Seq(Nat)
  PROVE  /\ skipSpace(str) \in Seq(Nat)
         /\ skipSpace(str) = <<>> <=> \A i \in 1 .. Len(str) : str[i] \in Spaces
         /\ skipSpace(str) # <<>> => skipSpace(str)[1] \notin Spaces
<1> DEFINE n == Prefix(str, Spaces)
           t == Drop(str, n)
<1>1. n \in 0 .. Len(str) /\ (\A i \in 1 .. n : str[i] \in Spaces) /\ (n < Len(str) => str[n + 1] \notin Spaces)
  BY PrefixIs DEF IsPrefix
<1> HIDE DEF n
<1>2. t \in Seq(Nat) /\ Len(t) = Len(str) - n /\ \A i \in 1 .. Len(str) - n : t[i] = str[n + i]
  BY <1>1, DropIs
<1> HIDE DEF t
<1>3. t = <<>> <=> n = Len(str)
  BY <1>1, <1>2
<1>4. n = Len(str) <=> \A i \in 1 .. Len(str) : str[i] \in Spaces
  BY <1>1
<1>5. t # <<>> => t[1] = str[n + 1] /\ n < Len(str)
  BY <1>1, <1>2, <1>3
<1>6. skipSpace(str) = t
  BY DEF skipSpace, t, n
<1> QED BY <1>1, <1>2, <1>3, <1>4, <1>5, <1>6
-----------------------------------------------------------------------------
(* strtol().                                                               *)

\* body is str without its sign, which takes s characters.
Unsigned(body, str, s) ==
  /\ s \in 0 .. 1 /\ (s = 1 <=> str[1] \in {Plus, Minus})
  /\ body \in Seq(Nat) /\ Len(body) = Len(str) - s
  /\ \A i \in 1 .. Len(str) - s : body[i] = str[s + i]

\* n digits are read from body.
Reads(str, body, n) ==
  strtol(str) = IF n = 0 THEN [value |-> 0, rest |-> str]
                ELSE [value |-> IF str[1] = Minus THEN -Number(body, n) ELSE Number(body, n),
                      rest |-> Drop(body, n)]

LEMMA StrtolIs ==
  ASSUME NEW str \in Seq(Nat), str # <<>>
  PROVE  \E s, body, n : Unsigned(body, str, s) /\ IsPrefix(body, Digits, n) /\ Reads(str, body, n)
<1> DEFINE signed == str[1] \in {Plus, Minus}
           body == IF signed THEN Tail(str) ELSE str
           s == IF signed THEN 1 ELSE 0
           n == Prefix(body, Digits)
<1>1. Len(str) \in Nat \ {0}
  OBVIOUS
<1>2. Unsigned(body, str, s)
  <2>1. CASE signed
    <3>1. body \in Seq(Nat) /\ Len(body) = Len(str) - 1 /\ \A i \in 1 .. Len(str) - 1 : body[i] = str[1 + i]
      BY <1>1, <2>1, HeadTailProperties
    <3> QED BY <2>1, <3>1 DEF Unsigned
  <2>2. CASE ~signed
    <3>1. body = str /\ s = 0
      BY <2>2
    <3>2. \A i \in 1 .. Len(str) - 0 : str[i] = str[0 + i]
      BY <1>1
    <3> HIDE DEF body, s
    <3> QED BY <1>1, <2>2, <3>1, <3>2 DEF Unsigned
  <2> QED BY <2>1, <2>2
<1>3. Reads(str, body, n)
  BY DEF Reads, strtol
<1> HIDE DEF body, s, n
<1>4. IsPrefix(body, Digits, n)
  <2>1. body \in Seq(Nat)
    BY <1>2 DEF Unsigned
  <2> QED BY <2>1, PrefixIs DEF n
<1> QED BY <1>2, <1>3, <1>4

-----------------------------------------------------------------------------
(* Numbers in strings.                                                     *)

\* str begins with a white space characters, s signs and n digits.
Parts(str, a, s, n) ==
  /\ a \in Nat /\ s \in 0 .. 1 /\ n \in Nat /\ a < Len(str) /\ a + s + n <= Len(str)
  /\ \A i \in 1 .. a : str[i] \in Spaces
  /\ str[a + 1] \notin Spaces
  /\ s = 1 <=> str[a + 1] \in {Plus, Minus}
  /\ \A i \in 1 .. n : str[a + s + i] \in Digits
  /\ a + s + n < Len(str) => str[a + s + n + 1] \notin Digits

DigitsOf(str, a, s, n) == SubSeq(str, a + s + 1, a + s + n)
SpacesFrom(str, k) == \A i \in k + 1 .. Len(str) : str[i] \in Spaces

\* The digits are those of v, and the sign is that of v.
HasValue(str, v, a, s, n) ==
  IF str[a + 1] = Minus THEN v <= 0 /\ Written(DigitsOf(str, a, s, n), -v)
                        ELSE v >= 0 /\ Written(DigitsOf(str, a, s, n), v)

Spells(str, v, a, s, n) ==
  Parts(str, a, s, n) /\ n > 0 /\ SpacesFrom(str, a + s + n) /\ HasValue(str, v, a, s, n)

LEMMA OnePartition ==
  ASSUME NEW str, str \in Seq(Nat), NEW a, NEW s, NEW n, NEW b, NEW t, NEW m,
         Parts(str, a, s, n), Parts(str, b, t, m)
  PROVE  a = b /\ s = t /\ n = m
<1>1. a \in Nat /\ b \in Nat /\ s \in 0 .. 1 /\ t \in 0 .. 1 /\ n \in Nat /\ m \in Nat
  BY DEF Parts
<1>2. a = b
  <2>1. CASE a < b
    <3>1. a + 1 \in 1 .. b
      BY <1>1, <2>1
    <3> QED BY <3>1 DEF Parts
  <2>2. CASE b < a
    <3>1. b + 1 \in 1 .. a
      BY <1>1, <2>2
    <3> QED BY <3>1 DEF Parts
  <2> QED BY <1>1, <2>1, <2>2
<1>3. s = t
  BY <1>1, <1>2 DEF Parts
<1>4. n = m
  <2> DEFINE k == a + s
  <2>0. k \in Nat
    BY <1>1
  <2>1. (\A i \in 1 .. n : str[k + i] \in Digits) /\ (k + n < Len(str) => str[k + n + 1] \notin Digits)
        /\ k + n <= Len(str)
    BY DEF Parts
  <2>2. (\A i \in 1 .. m : str[k + i] \in Digits) /\ (k + m < Len(str) => str[k + m + 1] \notin Digits)
        /\ k + m <= Len(str)
    BY <1>2, <1>3 DEF Parts
  <2> HIDE DEF k
  <2>3. Len(str) \in Nat
    OBVIOUS
  <2>4. CASE n < m
    <3>1. n + 1 \in 1 .. m /\ k + n < Len(str) /\ k + (n + 1) = k + n + 1
      BY <1>1, <2>0, <2>2, <2>3, <2>4
    <3> QED BY <2>1, <2>2, <3>1
  <2>5. CASE m < n
    <3>1. m + 1 \in 1 .. n /\ k + m < Len(str) /\ k + (m + 1) = k + m + 1
      BY <1>1, <2>0, <2>1, <2>3, <2>5
    <3> QED BY <2>1, <2>2, <3>1
  <2> QED BY <1>1, <2>4, <2>5
<1> QED BY <1>2, <1>3, <1>4

LEMMA DigitsOfIs ==
  ASSUME NEW str \in Seq(Nat), NEW a, NEW s, NEW n, Parts(str, a, s, n)
  PROVE  /\ DigitsOf(str, a, s, n) \in Seq(Nat) /\ Len(DigitsOf(str, a, s, n)) = n
         /\ \A i \in 1 .. n : DigitsOf(str, a, s, n)[i] = str[a + s + i]
<1> DEFINE k == a + s
           c == a + s + n
<1>1. c \in 0 .. Len(str) /\ k \in 0 .. c /\ c - k = n
  BY DEF Parts
<1>2. DigitsOf(str, a, s, n) = SubSeq(str, k + 1, c) /\ \A i : str[k + i] = str[a + s + i]
  BY DEF DigitsOf
<1> HIDE DEF k, c
<1> QED BY <1>1, <1>2, SubSeqIs

LEMMA SpelledIsDenoted ==
  ASSUME NEW str, str \in Seq(Nat), NEW v, v \in Int, NEW a, NEW s, NEW n, Spells(str, v, a, s, n)
  PROVE  Denotes(str, v)
<1> DEFINE c == a + s + n
<1>1. a \in 0 .. Len(str) /\ c \in 0 .. Len(str) /\ s \in 0 .. 1 /\ n \in Nat /\ n > 0
  BY DEF Spells, Parts
<1>2. \A i \in (1 .. a) \cup (c + 1 .. Len(str)) : str[i] \in Spaces
  BY DEF Spells, Parts, SpacesFrom
<1>3. (s = 1 <=> str[a + 1] \in {Plus, Minus}) /\ Plus # Minus
  BY DEF Spells, Parts, Plus, Minus
<1>4. HasValue(str, v, a, s, n)
  BY DEF Spells
<1>5. CASE s = 0
  <2>0. a + s + 1 = a + 1
    BY <1>1, <1>5
  <2>1. DigitsOf(str, a, s, n) = SubSeq(str, a + 1, c)
    BY <2>0 DEF DigitsOf
  <2> HIDE DEF c
  <2>2. str[a + 1] # Minus
    BY <1>3, <1>5
  <2>3. v >= 0 /\ Written(SubSeq(str, a + 1, c), v)
    BY <1>4, <2>1, <2>2 DEF HasValue
  <2> QED BY <1>1, <1>2, <2>3 DEF Denotes
<1>6. CASE s = 1
  <2>0. a + s + 1 = a + 2
    BY <1>1, <1>6
  <2>1. DigitsOf(str, a, s, n) = SubSeq(str, a + 2, c)
    BY <2>0 DEF DigitsOf
  <2>2. a < c
    BY <1>1, <1>6
  <2>3. \/ str[a + 1] = Plus /\ v >= 0 /\ Written(SubSeq(str, a + 2, c), v)
        \/ str[a + 1] = Minus /\ v <= 0 /\ Written(SubSeq(str, a + 2, c), -v)
    BY <1>3, <1>4, <1>6, <2>1 DEF HasValue
  <2> HIDE DEF c
  <2> QED BY <1>1, <1>2, <2>2, <2>3 DEF Denotes
<1> QED BY <1>1, <1>5, <1>6

\* The digits follow the sign, and what follows them is white space.
LEMMA PartsOfDigits ==
  ASSUME NEW str, str \in Seq(Nat), NEW a, NEW s, NEW n, NEW u, u \in Int,
         a \in Nat, s \in 0 .. 1, n \in Nat, a + s + n <= Len(str),
         \A i \in 1 .. a : str[i] \in Spaces, SpacesFrom(str, a + s + n),
         s = 1 => str[a + 1] \in {Plus, Minus}, Written(DigitsOf(str, a, s, n), u)
  PROVE  Parts(str, a, s, n) /\ n > 0
<1> DEFINE k == a + s
           c == a + s + n
<1>1. c \in 0 .. Len(str) /\ k \in 0 .. c /\ c - k = n /\ Len(str) \in Nat
  OBVIOUS
<1>2. DigitsOf(str, a, s, n) = SubSeq(str, k + 1, c) /\ \A i : str[k + i] = str[a + s + i]
  BY DEF DigitsOf
<1> HIDE DEF k, c
<1>3. /\ DigitsOf(str, a, s, n) \in Seq(Nat) /\ Len(DigitsOf(str, a, s, n)) = n
      /\ \A i \in 1 .. n : DigitsOf(str, a, s, n)[i] = str[a + s + i]
  BY <1>1, <1>2, SubSeqIs
<1>4. n > 0 /\ \A i \in 1 .. n : DigitsOf(str, a, s, n)[i] \in Digits
  BY <1>3, WrittenDigits
<1>5. \A i \in 1 .. n : str[a + s + i] \in Digits
  BY <1>3, <1>4
<1>6. str[a + s + 1] \in Digits
  BY <1>4, <1>5
<1>7. Spaces \cap (Digits \cup {Plus, Minus}) = {} /\ Digits \cap {Plus, Minus} = {}
  BY DEF Spaces, Digits, Plus, Minus
<1>8. str[a + 1] \notin Spaces /\ (s = 1 <=> str[a + 1] \in {Plus, Minus})
  <2>1. CASE s = 0
    <3>1. a + s + 1 = a + 1
      BY <2>1
    <3> QED BY <1>6, <1>7, <2>1, <3>1
  <2>2. CASE s = 1
    BY <1>7, <2>2
  <2> QED BY <2>1, <2>2
<1>9. a + s + n < Len(str) => str[a + s + n + 1] \notin Digits
  <2>1. a + s + n < Len(str) => a + s + n + 1 \in (a + s + n) + 1 .. Len(str)
    BY <1>1
  <2> QED BY <1>7, <2>1 DEF SpacesFrom
<1> QED BY <1>1, <1>4, <1>5, <1>8, <1>9 DEF Parts

LEMMA DenotedIsSpelled ==
  ASSUME NEW str, str \in Seq(Nat), NEW v, v \in Int, Denotes(str, v)
  PROVE  \E a, s, n : Spells(str, v, a, s, n)
<1>1. PICK a, c \in 0 .. Len(str) :
    /\ \A i \in (1 .. a) \cup (c + 1 .. Len(str)) : str[i] \in Spaces
    /\ \/ v >= 0 /\ Written(SubSeq(str, a + 1, c), v)
       \/ a < c /\ str[a + 1] = Plus /\ v >= 0 /\ Written(SubSeq(str, a + 2, c), v)
       \/ a < c /\ str[a + 1] = Minus /\ v <= 0 /\ Written(SubSeq(str, a + 2, c), -v)
  BY DEF Denotes
<1>2. a \in Nat /\ c \in Nat /\ c <= Len(str) /\ Len(str) \in Nat /\ -v \in Int
  BY <1>1
<1>3. \A i \in 1 .. a : str[i] \in Spaces
  BY <1>1
<1>4. SpacesFrom(str, c)
  BY <1>1 DEF SpacesFrom
<1>5. ASSUME NEW s \in 0 .. 1, a + s <= c, s = 1 => str[a + 1] \in {Plus, Minus}, NEW u \in Int,
             Written(SubSeq(str, a + s + 1, c), u), IF str[a + 1] = Minus /\ s = 1 THEN v <= 0 /\ u = -v ELSE v >= 0 /\ u = v
      PROVE  Spells(str, v, a, s, c - (a + s))
  <2> DEFINE n == c - (a + s)
  <2>1. n \in Nat /\ a + s + n = c
    BY <1>2, <1>5
  <2> HIDE DEF n
  <2>2. Written(DigitsOf(str, a, s, n), u)
    BY <1>5, <2>1 DEF DigitsOf
  <2>3. SpacesFrom(str, a + s + n) /\ a + s + n <= Len(str)
    BY <1>2, <1>4, <2>1
  <2>4. Parts(str, a, s, n) /\ n > 0
    BY <1>2, <1>3, <1>5, <2>1, <2>2, <2>3, PartsOfDigits
  <2>5. str[a + 1] = Minus => s = 1
    BY <2>4 DEF Parts
  <2>6. HasValue(str, v, a, s, n)
    BY <1>5, <2>2, <2>5 DEF HasValue
  <2>7. Spells(str, v, a, s, n)
    BY <2>3, <2>4, <2>6 DEF Spells
  <2> QED BY <2>7 DEF n
<1>6. CASE v >= 0 /\ Written(SubSeq(str, a + 1, c), v)
  <2>1. a <= c
    <3>1. Len(SubSeq(str, a + 1, c)) = IF a + 1 <= c THEN c - (a + 1) + 1 ELSE 0
      BY <1>2, SubSeqProperties
    <3>2. Len(SubSeq(str, a + 1, c)) > 0
      BY <1>6 DEF Written
    <3> QED BY <1>2, <1>6, <3>1, <3>2
  <2>2. a + 0 + 1 = a + 1 /\ a + 0 <= c
    BY <1>2, <2>1
  <2> QED BY <1>5, <1>6, <2>2
<1>7. CASE a < c /\ str[a + 1] = Plus /\ v >= 0 /\ Written(SubSeq(str, a + 2, c), v)
  <2>1. a + 1 + 1 = a + 2 /\ a + 1 <= c /\ Plus # Minus
    BY <1>2, <1>7 DEF Plus, Minus
  <2> QED BY <1>5, <1>7, <2>1
<1>8. CASE a < c /\ str[a + 1] = Minus /\ v <= 0 /\ Written(SubSeq(str, a + 2, c), -v)
  <2>1. a + 1 + 1 = a + 2 /\ a + 1 <= c
    BY <1>2, <1>8
  <2> QED BY <1>2, <1>5, <1>8, <2>1
<1> QED BY <1>1, <1>6, <1>7, <1>8

-----------------------------------------------------------------------------
(* tryParseInt().                                                          *)

\* strtol() stops after the digits, with the value that they have.
Stopped(str, text, a, s, n) ==
  /\ n = 0 => skipSpace(strtol(text).rest) # <<>>
  /\ n > 0 => /\ skipSpace(strtol(text).rest) = <<>> <=> SpacesFrom(str, a + s + n)
              /\ strtol(text).value \in Int
              /\ \A v \in Int : HasValue(str, v, a, s, n) <=> v = strtol(text).value

LEMMA Reading ==
  ASSUME NEW str, str \in Seq(Nat), NEW text, text = skipSpace(str), text # <<>>
  PROVE  \E a, s, n : Parts(str, a, s, n) /\ Stopped(str, text, a, s, n)
<1> DEFINE a == Prefix(str, Spaces)
<1>0. Len(str) \in Nat
  OBVIOUS
<1>1. a \in 0 .. Len(str) /\ (\A i \in 1 .. a : str[i] \in Spaces) /\ (a < Len(str) => str[a + 1] \notin Spaces)
  BY PrefixIs DEF IsPrefix
<1>2. text = Drop(str, a)
  BY DEF skipSpace
<1> HIDE DEF a
<1>3. text \in Seq(Nat) /\ Len(text) = Len(str) - a /\ \A i \in 1 .. Len(str) - a : text[i] = str[a + i]
  <2>1. a \in 0 .. Len(str)
    BY <1>1
  <2>2. /\ Drop(str, a) \in Seq(Nat) /\ Len(Drop(str, a)) = Len(str) - a
        /\ \A i \in 1 .. Len(str) - a : Drop(str, a)[i] = str[a + i]
    BY <2>1, DropIs
  <2> QED BY <1>2, <2>2
<1>4. a < Len(str)
  BY <1>0, <1>1, <1>3
<1>5. text[1] = str[a + 1]
  BY <1>0, <1>1, <1>3, <1>4
<1>6. PICK s, body, n : Unsigned(body, text, s) /\ IsPrefix(body, Digits, n) /\ Reads(text, body, n)
  BY <1>3, StrtolIs
<1>7. s \in 0 .. 1 /\ (s = 1 <=> str[a + 1] \in {Plus, Minus}) /\ body \in Seq(Nat) /\ Len(body) = Len(str) - (a + s)
  BY <1>0, <1>1, <1>3, <1>5, <1>6 DEF Unsigned
<1>8. n \in 0 .. Len(body) /\ n \in Nat /\ Len(body) \in Nat
  BY <1>6, <1>7 DEF IsPrefix
<1>9. ASSUME NEW i \in 1 .. Len(body) PROVE body[i] = str[a + s + i]
  <2>1. s + i \in 1 .. Len(str) - a /\ i \in 1 .. Len(text) - s
    BY <1>0, <1>1, <1>3, <1>7
  <2>2. body[i] = text[s + i]
    BY <1>6, <2>1 DEF Unsigned
  <2>3. text[s + i] = str[a + (s + i)]
    BY <1>3, <2>1
  <2>4. a + (s + i) = a + s + i
    BY <1>1, <1>7
  <2> QED BY <2>2, <2>3, <2>4
<1>10. Parts(str, a, s, n)
  <2>1. \A i \in 1 .. n : str[a + s + i] \in Digits
    BY <1>6, <1>8, <1>9 DEF IsPrefix
  <2>2. a + s + n < Len(str) => str[a + s + n + 1] \notin Digits
    <3>1. a + s + n < Len(str) => n + 1 \in 1 .. Len(body) /\ n < Len(body) /\ a + s + (n + 1) = a + s + n + 1
      BY <1>0, <1>1, <1>7, <1>8
    <3> QED BY <1>6, <1>9, <3>1 DEF IsPrefix
  <2>3. a + s + n <= Len(str)
    BY <1>0, <1>1, <1>7, <1>8
  <2> QED BY <1>1, <1>4, <1>7, <1>8, <2>1, <2>2, <2>3 DEF Parts
<1>11. CASE n = 0
  <2>1. strtol(text).rest = text
    BY <1>6, <1>11 DEF Reads
  <2>2. text[1] \notin Spaces /\ 1 \in 1 .. Len(text)
    BY <1>0, <1>1, <1>3, <1>4, <1>5
  <2>3. skipSpace(text) # <<>>
    BY <1>3, <2>2, SkipSpaceIs
  <2> QED BY <1>10, <1>11, <2>1, <2>3 DEF Stopped
<1>12. CASE n > 0
  <2> DEFINE d == DigitsOf(str, a, s, n)
             N == Number(body, n)
             rest == Drop(body, n)
  <2>1. Digital(d, body, n)
    <3>1. d \in Seq(Nat) /\ Len(d) = n /\ \A i \in 1 .. n : d[i] = str[a + s + i]
      BY <1>10, DigitsOfIs
    <3>2. \A i \in 1 .. n : body[i] = str[a + s + i] /\ body[i] \in Digits
      BY <1>6, <1>8, <1>9 DEF IsPrefix
    <3> HIDE DEF d
    <3> QED BY <3>1, <3>2 DEF Digital
  <2>2. n \in 1 .. Len(body)
    BY <1>8, <1>12
  <2> HIDE DEF d
  <2>3. N \in Nat /\ \A v \in Nat : Written(d, v) <=> v = N
    BY <1>7, <2>1, <2>2, WrittenIsNumber
  <2> HIDE DEF N
  <2>4. strtol(text) = [value |-> IF str[a + 1] = Minus THEN -N ELSE N, rest |-> rest]
    BY <1>5, <1>6, <1>12 DEF Reads, N
  <2> HIDE DEF rest
  <2>5. strtol(text).value = (IF str[a + 1] = Minus THEN -N ELSE N) /\ strtol(text).rest = rest
    BY <2>4
  <2>6. ASSUME NEW v \in Int PROVE HasValue(str, v, a, s, n) <=> v = strtol(text).value
    <3>1. CASE str[a + 1] = Minus
      <4>1. v <= 0 => -v \in Nat
        OBVIOUS
      <4>2. v <= 0 => (Written(d, -v) <=> -v = N)
        BY <2>3, <4>1
      <4>3. HasValue(str, v, a, s, n) <=> v <= 0 /\ Written(d, -v)
        BY <3>1 DEF HasValue, d
      <4> QED BY <2>3, <2>5, <3>1, <4>2, <4>3
    <3>2. CASE str[a + 1] # Minus
      <4>1. HasValue(str, v, a, s, n) <=> v >= 0 /\ Written(d, v)
        BY <3>2 DEF HasValue, d
      <4> QED BY <2>3, <2>5, <3>2, <4>1
    <3> QED BY <3>1, <3>2
  <2>7. rest \in Seq(Nat) /\ Len(rest) = Len(body) - n /\ \A i \in 1 .. Len(body) - n : rest[i] = body[n + i]
    BY <1>7, <1>8, DropIs DEF rest
  <2>8. (\A i \in 1 .. Len(rest) : rest[i] \in Spaces) <=> SpacesFrom(str, a + s + n)
    <3> DEFINE k == a + s + n
    <3>1. k \in Nat /\ Len(rest) = Len(str) - k
      BY <1>1, <1>7, <1>8, <2>7
    <3>2. ASSUME NEW i \in 1 .. Len(rest) PROVE rest[i] = str[k + i]
      <4>1. n + i \in 1 .. Len(body) /\ i \in 1 .. Len(body) - n /\ a + s + (n + i) = k + i
        BY <1>1, <1>7, <1>8, <2>7
      <4> QED BY <1>9, <2>7, <4>1
    <3> HIDE DEF k
    <3>3. (\A i \in 1 .. Len(rest) : rest[i] \in Spaces) => SpacesFrom(str, k)
      <4>1. SUFFICES ASSUME \A i \in 1 .. Len(rest) : rest[i] \in Spaces, NEW j \in k + 1 .. Len(str)
                     PROVE  str[j] \in Spaces
        BY DEF SpacesFrom
      <4>2. j - k \in 1 .. Len(rest) /\ k + (j - k) = j
        BY <1>0, <3>1
      <4> QED BY <3>2, <4>1, <4>2
    <3>4. SpacesFrom(str, k) => \A i \in 1 .. Len(rest) : rest[i] \in Spaces
      <4>1. SUFFICES ASSUME SpacesFrom(str, k), NEW i \in 1 .. Len(rest)
                     PROVE  rest[i] \in Spaces
        OBVIOUS
      <4>2. k + i \in k + 1 .. Len(str)
        BY <1>0, <3>1
      <4> QED BY <3>2, <4>1, <4>2 DEF SpacesFrom
    <3> QED BY <3>3, <3>4 DEF k
  <2>9. skipSpace(rest) = <<>> <=> SpacesFrom(str, a + s + n)
    BY <2>7, <2>8, SkipSpaceIs
  <2>10. strtol(text).value \in Int
    BY <2>3, <2>5
  <2> QED BY <1>10, <1>12, <2>5, <2>6, <2>9, <2>10 DEF Stopped
<1> QED BY <1>8, <1>11, <1>12

LEMMA SpelledIsAccepted ==
  ASSUME NEW str, str \in Seq(Nat), NEW text, text = skipSpace(str), text # <<>>, NEW v,
         v \in -IntMax - 1 .. IntMax, NEW a, NEW s, NEW n, Spells(str, v, a, s, n)
  PROVE  tryParseInt(str) = [errno |-> 0, value |-> v]
<1>1. PICK b, t, m : Parts(str, b, t, m) /\ Stopped(str, text, b, t, m)
  BY Reading
<1>2. Parts(str, a, s, n) /\ n > 0 /\ SpacesFrom(str, a + s + n) /\ HasValue(str, v, a, s, n)
  BY DEF Spells
<1>3. a = b /\ s = t /\ n = m
  BY <1>1, <1>2, OnePartition
<1>4. v \in Int /\ IntMax \in Nat /\ LongMax \in Nat /\ IntMax <= LongMax
  BY CommandLineAssumption
<1>5. skipSpace(strtol(text).rest) = <<>> /\ strtol(text).value = v
  BY <1>1, <1>2, <1>3, <1>4 DEF Stopped
<1>6. ~(v > LongMax \/ v < -LongMax - 1) /\ ~(v > IntMax \/ v < -IntMax - 1)
  BY <1>4
<1> QED BY <1>5, <1>6 DEF tryParseInt

LEMMA AcceptedIsSpelled ==
  ASSUME NEW str, str \in Seq(Nat), tryParseInt(str).errno = 0, NEW v, v = tryParseInt(str).value
  PROVE  v \in -IntMax - 1 .. IntMax /\ \E a, s, n : Spells(str, v, a, s, n)
<1> DEFINE text == skipSpace(str)
           u == strtol(text).value
<1>1. text # <<>> /\ skipSpace(strtol(text).rest) = <<>> /\ ~(u > IntMax \/ u < -IntMax - 1) /\ v = u
  BY DEF tryParseInt, Failed, EINVAL, ERANGE
<1> HIDE DEF text
<1>2. PICK a, s, n : Parts(str, a, s, n) /\ Stopped(str, text, a, s, n)
  BY <1>1, Reading DEF text
<1>3. n > 0
  BY <1>1, <1>2 DEF Parts, Stopped
<1>4. SpacesFrom(str, a + s + n) /\ v \in Int /\ HasValue(str, v, a, s, n)
  BY <1>1, <1>2, <1>3 DEF Stopped
<1>5. v \in -IntMax - 1 .. IntMax
  BY <1>1, <1>4, CommandLineAssumption
<1> QED BY <1>2, <1>3, <1>4, <1>5 DEF Spells

\* tryParseInt() accepts a text exactly if it is a number that an int holds,
\* white space around it or not, and gives the number that is written there:
\* for every text, INT_MAX and LONG_MAX. No text denotes two of them.
THEOREM NumbersAsWritten ==
  ASSUME NEW str, str \in Seq(Nat)
  PROVE  /\ tryParseInt(str).errno = 0 <=> Number_OK(str)
         /\ tryParseInt(str).errno = 0 => Denotes(str, tryParseInt(str).value)
         /\ \A v \in -IntMax - 1 .. IntMax : Denotes(str, v) => tryParseInt(str).value = v
<1>1. ASSUME NEW v \in -IntMax - 1 .. IntMax, Denotes(str, v)
      PROVE  tryParseInt(str).errno = 0 /\ tryParseInt(str).value = v
  <2>1. v \in Int
    BY CommandLineAssumption
  <2>2. PICK a, s, n : Spells(str, v, a, s, n)
    BY <1>1, <2>1, DenotedIsSpelled
  <2>3. skipSpace(str) # <<>>
    <3>1. a \in Nat /\ a < Len(str) /\ str[a + 1] \notin Spaces
      BY <2>2 DEF Spells, Parts
    <3>2. a + 1 \in 1 .. Len(str)
      BY <3>1
    <3> QED BY <3>1, <3>2, SkipSpaceIs
  <2>4. tryParseInt(str) = [errno |-> 0, value |-> v]
    BY <2>2, <2>3, SpelledIsAccepted
  <2> QED BY <2>4
<1>2. ASSUME tryParseInt(str).errno = 0
      PROVE  /\ tryParseInt(str).value \in -IntMax - 1 .. IntMax
             /\ Denotes(str, tryParseInt(str).value)
  <2> DEFINE v == tryParseInt(str).value
  <2>1. v \in -IntMax - 1 .. IntMax /\ \E a, s, n : Spells(str, v, a, s, n)
    BY <1>2, AcceptedIsSpelled
  <2> HIDE DEF v
  <2>2. v \in Int
    BY <2>1, CommandLineAssumption
  <2>3. Denotes(str, v)
    BY <2>1, <2>2, SpelledIsDenoted
  <2> QED BY <2>1, <2>3 DEF v
<1> QED BY <1>1, <1>2 DEF Number_OK
-----------------------------------------------------------------------------
(* Options.                                                                *)

Fields == {"waitTime", "workDir", "doReflesh", "doReadOnly", "noCache", "promptType"}
IsParam(p) == p = [f \in Fields |-> p[f]]
PromptTypes == {"no-color", "zsh", "tmux"}

\* What option o changes, and what it leaves alone.
Changes(o, p, q) ==
  /\ IsParam(q)
  /\ q.doReflesh = IF o.name = "clean" THEN TRUE ELSE p.doReflesh
  /\ q.doReadOnly = IF o.name = "read" THEN TRUE ELSE p.doReadOnly
  /\ q.noCache = IF o.name = "no-cache" THEN TRUE ELSE p.noCache
  /\ q.workDir = IF o.name = "workdir" THEN o.arg ELSE p.workDir
  /\ q.waitTime = IF o.name = "wait" THEN tryParseInt(o.arg).value ELSE p.waitTime
  /\ q.promptType = IF o.name \in PromptTypes THEN o.name ELSE p.promptType

LEMMA ApplyIs ==
  ASSUME NEW o, NEW p, IsParam(p), ~Stops(o), NEW q, q = Apply(o, p)
  PROVE  Changes(o, p, q)
<1> USE DEF Changes
<1>1. o.name \in {"clean", "workdir", "read", "wait", "no-cache"} \cup PromptTypes
  BY DEF Stops, Recognised, ShortOptions, LongOptions, PromptTypes
<1>2. ASSUME NEW f \in Fields, NEW v, q = [p EXCEPT ![f] = v]
      PROVE  IsParam(q) /\ q[f] = v /\ \A g \in Fields \ {f} : q[g] = p[g]
  BY <1>2, Zenon DEF IsParam
<1> DEFINE Same(g) == q[g] = p[g]
<1>3. CASE o.name = "clean"
  <2>1. q = [p EXCEPT !["doReflesh"] = TRUE]
    BY <1>3 DEF Apply
  <2>2. IsParam(q) /\ q["doReflesh"] = TRUE /\ \A g \in Fields \ {"doReflesh"} : q[g] = p[g]
    BY <1>2, <2>1 DEF Fields
  <2> QED BY <1>3, <2>2 DEF Fields, PromptTypes
<1>4. CASE o.name = "read"
  <2>1. q = [p EXCEPT !["doReadOnly"] = TRUE]
    BY <1>4 DEF Apply
  <2>2. IsParam(q) /\ q["doReadOnly"] = TRUE /\ \A g \in Fields \ {"doReadOnly"} : q[g] = p[g]
    BY <1>2, <2>1 DEF Fields
  <2> QED BY <1>4, <2>2 DEF Fields, PromptTypes
<1>5. CASE o.name = "no-cache"
  <2>1. q = [p EXCEPT !["noCache"] = TRUE]
    BY <1>5 DEF Apply
  <2>2. IsParam(q) /\ q["noCache"] = TRUE /\ \A g \in Fields \ {"noCache"} : q[g] = p[g]
    BY <1>2, <2>1 DEF Fields
  <2> QED BY <1>5, <2>2 DEF Fields, PromptTypes
<1>6. CASE o.name = "workdir"
  <2>1. q = [p EXCEPT !["workDir"] = o.arg]
    BY <1>6 DEF Apply
  <2>2. IsParam(q) /\ q["workDir"] = o.arg /\ \A g \in Fields \ {"workDir"} : q[g] = p[g]
    BY <1>2, <2>1 DEF Fields
  <2> QED BY <1>6, <2>2 DEF Fields, PromptTypes
<1>7. CASE o.name = "wait"
  <2> DEFINE v == tryParseInt(o.arg).value
  <2>1. q = [p EXCEPT !["waitTime"] = v]
    BY <1>7 DEF Apply
  <2> HIDE DEF v
  <2>2. IsParam(q) /\ q["waitTime"] = v /\ \A g \in Fields \ {"waitTime"} : q[g] = p[g]
    BY <1>2, <2>1 DEF Fields
  <2> QED BY <1>7, <2>2 DEF Fields, PromptTypes, v
<1>8. CASE o.name \in PromptTypes
  <2>1. q = [p EXCEPT !["promptType"] = o.name]
    BY <1>8 DEF Apply, PromptTypes
  <2>2. IsParam(q) /\ q["promptType"] = o.name /\ \A g \in Fields \ {"promptType"} : q[g] = p[g]
    BY <1>2, <2>1 DEF Fields
  <2> QED BY <1>8, <2>2 DEF Fields, PromptTypes
<1> QED BY <1>1, <1>3, <1>4, <1>5, <1>6, <1>7, <1>8

\* The last of the first n options with a name in names is option i; or there
\* is none.
LastOf(argv, n, names, i) ==
  i \in 1 .. n /\ argv[i].name \in names /\ \A j \in i + 1 .. n : argv[j].name \notin names
NoneOf(argv, n, names) == \A i \in 1 .. n : argv[i].name \notin names

\* The first n options, read as a whole, say p.
SaidBy(argv, n, p) ==
  /\ IsParam(p)
  /\ p.doReflesh = ~NoneOf(argv, n, {"clean"})
  /\ p.doReadOnly = ~NoneOf(argv, n, {"read"})
  /\ p.noCache = ~NoneOf(argv, n, {"no-cache"})
  /\ NoneOf(argv, n, {"workdir"}) => p.workDir = NoArg
  /\ \A i \in 1 .. n : LastOf(argv, n, {"workdir"}, i) => p.workDir = argv[i].arg
  /\ NoneOf(argv, n, {"wait"}) => p.waitTime = kDefaultWaitTime
  /\ \A i \in 1 .. n : LastOf(argv, n, {"wait"}, i) => p.waitTime = tryParseInt(argv[i].arg).value
  /\ NoneOf(argv, n, PromptTypes) => p.promptType = "no-color"
  /\ \A i \in 1 .. n : LastOf(argv, n, PromptTypes, i) => p.promptType = argv[i].name

LEMMA OneMore ==
  ASSUME NEW argv, NEW n \in Nat, NEW names
  PROVE  IF argv[n + 1].name \in names
         THEN ~NoneOf(argv, n + 1, names) /\ \A i \in 1 .. n + 1 : LastOf(argv, n + 1, names, i) => i = n + 1
         ELSE /\ NoneOf(argv, n + 1, names) <=> NoneOf(argv, n, names)
              /\ \A i \in 1 .. n + 1 : LastOf(argv, n + 1, names, i) => i \in 1 .. n /\ LastOf(argv, n, names, i)
<1>1. 1 .. n + 1 = (1 .. n) \cup {n + 1} /\ n + 1 \in 1 .. n + 1
  OBVIOUS
<1>2. ASSUME NEW i \in 1 .. n PROVE i + 1 .. n + 1 = (i + 1 .. n) \cup {n + 1}
  OBVIOUS
<1>3. CASE argv[n + 1].name \in names
  BY <1>1, <1>2, <1>3 DEF NoneOf, LastOf
<1>4. CASE argv[n + 1].name \notin names
  BY <1>1, <1>2, <1>4 DEF NoneOf, LastOf
<1> QED BY <1>3, <1>4

\* Nothing is said before the first option.
LEMMA NothingSaid == ASSUME NEW argv PROVE SaidBy(argv, 0, DefaultParam)
<1>1. IsParam(DefaultParam)
  BY DEF IsParam, DefaultParam, Fields
<1>2. 1 .. 0 = {}
  OBVIOUS
<1>3. \A names : NoneOf(argv, 0, names)
  BY <1>2 DEF NoneOf
<1> QED BY <1>1, <1>2, <1>3 DEF SaidBy, DefaultParam

LEMMA SaidStep ==
  ASSUME NEW argv, NEW n \in Nat, NEW p, SaidBy(argv, n, p), ~Stops(argv[n + 1]),
         NEW q, q = Apply(argv[n + 1], p)
  PROVE  SaidBy(argv, n + 1, q)
<1> DEFINE o == argv[n + 1]
<1>0. IsParam(p) /\ ~Stops(o) /\ q = Apply(o, p)
  BY DEF SaidBy
<1> HIDE DEF o
<1>1. Changes(o, p, q)
  BY <1>0, ApplyIs
<1> USE DEF Changes
<1>2. /\ q.doReflesh = ~NoneOf(argv, n + 1, {"clean"})
      /\ q.doReadOnly = ~NoneOf(argv, n + 1, {"read"})
      /\ q.noCache = ~NoneOf(argv, n + 1, {"no-cache"})
  BY <1>1, OneMore DEF SaidBy, o
<1>3. /\ NoneOf(argv, n + 1, {"workdir"}) => q.workDir = NoArg
      /\ \A i \in 1 .. n + 1 : LastOf(argv, n + 1, {"workdir"}, i) => q.workDir = argv[i].arg
  BY <1>1, OneMore DEF SaidBy, o
<1>4. /\ NoneOf(argv, n + 1, {"wait"}) => q.waitTime = kDefaultWaitTime
      /\ \A i \in 1 .. n + 1 : LastOf(argv, n + 1, {"wait"}, i) => q.waitTime = tryParseInt(argv[i].arg).value
  BY <1>1, OneMore DEF SaidBy, o
<1>5. /\ NoneOf(argv, n + 1, PromptTypes) => q.promptType = "no-color"
      /\ \A i \in 1 .. n + 1 : LastOf(argv, n + 1, PromptTypes, i) => q.promptType = argv[i].name
  BY <1>1, OneMore DEF SaidBy, o
<1> QED BY <1>1, <1>2, <1>3, <1>4, <1>5 DEF SaidBy

\* Last() is the last position.
LEMMA LastIs ==
  ASSUME NEW argv, NEW n, n \in Nat, n = Len(argv), NEW names, Given(argv, names) # {}
  PROVE  LastOf(argv, n, names, Last(Given(argv, names)))
<1> DEFINE G == Given(argv, names)
           S == {n - i : i \in G}
<1>1. G = {i \in 1 .. n : argv[i].name \in names}
  BY DEF Given
<1> HIDE DEF G
<1>2. S \in SUBSET Nat /\ S # {}
  BY <1>1 DEF G
<1>3. PICK k \in S : \A m \in S : k <= m
  BY <1>2, Smallest
<1>4. PICK i \in G : k = n - i
  BY <1>3
<1>5. \A j \in G : j <= i
  <2>1. ASSUME NEW j \in G PROVE j <= i
    <3>1. n - i <= n - j
      BY <1>3, <1>4
    <3> QED BY <1>1, <3>1
  <2> QED BY <2>1
<1> DEFINE l == Last(G)
<1>6. l \in G /\ \A j \in G : j <= l
  BY <1>4, <1>5 DEF Last
<1> HIDE DEF l
<1>7. l \in 1 .. n /\ argv[l].name \in names
  BY <1>1, <1>6
<1>8. ASSUME NEW j \in l + 1 .. n PROVE argv[j].name \notin names
  <2>1. j \in 1 .. n /\ ~(j <= l)
    BY <1>7, <1>8
  <2> QED BY <1>1, <1>6, <2>1
<1>9. LastOf(argv, n, names, l)
  BY <1>7, <1>8 DEF LastOf
<1> QED BY <1>9 DEF l, G

\* The program accepts the options that are written about, those with two
\* dashes and those with one.
LEMMA RecognisedIsDocumented ==
  ASSUME NEW o, o.dashes \in {1, 2}, ~Disputed(o)
  PROVE  Recognised(o) <=> Documented(o)
<1> USE DEF Recognised, Documented, Disputed, ShortOptions, LongOptions, WithArgument
<1>1. CASE o.name \in {"clean", "help", "no-cache", "read", "version"}
  BY <1>1
<1>2. CASE o.name = "wait"
  BY <1>2
<1>3. CASE o.name = "workdir"
  BY <1>3
<1>4. CASE o.name \in {"no-color", "zsh", "tmux"}
  BY <1>4
<1>5. CASE o.name \notin {"clean", "help", "no-cache", "read", "version", "wait", "workdir",
                         "no-color", "zsh", "tmux"}
  BY <1>5
<1> QED BY <1>1, <1>2, <1>3, <1>4, <1>5

\* An option stops the program exactly if the reference says so.
LEMMA StopsIsEnding ==
  ASSUME NEW o, o.dashes \in {1, 2}, ~Disputed(o), o.name = "wait" => o.arg \in {NoArg} \cup Seq(Nat)
  PROVE  Stops(o) <=> Ending(o)
<1>0. Recognised(o) <=> Documented(o)
  BY RecognisedIsDocumented
<1>1. CASE Recognised(o) /\ o.name = "wait"
  <2>1. o.arg \in Seq(Nat)
    BY <1>1 DEF Recognised, WithArgument
  <2>2. tryParseInt(o.arg).errno = 0 <=> Number_OK(o.arg)
    BY <2>1, NumbersAsWritten
  <2> QED BY <1>0, <1>1, <2>2 DEF Stops, Ending
<1>2. CASE ~(Recognised(o) /\ o.name = "wait")
  BY <1>0, <1>2 DEF Stops, Ending
<1> QED BY <1>1, <1>2

\* What all options say is what the command line means.
LEMMA SaidIsMeant ==
  ASSUME NEW argv, NEW n, n \in Nat, n = Len(argv), NEW p, SaidBy(argv, n, p),
         \A i \in 1 .. n : ~Stops(argv[i]),
         \A i \in 1 .. n : argv[i].name = "wait" => argv[i].arg \in {NoArg} \cup Seq(Nat)
  PROVE  Means(argv, p)
<1>1. \A names : Given(argv, names) = {} <=> NoneOf(argv, n, names)
  BY DEF Given, NoneOf
<1>2. \A names : Given(argv, names) # {} => LastOf(argv, n, names, Last(Given(argv, names)))
  BY LastIs
<1>3. \A names, i : LastOf(argv, n, names, i) => i \in 1 .. n /\ argv[i].name \in names
  BY DEF LastOf
<1>4. /\ p.doReflesh = (Given(argv, {"clean"}) # {})
      /\ p.doReadOnly = (Given(argv, {"read"}) # {})
      /\ p.noCache = (Given(argv, {"no-cache"}) # {})
  BY <1>1 DEF SaidBy
<1>5. p.workDir = IF Given(argv, {"workdir"}) = {} THEN NoArg ELSE argv[Last(Given(argv, {"workdir"}))].arg
  BY <1>1, <1>2, <1>3 DEF SaidBy
<1>6. p.promptType = IF Given(argv, PromptTypes) = {} THEN "no-color" ELSE argv[Last(Given(argv, PromptTypes))].name
  BY <1>1, <1>2, <1>3 DEF SaidBy
<1>7. IF Given(argv, {"wait"}) = {} THEN p.waitTime = DefaultParam.waitTime
      ELSE Denotes(argv[Last(Given(argv, {"wait"}))].arg, p.waitTime)
  <2>1. CASE Given(argv, {"wait"}) = {}
    BY <1>1, <2>1 DEF SaidBy, DefaultParam
  <2>2. CASE Given(argv, {"wait"}) # {}
    <3> DEFINE l == Last(Given(argv, {"wait"}))
    <3>1. LastOf(argv, n, {"wait"}, l)
      BY <1>2, <2>2
    <3> HIDE DEF l
    <3>2. l \in 1 .. n /\ argv[l].name = "wait"
      BY <1>3, <3>1
    <3>3. p.waitTime = tryParseInt(argv[l].arg).value
      BY <3>1, <3>2 DEF SaidBy
    <3>4. Recognised(argv[l]) /\ tryParseInt(argv[l].arg).errno = 0
      BY <3>2 DEF Stops
    <3>5. argv[l].arg \in Seq(Nat)
      BY <3>2, <3>4 DEF Recognised, WithArgument
    <3>6. Denotes(argv[l].arg, tryParseInt(argv[l].arg).value)
      BY <3>4, <3>5, NumbersAsWritten
    <3> QED BY <2>2, <3>3, <3>6 DEF l
  <2> QED BY <2>1, <2>2
<1> QED BY <1>4, <1>5, <1>6, <1>7 DEF Means, PromptTypes
=============================================================================
