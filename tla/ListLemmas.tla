---------------------------- MODULE ListLemmas ----------------------------
(* What linking and unlinking do to the members of a list, that least and    *)
(* greatest elements exist, and multiples.                                   *)
EXTENDS Lists, Functions, WellFoundedInduction, TLAPS

-----------------------------------------------------------------------------
(* Lists: what linking and unlinking do to the members of a list *)

\* Unlinking takes exactly one element out of a list without duplicates.
LEMMA RemoveFacts ==
  ASSUME NEW S, NEW s \in Seq(S), IsInjective(s), NEW t \in Range(s)
  PROVE  /\ Remove(s, t) \in Seq(S)
         /\ IsInjective(Remove(s, t))
         /\ Range(Remove(s, t)) = Range(s) \ {t}
         /\ Len(s) = 1 <=> Remove(s, t) = <<>>
<1> DEFINE k == CHOOSE i \in DOMAIN s : s[i] = t
           r == [i \in 1..Len(s) - 1 |-> IF i < k THEN s[i] ELSE s[i + 1]]
<1>1. Remove(s, t) = r
  BY DEF Remove
<1>2. /\ DOMAIN s = 1..Len(s) /\ Len(s) \in Nat
      /\ \A i \in 1..Len(s) : s[i] \in S
  OBVIOUS
<1>3. k \in 1..Len(s) /\ s[k] = t
  BY <1>2 DEF Range
<1>4. \A i, j \in 1..Len(s) : s[i] = s[j] => i = j
  BY <1>2 DEF IsInjective
<1> HIDE DEF k
<1>5. /\ r \in Seq(S) /\ DOMAIN r = 1..Len(s) - 1 /\ Len(r) = Len(s) - 1
      /\ \A i \in 1..Len(s) - 1 : r[i] = IF i < k THEN s[i] ELSE s[i + 1]
  BY <1>2, <1>3
<1> HIDE DEF r
<1>6. IsInjective(r)
  BY <1>2, <1>3, <1>4, <1>5 DEF IsInjective
<1>7. Range(r) = Range(s) \ {t}
  <2>1. ASSUME NEW x \in Range(r) PROVE x \in Range(s) \ {t}
    BY <1>2, <1>3, <1>4, <1>5 DEF Range
  <2>2. ASSUME NEW x \in Range(s) \ {t} PROVE x \in Range(r)
    <3>1. PICK i \in 1..Len(s) : s[i] = x
      BY <1>2 DEF Range
    <3>2. CASE i < k
      <4>1. i \in 1..Len(s) - 1 /\ r[i] = x
        BY <3>1, <3>2, <1>2, <1>3, <1>5
      <4> QED BY <4>1, <1>5 DEF Range
    <3>3. CASE i > k
      <4>1. i - 1 \in 1..Len(s) - 1 /\ r[i - 1] = x
        BY <3>1, <3>3, <1>2, <1>3, <1>5
      <4> QED BY <4>1, <1>5 DEF Range
    <3>4. i # k
      BY <3>1, <1>3
    <3> QED BY <3>1, <3>2, <3>3, <3>4, <1>3, <1>2
  <2> QED BY <2>1, <2>2
<1>8. Len(s) = 1 <=> r = <<>>
  <2>1. r = <<>> <=> Len(r) = 0
    BY <1>5
  <2> QED BY <2>1, <1>2, <1>5
<1> QED BY <1>1, <1>5, <1>6, <1>7, <1>8

\* Linking an element in at the tail, or pushing it in front, adds just it.
LEMMA AppendFacts ==
  ASSUME NEW S, NEW s \in Seq(S), NEW t \in S
  PROVE  /\ Append(s, t) \in Seq(S)
         /\ Range(Append(s, t)) = Range(s) \cup {t}
         /\ IsInjective(s) /\ t \notin Range(s) => IsInjective(Append(s, t))
         /\ Append(s, t) # <<>>
<1>1. /\ DOMAIN s = 1..Len(s) /\ Len(s) \in Nat
      /\ DOMAIN Append(s, t) = 1..Len(s) + 1
      /\ \A i \in 1..Len(s) : Append(s, t)[i] = s[i]
      /\ Append(s, t)[Len(s) + 1] = t
      /\ Append(s, t) \in Seq(S)
  OBVIOUS
<1>2. Range(Append(s, t)) = Range(s) \cup {t}
  <2>1. ASSUME NEW x \in Range(Append(s, t)) PROVE x \in Range(s) \cup {t}
    BY <1>1 DEF Range
  <2>2. ASSUME NEW x \in Range(s) PROVE x \in Range(Append(s, t))
    BY <1>1 DEF Range
  <2>3. t \in Range(Append(s, t))
    BY <1>1 DEF Range
  <2> QED BY <2>1, <2>2, <2>3
<1>3. IsInjective(s) /\ t \notin Range(s) => IsInjective(Append(s, t))
  BY <1>1 DEF Range, IsInjective
<1> QED BY <1>1, <1>2, <1>3

LEMMA PushFacts ==
  ASSUME NEW S, NEW s \in Seq(S), NEW t \in S
  PROVE  /\ <<t>> \o s \in Seq(S)
         /\ Range(<<t>> \o s) = {t} \cup Range(s)
         /\ IsInjective(s) /\ t \notin Range(s) => IsInjective(<<t>> \o s)
<1> DEFINE r == <<t>> \o s
<1>1. /\ DOMAIN s = 1..Len(s) /\ Len(s) \in Nat
      /\ r \in Seq(S) /\ DOMAIN r = 1..Len(s) + 1
      /\ r[1] = t
      /\ \A i \in 1..Len(s) + 1 : i > 1 => r[i] = s[i - 1]
  OBVIOUS
<1>2. \A i \in 1..Len(s) : i + 1 \in 1..Len(s) + 1 /\ r[i + 1] = s[i]
  BY <1>1
<1> HIDE DEF r
<1>3. Range(r) = {t} \cup Range(s)
  <2>1. ASSUME NEW x \in Range(r) PROVE x \in {t} \cup Range(s)
    BY <1>1 DEF Range
  <2>2. ASSUME NEW x \in Range(s) PROVE x \in Range(r)
    BY <1>1, <1>2 DEF Range
  <2>3. t \in Range(r)
    BY <1>1 DEF Range
  <2> QED BY <2>1, <2>2, <2>3
<1>4. ASSUME IsInjective(s), t \notin Range(s) PROVE IsInjective(r)
  <2>1. \A i \in 1..Len(s) : s[i] # t
    BY <1>1, <1>4 DEF Range
  <2>2. \A i, j \in 1..Len(s) : s[i] = s[j] => i = j
    BY <1>1, <1>4 DEF IsInjective
  <2>3. \A i, j \in 1..Len(s) + 1 : r[i] = r[j] => i = j
    BY <1>1, <2>1, <2>2
  <2> QED BY <1>1, <2>3 DEF IsInjective
<1> QED BY <1>1, <1>3, <1>4 DEF r

\* Taking the head off a walk leaves the others.
LEMMA TailFacts ==
  ASSUME NEW S, NEW s \in Seq(S), s # <<>>
  PROVE  /\ Head(s) \in S /\ Head(s) \in Range(s)
         /\ Tail(s) \in Seq(S)
         /\ Range(Tail(s)) \subseteq Range(s)
         /\ Range(s) = {Head(s)} \cup Range(Tail(s))
         /\ IsInjective(s) =>
              IsInjective(Tail(s)) /\ Head(s) \notin Range(Tail(s))
<1>1. /\ DOMAIN s = 1..Len(s) /\ Len(s) \in Nat \ {0}
      /\ Tail(s) \in Seq(S) /\ Head(s) \in S /\ Head(s) = s[1]
      /\ DOMAIN Tail(s) = 1..Len(s) - 1
      /\ \A i \in 1..Len(s) - 1 : Tail(s)[i] = s[i + 1]
  OBVIOUS
<1>2. \A i \in 1..Len(s) - 1 : i + 1 \in 1..Len(s) /\ i + 1 # 1
  BY <1>1
<1>3. Head(s) \in Range(s) /\ Range(Tail(s)) \subseteq Range(s)
  BY <1>1, <1>2 DEF Range
<1>4. IsInjective(s) => IsInjective(Tail(s)) /\ Head(s) \notin Range(Tail(s))
  BY <1>1, <1>2 DEF Range, IsInjective
<1>5. ASSUME NEW x \in Range(s), x # Head(s)  PROVE x \in Range(Tail(s))
  <2>1. PICK i \in 1..Len(s) : s[i] = x  BY <1>1 DEF Range
  <2>2. i - 1 \in 1..Len(s) - 1 /\ Tail(s)[i - 1] = x
    BY <1>1, <1>5, <2>1
  <2> QED  BY <1>1, <2>2 DEF Range
<1> QED BY <1>1, <1>3, <1>4, <1>5
-----------------------------------------------------------------------------
(* Least and greatest elements exist *)

LEMMA LeastFacts ==
  ASSUME NEW S \in SUBSET Nat, S # {}
  PROVE  Least(S) \in S /\ \A j \in S : Least(S) <= j
<1> DEFINE R == {ss \in Nat \X Nat : ss[1] < ss[2]}
<1>1. IsWellFoundedOn(R, Nat)
  BY NatLessThanWellFounded DEF OpToRel
<1> HIDE DEF R
<1>2. PICK x \in S : \A y \in S : <<y, x>> \notin R
  BY <1>1, WFMin
<1>3. ASSUME NEW y \in S PROVE x <= y
  <2>1. y < x => <<y, x>> \in R
    <3>1. x \in Nat /\ y \in Nat /\ <<y, x>> \in Nat \X Nat
      OBVIOUS
    <3>2. <<y, x>>[1] = y /\ <<y, x>>[2] = x
      OBVIOUS
    <3> QED BY <3>1, <3>2 DEF R
  <2> QED BY <2>1, <1>2
<1> QED BY <1>3 DEF Least

LEMMA GreatestFacts ==
  ASSUME NEW n \in Nat, NEW S \in SUBSET (0..n), S # {}
  PROVE  Greatest(S) \in S /\ \A j \in S : Greatest(S) >= j
<1> DEFINE T == {n - i : i \in S}
<1>1. T \in SUBSET Nat /\ T # {}
  <2>1. \A i \in S : n - i \in Nat
    OBVIOUS
  <2> QED BY <2>1
<1>2. Least(T) \in T /\ \A j \in T : Least(T) <= j
  BY <1>1, LeastFacts
<1>3. PICK x \in S : Least(T) = n - x
  BY <1>2
<1>4. ASSUME NEW i \in S PROVE x >= i
  <2>1. n - i \in T
    OBVIOUS
  <2>2. n - x <= n - i
    BY <2>1, <1>2, <1>3
  <2>3. x \in Nat /\ i \in Nat
    OBVIOUS
  <2> QED BY <2>2, <2>3
<1> QED BY <1>4 DEF Greatest

-----------------------------------------------------------------------------
(* Multiples *)

LEMMA DivMod ==
  ASSUME NEW x \in Nat, NEW d \in Nat \ {0}
  PROVE  x \div d \in Nat /\ x % d \in 0..d - 1 /\ x = (x \div d) * d + (x % d)
OBVIOUS

LEMMA DivModOf ==
  ASSUME NEW n \in Nat, NEW d \in Nat \ {0}
  PROVE  (n * d) \div d = n /\ (n * d) % d = 0
OBVIOUS

LEMMA MulLess ==
  ASSUME NEW a \in Int, NEW b \in Int, NEW d \in Nat \ {0}, a * d < b * d
  PROVE  a < b
OBVIOUS

LEMMA MulMono ==
  ASSUME NEW a \in Int, NEW b \in Int, NEW d \in Nat, a <= b
  PROVE  a * d <= b * d
OBVIOUS

LEMMA MulNat ==
  ASSUME NEW a \in Nat, NEW b \in Nat
  PROVE  a * b \in Nat
OBVIOUS
=============================================================================
