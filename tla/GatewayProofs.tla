---- MODULE GatewayProofs ----
(***************************************************************************)
(* The window of the rate limit and the bound of the budget, for every     *)
(* number of inquiries, limit, cost, window and lag.                       *)
(*                                                                         *)
(* WindowBounded says nothing of the counters, from which a script         *)
(* decides.  They count every admitted request (Counted), and the keys a   *)
(* script adds up have not expired (AliveInWindow), as a script runs in    *)
(* time (InTime) and keys live that much longer than the window.  So a     *)
(* script that admits its request has seen all that were admitted before,  *)
(* up to its own bucket (RoomLeft).  What it does not see is behind its    *)
(* stamp: at most what the buckets of its lag hold, each no more than the  *)
(* limit (Spread).                                                         *)
(*                                                                         *)
(* OverspendBounded is not inductive: that the counter is within the bound *)
(* does not say what the calls under way will add.  Committed counts them  *)
(* at their highest cost.  Admit keeps it because the counter is not above *)
(* the limit and at most all inquiries are under way; Record because what  *)
(* it adds is at most what was set aside.                                  *)
(***************************************************************************)
EXTENDS Gateway, Functions, FiniteSetTheorems, WellFoundedInduction, TLAPS

\* A set of numbers that is not empty has a least one.
LEMMA LeastNat ==
    ASSUME NEW T \in SUBSET Nat, T # {}
    PROVE  \E n \in T : \A m \in T : n <= m
<1>1. PICK n \in T : \A m \in T : ~(<<m, n>> \in OpToRel(<, Nat))
  BY NatLessThanWellFounded, WFMin, Zenon
<1>2. \A m \in T : ~(m < n)
  BY <1>1 DEF OpToRel
<1> QED
  BY <1>2

\* Induction over the subsets of a finite set, where the property is the set
\* of those that have it.
LEMMA SubsetInduction ==
    ASSUME NEW S, IsFiniteSet(S), NEW Good,
           \A T \in SUBSET S :
              (\A U \in SUBSET T : U # T => U \in Good) => T \in Good
    PROVE  S \in Good
<1> DEFINE Bad == {n \in Nat : \E T \in SUBSET S : T \notin Good /\ Cardinality(T) = n}
<1> SUFFICES ASSUME S \notin Good
             PROVE  FALSE
  OBVIOUS
<1>1. Cardinality(S) \in Bad
  BY FS_CardinalityType
<1>2. PICK n \in Bad : \A m \in Bad : n <= m
  <2> HIDE DEF Bad
  <2>1. Bad \in SUBSET Nat
    BY DEF Bad
  <2> QED
    BY <1>1, <2>1, LeastNat
<1>3. PICK T \in SUBSET S : T \notin Good /\ Cardinality(T) = n
  BY <1>2
<1>4. IsFiniteSet(T)
  BY FS_Subset
<1>5. PICK U \in SUBSET T : U # T /\ U \notin Good
  BY <1>3
<1>6. /\ IsFiniteSet(U) /\ Cardinality(U) <= Cardinality(T)
      /\ Cardinality(U) # Cardinality(T)
  BY <1>4, <1>5, FS_Subset
<1>7. Cardinality(U) \in Bad
  BY <1>5, <1>6, FS_CardinalityType
<1>8. n <= Cardinality(U) /\ Cardinality(U) \in Nat /\ n \in Nat
  BY <1>2, <1>7
<1> QED
  BY <1>3, <1>6, <1>8

\* Multiplication facts the arithmetic below rests on.
LEMMA TimesMonotone ==
    ASSUME NEW a \in Nat, NEW b \in Nat, NEW c \in Nat, a <= b
    PROVE  a * c <= b * c /\ a * c \in Nat /\ b * c \in Nat
  BY Z3

LEMMA TimesSucc ==
    ASSUME NEW a \in Nat, NEW c \in Nat
    PROVE  (a + 1) * c = a * c + c
  BY Z3

----
(* Sums.  SumFunctionOnSet is a fold: a recursive function over the        *)
(* subsets of a finite set, which takes the element of CHOOSE out first.   *)

First(s) == CHOOSE x \in s : TRUE

\* The function by which the sum over S is defined.
Sums(f, S, g) ==
    g = [s \in SUBSET S |-> IF s = {} THEN 0
                            ELSE f[First(s)] + g[s \ {First(s)}]]

\* It is taken from the set.
LEMMA FirstIn ==
    ASSUME NEW s, s # {}
    PROVE  First(s) \in s /\ s \ {First(s)} # s
  BY DEF First

\* There is only one, whatever the set is that it is defined over.
LEMMA SumsAgree ==
    ASSUME NEW f, NEW S, NEW g, Sums(f, S, g), NEW R, NEW h, Sums(f, R, h),
           NEW s \in SUBSET S, s \in SUBSET R, IsFiniteSet(s)
    PROVE  g[s] = h[s]
<1> DEFINE Good == {t \in SUBSET s : g[t] = h[t]}
<1>1. ASSUME NEW t \in SUBSET s, \A u \in SUBSET t : u # t => u \in Good
      PROVE  t \in Good
  <2>1. CASE t = {}
    BY <2>1 DEF Sums
  <2>2. CASE t # {}
    <3>1. t \ {First(t)} \in Good
      BY <1>1, <2>2, FirstIn
    <3>2. g[t] = f[First(t)] + g[t \ {First(t)}]
      BY <2>2 DEF Sums
    <3>3. h[t] = f[First(t)] + h[t \ {First(t)}]
      BY <2>2 DEF Sums
    <3> QED
      BY <3>1, <3>2, <3>3
  <2> QED
    BY <2>1, <2>2
<1>2. s \in Good
  <2> HIDE DEF Good
  <2> QED
    BY <1>1, SubsetInduction
<1> QED
  BY <1>2

\* And there is one over every finite set.
LEMMA SumsExist ==
    ASSUME NEW f, NEW S, IsFiniteSet(S)
    PROVE  \E g : Sums(f, S, g)
<1> DEFINE Good == {t \in SUBSET S : \E g : Sums(f, t, g)}
           Rest(s) == s \ {First(s)}
           Of(s) == CHOOSE g : Sums(f, s, g)
<1>1. ASSUME NEW t \in SUBSET S, \A u \in SUBSET t : u # t => u \in Good
      PROVE  t \in Good
  <2> DEFINE g == [s \in SUBSET t |-> IF s = {} THEN 0
                                      ELSE f[First(s)] + Of(Rest(s))[Rest(s)]]
  <2>1. ASSUME NEW s \in SUBSET t, s # {}
        PROVE  g[Rest(s)] = Of(Rest(s))[Rest(s)]
    <3> DEFINE r == Rest(s)
    <3>1. r \in SUBSET t /\ r # t /\ r \in SUBSET S
      BY <2>1, FirstIn
    <3>2. Sums(f, r, Of(r))
      BY <1>1, <3>1
    <3>3. CASE r = {}
      BY <3>1, <3>2, <3>3 DEF Sums
    <3>4. CASE r # {}
      <4>1. Rest(r) \in SUBSET r /\ Rest(r) \in SUBSET t /\ Rest(r) # t /\ Rest(r) \in SUBSET S
        BY <3>1, <3>4, FirstIn
      <4>2. Sums(f, Rest(r), Of(Rest(r)))
        BY <1>1, <4>1
      <4>3. IsFiniteSet(Rest(r))
        BY <4>1, FS_Subset
      <4>4. Of(r)[Rest(r)] = Of(Rest(r))[Rest(r)]
        <5> HIDE DEF Of, Rest
        <5> QED
          BY <3>2, <4>1, <4>2, <4>3, SumsAgree
      <4>5. Of(r)[r] = f[First(r)] + Of(r)[Rest(r)]
        <5> HIDE DEF Of
        <5> QED BY <3>2, <3>4 DEF Sums
      <4>6. g[r] = f[First(r)] + Of(Rest(r))[Rest(r)]
        BY <3>1, <3>4
      <4> QED
        BY <4>4, <4>5, <4>6
    <3> QED
      BY <3>3, <3>4
  <2>2. Sums(f, t, g)
    <3> HIDE DEF Of
    <3> QED
      BY <2>1 DEF Sums
  <2> QED
    BY <2>2
<1>2. S \in Good
  <2> HIDE DEF Good
  <2> QED
    BY <1>1, SubsetInduction
<1> QED
  BY <1>2

\* So the library's sum is the value of a function with this equation.
LEMMA SumIsSums ==
    ASSUME NEW f, NEW S, IsFiniteSet(S)
    PROVE  \E g : Sums(f, S, g) /\ SumFunctionOnSet(f, S) = g[S]
<1> DEFINE g == CHOOSE g : Sums(f, S, g)
<1>1. SumFunctionOnSet(f, S) = g[S]
  BY DEF SumFunctionOnSet, FoldFunctionOnSet, MapThenFoldSet, Sums, First
<1>2. Sums(f, S, g)
  BY SumsExist
<1> QED
  BY <1>1, <1>2

\* Nothing to add up.
LEMMA SumEmpty ==
    ASSUME NEW f
    PROVE  SumFunctionOnSet(f, {}) = 0
<1>1. IsFiniteSet({})
  BY FS_EmptySet
<1>2. PICK g : Sums(f, {}, g) /\ SumFunctionOnSet(f, {}) = g[{}]
  BY <1>1, SumIsSums, Zenon
<1> QED
  BY <1>2 DEF Sums

\* The equation of the definition.
LEMMA SumFirst ==
    ASSUME NEW f, NEW S, IsFiniteSet(S), S # {}
    PROVE  SumFunctionOnSet(f, S)
             = f[First(S)] + SumFunctionOnSet(f, S \ {First(S)})
<1> DEFINE R == S \ {First(S)}
<1>1. IsFiniteSet(R) /\ R \in SUBSET S /\ R \in SUBSET R
  BY FS_Subset
<1>2. PICK g : Sums(f, S, g) /\ SumFunctionOnSet(f, S) = g[S]
  BY SumIsSums, Zenon
<1>3. PICK h : Sums(f, R, h) /\ SumFunctionOnSet(f, R) = h[R]
  BY <1>1, SumIsSums, Zenon
<1>4. g[R] = h[R]
  <2> HIDE DEF R
  <2> QED
    BY <1>1, <1>2, <1>3, SumsAgree
<1>5. g[S] = f[First(S)] + g[R]
  BY <1>2 DEF Sums
<1> QED
  BY <1>2, <1>3, <1>4, <1>5

\* A sum of natural numbers is one.
LEMMA SumNat ==
    ASSUME NEW S, IsFiniteSet(S), NEW f, \A x \in S : f[x] \in Nat
    PROVE  SumFunctionOnSet(f, S) \in Nat
<1> DEFINE Good == {t \in SUBSET S : SumFunctionOnSet(f, t) \in Nat}
<1>1. ASSUME NEW t \in SUBSET S, \A u \in SUBSET t : u # t => u \in Good
      PROVE  t \in Good
  <2>1. CASE t = {}
    BY <2>1, SumEmpty
  <2>2. CASE t # {}
    <3>1. First(t) \in S /\ t \ {First(t)} \in Good /\ IsFiniteSet(t)
      BY <1>1, <2>2, FirstIn, FS_Subset
    <3>2. SumFunctionOnSet(f, t) = f[First(t)] + SumFunctionOnSet(f, t \ {First(t)})
      BY <2>2, <3>1, SumFirst
    <3> QED
      BY <3>1, <3>2
  <2> QED
    BY <2>1, <2>2
<1>2. S \in Good
  <2> HIDE DEF Good
  <2> QED
    BY <1>1, SubsetInduction
<1> QED
  BY <1>2

\* Any element may be taken out first.
LEMMA SumRemove ==
    ASSUME NEW S, IsFiniteSet(S), NEW f, \A x \in S : f[x] \in Nat, NEW x \in S
    PROVE  SumFunctionOnSet(f, S) = f[x] + SumFunctionOnSet(f, S \ {x})
<1> DEFINE Good == {t \in SUBSET S :
                      \A y \in t : SumFunctionOnSet(f, t)
                                     = f[y] + SumFunctionOnSet(f, t \ {y})}
<1>1. ASSUME NEW t \in SUBSET S, \A u \in SUBSET t : u # t => u \in Good
      PROVE  t \in Good
  <2> SUFFICES ASSUME NEW y \in t
               PROVE  SumFunctionOnSet(f, t) = f[y] + SumFunctionOnSet(f, t \ {y})
    OBVIOUS
  <2> DEFINE z == First(t)
  <2>1. IsFiniteSet(t) /\ IsFiniteSet(t \ {y}) /\ IsFiniteSet((t \ {y}) \ {z})
    BY FS_Subset
  <2>2. SumFunctionOnSet(f, t) = f[z] + SumFunctionOnSet(f, t \ {z})
    BY <2>1, SumFirst
  <2>3. ASSUME y # z
        PROVE  SumFunctionOnSet(f, t) = f[y] + SumFunctionOnSet(f, t \ {y})
    <3>1. z \in t /\ z \in t \ {y} /\ y \in t \ {z}
      BY <2>3, FirstIn
    <3>2. t \ {z} \in Good /\ t \ {y} \in Good
      BY <1>1, <3>1
    <3>3. /\ SumFunctionOnSet(f, t \ {z}) = f[y] + SumFunctionOnSet(f, (t \ {z}) \ {y})
          /\ SumFunctionOnSet(f, t \ {y}) = f[z] + SumFunctionOnSet(f, (t \ {y}) \ {z})
      BY <3>1, <3>2
    <3>4. (t \ {z}) \ {y} = (t \ {y}) \ {z}
      OBVIOUS
    <3>5. SumFunctionOnSet(f, (t \ {y}) \ {z}) \in Nat
      BY <2>1, SumNat
    <3>6. f[y] \in Nat /\ f[z] \in Nat
      BY <3>1
    <3> HIDE DEF z, Good
    <3> QED
      BY <2>2, <3>3, <3>4, <3>5, <3>6
  <2> QED
    BY <2>2, <2>3
<1>2. S \in Good
  <2> HIDE DEF Good
  <2> QED
    BY <1>1, SubsetInduction
<1> QED
  BY <1>2

\* Sums over the same set are ordered as what they add up.
LEMMA SumMonotone ==
    ASSUME NEW S, IsFiniteSet(S), NEW f, NEW g,
           \A x \in S : f[x] \in Nat /\ g[x] \in Nat /\ f[x] <= g[x]
    PROVE  SumFunctionOnSet(f, S) <= SumFunctionOnSet(g, S)
<1> DEFINE Good == {t \in SUBSET S : SumFunctionOnSet(f, t) <= SumFunctionOnSet(g, t)}
<1>1. ASSUME NEW t \in SUBSET S, \A u \in SUBSET t : u # t => u \in Good
      PROVE  t \in Good
  <2>1. CASE t = {}
    BY <2>1, SumEmpty
  <2>2. CASE t # {}
    <3> DEFINE z == First(t)
               r == t \ {z}
    <3>1. z \in S /\ r \in Good /\ IsFiniteSet(t) /\ IsFiniteSet(r)
      BY <1>1, <2>2, FirstIn, FS_Subset
    <3>2. /\ SumFunctionOnSet(f, t) = f[z] + SumFunctionOnSet(f, r)
          /\ SumFunctionOnSet(g, t) = g[z] + SumFunctionOnSet(g, r)
      BY <2>2, <3>1, SumFirst
    <3>3. SumFunctionOnSet(f, r) \in Nat /\ SumFunctionOnSet(g, r) \in Nat
      BY <3>1, SumNat
    <3>4. SumFunctionOnSet(f, r) <= SumFunctionOnSet(g, r)
      BY <3>1
    <3>5. f[z] \in Nat /\ g[z] \in Nat /\ f[z] <= g[z]
      BY <3>1
    <3>6. SumFunctionOnSet(f, t) <= SumFunctionOnSet(g, t)
      <4> HIDE DEF z, r, Good
      <4> QED
        BY <3>2, <3>3, <3>4, <3>5
    <3> QED
      BY <3>6
  <2> QED
    BY <2>1, <2>2
<1>2. S \in Good
  <2> HIDE DEF Good
  <2> QED
    BY <1>1, SubsetInduction
<1> QED
  BY <1>2

\* Sums depend on what they add up alone.
LEMMA SumSame ==
    ASSUME NEW S, IsFiniteSet(S), NEW f, NEW g,
           \A x \in S : f[x] \in Nat /\ g[x] = f[x]
    PROVE  SumFunctionOnSet(f, S) = SumFunctionOnSet(g, S)
<1>1. /\ SumFunctionOnSet(f, S) <= SumFunctionOnSet(g, S)
      /\ SumFunctionOnSet(g, S) <= SumFunctionOnSet(f, S)
  BY SumMonotone
<1>2. SumFunctionOnSet(f, S) \in Nat /\ SumFunctionOnSet(g, S) \in Nat
  BY SumNat
<1> QED
  BY <1>1, <1>2

\* One more for one of them is one more in all.
LEMMA SumPlusOne ==
    ASSUME NEW S, IsFiniteSet(S), NEW x \in S, NEW f, NEW g,
           \A y \in S : f[y] \in Nat /\ g[y] = f[y] + (IF y = x THEN 1 ELSE 0)
    PROVE  SumFunctionOnSet(g, S) = SumFunctionOnSet(f, S) + 1
<1> DEFINE R == S \ {x}
<1>1. IsFiniteSet(R) /\ \A y \in S : g[y] \in Nat
  BY FS_Subset
<1>2. /\ SumFunctionOnSet(f, S) = f[x] + SumFunctionOnSet(f, R)
      /\ SumFunctionOnSet(g, S) = g[x] + SumFunctionOnSet(g, R)
  BY <1>1, SumRemove
<1>3. SumFunctionOnSet(f, R) = SumFunctionOnSet(g, R)
  BY <1>1, SumSame
<1>4. SumFunctionOnSet(f, R) \in Nat
  BY <1>1, SumNat
<1> QED
  BY <1>2, <1>3, <1>4

\* A set in two parts.
LEMMA SumParts ==
    ASSUME NEW S, IsFiniteSet(S), NEW f, \A x \in S : f[x] \in Nat,
           NEW T \in SUBSET S
    PROVE  SumFunctionOnSet(f, S)
             = SumFunctionOnSet(f, T) + SumFunctionOnSet(f, S \ T)
<1> DEFINE Good == {t \in SUBSET T :
                      SumFunctionOnSet(f, S)
                        = SumFunctionOnSet(f, t) + SumFunctionOnSet(f, S \ t)}
<1>0. IsFiniteSet(T) /\ SumFunctionOnSet(f, S) \in Nat
  BY FS_Subset, SumNat
<1>1. ASSUME NEW t \in SUBSET T, \A u \in SUBSET t : u # t => u \in Good
      PROVE  t \in Good
  <2>1. CASE t = {}
    BY <1>0, <2>1, SumEmpty
  <2>2. CASE t # {}
    <3> DEFINE z == First(t)
               r == t \ {z}
    <3>1. z \in t /\ r \in Good
      BY <1>1, <2>2, FirstIn
    <3>2. IsFiniteSet(t) /\ IsFiniteSet(r) /\ IsFiniteSet(S \ r) /\ IsFiniteSet(S \ t)
      BY FS_Subset
    <3>3. SumFunctionOnSet(f, t) = f[z] + SumFunctionOnSet(f, r)
      BY <2>2, <3>2, SumFirst
    <3>4. (S \ r) \ {z} = S \ t /\ z \in S \ r
      BY <3>1
    <3>5. SumFunctionOnSet(f, S \ r) = f[z] + SumFunctionOnSet(f, (S \ r) \ {z})
      BY <3>2, <3>4, SumRemove
    <3>6. /\ SumFunctionOnSet(f, r) \in Nat /\ SumFunctionOnSet(f, S \ t) \in Nat
          /\ f[z] \in Nat
      BY <3>1, <3>2, SumNat
    <3>7. SumFunctionOnSet(f, S) = SumFunctionOnSet(f, r) + SumFunctionOnSet(f, S \ r)
      BY <3>1
    <3>8. SumFunctionOnSet(f, S) = SumFunctionOnSet(f, t) + SumFunctionOnSet(f, S \ t)
      <4>1. SumFunctionOnSet(f, S \ r) = f[z] + SumFunctionOnSet(f, S \ t)
        BY <3>4, <3>5
      <4>2. \A p, q, c \in Nat : p + (c + q) = (c + p) + q
        OBVIOUS
      <4> HIDE DEF z, r, Good
      <4> QED
        BY <3>3, <3>6, <3>7, <4>1, <4>2
    <3> QED
      BY <3>8
  <2> QED
    BY <2>1, <2>2
<1>2. T \in Good
  <2> HIDE DEF Good
  <2> QED
    BY <1>0, <1>1, SubsetInduction
<1> QED
  BY <1>2

\* A part adds up to no more than the whole.
LEMMA SumSubset ==
    ASSUME NEW S, IsFiniteSet(S), NEW f, \A x \in S : f[x] \in Nat,
           NEW T \in SUBSET S
    PROVE  SumFunctionOnSet(f, T) <= SumFunctionOnSet(f, S)
<1>1. IsFiniteSet(T) /\ IsFiniteSet(S \ T)
  BY FS_Subset
<1>2. SumFunctionOnSet(f, T) \in Nat /\ SumFunctionOnSet(f, S \ T) \in Nat
  BY <1>1, SumNat
<1> QED
  BY <1>2, SumParts

\* Nothing adds up to nothing.
LEMMA SumZero ==
    ASSUME NEW S, IsFiniteSet(S), NEW f, \A x \in S : f[x] = 0
    PROVE  SumFunctionOnSet(f, S) = 0
<1> DEFINE Good == {t \in SUBSET S : SumFunctionOnSet(f, t) = 0}
<1>1. ASSUME NEW t \in SUBSET S, \A u \in SUBSET t : u # t => u \in Good
      PROVE  t \in Good
  <2>1. CASE t = {}
    BY <2>1, SumEmpty
  <2>2. CASE t # {}
    <3>1. First(t) \in S /\ t \ {First(t)} \in Good /\ IsFiniteSet(t)
      BY <1>1, <2>2, FirstIn, FS_Subset
    <3>2. SumFunctionOnSet(f, t) = f[First(t)] + SumFunctionOnSet(f, t \ {First(t)})
      BY <2>2, <3>1, SumFirst
    <3> QED
      BY <3>1, <3>2
  <2> QED
    BY <2>1, <2>2
<1>2. S \in Good
  <2> HIDE DEF Good
  <2> QED
    BY <1>1, SubsetInduction
<1> QED
  BY <1>2

----
(* The rate limit.  First its inductive invariant.                         *)

CheckState ==
    {Rate!Idle, Rate!Passed} \cup {Rate!Stamped(b) : b \in Rate!Buckets}

RateTypes ==
    /\ now \in Rate!Buckets
    /\ count \in [Rate!Buckets -> Nat]
    /\ touched \in [Rate!Buckets -> Nat]
    /\ check \in [Inquiries -> CheckState]
    /\ admitted \in [Rate!Buckets -> Nat]
    /\ overtaken \in [Rate!Buckets -> Nat]

\* A script runs neither before its stamp nor later than it may.
InTime ==
    \A i \in Inquiries :
       Rate!Pending(i) => /\ check[i].bucket <= now
                          /\ now <= check[i].bucket + MaxLag

\* The key of a bucket was set in the bucket or later, and counts at least
\* the requests admitted there.
Counted ==
    \A b \in Rate!Buckets :
       /\ admitted[b] <= count[b]
       /\ count[b] > 0 => b <= now /\ b <= touched[b]

\* What is admitted in some consecutive buckets of a window.
Spread ==
    \A l, h \in Rate!Buckets :
       l <= h /\ h < l + Window =>
          /\ SumFunctionOnSet(admitted, l .. h) <= (h - l + 1) * RPM
          /\ SumFunctionOnSet(admitted, l .. h) <= (MaxLag + 1) * RPM

\* The first half of WindowBounded.
InOrderBounded ==
    \A b \in Rate!Buckets :
       Rate!SumOfWindow(admitted, b) - Rate!SumOfWindow(overtaken, b) <= RPM

RateInv == RateTypes /\ InTime /\ Counted /\ Spread /\ InOrderBounded

----
\* The constants are what the assumption says, and the buckets finitely many.
LEMMA RateNumbers ==
    /\ Window \in Nat \ {0} /\ TTL \in Nat /\ RPM \in Nat
    /\ MaxLag \in Nat /\ MaxTime \in Nat /\ Window + MaxLag <= TTL
    /\ IsFiniteSet(Rate!Buckets)
    /\ Rate!Buckets = {n \in Nat : n <= MaxTime}
<1>2. /\ Window \in Nat \ {0} /\ TTL \in Nat /\ RPM \in Nat
      /\ MaxLag \in Nat /\ MaxTime \in Nat /\ Window + MaxLag <= TTL
  BY GatewayAssumption DEF Rate!RateLimitAssumption
<1>3. IsFiniteSet(0 .. MaxTime)
  BY <1>2, FS_Interval
<1> QED
  BY <1>2, <1>3 DEF Rate!Buckets

\* So are some of them.
LEMMA SomeBuckets ==
    ASSUME NEW S \in SUBSET Rate!Buckets
    PROVE  IsFiniteSet(S)
  BY RateNumbers, FS_Subset

\* A script that is to run has a stamp.
LEMMA PendingStamp ==
    ASSUME RateTypes, NEW i \in Inquiries, Rate!Pending(i)
    PROVE  check[i].bucket \in Rate!Buckets
<1>1. check[i] \in CheckState
  BY DEF RateTypes
<1>2. check[i].stage = "stamped"
  BY DEF Rate!Pending
<1> QED
  BY <1>1, <1>2 DEF CheckState, Rate!Idle, Rate!Passed, Rate!Stamped

\* The key of a bucket that a script adds up has not expired.
LEMMA AliveInWindow ==
    ASSUME RateTypes, InTime, Counted, NEW i \in Inquiries, Rate!Pending(i),
           NEW y \in Rate!WindowTo(check[i].bucket)
    PROVE  Rate!Value(y) = count[y]
<1> DEFINE x == check[i].bucket
<1>1. x \in Nat /\ x <= now /\ now <= x + MaxLag /\ now \in Nat
  BY PendingStamp, RateNumbers DEF InTime, RateTypes
<1>2. y \in Rate!Buckets /\ y \in Nat /\ x < y + Window
  BY RateNumbers DEF Rate!WindowTo
<1>3. count[y] \in Nat /\ touched[y] \in Nat
  BY <1>2 DEF RateTypes
<1>4. CASE count[y] = 0
  BY <1>4 DEF Rate!Value
<1>5. CASE count[y] > 0
  <2>1. y <= touched[y]
    BY <1>2, <1>5 DEF Counted
  <2>2. now < touched[y] + TTL
    <3> HIDE DEF x
    <3> QED
      BY <1>1, <1>2, <1>3, <2>1, RateNumbers
  <2> QED
    BY <2>2 DEF Rate!Value
<1> QED
  BY <1>3, <1>4, <1>5

\* The sums of the model are those of the lemmas above.
LEMMA WindowSum ==
    ASSUME NEW f, NEW b
    PROVE  Rate!SumOfWindow(f, b) = SumFunctionOnSet(f, Rate!WindowTo(b))
  BY DEF Rate!SumOfWindow, Rate!SumFunctionOnSet, Rate!FoldFunctionOnSet,
         Rate!MapThenFoldSet, SumFunctionOnSet, FoldFunctionOnSet,
         MapThenFoldSet

\* The stamp's bucket is one of them.
LEMMA OwnBucket ==
    ASSUME NEW x \in Rate!Buckets
    PROVE  x \in Rate!WindowTo(x)
  BY RateNumbers DEF Rate!WindowTo

\* A script counts its request on top of all that were counted before.
LEMMA IncrementCounts ==
    ASSUME RateTypes, InTime, Counted, NEW i \in Inquiries, Rate!Pending(i),
           Rate!Increment(check[i].bucket)
    PROVE  /\ count' \in [Rate!Buckets -> Nat]
           /\ touched' \in [Rate!Buckets -> Nat]
           /\ \A y \in Rate!Buckets :
                 /\ count'[y] = IF y = check[i].bucket THEN count[y] + 1
                                ELSE count[y]
                 /\ touched'[y] = IF y = check[i].bucket THEN now
                                  ELSE touched[y]
<1> DEFINE x == check[i].bucket
<1>1. x \in Rate!Buckets
  BY PendingStamp
<1>2. Rate!Value(x) = count[x]
  BY <1>1, OwnBucket, AliveInWindow
<1>3. count' = [count EXCEPT ![x] = count[x] + 1] /\ touched' = [touched EXCEPT ![x] = now]
  BY <1>2 DEF Rate!Increment
<1>4. /\ now \in Nat
      /\ count \in [Rate!Buckets -> Nat] /\ touched \in [Rate!Buckets -> Nat]
  BY RateNumbers DEF RateTypes
<1> HIDE DEF x
<1>5. count' \in [Rate!Buckets -> Nat] /\ touched' \in [Rate!Buckets -> Nat]
  BY <1>1, <1>3, <1>4
<1>6. \A y \in Rate!Buckets :
         /\ count'[y] = IF y = x THEN count[y] + 1 ELSE count[y]
         /\ touched'[y] = IF y = x THEN now ELSE touched[y]
  BY <1>1, <1>3, <1>4
<1> QED
  BY <1>5, <1>6 DEF x

\* So a script that admits its request has seen all that were admitted in its
\* window.
LEMMA RoomLeft ==
    ASSUME RateTypes, InTime, Counted, NEW i \in Inquiries, Rate!Pending(i),
           Rate!Total(check[i].bucket) <= RPM
    PROVE  SumFunctionOnSet(admitted, Rate!WindowTo(check[i].bucket)) + 1 <= RPM
<1> DEFINE W == Rate!WindowTo(check[i].bucket)
           v == [y \in Rate!Buckets |-> Rate!Value(y)]
<1>1. W \in SUBSET Rate!Buckets
  BY DEF Rate!WindowTo
<1>2. IsFiniteSet(W)
  BY <1>1, SomeBuckets
<1>3. \A y \in W : admitted[y] \in Nat /\ v[y] \in Nat /\ admitted[y] <= v[y]
  <2> TAKE y \in W
  <2>1. v[y] = count[y]
    BY <1>1, AliveInWindow
  <2> QED
    BY <1>1, <2>1 DEF RateTypes, Counted
<1>4. SumFunctionOnSet(admitted, W) <= SumFunctionOnSet(v, W)
  <2> HIDE DEF W, v
  <2> QED
    BY <1>2, <1>3, SumMonotone
<1>5. SumFunctionOnSet(admitted, W) \in Nat /\ SumFunctionOnSet(v, W) \in Nat
  <2> HIDE DEF W, v
  <2> QED
    BY <1>2, <1>3, SumNat
<1>6. 1 + SumFunctionOnSet(v, W) <= RPM
  BY WindowSum DEF Rate!Total
<1> QED
  <2> HIDE DEF W, v
  <2>1. RPM \in Nat
    BY RateNumbers
  <2>2. SumFunctionOnSet(admitted, W) + 1 <= RPM
    BY <1>4, <1>5, <1>6, <2>1
  <2> QED
    BY <2>2 DEF W

----
\* What the steps of a script keep, whether it admits its request or not.
LEMMA ScriptKeeps ==
    ASSUME RateInv, NEW i \in Inquiries, Rate!Pending(i),
           Rate!Increment(check[i].bucket), now' = now,
           check' = check \/ Rate!Goto(i, Rate!Idle) \/ Rate!Goto(i, Rate!Passed)
    PROVE  /\ now' \in Rate!Buckets
           /\ count' \in [Rate!Buckets -> Nat]
           /\ touched' \in [Rate!Buckets -> Nat]
           /\ check' \in [Inquiries -> CheckState]
           /\ InTime'
           /\ \A b \in Rate!Buckets :
                 /\ count[b] <= count'[b]
                 /\ count'[b] > 0 => b <= now' /\ b <= touched'[b]
           /\ count'[check[i].bucket] = count[check[i].bucket] + 1
<1> DEFINE x == check[i].bucket
<1>1. RateTypes /\ InTime /\ Counted
  BY DEF RateInv
<1>2. x \in Rate!Buckets /\ x <= now /\ x \in Nat /\ now \in Nat
  BY <1>1, PendingStamp, RateNumbers DEF InTime, RateTypes
<1>3. /\ count' \in [Rate!Buckets -> Nat]
      /\ touched' \in [Rate!Buckets -> Nat]
      /\ \A y \in Rate!Buckets :
            /\ count'[y] = IF y = x THEN count[y] + 1 ELSE count[y]
            /\ touched'[y] = IF y = x THEN now ELSE touched[y]
  BY <1>1, IncrementCounts
<1>4. check' \in [Inquiries -> CheckState]
  BY <1>1 DEF RateTypes, CheckState, Rate!Goto
<1>5. InTime'
  <2> SUFFICES ASSUME NEW j \in Inquiries, Rate!Pending(j)'
               PROVE  check'[j].bucket <= now /\ now <= check'[j].bucket + MaxLag
    BY DEF InTime
  <2>1. check'[j] = check[j]
    BY <1>1 DEF RateTypes, Rate!Goto, Rate!Pending, Rate!Idle, Rate!Passed
  <2> QED
    BY <1>1, <2>1 DEF InTime, Rate!Pending
<1>6. \A b \in Rate!Buckets : count[b] \in Nat /\ b \in Nat
  BY <1>1, RateNumbers DEF RateTypes
<1> HIDE DEF x
<1>7. \A b \in Rate!Buckets : count[b] <= count'[b]
  BY <1>2, <1>3, <1>6
<1>8. \A b \in Rate!Buckets : count'[b] > 0 => b <= now /\ b <= touched'[b]
  BY <1>1, <1>2, <1>3, <1>6 DEF Counted
<1>9. count'[x] = count[x] + 1
  BY <1>2, <1>3
<1> QED
  BY <1>1, <1>3, <1>4, <1>5, <1>7, <1>8, <1>9 DEF RateTypes, x

\* Refusals, and scripts that are repeated.
LEMMA RefuseKeeps ==
    ASSUME RateInv, NEW i \in Inquiries, Rate!Refuse(i) \/ Rate!Repeat(i)
    PROVE  RateInv'
<1>1. /\ Rate!Pending(i) /\ Rate!Increment(check[i].bucket) /\ now' = now
      /\ check' = check \/ Rate!Goto(i, Rate!Idle)
      /\ admitted' = admitted /\ overtaken' = overtaken
  BY DEF Rate!Refuse, Rate!Repeat
<1>2. /\ now' \in Rate!Buckets
      /\ count' \in [Rate!Buckets -> Nat]
      /\ touched' \in [Rate!Buckets -> Nat]
      /\ check' \in [Inquiries -> CheckState]
      /\ InTime'
      /\ \A b \in Rate!Buckets :
            /\ count[b] <= count'[b]
            /\ count'[b] > 0 => b <= now' /\ b <= touched'[b]
  BY <1>1, ScriptKeeps
<1>3. RateTypes'
  BY <1>1, <1>2 DEF RateInv, RateTypes
<1>4. Counted'
  <2>1. \A b \in Rate!Buckets : /\ admitted[b] \in Nat /\ count[b] \in Nat
                                /\ count'[b] \in Nat /\ admitted[b] <= count[b]
    BY <1>2 DEF RateInv, RateTypes, Counted
  <2> QED
    BY <1>1, <1>2, <2>1 DEF Counted
<1>5. Spread' /\ InOrderBounded'
  BY <1>1, WindowSum DEF RateInv, Spread, InOrderBounded
<1> QED
  BY <1>2, <1>3, <1>4, <1>5 DEF RateInv

\* Steps that run no script.
LEMMA OthersKeep ==
    ASSUME RateInv,
           \/ Rate!Tick
           \/ \E i \in Inquiries : Rate!Stamp(i) \/ Rate!Skip(i) \/ Rate!Leave(i)
           \/ UNCHANGED rateVars
    PROVE  RateInv'
<1>1. /\ count' = count /\ touched' = touched
      /\ admitted' = admitted /\ overtaken' = overtaken
  BY DEF Rate!Tick, Rate!Stamp, Rate!Skip, Rate!Leave, rateVars
<1>2. now' \in Rate!Buckets /\ now \in Nat /\ now' \in Nat /\ now <= now'
  BY RateNumbers
     DEF RateInv, RateTypes, Rate!Tick, Rate!Stamp, Rate!Skip, Rate!Leave, rateVars
<1>3. check' \in [Inquiries -> CheckState]
  BY DEF RateInv, RateTypes, CheckState, Rate!Goto,
         Rate!Tick, Rate!Stamp, Rate!Skip, Rate!Leave, rateVars
<1>4. ASSUME NEW j \in Inquiries, Rate!Pending(j)'
      PROVE  check'[j].bucket <= now' /\ now' <= check'[j].bucket + MaxLag
  <2>1. CASE Rate!Tick
    <3>1. Rate!Pending(j) /\ check'[j] = check[j]
      BY <1>4, <2>1 DEF Rate!Tick, Rate!Pending
    <3>2. now < check[j].bucket + MaxLag /\ check[j].bucket <= now /\ now' = now + 1
      BY <2>1, <3>1 DEF Rate!Tick, RateInv, InTime
    <3>3. check[j].bucket \in Nat
      BY <3>1, PendingStamp, RateNumbers DEF RateInv
    <3> QED
      BY <1>2, <3>1, <3>2, <3>3, RateNumbers
  <2>2. ASSUME NEW i \in Inquiries, Rate!Stamp(i)
        PROVE  check'[j].bucket <= now' /\ now' <= check'[j].bucket + MaxLag
    <3>1. CASE j = i
      <4>1. check'[j] = Rate!Stamped(now) /\ now' = now
        BY <2>2, <3>1 DEF RateInv, RateTypes, Rate!Stamp, Rate!Goto
      <4>2. check'[j].bucket = now
        BY <4>1 DEF Rate!Stamped
      <4> QED
        BY <1>2, <4>1, <4>2, RateNumbers
    <3>2. CASE j # i
      BY <1>4, <2>2, <3>2
         DEF RateInv, RateTypes, InTime, Rate!Stamp, Rate!Goto, Rate!Pending
    <3> QED
      BY <3>1, <3>2
  <2>3. ASSUME NEW i \in Inquiries, Rate!Skip(i) \/ Rate!Leave(i)
        PROVE  check'[j].bucket <= now' /\ now' <= check'[j].bucket + MaxLag
    <3>1. check'[j] = check[j] /\ now' = now
      BY <1>4, <2>3
         DEF RateInv, RateTypes, Rate!Skip, Rate!Leave, Rate!Goto, Rate!Pending,
             Rate!Idle, Rate!Passed
    <3> QED
      BY <1>4, <3>1 DEF RateInv, InTime, Rate!Pending
  <2>4. CASE UNCHANGED rateVars
    BY <1>4, <2>4 DEF RateInv, InTime, Rate!Pending, rateVars
  <2> QED
    BY <2>1, <2>2, <2>3, <2>4
<1>5. InTime'
  BY <1>4 DEF InTime
<1>6. RateTypes'
  BY <1>1, <1>2, <1>3 DEF RateInv, RateTypes
<1>7. Counted'
  <2>1. \A b \in Rate!Buckets : b \in Nat /\ touched[b] \in Nat /\ count[b] \in Nat
    BY RateNumbers DEF RateInv, RateTypes
  <2> QED
    BY <1>1, <1>2, <2>1 DEF RateInv, Counted
<1>8. Spread' /\ InOrderBounded'
  BY <1>1, WindowSum DEF RateInv, Spread, InOrderBounded
<1> QED
  BY <1>5, <1>6, <1>7, <1>8 DEF RateInv

\* A request that is admitted in bucket x is one more there.
Admits(x) ==
    /\ x \in Rate!Buckets
    /\ admitted' = [admitted EXCEPT ![x] = @ + 1]
    /\ SumFunctionOnSet(admitted, Rate!WindowTo(x)) + 1 <= RPM

\* And in the history, if a script with a later stamp came before it.
Noted(x) ==
    overtaken' = [overtaken EXCEPT ![x] = @ +
                    IF \E later \in x + 1 .. now : count[later] > 0
                    THEN 1 ELSE 0]

\* It fills a part of its window to the limit at most.
LEMMA PartOfWindow ==
    ASSUME RateTypes, NEW x, Admits(x), NEW S \in SUBSET Rate!WindowTo(x)
    PROVE  SumFunctionOnSet(admitted', S) <= RPM
<1> DEFINE W == Rate!WindowTo(x)
<1>1. W \in SUBSET Rate!Buckets /\ IsFiniteSet(W) /\ x \in W
  BY SomeBuckets, OwnBucket DEF Admits, Rate!WindowTo
<1>2. \A y \in Rate!Buckets :
         /\ admitted[y] \in Nat
         /\ admitted'[y] = admitted[y] + (IF y = x THEN 1 ELSE 0)
  BY DEF RateTypes, Admits
<1>3. SumFunctionOnSet(admitted', W) = SumFunctionOnSet(admitted, W) + 1
  <2> HIDE DEF W
  <2> QED
    BY <1>1, <1>2, SumPlusOne
<1>4. \A y \in W : admitted'[y] \in Nat
  BY <1>1, <1>2
<1>5. SumFunctionOnSet(admitted', S) <= SumFunctionOnSet(admitted', W)
  BY <1>1, <1>4, SumSubset
<1>6. IsFiniteSet(S) /\ \A y \in S : admitted'[y] \in Nat
  BY <1>1, <1>4, FS_Subset
<1>7. /\ SumFunctionOnSet(admitted', W) \in Nat
      /\ SumFunctionOnSet(admitted', S) \in Nat
  BY <1>1, <1>4, <1>6, SumNat
<1> QED
  BY <1>3, <1>5, <1>7, RateNumbers DEF Admits

\* Buckets without it are as they were.
LEMMA OtherBuckets ==
    ASSUME RateTypes, NEW x, Admits(x), NEW S \in SUBSET Rate!Buckets, x \notin S
    PROVE  SumFunctionOnSet(admitted', S) = SumFunctionOnSet(admitted, S)
<1>1. \A y \in S : admitted[y] \in Nat /\ admitted'[y] = admitted[y]
  BY DEF RateTypes, Admits
<1> QED
  BY <1>1, SomeBuckets, SumSame

\* Buckets that have not come hold nothing.
LEMMA NothingAhead ==
    ASSUME RateTypes, Counted, NEW S \in SUBSET Rate!Buckets,
           \A y \in S : now < y \/ count[y] = 0
    PROVE  \A y \in S : admitted[y] = 0
<1> TAKE y \in S
<1>1. /\ admitted[y] \in Nat /\ count[y] \in Nat /\ y \in Nat /\ now \in Nat
      /\ admitted[y] <= count[y] /\ (count[y] > 0 => y <= now)
  BY RateNumbers DEF RateTypes, Counted
<1>2. now < y \/ count[y] = 0
  OBVIOUS
<1> QED
  BY <1>1, <1>2

\* What the buckets behind x, up to h, may hold while a script with stamp x
\* runs.
LEMMA RestBounded ==
    ASSUME RateTypes, Counted, Spread, NEW x \in Rate!Buckets, now <= x + MaxLag,
           NEW h \in Rate!Buckets, x < h, h < x + Window
    PROVE  /\ SumFunctionOnSet(admitted, x + 1 .. h) <= (h - x) * RPM
           /\ SumFunctionOnSet(admitted, x + 1 .. h) <= MaxLag * RPM
<1>1. x \in Nat /\ h \in Nat /\ h <= MaxTime /\ x + 1 \in Rate!Buckets /\ now \in Nat
  BY RateNumbers DEF RateTypes
<1>2. /\ x + 1 <= h /\ h < (x + 1) + Window /\ h - (x + 1) + 1 = h - x
      /\ h - x \in Nat
  BY <1>1, RateNumbers
<1>3. SumFunctionOnSet(admitted, x + 1 .. h) <= (h - x) * RPM
  <2>1. SumFunctionOnSet(admitted, x + 1 .. h) <= (h - (x + 1) + 1) * RPM
    BY <1>1, <1>2 DEF Spread
  <2> QED
    BY <1>2, <2>1
<1>4. \A S \in SUBSET Rate!Buckets :
         IsFiniteSet(S) /\ \A y \in S : admitted[y] \in Nat
  BY SomeBuckets DEF RateTypes
<1>5. x + 1 .. h \in SUBSET Rate!Buckets
  BY <1>1, RateNumbers
<1>6. SumFunctionOnSet(admitted, x + 1 .. h) \in Nat
  BY <1>4, <1>5, SumNat
<1>7. SumFunctionOnSet(admitted, x + 1 .. h) <= MaxLag * RPM
  <2>1. CASE h <= x + MaxLag
    <3>1. (h - x) * RPM <= MaxLag * RPM /\ (h - x) * RPM \in Nat /\ MaxLag * RPM \in Nat
      BY <1>1, <1>2, <2>1, RateNumbers, TimesMonotone
    <3> QED
      BY <1>3, <1>6, <3>1
  <2>2. CASE x + MaxLag < h
    <3> DEFINE m == x + MaxLag
               S == x + 1 .. m
    <3>1. /\ m \in Rate!Buckets /\ S \in SUBSET (x + 1 .. h)
          /\ \A y \in (x + 1 .. h) \ S : now < y
      BY <1>1, <2>2, RateNumbers
    <3>2. /\ (x + 1 .. h) \ S \in SUBSET Rate!Buckets
          /\ S \in SUBSET Rate!Buckets
      BY <1>5, <3>1
    <3>3. \A y \in (x + 1 .. h) \ S : admitted[y] = 0
      <4> HIDE DEF S
      <4> QED
        BY <3>1, <3>2, NothingAhead
    <3>4. SumFunctionOnSet(admitted, (x + 1 .. h) \ S) = 0
      BY <1>4, <3>2, <3>3, SumZero
    <3>5. SumFunctionOnSet(admitted, x + 1 .. h)
            = SumFunctionOnSet(admitted, S)
                + SumFunctionOnSet(admitted, (x + 1 .. h) \ S)
      <4> HIDE DEF S
      <4> QED
        BY <1>4, <1>5, <3>1, SumParts
    <3>6. SumFunctionOnSet(admitted, S) \in Nat
      BY <1>4, <3>2, SumNat
    <3>7. SumFunctionOnSet(admitted, S) <= MaxLag * RPM
      <4>1. CASE MaxLag = 0
        <5>1. S = {}
          BY <1>1, <4>1
        <5>2. MaxLag * RPM = 0
          BY <4>1, RateNumbers
        <5>3. SumFunctionOnSet(admitted, {}) = 0
          BY SumEmpty
        <5> HIDE DEF S, m
        <5> QED
          BY <5>1, <5>2, <5>3
      <4>2. CASE MaxLag # 0
        <5>1. /\ x + 1 <= m /\ m < (x + 1) + Window /\ m - (x + 1) + 1 = MaxLag
          BY <1>1, <1>2, <2>2, <4>2, RateNumbers
        <5>2. SumFunctionOnSet(admitted, x + 1 .. m) <= (m - (x + 1) + 1) * RPM
          <6> HIDE DEF m
          <6> QED
            BY <1>1, <3>1, <5>1 DEF Spread
        <5> QED
          BY <5>1, <5>2
      <4> QED
        BY <4>1, <4>2
    <3> QED
      <4> HIDE DEF S
      <4> QED
        BY <3>4, <3>5, <3>6, <3>7
  <2> QED
    BY <1>1, <2>1, <2>2, RateNumbers
<1> QED
  BY <1>3, <1>7

\* An admission keeps what consecutive buckets hold within bounds: up to its
\* own bucket because it has seen what is there, behind it because no script
\* with a stamp much later has run.
LEMMA SpreadKept ==
    ASSUME RateTypes, Counted, Spread, NEW x, Admits(x), now <= x + MaxLag
    PROVE  Spread'
<1>1. x \in Rate!Buckets /\ x \in Nat /\ x <= MaxTime /\ now \in Nat
  BY RateNumbers DEF Admits, RateTypes
<1>2. admitted' \in [Rate!Buckets -> Nat]
  BY DEF RateTypes, Admits
<1> SUFFICES ASSUME NEW l \in Rate!Buckets, NEW h \in Rate!Buckets,
                    l <= h, h < l + Window
             PROVE  /\ SumFunctionOnSet(admitted', l .. h) <= (h - l + 1) * RPM
                    /\ SumFunctionOnSet(admitted', l .. h) <= (MaxLag + 1) * RPM
  BY DEF Spread
<1> DEFINE B == l .. h
<1>3. l \in Nat /\ h \in Nat /\ h <= MaxTime /\ B \in SUBSET Rate!Buckets
  BY RateNumbers
<1>4. \A S \in SUBSET Rate!Buckets :
         IsFiniteSet(S) /\ \A y \in S : admitted[y] \in Nat /\ admitted'[y] \in Nat
  BY <1>2, SomeBuckets DEF RateTypes
<1>5. CASE x \notin B
  BY <1>3, <1>5, OtherBuckets DEF Spread
<1>6. CASE x \in B
  <2> DEFINE P == l .. x
             R == x + 1 .. h
  <2>1. /\ l <= x /\ x <= h /\ P \in SUBSET B /\ R = B \ P
        /\ h < x + Window /\ h - l + 1 \in Nat /\ h - x \in Nat
    <3>1. l <= x /\ x <= h
      BY <1>1, <1>3, <1>6
    <3>2. P \in SUBSET B /\ R = B \ P
      BY <1>1, <1>3, <3>1
    <3>3. h < x + Window /\ h - l + 1 \in Nat /\ h - x \in Nat
      BY <1>1, <1>3, <3>1, RateNumbers
    <3> QED
      BY <3>1, <3>2, <3>3
  <2>2. P \in SUBSET Rate!WindowTo(x)
    BY <1>1, <1>3, <2>1, RateNumbers DEF Rate!WindowTo
  <2>3. SumFunctionOnSet(admitted', P) <= RPM
    <3> HIDE DEF P
    <3> QED
      BY <2>2, PartOfWindow
  <2>4. R \in SUBSET Rate!Buckets /\ P \in SUBSET Rate!Buckets /\ x \notin R
    BY <1>1, <1>3, <2>1
  <2>5. SumFunctionOnSet(admitted', B)
          = SumFunctionOnSet(admitted', P) + SumFunctionOnSet(admitted', R)
    <3> HIDE DEF P, R, B
    <3> QED
      BY <1>3, <1>4, <2>1, SumParts
  <2>6. SumFunctionOnSet(admitted', R) = SumFunctionOnSet(admitted, R)
    <3> HIDE DEF R
    <3> QED
      BY <2>4, OtherBuckets
  <2>7. /\ SumFunctionOnSet(admitted', P) \in Nat
        /\ SumFunctionOnSet(admitted, R) \in Nat
    <3> HIDE DEF P, R
    <3> QED
      BY <1>4, <2>4, SumNat
  <2>8. /\ SumFunctionOnSet(admitted, R) <= (h - x) * RPM
        /\ SumFunctionOnSet(admitted, R) <= MaxLag * RPM
    <3>1. CASE x = h
      <4>1. R = {}
        BY <1>1, <3>1
      <4>2. SumFunctionOnSet(admitted, {}) = 0
        BY SumEmpty
      <4>3. 0 <= (h - x) * RPM /\ 0 <= MaxLag * RPM
        BY <2>1, RateNumbers, TimesMonotone
      <4> HIDE DEF R
      <4> QED
        BY <4>1, <4>2, <4>3
    <3>2. CASE x # h
      BY <1>1, <1>3, <2>1, <3>2, RestBounded
    <3> QED
      BY <3>1, <3>2
  <2>9. \A k \in Nat : SumFunctionOnSet(admitted, R) <= k * RPM
                         => SumFunctionOnSet(admitted', B) <= (k + 1) * RPM
    <3> HIDE DEF P, R, B
    <3> TAKE k \in Nat
    <3>1. (k + 1) * RPM = k * RPM + RPM /\ k * RPM \in Nat
      BY RateNumbers, TimesSucc, TimesMonotone
    <3> QED
      BY <2>3, <2>5, <2>6, <2>7, <3>1, RateNumbers
  <2>10. /\ SumFunctionOnSet(admitted', B) <= (h - x + 1) * RPM
         /\ SumFunctionOnSet(admitted', B) <= (MaxLag + 1) * RPM
    <3> HIDE DEF P, R, B
    <3> QED
      BY <2>1, <2>8, <2>9, RateNumbers
  <2>11. (h - x + 1) * RPM <= (h - l + 1) * RPM
    <3>1. h - x + 1 <= h - l + 1 /\ h - x + 1 \in Nat
      BY <1>1, <1>3, <2>1
    <3> QED
      BY <2>1, <3>1, RateNumbers, TimesMonotone
  <2>12. /\ (h - x + 1) * RPM \in Nat /\ (h - l + 1) * RPM \in Nat
         /\ SumFunctionOnSet(admitted', B) \in Nat
    <3>1. h - x + 1 \in Nat /\ h - l + 1 \in Nat
      BY <1>1, <1>3, <2>1
    <3>2. (h - x + 1) * RPM \in Nat /\ (h - l + 1) * RPM \in Nat
      BY <3>1, RateNumbers, TimesMonotone
    <3> HIDE DEF B
    <3>3. SumFunctionOnSet(admitted', B) \in Nat
      BY <1>3, <1>4, SumNat
    <3> QED
      BY <3>2, <3>3
  <2>13. SumFunctionOnSet(admitted', B) <= (h - l + 1) * RPM
    <3> HIDE DEF P, R, B
    <3> QED
      BY <2>10, <2>11, <2>12
  <2> QED
    BY <2>10, <2>13
<1> QED
  BY <1>5, <1>6

\* One that is not overtaken has seen all there is in any window around it.
LEMMA InOrderKept ==
    ASSUME RateTypes, Counted, InOrderBounded, NEW x, Admits(x), Noted(x)
    PROVE  InOrderBounded'
<1> DEFINE late == \E later \in x + 1 .. now : count[later] > 0
           d == IF late THEN 1 ELSE 0
<1>0. d \in Nat
  OBVIOUS
<1>1. x \in Rate!Buckets /\ x \in Nat /\ now \in Nat
  BY RateNumbers DEF Admits, RateTypes
<1>2. /\ admitted' \in [Rate!Buckets -> Nat]
      /\ overtaken' \in [Rate!Buckets -> Nat]
      /\ \A y \in Rate!Buckets :
            /\ admitted'[y] = admitted[y] + (IF y = x THEN 1 ELSE 0)
            /\ overtaken'[y] = IF y = x THEN overtaken[y] + d ELSE overtaken[y]
  <2> HIDE DEF d
  <2>1. overtaken' = [overtaken EXCEPT ![x] = @ + d]
    BY DEF d, Noted
  <2> QED
    BY <1>0, <1>1, <2>1 DEF RateTypes, Admits
<1> SUFFICES ASSUME NEW b \in Rate!Buckets
             PROVE  SumFunctionOnSet(admitted', Rate!WindowTo(b))
                      - SumFunctionOnSet(overtaken', Rate!WindowTo(b)) <= RPM
  BY WindowSum DEF InOrderBounded
<1> DEFINE W == Rate!WindowTo(b)
<1>3. W \in SUBSET Rate!Buckets /\ IsFiniteSet(W) /\ b \in Nat
  BY SomeBuckets, RateNumbers DEF Rate!WindowTo
<1>4. /\ \A y \in W : /\ admitted[y] \in Nat /\ overtaken[y] \in Nat
                      /\ admitted'[y] \in Nat /\ overtaken'[y] \in Nat
  BY <1>2, <1>3 DEF RateTypes
<1>5. SumFunctionOnSet(admitted, W) - SumFunctionOnSet(overtaken, W) <= RPM
  BY WindowSum DEF InOrderBounded
<1>6. /\ SumFunctionOnSet(admitted, W) \in Nat
      /\ SumFunctionOnSet(overtaken, W) \in Nat
      /\ SumFunctionOnSet(admitted', W) \in Nat
      /\ SumFunctionOnSet(overtaken', W) \in Nat
  <2> HIDE DEF W
  <2> QED
    BY <1>3, <1>4, SumNat
<1>7. CASE x \notin W
  <2>1. \A y \in W : /\ admitted[y] \in Nat /\ admitted'[y] = admitted[y]
                     /\ overtaken[y] \in Nat /\ overtaken'[y] = overtaken[y]
    <3> HIDE DEF W, d
    <3> QED
      BY <1>2, <1>3, <1>4, <1>7
  <2>2. SumFunctionOnSet(admitted', W) = SumFunctionOnSet(admitted, W)
    <3> HIDE DEF W, d, late
    <3> QED
      BY <1>3, <2>1, SumSame
  <2>3. SumFunctionOnSet(overtaken', W) = SumFunctionOnSet(overtaken, W)
    <3> HIDE DEF W, d, late
    <3> QED
      BY <1>3, <2>1, SumSame
  <2> QED
    BY <1>5, <2>2, <2>3
<1>8. CASE x \in W /\ late
  <2>1. SumFunctionOnSet(admitted', W) = SumFunctionOnSet(admitted, W) + 1
    <3>1. \A y \in W : admitted'[y] = admitted[y] + (IF y = x THEN 1 ELSE 0)
      BY <1>2, <1>3
    <3> HIDE DEF W
    <3> QED
      BY <1>3, <1>4, <1>8, <3>1, SumPlusOne
  <2>2. SumFunctionOnSet(overtaken', W) = SumFunctionOnSet(overtaken, W) + 1
    <3>1. d = 1 /\ x \in W
      BY <1>8
    <3>2. \A y \in W : /\ overtaken[y] \in Nat
                       /\ overtaken'[y] = overtaken[y] + (IF y = x THEN 1 ELSE 0)
      <4> HIDE DEF d, W
      <4> QED
        BY <1>2, <1>3, <1>4, <3>1
    <3>3. x \in W /\ IsFiniteSet(W)
      BY <1>3, <3>1
    <3> HIDE DEF W, d, late
    <3> QED
      BY <3>2, <3>3, SumPlusOne
  <2>3. \A a, o \in Nat : a - o <= RPM => (a + 1) - (o + 1) <= RPM
    BY RateNumbers
  <2>4. SumFunctionOnSet(admitted', W) - SumFunctionOnSet(overtaken', W) <= RPM
    <3> HIDE DEF W
    <3> QED
      BY <1>5, <1>6, <2>1, <2>2, <2>3
  <2> QED
    BY <2>4
<1>9. CASE x \in W /\ ~late
  <2> DEFINE P == {y \in W : y <= x}
  <2>1. P \in SUBSET W /\ P \in SUBSET Rate!WindowTo(x)
    BY <1>1, <1>3, <1>9, RateNumbers DEF Rate!WindowTo
  <2>2. SumFunctionOnSet(admitted', P) <= RPM
    <3> HIDE DEF P
    <3> QED
      BY <2>1, PartOfWindow
  <2>3. \A y \in W \ P : y \in Rate!Buckets /\ (now < y \/ count[y] = 0)
    <3> TAKE y \in W \ P
    <3>1. y \in Rate!Buckets /\ y \in Nat /\ x < y /\ count[y] \in Nat
      BY <1>1, <1>3, RateNumbers DEF RateTypes
    <3> QED
      BY <1>1, <1>9, <3>1
  <2>4. \A y \in W \ P : admitted[y] = 0
    <3> HIDE DEF W, P
    <3> QED
      BY <2>3, NothingAhead
  <2>5. \A y \in W \ P : admitted'[y] = 0
    <3>1. x \in P
      BY <1>1, <1>9
    <3> HIDE DEF P, W
    <3> TAKE y \in W \ P
    <3>2. y \in Rate!Buckets /\ y # x /\ admitted[y] = 0
      BY <1>3, <2>4, <3>1
    <3> QED
      BY <1>2, <3>2
  <2>6. SumFunctionOnSet(admitted', W \ P) = 0
    <3>1. IsFiniteSet(W \ P)
      BY <1>3, FS_Subset
    <3> HIDE DEF W, P
    <3> QED
      BY <2>5, <3>1, SumZero
  <2>7. SumFunctionOnSet(admitted', W)
          = SumFunctionOnSet(admitted', P) + SumFunctionOnSet(admitted', W \ P)
    <3> HIDE DEF W, P
    <3> QED
      BY <1>3, <1>4, <2>1, SumParts
  <2>8. SumFunctionOnSet(admitted', P) \in Nat
    <3>1. IsFiniteSet(P) /\ \A y \in P : admitted'[y] \in Nat
      BY <1>3, <1>4, <2>1, FS_Subset
    <3> HIDE DEF P
    <3> QED
      BY <3>1, SumNat
  <2>9. \A a, o \in Nat : a <= RPM => (a + 0) - o <= RPM
    BY RateNumbers
  <2>10. SumFunctionOnSet(admitted', W) - SumFunctionOnSet(overtaken', W) <= RPM
    <3> HIDE DEF W, P
    <3> QED
      BY <1>6, <2>2, <2>6, <2>7, <2>8, <2>9
  <2> QED
    BY <2>10
<1> QED
  BY <1>7, <1>8, <1>9

\* Admissions.
LEMMA PassKeeps ==
    ASSUME RateInv, NEW i \in Inquiries, Rate!Pass(i)
    PROVE  RateInv'
<1> DEFINE x == check[i].bucket
<1>0. RateTypes /\ InTime /\ Counted /\ Spread /\ InOrderBounded
  BY DEF RateInv
<1>1. /\ Rate!Pending(i) /\ Rate!Increment(x) /\ now' = now
      /\ Rate!Goto(i, Rate!Passed) /\ Rate!Total(x) <= RPM
      /\ admitted' = [admitted EXCEPT ![x] = @ + 1]
      /\ Noted(x)
  BY DEF Rate!Pass, Noted
<1>2. /\ now' \in Rate!Buckets
      /\ count' \in [Rate!Buckets -> Nat]
      /\ touched' \in [Rate!Buckets -> Nat]
      /\ check' \in [Inquiries -> CheckState]
      /\ InTime'
      /\ \A b \in Rate!Buckets :
            /\ count[b] <= count'[b]
            /\ count'[b] > 0 => b <= now' /\ b <= touched'[b]
      /\ count'[x] = count[x] + 1
  BY <1>1, ScriptKeeps
<1>3. x \in Rate!Buckets /\ now <= x + MaxLag
  BY <1>0, <1>1, PendingStamp DEF InTime
<1>4. Admits(x)
  BY <1>0, <1>1, <1>3, RoomLeft DEF Admits
<1> HIDE DEF x
<1>5. Spread'
  BY <1>0, <1>3, <1>4, SpreadKept
<1>6. InOrderBounded'
  BY <1>0, <1>1, <1>4, InOrderKept
<1>7. RateTypes'
  <2> DEFINE d == IF \E later \in x + 1 .. now : count[later] > 0 THEN 1 ELSE 0
  <2>1. d \in Nat /\ overtaken' = [overtaken EXCEPT ![x] = @ + d]
    BY <1>1 DEF Noted
  <2> HIDE DEF d
  <2>2. /\ overtaken' \in [Rate!Buckets -> Nat]
        /\ admitted' \in [Rate!Buckets -> Nat]
    BY <1>0, <1>1, <1>3, <2>1 DEF RateTypes
  <2> QED
    BY <1>2, <2>2 DEF RateTypes
<1>8. Counted'
  <2> SUFFICES ASSUME NEW b \in Rate!Buckets
               PROVE  admitted'[b] <= count'[b]
    BY <1>2 DEF Counted
  <2>1. admitted[b] <= count[b] /\ count[b] <= count'[b]
    BY <1>0, <1>2 DEF Counted
  <2>2. admitted[b] \in Nat /\ count[b] \in Nat /\ count'[b] \in Nat
    BY <1>0, <1>2 DEF RateTypes
  <2>3. admitted'[b] = admitted[b] + (IF b = x THEN 1 ELSE 0)
    BY <1>0, <1>4, <2>2 DEF RateTypes, Admits
  <2>4. count'[x] = count[x] + 1
    BY <1>2
  <2> QED
    BY <2>1, <2>2, <2>3, <2>4
<1> QED
  BY <1>2, <1>5, <1>6, <1>7, <1>8 DEF RateInv

\* Nothing is counted and nothing admitted at the start.
LEMMA RateInit == Rate!Init => RateInv
<1> SUFFICES ASSUME Rate!Init
             PROVE  RateInv
  OBVIOUS
<1>1. 0 \in Rate!Buckets
  BY RateNumbers
<1>2. RateTypes
  BY <1>1 DEF Rate!Init, RateTypes, CheckState
<1>3. InTime
  BY DEF Rate!Init, InTime, Rate!Pending, Rate!Idle
<1>4. Counted
  BY DEF Rate!Init, Counted
<1>5. \A S \in SUBSET Rate!Buckets :
         SumFunctionOnSet(admitted, S) = 0 /\ SumFunctionOnSet(overtaken, S) = 0
  <2> TAKE S \in SUBSET Rate!Buckets
  <2>1. IsFiniteSet(S) /\ \A y \in S : admitted[y] = 0 /\ overtaken[y] = 0
    BY SomeBuckets DEF Rate!Init
  <2> QED
    BY <2>1, SumZero
<1>6. Spread
  <2> SUFFICES ASSUME NEW l \in Rate!Buckets, NEW h \in Rate!Buckets, l <= h
               PROVE  /\ SumFunctionOnSet(admitted, l .. h) <= (h - l + 1) * RPM
                      /\ SumFunctionOnSet(admitted, l .. h) <= (MaxLag + 1) * RPM
    BY DEF Spread
  <2>1. l .. h \in SUBSET Rate!Buckets /\ h - l + 1 \in Nat /\ MaxLag + 1 \in Nat
    BY RateNumbers
  <2>2. (h - l + 1) * RPM \in Nat /\ (MaxLag + 1) * RPM \in Nat
    BY <2>1, RateNumbers, TimesMonotone
  <2>3. 0 <= (h - l + 1) * RPM /\ 0 <= (MaxLag + 1) * RPM
    BY <2>2
  <2>4. SumFunctionOnSet(admitted, l .. h) = 0
    BY <1>5, <2>1
  <2> QED
    BY <2>3, <2>4
<1>7. InOrderBounded
  <2> SUFFICES ASSUME NEW b \in Rate!Buckets
               PROVE  SumFunctionOnSet(admitted, Rate!WindowTo(b))
                        - SumFunctionOnSet(overtaken, Rate!WindowTo(b)) <= RPM
    BY WindowSum DEF InOrderBounded
  <2>1. Rate!WindowTo(b) \in SUBSET Rate!Buckets
    BY DEF Rate!WindowTo
  <2> QED
    BY <1>5, <2>1, RateNumbers
<1> QED
  BY <1>2, <1>3, <1>4, <1>6, <1>7 DEF RateInv

\* A window is some consecutive buckets.
LEMMA RateBounds == RateInv => WindowBounded
<1> SUFFICES ASSUME RateInv, NEW b \in Rate!Buckets
             PROVE  /\ Rate!SumOfWindow(admitted, b)
                         - Rate!SumOfWindow(overtaken, b) <= RPM
                    /\ Rate!SumOfWindow(admitted, b) <= RPM * (MaxLag + 1)
  BY DEF WindowBounded, Rate!WindowBounded
<1>1. b \in Nat /\ b <= MaxTime
  BY RateNumbers
<1>2. PICK l \in Rate!Buckets :
         l <= b /\ b < l + Window /\ Rate!WindowTo(b) = l .. b
  <2>1. CASE b < Window
    <3>1. Rate!WindowTo(b) = 0 .. b
      BY <1>1, <2>1, RateNumbers DEF Rate!WindowTo
    <3>2. 0 \in Rate!Buckets /\ 0 <= b /\ b < 0 + Window
      BY <1>1, <2>1, RateNumbers
    <3> QED
      BY <3>1, <3>2
  <2>2. CASE b >= Window
    <3> DEFINE k == b - Window + 1
    <3>1. k \in Rate!Buckets /\ k <= b /\ b < k + Window
      BY <1>1, <2>2, RateNumbers
    <3>2. Rate!WindowTo(b) = k .. b
      BY <1>1, <2>2, RateNumbers DEF Rate!WindowTo
    <3> QED
      BY <3>1, <3>2
  <2> QED
    BY <1>1, <2>1, <2>2, RateNumbers
<1>3. SumFunctionOnSet(admitted, l .. b) <= (MaxLag + 1) * RPM
  BY <1>2 DEF RateInv, Spread
<1>4. (MaxLag + 1) * RPM = RPM * (MaxLag + 1)
  BY RateNumbers, Z3
<1>5. Rate!SumOfWindow(admitted, b) <= RPM * (MaxLag + 1)
  BY <1>2, <1>3, <1>4, WindowSum
<1> QED
  BY <1>5 DEF RateInv, InOrderBounded

\* A step of the gateway is one of the rate limit or leaves it alone.
LEMMA RatePart == GatewaySpec => Rate!Init /\ [][Rate!Next]_rateVars
<1>1. GatewayInit => Rate!Init
  BY DEF GatewayInit
<1>2. [GatewayNext]_<<vars, rateVars>> => [Rate!Next]_rateVars
  BY DEF GatewayNext, CheckRate, CheckBudget, CallAndRecord, Rate!Next, vars
<1> QED
  BY <1>1, <1>2, PTL DEF GatewaySpec

\* In every reachable state a key of the window of a script that is to run is
\* alive and counts what was admitted (Counted), and consecutive buckets hold
\* at most the limit for each of them and for each bucket of lag (Spread).
THEOREM RateInvCorrect == GatewaySpec => []RateInv
<1>1. RateInv /\ [Rate!Next]_rateVars => RateInv'
  <2> SUFFICES ASSUME RateInv, [Rate!Next]_rateVars
               PROVE  RateInv'
    OBVIOUS
  <2>1. CASE Rate!Tick \/ UNCHANGED rateVars
    BY <2>1, OthersKeep
  <2>2. ASSUME NEW i \in Inquiries, Rate!Check(i) \/ Rate!Leave(i)
        PROVE  RateInv'
    BY <2>2, OthersKeep, RefuseKeeps, PassKeeps DEF Rate!Check
  <2> QED
    BY <2>1, <2>2 DEF Rate!Next
<1> QED
  BY RatePart, RateInit, <1>1, PTL

\* No window of Execute's rate limit ever holds more than the limit of
\* requests that were not overtaken, nor more than the limit once more for
\* each bucket a script may lag.
THEOREM WindowCorrect == GatewaySpec => []WindowBounded
BY RateInvCorrect, RateBounds, PTL

----
(* The budget, first of HotPath alone.                                     *)

Committed ==
    spent + Cardinality(Busy) * MaxCost
      <= Limit + (Cardinality(Inquiries) + unchecked) * MaxCost

IInv == TypeOK /\ Committed

----
\* Inquiries under way are finitely many, and no more than all of them.
LEMMA BusyBound ==
    /\ IsFiniteSet(Busy) /\ Cardinality(Busy) \in Nat
    /\ Cardinality(Inquiries) \in Nat
    /\ Cardinality(Busy) <= Cardinality(Inquiries)
<1>1. Busy \subseteq Inquiries
  BY DEF Busy
<1>2. IsFiniteSet(Busy) /\ Cardinality(Busy) <= Cardinality(Inquiries)
  BY <1>1, FS_Subset, HotPathAssumption
<1>3. QED
  BY <1>2, FS_CardinalityType, HotPathAssumption

\* The same after a step, where Busy' is still a set of inquiries.
LEMMA BusyBoundNext ==
    /\ IsFiniteSet(Busy') /\ Cardinality(Busy') \in Nat
    /\ Cardinality(Busy') <= Cardinality(Inquiries)
<1>1. Busy' \subseteq Inquiries
  BY DEF Busy
<1>2. IsFiniteSet(Busy') /\ Cardinality(Busy') <= Cardinality(Inquiries)
  BY <1>1, FS_Subset, HotPathAssumption
<1>3. QED
  BY <1>2, FS_CardinalityType, HotPathAssumption

\* An inquiry that leaves Execute is one less under way.
LEMMA Leaves ==
    ASSUME TypeOK, NEW i \in Inquiries, inquiry[i] # Idle, Goto(i, Idle)
    PROVE  Cardinality(Busy) = Cardinality(Busy') + 1
<1>1. Busy' = Busy \ {i} /\ i \in Busy
  BY DEF TypeOK, Goto, Busy
<1>2. QED
  BY <1>1, BusyBound, BusyBoundNext, FS_RemoveElement

\* Every step keeps the types.
LEMMA TypeOKStep == TypeOK /\ [Next]_vars => TypeOK'
<1> SUFFICES ASSUME TypeOK, [Next]_vars
             PROVE  TypeOK'
  OBVIOUS
<1>0. \A i \in Inquiries : inquiry[i] \in Inquiry
  BY DEF TypeOK
<1>1. ASSUME NEW i \in Inquiries, NEW x \in Inquiry, Goto(i, x)
      PROVE  inquiry' \in [Inquiries -> Inquiry]
  BY <1>1 DEF TypeOK, Goto
<1>2. Idle \in Inquiry
  BY DEF Inquiry
<1>3. Calling \in Inquiry
  BY DEF Inquiry
<1>4. \A c \in 0 .. MaxCost : Answered(c) \in Inquiry
  BY DEF Inquiry
<1>5. ASSUME NEW i \in Inquiries, Admit(i)
      PROVE  TypeOK'
  <2>1. inquiry' \in [Inquiries -> Inquiry]
    BY <1>1, <1>3, <1>5 DEF Admit
  <2>2. QED
    BY <1>5, <2>1 DEF Admit, TypeOK
<1>6. ASSUME NEW i \in Inquiries, AdmitUnchecked(i)
      PROVE  TypeOK'
  <2>1. inquiry' \in [Inquiries -> Inquiry]
    BY <1>1, <1>3, <1>6 DEF AdmitUnchecked
  <2>2. unchecked' \in 0 .. MaxUnchecked
    BY <1>6, HotPathAssumption DEF AdmitUnchecked, TypeOK
  <2>3. QED
    BY <1>6, <2>1, <2>2 DEF AdmitUnchecked, TypeOK
<1>7. ASSUME NEW i \in Inquiries, NEW c \in 0 .. MaxCost, Answer(i, c)
      PROVE  TypeOK'
  BY <1>1, <1>4, <1>7 DEF Answer, TypeOK
<1>8. ASSUME NEW i \in Inquiries, CallFails(i) \/ Block(i) \/ RecordFails(i)
      PROVE  TypeOK'
  BY <1>1, <1>2, <1>8 DEF CallFails, Block, RecordFails, TypeOK
<1>9. ASSUME NEW i \in Inquiries, Record(i)
      PROVE  TypeOK'
  <2>1. inquiry[i].cost \in Nat
    BY <1>0, <1>9, HotPathAssumption
       DEF Record, Inquiry, Idle, Calling, Answered
  <2>2. QED
    BY <1>1, <1>2, <1>9, <2>1 DEF Record, TypeOK
<1>10. CASE NewDay
  BY <1>10, HotPathAssumption DEF NewDay, TypeOK
<1>11. CASE UNCHANGED vars
  BY <1>11 DEF vars, TypeOK
<1>12. QED
  BY <1>5, <1>6, <1>7, <1>8, <1>9, <1>10, <1>11 DEF Next

----
\* An inquiry that enters Execute is one more under way.
LEMMA Enters ==
    ASSUME TypeOK, NEW i \in Inquiries, inquiry[i] = Idle,
           Goto(i, Calling)
    PROVE  Cardinality(Busy') = Cardinality(Busy) + 1
<1>1. Calling # Idle
  BY DEF Calling, Idle
<1>2. Busy' = Busy \cup {i} /\ i \notin Busy
  BY <1>1 DEF TypeOK, Goto, Busy
<1>3. QED
  BY <1>2, BusyBound, FS_AddElement

\* An inquiry whose call is answered is still under way.
LEMMA Stays ==
    ASSUME TypeOK, NEW i \in Inquiries, inquiry[i] # Idle,
           NEW c \in 0 .. MaxCost, Goto(i, Answered(c))
    PROVE  Busy' = Busy
<1>1. Answered(c) # Idle
  BY DEF Answered, Idle
<1>2. QED
  BY <1>1 DEF TypeOK, Goto, Busy

\* What is set aside for an inquiry covers what it adds when it leaves.
LEMMA LeavesCommitted ==
    ASSUME TypeOK, Committed, NEW i \in Inquiries, inquiry[i] # Idle,
           Goto(i, Idle), NEW c \in 0 .. MaxCost,
           spent' = spent + c, unchecked' = unchecked
    PROVE  Committed'
<1> DEFINE n == Cardinality(Busy')
           b == (Cardinality(Inquiries) + unchecked) * MaxCost
<1>1. n \in Nat /\ Cardinality(Busy) = n + 1
  BY Leaves, BusyBoundNext
<1>2. MaxCost \in Nat /\ Limit \in Nat /\ unchecked \in Nat /\ spent \in Nat
  BY HotPathAssumption DEF TypeOK
<1>3. Cardinality(Inquiries) + unchecked \in Nat
  BY <1>2, BusyBound
<1>4. n * MaxCost \in Nat /\ b \in Nat
  BY <1>1, <1>2, <1>3, TimesMonotone
<1>5. spent + (n + 1) * MaxCost <= Limit + b
  BY <1>1 DEF Committed
<1>6. spent + (n * MaxCost + MaxCost) <= Limit + b
  BY <1>1, <1>2, <1>5, TimesSucc
<1>7. c \in Nat /\ c <= MaxCost
  BY <1>2
<1>8. spent + c + n * MaxCost <= Limit + b
  <2> HIDE DEF n, b
  <2>1. \A p \in Nat : spent + (p + MaxCost) <= Limit + b
                         => spent + c + p <= Limit + b
    BY <1>2, <1>4, <1>7
  <2>2. QED
    BY <1>4, <1>6, <2>1
<1>9. QED
  BY <1>8 DEF Committed

\* Every step keeps the bound on what is spent and set aside.
LEMMA CommittedStep == IInv /\ [Next]_vars => Committed'
<1> SUFFICES ASSUME TypeOK, Committed, [Next]_vars
             PROVE  Committed'
  BY DEF IInv
<1> DEFINE k == Cardinality(Inquiries)
           n == Cardinality(Busy)
<1>1. MaxCost \in Nat /\ Limit \in Nat /\ unchecked \in Nat /\ spent \in Nat
  BY HotPathAssumption DEF TypeOK
<1>2. k \in Nat /\ n \in Nat /\ n <= k
  BY BusyBound
<1>3. \A i \in Inquiries : inquiry[i] \in Inquiry
  BY DEF TypeOK
<1>4. ASSUME NEW i \in Inquiries, Admit(i)
      PROVE  Committed'
  <2>1. Cardinality(Busy') <= k /\ Cardinality(Busy') \in Nat
    BY BusyBoundNext
  <2>2. k <= k + unchecked /\ k + unchecked \in Nat
    BY <1>1, <1>2
  <2>3. Cardinality(Busy') <= k + unchecked
    BY <1>1, <1>2, <2>1
  <2>4. /\ Cardinality(Busy') * MaxCost <= (k + unchecked) * MaxCost
        /\ Cardinality(Busy') * MaxCost \in Nat
        /\ (k + unchecked) * MaxCost \in Nat
    BY <1>1, <2>1, <2>2, <2>3, TimesMonotone
  <2>5. spent <= Limit /\ spent' = spent /\ unchecked' = unchecked
    BY <1>4 DEF Admit
  <2>6. \A p, q \in Nat : p <= q => spent + p <= Limit + q
    BY <1>1, <2>5
  <2>7. QED
    BY <2>4, <2>5, <2>6 DEF Committed
<1>5. ASSUME NEW i \in Inquiries, AdmitUnchecked(i)
      PROVE  Committed'
  <2>1. /\ inquiry[i] = Idle /\ Goto(i, Calling)
        /\ unchecked' = unchecked + 1 /\ spent' = spent
    BY <1>5 DEF AdmitUnchecked
  <2>2. Cardinality(Busy') = n + 1
    BY <2>1, Enters
  <2>3. k + unchecked \in Nat
    BY <1>1, <1>2
  <2>4. /\ (n + 1) * MaxCost = n * MaxCost + MaxCost
        /\ (k + unchecked + 1) * MaxCost = (k + unchecked) * MaxCost + MaxCost
    BY <1>1, <1>2, <2>3, TimesSucc
  <2>5. n * MaxCost \in Nat /\ (k + unchecked) * MaxCost \in Nat
    BY <1>1, <1>2, <2>3, TimesMonotone
  <2>6. spent + n * MaxCost <= Limit + (k + unchecked) * MaxCost
    BY DEF Committed
  <2>7. \A p, q \in Nat : spent + p <= Limit + q
                            => spent + (p + MaxCost) <= Limit + (q + MaxCost)
    BY <1>1
  <2>8. spent + (n + 1) * MaxCost <= Limit + (k + unchecked + 1) * MaxCost
    BY <2>4, <2>5, <2>6, <2>7
  <2>9. k + (unchecked + 1) = k + unchecked + 1
    BY <1>1, <1>2
  <2>10. QED
    BY <2>1, <2>2, <2>8, <2>9 DEF Committed
<1>6. ASSUME NEW i \in Inquiries, NEW c \in 0 .. MaxCost, Answer(i, c)
      PROVE  Committed'
  <2>1. /\ inquiry[i] # Idle /\ Goto(i, Answered(c))
        /\ unchecked' = unchecked /\ spent' = spent
    BY <1>6 DEF Answer
  <2>2. Busy' = Busy
    BY <2>1, Stays
  <2>3. QED
    BY <2>1, <2>2 DEF Committed
<1>7. ASSUME NEW i \in Inquiries, CallFails(i) \/ Block(i) \/ RecordFails(i)
      PROVE  Committed'
  <2>1. /\ inquiry[i] # Idle /\ Goto(i, Idle)
        /\ unchecked' = unchecked /\ spent' = spent
    BY <1>7 DEF CallFails, Block, RecordFails
  <2>2. 0 \in 0 .. MaxCost /\ spent' = spent + 0
    BY <1>1, <2>1
  <2>3. QED
    BY <2>1, <2>2, LeavesCommitted
<1>8. ASSUME NEW i \in Inquiries, Record(i)
      PROVE  Committed'
  <2>1. inquiry[i].cost \in 0 .. MaxCost
    BY <1>3, <1>8 DEF Record, Inquiry, Idle, Calling, Answered
  <2>2. /\ inquiry[i] # Idle /\ Goto(i, Idle)
        /\ unchecked' = unchecked /\ spent' = spent + inquiry[i].cost
    BY <1>8 DEF Record
  <2>3. QED
    BY <2>1, <2>2, LeavesCommitted
<1>9. CASE NewDay
  <2>1. spent' = 0 /\ unchecked' = 0 /\ Busy' = Busy
    BY <1>9 DEF NewDay, Busy
  <2>2. /\ n * MaxCost <= k * MaxCost
        /\ n * MaxCost \in Nat /\ k * MaxCost \in Nat
    BY <1>1, <1>2, TimesMonotone
  <2>3. k + 0 = k
    BY <1>2
  <2>4. \A p, q \in Nat : p <= q => 0 + p <= Limit + q
    BY <1>1
  <2>5. 0 + n * MaxCost <= Limit + (k + 0) * MaxCost
    BY <2>2, <2>3, <2>4
  <2>6. QED
    BY <2>1, <2>5 DEF Committed
<1>10. CASE UNCHANGED vars
  BY <1>10 DEF vars, Committed, Busy
<1>11. QED
  BY <1>4, <1>5, <1>6, <1>7, <1>8, <1>9, <1>10 DEF Next

\* Nothing is under way and nothing is spent at the start.
LEMMA InitIInv == Init => IInv
<1> SUFFICES ASSUME Init
             PROVE  IInv
  OBVIOUS
<1>1. TypeOK
  BY HotPathAssumption DEF Init, TypeOK, Inquiry
<1>2. Busy = {}
  BY DEF Init, Busy
<1>3. Cardinality(Busy) = 0
  BY <1>2, FS_EmptySet
<1>4. 0 * MaxCost = 0
  BY HotPathAssumption, Z3
<1>5. Cardinality(Inquiries) * MaxCost \in Nat
  BY BusyBound, HotPathAssumption, TimesMonotone
<1>6. Cardinality(Inquiries) + 0 = Cardinality(Inquiries)
  BY BusyBound
<1>7. \A q \in Nat : 0 + 0 <= Limit + q
  BY HotPathAssumption
<1>8. Committed
  BY <1>3, <1>4, <1>5, <1>6, <1>7 DEF Init, Committed
<1>9. QED
  BY <1>1, <1>8 DEF IInv

\* What is set aside is never negative, so the counter keeps the bound too.
LEMMA CommittedBounds == IInv => OverspendBounded
<1> SUFFICES ASSUME IInv
             PROVE  OverspendBounded
  OBVIOUS
<1>1. Cardinality(Busy) * MaxCost \in Nat
  BY BusyBound, HotPathAssumption, TimesMonotone
<1>2. Cardinality(Inquiries) + unchecked \in Nat
  BY BusyBound, HotPathAssumption DEF IInv, TypeOK
<1>3. (Cardinality(Inquiries) + unchecked) * MaxCost \in Nat
  BY <1>2, HotPathAssumption, TimesMonotone
<1>4. spent \in Nat /\ Limit \in Nat
  BY HotPathAssumption DEF IInv, TypeOK
<1>5. \A p, q \in Nat : spent + p <= Limit + q => spent <= Limit + q
  BY <1>4
<1>6. QED
  BY <1>1, <1>3, <1>5 DEF IInv, Committed, OverspendBounded

----
\* The invariant from which both theorems follow.
THEOREM IInvCorrect == Spec => []IInv
<1>1. IInv /\ [Next]_vars => IInv'
  BY TypeOKStep, CommittedStep DEF IInv
<1>2. QED
  BY InitIInv, <1>1, PTL DEF Spec

\* Counter, inquiries and unchecked admissions have their types in every
\* reachable state: the counter in Redis never becomes negative.
THEOREM TypeCorrect == Spec => []TypeOK
<1>1. IInv => TypeOK
  BY DEF IInv
<1>2. QED
  BY IInvCorrect, <1>1, PTL

\* Check and Record, with any number of inquiries in between, never let the
\* counter pass the limit by more than what runs at once can cost.
THEOREM OverspendCorrect == Spec => []OverspendBounded
<1>1. QED
  BY IInvCorrect, CommittedBounds, PTL

----
\* A step of the gateway is one of the hot path or leaves it alone: the rate
\* limit only keeps inquiries away from it.
LEMMA HotPathPart == GatewaySpec => Spec
<1>1. GatewayInit => Init
  BY DEF GatewayInit
<1>2. [GatewayNext]_<<vars, rateVars>> => [Next]_vars
  BY DEF GatewayNext, CheckRate, CheckBudget, CallAndRecord, Next
<1> QED
  BY <1>1, <1>2, PTL DEF GatewaySpec, Spec

\* Execute with both of its limits never lets the counter pass the limit by
\* more than what runs at once can cost.
THEOREM GatewayOverspend == GatewaySpec => [](TypeOK /\ OverspendBounded)
BY HotPathPart, TypeCorrect, OverspendCorrect, PTL
====
