--------------------------- MODULE ExprParserProofs ---------------------------
(***************************************************************************)
(* Proofs about ExprParser, for arguments of any length and depth and all  *)
(* irregularities.                                                         *)
(*                                                                         *)
(* What the properties say of the stream is said again with the stream as  *)
(* a parameter, so that it can be followed from one stream to the next.    *)
(***************************************************************************)
EXTENDS ExprParser, FiniteSetTheorems, WellFoundedInduction, TLAPS

LEMMA TokenSets ==
  /\ Atoms = {"value", "unknown"} /\ Lists = {"call", "brace"}
  /\ Openers = {"call", "brace", "object"}
  /\ Enders = {"end", "endBrace", "endObject"}
  /\ PrefixOps = {"var", "paren", "subscript"}
  /\ Nodes = {"value", "unknown", "call", "brace", "object", "subscript"}
  /\ Tokens = {"value", "unknown", "call", "brace", "object", "subscript",
               "var", "paren", "end", "endBrace", "endObject"}
  /\ End["call"] = "end" /\ End["brace"] = "endBrace" /\ End["object"] = "endObject"
<1>1. Openers = {"call", "brace", "object"}
  BY DEF Openers, Lists
<1>2. End["call"] = "end" /\ End["brace"] = "endBrace" /\ End["object"] = "endObject"
  BY DEF End
<1>3. Enders = {"end", "endBrace", "endObject"}
  BY <1>1, <1>2 DEF Enders
<1>4. Nodes = {"value", "unknown", "call", "brace", "object", "subscript"}
  BY <1>1 DEF Nodes, Atoms
<1>5. Tokens = {"value", "unknown", "call", "brace", "object", "subscript",
                "var", "paren", "end", "endBrace", "endObject"}
  BY <1>3, <1>4 DEF Tokens, PrefixOps
<1> QED BY <1>1, <1>2, <1>3, <1>4, <1>5 DEF Atoms, Lists, PrefixOps

-----------------------------------------------------------------------------
(* Naturals are well founded: the least and the greatest element of a set. *)
LEMMA Least ==
  ASSUME NEW T, T \subseteq Nat, T # {}
  PROVE  \E x \in T : \A y \in T : x <= y
<1> DEFINE R == {p \in Nat \X Nat : p[1] < p[2]}
<1>1. IsWellFoundedOn(R, Nat)
  BY NatLessThanWellFounded DEF OpToRel
<1>2. \A x, y \in Nat : y < x => <<y, x>> \in R
  OBVIOUS
<1> HIDE DEF R
<1>3. PICK x \in T : \A y \in T : ~(<<y, x>> \in R)
  BY <1>1, WFMin
<1>4. ASSUME NEW y \in T PROVE x <= y
  <2>1. x \in Nat /\ y \in Nat
    OBVIOUS
  <2>2. ~(y < x)
    BY <1>2, <1>3, <2>1
  <2> QED BY <2>1, <2>2
<1> QED BY <1>4

LEMMA Greatest ==
  ASSUME NEW n \in Nat, NEW T, T \subseteq 0..n, T # {}
  PROVE  \E x \in T : \A y \in T : y <= x
<1> DEFINE U == {n - x : x \in T}
<1>1. \A x \in T : x \in Nat /\ x <= n /\ n - x \in Nat
  OBVIOUS
<1>2. U \subseteq Nat
  BY <1>1
<1>3. \A x \in T : n - x \in U
  OBVIOUS
<1> HIDE DEF U
<1>4. PICK u \in U : \A y \in U : u <= y
  BY <1>2, <1>3, Least
<1>5. PICK x \in T : u = n - x
  BY DEF U
<1>6. ASSUME NEW y \in T PROVE y <= x
  <2>1. n - x <= n - y
    BY <1>3, <1>4, <1>5
  <2> QED BY <1>1, <2>1
<1> QED BY <1>6

(* Latest is the maximum, and Statement of no token.                       *)
LEMMA LatestIs ==
  ASSUME NEW S \in SUBSET Nat, NEW m \in S, \A j \in S : j <= m
  PROVE  Latest(S) = m
<1>1. \A k \in S \cup {0} : (\A j \in S : j <= k) => k = m
  <2> SUFFICES ASSUME NEW k \in S \cup {0}, \A j \in S : j <= k PROVE k = m
    OBVIOUS
  <2>1. m <= k /\ m \in Nat /\ k \in Nat
    OBVIOUS
  <2>2. k \in S \/ (k = 0 /\ m = 0)
    BY <2>1
  <2> QED BY <2>1, <2>2
<1> QED BY <1>1 DEF Latest, Statement

LEMMA LatestNone == Latest({}) = 0
  BY DEF Latest, Statement

LEMMA LatestType ==
  ASSUME NEW n \in Nat, NEW S, S \subseteq 0..n
  PROVE  Latest(S) \in 0..n /\ (S # {} => Latest(S) \in S)
<1>1. CASE S = {}
  BY <1>1, LatestNone
<1>2. CASE S # {}
  <2>1. PICK m \in S : \A j \in S : j <= m
    BY <1>2, Greatest
  <2>2. Latest(S) = m
    BY <2>1, LatestIs
  <2> QED BY <2>2
<1> QED BY <1>1, <1>2

-----------------------------------------------------------------------------
(* The numbers of a set in ascending order.                                *)
UpTo(S, i) == {j \in S : j <= i}

LEMMA UpToIs ==
  ASSUME NEW S, IsFiniteSet(S), S \subseteq Nat, NEW i \in S
  PROVE  /\ IsFiniteSet(UpTo(S, i)) /\ Cardinality(UpTo(S, i)) \in 1..Cardinality(S)
         /\ Cardinality(S) \in Nat
         /\ \A j \in S : i < j => Cardinality(UpTo(S, i)) < Cardinality(UpTo(S, j))
<1>1. Cardinality(S) \in Nat
  BY FS_CardinalityType
<1>2. \A j \in S : /\ IsFiniteSet(UpTo(S, j)) /\ Cardinality(UpTo(S, j)) \in Nat
                   /\ Cardinality(UpTo(S, j)) <= Cardinality(S)
  <2>1. \A j \in S : UpTo(S, j) \subseteq S
    BY DEF UpTo
  <2> QED BY <2>1, FS_Subset, FS_CardinalityType
<1>3. Cardinality(UpTo(S, i)) # 0
  <2>1. i \in UpTo(S, i)
    BY DEF UpTo
  <2> QED BY <1>2, <2>1, FS_EmptySet
<1>4. ASSUME NEW j \in S, i < j
      PROVE  Cardinality(UpTo(S, i)) < Cardinality(UpTo(S, j))
  <2>1. j \notin UpTo(S, i) /\ UpTo(S, i) \cup {j} \subseteq UpTo(S, j)
    <3>1. i \in Nat /\ j \in Nat /\ i < j /\ \A k \in S : k \in Nat
      BY <1>4
    <3>2. ~(j <= i) /\ j <= j /\ \A k \in S : k <= i => k <= j
      BY <3>1
    <3> QED BY <3>2 DEF UpTo
  <2>2. Cardinality(UpTo(S, i) \cup {j}) = Cardinality(UpTo(S, i)) + 1
    BY <1>2, <2>1, FS_AddElement
  <2>3. Cardinality(UpTo(S, i) \cup {j}) <= Cardinality(UpTo(S, j))
    BY <1>2, <2>1, FS_Subset
  <2> QED BY <1>2, <2>2, <2>3
<1> QED BY <1>1, <1>2, <1>3, <1>4

(* The k-th number is the one up to which there are k.                     *)
LEMMA InOrderIs ==
  ASSUME NEW n \in Nat, NEW S, S \subseteq 0..n, NEW i \in S
  PROVE  /\ Cardinality(UpTo(S, i)) \in 1..Cardinality(S)
         /\ InOrder(S)[Cardinality(UpTo(S, i))] = i
<1>1. IsFiniteSet(S) /\ S \subseteq Nat
  <2>1. IsFiniteSet(0..n)
    BY FS_Interval
  <2>2. IsFiniteSet(S)
    BY <2>1, FS_Subset
  <2> QED BY <2>2
<1>2. Cardinality(UpTo(S, i)) \in 1..Cardinality(S)
  BY <1>1, UpToIs
<1>3. ASSUME NEW j \in S, Cardinality(UpTo(S, j)) = Cardinality(UpTo(S, i))
      PROVE  j = i
  <2>1. i < j => Cardinality(UpTo(S, i)) < Cardinality(UpTo(S, j))
    BY <1>1, UpToIs
  <2>2. j < i => Cardinality(UpTo(S, j)) < Cardinality(UpTo(S, i))
    BY <1>1, UpToIs
  <2>3. Cardinality(UpTo(S, i)) \in Nat
    BY <1>2
  <2> QED BY <1>3, <2>1, <2>2, <2>3
<1>4. InOrder(S) = [k \in 1..Cardinality(S) |-> CHOOSE j \in S : Cardinality(UpTo(S, j)) = k]
  BY DEF InOrder, UpTo
<1>5. InOrder(S)[Cardinality(UpTo(S, i))]
        = CHOOSE j \in S : Cardinality(UpTo(S, j)) = Cardinality(UpTo(S, i))
  BY <1>2, <1>4
<1> DEFINE P(j) == Cardinality(UpTo(S, j)) = Cardinality(UpTo(S, i))
<1>6. (CHOOSE j \in S : P(j)) \in S /\ P(CHOOSE j \in S : P(j))
  OBVIOUS
<1> QED BY <1>2, <1>3, <1>5, <1>6

(* Each place is filled.                                                   *)
LEMMA InOrderType ==
  ASSUME NEW n \in Nat, NEW S, S \subseteq 0..n, NEW k \in 1..Cardinality(S)
  PROVE  /\ InOrder(S)[k] \in S /\ Cardinality(UpTo(S, InOrder(S)[k])) = k
<1> DEFINE C(i) == Cardinality(UpTo(S, i))
           T == {i \in S : k <= C(i)}
<1>1. IsFiniteSet(S) /\ S \subseteq Nat /\ Cardinality(S) \in Nat
  <2>1. IsFiniteSet(0..n)
    BY FS_Interval
  <2>2. IsFiniteSet(S)
    BY <2>1, FS_Subset
  <2> QED BY <2>2, FS_CardinalityType
<1>2. ASSUME NEW i \in S
      PROVE  IsFiniteSet(UpTo(S, i)) /\ C(i) \in Nat /\ \A j \in S : i < j => C(i) < C(j)
  <2>1. /\ IsFiniteSet(UpTo(S, i)) /\ Cardinality(UpTo(S, i)) \in 1..Cardinality(S)
        /\ \A j \in S : i < j => Cardinality(UpTo(S, i)) < Cardinality(UpTo(S, j))
    BY <1>1, UpToIs
  <2> QED BY <1>1, <2>1
<1>3. T # {}
  <2>1. S # {}
    BY FS_EmptySet
  <2>2. PICK m \in S : \A j \in S : j <= m
    BY <2>1, Greatest
  <2>3. UpTo(S, m) = S
    BY <2>2 DEF UpTo
  <2> QED BY <2>3
<1>4. PICK i \in T : \A j \in T : i <= j
  <2>1. T \subseteq Nat
    BY <1>1
  <2> HIDE DEF T
  <2> QED BY <1>3, <2>1, Least
<1>5. i \in S /\ k <= C(i) /\ i \in Nat
  BY <1>1, <1>4
<1>6. C(i) = k
  <2> SUFFICES ASSUME k < C(i) PROVE FALSE
    BY <1>2, <1>5
  <2> DEFINE B == UpTo(S, i) \ {i}
  <2>1. IsFiniteSet(UpTo(S, i)) /\ i \in UpTo(S, i)
    BY <1>2, <1>5 DEF UpTo
  <2>2. IsFiniteSet(B) /\ Cardinality(B) = C(i) - 1
    BY <2>1, FS_RemoveElement
  <2>3. k <= Cardinality(B) /\ Cardinality(B) # 0
    BY <1>2, <1>5, <2>2
  <2>4. B # {} /\ B \subseteq S
    BY <2>3, FS_EmptySet DEF UpTo
  <2>5. PICK m \in B : \A j \in B : j <= m
    <3>1. B \subseteq 0..n
      BY <2>4
    <3> HIDE DEF B
    <3> QED BY <2>4, <3>1, Greatest
  <2>6. m \in S /\ m < i
    BY <1>1, <1>5, <2>5 DEF UpTo
  <2>7. UpTo(S, m) = B
    <3>1. \A j \in S : j \in B <=> j < i
      BY <1>1, <1>5 DEF UpTo
    <3>2. \A j \in S : j <= m <=> j \in B
      BY <1>1, <1>5, <2>5, <2>6, <3>1
    <3> QED BY <2>4, <3>2 DEF UpTo
  <2>8. m \in T
    BY <2>3, <2>6, <2>7
  <2> QED BY <1>4, <1>5, <2>6, <2>8
<1>7. InOrder(S)[k] = i
  BY <1>5, <1>6, InOrderIs
<1> QED BY <1>5, <1>6, <1>7

(* A number greater than all comes last.                                   *)
LEMMA InOrderAdd ==
  ASSUME NEW n \in Nat, NEW S, S \subseteq 0..n, NEW x \in 0..n, \A i \in S : i < x
  PROVE  /\ Cardinality(S) \in Nat
         /\ Cardinality(S \cup {x}) = Cardinality(S) + 1
         /\ InOrder(S \cup {x})[Cardinality(S) + 1] = x
<1> DEFINE U == S \cup {x}
<1>1. U \subseteq 0..n /\ x \in U /\ S \subseteq U
  OBVIOUS
<1>2. IsFiniteSet(S) /\ Cardinality(S) \in Nat
  <2>1. IsFiniteSet(0..n)
    BY FS_Interval
  <2> QED BY <2>1, FS_Subset, FS_CardinalityType
<1>3. x \notin S
  OBVIOUS
<1>4. Cardinality(U) = Cardinality(S) + 1
  BY <1>2, <1>3, FS_AddElement
<1>5. UpTo(U, x) = U
  <2>1. \A j \in U : j <= x
    OBVIOUS
  <2> QED BY <2>1 DEF UpTo
<1> HIDE DEF U
<1>6. InOrder(U)[Cardinality(S) + 1] = x
  <2>1. InOrder(U)[Cardinality(UpTo(U, x))] = x
    BY <1>1, InOrderIs
  <2> QED BY <1>4, <1>5, <2>1
<1> QED BY <1>2, <1>4, <1>6 DEF U

LEMMA InOrderFront ==
  ASSUME NEW n \in Nat, NEW S, S \subseteq 0..n, NEW x \in 0..n, \A i \in S : i < x,
         NEW k \in 1..Cardinality(S)
  PROVE  InOrder(S \cup {x})[k] = InOrder(S)[k]
<1> DEFINE U == S \cup {x}
<1>1. U \subseteq 0..n /\ S \subseteq U
  OBVIOUS
<1>2. \A i \in S : UpTo(U, i) = UpTo(S, i)
  <2>1. \A i \in S : ~(x <= i)
    OBVIOUS
  <2> QED BY <2>1 DEF UpTo
<1> HIDE DEF U
<1>3. InOrder(S)[k] \in S /\ Cardinality(UpTo(S, InOrder(S)[k])) = k
  BY InOrderType
<1>4. Cardinality(UpTo(U, InOrder(S)[k])) = k
  BY <1>2, <1>3
<1>5. InOrder(U)[Cardinality(UpTo(U, InOrder(S)[k]))] = InOrder(S)[k]
  BY <1>1, <1>3, InOrderIs
<1> QED BY <1>4, <1>5 DEF U

-----------------------------------------------------------------------------
(* What the properties look back on, of the stream q.                      *)
Count(q, C, i) == Cardinality({k \in 1..(i - 1) : q[k] \in C})
DepthIn(q, i) == Count(q, Openers, i) - Count(q, Enders, i)
OwnerIn(q, i) ==
  Latest({k \in 1..(i - 1) : q[k] \in Openers /\ DepthIn(q, k) = DepthIn(q, i) - 1})
KindIn(q, i) == IF i = Statement THEN "call" ELSE q[i]
PrefixedIn(q, i) == /\ i > 0 /\ q[i] \in PrefixOps
                    /\ ~(q[i] = "paren" /\ KindIn(q, i - 1) \in Lists)
Heads(q, i) == {k \in i..Len(q) : ~PrefixedIn(q, k) /\ \A j \in i..(k - 1) : PrefixedIn(q, j)}
ClosedIn(q, i) == \E k \in (i + 1)..Len(q) : q[k] \in Enders /\ OwnerIn(q, k) = i
WholeIn(q, g, i) == \E k \in Heads(q, i) : ~g \/ q[k] \in Atoms \/ ClosedIn(q, k)
Subscripts(q, i) == {k \in 1..(i - 1) : q[k] = "subscript" /\ \A j \in k..(i - 1) : PrefixedIn(q, j)}
ParentIn(q, i) ==
  IF Subscripts(q, i) = {} THEN OwnerIn(q, i) ELSE Latest(Subscripts(q, i))

LEMMA LooksBack ==
  ASSUME NEW i
  PROVE  /\ Kind(i) = KindIn(stream, i) /\ Prefixed(i) = PrefixedIn(stream, i)
         /\ Owner(i) = OwnerIn(stream, i) /\ Parent(i) = ParentIn(stream, i)
         /\ Closed(i) = ClosedIn(stream, i) /\ Whole(i) = WholeIn(stream, good, i)
<1>1. \A k : Kind(k) = KindIn(stream, k)
  BY DEF Kind, KindIn
<1>2. \A k : Prefixed(k) = PrefixedIn(stream, k)
  BY <1>1 DEF Prefixed, PrefixedIn
<1>3. \A k : Depth(k) = DepthIn(stream, k)
  BY DEF Depth, DepthIn, Count
<1>4. \A k : Owner(k) = OwnerIn(stream, k)
  BY <1>3 DEF Owner, OwnerIn
<1>5. \A k : Closed(k) = ClosedIn(stream, k)
  BY <1>4 DEF Closed, ClosedIn
<1>6. Whole(i) = WholeIn(stream, good, i)
  <2>1. {k \in i..Len(stream) : ~Prefixed(k) /\ \A j \in i..(k - 1) : Prefixed(j)} = Heads(stream, i)
    BY <1>2 DEF Heads
  <2> QED BY <1>5, <2>1 DEF Whole, WholeIn
<1>7. Parent(i) = ParentIn(stream, i)
  <2>1. {k \in 1..(i - 1) : stream[k] = "subscript" /\ \A j \in k..(i - 1) : Prefixed(j)}
          = Subscripts(stream, i)
    BY <1>2 DEF Subscripts
  <2> QED BY <1>4, <2>1 DEF Parent, ParentIn
<1> QED BY <1>1, <1>2, <1>4, <1>5, <1>6, <1>7

LEMMA CountType ==
  ASSUME NEW q, NEW C, NEW i \in Nat
  PROVE  Count(q, C, i) \in Nat
<1>1. IsFiniteSet(1..(i - 1))
  BY FS_Interval
<1>2. IsFiniteSet({k \in 1..(i - 1) : q[k] \in C})
  BY <1>1, FS_Subset
<1> QED BY <1>2, FS_CardinalityType DEF Count

LEMMA CountStep ==
  ASSUME NEW q, NEW C, NEW i \in Nat \ {0}
  PROVE  Count(q, C, i + 1) = Count(q, C, i) + (IF q[i] \in C THEN 1 ELSE 0)
<1> DEFINE A == {k \in 1..(i - 1) : q[k] \in C}
           B == {k \in 1..i : q[k] \in C}
<1>1. IsFiniteSet(A)
  <2>1. IsFiniteSet(1..(i - 1))
    BY FS_Interval
  <2> QED BY <2>1, FS_Subset
<1>2. /\ q[i] \in C => B = A \cup {i}
      /\ q[i] \notin C => B = A
      /\ i \notin A
  OBVIOUS
<1>3. Count(q, C, i + 1) = Cardinality(B) /\ Count(q, C, i) = Cardinality(A)
  <2>1. (i + 1) - 1 = i
    OBVIOUS
  <2> QED BY <2>1 DEF Count
<1> HIDE DEF A, B
<1>4. Cardinality(A) \in Nat /\ Cardinality(A \cup {i}) = Cardinality(A) + 1
  BY <1>1, <1>2, FS_AddElement, FS_CardinalityType
<1>5. CASE q[i] \in C
  BY <1>2, <1>3, <1>4, <1>5
<1>6. CASE q[i] \notin C
  BY <1>2, <1>3, <1>4, <1>6
<1> QED BY <1>5, <1>6

LEMMA DepthType == ASSUME NEW q, NEW i \in Nat PROVE DepthIn(q, i) \in Int
  BY CountType DEF DepthIn

LEMMA DepthStep ==
  ASSUME NEW q, NEW i \in Nat \ {0}
  PROVE  /\ q[i] \in Openers => DepthIn(q, i + 1) = DepthIn(q, i) + 1
         /\ q[i] \in Enders => DepthIn(q, i + 1) = DepthIn(q, i) - 1
         /\ q[i] \notin Openers \cup Enders => DepthIn(q, i + 1) = DepthIn(q, i)
<1> DEFINE o == Count(q, Openers, i)
           e == Count(q, Enders, i)
<1>1. o \in Nat /\ e \in Nat
  BY CountType
<1>2. /\ Count(q, Openers, i + 1) = o + (IF q[i] \in Openers THEN 1 ELSE 0)
      /\ Count(q, Enders, i + 1) = e + (IF q[i] \in Enders THEN 1 ELSE 0)
  BY CountStep
<1>3. DepthIn(q, i) = o - e
  BY DEF DepthIn
<1>4. DepthIn(q, i + 1) = (o + (IF q[i] \in Openers THEN 1 ELSE 0)) - (e + (IF q[i] \in Enders THEN 1 ELSE 0))
  BY <1>2 DEF DepthIn
<1>5. q[i] \in Openers => q[i] \notin Enders
  BY TokenSets
<1> HIDE DEF o, e
<1> QED BY <1>1, <1>3, <1>4, <1>5

(* The construct that was opened last at a depth one less is the owner.    *)
LEMMA OwnerIs ==
  ASSUME NEW q, NEW i \in Nat \ {0}, NEW m \in 0..(i - 1),
         m # 0 => q[m] \in Openers,
         DepthIn(q, i) = DepthIn(q, m + 1),
         \A k \in (m + 1)..i : DepthIn(q, k) >= DepthIn(q, m + 1)
  PROVE  OwnerIn(q, i) = m
<1> DEFINE S == {k \in 1..(i - 1) : q[k] \in Openers /\ DepthIn(q, k) = DepthIn(q, i) - 1}
<1>1. OwnerIn(q, i) = Latest(S)
  BY DEF OwnerIn
<1>2. \A k \in S : k <= m
  <2> SUFFICES ASSUME NEW k \in S, k > m PROVE FALSE
    OBVIOUS
  <2>1. k \in (m + 1)..i /\ k \in Nat
    OBVIOUS
  <2>2. DepthIn(q, k) \in Int /\ DepthIn(q, i) \in Int
    BY <2>1, DepthType
  <2> QED BY <2>1, <2>2
<1>3. CASE m = 0
  <2>1. S = {}
    BY <1>2, <1>3
  <2> QED BY <1>1, <1>3, <2>1, LatestNone
<1>4. CASE m # 0
  <2>1. DepthIn(q, m + 1) = DepthIn(q, m) + 1 /\ DepthIn(q, m) \in Int
    BY <1>4, DepthStep, DepthType
  <2>2. m \in S
    BY <1>4, <2>1
  <2>3. S \in SUBSET Nat
    OBVIOUS
  <2> HIDE DEF S
  <2> QED BY <1>1, <1>2, <2>2, <2>3, LatestIs
<1> QED BY <1>3, <1>4

LEMMA OwnerType ==
  ASSUME NEW q, NEW i \in Nat \ {0}
  PROVE  OwnerIn(q, i) \in 0..(i - 1)
<1> DEFINE S == {k \in 1..(i - 1) : q[k] \in Openers /\ DepthIn(q, k) = DepthIn(q, i) - 1}
<1>1. i - 1 \in Nat /\ S \subseteq 0..(i - 1) /\ OwnerIn(q, i) = Latest(S)
  BY DEF OwnerIn
<1> HIDE DEF S
<1> QED BY <1>1, LatestType, ZenonT(60)

LEMMA ParentType ==
  ASSUME NEW q, NEW i \in Nat \ {0}
  PROVE  ParentIn(q, i) \in 0..(i - 1)
<1>1. CASE Subscripts(q, i) = {}
  BY <1>1, OwnerType DEF ParentIn
<1>2. CASE Subscripts(q, i) # {}
  <2>1. ParentIn(q, i) = Latest(Subscripts(q, i))
    BY <1>2 DEF ParentIn
  <2>2. i - 1 \in Nat /\ Subscripts(q, i) \subseteq 0..(i - 1)
    BY DEF Subscripts
  <2> QED BY <2>1, <2>2, LatestType
<1> QED BY <1>1, <1>2

(* Where a node goes, from what stands in front of it.                     *)
LEMMA ParentStep ==
  ASSUME NEW q, NEW i \in Nat
  PROVE  /\ ~PrefixedIn(q, i) => ParentIn(q, i + 1) = OwnerIn(q, i + 1)
         /\ PrefixedIn(q, i) /\ q[i] # "subscript" => ParentIn(q, i + 1) = ParentIn(q, i)
         /\ PrefixedIn(q, i) /\ q[i] = "subscript" /\ ~PrefixedIn(q, i - 1) => ParentIn(q, i + 1) = i
<1>1. ASSUME ~PrefixedIn(q, i) PROVE ParentIn(q, i + 1) = OwnerIn(q, i + 1)
  <2>1. \A k \in 1..((i + 1) - 1) : i \in k..((i + 1) - 1)
    OBVIOUS
  <2>2. Subscripts(q, i + 1) = {}
    BY <1>1, <2>1 DEF Subscripts
  <2> QED BY <2>2 DEF ParentIn
<1>2. ASSUME PrefixedIn(q, i), q[i] # "subscript" PROVE ParentIn(q, i + 1) = ParentIn(q, i)
  <2>1. i > 0 /\ q[i] \in PrefixOps
    BY <1>2 DEF PrefixedIn
  <2>2. Subscripts(q, i + 1) = Subscripts(q, i)
    <3>1. \A k \in 1..((i + 1) - 1) : q[k] = "subscript" => k \in 1..(i - 1)
      BY <1>2
    <3>2. \A k \in 1..(i - 1) : \A j \in k..((i + 1) - 1) : j = i \/ j \in k..(i - 1)
      OBVIOUS
    <3>3. \A k \in 1..(i - 1) : k \in 1..((i + 1) - 1) /\ \A j \in k..(i - 1) : j \in k..((i + 1) - 1)
      OBVIOUS
    <3> HIDE DEF PrefixedIn
    <3> QED BY <1>2, <3>1, <3>2, <3>3 DEF Subscripts
  <2>3. OwnerIn(q, i + 1) = OwnerIn(q, i)
    <3>1. q[i] \notin Openers /\ q[i] \notin Enders
      BY <2>1, TokenSets
    <3>2. DepthIn(q, i + 1) = DepthIn(q, i)
      BY <2>1, <3>1, DepthStep
    <3>3. {k \in 1..((i + 1) - 1) : q[k] \in Openers /\ DepthIn(q, k) = DepthIn(q, i + 1) - 1}
            = {k \in 1..(i - 1) : q[k] \in Openers /\ DepthIn(q, k) = DepthIn(q, i) - 1}
      BY <3>1, <3>2
    <3> QED BY <3>3 DEF OwnerIn
  <2> QED BY <2>2, <2>3 DEF ParentIn
<1>3. ASSUME PrefixedIn(q, i), q[i] = "subscript", ~PrefixedIn(q, i - 1)
      PROVE  ParentIn(q, i + 1) = i
  <2>1. i > 0
    BY <1>3 DEF PrefixedIn
  <2>2. \A k \in 1..((i + 1) - 1) : k = i \/ i - 1 \in k..((i + 1) - 1)
    BY <2>1
  <2>3. i \in 1..((i + 1) - 1) /\ \A j \in i..((i + 1) - 1) : j = i
    BY <2>1
  <2>4. Subscripts(q, i + 1) = {i}
    BY <1>3, <2>2, <2>3 DEF Subscripts
  <2>5. Latest({i}) = i
    BY LatestIs
  <2> QED BY <2>4, <2>5 DEF ParentIn
<1> QED BY <1>1, <1>2, <1>3

(* A prefix and what it is a prefix of are complete together.              *)
LEMMA WholeBack ==
  ASSUME NEW q \in Seq(Tokens), NEW g, NEW i \in Nat, PrefixedIn(q, i)
  PROVE  WholeIn(q, g, i) <=> WholeIn(q, g, i + 1)
<1>1. \A k \in i..Len(q) : k = i \/ k \in (i + 1)..Len(q)
  OBVIOUS
<1>2. \A k \in (i + 1)..Len(q) : k \in i..Len(q) /\ \A j \in i..(k - 1) : j = i \/ j \in (i + 1)..(k - 1)
  OBVIOUS
<1>3. \A k \in (i + 1)..Len(q) : \A j \in (i + 1)..(k - 1) : j \in i..(k - 1)
  OBVIOUS
<1> HIDE DEF PrefixedIn
<1>4. Heads(q, i) = Heads(q, i + 1)
  BY <1>1, <1>2, <1>3 DEF Heads
<1> QED BY <1>4 DEF WholeIn

(* A token that is no prefix starts its own node.                          *)
LEMMA HeadIs ==
  ASSUME NEW q, NEW i \in 1..Len(q), Len(q) \in Nat, ~PrefixedIn(q, i)
  PROVE  Heads(q, i) = {i}
<1>1. i \in i..Len(q) /\ \A j \in i..(i - 1) : FALSE
  OBVIOUS
<1>2. \A k \in i..Len(q) : k = i \/ i \in i..(k - 1)
  OBVIOUS
<1> QED BY <1>1, <1>2 DEF Heads

-----------------------------------------------------------------------------
(* What a stream says of its tokens stays as it is when it grows.          *)
LEMMA AppendIs ==
  ASSUME NEW S, NEW q \in Seq(S), NEW t \in S
  PROVE  /\ Append(q, t) \in Seq(S) /\ Len(q) \in Nat /\ Len(Append(q, t)) = Len(q) + 1
         /\ Append(q, t)[Len(q) + 1] = t /\ \A k \in 1..Len(q) : Append(q, t)[k] = q[k]
  OBVIOUS

LEMMA LooksSame ==
  ASSUME NEW q, NEW r, NEW n \in Nat, \A k \in 1..n : r[k] = q[k]
  PROVE  /\ \A i \in 0..n : KindIn(r, i) = KindIn(q, i) /\ PrefixedIn(r, i) = PrefixedIn(q, i)
         /\ \A i \in 1..(n + 1) : DepthIn(r, i) = DepthIn(q, i)
         /\ \A i \in 1..(n + 1) : OwnerIn(r, i) = OwnerIn(q, i)
         /\ \A i \in 1..(n + 1) : ParentIn(r, i) = ParentIn(q, i)
<1>1. \A i \in 0..n : KindIn(r, i) = KindIn(q, i)
  BY DEF KindIn, Statement
<1>2. ASSUME NEW i \in 0..n PROVE PrefixedIn(r, i) = PrefixedIn(q, i)
  <2>1. CASE i = 0
    BY <2>1 DEF PrefixedIn
  <2>2. CASE i # 0
    <3>1. i \in 1..n /\ i - 1 \in 0..n
      BY <2>2
    <3> QED BY <1>1, <3>1 DEF PrefixedIn
  <2> QED BY <2>1, <2>2
<1>3. ASSUME NEW i \in 1..(n + 1) PROVE \A k \in 1..(i - 1) : r[k] = q[k] /\ k \in 0..n /\ k \in 1..(n + 1)
  OBVIOUS
<1>4. ASSUME NEW i \in 1..(n + 1), NEW C PROVE Count(r, C, i) = Count(q, C, i)
  <2>1. {k \in 1..(i - 1) : r[k] \in C} = {k \in 1..(i - 1) : q[k] \in C}
    BY <1>3
  <2> QED BY <2>1 DEF Count
<1>5. \A i \in 1..(n + 1) : DepthIn(r, i) = DepthIn(q, i)
  BY <1>4 DEF DepthIn
<1>6. ASSUME NEW i \in 1..(n + 1) PROVE OwnerIn(r, i) = OwnerIn(q, i)
  <2>1. \A k \in 1..(i - 1) : r[k] = q[k] /\ DepthIn(r, k) = DepthIn(q, k)
    BY <1>3, <1>5
  <2>2. DepthIn(r, i) = DepthIn(q, i)
    BY <1>5
  <2>3. {k \in 1..(i - 1) : r[k] \in Openers /\ DepthIn(r, k) = DepthIn(r, i) - 1}
          = {k \in 1..(i - 1) : q[k] \in Openers /\ DepthIn(q, k) = DepthIn(q, i) - 1}
    BY <2>1, <2>2
  <2> QED BY <2>3 DEF OwnerIn
<1>7. ASSUME NEW i \in 1..(n + 1) PROVE ParentIn(r, i) = ParentIn(q, i)
  <2>1. \A k \in 1..(i - 1) : r[k] = q[k] /\ \A j \in k..(i - 1) : PrefixedIn(r, j) = PrefixedIn(q, j)
    <3>1. \A k \in 1..(i - 1) : \A j \in k..(i - 1) : j \in 0..n
      OBVIOUS
    <3> QED BY <1>2, <1>3, <3>1
  <2>2. Subscripts(r, i) = Subscripts(q, i)
    BY <2>1 DEF Subscripts
  <2> QED BY <1>6, <2>2 DEF ParentIn
<1> QED BY <1>1, <1>2, <1>5, <1>6, <1>7

LEMMA ClosedGrows ==
  ASSUME NEW q \in Seq(Tokens), NEW t \in Tokens, NEW i \in 0..Len(q)
  PROVE  ClosedIn(Append(q, t), i) <=>
           ClosedIn(q, i) \/ (t \in Enders /\ OwnerIn(q, Len(q) + 1) = i)
<1> DEFINE r == Append(q, t)
           n == Len(q)
<1>1. n \in Nat /\ Len(r) = n + 1 /\ r[n + 1] = t /\ \A k \in 1..n : r[k] = q[k]
  BY AppendIs
<1> HIDE DEF r
<1>2. \A k \in 1..(n + 1) : OwnerIn(r, k) = OwnerIn(q, k)
  BY <1>1, LooksSame
<1>3. \A k \in (i + 1)..Len(r) : k = n + 1 \/ (k \in (i + 1)..n /\ k \in 1..n /\ k \in 1..(n + 1))
  BY <1>1
<1>4. /\ \A k \in (i + 1)..n : k \in (i + 1)..Len(r) /\ k \in 1..n /\ k \in 1..(n + 1)
      /\ n + 1 \in (i + 1)..Len(r) /\ n + 1 \in 1..(n + 1)
  BY <1>1
<1> HIDE DEF n
<1>5. ASSUME ClosedIn(r, i)
      PROVE  ClosedIn(q, i) \/ (t \in Enders /\ OwnerIn(q, n + 1) = i)
  <2>1. PICK k \in (i + 1)..Len(r) : r[k] \in Enders /\ OwnerIn(r, k) = i
    BY <1>5 DEF ClosedIn
  <2>2. CASE k = n + 1
    BY <1>1, <1>2, <1>4, <2>1, <2>2
  <2>3. CASE k \in (i + 1)..n /\ k \in 1..n /\ k \in 1..(n + 1)
    BY <1>1, <1>2, <2>1, <2>3 DEF ClosedIn, n
  <2> QED BY <1>3, <2>2, <2>3
<1>6. ASSUME ClosedIn(q, i) PROVE ClosedIn(r, i)
  <2>1. PICK k \in (i + 1)..n : q[k] \in Enders /\ OwnerIn(q, k) = i
    BY <1>6 DEF ClosedIn, n
  <2> QED BY <1>1, <1>2, <1>4, <2>1 DEF ClosedIn
<1>7. ASSUME t \in Enders, OwnerIn(q, n + 1) = i PROVE ClosedIn(r, i)
  <2>1. r[n + 1] \in Enders /\ OwnerIn(r, n + 1) = i
    BY <1>1, <1>2, <1>4, <1>7
  <2> QED BY <1>4, <2>1 DEF ClosedIn
<1> QED BY <1>5, <1>6, <1>7 DEF r, n

(* What is complete stays so.                                              *)
LEMMA WholeGrows ==
  ASSUME NEW q \in Seq(Tokens), NEW t \in Tokens, NEW g, NEW i \in 1..Len(q), WholeIn(q, g, i)
  PROVE  WholeIn(Append(q, t), g, i)
<1> DEFINE r == Append(q, t)
           n == Len(q)
<1>1. n \in Nat /\ Len(r) = n + 1 /\ \A k \in 1..n : r[k] = q[k]
  BY AppendIs
<1>2. \A k \in 0..n : ClosedIn(q, k) => ClosedIn(r, k)
  BY ClosedGrows
<1> HIDE DEF r
<1>3. \A k \in 0..n : PrefixedIn(r, k) = PrefixedIn(q, k)
  BY <1>1, LooksSame
<1>4. PICK k \in Heads(q, i) : ~g \/ q[k] \in Atoms \/ ClosedIn(q, k)
  BY DEF WholeIn
<1>5. k \in i..n /\ k \in 1..n /\ k \in 0..n /\ ~PrefixedIn(q, k) /\ \A j \in i..(k - 1) : PrefixedIn(q, j)
  BY <1>4 DEF Heads
<1>6. \A j \in i..(k - 1) : j \in 0..n
  BY <1>5
<1>7. k \in i..Len(r)
  BY <1>1, <1>5
<1>8. k \in Heads(r, i)
  BY <1>3, <1>5, <1>6, <1>7 DEF Heads
<1>9. ~g \/ r[k] \in Atoms \/ ClosedIn(r, k)
  BY <1>1, <1>2, <1>4, <1>5
<1> QED BY <1>8, <1>9 DEF WholeIn, r

LEMMA WholeEnds ==
  ASSUME NEW q, NEW g, NEW i, WholeIn(q, g, i)
  PROVE  WholeIn(q, FALSE, i)
  BY DEF WholeIn

-----------------------------------------------------------------------------
(* The methods in progress, and what the stream says of them.              *)
FrameRecord == [kind : {"args", "through", "object", "subscript"}, node : Nat]
IsPrefix(f) == f.kind \in {"through", "subscript"}

KindFits(q, f) ==
  \/ f.kind = "args" /\ KindIn(q, f.node) \in Lists
  \/ f.kind = "object" /\ KindIn(q, f.node) = "object"
  \/ f.kind = "through" /\ PrefixedIn(q, f.node) /\ q[f.node] # "subscript"
  \/ f.kind = "subscript" /\ PrefixedIn(q, f.node) /\ q[f.node] = "subscript"

(* Where a node that is returned to the method f goes, and that what was   *)
(* read behind n goes to nothing in front of n.                            *)
Under(q, f) == IF f.kind = "through" THEN ParentIn(q, f.node) ELSE f.node
Behind(q, n) == \A i \in (n + 1)..Len(q) : ParentIn(q, i) >= n

FrameOK(q, f) ==
  f.node \in 0..Len(q) /\ KindFits(q, f) /\ (f.kind # "through" => Behind(q, f.node))

(* Method g was called by f.                                               *)
CallOK(q, f, g) ==
  (IsPrefix(f) => g.node = f.node + 1) /\ ParentIn(q, g.node) = Under(q, f)

StackOK(q, fr) ==
  /\ fr # <<>> => fr[1].node = Statement
  /\ \A d \in 1..Len(fr) : FrameOK(q, fr[d])
  /\ \A d \in 1..Len(fr) : \A e \in 1..(d - 1) : fr[e].node < fr[d].node
  /\ \A d \in 1..(Len(fr) - 1) : CallOK(q, fr[d], fr[d + 1])

(* No prefix is in front of a subscript or of a closing opcode.            *)
ChainsOK(q) ==
  \A i \in 1..Len(q) : PrefixedIn(q, i - 1) => q[i] \notin Enders \cup {"subscript"}

TopOf(fr) == fr[Len(fr)]
PopOf(fr) == SubSeq(fr, 1, Len(fr) - 1)
Held(fr) == {fr[d].node : d \in 1..Len(fr)}

(* The stack as a tree: what is open is held, and everything behind it is  *)
(* deeper.                                                                 *)
Level(q, f) == DepthIn(q, f.node + 1)
NestOK(q, fr) ==
  /\ fr # <<>> => DepthIn(q, Len(q) + 1) = Level(q, TopOf(fr))
  /\ \A d \in 1..(Len(fr) - 1) : DepthIn(q, fr[d + 1].node) = Level(q, fr[d])
  /\ \A d \in 1..Len(fr) : \A k \in (fr[d].node + 1)..(Len(q) + 1) : DepthIn(q, k) >= Level(q, fr[d])
  /\ \A i \in 1..Len(q) : q[i] \in Openers /\ i \notin Held(fr) => ClosedIn(q, i)
  /\ \A i \in Held(fr) : ~ClosedIn(q, i)
  /\ fr = <<>> => ClosedIn(q, Statement)

PrefixesWhole(q, fr, g) ==
  \A i \in 1..Len(q) : PrefixedIn(q, i) /\ i \notin Held(fr) => WholeIn(q, g, i)

(* Behind an opener or a prefix nothing has been read, when its method     *)
(* reads.                                                                  *)
ReadsOn(q, fr, g) ==
  fr # <<>> =>
    /\ g
    /\ IsPrefix(TopOf(fr)) \/ KindIn(q, Len(q)) \in Openers \/ PrefixedIn(q, Len(q))
         => TopOf(fr).node = Len(q)

(* The token of the node that is returned, which goes to the method on top *)
(* or to what that is a prefix in.                                         *)
TokenOf(q, res) == IF res = Null THEN Len(q) ELSE res
Returned(q, fr, res, g) ==
  /\ fr # <<>>
  /\ TokenOf(q, res) \in 1..Len(q) /\ TopOf(fr).node < TokenOf(q, res)
  /\ q[TokenOf(q, res)] \in Nodes /\ (res = Null <=> q[TokenOf(q, res)] = "unknown")
  /\ q[Len(q)] \in Atoms \cup Enders
  /\ ParentIn(q, TokenOf(q, res)) = Under(q, TopOf(fr)) /\ Behind(q, TokenOf(q, res))
  /\ WholeIn(q, g, TokenOf(q, res))
  /\ IsPrefix(TopOf(fr)) => WholeIn(q, g, TopOf(fr).node)

Fits(q, fr, fs, res, g) ==
  /\ q \in Seq(Tokens) /\ fr \in Seq(FrameRecord)
  /\ fs \in BOOLEAN /\ g \in BOOLEAN /\ res \in {Reading, Null} \cup 1..Len(q)
  /\ ChainsOK(q) /\ StackOK(q, fr) /\ (fs <=> KindIn(q, Len(q)) \in Lists)
  /\ res = Reading => ReadsOn(q, fr, g)
  /\ res # Reading => Returned(q, fr, res, g)
  /\ ~g => \A d \in 1..Len(fr) : fr[d].kind \in {"args", "through"}
  /\ PrefixesWhole(q, fr, g)
  /\ g => NestOK(q, fr)

StackInv == Fits(stream, frames, fresh, result, good)

-----------------------------------------------------------------------------
(* Stacks.                                                                 *)
LEMMA FrameIs ==
  ASSUME NEW q \in Seq(Tokens), NEW f \in FrameRecord, FrameOK(q, f)
  PROVE  /\ f.node \in 0..Len(q)
         /\ IsPrefix(f) => f.node # 0 /\ PrefixedIn(q, f.node) /\ q[f.node] \in PrefixOps
         /\ ~IsPrefix(f) => /\ f.kind \in {"args", "object"}
                            /\ KindIn(q, f.node) \in Openers
                            /\ f.node # 0 => q[f.node] \in Openers /\ ~PrefixedIn(q, f.node)
         /\ f.kind = "args" => KindIn(q, f.node) \in Lists
         /\ f.kind = "object" => f.node # 0 /\ q[f.node] = "object"
         /\ f.kind = "through" => q[f.node] # "subscript" /\ Under(q, f) = ParentIn(q, f.node)
         /\ f.kind = "subscript" => q[f.node] = "subscript"
         /\ f.kind # "through" => Under(q, f) = f.node /\ Behind(q, f.node)
<1>1. f.node \in 0..Len(q) /\ KindFits(q, f) /\ f.kind \in {"args", "through", "object", "subscript"}
  BY DEF FrameOK, FrameRecord
<1>2. IsPrefix(f) => PrefixedIn(q, f.node)
  BY <1>1 DEF KindFits, IsPrefix
<1>3. PrefixedIn(q, f.node) => f.node # 0 /\ q[f.node] \in PrefixOps
  BY DEF PrefixedIn
<1>4. /\ f.kind = "args" => KindIn(q, f.node) \in Lists
      /\ f.kind = "object" => KindIn(q, f.node) = "object"
      /\ f.kind = "through" => q[f.node] # "subscript"
      /\ f.kind = "subscript" => q[f.node] = "subscript"
  BY <1>1 DEF KindFits
<1>5. ~IsPrefix(f) => f.kind \in {"args", "object"} /\ KindIn(q, f.node) \in Openers
  BY <1>1, <1>4, TokenSets DEF IsPrefix
<1>6. /\ f.node # 0 => KindIn(q, f.node) = q[f.node]
      /\ f.node = 0 => KindIn(q, f.node) = "call"
  BY DEF KindIn, Statement
<1>7. f.node # 0 /\ ~IsPrefix(f) => q[f.node] \in Openers /\ ~PrefixedIn(q, f.node)
  BY <1>3, <1>5, <1>6, TokenSets
<1>8. f.kind # "through" => Behind(q, f.node)
  BY DEF FrameOK
<1> QED BY <1>1, <1>2, <1>3, <1>4, <1>5, <1>6, <1>7, <1>8 DEF Under

LEMMA Front ==
  ASSUME NEW S, NEW s \in Seq(S), NEW k \in Nat, k <= Len(s)
  PROVE  /\ SubSeq(s, 1, k) \in Seq(S) /\ Len(SubSeq(s, 1, k)) = k
         /\ \A i \in 1..k : SubSeq(s, 1, k)[i] = s[i]
  OBVIOUS

LEMMA PopIs ==
  ASSUME NEW fr \in Seq(FrameRecord), fr # <<>>
  PROVE  /\ Len(fr) \in Nat \ {0} /\ PopOf(fr) \in Seq(FrameRecord)
         /\ Len(PopOf(fr)) = Len(fr) - 1 /\ \A d \in 1..(Len(fr) - 1) : PopOf(fr)[d] = fr[d]
         /\ PopOf(fr) = <<>> <=> Len(fr) = 1
         /\ TopOf(fr) \in FrameRecord /\ \A d \in 1..Len(fr) : fr[d] \in FrameRecord
<1>1. Len(fr) \in Nat \ {0} /\ \A d \in 1..Len(fr) : fr[d] \in FrameRecord
  OBVIOUS
<1>2. /\ PopOf(fr) \in Seq(FrameRecord) /\ Len(PopOf(fr)) = Len(fr) - 1
      /\ \A d \in 1..(Len(fr) - 1) : PopOf(fr)[d] = fr[d]
  <2>1. Len(fr) - 1 \in Nat /\ Len(fr) - 1 <= Len(fr)
    BY <1>1
  <2> QED BY <2>1, Front DEF PopOf
<1>3. PopOf(fr) = <<>> <=> Len(fr) = 1
  BY <1>1, <1>2
<1> QED BY <1>1, <1>2, <1>3 DEF TopOf

LEMMA HeldPop ==
  ASSUME NEW q, NEW fr \in Seq(FrameRecord), fr # <<>>, StackOK(q, fr)
  PROVE  /\ Held(PopOf(fr)) = Held(fr) \ {TopOf(fr).node}
         /\ TopOf(fr).node \in Held(fr) /\ Held(fr) \subseteq 0..TopOf(fr).node
         /\ TopOf(fr).node # 0 => PopOf(fr) # <<>> /\ Len(fr) > 1
         /\ TopOf(fr).node = 0 => PopOf(fr) = <<>> /\ Held(fr) = {0}
<1> DEFINE L == Len(fr)
           p == PopOf(fr)
<1>1. L \in Nat \ {0} /\ Len(p) = L - 1 /\ (\A d \in 1..(L - 1) : p[d] = fr[d])
      /\ (p = <<>> <=> L = 1) /\ \A d \in 1..L : fr[d] \in FrameRecord
  BY PopIs
<1>2. \A d \in 1..L : fr[d].node \in Nat
  BY <1>1 DEF FrameRecord
<1>3. \A d \in 1..L : \A e \in 1..(d - 1) : fr[e].node < fr[d].node
  BY DEF StackOK
<1>4. \A e \in 1..(L - 1) : fr[e].node < fr[L].node
  BY <1>1, <1>3
<1>5. fr[1].node = 0
  BY DEF StackOK, Statement
<1>6. TopOf(fr) = fr[L]
  BY DEF TopOf
<1> HIDE DEF L, p
<1>7. Held(p) = {fr[d].node : d \in 1..(L - 1)} /\ Held(fr) = {fr[d].node : d \in 1..L}
  BY <1>1 DEF Held, L
<1>8. \A d \in 1..L : d = L \/ d \in 1..(L - 1)
  BY <1>1
<1>9. \A d \in 1..(L - 1) : d \in 1..L
  BY <1>1
<1>10. L \in 1..L /\ 1 \in 1..L /\ (L # 1 => 1 \in 1..(L - 1))
  BY <1>1
<1>11. \A e \in 1..(L - 1) : fr[e].node # fr[L].node /\ fr[e].node \in 0..fr[L].node
  BY <1>2, <1>4, <1>9, <1>10
<1>12. Held(p) = Held(fr) \ {fr[L].node}
  BY <1>7, <1>8, <1>9, <1>11
<1>13. Held(fr) \subseteq 0..fr[L].node /\ fr[L].node \in Held(fr)
  <2>1. fr[L].node \in 0..fr[L].node
    BY <1>2, <1>10
  <2> QED BY <1>7, <1>8, <1>10, <1>11, <2>1
<1>14. fr[L].node # 0 => p # <<>> /\ L > 1
  BY <1>1, <1>5
<1>15. fr[L].node = 0 => p = <<>> /\ Held(fr) = {0}
  <2> SUFFICES ASSUME fr[L].node = 0 PROVE p = <<>> /\ Held(fr) = {0}
    OBVIOUS
  <2>1. L = 1
    BY <1>5, <1>10, <1>11
  <2>2. 1..L = {1}
    BY <2>1
  <2>3. Held(fr) = {fr[1].node}
    BY <1>7, <2>2
  <2> QED BY <1>1, <1>5, <2>1, <2>3
<1> QED BY <1>6, <1>12, <1>13, <1>14, <1>15 DEF L, p

LEMMA StackPop ==
  ASSUME NEW q, NEW fr \in Seq(FrameRecord), fr # <<>>, StackOK(q, fr)
  PROVE  /\ StackOK(q, PopOf(fr))
         /\ TopOf(fr).node # 0 =>
              /\ TopOf(PopOf(fr)).node < TopOf(fr).node
              /\ CallOK(q, TopOf(PopOf(fr)), TopOf(fr))
<1> DEFINE L == Len(fr)
           p == PopOf(fr)
<1>1. L \in Nat \ {0} /\ Len(p) = L - 1 /\ (\A d \in 1..(L - 1) : p[d] = fr[d])
      /\ (p = <<>> <=> L = 1)
  BY PopIs
<1>2. /\ \A d \in 1..(L - 1) : d \in 1..L
      /\ \A d \in 1..((L - 1) - 1) : d \in 1..(L - 1) /\ d + 1 \in 1..(L - 1)
      /\ \A d \in 1..(L - 1) : \A e \in 1..(d - 1) : e \in 1..(L - 1)
      /\ L # 1 => 1 \in 1..(L - 1)
  BY <1>1
<1>3. /\ fr[1].node = Statement
      /\ \A d \in 1..L : FrameOK(q, fr[d])
      /\ \A d \in 1..L : \A e \in 1..(d - 1) : fr[e].node < fr[d].node
      /\ \A d \in 1..(L - 1) : CallOK(q, fr[d], fr[d + 1])
  BY DEF StackOK
<1> HIDE DEF L, p
<1>4. p # <<>> => p[1].node = Statement
  BY <1>1, <1>2, <1>3
<1>5. \A d \in 1..(L - 1) : FrameOK(q, p[d])
  BY <1>1, <1>2, <1>3
<1>6. \A d \in 1..(L - 1) : \A e \in 1..(d - 1) : p[e].node < p[d].node
  BY <1>1, <1>2, <1>3
<1>7. \A d \in 1..((L - 1) - 1) : CallOK(q, p[d], p[d + 1])
  BY <1>1, <1>2, <1>3
<1>8. StackOK(q, p)
  BY <1>1, <1>4, <1>5, <1>6, <1>7 DEF StackOK
<1>9. ASSUME TopOf(fr).node # 0
      PROVE  TopOf(p).node < TopOf(fr).node /\ CallOK(q, TopOf(p), TopOf(fr))
  <2>1. L > 1
    BY <1>9, HeldPop DEF L
  <2>2. L - 1 \in 1..(L - 1) /\ L \in 1..L /\ (L - 1) + 1 = L
    BY <1>1, <2>1
  <2>3. TopOf(p) = fr[L - 1] /\ TopOf(fr) = fr[L]
    BY <1>1, <2>2 DEF TopOf, L
  <2>4. fr[L - 1].node < fr[L].node
    BY <1>3, <2>2
  <2>5. CallOK(q, fr[L - 1], fr[(L - 1) + 1])
    BY <1>3, <2>2
  <2> QED BY <2>2, <2>3, <2>4, <2>5
<1> QED BY <1>8, <1>9 DEF p

LEMMA StackPush ==
  ASSUME NEW q \in Seq(Tokens), NEW fr \in Seq(FrameRecord), fr # <<>>, StackOK(q, fr),
         Held(fr) \subseteq 0..(Len(q) - 1),
         NEW x \in FrameRecord, x.node = Len(q), FrameOK(q, x), CallOK(q, TopOf(fr), x)
  PROVE  StackOK(q, Append(fr, x))
<1> DEFINE L == Len(fr)
           p == Append(fr, x)
<1>1. L \in Nat \ {0} /\ Len(p) = L + 1 /\ (\A d \in 1..L : p[d] = fr[d]) /\ p[L + 1] = x
      /\ p # <<>>
  OBVIOUS
<1>2. \A d \in 1..(L + 1) : d = L + 1 \/ d \in 1..L
  BY <1>1
<1>3. /\ \A d \in 1..(L + 1) : \A e \in 1..(d - 1) : e \in 1..L
      /\ 1 \in 1..L
      /\ \A d \in 1..((L + 1) - 1) : d \in 1..L /\ (d = L \/ (d \in 1..(L - 1) /\ d + 1 \in 1..L))
  BY <1>1
<1>4. /\ fr[1].node = Statement
      /\ \A d \in 1..L : FrameOK(q, fr[d])
      /\ \A d \in 1..L : \A e \in 1..(d - 1) : fr[e].node < fr[d].node
      /\ \A d \in 1..(L - 1) : CallOK(q, fr[d], fr[d + 1])
  BY DEF StackOK
<1>5. \A d \in 1..L : fr[d].node < x.node
  <2>1. \A d \in 1..L : fr[d].node \in Held(fr)
    BY DEF Held
  <2>2. Len(q) \in Nat
    OBVIOUS
  <2> HIDE DEF L
  <2> QED BY <2>1, <2>2
<1>6. TopOf(fr) = fr[L]
  BY DEF TopOf
<1> HIDE DEF L, p
<1>7. \A d \in 1..(L + 1) : FrameOK(q, p[d])
  BY <1>1, <1>2, <1>4
<1>8. ASSUME NEW d \in 1..(L + 1), NEW e \in 1..(d - 1) PROVE p[e].node < p[d].node
  <2>1. e \in 1..L /\ p[e] = fr[e]
    BY <1>1, <1>3
  <2>2. CASE d = L + 1
    BY <1>1, <1>5, <2>1, <2>2
  <2>3. CASE d \in 1..L
    BY <1>1, <1>4, <2>1, <2>3
  <2> QED BY <1>2, <2>2, <2>3
<1>9. ASSUME NEW d \in 1..((L + 1) - 1) PROVE CallOK(q, p[d], p[d + 1])
  <2>1. CASE d = L
    BY <1>1, <1>3, <1>6, <2>1
  <2>2. CASE d \in 1..(L - 1) /\ d + 1 \in 1..L
    BY <1>1, <1>3, <1>4, <2>2
  <2> QED BY <1>3, <2>1, <2>2
<1>10. p[1].node = Statement
  BY <1>1, <1>3, <1>4
<1> QED BY <1>1, <1>7, <1>8, <1>9, <1>10 DEF StackOK, p

LEMMA HeldPush ==
  ASSUME NEW fr \in Seq(FrameRecord), NEW x \in FrameRecord
  PROVE  /\ Append(fr, x) \in Seq(FrameRecord) /\ Append(fr, x) # <<>>
         /\ Len(fr) \in Nat /\ Len(Append(fr, x)) = Len(fr) + 1
         /\ TopOf(Append(fr, x)) = x /\ (\A d \in 1..Len(fr) : Append(fr, x)[d] = fr[d])
         /\ Held(Append(fr, x)) = Held(fr) \cup {x.node}
<1> DEFINE L == Len(fr)
           p == Append(fr, x)
<1>1. p \in Seq(FrameRecord) /\ p # <<>> /\ L \in Nat /\ Len(p) = L + 1
      /\ (\A d \in 1..L : p[d] = fr[d]) /\ p[L + 1] = x
  OBVIOUS
<1> HIDE DEF L, p
<1>2. \A d \in 1..(L + 1) : d = L + 1 \/ d \in 1..L
  BY <1>1
<1>3. L + 1 \in 1..(L + 1) /\ \A d \in 1..L : d \in 1..(L + 1)
  BY <1>1
<1>4. Held(p) = {p[d].node : d \in 1..(L + 1)} /\ Held(fr) = {fr[d].node : d \in 1..L}
  BY <1>1 DEF Held, L
<1>5. Held(p) = Held(fr) \cup {x.node}
  BY <1>1, <1>2, <1>3, <1>4
<1> QED BY <1>1, <1>5 DEF TopOf, L, p

-----------------------------------------------------------------------------
(* A byte is read with the method on top.                                  *)
Reads(q, fr) ==
  /\ q \in Seq(Tokens) /\ fr \in Seq(FrameRecord) /\ fr # <<>>
  /\ ChainsOK(q) /\ StackOK(q, fr) /\ ReadsOn(q, fr, TRUE)
  /\ PrefixesWhole(q, fr, TRUE) /\ NestOK(q, fr)

(* The next node goes to the method on top.                                *)
LEMMA ReadsTop ==
  ASSUME NEW q, NEW fr, Reads(q, fr)
  PROVE  /\ TopOf(fr) \in FrameRecord /\ FrameOK(q, TopOf(fr)) /\ Len(q) \in Nat
         /\ IsPrefix(TopOf(fr)) => TopOf(fr).node = Len(q) /\ PrefixedIn(q, Len(q))
         /\ ~IsPrefix(TopOf(fr)) =>
              ~PrefixedIn(q, Len(q)) /\ OwnerIn(q, Len(q) + 1) = TopOf(fr).node
         /\ ParentIn(q, Len(q) + 1) = Under(q, TopOf(fr))
<1> DEFINE n == Len(q)
           top == TopOf(fr)
<1>1. /\ q \in Seq(Tokens) /\ n \in Nat /\ fr \in Seq(FrameRecord) /\ fr # <<>>
      /\ Len(fr) \in Nat \ {0} /\ top \in FrameRecord
  BY PopIs DEF Reads
<1>2. FrameOK(q, top)
  <2>1. Len(fr) \in 1..Len(fr)
    BY <1>1
  <2> QED BY <2>1 DEF Reads, StackOK, TopOf
<1>3. ReadsOn(q, fr, TRUE) /\ ChainsOK(q) /\ NestOK(q, fr)
  BY DEF Reads
<1> HIDE DEF n, top
<1>4. /\ top.node \in 0..n
      /\ IsPrefix(top) => top.node # 0 /\ PrefixedIn(q, top.node) /\ q[top.node] \in PrefixOps
      /\ ~IsPrefix(top) /\ top.node # 0 => q[top.node] \in Openers /\ ~PrefixedIn(q, top.node)
      /\ top.kind = "through" => q[top.node] # "subscript" /\ Under(q, top) = ParentIn(q, top.node)
      /\ top.kind = "subscript" => q[top.node] = "subscript"
      /\ top.kind # "through" => Under(q, top) = top.node
  BY <1>1, <1>2, FrameIs DEF n
<1>5. /\ IsPrefix(top) => top.node = n
      /\ PrefixedIn(q, n) => top.node = n
  BY <1>1, <1>3 DEF ReadsOn, n, top
<1>6. ASSUME IsPrefix(top)
      PROVE  top.node = n /\ PrefixedIn(q, n) /\ ParentIn(q, n + 1) = Under(q, top)
  <2>1. top.node = n /\ PrefixedIn(q, n) /\ n # 0
    BY <1>4, <1>5, <1>6
  <2>2. CASE top.kind = "through"
    <3>1. ParentIn(q, n + 1) = ParentIn(q, n)
      BY <1>1, <1>4, <2>1, <2>2, ParentStep
    <3> QED BY <1>4, <2>1, <2>2, <3>1
  <2>3. CASE top.kind = "subscript"
    <3>1. q[n] = "subscript" /\ n \in 1..n
      BY <1>1, <1>4, <2>1, <2>3
    <3>2. ~PrefixedIn(q, n - 1)
      BY <1>3, <3>1 DEF ChainsOK, n
    <3>3. ParentIn(q, n + 1) = n
      BY <1>1, <2>1, <3>1, <3>2, ParentStep
    <3> QED BY <1>4, <2>1, <2>3, <3>3
  <2> QED BY <1>6, <2>1, <2>2, <2>3 DEF IsPrefix
<1>7. ASSUME ~IsPrefix(top)
      PROVE  ~PrefixedIn(q, n) /\ OwnerIn(q, n + 1) = top.node /\ ParentIn(q, n + 1) = Under(q, top)
  <2>1. ~PrefixedIn(q, n)
    <3>1. CASE n = 0
      BY <3>1 DEF PrefixedIn
    <3>2. CASE n # 0
      BY <1>4, <1>5, <1>7, <3>2
    <3> QED BY <3>1, <3>2
  <2>2. /\ DepthIn(q, n + 1) = DepthIn(q, top.node + 1)
        /\ \A k \in (top.node + 1)..(n + 1) : DepthIn(q, k) >= DepthIn(q, top.node + 1)
    <3>1. Len(fr) \in 1..Len(fr)
      BY <1>1
    <3> QED BY <1>1, <1>3, <3>1 DEF NestOK, Level, n, top, TopOf
  <2>3. top.node \in 0..((n + 1) - 1) /\ n + 1 \in Nat \ {0}
    BY <1>1, <1>4
  <2>4. OwnerIn(q, n + 1) = top.node
    BY <1>4, <1>7, <2>2, <2>3, OwnerIs
  <2>5. ParentIn(q, n + 1) = OwnerIn(q, n + 1)
    BY <1>1, <2>1, ParentStep
  <2>6. top.kind # "through"
    BY <1>7 DEF IsPrefix
  <2> QED BY <1>4, <2>1, <2>4, <2>5, <2>6
<1> QED BY <1>1, <1>2, <1>6, <1>7 DEF n, top

LEMMA FrameGrows ==
  ASSUME NEW q \in Seq(Tokens), NEW t \in Tokens, NEW f \in FrameRecord, FrameOK(q, f),
         f.kind # "through" => ParentIn(q, Len(q) + 1) >= f.node
  PROVE  FrameOK(Append(q, t), f) /\ Under(Append(q, t), f) = Under(q, f)
<1> DEFINE r == Append(q, t)
           n == Len(q)
<1>1. n \in Nat /\ Len(r) = n + 1 /\ \A k \in 1..n : r[k] = q[k]
  BY AppendIs
<1>2. f.node \in 0..n /\ (IsPrefix(f) => f.node # 0)
  BY FrameIs
<1> HIDE DEF r
<1>3. /\ \A i \in 0..n : KindIn(r, i) = KindIn(q, i) /\ PrefixedIn(r, i) = PrefixedIn(q, i)
      /\ \A i \in 1..(n + 1) : ParentIn(r, i) = ParentIn(q, i)
  BY <1>1, LooksSame
<1> HIDE DEF n
<1>4. KindFits(r, f)
  <2>1. KindIn(r, f.node) = KindIn(q, f.node) /\ PrefixedIn(r, f.node) = PrefixedIn(q, f.node)
    BY <1>2, <1>3
  <2>2. IsPrefix(f) => r[f.node] = q[f.node]
    BY <1>1, <1>2
  <2>3. KindFits(q, f)
    BY DEF FrameOK
  <2> QED BY <2>1, <2>2, <2>3 DEF KindFits, IsPrefix
<1>5. ASSUME f.kind # "through" PROVE Behind(r, f.node)
  <2>1. \A i \in (f.node + 1)..n : ParentIn(q, i) >= f.node
    BY <1>5 DEF FrameOK, Behind, n
  <2>2. ParentIn(q, n + 1) >= f.node
    BY <1>5 DEF n
  <2>3. \A i \in (f.node + 1)..(n + 1) : i \in 1..(n + 1) /\ (i = n + 1 \/ i \in (f.node + 1)..n)
    BY <1>1, <1>2
  <2>4. \A i \in (f.node + 1)..(n + 1) : ParentIn(r, i) >= f.node
    BY <1>3, <2>1, <2>2, <2>3
  <2> QED BY <1>1, <2>4 DEF Behind
<1>6. Under(r, f) = Under(q, f)
  <2>1. f.kind = "through" => f.node \in 1..(n + 1)
    BY <1>1, <1>2 DEF IsPrefix
  <2> QED BY <1>3, <2>1 DEF Under
<1>7. f.node \in 0..Len(r)
  BY <1>1, <1>2
<1> QED BY <1>4, <1>5, <1>6, <1>7 DEF FrameOK, r

LEMMA StackGrows ==
  ASSUME NEW q, NEW fr, Reads(q, fr), NEW t \in Tokens
  PROVE  /\ StackOK(Append(q, t), fr)
         /\ ParentIn(Append(q, t), Len(q) + 1) = Under(Append(q, t), TopOf(fr))
<1> DEFINE r == Append(q, t)
           n == Len(q)
           L == Len(fr)
<1>1. /\ q \in Seq(Tokens) /\ n \in Nat /\ fr \in Seq(FrameRecord) /\ fr # <<>> /\ L \in Nat \ {0}
      /\ \A d \in 1..L : fr[d] \in FrameRecord
  BY PopIs DEF Reads
<1>2. /\ StackOK(q, fr)
      /\ fr[1].node = Statement
      /\ \A d \in 1..L : FrameOK(q, fr[d])
      /\ \A d \in 1..L : \A e \in 1..(d - 1) : fr[e].node < fr[d].node
      /\ \A d \in 1..(L - 1) : CallOK(q, fr[d], fr[d + 1])
  BY <1>1 DEF Reads, StackOK
<1>3. ParentIn(q, n + 1) = Under(q, fr[L])
  BY ReadsTop DEF TopOf
<1>4. Len(r) = n + 1 /\ \A k \in 1..n : r[k] = q[k]
  BY <1>1, AppendIs
<1>5. \A i \in 1..(n + 1) : ParentIn(r, i) = ParentIn(q, i)
  <2> HIDE DEF r, n
  <2> QED BY <1>1, <1>4, LooksSame
<1> HIDE DEF r, n, L
<1>6. ASSUME NEW d \in 1..L, fr[d].kind # "through"
      PROVE  ParentIn(q, n + 1) >= fr[d].node
  <2>1. fr[d] \in FrameRecord /\ FrameOK(q, fr[d]) /\ L \in 1..L /\ fr[L] \in FrameRecord /\ FrameOK(q, fr[L])
    BY <1>1, <1>2
  <2>2. fr[d].node \in 0..n /\ Under(q, fr[d]) = fr[d].node /\ Behind(q, fr[d].node)
    BY <1>1, <1>6, <2>1, FrameIs DEF n
  <2>3. d = L \/ d \in 1..(L - 1)
    BY <1>1
  <2>4. CASE d = L
    BY <1>1, <1>3, <2>2, <2>4
  <2>5. CASE d \in 1..(L - 1)
    <3>1. fr[d].node < fr[L].node
      BY <1>2, <2>1, <2>5
    <3>2. fr[L].node \in 0..n
      BY <1>1, <2>1, FrameIs DEF n
    <3>3. CASE fr[L].kind = "through"
      <4>1. fr[L].node \in (fr[d].node + 1)..n
        BY <1>1, <2>2, <3>1, <3>2
      <4>2. ParentIn(q, fr[L].node) >= fr[d].node
        BY <2>2, <4>1 DEF Behind, n
      <4> QED BY <1>3, <3>3, <4>2 DEF Under
    <3>4. CASE fr[L].kind # "through"
      BY <1>3, <2>2, <3>1, <3>2, <3>4 DEF Under
    <3> QED BY <3>3, <3>4
  <2> QED BY <2>3, <2>4, <2>5
<1>7. ASSUME NEW d \in 1..L PROVE FrameOK(r, fr[d]) /\ Under(r, fr[d]) = Under(q, fr[d])
  <2>1. fr[d] \in FrameRecord /\ FrameOK(q, fr[d])
    BY <1>1, <1>2
  <2>2. fr[d].kind # "through" => ParentIn(q, n + 1) >= fr[d].node
    BY <1>6
  <2> QED BY <1>1, <2>1, <2>2, FrameGrows DEF r, n
<1>8. ASSUME NEW d \in 1..(L - 1) PROVE CallOK(r, fr[d], fr[d + 1])
  <2>1. d \in 1..L /\ d + 1 \in 1..L /\ d \in 1..((d + 1) - 1)
    BY <1>1
  <2>2. fr[d].node < fr[d + 1].node
    BY <1>2, <2>1
  <2>3. fr[d + 1].node \in 0..n /\ fr[d].node \in 0..n
    BY <1>1, <1>2, <2>1, FrameIs DEF n
  <2>4. fr[d + 1].node \in 1..(n + 1)
    BY <1>1, <2>2, <2>3, SMTT(30)
  <2>5. CallOK(q, fr[d], fr[d + 1])
    BY <1>2
  <2> QED BY <1>5, <1>7, <2>1, <2>4, <2>5 DEF CallOK
<1>9. StackOK(r, fr)
  BY <1>2, <1>7, <1>8 DEF StackOK, L
<1>10. ParentIn(r, n + 1) = Under(r, TopOf(fr))
  <2>1. L \in 1..L /\ n + 1 \in 1..(n + 1)
    BY <1>1
  <2> QED BY <1>3, <1>5, <1>7, <2>1 DEF TopOf, L
<1> QED BY <1>9, <1>10 DEF r, n

LEMMA ChainsGrow ==
  ASSUME NEW q \in Seq(Tokens), NEW t \in Tokens, ChainsOK(q),
         PrefixedIn(q, Len(q)) => t \notin Enders \cup {"subscript"}
  PROVE  ChainsOK(Append(q, t))
<1> DEFINE r == Append(q, t)
           n == Len(q)
<1>1. n \in Nat /\ Len(r) = n + 1 /\ r[n + 1] = t /\ \A k \in 1..n : r[k] = q[k]
  BY AppendIs
<1> HIDE DEF r
<1>2. \A i \in 0..n : PrefixedIn(r, i) = PrefixedIn(q, i)
  BY <1>1, LooksSame
<1> SUFFICES ASSUME NEW i \in 1..(n + 1), PrefixedIn(r, i - 1)
             PROVE  r[i] \notin Enders \cup {"subscript"}
  BY <1>1 DEF ChainsOK, r
<1>3. i - 1 \in 0..n /\ (i = n + 1 \/ i \in 1..n)
  BY <1>1
<1>4. PrefixedIn(q, i - 1)
  BY <1>2, <1>3
<1>5. CASE i = n + 1
  <2>1. i - 1 = n
    BY <1>1, <1>5
  <2> QED BY <1>1, <1>4, <1>5, <2>1
<1>6. CASE i \in 1..n
  BY <1>1, <1>4, <1>6 DEF ChainsOK
<1> QED BY <1>3, <1>5, <1>6

(* A prefix is complete, unless its method is in progress.                 *)
LEMMA PrefixesGrow ==
  ASSUME NEW q \in Seq(Tokens), NEW t \in Tokens, NEW fr, NEW p, NEW g,
         PrefixesWhole(q, fr, g),
         \A i \in 1..Len(q) : i \in Held(fr) /\ i \notin Held(p) => ~PrefixedIn(q, i),
         PrefixedIn(Append(q, t), Len(q) + 1) => Len(q) + 1 \in Held(p)
  PROVE  PrefixesWhole(Append(q, t), p, g)
<1> DEFINE r == Append(q, t)
           n == Len(q)
<1>1. n \in Nat /\ Len(r) = n + 1 /\ \A k \in 1..n : r[k] = q[k]
  BY AppendIs
<1>2. \A i \in 1..n : WholeIn(q, g, i) => WholeIn(r, g, i)
  BY WholeGrows
<1> HIDE DEF r
<1>3. \A i \in 0..n : PrefixedIn(r, i) = PrefixedIn(q, i)
  BY <1>1, LooksSame
<1> SUFFICES ASSUME NEW i \in 1..(n + 1), PrefixedIn(r, i), i \notin Held(p)
             PROVE  WholeIn(r, g, i)
  BY <1>1 DEF PrefixesWhole, r
<1>4. i \in 1..n /\ i \in 0..n
  BY <1>1 DEF r
<1> HIDE DEF n
<1>5. PrefixedIn(q, i)
  BY <1>3, <1>4
<1> QED BY <1>2, <1>4, <1>5 DEF PrefixesWhole, n

(* The depths that NestOK speaks of.                                       *)
LEMMA NestGrows ==
  ASSUME NEW q, NEW fr, Reads(q, fr), NEW t \in Tokens
  PROVE  /\ Len(Append(q, t)) = Len(q) + 1 /\ DepthIn(q, Len(q) + 1) \in Int
         /\ \A k \in 1..(Len(q) + 1) : DepthIn(Append(q, t), k) = DepthIn(q, k)
         /\ \A d \in 1..Len(fr) :
              /\ fr[d].node \in 0..Len(q) /\ Level(Append(q, t), fr[d]) = Level(q, fr[d])
              /\ Level(q, fr[d]) <= DepthIn(q, Len(q) + 1) /\ Level(q, fr[d]) \in Int
              /\ \A k \in (fr[d].node + 1)..(Len(q) + 1) : DepthIn(Append(q, t), k) >= Level(q, fr[d])
         /\ \A d \in 1..(Len(fr) - 1) : DepthIn(Append(q, t), fr[d + 1].node) = Level(q, fr[d])
         /\ t \in Openers => DepthIn(Append(q, t), Len(q) + 2) = DepthIn(q, Len(q) + 1) + 1
         /\ t \in Enders => DepthIn(Append(q, t), Len(q) + 2) = DepthIn(q, Len(q) + 1) - 1
         /\ t \notin Openers \cup Enders => DepthIn(Append(q, t), Len(q) + 2) = DepthIn(q, Len(q) + 1)
<1> DEFINE r == Append(q, t)
           n == Len(q)
           L == Len(fr)
<1>1. /\ q \in Seq(Tokens) /\ n \in Nat /\ fr \in Seq(FrameRecord) /\ L \in Nat \ {0}
      /\ \A d \in 1..L : fr[d] \in FrameRecord
  BY PopIs DEF Reads
<1>2. /\ \A d \in 1..L : FrameOK(q, fr[d])
      /\ \A d \in 1..L : \A e \in 1..(d - 1) : fr[e].node < fr[d].node
  BY DEF Reads, StackOK
<1>3. /\ \A d \in 1..(L - 1) : DepthIn(q, fr[d + 1].node) = Level(q, fr[d])
      /\ \A d \in 1..L : \A k \in (fr[d].node + 1)..(n + 1) : DepthIn(q, k) >= Level(q, fr[d])
  BY DEF Reads, NestOK
<1>4. Len(r) = n + 1 /\ r[n + 1] = t /\ \A k \in 1..n : r[k] = q[k]
  BY <1>1, AppendIs
<1> HIDE DEF r
<1>5. \A k \in 1..(n + 1) : DepthIn(r, k) = DepthIn(q, k)
  BY <1>1, <1>4, LooksSame
<1> HIDE DEF n, L
<1>6. \A d \in 1..L : fr[d].node \in 0..n
  BY <1>2 DEF FrameOK, n
<1>7. ASSUME NEW d \in 1..L
      PROVE  /\ Level(r, fr[d]) = Level(q, fr[d]) /\ Level(q, fr[d]) \in Int
             /\ Level(q, fr[d]) <= DepthIn(q, n + 1)
             /\ \A k \in (fr[d].node + 1)..(n + 1) : DepthIn(r, k) >= Level(q, fr[d])
  <2>1. /\ fr[d].node + 1 \in 1..(n + 1) /\ fr[d].node + 1 \in Nat
        /\ n + 1 \in (fr[d].node + 1)..(n + 1)
        /\ \A k \in (fr[d].node + 1)..(n + 1) : k \in 1..(n + 1)
    BY <1>1, <1>6
  <2>2. Level(r, fr[d]) = Level(q, fr[d])
    BY <1>5, <2>1 DEF Level
  <2>3. Level(q, fr[d]) \in Int /\ DepthIn(q, n + 1) \in Int
    BY <1>1, <2>1, DepthType DEF Level
  <2>4. DepthIn(q, n + 1) >= Level(q, fr[d])
    BY <1>3, <2>1
  <2>5. \A k \in (fr[d].node + 1)..(n + 1) : DepthIn(r, k) >= Level(q, fr[d])
    BY <1>3, <1>5, <2>1
  <2> QED BY <2>2, <2>3, <2>4, <2>5
<1>8. ASSUME NEW d \in 1..(L - 1) PROVE DepthIn(r, fr[d + 1].node) = Level(q, fr[d])
  <2>1. d \in 1..L /\ d + 1 \in 1..L /\ d \in 1..((d + 1) - 1)
    BY <1>1
  <2>2. fr[d].node < fr[d + 1].node
    BY <1>2, <2>1
  <2>3. fr[d + 1].node \in 1..(n + 1)
    BY <1>1, <1>6, <2>1, <2>2
  <2> QED BY <1>3, <1>5, <2>3
<1>9. /\ t \in Openers => DepthIn(r, n + 2) = DepthIn(q, n + 1) + 1
      /\ t \in Enders => DepthIn(r, n + 2) = DepthIn(q, n + 1) - 1
      /\ t \notin Openers \cup Enders => DepthIn(r, n + 2) = DepthIn(q, n + 1)
  <2>1. n + 1 \in Nat \ {0} /\ (n + 1) + 1 = n + 2 /\ n + 1 \in 1..(n + 1)
    BY <1>1
  <2>2. DepthIn(r, n + 1) = DepthIn(q, n + 1)
    BY <1>5, <2>1
  <2>3. /\ r[n + 1] \in Openers => DepthIn(r, (n + 1) + 1) = DepthIn(r, n + 1) + 1
        /\ r[n + 1] \in Enders => DepthIn(r, (n + 1) + 1) = DepthIn(r, n + 1) - 1
        /\ r[n + 1] \notin Openers \cup Enders => DepthIn(r, (n + 1) + 1) = DepthIn(r, n + 1)
    BY <2>1, DepthStep
  <2> QED BY <1>4, <2>1, <2>2, <2>3
<1>10. DepthIn(q, n + 1) \in Int
  BY <1>1, DepthType
<1> QED BY <1>4, <1>5, <1>6, <1>7, <1>8, <1>9, <1>10 DEF r, n, L

(* An opcode that neither opens nor closes.                                *)
LEMMA NestKeep ==
  ASSUME NEW q, NEW fr, Reads(q, fr), NEW t \in Tokens, t \notin Openers, t \notin Enders
  PROVE  NestOK(Append(q, t), fr)
<1> DEFINE r == Append(q, t)
           n == Len(q)
           L == Len(fr)
<1>1. /\ q \in Seq(Tokens) /\ n \in Nat /\ fr # <<>> /\ L \in Nat \ {0} /\ NestOK(q, fr)
  BY PopIs DEF Reads
<1>2. /\ Len(r) = n + 1 /\ DepthIn(q, n + 1) \in Int
      /\ \A d \in 1..L :
           /\ fr[d].node \in 0..n /\ Level(r, fr[d]) = Level(q, fr[d])
           /\ Level(q, fr[d]) <= DepthIn(q, n + 1)
           /\ \A k \in (fr[d].node + 1)..(n + 1) : DepthIn(r, k) >= Level(q, fr[d])
      /\ \A d \in 1..(L - 1) : DepthIn(r, fr[d + 1].node) = Level(q, fr[d])
      /\ t \notin Openers \cup Enders => DepthIn(r, n + 2) = DepthIn(q, n + 1)
  <2>1. /\ Len(Append(q, t)) = Len(q) + 1 /\ DepthIn(q, Len(q) + 1) \in Int
        /\ \A d \in 1..Len(fr) :
             /\ fr[d].node \in 0..Len(q) /\ Level(Append(q, t), fr[d]) = Level(q, fr[d])
             /\ Level(q, fr[d]) <= DepthIn(q, Len(q) + 1)
             /\ \A k \in (fr[d].node + 1)..(Len(q) + 1) : DepthIn(Append(q, t), k) >= Level(q, fr[d])
        /\ \A d \in 1..(Len(fr) - 1) : DepthIn(Append(q, t), fr[d + 1].node) = Level(q, fr[d])
        /\ t \notin Openers \cup Enders => DepthIn(Append(q, t), Len(q) + 2) = DepthIn(q, Len(q) + 1)
    BY NestGrows
  <2> QED BY <2>1
<1>3. r[n + 1] = t /\ \A k \in 1..n : r[k] = q[k]
  BY <1>1, AppendIs
<1>4. \A i \in 0..n : ClosedIn(r, i) <=> ClosedIn(q, i)
  BY <1>1, ClosedGrows
<1> HIDE DEF r, n, L
<1>5. DepthIn(r, Len(r) + 1) = Level(r, TopOf(fr))
  <2>1. DepthIn(q, n + 1) = Level(q, fr[L])
    BY <1>1 DEF NestOK, n, L, TopOf
  <2>2. L \in 1..L /\ (n + 1) + 1 = n + 2
    BY <1>1
  <2>3. DepthIn(r, n + 2) = DepthIn(q, n + 1)
    BY <1>2
  <2> QED BY <1>2, <2>1, <2>2, <2>3 DEF TopOf, L
<1>6. \A d \in 1..(L - 1) : DepthIn(r, fr[d + 1].node) = Level(r, fr[d])
  <2>1. \A d \in 1..(L - 1) : d \in 1..L
    BY <1>1
  <2> QED BY <1>2, <2>1
<1>7. \A d \in 1..L : \A k \in (fr[d].node + 1)..(Len(r) + 1) : DepthIn(r, k) >= Level(r, fr[d])
  <2>1. \A d \in 1..L : \A k \in (fr[d].node + 1)..(n + 2) : k = n + 2 \/ k \in (fr[d].node + 1)..(n + 1)
    BY <1>1, <1>2
  <2>2. (n + 1) + 1 = n + 2
    BY <1>1
  <2> QED BY <1>2, <2>1, <2>2
<1>8. \A i \in 1..(n + 1) : r[i] \in Openers /\ i \notin Held(fr) => ClosedIn(r, i)
  <2>1. \A i \in 1..(n + 1) : i = n + 1 \/ (i \in 1..n /\ i \in 0..n)
    BY <1>1
  <2>2. \A i \in 1..n : q[i] \in Openers /\ i \notin Held(fr) => ClosedIn(q, i)
    BY <1>1 DEF NestOK, n
  <2> QED BY <1>3, <1>4, <2>1, <2>2
<1>9. \A i \in Held(fr) : ~ClosedIn(r, i)
  <2>1. \A i \in Held(fr) : i \in 0..n
    BY <1>2 DEF Held, L
  <2> QED BY <1>1, <1>4, <2>1 DEF NestOK
<1> QED BY <1>1, <1>2, <1>5, <1>6, <1>7, <1>8, <1>9 DEF NestOK, r, L

(* A token with a method of its own.                                       *)
LEMMA NestPush ==
  ASSUME NEW q, NEW fr, Reads(q, fr), NEW t \in Tokens, t \notin Enders,
         NEW x \in FrameRecord, x.node = Len(q) + 1
  PROVE  NestOK(Append(q, t), Append(fr, x))
<1> DEFINE r == Append(q, t)
           n == Len(q)
           L == Len(fr)
           p == Append(fr, x)
<1>1. /\ q \in Seq(Tokens) /\ n \in Nat /\ fr # <<>> /\ L \in Nat \ {0} /\ NestOK(q, fr)
      /\ fr \in Seq(FrameRecord)
  BY PopIs DEF Reads
<1>2. /\ Len(r) = n + 1 /\ DepthIn(q, n + 1) \in Int
      /\ \A k \in 1..(n + 1) : DepthIn(r, k) = DepthIn(q, k)
      /\ \A d \in 1..L :
           /\ fr[d].node \in 0..n /\ Level(r, fr[d]) = Level(q, fr[d])
           /\ Level(q, fr[d]) <= DepthIn(q, n + 1) /\ Level(q, fr[d]) \in Int
           /\ \A k \in (fr[d].node + 1)..(n + 1) : DepthIn(r, k) >= Level(q, fr[d])
      /\ \A d \in 1..(L - 1) : DepthIn(r, fr[d + 1].node) = Level(q, fr[d])
      /\ t \in Openers => DepthIn(r, n + 2) = DepthIn(q, n + 1) + 1
      /\ t \notin Openers \cup Enders => DepthIn(r, n + 2) = DepthIn(q, n + 1)
  BY NestGrows
<1>3. r[n + 1] = t /\ \A k \in 1..n : r[k] = q[k]
  BY <1>1, AppendIs
<1>4. \A i \in 0..n : ClosedIn(r, i) <=> ClosedIn(q, i)
  BY <1>1, ClosedGrows
<1>5. /\ p # <<>> /\ Len(p) = L + 1 /\ TopOf(p) = x /\ p[L + 1] = x
      /\ (\A d \in 1..L : p[d] = fr[d]) /\ Held(p) = Held(fr) \cup {n + 1}
  <2>1. Len(p) = L + 1 /\ TopOf(p) = x
    BY <1>1, HeldPush
  <2> QED BY <1>1, <2>1, HeldPush DEF TopOf
<1> HIDE DEF r, n, L, p
<1>6. x.node = n + 1 /\ (n + 1) + 1 = n + 2
  BY <1>1 DEF n
<1>7. DepthIn(r, n + 2) >= DepthIn(q, n + 1) /\ DepthIn(r, n + 2) \in Int
  BY <1>2
<1>8. DepthIn(r, Len(r) + 1) = Level(r, TopOf(p))
  BY <1>2, <1>5, <1>6 DEF Level
<1>9. ASSUME NEW d \in 1..((L + 1) - 1) PROVE DepthIn(r, p[d + 1].node) = Level(r, p[d])
  <2>1. d \in 1..L /\ (d = L \/ (d \in 1..(L - 1) /\ d + 1 \in 1..L)) /\ n + 1 \in 1..(n + 1)
    BY <1>1
  <2>2. CASE d = L
    <3>1. DepthIn(q, n + 1) = Level(q, fr[L])
      BY <1>1 DEF NestOK, n, L, TopOf
    <3> QED BY <1>2, <1>5, <1>6, <2>1, <2>2, <3>1
  <2>3. CASE d \in 1..(L - 1) /\ d + 1 \in 1..L
    BY <1>2, <1>5, <2>1, <2>3
  <2> QED BY <2>1, <2>2, <2>3
<1>10. ASSUME NEW d \in 1..(L + 1), NEW k \in (p[d].node + 1)..(n + 2)
       PROVE  DepthIn(r, k) >= Level(r, p[d])
  <2>1. d = L + 1 \/ d \in 1..L
    BY <1>1
  <2>2. CASE d = L + 1
    <3>1. k = n + 2
      BY <1>1, <1>5, <1>6, <2>2
    <3>2. Level(r, p[d]) = DepthIn(r, n + 2)
      BY <1>5, <1>6, <2>2 DEF Level
    <3> QED BY <1>7, <3>1, <3>2
  <2>3. CASE d \in 1..L
    <3>1. p[d] = fr[d] /\ fr[d].node \in 0..n
      BY <1>2, <1>5, <2>3
    <3>2. k = n + 2 \/ k \in (fr[d].node + 1)..(n + 1)
      BY <1>1, <3>1
    <3>3. Level(r, fr[d]) = Level(q, fr[d]) /\ Level(q, fr[d]) <= DepthIn(q, n + 1) /\ Level(q, fr[d]) \in Int
      BY <1>2, <2>3
    <3>4. CASE k = n + 2
      BY <1>2, <1>7, <3>1, <3>3, <3>4
    <3>5. CASE k \in (fr[d].node + 1)..(n + 1)
      BY <1>2, <2>3, <3>1, <3>3, <3>5
    <3> QED BY <3>2, <3>4, <3>5
  <2> QED BY <2>1, <2>2, <2>3
<1>11. \A i \in 1..(n + 1) : r[i] \in Openers /\ i \notin Held(p) => ClosedIn(r, i)
  <2>1. \A i \in 1..(n + 1) : i = n + 1 \/ (i \in 1..n /\ i \in 0..n)
    BY <1>1
  <2>2. \A i \in 1..n : q[i] \in Openers /\ i \notin Held(fr) => ClosedIn(q, i)
    BY <1>1 DEF NestOK, n
  <2> QED BY <1>3, <1>4, <1>5, <2>1, <2>2
<1>12. \A i \in Held(p) : ~ClosedIn(r, i)
  <2>1. \A i \in Held(fr) : i \in 0..n
    BY <1>2 DEF Held, L
  <2>2. \A i \in Held(fr) : ~ClosedIn(r, i)
    BY <1>1, <1>4, <2>1 DEF NestOK
  <2>3. ~ClosedIn(r, n + 1)
    <3>1. \A k \in ((n + 1) + 1)..(n + 1) : FALSE
      BY <1>1
    <3> QED BY <1>2, <3>1 DEF ClosedIn
  <2> QED BY <1>5, <2>2, <2>3
<1> QED BY <1>2, <1>5, <1>6, <1>8, <1>9, <1>10, <1>11, <1>12 DEF NestOK, r, p

(* The opcode that closes the method on top.                               *)
LEMMA NestPop ==
  ASSUME NEW q, NEW fr, Reads(q, fr), NEW t \in Enders, ~IsPrefix(TopOf(fr))
  PROVE  NestOK(Append(q, t), PopOf(fr))
<1> DEFINE r == Append(q, t)
           n == Len(q)
           L == Len(fr)
           p == PopOf(fr)
           m == TopOf(fr).node
<1>1. /\ q \in Seq(Tokens) /\ n \in Nat /\ fr # <<>> /\ L \in Nat \ {0} /\ NestOK(q, fr)
      /\ fr \in Seq(FrameRecord) /\ StackOK(q, fr) /\ t \in Tokens /\ t \notin Openers
  BY PopIs, TokenSets DEF Reads
<1>2. /\ Len(r) = n + 1 /\ DepthIn(q, n + 1) \in Int
      /\ \A k \in 1..(n + 1) : DepthIn(r, k) = DepthIn(q, k)
      /\ \A d \in 1..L :
           /\ fr[d].node \in 0..n /\ Level(r, fr[d]) = Level(q, fr[d])
           /\ Level(q, fr[d]) \in Int
           /\ \A k \in (fr[d].node + 1)..(n + 1) : DepthIn(r, k) >= Level(q, fr[d])
      /\ \A d \in 1..(L - 1) : DepthIn(r, fr[d + 1].node) = Level(q, fr[d])
      /\ DepthIn(r, n + 2) = DepthIn(q, n + 1) - 1
  BY <1>1, NestGrows
<1>3. r[n + 1] = t /\ \A k \in 1..n : r[k] = q[k]
  BY <1>1, AppendIs
<1>4. OwnerIn(q, n + 1) = m /\ FrameOK(q, TopOf(fr)) /\ TopOf(fr) \in FrameRecord
  BY ReadsTop
<1>5. \A i \in 0..n : ClosedIn(r, i) <=> ClosedIn(q, i) \/ i = m
  BY <1>1, <1>4, ClosedGrows
<1>6. /\ Len(p) = L - 1 /\ (\A d \in 1..(L - 1) : p[d] = fr[d])
      /\ Held(p) = Held(fr) \ {m} /\ Held(fr) \subseteq 0..m
      /\ (m # 0 => L > 1) /\ (m = 0 => p = <<>>) /\ (p = <<>> <=> L = 1)
  BY <1>1, PopIs, HeldPop
<1>7. m \in 0..n /\ (m # 0 => q[m] \in Openers)
  BY <1>1, <1>4, FrameIs
<1>8. fr[L].node = m /\ TopOf(fr) = fr[L]
  BY DEF TopOf
<1> HIDE DEF r, n, L, p, m
<1>9. \A d \in 1..(L - 1) : d \in 1..L
  BY <1>1
<1>10. ASSUME p # <<>>
       PROVE  /\ m # 0 /\ L - 1 \in 1..(L - 1) /\ (L - 1) + 1 = L
              /\ DepthIn(r, n + 2) = DepthIn(r, m) /\ DepthIn(r, m) \in Int
              /\ DepthIn(r, m) = Level(r, fr[L - 1])
  <2>1. m # 0 /\ L # 1
    BY <1>6, <1>10
  <2>2. L - 1 \in 1..(L - 1) /\ (L - 1) + 1 = L /\ L \in 1..L
    BY <1>1, <2>1
  <2>3. DepthIn(q, n + 1) = DepthIn(q, m + 1)
    BY <1>1, <1>8 DEF NestOK, Level, n, L
  <2>4. m \in Nat \ {0} /\ m \in 1..(n + 1)
    BY <1>1, <1>7, <2>1
  <2>5. DepthIn(q, m + 1) = DepthIn(q, m) + 1 /\ DepthIn(q, m) \in Int
    BY <1>7, <2>1, <2>4, DepthStep, DepthType
  <2>6. DepthIn(r, m) = DepthIn(q, m)
    BY <1>2, <2>4
  <2>7. DepthIn(r, n + 2) = DepthIn(q, m)
    BY <1>2, <2>3, <2>5
  <2>8. DepthIn(r, fr[(L - 1) + 1].node) = Level(q, fr[L - 1])
    BY <1>2, <2>2
  <2> QED BY <1>2, <1>8, <1>9, <2>1, <2>2, <2>5, <2>6, <2>7, <2>8
<1>11. p # <<>> => DepthIn(r, Len(r) + 1) = Level(r, TopOf(p))
  <2> SUFFICES ASSUME p # <<>> PROVE DepthIn(r, Len(r) + 1) = Level(r, TopOf(p))
    OBVIOUS
  <2>1. TopOf(p) = fr[L - 1] /\ (n + 1) + 1 = n + 2
    BY <1>1, <1>6, <1>10 DEF TopOf
  <2> QED BY <1>2, <1>10, <2>1
<1>12. \A d \in 1..((L - 1) - 1) : DepthIn(r, p[d + 1].node) = Level(r, p[d])
  <2>1. \A d \in 1..((L - 1) - 1) : d \in 1..L /\ d \in 1..(L - 1) /\ d + 1 \in 1..(L - 1)
    BY <1>1
  <2> QED BY <1>2, <1>6, <2>1
<1>13. ASSUME NEW d \in 1..(L - 1), NEW k \in (p[d].node + 1)..(n + 2)
       PROVE  DepthIn(r, k) >= Level(r, p[d])
  <2>1. d \in 1..L /\ p[d] = fr[d] /\ L - 1 \in Nat /\ L # 1 /\ p # <<>>
    BY <1>1, <1>6, <1>9
  <2>2. fr[d].node \in 0..n /\ Level(r, fr[d]) = Level(q, fr[d]) /\ Level(q, fr[d]) \in Int
    BY <1>2, <2>1
  <2>3. fr[d].node < m
    <3>1. d \in 1..(L - 1) /\ L \in 1..L
      BY <1>1
    <3> QED BY <1>1, <1>8, <3>1 DEF StackOK, L
  <2>4. k = n + 2 \/ k \in (fr[d].node + 1)..(n + 1)
    BY <1>1, <2>1, <2>2
  <2>5. m \in (fr[d].node + 1)..(n + 1)
    BY <1>1, <1>7, <2>2, <2>3
  <2>6. DepthIn(r, m) >= Level(q, fr[d])
    BY <1>2, <2>1, <2>5
  <2>7. CASE k = n + 2
    BY <1>10, <2>1, <2>2, <2>6, <2>7
  <2>8. CASE k \in (fr[d].node + 1)..(n + 1)
    BY <1>2, <2>1, <2>2, <2>8
  <2> QED BY <2>4, <2>7, <2>8
<1>14. \A i \in 1..(n + 1) : r[i] \in Openers /\ i \notin Held(p) => ClosedIn(r, i)
  <2>1. \A i \in 1..(n + 1) : i = n + 1 \/ (i \in 1..n /\ i \in 0..n)
    BY <1>1
  <2>2. \A i \in 1..n : q[i] \in Openers /\ i \notin Held(fr) => ClosedIn(q, i)
    BY <1>1 DEF NestOK, n
  <2> QED BY <1>1, <1>3, <1>5, <1>6, <2>1, <2>2
<1>15. \A i \in Held(p) : ~ClosedIn(r, i)
  <2>1. \A i \in Held(p) : i \in 0..n /\ i # m /\ i \in Held(fr)
    BY <1>1, <1>6, <1>7
  <2> QED BY <1>1, <1>5, <2>1 DEF NestOK
<1>16. p = <<>> => ClosedIn(r, Statement)
  <2>1. p = <<>> => m = 0
    <3> SUFFICES ASSUME p = <<>> PROVE m = 0
      OBVIOUS
    <3>1. ~(L > 1)
      BY <1>1, <1>6
    <3> QED BY <1>6, <3>1
  <2>2. 0 \in 0..n
    BY <1>1
  <2> QED BY <1>5, <2>1, <2>2 DEF Statement
<1>17. (n + 1) + 1 = n + 2
  BY <1>1
<1> QED BY <1>2, <1>6, <1>11, <1>12, <1>13, <1>14, <1>15, <1>16, <1>17 DEF NestOK, r, p

-----------------------------------------------------------------------------
(* What one opcode does.                                                   *)
LEMMA GrowsBy ==
  ASSUME NEW q \in Seq(Tokens), NEW t \in Tokens
  PROVE  /\ Append(q, t) \in Seq(Tokens) /\ Len(q) \in Nat /\ Len(Append(q, t)) = Len(q) + 1
         /\ Append(q, t)[Len(q) + 1] = t /\ KindIn(Append(q, t), Len(q) + 1) = t
         /\ PrefixedIn(Append(q, t), Len(q) + 1) <=>
              t \in PrefixOps /\ ~(t = "paren" /\ KindIn(q, Len(q)) \in Lists)
         /\ Behind(Append(q, t), Len(q) + 1)
<1> DEFINE r == Append(q, t)
           n == Len(q)
<1>1. r \in Seq(Tokens) /\ n \in Nat /\ Len(r) = n + 1 /\ r[n + 1] = t /\ \A k \in 1..n : r[k] = q[k]
  BY AppendIs
<1> HIDE DEF r, n
<1>2. n + 1 # 0 /\ n + 1 > 0 /\ (n + 1) - 1 = n /\ n \in 0..n
  BY <1>1
<1>3. KindIn(r, n + 1) = t
  BY <1>1, <1>2 DEF KindIn, Statement
<1>4. KindIn(r, n) = KindIn(q, n)
  BY <1>1, <1>2, LooksSame
<1>5. PrefixedIn(r, n + 1) <=> t \in PrefixOps /\ ~(t = "paren" /\ KindIn(q, n) \in Lists)
  BY <1>1, <1>2, <1>4 DEF PrefixedIn
<1>6. Behind(r, n + 1)
  <2>1. \A i \in ((n + 1) + 1)..(n + 1) : FALSE
    BY <1>1
  <2> QED BY <1>1, <2>1 DEF Behind
<1> QED BY <1>1, <1>3, <1>5, <1>6 DEF r, n

LEMMA ReadsIs ==
  ASSUME NEW q, NEW fr, Reads(q, fr)
  PROVE  /\ q \in Seq(Tokens) /\ fr \in Seq(FrameRecord) /\ fr # <<>> /\ Len(q) \in Nat
         /\ ChainsOK(q) /\ StackOK(q, fr) /\ ReadsOn(q, fr, TRUE)
         /\ PrefixesWhole(q, fr, TRUE) /\ NestOK(q, fr)
<1>1. q \in Seq(Tokens)
  BY DEF Reads
<1>2. Len(q) \in Nat
  BY <1>1
<1> QED BY <1>1, <1>2 DEF Reads

(* The 54 of a list.                                                       *)
LEMMA FitsOpen ==
  ASSUME NEW q, NEW fr, Reads(q, fr), KindIn(q, Len(q)) \in Lists
  PROVE  Fits(Append(q, "paren"), fr, FALSE, Reading, TRUE)
<1> DEFINE r == Append(q, "paren")
           n == Len(q)
<1>1. q \in Seq(Tokens) /\ fr \in Seq(FrameRecord) /\ fr # <<>> /\ PrefixesWhole(q, fr, TRUE)
      /\ ReadsOn(q, fr, TRUE) /\ ChainsOK(q)
  BY DEF Reads
<1>2. "paren" \in Tokens /\ "paren" \notin Openers /\ "paren" \notin Enders /\ "paren" \notin Lists
      /\ "paren" \notin Enders \cup {"subscript"}
  BY TokenSets
<1>3. r \in Seq(Tokens) /\ Len(r) = n + 1 /\ KindIn(r, n + 1) = "paren" /\ ~PrefixedIn(r, n + 1)
  BY <1>1, <1>2, GrowsBy
<1>4. StackOK(r, fr) /\ NestOK(r, fr) /\ ChainsOK(r) /\ PrefixesWhole(r, fr, TRUE)
  BY <1>1, <1>2, <1>3, StackGrows, NestKeep, ChainsGrow, PrefixesGrow
<1>5. ~IsPrefix(TopOf(fr))
  <2> SUFFICES ASSUME IsPrefix(TopOf(fr)) PROVE FALSE
    OBVIOUS
  <2>1. PrefixedIn(q, n)
    BY ReadsTop
  <2>2. n # 0 /\ q[n] \in PrefixOps
    BY <2>1 DEF PrefixedIn
  <2> QED BY <2>2, TokenSets DEF KindIn, Statement
<1> HIDE DEF r, n
<1>6. ReadsOn(r, fr, TRUE)
  BY <1>2, <1>3, <1>5 DEF ReadsOn
<1>7. Reading \in {Reading, Null} \cup 1..Len(r)
  OBVIOUS
<1> QED BY <1>1, <1>2, <1>3, <1>4, <1>6, <1>7 DEF Fits, r

(* A node of one opcode.                                                   *)
LEMMA FitsAtom ==
  ASSUME NEW q, NEW fr, Reads(q, fr), NEW t \in Atoms
  PROVE  Fits(Append(q, t), fr, FALSE, IF t = "unknown" THEN Null ELSE Len(q) + 1, TRUE)
<1> DEFINE r == Append(q, t)
           n == Len(q)
           i == n + 1
           res == IF t = "unknown" THEN Null ELSE n + 1
           top == TopOf(fr)
<1>1. q \in Seq(Tokens) /\ fr \in Seq(FrameRecord) /\ fr # <<>> /\ PrefixesWhole(q, fr, TRUE)
      /\ ChainsOK(q) /\ n \in Nat
  BY ReadsIs
<1>2. t \in Tokens /\ t \notin Openers /\ t \notin Enders /\ t \notin Lists /\ t \in Nodes
      /\ t \notin Enders \cup {"subscript"} /\ t \notin PrefixOps
  BY TokenSets
<1>3. r \in Seq(Tokens) /\ Len(r) = n + 1 /\ KindIn(r, n + 1) = t /\ ~PrefixedIn(r, n + 1)
      /\ r[n + 1] = t /\ Behind(r, n + 1)
  BY <1>1, <1>2, GrowsBy
<1>4. StackOK(r, fr) /\ NestOK(r, fr) /\ ChainsOK(r) /\ PrefixesWhole(r, fr, TRUE)
      /\ ParentIn(r, n + 1) = Under(r, top)
  BY <1>1, <1>2, <1>3, StackGrows, NestKeep, ChainsGrow, PrefixesGrow
<1>5. top \in FrameRecord /\ FrameOK(q, top) /\ (IsPrefix(top) => top.node = n /\ PrefixedIn(q, n))
  BY ReadsTop
<1>6. top.node \in 0..n
  BY <1>5 DEF FrameOK
<1>7. \A k \in 0..n : PrefixedIn(r, k) = PrefixedIn(q, k)
  <2>1. \A k \in 1..n : r[k] = q[k]
    BY <1>1, <1>2, AppendIs
  <2> HIDE DEF r, n
  <2> QED BY <1>1, <2>1, LooksSame
<1> HIDE DEF r, n, top
<1>8. TokenOf(r, res) = i /\ res # Reading /\ (res = Null <=> t = "unknown") /\ res \in {Reading, Null} \cup 1..(n + 1)
  BY <1>1, <1>3 DEF TokenOf, Null, Reading
<1>9. WholeIn(r, TRUE, n + 1)
  <2>1. n + 1 \in 1..Len(r) /\ Len(r) \in Nat
    BY <1>1, <1>3
  <2>2. Heads(r, n + 1) = {n + 1}
    BY <1>3, <2>1, HeadIs
  <2> QED BY <1>3, <2>2 DEF WholeIn
<1>10. IsPrefix(top) => WholeIn(r, TRUE, top.node)
  <2> SUFFICES ASSUME IsPrefix(top) PROVE WholeIn(r, TRUE, top.node)
    OBVIOUS
  <2>1. top.node = n /\ n \in 0..n /\ PrefixedIn(r, n)
    BY <1>1, <1>5, <1>7
  <2> QED BY <1>1, <1>3, <1>9, <2>1, WholeBack
<1>11. Returned(r, fr, res, TRUE)
  <2>1. i \in 1..Len(r) /\ top.node < i
    BY <1>1, <1>3, <1>6
  <2> HIDE DEF res
  <2> QED BY <1>1, <1>2, <1>3, <1>4, <1>8, <1>9, <1>10, <2>1 DEF Returned, top
<1> HIDE DEF res
<1>12. Fits(r, fr, FALSE, res, TRUE)
  BY <1>1, <1>2, <1>3, <1>4, <1>8, <1>11 DEF Fits
<1> QED BY <1>12 DEF r, n, res

(* An opcode with a method of its own.                                     *)
LEMMA FitsPush ==
  ASSUME NEW q, NEW fr, Reads(q, fr), NEW t \in Tokens, NEW x \in FrameRecord,
         x.node = Len(q) + 1,
         PrefixedIn(q, Len(q)) => t # "subscript",
         \/ x.kind = "through" /\ t \in {"var", "paren"} /\ ~(t = "paren" /\ KindIn(q, Len(q)) \in Lists)
         \/ x.kind = "args" /\ t \in Lists
         \/ x.kind = t /\ t \in {"object", "subscript"},
         NEW fs \in BOOLEAN, fs <=> t \in Lists
  PROVE  Fits(Append(q, t), Append(fr, x), fs, Reading, TRUE)
<1> DEFINE r == Append(q, t)
           n == Len(q)
           p == Append(fr, x)
           top == TopOf(fr)
<1>1. q \in Seq(Tokens) /\ fr \in Seq(FrameRecord) /\ fr # <<>> /\ PrefixesWhole(q, fr, TRUE)
      /\ ChainsOK(q) /\ n \in Nat /\ StackOK(q, fr)
  BY ReadsIs
<1>2. t \notin Enders
  BY TokenSets
<1>3. r \in Seq(Tokens) /\ Len(r) = n + 1 /\ KindIn(r, n + 1) = t /\ r[n + 1] = t /\ Behind(r, n + 1)
      /\ (PrefixedIn(r, n + 1) <=> t \in PrefixOps /\ ~(t = "paren" /\ KindIn(q, n) \in Lists))
  BY <1>1, GrowsBy
<1>4. StackOK(r, fr) /\ NestOK(r, p) /\ ChainsOK(r) /\ ParentIn(r, n + 1) = Under(r, top)
  BY <1>1, <1>2, StackGrows, NestPush, ChainsGrow
<1>5. /\ p \in Seq(FrameRecord) /\ p # <<>> /\ TopOf(p) = x /\ Held(p) = Held(fr) \cup {n + 1}
  BY <1>1, HeldPush
<1>6. top \in FrameRecord /\ FrameOK(q, top) /\ (IsPrefix(top) => top.node = n)
  BY ReadsTop
<1>7. Held(fr) \subseteq 0..n
  BY <1>1, <1>6, HeldPop DEF FrameOK
<1> HIDE DEF r, n, p, top
<1>8. FrameOK(r, x)
  <2>1. x.node = n + 1 /\ n + 1 \in 0..Len(r)
    BY <1>1, <1>3 DEF n
  <2>2. KindFits(r, x)
    <3>1. CASE x.kind = "through" /\ t \in {"var", "paren"} /\ ~(t = "paren" /\ KindIn(q, n) \in Lists)
      BY <1>3, <2>1, <3>1, TokenSets DEF KindFits
    <3>2. CASE x.kind = "args" /\ t \in Lists
      BY <1>3, <2>1, <3>2 DEF KindFits
    <3>3. CASE x.kind = t /\ t \in {"object", "subscript"}
      BY <1>3, <2>1, <3>3, TokenSets DEF KindFits
    <3> QED BY <3>1, <3>2, <3>3 DEF n
  <2> QED BY <1>3, <2>1, <2>2 DEF FrameOK
<1>9. StackOK(r, p)
  <2>1. x.node = Len(r) /\ Len(r) - 1 = n
    BY <1>1, <1>3 DEF n
  <2>2. CallOK(r, top, x)
    BY <1>3, <1>4, <1>6, <2>1 DEF CallOK
  <2> QED BY <1>1, <1>3, <1>4, <1>7, <1>8, <2>1, <2>2, StackPush DEF p, top
<1>10. PrefixesWhole(r, p, TRUE)
  <2>1. Len(q) + 1 \in Held(p) /\ Held(fr) \subseteq Held(p)
    BY <1>5 DEF n
  <2> QED BY <1>1, <2>1, PrefixesGrow DEF r
<1>11. ReadsOn(r, p, TRUE)
  <2>1. x.node = Len(r)
    BY <1>3 DEF n
  <2> QED BY <1>5, <2>1 DEF ReadsOn
<1>12. Fits(r, p, fs, Reading, TRUE)
  <2>1. Reading \in {Reading, Null} \cup 1..Len(r)
    OBVIOUS
  <2> QED BY <1>1, <1>3, <1>4, <1>5, <1>9, <1>10, <1>11, <2>1 DEF Fits
<1> QED BY <1>12 DEF r, p

(* A closing opcode, to the method on top.                                 *)
LEMMA FitsEnd ==
  ASSUME NEW q, NEW fr, Reads(q, fr), NEW t \in Enders, ~IsPrefix(TopOf(fr))
  PROVE  Fits(Append(q, t), PopOf(fr), FALSE,
              IF TopOf(fr).node = Statement THEN Reading ELSE TopOf(fr).node, TRUE)
<1> DEFINE r == Append(q, t)
           n == Len(q)
           p == PopOf(fr)
           top == TopOf(fr)
           m == top.node
           res == IF m = Statement THEN Reading ELSE m
<1>1. q \in Seq(Tokens) /\ fr \in Seq(FrameRecord) /\ fr # <<>> /\ PrefixesWhole(q, fr, TRUE)
      /\ ChainsOK(q) /\ n \in Nat /\ StackOK(q, fr)
  BY ReadsIs
<1>2. t \in Tokens /\ t \notin PrefixOps /\ t \notin Lists
  BY TokenSets
<1>3. r \in Seq(Tokens) /\ Len(r) = n + 1 /\ KindIn(r, n + 1) = t /\ r[n + 1] = t
      /\ ~PrefixedIn(r, n + 1)
  BY <1>1, <1>2, GrowsBy
<1>4. /\ top \in FrameRecord /\ FrameOK(q, top) /\ ~PrefixedIn(q, n) /\ OwnerIn(q, n + 1) = m
  BY ReadsTop
<1>5. m \in 0..n /\ (m # 0 => q[m] \in Openers /\ ~PrefixedIn(q, m))
  BY <1>1, <1>4, FrameIs
<1>6. StackOK(r, fr) /\ NestOK(r, p) /\ ChainsOK(r)
  BY <1>1, <1>2, <1>4, StackGrows, NestPop, ChainsGrow
<1>7. /\ p \in Seq(FrameRecord) /\ StackOK(r, p) /\ Held(p) = Held(fr) \ {m}
      /\ m # 0 => p # <<>> /\ TopOf(p).node < m /\ CallOK(r, TopOf(p), top)
      /\ m = 0 => p = <<>>
  BY <1>1, <1>6, PopIs, HeldPop, StackPop
<1>8. PrefixesWhole(r, p, TRUE)
  <2>1. \A i \in 1..n : i \in Held(fr) /\ i \notin Held(p) => ~PrefixedIn(q, i)
    BY <1>5, <1>7
  <2> HIDE DEF p, top
  <2> QED BY <1>1, <1>2, <1>3, <2>1, PrefixesGrow
<1>9. ClosedIn(r, m)
  BY <1>1, <1>2, <1>4, <1>5, ClosedGrows
<1>10. /\ \A k \in 1..n : r[k] = q[k]
       /\ \A k \in 0..n : PrefixedIn(r, k) = PrefixedIn(q, k)
  <2>1. \A k \in 1..n : r[k] = q[k]
    BY <1>1, <1>2, AppendIs
  <2> HIDE DEF r, n
  <2> QED BY <1>1, <2>1, LooksSame
<1>11. FrameOK(r, top)
  <2>1. Len(fr) \in 1..Len(fr)
    BY <1>1, PopIs
  <2> QED BY <1>6, <2>1 DEF StackOK, TopOf
<1> HIDE DEF r, n, p
<1>12. ASSUME m # 0 PROVE Returned(r, p, m, TRUE)
  <2> DEFINE f == TopOf(p)
  <2>1. m \in 1..n /\ m \in 1..Len(r) /\ m \in 0..n /\ m # Null /\ m # Reading
    BY <1>1, <1>3, <1>5, <1>12 DEF Null, Reading
  <2>2. r[m] \in Openers /\ ~PrefixedIn(r, m)
    BY <1>5, <1>10, <1>12, <2>1
  <2>3. TokenOf(r, m) = m
    BY <2>1 DEF TokenOf
  <2>4. top.kind # "through" /\ Behind(r, m)
    BY <1>11 DEF FrameOK, IsPrefix
  <2>5. WholeIn(r, TRUE, m)
    <3>1. Heads(r, m) = {m}
      BY <1>1, <1>3, <2>1, <2>2, HeadIs
    <3> QED BY <1>9, <3>1 DEF WholeIn
  <2>6. p # <<>> /\ f.node < m /\ CallOK(r, f, top)
    BY <1>7, <1>12
  <2>7. ASSUME IsPrefix(f) PROVE WholeIn(r, TRUE, f.node)
    <3>1. m = f.node + 1
      BY <2>6, <2>7 DEF CallOK
    <3>2. f \in FrameRecord /\ FrameOK(r, f)
      <4>1. Len(p) \in 1..Len(p)
        BY <1>7, <2>6, PopIs
      <4> QED BY <1>7, <2>6, <4>1, PopIs DEF StackOK, TopOf
    <3>3. PrefixedIn(r, f.node) /\ f.node \in Nat
      BY <1>3, <2>7, <3>2, FrameIs DEF FrameRecord
    <3> HIDE DEF f
    <3> QED BY <1>3, <2>5, <3>1, <3>3, WholeBack
  <2>8. ParentIn(r, m) = Under(r, f)
    BY <2>6 DEF CallOK
  <2>9. r[m] \in Nodes /\ r[m] # "unknown" /\ r[Len(r)] \in Atoms \cup Enders
    BY <1>3, <2>2, TokenSets
  <2> HIDE DEF m, top
  <2> QED BY <2>1, <2>3, <2>4, <2>5, <2>6, <2>7, <2>8, <2>9 DEF Returned
<1>13. /\ res = Reading => ReadsOn(r, p, TRUE)
       /\ res # Reading => Returned(r, p, res, TRUE)
       /\ res \in {Reading, Null} \cup 1..Len(r)
  <2>1. CASE m = 0
    <3>1. res = Reading /\ p = <<>>
      BY <1>7, <2>1 DEF Statement
    <3> QED BY <3>1 DEF ReadsOn
  <2>2. CASE m # 0
    <3>1. res = m /\ m # Reading /\ m \in 1..Len(r)
      BY <1>1, <1>3, <1>5, <2>2 DEF Statement, Reading
    <3> HIDE DEF res, m
    <3> QED BY <1>12, <2>2, <3>1
  <2> QED BY <2>1, <2>2
<1> HIDE DEF res, m, top
<1>14. Fits(r, p, FALSE, res, TRUE)
  BY <1>2, <1>3, <1>6, <1>7, <1>8, <1>13 DEF Fits
<1> QED BY <1>14 DEF r, p, res, m, top

-----------------------------------------------------------------------------
(* What a node that is returned does.                                      *)
Returns(q, fr, fs, res, g) == Fits(q, fr, fs, res, g) /\ res # Reading

LEMMA ReturnsIs ==
  ASSUME NEW q, NEW fr, NEW fs, NEW res, NEW g, Returns(q, fr, fs, res, g)
  PROVE  /\ q \in Seq(Tokens) /\ Len(q) \in Nat \ {0} /\ fr \in Seq(FrameRecord) /\ fr # <<>>
         /\ fs \in BOOLEAN /\ g \in BOOLEAN /\ res \in {Reading, Null} \cup 1..Len(q)
         /\ ChainsOK(q) /\ StackOK(q, fr) /\ (fs <=> KindIn(q, Len(q)) \in Lists)
         /\ Returned(q, fr, res, g) /\ PrefixesWhole(q, fr, g)
         /\ ~g => \A d \in 1..Len(fr) : fr[d].kind \in {"args", "through"}
         /\ g => NestOK(q, fr)
         /\ TopOf(fr) \in FrameRecord /\ FrameOK(q, TopOf(fr))
         /\ ~g => TopOf(fr).kind \in {"args", "through"}
         /\ KindIn(q, Len(q)) \notin Openers /\ ~PrefixedIn(q, Len(q))
<1>1. Fits(q, fr, fs, res, g) /\ res # Reading
  BY DEF Returns
<1>2. /\ q \in Seq(Tokens) /\ fr \in Seq(FrameRecord) /\ fs \in BOOLEAN /\ g \in BOOLEAN
      /\ res \in {Reading, Null} \cup 1..Len(q)
      /\ ChainsOK(q) /\ StackOK(q, fr) /\ (fs <=> KindIn(q, Len(q)) \in Lists)
      /\ Returned(q, fr, res, g) /\ PrefixesWhole(q, fr, g)
      /\ ~g => \A d \in 1..Len(fr) : fr[d].kind \in {"args", "through"}
      /\ g => NestOK(q, fr)
  BY <1>1 DEF Fits
<1>3. fr # <<>> /\ q[Len(q)] \in Atoms \cup Enders /\ TokenOf(q, res) \in 1..Len(q)
  BY <1>2 DEF Returned
<1>4. Len(q) \in Nat \ {0}
  <2>1. Len(q) \in Nat
    BY <1>2
  <2>2. Len(q) # 0
    BY <1>3
  <2> QED BY <2>1, <2>2
<1>5. Len(fr) \in 1..Len(fr) /\ TopOf(fr) \in FrameRecord
  BY <1>2, <1>3, PopIs
<1>6. FrameOK(q, TopOf(fr)) /\ (~g => TopOf(fr).kind \in {"args", "through"})
  BY <1>2, <1>3, <1>5 DEF StackOK, TopOf
<1>7. KindIn(q, Len(q)) \notin Openers
  BY <1>3, <1>4, TokenSets DEF KindIn, Statement
<1>8. ~PrefixedIn(q, Len(q))
  BY <1>3, TokenSets DEF PrefixedIn
<1> QED BY <1>2, <1>3, <1>4, <1>5, <1>6, <1>7, <1>8

(* Where the node of the method on top goes.                               *)
LEMMA PopReturns ==
  ASSUME NEW q \in Seq(Tokens), NEW fr \in Seq(FrameRecord), fr # <<>>, StackOK(q, fr),
         TopOf(fr).node # 0, NEW g
  PROVE  /\ PopOf(fr) \in Seq(FrameRecord) /\ PopOf(fr) # <<>> /\ StackOK(q, PopOf(fr))
         /\ TopOf(PopOf(fr)).node < TopOf(fr).node
         /\ ParentIn(q, TopOf(fr).node) = Under(q, TopOf(PopOf(fr)))
         /\ TopOf(PopOf(fr)) \in FrameRecord /\ FrameOK(q, TopOf(PopOf(fr)))
         /\ IsPrefix(TopOf(PopOf(fr))) /\ WholeIn(q, g, TopOf(fr).node)
              => WholeIn(q, g, TopOf(PopOf(fr)).node)
<1> DEFINE p == PopOf(fr)
           top == TopOf(fr)
           f == TopOf(p)
<1>1. p \in Seq(FrameRecord) /\ p # <<>> /\ StackOK(q, p) /\ f.node < top.node /\ CallOK(q, f, top)
  BY PopIs, HeldPop, StackPop
<1> HIDE DEF p, top, f
<1>2. Len(p) \in 1..Len(p) /\ f \in FrameRecord
  BY <1>1, PopIs DEF f
<1>3. FrameOK(q, f)
  BY <1>1, <1>2 DEF StackOK, TopOf, f
<1>4. ASSUME IsPrefix(f), WholeIn(q, g, top.node) PROVE WholeIn(q, g, f.node)
  <2>1. top.node = f.node + 1
    BY <1>1, <1>4 DEF CallOK
  <2>2. PrefixedIn(q, f.node) /\ f.node \in Nat
    BY <1>2, <1>3, <1>4, FrameIs DEF FrameRecord
  <2> QED BY <1>4, <2>1, <2>2, WholeBack
<1>5. ParentIn(q, top.node) = Under(q, f)
  BY <1>1 DEF CallOK
<1> QED BY <1>1, <1>2, <1>3, <1>4, <1>5 DEF p, top, f

(* The stack as a tree, when the method on top returns that opened none.   *)
LEMMA NestBack ==
  ASSUME NEW q \in Seq(Tokens), NEW fr \in Seq(FrameRecord), fr # <<>>, StackOK(q, fr),
         NestOK(q, fr), IsPrefix(TopOf(fr))
  PROVE  NestOK(q, PopOf(fr))
<1> DEFINE L == Len(fr)
           p == PopOf(fr)
           m == TopOf(fr).node
           n == Len(q)
<1>1. /\ L \in Nat \ {0} /\ Len(p) = L - 1 /\ (\A d \in 1..(L - 1) : p[d] = fr[d])
      /\ TopOf(fr) \in FrameRecord /\ n \in Nat
  BY PopIs
<1>2. FrameOK(q, TopOf(fr))
  <2>1. Len(fr) \in 1..Len(fr)
    BY <1>1
  <2> QED BY <2>1 DEF StackOK, TopOf
<1>3. m \in 0..n /\ m # 0 /\ q[m] \in PrefixOps
  BY <1>1, <1>2, FrameIs
<1>4. p # <<>> /\ L > 1 /\ Held(p) = Held(fr) \ {m}
  BY <1>3, HeldPop
<1>5. TopOf(fr) = fr[L]
  BY DEF TopOf
<1> HIDE DEF L, p, m, n
<1>6. /\ DepthIn(q, n + 1) = DepthIn(q, m + 1)
      /\ \A d \in 1..(L - 1) : DepthIn(q, fr[d + 1].node) = Level(q, fr[d])
      /\ \A d \in 1..L : \A k \in (fr[d].node + 1)..(n + 1) : DepthIn(q, k) >= Level(q, fr[d])
      /\ \A i \in 1..n : q[i] \in Openers /\ i \notin Held(fr) => ClosedIn(q, i)
      /\ \A i \in Held(fr) : ~ClosedIn(q, i)
  BY DEF NestOK, Level, L, m, n
<1>7. DepthIn(q, m + 1) = DepthIn(q, m)
  <2>1. m \in Nat \ {0} /\ q[m] \notin Openers /\ q[m] \notin Enders
    BY <1>1, <1>3, TokenSets
  <2> QED BY <2>1, DepthStep
<1>8. L - 1 \in 1..(L - 1) /\ (L - 1) + 1 = L
  BY <1>1, <1>4
<1>9. DepthIn(q, n + 1) = Level(q, TopOf(p))
  <2>1. TopOf(p) = fr[L - 1]
    BY <1>1, <1>8 DEF TopOf
  <2>2. DepthIn(q, fr[(L - 1) + 1].node) = Level(q, fr[L - 1])
    BY <1>6, <1>8
  <2>3. fr[L].node = m
    BY <1>5 DEF m
  <2> QED BY <1>6, <1>7, <1>8, <2>1, <2>2, <2>3
<1>10. \A d \in 1..((L - 1) - 1) : DepthIn(q, p[d + 1].node) = Level(q, p[d])
  <2>1. \A d \in 1..((L - 1) - 1) : d \in 1..(L - 1) /\ d + 1 \in 1..(L - 1)
    BY <1>1
  <2> QED BY <1>1, <1>6, <2>1
<1>11. \A d \in 1..(L - 1) : \A k \in (p[d].node + 1)..(n + 1) : DepthIn(q, k) >= Level(q, p[d])
  <2>1. \A d \in 1..(L - 1) : d \in 1..L
    BY <1>1
  <2> QED BY <1>1, <1>6, <2>1
<1>12. \A i \in 1..n : q[i] \in Openers /\ i \notin Held(p) => ClosedIn(q, i)
  <2>1. q[m] \notin Openers
    BY <1>3, TokenSets
  <2> QED BY <1>4, <1>6, <2>1
<1>13. \A i \in Held(p) : ~ClosedIn(q, i)
  BY <1>4, <1>6
<1> QED BY <1>1, <1>4, <1>9, <1>10, <1>11, <1>12, <1>13 DEF NestOK, p, n

LEMMA PrefixesBack ==
  ASSUME NEW q, NEW fr, NEW p, NEW m, NEW g, PrefixesWhole(q, fr, g),
         Held(p) = Held(fr) \ {m}, PrefixedIn(q, m) => WholeIn(q, g, m)
  PROVE  PrefixesWhole(q, p, g) /\ PrefixesWhole(q, p, FALSE)
<1>1. PrefixesWhole(q, p, g)
  BY DEF PrefixesWhole
<1>2. PrefixesWhole(q, p, FALSE)
  BY <1>1, WholeEnds DEF PrefixesWhole
<1> QED BY <1>1, <1>2

LEMMA KindsBack ==
  ASSUME NEW fr \in Seq(FrameRecord), fr # <<>>, NEW K, \A d \in 1..Len(fr) : fr[d].kind \in K
  PROVE  \A d \in 1..Len(PopOf(fr)) : PopOf(fr)[d].kind \in K
<1>1. /\ Len(fr) \in Nat \ {0} /\ Len(PopOf(fr)) = Len(fr) - 1
      /\ \A d \in 1..(Len(fr) - 1) : PopOf(fr)[d] = fr[d]
  BY PopIs
<1>2. \A d \in 1..(Len(fr) - 1) : d \in 1..Len(fr)
  BY <1>1
<1> QED BY <1>1, <1>2

(* Through a prefix it goes on down.                                       *)
LEMMA FitsThrough ==
  ASSUME NEW q, NEW fr, NEW fs, NEW res, NEW g, Returns(q, fr, fs, res, g),
         TopOf(fr).kind = "through"
  PROVE  Fits(q, PopOf(fr), fs, res, g)
<1> DEFINE p == PopOf(fr)
           top == TopOf(fr)
           f == TopOf(p)
           i == TokenOf(q, res)
<1>1. /\ q \in Seq(Tokens) /\ Len(q) \in Nat \ {0} /\ fr \in Seq(FrameRecord) /\ fr # <<>>
      /\ fs \in BOOLEAN /\ g \in BOOLEAN /\ res \in {Reading, Null} \cup 1..Len(q)
      /\ ChainsOK(q) /\ StackOK(q, fr) /\ (fs <=> KindIn(q, Len(q)) \in Lists)
      /\ Returned(q, fr, res, g) /\ PrefixesWhole(q, fr, g)
      /\ ~g => \A d \in 1..Len(fr) : fr[d].kind \in {"args", "through"}
      /\ g => NestOK(q, fr)
      /\ top \in FrameRecord /\ FrameOK(q, top)
  BY ReturnsIs
<1>2. IsPrefix(top)
  BY DEF IsPrefix
<1>3. top.node # 0 /\ top.node \in 0..Len(q) /\ Under(q, top) = ParentIn(q, top.node)
  BY <1>1, <1>2, FrameIs
<1>4. WholeIn(q, g, top.node)
  BY <1>1, <1>2 DEF Returned
<1>5. /\ p \in Seq(FrameRecord) /\ p # <<>> /\ StackOK(q, p) /\ f.node < top.node
      /\ ParentIn(q, top.node) = Under(q, f) /\ f \in FrameRecord
      /\ IsPrefix(f) => WholeIn(q, g, f.node)
  BY <1>1, <1>3, <1>4, PopReturns
<1>6. Held(p) = Held(fr) \ {top.node}
  BY <1>1, HeldPop
<1>7. PrefixesWhole(q, p, g)
  <2> HIDE DEF p, top
  <2> QED BY <1>1, <1>4, <1>6, PrefixesBack
<1>8. g => NestOK(q, p)
  BY <1>1, <1>2, NestBack
<1>9. ~g => \A d \in 1..Len(p) : p[d].kind \in {"args", "through"}
  <2> DEFINE K == {"args", "through"}
  <2> HIDE DEF K
  <2>1. ~g => \A d \in 1..Len(fr) : fr[d].kind \in K
    BY <1>1 DEF K
  <2>2. ~g => \A d \in 1..Len(p) : p[d].kind \in K
    BY <1>1, <2>1, KindsBack
  <2> QED BY <2>2 DEF K
<1>10. Returned(q, p, res, g)
  <2>1. /\ i \in 1..Len(q) /\ top.node < i
        /\ q[i] \in Nodes /\ (res = Null <=> q[i] = "unknown")
        /\ q[Len(q)] \in Atoms \cup Enders
        /\ ParentIn(q, i) = Under(q, top) /\ Behind(q, i) /\ WholeIn(q, g, i)
    BY <1>1 DEF Returned
  <2>2. f.node < i
    <3>1. f.node \in Nat
      BY <1>5 DEF FrameRecord
    <3> HIDE DEF f, i, top
    <3> QED BY <1>1, <1>3, <1>5, <2>1, <3>1
  <2> HIDE DEF p, top
  <2> QED BY <1>3, <1>5, <2>1, <2>2 DEF Returned
<1>11. res # Reading
  BY DEF Returns
<1> HIDE DEF p, top, f, i
<1> QED BY <1>1, <1>5, <1>7, <1>8, <1>9, <1>10, <1>11 DEF Fits, p

(* A subscript, which is complete with its value.                          *)
LEMMA FitsSubscript ==
  ASSUME NEW q, NEW fr, NEW fs, NEW res, NEW g, Returns(q, fr, fs, res, g),
         TopOf(fr).kind = "subscript"
  PROVE  Fits(q, PopOf(fr), fs, TopOf(fr).node, g)
<1> DEFINE p == PopOf(fr)
           top == TopOf(fr)
           f == TopOf(p)
           m == top.node
<1>1. /\ q \in Seq(Tokens) /\ Len(q) \in Nat \ {0} /\ fr \in Seq(FrameRecord) /\ fr # <<>>
      /\ fs \in BOOLEAN /\ g \in BOOLEAN
      /\ ChainsOK(q) /\ StackOK(q, fr) /\ (fs <=> KindIn(q, Len(q)) \in Lists)
      /\ Returned(q, fr, res, g) /\ PrefixesWhole(q, fr, g)
      /\ g => NestOK(q, fr)
      /\ top \in FrameRecord /\ FrameOK(q, top)
      /\ ~g => top.kind \in {"args", "through"}
  BY ReturnsIs
<1>2. IsPrefix(top) /\ g
  BY <1>1 DEF IsPrefix
<1>3. m # 0 /\ m \in 0..Len(q) /\ q[m] = "subscript" /\ Behind(q, m)
  BY <1>1, <1>2, FrameIs
<1>4. WholeIn(q, g, m)
  BY <1>1, <1>2 DEF Returned
<1>5. /\ p \in Seq(FrameRecord) /\ p # <<>> /\ StackOK(q, p) /\ f.node < m
      /\ ParentIn(q, m) = Under(q, f)
      /\ IsPrefix(f) => WholeIn(q, g, f.node)
  BY <1>1, <1>3, <1>4, PopReturns
<1>6. Held(p) = Held(fr) \ {m}
  BY <1>1, HeldPop
<1>7. PrefixesWhole(q, p, g)
  <2> HIDE DEF p, m
  <2> QED BY <1>1, <1>4, <1>6, PrefixesBack
<1>8. NestOK(q, p)
  BY <1>1, <1>2, NestBack
<1>9. q[Len(q)] \in Atoms \cup Enders
  BY <1>1 DEF Returned
<1> HIDE DEF p, top, m
<1>10. m \in 1..Len(q) /\ m # Null /\ m # Reading /\ TokenOf(q, m) = m
  BY <1>1, <1>3 DEF Null, Reading, TokenOf
<1>11. q[m] \in Nodes /\ q[m] # "unknown"
  BY <1>3, TokenSets
<1>12. Returned(q, p, m, g)
  BY <1>3, <1>4, <1>5, <1>9, <1>10, <1>11 DEF Returned
<1> QED BY <1>1, <1>2, <1>5, <1>7, <1>8, <1>10, <1>12 DEF Fits, p, m, top

(* A list or an object takes it and reads on.                              *)
LEMMA FitsTaken ==
  ASSUME NEW q, NEW fr, NEW fs, NEW res, Returns(q, fr, fs, res, TRUE), ~IsPrefix(TopOf(fr))
  PROVE  Fits(q, fr, fs, Reading, TRUE)
<1>1. /\ q \in Seq(Tokens) /\ fr \in Seq(FrameRecord) /\ fr # <<>>
      /\ fs \in BOOLEAN
      /\ ChainsOK(q) /\ StackOK(q, fr) /\ (fs <=> KindIn(q, Len(q)) \in Lists)
      /\ PrefixesWhole(q, fr, TRUE) /\ NestOK(q, fr)
      /\ KindIn(q, Len(q)) \notin Openers /\ ~PrefixedIn(q, Len(q))
  BY ReturnsIs, ZenonT(60)
<1>2. ReadsOn(q, fr, TRUE)
  BY <1>1 DEF ReadsOn
<1>3. Reading \in {Reading, Null} \cup 1..Len(q)
  OBVIOUS
<1> QED BY <1>1, <1>2, <1>3 DEF Fits

(* A list takes it as its last, because the code ends.                     *)
LEMMA FitsCut ==
  ASSUME NEW q, NEW fr, NEW fs, NEW res, NEW g, Returns(q, fr, fs, res, g),
         TopOf(fr).kind = "args",
         \A d \in 1..Len(fr) : fr[d].kind \in {"args", "through"}
  PROVE  Fits(q, PopOf(fr), fs, IF TopOf(fr).node = Statement THEN Reading ELSE TopOf(fr).node, FALSE)
<1> DEFINE p == PopOf(fr)
           top == TopOf(fr)
           f == TopOf(p)
           m == top.node
           end == IF m = Statement THEN Reading ELSE m
<1>1. /\ q \in Seq(Tokens) /\ Len(q) \in Nat \ {0} /\ fr \in Seq(FrameRecord) /\ fr # <<>>
      /\ fs \in BOOLEAN
      /\ ChainsOK(q) /\ StackOK(q, fr) /\ (fs <=> KindIn(q, Len(q)) \in Lists)
      /\ Returned(q, fr, res, g) /\ PrefixesWhole(q, fr, g)
      /\ top \in FrameRecord /\ FrameOK(q, top)
  BY ReturnsIs
<1>2. ~IsPrefix(top)
  BY DEF IsPrefix
<1>3. m \in 0..Len(q) /\ (m # 0 => q[m] \in Openers /\ ~PrefixedIn(q, m)) /\ Behind(q, m)
  BY <1>1, <1>2, FrameIs
<1>4. p \in Seq(FrameRecord) /\ StackOK(q, p) /\ Held(p) = Held(fr) \ {m} /\ (m = 0 => p = <<>>)
  BY <1>1, PopIs, HeldPop, StackPop
<1>5. PrefixesWhole(q, p, FALSE)
  <2>1. ~PrefixedIn(q, m)
    BY <1>3 DEF PrefixedIn
  <2> HIDE DEF p, m
  <2> QED BY <1>1, <1>4, <2>1, PrefixesBack
<1>6. \A d \in 1..Len(p) : p[d].kind \in {"args", "through"}
  <2> DEFINE K == {"args", "through"}
  <2> HIDE DEF K
  <2>1. \A d \in 1..Len(fr) : fr[d].kind \in K
    BY DEF K
  <2>2. \A d \in 1..Len(p) : p[d].kind \in K
    BY <1>1, <2>1, KindsBack
  <2> QED BY <2>2 DEF K
<1>7. q[Len(q)] \in Atoms \cup Enders
  BY <1>1 DEF Returned
<1>8. ASSUME m # 0
      PROVE  /\ p # <<>> /\ f.node < m /\ ParentIn(q, m) = Under(q, f)
             /\ IsPrefix(f) /\ WholeIn(q, FALSE, m) => WholeIn(q, FALSE, f.node)
  BY <1>1, <1>8, PopReturns
<1> HIDE DEF p, top, f, m
<1>9. ASSUME m # 0 PROVE Returned(q, p, m, FALSE)
  <2>1. m \in 1..Len(q) /\ m # Null /\ m # Reading /\ TokenOf(q, m) = m
    BY <1>1, <1>3, <1>9 DEF Null, Reading, TokenOf
  <2>2. q[m] \in Nodes /\ q[m] # "unknown"
    BY <1>3, <1>9, TokenSets
  <2>3. WholeIn(q, FALSE, m)
    <3>1. Heads(q, m) = {m}
      BY <1>1, <1>3, <1>9, <2>1, HeadIs
    <3> QED BY <3>1 DEF WholeIn
  <2> QED BY <1>3, <1>7, <1>8, <1>9, <2>1, <2>2, <2>3 DEF Returned, f
<1>10. /\ end = Reading => ReadsOn(q, p, FALSE)
       /\ end # Reading => Returned(q, p, end, FALSE)
       /\ end \in {Reading, Null} \cup 1..Len(q)
  <2>1. CASE m = 0
    <3>1. end = Reading /\ p = <<>>
      BY <1>4, <2>1 DEF Statement
    <3> QED BY <3>1 DEF ReadsOn
  <2>2. CASE m # 0
    <3>1. end = m /\ m # Reading /\ m \in 1..Len(q)
      BY <1>1, <1>3, <2>2 DEF Statement, Reading
    <3> HIDE DEF end
    <3> QED BY <1>9, <2>2, <3>1
  <2> QED BY <2>1, <2>2
<1> HIDE DEF end
<1>11. Fits(q, p, fs, end, FALSE)
  BY <1>1, <1>4, <1>5, <1>6, <1>10 DEF Fits
<1> QED BY <1>11 DEF p, top, m, end

-----------------------------------------------------------------------------
(* What the lists hold.                                                    *)

(* The nodes that have been put where they belong: all but those that are  *)
(* being read and the one that is returned.                                *)
Done(q, fr, res) ==
  {i \in 1..Len(q) : q[i] \in Nodes /\ i \notin Held(fr) /\ (res # Reading => i # TokenOf(q, res))}
Goes(q, fr, res, h) == {i \in Done(q, fr, res) : ParentIn(q, i) = h}
NodeIn(q, i) == IF q[i] = "unknown" THEN Null ELSE i
ListIn(q, S) == [k \in 1..Cardinality(S) |-> NodeIn(q, InOrder(S)[k])]
Holders(q) == {Statement} \cup {i \in 1..Len(q) : q[i] \in Openers \cup {"subscript"}}

KidsOK(q, fr, res, kd) == kd = [h \in Holders(q) |-> ListIn(q, Goes(q, fr, res, h))]
KidsInv == KidsOK(stream, frames, result, kids)

LEMMA ListEmpty ==
  ASSUME NEW q
  PROVE  ListIn(q, {}) = <<>>
<1>1. Cardinality({}) = 0
  BY FS_EmptySet
<1>2. ListIn(q, {}) = [k \in 1..0 |-> NodeIn(q, InOrder({})[k])]
  BY <1>1 DEF ListIn
<1> QED BY <1>2

LEMMA ListType ==
  ASSUME NEW q, Len(q) \in Nat, NEW S, S \subseteq 1..Len(q)
  PROVE  ListIn(q, S) \in Seq({Null} \cup 1..Len(q))
<1>1. S \subseteq 0..Len(q)
  OBVIOUS
<1>2. Cardinality(S) \in Nat
  <2>1. IsFiniteSet(1..Len(q))
    BY FS_Interval
  <2>2. IsFiniteSet(S)
    BY <2>1, FS_Subset
  <2> QED BY <2>2, FS_CardinalityType
<1>3. ASSUME NEW k \in 1..Cardinality(S) PROVE NodeIn(q, InOrder(S)[k]) \in {Null} \cup 1..Len(q)
  <2>1. InOrder(S)[k] \in S
    BY <1>1, InOrderType
  <2> QED BY <2>1 DEF NodeIn
<1> QED BY <1>2, <1>3 DEF ListIn

LEMMA ListGrows ==
  ASSUME NEW q, NEW r, NEW n \in Nat, \A k \in 1..n : r[k] = q[k], NEW S, S \subseteq 1..n
  PROVE  ListIn(r, S) = ListIn(q, S)
<1>1. S \subseteq 0..n
  OBVIOUS
<1>2. ASSUME NEW k \in 1..Cardinality(S) PROVE NodeIn(r, InOrder(S)[k]) = NodeIn(q, InOrder(S)[k])
  <2>1. InOrder(S)[k] \in S
    BY <1>1, InOrderType
  <2> QED BY <2>1 DEF NodeIn
<1> QED BY <1>2 DEF ListIn

LEMMA ListAdd ==
  ASSUME NEW q, Len(q) \in Nat, NEW S, S \subseteq 1..Len(q), NEW x \in 1..Len(q), \A i \in S : i < x
  PROVE  ListIn(q, S \cup {x}) = Append(ListIn(q, S), NodeIn(q, x))
<1> DEFINE c == Cardinality(S)
           U == S \cup {x}
           a == ListIn(q, S)
           b == ListIn(q, U)
           v == NodeIn(q, x)
<1>1. S \subseteq 0..Len(q) /\ x \in 0..Len(q)
  OBVIOUS
<1>2. /\ c \in Nat /\ Cardinality(U) = c + 1 /\ InOrder(U)[c + 1] = x
      /\ \A k \in 1..c : InOrder(U)[k] = InOrder(S)[k]
  <2>1. /\ Cardinality(S) \in Nat /\ Cardinality(S \cup {x}) = Cardinality(S) + 1
        /\ InOrder(S \cup {x})[Cardinality(S) + 1] = x
        /\ \A k \in 1..Cardinality(S) : InOrder(S \cup {x})[k] = InOrder(S)[k]
    <3> HIDE DEF c, U, a, b, v
    <3>1. Cardinality(S) \in Nat
      BY <1>1, InOrderAdd, Zenon
    <3>2. Cardinality(S \cup {x}) = Cardinality(S) + 1
      BY <1>1, InOrderAdd, Zenon
    <3>3. InOrder(S \cup {x})[Cardinality(S) + 1] = x
      BY <1>1, InOrderAdd, Zenon
    <3>4. ASSUME NEW k \in 1..Cardinality(S) PROVE InOrder(S \cup {x})[k] = InOrder(S)[k]
      BY <1>1, InOrderFront, Zenon
    <3> QED BY <3>1, <3>2, <3>3, <3>4
  <2> QED BY <2>1
<1> HIDE DEF c, U
<1>3. /\ a = [k \in 1..c |-> NodeIn(q, InOrder(S)[k])]
      /\ b = [k \in 1..(c + 1) |-> NodeIn(q, InOrder(U)[k])]
  BY <1>2 DEF ListIn, c
<1>4. \A k \in 1..(c + 1) : (k = c + 1 /\ b[k] = v) \/ (k \in 1..c /\ b[k] = a[k])
  <2>1. \A k \in 1..(c + 1) : k = c + 1 \/ k \in 1..c
    BY <1>2
  <2> QED BY <1>2, <1>3, <2>1
<1> HIDE DEF a, b, v
<1> DEFINE T == {a[k] : k \in 1..c} \cup {v}
<1>5. a \in Seq(T) /\ Len(a) = c
  <2>1. a \in [1..c -> T]
    BY <1>3
  <2> HIDE DEF T
  <2> QED BY <1>2, <1>3, <2>1
<1>6. Append(a, v) = [k \in 1..(c + 1) |-> IF k = c + 1 THEN v ELSE a[k]]
  <2> DEFINE s == Append(a, v)
  <2>1. v \in T
    OBVIOUS
  <2> HIDE DEF T
  <2>2. s \in Seq(T) /\ Len(s) = c + 1 /\ s[c + 1] = v /\ \A k \in 1..c : s[k] = a[k]
    BY <1>5, <2>1, AppendIs
  <2> HIDE DEF s
  <2>3. s = [k \in 1..(c + 1) |-> s[k]]
    BY <2>2
  <2>4. \A k \in 1..(c + 1) : k = c + 1 \/ k \in 1..c
    BY <1>2
  <2>5. \A k \in 1..(c + 1) : s[k] = IF k = c + 1 THEN v ELSE a[k]
    BY <2>2, <2>4
  <2> QED BY <2>3, <2>5 DEF s
<1>7. b = [k \in 1..(c + 1) |-> IF k = c + 1 THEN v ELSE a[k]]
  <2>1. \A k \in 1..(c + 1) : b[k] = IF k = c + 1 THEN v ELSE a[k]
    <3>1. c + 1 \notin 1..c
      BY <1>2
    <3> QED BY <1>4, <3>1
  <2> QED BY <1>3, <2>1
<1> QED BY <1>6, <1>7 DEF a, b, v, U

(* An opcode puts no node into a list, and opens at most one.              *)
LEMMA KidsGrow ==
  ASSUME NEW q \in Seq(Tokens), NEW t \in Tokens, NEW fr, NEW p, NEW res, NEW kd,
         KidsOK(q, fr, Reading, kd),
         Done(Append(q, t), p, res) = Done(q, fr, Reading)
  PROVE  /\ t \notin Openers \cup {"subscript"} => KidsOK(Append(q, t), p, res, kd)
         /\ t \in Openers \cup {"subscript"} =>
              KidsOK(Append(q, t), p, res, Added(kd, Len(q) + 1, <<>>))
<1> DEFINE r == Append(q, t)
           n == Len(q)
           D == Done(q, fr, Reading)
<1>1. n \in Nat /\ Len(r) = n + 1 /\ r[n + 1] = t /\ \A k \in 1..n : r[k] = q[k]
  BY AppendIs
<1>2. D \subseteq 1..n
  BY DEF Done
<1> HIDE DEF r, n, D
<1>3. \A i \in 1..(n + 1) : ParentIn(r, i) = ParentIn(q, i)
  BY <1>1, LooksSame
<1>4. ASSUME NEW h
      PROVE  Goes(r, p, res, h) = Goes(q, fr, Reading, h) /\ Goes(q, fr, Reading, h) \subseteq 1..n
  <2>1. \A i \in 1..n : i \in 1..(n + 1)
    BY <1>1
  <2> QED BY <1>2, <1>3, <2>1 DEF Goes, D, r
<1>5. ASSUME NEW h PROVE ListIn(r, Goes(r, p, res, h)) = ListIn(q, Goes(q, fr, Reading, h))
  <2> DEFINE G == Goes(q, fr, Reading, h)
  <2>1. G \subseteq 1..n /\ Goes(r, p, res, h) = G
    BY <1>4
  <2> HIDE DEF G
  <2>2. n \in Nat /\ (\A k \in 1..n : r[k] = q[k]) /\ G \subseteq 1..n
    BY <1>1, <2>1
  <2>3. ListIn(r, G) = ListIn(q, G)
    BY <2>2, ListGrows, Zenon
  <2> QED BY <2>1, <2>3 DEF G
<1>6. kd = [h \in Holders(q) |-> ListIn(r, Goes(r, p, res, h))]
  BY <1>5 DEF KidsOK
<1>7. \A i \in 1..(n + 1) : i = n + 1 \/ i \in 1..n
  BY <1>1
<1>8. n + 1 \in 1..(n + 1) /\ \A i \in 1..n : i \in 1..(n + 1)
  BY <1>1
<1>9. ASSUME t \notin Openers \cup {"subscript"} PROVE KidsOK(r, p, res, kd)
  <2>1. Holders(r) = Holders(q)
    BY <1>1, <1>7, <1>8, <1>9 DEF Holders, n
  <2> QED BY <1>6, <2>1 DEF KidsOK
<1>10. ASSUME t \in Openers \cup {"subscript"} PROVE KidsOK(r, p, res, Added(kd, n + 1, <<>>))
  <2>1. Holders(r) = Holders(q) \cup {n + 1}
    BY <1>1, <1>7, <1>8, <1>10 DEF Holders, n
  <2>2. Goes(r, p, res, n + 1) = {}
    <3>1. \A i \in 1..n : ParentIn(q, i) # n + 1
      <4>1. ASSUME NEW i \in 1..n PROVE ParentIn(q, i) # n + 1
        <5>1. i \in Nat \ {0}
          BY <1>1
        <5>2. ParentIn(q, i) \in 0..(i - 1)
          BY <5>1, ParentType
        <5> QED BY <1>1, <5>2
      <4> QED BY <4>1
    <3>2. Goes(q, fr, Reading, n + 1) = {}
      BY <1>4, <3>1 DEF Goes
    <3> QED BY <1>4, <3>2
  <2>3. ListIn(r, Goes(r, p, res, n + 1)) = <<>>
    BY <2>2, ListEmpty
  <2>4. n + 1 \notin Holders(q)
    BY <1>1 DEF Holders, n, Statement
  <2>5. DOMAIN kd = Holders(q) /\ \A h \in Holders(q) : kd[h] = ListIn(r, Goes(r, p, res, h))
    BY <1>6
  <2>6. Added(kd, n + 1, <<>>) = [h \in Holders(r) |-> ListIn(r, Goes(r, p, res, h))]
    BY <2>1, <2>3, <2>5 DEF Added
  <2> QED BY <2>6 DEF KidsOK
<1> QED BY <1>9, <1>10 DEF r, n

(* The node that is returned comes behind all that the method on top has.  *)
LEMMA KidsTake ==
  ASSUME NEW q, NEW fr, NEW fs, NEW res, NEW g, Returns(q, fr, fs, res, g),
         TopOf(fr).kind # "through", NEW p, NEW end, NEW kd,
         KidsOK(q, fr, res, kd),
         Done(q, p, end) = Done(q, fr, res) \cup {TokenOf(q, res)}
  PROVE  KidsOK(q, p, end, [kd EXCEPT ![TopOf(fr).node] = Append(@, res)])
<1> DEFINE m == TopOf(fr).node
           i0 == TokenOf(q, res)
           D == Done(q, fr, res)
           n == Len(q)
<1>1. /\ q \in Seq(Tokens) /\ n \in Nat /\ TopOf(fr) \in FrameRecord /\ FrameOK(q, TopOf(fr))
      /\ Returned(q, fr, res, g) /\ res # Reading
  BY ReturnsIs DEF Returns
<1>2. /\ i0 \in 1..n /\ m < i0 /\ (res = Null <=> q[i0] = "unknown")
      /\ ParentIn(q, i0) = Under(q, TopOf(fr)) /\ Behind(q, i0)
  BY <1>1 DEF Returned
<1>3. m \in 0..n /\ Under(q, TopOf(fr)) = m
  BY <1>1, FrameIs
<1>4. m \in Holders(q)
  <2>1. CASE m = 0
    BY <2>1 DEF Holders, Statement
  <2>2. CASE m # 0
    <3>1. q[m] \in Openers \cup {"subscript"}
      <4>1. CASE IsPrefix(TopOf(fr))
        BY <1>1, <4>1, FrameIs DEF IsPrefix
      <4>2. CASE ~IsPrefix(TopOf(fr))
        BY <1>1, <2>2, <4>2, FrameIs
      <4> QED BY <4>1, <4>2
    <3> QED BY <1>1, <1>3, <2>2, <3>1 DEF Holders
  <2> QED BY <2>1, <2>2
<1>5. NodeIn(q, i0) = res
  BY <1>2 DEF NodeIn, TokenOf
<1>6. D \subseteq 1..n /\ i0 \notin D
  BY <1>1 DEF Done
<1> HIDE DEF m, i0, D, n
<1>7. \A i \in D : ParentIn(q, i) = m => i < i0
  <2> SUFFICES ASSUME NEW i \in D, ParentIn(q, i) = m, ~(i < i0) PROVE FALSE
    OBVIOUS
  <2>1. i \in (i0 + 1)..n
    BY <1>1, <1>2, <1>6
  <2>2. ParentIn(q, i) >= i0
    BY <1>2, <2>1 DEF Behind, n
  <2> QED BY <1>2, <1>3, <2>2
<1> DEFINE G(h) == Goes(q, fr, res, h)
           H(h) == Goes(q, p, end, h)
<1>8. ASSUME NEW h PROVE H(h) = G(h) \cup (IF h = m THEN {i0} ELSE {}) /\ G(h) \subseteq 1..n
  <2>1. ParentIn(q, i0) = m
    BY <1>2, <1>3
  <2>2. Done(q, p, end) = D \cup {i0} /\ G(h) = {i \in D : ParentIn(q, i) = h}
    BY DEF D, i0, Goes
  <2>3. H(h) = {i \in D \cup {i0} : ParentIn(q, i) = h}
    BY <2>2 DEF Goes
  <2> HIDE DEF G, H
  <2> QED BY <1>6, <2>1, <2>2, <2>3
<1>9. ListIn(q, H(m)) = Append(ListIn(q, G(m)), res)
  <2>1. H(m) = G(m) \cup {i0} /\ G(m) \subseteq 1..n
    BY <1>8
  <2>2. \A i \in G(m) : i < i0
    BY <1>7 DEF Goes, D
  <2> HIDE DEF G, H
  <2>3. ListIn(q, G(m) \cup {i0}) = Append(ListIn(q, G(m)), NodeIn(q, i0))
    BY <1>1, <1>2, <2>1, <2>2, ListAdd DEF n
  <2> QED BY <1>5, <2>1, <2>3
<1>10. \A h : h # m => H(h) = G(h)
  <2> HIDE DEF G, H
  <2> QED BY <1>8
<1>11. kd = [h \in Holders(q) |-> ListIn(q, G(h))]
  BY DEF KidsOK
<1> HIDE DEF G, H
<1>12. [kd EXCEPT ![m] = Append(@, res)] = [h \in Holders(q) |-> ListIn(q, H(h))]
  BY <1>4, <1>9, <1>10, <1>11
<1> QED BY <1>12 DEF KidsOK, H, m

LEMMA DoneGrows ==
  ASSUME NEW q \in Seq(Tokens), NEW t \in Tokens, NEW fr, NEW p, NEW res,
         \A i \in 1..Len(q) : q[i] \in Nodes =>
           (i \notin Held(p) /\ (res # Reading => i # TokenOf(Append(q, t), res)) <=> i \notin Held(fr)),
         t \in Nodes => \/ Len(q) + 1 \in Held(p)
                        \/ res # Reading /\ TokenOf(Append(q, t), res) = Len(q) + 1
  PROVE  Done(Append(q, t), p, res) = Done(q, fr, Reading)
<1> DEFINE r == Append(q, t)
           n == Len(q)
<1>1. n \in Nat /\ Len(r) = n + 1 /\ r[n + 1] = t /\ \A k \in 1..n : r[k] = q[k]
  BY AppendIs
<1> DEFINE A == Done(r, p, res)
           B == Done(q, fr, Reading)
<1>2. \A i \in 1..(n + 1) : i = n + 1 \/ i \in 1..n
  BY <1>1
<1>3. \A i \in 1..n : i \in 1..(n + 1)
  BY <1>1
<1>4. ASSUME NEW i \in A PROVE i \in B
  <2>1. i \in 1..(n + 1) /\ r[i] \in Nodes /\ i \notin Held(p) /\ (res # Reading => i # TokenOf(r, res))
    BY <1>1 DEF Done
  <2>2. i \in 1..n
    BY <1>1, <1>2, <2>1
  <2>3. i \notin Held(fr) /\ q[i] \in Nodes
    BY <1>1, <2>1, <2>2
  <2> QED BY <2>2, <2>3 DEF Done
<1>5. ASSUME NEW i \in B PROVE i \in A
  <2>1. i \in 1..n /\ q[i] \in Nodes /\ i \notin Held(fr)
    BY DEF Done
  <2>2. i \in 1..(n + 1) /\ r[i] \in Nodes /\ i \notin Held(p) /\ (res # Reading => i # TokenOf(r, res))
    BY <1>1, <1>3, <2>1
  <2> QED BY <1>1, <2>2 DEF Done
<1> HIDE DEF A, B
<1>6. A = B
  BY <1>4, <1>5
<1> QED BY <1>6 DEF A, B, r

-----------------------------------------------------------------------------
(* The actions.                                                            *)
LEMMA FollowingIs ==
  ASSUME StackInv, result = Reading, frames # <<>>, NEW t \in Following
  PROVE  /\ Reads(stream, frames) /\ good = TRUE /\ t \in Tokens
         /\ Top = TopOf(frames) /\ Here = Len(stream) + 1 /\ Pop = PopOf(frames)
         /\ fresh \in BOOLEAN /\ (fresh <=> KindIn(stream, Len(stream)) \in Lists)
         /\ PrefixedIn(stream, Len(stream)) => t \notin Enders \cup {"subscript"}
         /\ Top.kind = "args" => t \notin {"subscript", "endObject"}
         /\ Top.kind = "object" => t \in {"value", "subscript", "endObject"}
<1> DEFINE q == stream
           fr == frames
           n == Len(q)
           top == TopOf(fr)
           kind == Kind(Owner(Here))
<1>1. /\ q \in Seq(Tokens) /\ fr \in Seq(FrameRecord) /\ fresh \in BOOLEAN /\ good \in BOOLEAN
      /\ ChainsOK(q) /\ StackOK(q, fr) /\ (fresh <=> KindIn(q, n) \in Lists)
      /\ ReadsOn(q, fr, good) /\ PrefixesWhole(q, fr, good) /\ (good => NestOK(q, fr))
  BY DEF StackInv, Fits
<1>2. good = TRUE
  BY <1>1 DEF ReadsOn
<1>3. Reads(q, fr)
  BY <1>1, <1>2 DEF Reads
<1>4. Top = top /\ Here = n + 1 /\ Pop = PopOf(fr)
  BY DEF Top, TopOf, Here, Pop, PopOf
<1>5. /\ top \in FrameRecord /\ FrameOK(q, top)
      /\ ~IsPrefix(top) => ~PrefixedIn(q, n) /\ OwnerIn(q, n + 1) = top.node
  BY <1>3, ReadsTop
<1>6. kind = KindIn(q, OwnerIn(q, n + 1)) /\ (Prefixed(n) <=> PrefixedIn(q, n))
  BY <1>4, LooksBack
<1>7. /\ t \in Tokens
      /\ ~PrefixedIn(q, n) /\ kind = "object" => t \in {"value", "subscript"} \cup {End[kind]}
      /\ ~(~PrefixedIn(q, n) /\ kind = "object") =>
           t # "subscript" /\ (t \in Enders => ~PrefixedIn(q, n) /\ t = End[kind])
  BY <1>6 DEF Following
<1> HIDE DEF q, fr, n, top, kind
<1>8. PrefixedIn(q, n) => t \notin Enders \cup {"subscript"}
  BY <1>7
<1>9. ASSUME top.kind = "args" PROVE t \notin {"subscript", "endObject"}
  <2>1. ~IsPrefix(top) /\ KindIn(q, top.node) \in Lists
    BY <1>1, <1>5, <1>9, FrameIs DEF IsPrefix
  <2>2. kind \in Lists
    BY <1>5, <1>6, <2>1
  <2> QED BY <1>7, <2>2, TokenSets
<1>10. ASSUME top.kind = "object" PROVE t \in {"value", "subscript", "endObject"}
  <2>1. ~IsPrefix(top) /\ KindIn(q, top.node) = "object"
    <3>1. top.node # 0 /\ q[top.node] = "object"
      BY <1>1, <1>5, <1>10, FrameIs
    <3> QED BY <1>10, <3>1 DEF IsPrefix, KindIn, Statement
  <2>2. kind = "object" /\ ~PrefixedIn(q, n)
    BY <1>5, <1>6, <2>1
  <2> QED BY <1>7, <2>2, TokenSets
<1> QED BY <1>1, <1>2, <1>3, <1>4, <1>7, <1>8, <1>9, <1>10 DEF q, fr, n, top

(* One opcode, of whichever kind.                                          *)
LEMMA ReadKeeps ==
  ASSUME StackInv, KidsInv, result = Reading, frames # <<>>, NEW t \in Following, Read(t)
  PROVE  /\ Fits(Append(stream, t), frames', fresh', result', good)
         /\ KidsOK(Append(stream, t), frames', result', kids')
<1> DEFINE q == stream
           fr == frames
           n == Len(q)
           top == TopOf(fr)
           r == Append(q, t)
<1>1. /\ Reads(q, fr) /\ good = TRUE /\ t \in Tokens
      /\ Top = top /\ Here = n + 1 /\ Pop = PopOf(fr)
      /\ fresh \in BOOLEAN /\ (fresh <=> KindIn(q, n) \in Lists)
      /\ PrefixedIn(q, n) => t \notin Enders \cup {"subscript"}
      /\ top.kind = "args" => t \notin {"subscript", "endObject"}
      /\ top.kind = "object" => t \in {"value", "subscript", "endObject"}
  BY FollowingIs
<1>2. /\ q \in Seq(Tokens) /\ n \in Nat /\ fr \in Seq(FrameRecord) /\ fr # <<>> /\ StackOK(q, fr)
  BY <1>1, ReadsIs
<1>3. /\ top \in FrameRecord /\ FrameOK(q, top)
      /\ IsPrefix(top) => PrefixedIn(q, n)
  BY <1>1, ReadsTop
<1>4. KidsOK(q, fr, Reading, kids)
  BY DEF KidsInv
<1>5. Held(fr) \subseteq 0..n
  BY <1>2, <1>3, HeldPop DEF FrameOK
<1>6. Len(r) = n + 1
  BY <1>1, <1>2, AppendIs
<1> HIDE DEF q, fr, n, top, r
<1>7. n + 1 \notin Held(fr) /\ \A i \in 1..n : i # n + 1
  BY <1>2, <1>5
<1>8. Reading # Null /\ \A i \in Nat : i # Reading /\ i # Null
  BY DEF Reading, Null
<1>9. ASSUME MatchOpen(t)
      PROVE  Fits(r, frames', fresh', result', good) /\ KidsOK(r, frames', result', kids')
  <2>1. /\ t = "paren" /\ frames' = fr /\ fresh' = FALSE /\ result' = Reading /\ kids' = kids
        /\ Awaited(t)
    BY <1>9 DEF MatchOpen, fr
  <2>2. KindIn(q, n) \in Lists
    BY <1>1, <2>1 DEF Awaited
  <2>3. Fits(r, fr, FALSE, Reading, TRUE)
    BY <1>1, <2>1, <2>2, FitsOpen DEF n, r
  <2>4. t \notin Nodes /\ t \notin Openers \cup {"subscript"}
    BY <2>1, TokenSets
  <2>5. Done(r, fr, Reading) = Done(q, fr, Reading)
    BY <1>1, <1>2, <2>4, DoneGrows DEF r, n
  <2>6. KidsOK(r, fr, Reading, kids)
    BY <1>1, <1>2, <1>4, <2>4, <2>5, KidsGrow DEF r
  <2> QED BY <1>1, <2>1, <2>3, <2>6
<1>10. ASSUME t \in Enders, ~IsPrefix(top), frames' = PopOf(fr), fresh' = FALSE, kids' = kids,
              result' = IF top.node = Statement THEN Reading ELSE top.node
       PROVE  Fits(r, frames', fresh', result', good) /\ KidsOK(r, frames', result', kids')
  <2> DEFINE p == PopOf(fr)
             res == IF top.node = Statement THEN Reading ELSE top.node
  <2>1. Fits(r, p, FALSE, res, TRUE)
    BY <1>1, <1>10, FitsEnd DEF r, top
  <2>2. t \notin Nodes /\ t \notin Openers \cup {"subscript"}
    BY <1>10, TokenSets
  <2>3. Held(p) = Held(fr) \ {top.node} /\ top.node \in Held(fr) /\ top.node \in 0..n
    BY <1>2, <1>5, HeldPop DEF top
  <2>4. ASSUME NEW i \in 1..n
        PROVE  i \notin Held(p) /\ (res # Reading => i # TokenOf(r, res)) <=> i \notin Held(fr)
    <3>1. CASE top.node = 0
      BY <1>2, <2>3, <3>1 DEF Statement
    <3>2. CASE top.node # 0
      <4>1. res = top.node /\ res # Reading /\ TokenOf(r, res) = top.node
        BY <1>8, <2>3, <3>2 DEF Statement, TokenOf
      <4> QED BY <2>3, <4>1
    <3> QED BY <3>1, <3>2
  <2> HIDE DEF res, p
  <2>5. Done(r, p, res) = Done(q, fr, Reading)
    <3>1. \A i \in 1..Len(q) : q[i] \in Nodes =>
            (i \notin Held(p) /\ (res # Reading => i # TokenOf(Append(q, t), res)) <=> i \notin Held(fr))
      BY <2>4 DEF r, n
    <3>2. Done(Append(q, t), p, res) = Done(q, fr, Reading)
      BY <1>1, <1>2, <2>2, <3>1, DoneGrows, SMTT(60)
    <3> QED BY <3>2 DEF r
  <2>6. KidsOK(r, p, res, kids)
    BY <1>1, <1>2, <1>4, <2>2, <2>5, KidsGrow DEF r
  <2> QED BY <1>1, <1>10, <2>1, <2>6 DEF res, p
<1>11. ASSUME EndArgs(t)
       PROVE  Fits(r, frames', fresh', result', good) /\ KidsOK(r, frames', result', kids')
  <2>1. /\ t \in {"end", "endBrace"} /\ Awaited(t) /\ fresh' = FALSE /\ kids' = kids
        /\ frames' = PopOf(fr) /\ result' = IF top.node = Statement THEN Reading ELSE top.node
    BY <1>1, <1>11 DEF EndArgs, ReturnList
  <2>2. ~IsPrefix(top) /\ t \in Enders
    <3>1. t \in Enders
      BY <2>1, TokenSets
    <3> QED BY <1>1, <1>3, <3>1
  <2> QED BY <1>10, <2>1, <2>2
<1>12. ASSUME EndObject(t)
       PROVE  Fits(r, frames', fresh', result', good) /\ KidsOK(r, frames', result', kids')
  <2>1. /\ t = "endObject" /\ Awaited(t) /\ kids' = kids /\ fresh' = fresh
        /\ frames' = PopOf(fr) /\ result' = top.node
    BY <1>1, <1>12 DEF EndObject
  <2>2. top.kind = "object" /\ t \in Enders
    BY <1>1, <2>1, TokenSets DEF Awaited
  <2>3. ~IsPrefix(top) /\ top.node # 0 /\ q[top.node] = "object"
    <3>1. top.node # 0 /\ q[top.node] = "object"
      BY <1>2, <1>3, <2>2, FrameIs
    <3> QED BY <2>2, <3>1 DEF IsPrefix
  <2>4. KindIn(q, n) \notin Lists
    <3> SUFFICES ASSUME KindIn(q, n) \in Lists PROVE FALSE
      OBVIOUS
    <3>1. KindIn(q, n) \in Openers
      BY TokenSets
    <3>2. top.node = n
      BY <1>1, <1>2, <3>1, ReadsIs DEF ReadsOn, top, n
    <3>3. KindIn(q, n) = "object"
      BY <2>3, <3>2 DEF KindIn, Statement
    <3> QED BY <3>3, TokenSets
  <2>5. fresh' = FALSE
    BY <1>1, <2>1, <2>4
  <2>6. result' = IF top.node = Statement THEN Reading ELSE top.node
    BY <2>1, <2>3 DEF Statement
  <2> QED BY <1>10, <2>1, <2>2, <2>3, <2>5, <2>6
<1>13. ASSUME ParseAtom(t)
       PROVE  Fits(r, frames', fresh', result', good) /\ KidsOK(r, frames', result', kids')
  <2> DEFINE res == IF t = "unknown" THEN Null ELSE n + 1
  <2>1. t \in Atoms /\ frames' = fr /\ fresh' = FALSE /\ kids' = kids /\ result' = res
    BY <1>1, <1>13 DEF ParseAtom, fr
  <2>2. Fits(r, fr, FALSE, res, TRUE)
    BY <1>1, <2>1, FitsAtom DEF r, n
  <2>3. res # Reading /\ TokenOf(r, res) = n + 1
    <3>1. n + 1 # Reading /\ n + 1 # Null /\ Null # Reading
      BY <1>2 DEF Reading, Null
    <3>2. CASE t = "unknown"
      BY <1>6, <3>1, <3>2 DEF TokenOf
    <3>3. CASE t # "unknown"
      BY <3>1, <3>3 DEF TokenOf
    <3> QED BY <3>2, <3>3
  <2>4. t \notin Openers \cup {"subscript"}
    BY <2>1, TokenSets
  <2> HIDE DEF res
  <2>5. Done(r, fr, res) = Done(q, fr, Reading)
    BY <1>1, <1>2, <1>7, <2>3, DoneGrows DEF r, n
  <2>6. KidsOK(r, fr, res, kids)
    BY <1>1, <1>2, <1>4, <2>4, <2>5, KidsGrow DEF r
  <2> QED BY <1>1, <2>1, <2>2, <2>6
<1>14. ASSUME NEW k \in {"args", "through", "object", "subscript"},
              \/ k = "through" /\ t \in {"var", "paren"} /\ ~(t = "paren" /\ KindIn(q, n) \in Lists)
              \/ k = "args" /\ t \in Lists
              \/ k = t /\ t \in {"object", "subscript"},
              frames' = Push(k), fresh' \in BOOLEAN, fresh' <=> t \in Lists, result' = Reading,
              kids' = IF k = "through" THEN kids ELSE Added(kids, n + 1, <<>>)
       PROVE  Fits(r, frames', fresh', result', good) /\ KidsOK(r, frames', result', kids')
  <2> DEFINE x == [kind |-> k, node |-> n + 1]
             p == Append(fr, x)
  <2>1. frames' = p
    BY <1>1, <1>14 DEF Push, fr
  <2>2. x \in FrameRecord /\ x.node = n + 1 /\ x.kind = k
    BY <1>2 DEF FrameRecord
  <2> HIDE DEF x
  <2>3. Fits(r, p, fresh', Reading, TRUE)
    <3>1. Reads(q, fr) /\ t \in Tokens /\ (PrefixedIn(q, Len(q)) => t # "subscript") /\ x.node = Len(q) + 1
      BY <1>1, <2>2 DEF n
    <3>2. \/ x.kind = "through" /\ t \in {"var", "paren"} /\ ~(t = "paren" /\ KindIn(q, Len(q)) \in Lists)
          \/ x.kind = "args" /\ t \in Lists
          \/ x.kind = t /\ t \in {"object", "subscript"}
      BY <1>14, <2>2 DEF n
    <3>3. fresh' \in BOOLEAN /\ (fresh' <=> t \in Lists)
      BY <1>14
    <3> HIDE DEF p
    <3>4. Fits(Append(q, t), Append(fr, x), fresh', Reading, TRUE)
      BY <2>2, <3>1, <3>2, <3>3, FitsPush
    <3> QED BY <3>4 DEF r, p
  <2>4. Held(p) = Held(fr) \cup {n + 1}
    BY <1>2, <2>2, HeldPush
  <2>5. \A i \in 1..n : i \notin Held(p) <=> i \notin Held(fr)
    BY <1>7, <2>4
  <2> HIDE DEF p
  <2>6. Done(r, p, Reading) = Done(q, fr, Reading)
    BY <1>1, <1>2, <2>4, <2>5, DoneGrows DEF r, n
  <2>7. k = "through" <=> t \notin Openers \cup {"subscript"}
    BY <1>14, TokenSets
  <2>8. KidsOK(r, p, Reading, kids')
    BY <1>1, <1>2, <1>4, <1>14, <2>6, <2>7, KidsGrow DEF r, n
  <2> QED BY <1>1, <1>14, <2>1, <2>3, <2>8
<1>15. ASSUME ParsePrefix(t)
       PROVE  Fits(r, frames', fresh', result', good) /\ KidsOK(r, frames', result', kids')
  <2>1. /\ t \in {"var", "paren"} /\ ~Awaited(t) /\ frames' = Push("through") /\ fresh' = FALSE
        /\ result' = Reading /\ kids' = kids
    BY <1>15 DEF ParsePrefix
  <2>2. ~(t = "paren" /\ KindIn(q, n) \in Lists)
    BY <1>1, <2>1 DEF Awaited
  <2>3. fresh' \in BOOLEAN /\ (fresh' <=> t \in Lists)
    BY <2>1, TokenSets
  <2> QED BY <1>14, <2>1, <2>2, <2>3
<1>16. ASSUME ParseArgs(t)
       PROVE  Fits(r, frames', fresh', result', good) /\ KidsOK(r, frames', result', kids')
  <2>1. /\ t \in Lists /\ frames' = Push("args") /\ fresh' = TRUE
        /\ result' = Reading /\ kids' = Added(kids, n + 1, <<>>)
    BY <1>1, <1>16 DEF ParseArgs
  <2> QED BY <1>14, <2>1
<1>17. ASSUME ParseObject(t)
       PROVE  Fits(r, frames', fresh', result', good) /\ KidsOK(r, frames', result', kids')
  <2>1. /\ t \in {"object", "subscript"} /\ frames' = Push(t) /\ fresh' = FALSE
        /\ result' = Reading /\ kids' = Added(kids, n + 1, <<>>)
    BY <1>1, <1>17 DEF ParseObject
  <2>2. fresh' \in BOOLEAN /\ (fresh' <=> t \in Lists)
    BY <2>1, TokenSets
  <2> QED BY <1>14, <2>1, <2>2
<1>18. Fits(r, frames', fresh', result', good) /\ KidsOK(r, frames', result', kids')
  BY <1>9, <1>11, <1>12, <1>13, <1>15, <1>16, <1>17 DEF Read
<1> QED BY <1>18 DEF r, q

LEMMA DoneAdds ==
  ASSUME NEW q, NEW fr, NEW fs, NEW res, NEW g, Returns(q, fr, fs, res, g), NEW p, NEW end,
         \A i \in 1..Len(q) :
           i \notin Held(p) /\ (end # Reading => i # TokenOf(q, end)) <=> i \notin Held(fr)
  PROVE  Done(q, p, end) = Done(q, fr, res) \cup {TokenOf(q, res)}
<1> DEFINE i0 == TokenOf(q, res)
           n == Len(q)
<1>1. /\ n \in Nat /\ fr \in Seq(FrameRecord) /\ fr # <<>> /\ StackOK(q, fr)
      /\ TopOf(fr) \in FrameRecord /\ Returned(q, fr, res, g) /\ res # Reading
  BY ReturnsIs DEF Returns
<1>2. i0 \in 1..n /\ q[i0] \in Nodes /\ TopOf(fr).node < i0
  BY <1>1 DEF Returned
<1>3. i0 \notin Held(fr)
  <2>1. Held(fr) \subseteq 0..TopOf(fr).node /\ TopOf(fr).node \in Nat
    BY <1>1, HeldPop DEF FrameRecord
  <2> HIDE DEF i0
  <2> QED BY <1>1, <1>2, <2>1
<1> HIDE DEF i0, n
<1>4. Done(q, p, end) = {i \in 1..n : q[i] \in Nodes /\ i \notin Held(fr)}
  BY DEF Done, n
<1>5. Done(q, fr, res) = {i \in 1..n : q[i] \in Nodes /\ i \notin Held(fr) /\ i # i0}
  BY <1>1 DEF Done, n, i0
<1> QED BY <1>2, <1>3, <1>4, <1>5 DEF i0

(* The method on top takes the node and returns its own.                   *)
LEMMA DonePop ==
  ASSUME NEW q, NEW fr, NEW fs, NEW res, NEW g, Returns(q, fr, fs, res, g)
  PROVE  Done(q, PopOf(fr), IF TopOf(fr).node = Statement THEN Reading ELSE TopOf(fr).node)
           = Done(q, fr, res) \cup {TokenOf(q, res)}
<1> DEFINE m == TopOf(fr).node
           p == PopOf(fr)
           end == IF m = Statement THEN Reading ELSE m
<1>1. /\ fr \in Seq(FrameRecord) /\ fr # <<>> /\ StackOK(q, fr) /\ m \in Nat
  BY ReturnsIs DEF FrameRecord
<1>2. Held(p) = Held(fr) \ {m} /\ m \in Held(fr)
  BY <1>1, HeldPop
<1>3. m # Reading /\ m # Null
  BY <1>1 DEF Reading, Null
<1> HIDE DEF m, p
<1>4. ASSUME NEW i \in 1..Len(q)
      PROVE  i \notin Held(p) /\ (end # Reading => i # TokenOf(q, end)) <=> i \notin Held(fr)
  <2>1. CASE m = 0
    BY <1>2, <2>1 DEF Statement
  <2>2. CASE m # 0
    <3>1. end = m /\ end # Reading /\ TokenOf(q, end) = m
      BY <1>3, <2>2 DEF Statement, TokenOf
    <3> HIDE DEF end
    <3> QED BY <1>2, <3>1
  <2> QED BY <2>1, <2>2
<1> HIDE DEF end
<1>5. Done(q, p, end) = Done(q, fr, res) \cup {TokenOf(q, res)}
  BY <1>4, DoneAdds
<1> QED BY <1>5 DEF m, p, end

(* A node that is returned.                                                *)
LEMMA ReturnKeeps ==
  ASSUME StackInv, KidsInv, ReturnThrough \/ ReturnSubscript \/ ReturnField \/ ReturnArg
  PROVE  StackInv' /\ KidsInv'
<1> DEFINE q == stream
           fr == frames
           top == TopOf(fr)
<1>1. Top = top /\ Pop = PopOf(fr)
  BY DEF Top, TopOf, Pop, PopOf
<1>2. Returns(q, fr, fresh, result, good) /\ stream' = stream /\ fresh' = fresh
  <2>1. result # Reading /\ stream' = stream /\ fresh' = fresh
    BY DEF ReturnThrough, ReturnSubscript, ReturnField, ReturnArg, Returning
  <2> QED BY <2>1 DEF StackInv, Returns
<1>3. KidsOK(q, fr, result, kids)
  BY DEF KidsInv
<1>4. /\ q \in Seq(Tokens) /\ fr \in Seq(FrameRecord) /\ fr # <<>> /\ StackOK(q, fr)
      /\ top \in FrameRecord /\ FrameOK(q, top) /\ result # Reading /\ good \in BOOLEAN
      /\ ~good => \A d \in 1..Len(fr) : fr[d].kind \in {"args", "through"}
      /\ ~good => top.kind \in {"args", "through"}
  BY <1>2, ReturnsIs DEF Returns
<1> HIDE DEF q, fr, top
<1>5. SUFFICES /\ Fits(q, frames', fresh, result', good')
               /\ KidsOK(q, frames', result', kids')
  BY <1>2 DEF StackInv, KidsInv, q
<1>6. ASSUME ReturnThrough
      PROVE  Fits(q, frames', fresh, result', good') /\ KidsOK(q, frames', result', kids')
  <2>1. top.kind = "through" /\ frames' = PopOf(fr) /\ result' = result /\ kids' = kids /\ good' = good
    BY <1>1, <1>6 DEF ReturnThrough, Returning
  <2>2. Fits(q, PopOf(fr), fresh, result, good)
    BY <1>2, <2>1, FitsThrough DEF q, fr, top
  <2>3. q[top.node] \notin Nodes
    <3>1. q[top.node] \in PrefixOps /\ q[top.node] # "subscript"
      BY <1>4, <2>1, FrameIs DEF IsPrefix
    <3> QED BY <3>1, TokenSets
  <2>4. Held(PopOf(fr)) = Held(fr) \ {top.node}
    BY <1>4, HeldPop DEF top
  <2>5. Done(q, PopOf(fr), result) = Done(q, fr, result)
    BY <2>3, <2>4 DEF Done
  <2>6. KidsOK(q, PopOf(fr), result, kids)
    BY <1>3, <2>5 DEF KidsOK, Goes
  <2> QED BY <2>1, <2>2, <2>6
<1>7. ASSUME ReturnSubscript
      PROVE  Fits(q, frames', fresh, result', good') /\ KidsOK(q, frames', result', kids')
  <2> DEFINE end == IF top.node = Statement THEN Reading ELSE top.node
  <2>1. /\ top.kind = "subscript" /\ frames' = PopOf(fr) /\ result' = top.node /\ good' = good
        /\ kids' = [kids EXCEPT ![top.node] = Append(@, result)]
    BY <1>1, <1>7 DEF ReturnSubscript, Returning, AddArg
  <2>2. Fits(q, PopOf(fr), fresh, top.node, good)
    BY <1>2, <2>1, FitsSubscript DEF q, fr, top
  <2>3. end = top.node
    <3>1. top.node # 0
      BY <1>4, <2>1, FrameIs DEF IsPrefix
    <3> QED BY <3>1 DEF Statement
  <2>4. Done(q, PopOf(fr), end) = Done(q, fr, result) \cup {TokenOf(q, result)}
    BY <1>2, DonePop DEF q, fr, top
  <2> HIDE DEF end
  <2>5. Done(q, PopOf(fr), top.node) = Done(q, fr, result) \cup {TokenOf(q, result)}
    BY <2>3, <2>4
  <2>6. Returns(q, fr, fresh, result, good) /\ TopOf(fr).kind # "through"
    BY <1>2, <2>1 DEF q, fr, top
  <2>7. KidsOK(q, PopOf(fr), top.node, [kids EXCEPT ![TopOf(fr).node] = Append(@, result)])
    BY <1>3, <2>5, <2>6, KidsTake
  <2> QED BY <2>1, <2>2, <2>7 DEF top
<1>8. Done(q, fr, Reading) = Done(q, fr, result) \cup {TokenOf(q, result)}
  <2>1. Returns(q, fr, fresh, result, good)
    BY <1>2 DEF q, fr
  <2> QED BY <2>1, DoneAdds
<1>9. ASSUME ~IsPrefix(top), good, good' = good, frames' = fr, result' = Reading,
             kids' = [kids EXCEPT ![top.node] = Append(@, result)]
      PROVE  Fits(q, frames', fresh, result', good') /\ KidsOK(q, frames', result', kids')
  <2>1. good = TRUE /\ good' = TRUE
    BY <1>4, <1>9
  <2>2. Returns(q, fr, fresh, result, TRUE) /\ TopOf(fr).kind # "through" /\ ~IsPrefix(TopOf(fr))
    BY <1>2, <1>9, <2>1 DEF q, fr, top, IsPrefix
  <2>3. Fits(q, fr, fresh, Reading, TRUE)
    BY <2>2, FitsTaken
  <2>4. KidsOK(q, fr, Reading, [kids EXCEPT ![TopOf(fr).node] = Append(@, result)])
    BY <1>3, <1>8, <2>2, KidsTake
  <2> QED BY <1>9, <2>1, <2>3, <2>4 DEF top
<1>10. ASSUME ReturnField
       PROVE  Fits(q, frames', fresh, result', good') /\ KidsOK(q, frames', result', kids')
  <2>1. /\ top.kind = "object" /\ frames' = fr /\ result' = Reading /\ good' = good
        /\ kids' = [kids EXCEPT ![top.node] = Append(@, result)]
    BY <1>1, <1>10 DEF ReturnField, Returning, AddArg, fr
  <2>2. ~IsPrefix(top) /\ good
    BY <1>4, <2>1 DEF IsPrefix
  <2> QED BY <1>9, <2>1, <2>2
<1>11. ASSUME ReturnArg
       PROVE  Fits(q, frames', fresh, result', good') /\ KidsOK(q, frames', result', kids')
  <2> DEFINE end == IF top.node = Statement THEN Reading ELSE top.node
  <2>1. /\ top.kind = "args"
        /\ kids' = [kids EXCEPT ![top.node] = Append(@, result)]
        /\ good' \in {good} \cup (IF MayEnd THEN {FALSE} ELSE {})
        /\ IF good' THEN result' = Reading /\ frames' = frames ELSE ReturnList
    BY <1>1, <1>11 DEF ReturnArg, Returning, AddArg
  <2>2. ~IsPrefix(top)
    BY <2>1 DEF IsPrefix
  <2>3. CASE good'
    <3>1. good' = good /\ good
      BY <2>1, <2>3
    <3>2. frames' = fr /\ result' = Reading
      BY <2>1, <2>3 DEF fr
    <3> QED BY <1>9, <2>1, <2>2, <3>1, <3>2
  <2>4. CASE ~good'
    <3>1. good' = FALSE
      BY <1>4, <2>1, <2>4
    <3>2. frames' = PopOf(fr) /\ result' = end
      BY <1>1, <2>1, <2>4 DEF ReturnList
    <3>3. \A d \in 1..Len(fr) : fr[d].kind \in {"args", "through"}
      <4>1. CASE ~good
        BY <1>4, <4>1
      <4>2. CASE good
        <5>1. MayEnd
          BY <2>1, <2>4, <4>2
        <5>2. \A d \in DOMAIN fr : fr[d].kind \notin {"object", "subscript"}
          BY <5>1 DEF MayEnd, fr
        <5>3. DOMAIN fr = 1..Len(fr) /\ \A d \in 1..Len(fr) : fr[d] \in FrameRecord
          BY <1>4
        <5> QED BY <5>2, <5>3 DEF FrameRecord
      <4> QED BY <4>1, <4>2
    <3>4. Returns(q, fr, fresh, result, good) /\ TopOf(fr).kind = "args" /\ TopOf(fr).kind # "through"
      BY <1>2, <2>1 DEF q, fr, top
    <3>5. Fits(q, PopOf(fr), fresh, end, FALSE)
      BY <3>3, <3>4, FitsCut DEF top
    <3>6. Done(q, PopOf(fr), end) = Done(q, fr, result) \cup {TokenOf(q, result)}
      BY <3>4, DonePop DEF top
    <3> HIDE DEF end
    <3>7. KidsOK(q, PopOf(fr), end, [kids EXCEPT ![TopOf(fr).node] = Append(@, result)])
      BY <1>3, <3>4, <3>6, KidsTake
    <3> QED BY <2>1, <3>1, <3>2, <3>5, <3>7 DEF top
  <2> QED BY <2>3, <2>4
<1> QED BY <1>6, <1>7, <1>10, <1>11

-----------------------------------------------------------------------------
LEMMA InvInit == Init => StackInv /\ KidsInv
<1> SUFFICES ASSUME Init PROVE StackInv /\ KidsInv
  OBVIOUS
<1> DEFINE f == [kind |-> "args", node |-> Statement]
<1>1. /\ stream = <<>> /\ frames = <<f>> /\ fresh = TRUE /\ result = Reading /\ good = TRUE
      /\ kids = [n \in {Statement} |-> <<>>]
  BY DEF Init
<1>2. f \in FrameRecord /\ f.kind = "args" /\ f.node = 0
  BY DEF FrameRecord, Statement
<1> HIDE DEF f
<1>3. /\ stream \in Seq(Tokens) /\ Len(stream) = 0
      /\ frames \in Seq(FrameRecord) /\ Len(frames) = 1 /\ frames # <<>> /\ frames[1] = f
      /\ TopOf(frames) = f
  BY <1>1, <1>2 DEF TopOf
<1>4. /\ \A d \in 1..1 : d = 1
      /\ \A i \in 1..0 : FALSE
      /\ \A i \in 1..(1 - 1) : FALSE
      /\ \A i \in (0 + 1)..0 : FALSE
  OBVIOUS
<1>5. KindIn(stream, 0) = "call" /\ "call" \in Lists
  BY TokenSets DEF KindIn, Statement
<1>6. FrameOK(stream, f)
  <2>1. KindFits(stream, f)
    BY <1>2, <1>5 DEF KindFits
  <2>2. Behind(stream, 0)
    BY <1>3, <1>4 DEF Behind
  <2>3. 0 \in 0..0
    OBVIOUS
  <2> QED BY <1>2, <1>3, <2>1, <2>2, <2>3 DEF FrameOK
<1>7. StackOK(stream, frames)
  <2>1. /\ \A d \in 1..1 : FrameOK(stream, frames[d])
        /\ \A d \in 1..1 : \A e \in 1..(d - 1) : frames[e].node < frames[d].node
        /\ \A d \in 1..(1 - 1) : CallOK(stream, frames[d], frames[d + 1])
    BY <1>3, <1>4, <1>6
  <2> QED BY <1>2, <1>3, <2>1 DEF StackOK, Statement
<1>8. Held(frames) = {0}
  <2>1. 1 \in 1..1
    OBVIOUS
  <2>2. Held(frames) = {frames[d].node : d \in 1..1}
    BY <1>3 DEF Held
  <2> QED BY <1>2, <1>3, <1>4, <2>1, <2>2
<1>9. ChainsOK(stream) /\ PrefixesWhole(stream, frames, TRUE)
  BY <1>3, <1>4 DEF ChainsOK, PrefixesWhole
<1>10. NestOK(stream, frames)
  <2>1. DepthIn(stream, 0 + 1) = Level(stream, f)
    BY <1>2 DEF Level
  <2>2. \A k \in (0 + 1)..(0 + 1) : k = 0 + 1
    OBVIOUS
  <2>3. DepthIn(stream, 0 + 1) \in Int
    BY DepthType
  <2>4. \A k \in (f.node + 1)..(0 + 1) : DepthIn(stream, k) >= Level(stream, f)
    BY <1>2, <2>1, <2>2, <2>3
  <2>5. ~ClosedIn(stream, 0)
    BY <1>3, <1>4 DEF ClosedIn
  <2>6. \A d \in 1..1 : \A k \in (frames[d].node + 1)..(0 + 1) : DepthIn(stream, k) >= Level(stream, frames[d])
    BY <1>3, <1>4, <2>4
  <2>7. /\ \A i \in 1..Len(stream) : stream[i] \in Openers /\ i \notin Held(frames) => ClosedIn(stream, i)
        /\ \A d \in 1..(Len(frames) - 1) : DepthIn(stream, frames[d + 1].node) = Level(stream, frames[d])
    BY <1>3, <1>4
  <2> QED BY <1>3, <1>8, <2>1, <2>5, <2>6, <2>7 DEF NestOK
<1>11. ReadsOn(stream, frames, TRUE)
  BY <1>2, <1>3 DEF ReadsOn
<1>12. Fits(stream, frames, TRUE, Reading, TRUE)
  <2>1. TRUE <=> KindIn(stream, Len(stream)) \in Lists
    BY <1>3, <1>5
  <2>2. Reading \in {Reading, Null} \cup 1..Len(stream)
    OBVIOUS
  <2> QED BY <1>3, <1>7, <1>9, <1>10, <1>11, <2>1, <2>2 DEF Fits
<1>13. KidsInv
  <2>1. Holders(stream) = {Statement}
    BY <1>3, <1>4 DEF Holders
  <2>2. Done(stream, frames, result) = {}
    BY <1>3, <1>4 DEF Done
  <2>3. ASSUME NEW h PROVE ListIn(stream, Goes(stream, frames, result, h)) = <<>>
    <3>1. Goes(stream, frames, result, h) = {}
      BY <2>2 DEF Goes
    <3> QED BY <3>1, ListEmpty
  <2>4. kids = [h \in Holders(stream) |-> ListIn(stream, Goes(stream, frames, result, h))]
    BY <1>1, <2>1, <2>3
  <2> QED BY <2>4 DEF KidsInv, KidsOK
<1> QED BY <1>1, <1>12, <1>13 DEF StackInv

LEMMA InvNext == StackInv /\ KidsInv /\ [Next]_vars => StackInv' /\ KidsInv'
<1> SUFFICES ASSUME StackInv, KidsInv, [Next]_vars PROVE StackInv' /\ KidsInv'
  OBVIOUS
<1>1. CASE ReadByte
  <2>1. result = Reading /\ frames # <<>> /\ good' = good
    BY <1>1 DEF ReadByte
  <2>2. PICK t \in Following : Read(t) /\ stream' = Append(stream, t)
    BY <1>1 DEF ReadByte
  <2>3. /\ Fits(Append(stream, t), frames', fresh', result', good)
        /\ KidsOK(Append(stream, t), frames', result', kids')
    BY <2>1, <2>2, ReadKeeps
  <2> QED BY <2>1, <2>2, <2>3 DEF StackInv, KidsInv
<1>2. CASE ReturnThrough \/ ReturnSubscript \/ ReturnField \/ ReturnArg
  BY <1>2, ReturnKeeps
<1>3. CASE UNCHANGED vars
  BY <1>3 DEF StackInv, KidsInv, vars
<1>4. CASE Finished
  BY <1>3, <1>4 DEF Finished
<1> QED BY <1>1, <1>2, <1>3, <1>4 DEF Next

LEMMA Invariant == Spec => [](StackInv /\ KidsInv)
BY InvInit, InvNext, PTL DEF Spec

(* The invariant gives the types.                                          *)
LEMMA TypeHolds == StackInv /\ KidsInv => ExprTypeOK
<1> SUFFICES ASSUME StackInv, KidsInv PROVE ExprTypeOK
  OBVIOUS
<1>1. /\ stream \in Seq(Tokens) /\ frames \in Seq(FrameRecord)
      /\ fresh \in BOOLEAN /\ good \in BOOLEAN /\ result \in {Reading, Null} \cup 1..Len(stream)
      /\ StackOK(stream, frames)
  BY DEF StackInv, Fits
<1>2. Len(stream) \in Nat /\ Len(frames) \in Nat /\ \A d \in 1..Len(frames) : frames[d] \in FrameRecord
  BY <1>1
<1> DEFINE F == [kind : {"args", "through", "object", "subscript"}, node : 0..Len(stream)]
<1>3. \A d \in 1..Len(frames) : frames[d] \in F
  <2>1. \A d \in 1..Len(frames) : frames[d].node \in 0..Len(stream)
    BY <1>1 DEF StackOK, FrameOK
  <2> QED BY <1>2, <2>1 DEF FrameRecord
<1>4. frames \in Seq(F)
  <2> HIDE DEF F
  <2>1. frames = [d \in 1..Len(frames) |-> frames[d]]
    BY <1>1
  <2>2. frames \in [1..Len(frames) -> F]
    BY <1>3, <2>1
  <2> QED BY <1>2, <2>2
<1>5. \A d \in 1..(Len(frames) - 1) : frames[d].node < frames[d + 1].node
  <2>1. \A d \in 1..(Len(frames) - 1) : d + 1 \in 1..Len(frames) /\ d \in 1..((d + 1) - 1)
    BY <1>2
  <2> QED BY <1>1, <2>1 DEF StackOK
<1>6. kids \in [DOMAIN kids -> Seq({Null} \cup 1..Len(stream))]
  <2>1. ASSUME NEW h PROVE ListIn(stream, Goes(stream, frames, result, h)) \in Seq({Null} \cup 1..Len(stream))
    <3>1. Goes(stream, frames, result, h) \subseteq 1..Len(stream)
      BY DEF Goes, Done
    <3> QED BY <1>2, <3>1, ListType
  <2>2. kids = [h \in Holders(stream) |-> ListIn(stream, Goes(stream, frames, result, h))]
    BY DEF KidsInv, KidsOK
  <2> HIDE DEF Goes
  <2> QED BY <2>1, <2>2
<1> QED BY <1>1, <1>4, <1>5, <1>6 DEF ExprTypeOK

(* Nodes refer to what has been read, and a method in progress belongs to  *)
(* a token behind that of the method that called it, however deep          *)
(* ParseFunCall, ParseArgs and ParseNode are in each other.                *)
THEOREM ExprTypeCorrect == Spec => []ExprTypeOK
BY Invariant, TypeHolds, PTL

(* The node of a method in progress is not complete.                       *)
LEMMA HeldIsOpen ==
  ASSUME NEW q, NEW fr, Reads(q, fr) \/ (fr = <<>> /\ q \in Seq(Tokens)), NEW i \in Held(fr), i # 0
  PROVE  i \in 1..Len(q) /\ (q[i] \in Openers \/ PrefixedIn(q, i)) /\ ~WholeIn(q, TRUE, i)
<1> DEFINE L == Len(fr)
           n == Len(q)
           T == {d \in 1..L : IsPrefix(fr[d]) /\ WholeIn(q, TRUE, fr[d].node)}
<1>1. fr # <<>>
  <2>1. fr = <<>> => 1..Len(fr) = {}
    OBVIOUS
  <2> QED BY <2>1 DEF Held
<1>2. /\ Reads(q, fr) /\ q \in Seq(Tokens) /\ n \in Nat /\ fr \in Seq(FrameRecord) /\ L \in Nat \ {0}
      /\ StackOK(q, fr) /\ NestOK(q, fr) /\ \A d \in 1..L : fr[d] \in FrameRecord
  BY <1>1, ReadsIs, PopIs
<1>3. \A d \in 1..L : FrameOK(q, fr[d]) /\ fr[d] \in FrameRecord
  BY <1>2 DEF StackOK
<1>4. ASSUME NEW d \in 1..L, ~IsPrefix(fr[d]), fr[d].node # 0
      PROVE  q[fr[d].node] \in Openers /\ ~WholeIn(q, TRUE, fr[d].node)
  <2> DEFINE m == fr[d].node
  <2>1. m \in 0..n /\ q[m] \in Openers /\ ~PrefixedIn(q, m)
    BY <1>2, <1>3, <1>4, FrameIs
  <2>2. m \in 1..Len(q) /\ Len(q) \in Nat /\ m \in Held(fr)
    BY <1>2, <1>4, <2>1 DEF Held
  <2>3. ~ClosedIn(q, m)
    BY <1>2, <2>2 DEF NestOK
  <2> HIDE DEF m
  <2>4. Heads(q, m) = {m}
    BY <2>1, <2>2, HeadIs
  <2>5. q[m] \notin Atoms
    BY <2>1, TokenSets
  <2>6. ~WholeIn(q, TRUE, m)
    BY <2>3, <2>4, <2>5 DEF WholeIn
  <2> QED BY <2>1, <2>6 DEF m
<1>5. T = {}
  <2> SUFFICES ASSUME T # {} PROVE FALSE
    OBVIOUS
  <2>1. PICK d \in T : \A e \in T : e <= d
    <3>1. L \in Nat
      BY <1>2
    <3> HIDE DEF L
    <3>2. T \subseteq 1..L
      OBVIOUS
    <3> HIDE DEF T
    <3>3. T \subseteq 0..L
      BY <3>1, <3>2
    <3> QED BY <3>1, <3>3, Greatest
  <2>2. d \in 1..L /\ IsPrefix(fr[d]) /\ WholeIn(q, TRUE, fr[d].node)
    BY <2>1
  <2>3. PrefixedIn(q, fr[d].node) /\ fr[d].node \in 0..n
    BY <1>2, <1>3, <2>2, FrameIs
  <2> HIDE DEF T
  <2>4. WholeIn(q, TRUE, fr[d].node + 1)
    <3> DEFINE m == fr[d].node
    <3>1. n \in Nat /\ q \in Seq(Tokens)
      BY <1>2
    <3>2. m \in 0..n /\ PrefixedIn(q, m)
      BY <2>3
    <3>3. WholeIn(q, TRUE, m)
      BY <2>2
    <3> HIDE DEF m, n
    <3>4. m \in Nat
      BY <3>1, <3>2
    <3>5. WholeIn(q, TRUE, m + 1)
      BY <3>1, <3>2, <3>3, <3>4, WholeBack
    <3> QED BY <3>5 DEF m
  <2>5. CASE d = L
    <3>1. fr[d].node = n
      BY <1>2, <2>2, <2>5, ReadsTop DEF TopOf
    <3>2. \A k \in (n + 1)..n : FALSE
      BY <1>2
    <3>3. Heads(q, n + 1) = {}
      BY <3>2 DEF Heads
    <3> QED BY <2>4, <3>1, <3>3 DEF WholeIn
  <2>6. CASE d # L
    <3>1. d \in 1..(L - 1) /\ d + 1 \in 1..L /\ ~(d + 1 <= d)
      BY <1>2, <2>2, <2>6
    <3>2. fr[d + 1].node = fr[d].node + 1
      BY <1>2, <2>2, <3>1 DEF StackOK, CallOK
    <3>3. fr[d + 1].node # 0
      BY <1>2, <2>3, <3>2
    <3>4. IsPrefix(fr[d + 1])
      BY <1>4, <2>4, <3>1, <3>2, <3>3
    <3>5. d + 1 \in T
      BY <2>4, <3>1, <3>2, <3>4 DEF T
    <3> QED BY <2>1, <3>1, <3>5
  <2> QED BY <2>5, <2>6
<1>6. PICK d \in 1..L : fr[d].node = i
  BY DEF Held
<1>7. i \in 1..n
  <2>1. i \in 0..n
    BY <1>3, <1>6 DEF FrameOK
  <2> QED BY <1>2, <2>1
<1>8. CASE IsPrefix(fr[d])
  <2>1. PrefixedIn(q, i)
    BY <1>2, <1>3, <1>6, <1>8, FrameIs
  <2>2. d \notin T
    BY <1>5
  <2>3. ~WholeIn(q, TRUE, i)
    BY <1>6, <1>8, <2>2
  <2> QED BY <1>7, <2>1, <2>3
<1>9. CASE ~IsPrefix(fr[d])
  BY <1>4, <1>6, <1>7, <1>9
<1> QED BY <1>8, <1>9

(* An opener or a prefix whose method is not in progress is complete.      *)
LEMMA OthersAreWhole ==
  ASSUME NEW q \in Seq(Tokens), NEW fr, NestOK(q, fr), PrefixesWhole(q, fr, TRUE),
         NEW i \in 1..Len(q), q[i] \in Openers \/ PrefixedIn(q, i), i \notin Held(fr)
  PROVE  WholeIn(q, TRUE, i)
<1>1. CASE PrefixedIn(q, i)
  BY <1>1 DEF PrefixesWhole
<1>2. CASE ~PrefixedIn(q, i)
  <2>1. ClosedIn(q, i)
    BY <1>2 DEF NestOK
  <2>2. Heads(q, i) = {i}
    BY <1>2, HeadIs
  <2> QED BY <2>1, <2>2 DEF WholeIn
<1> QED BY <1>1, <1>2

LEMMA FramesOpenHolds == StackInv => FramesAreOpen
<1> SUFFICES ASSUME StackInv, result = Reading, good
             PROVE  /\ {frames[d].node : d \in DOMAIN frames} \ {Statement} =
                         {i \in 1..Len(stream) : (stream[i] \in Openers \/ Prefixed(i)) /\ ~Whole(i)}
                    /\ frames = <<>> <=> Closed(Statement)
  BY DEF FramesAreOpen
<1> DEFINE q == stream
           fr == frames
<1>1. /\ q \in Seq(Tokens) /\ fr \in Seq(FrameRecord) /\ good = TRUE
      /\ ChainsOK(q) /\ StackOK(q, fr) /\ ReadsOn(q, fr, TRUE) /\ PrefixesWhole(q, fr, TRUE) /\ NestOK(q, fr)
  BY DEF StackInv, Fits
<1>2. Reads(q, fr) \/ (fr = <<>> /\ q \in Seq(Tokens))
  BY <1>1 DEF Reads
<1>3. {fr[d].node : d \in DOMAIN fr} = Held(fr)
  <2>1. DOMAIN fr = 1..Len(fr)
    BY <1>1
  <2> QED BY <2>1 DEF Held
<1>4. \A i : (Prefixed(i) <=> PrefixedIn(q, i)) /\ (Whole(i) <=> WholeIn(q, TRUE, i))
             /\ (Closed(i) <=> ClosedIn(q, i))
  BY <1>1, LooksBack
<1> HIDE DEF q, fr
<1>5. \A i \in Held(fr) : i # 0 => i \in 1..Len(q) /\ (q[i] \in Openers \/ PrefixedIn(q, i)) /\ ~WholeIn(q, TRUE, i)
  BY <1>2, HeldIsOpen
<1>6. \A i \in 1..Len(q) : (q[i] \in Openers \/ PrefixedIn(q, i)) /\ ~WholeIn(q, TRUE, i) => i \in Held(fr)
  BY <1>1, OthersAreWhole
<1>7. \A i \in 1..Len(q) : i # 0
  BY <1>1
<1>8. Held(fr) \ {Statement} = {i \in 1..Len(q) : (q[i] \in Openers \/ PrefixedIn(q, i)) /\ ~WholeIn(q, TRUE, i)}
  BY <1>5, <1>6, <1>7 DEF Statement
<1>9. fr = <<>> <=> ClosedIn(q, Statement)
  <2>1. ASSUME fr # <<>> PROVE Statement \in Held(fr)
    <3>1. 1 \in 1..Len(fr) /\ fr[1].node = Statement
      BY <1>1, <2>1 DEF StackOK
    <3> QED BY <3>1 DEF Held
  <2> QED BY <1>1, <2>1 DEF NestOK
<1> QED BY <1>3, <1>4, <1>8, <1>9 DEF q, fr

(* Whenever ReadByte is called and the code has not ended, a method of     *)
(* ECodeParser is in progress for the statement, for every list and object *)
(* that is open and for every prefix whose node is not complete, and no    *)
(* other.                                                                  *)
THEOREM FramesAreOpenCorrect == Spec => []FramesAreOpen
<1>1. Spec => []StackInv
  BY Invariant, PTL
<1> QED BY <1>1, FramesOpenHolds, PTL

-----------------------------------------------------------------------------
(* Between two nodes the nodes that are done are those that are complete.  *)
LEMMA DoneIsWhole ==
  ASSUME StackInv, result = Reading
  PROVE  Done(stream, frames, result) = {i \in 1..Len(stream) : stream[i] \in Nodes /\ Whole(i)}
<1> DEFINE q == stream
           fr == frames
<1>1. /\ q \in Seq(Tokens) /\ Len(q) \in Nat /\ fr \in Seq(FrameRecord) /\ good \in BOOLEAN
      /\ ReadsOn(q, fr, good) /\ PrefixesWhole(q, fr, good) /\ (good => Reads(q, fr) \/ fr = <<>>)
      /\ (good => NestOK(q, fr))
  <2>1. Fits(q, fr, fresh, result, good)
    BY DEF StackInv
  <2>2. q \in Seq(Tokens)
    BY <2>1 DEF Fits
  <2>3. Len(q) \in Nat
    BY <2>2
  <2> QED BY <2>1, <2>2, <2>3 DEF Fits, Reads
<1>2. \A i : Whole(i) <=> WholeIn(q, good, i)
  BY LooksBack
<1> HIDE DEF q, fr
<1>3. ASSUME NEW i \in 1..Len(q), q[i] \in Nodes
      PROVE  i \notin Held(fr) <=> WholeIn(q, good, i)
  <2>1. i # 0
    BY <1>1
  <2>2. q[i] \in Openers \/ PrefixedIn(q, i) \/ (q[i] \in Atoms /\ ~PrefixedIn(q, i))
    <3>1. q[i] = "subscript" => PrefixedIn(q, i)
      BY <1>1, TokenSets DEF PrefixedIn
    <3>2. q[i] \in Atoms => ~PrefixedIn(q, i)
      BY TokenSets DEF PrefixedIn
    <3> QED BY <1>3, <3>1, <3>2, TokenSets
  <2>3. ~PrefixedIn(q, i) => Heads(q, i) = {i}
    BY <1>1, HeadIs
  <2>4. CASE good
    <3>1. good = TRUE /\ (Reads(q, fr) \/ (fr = <<>> /\ q \in Seq(Tokens)))
      BY <1>1, <2>4
    <3>2. i \in Held(fr) => (q[i] \in Openers \/ PrefixedIn(q, i)) /\ ~WholeIn(q, TRUE, i)
      BY <2>1, <3>1, HeldIsOpen
    <3>3. CASE q[i] \in Openers \/ PrefixedIn(q, i)
      <4>1. i \notin Held(fr) => WholeIn(q, TRUE, i)
        BY <1>1, <3>1, <3>3, OthersAreWhole
      <4> QED BY <3>1, <3>2, <4>1
    <3>4. CASE q[i] \in Atoms /\ ~PrefixedIn(q, i)
      <4>1. WholeIn(q, TRUE, i)
        BY <2>3, <3>4 DEF WholeIn
      <4> QED BY <3>1, <3>2, <4>1
    <3> QED BY <2>2, <3>3, <3>4
  <2>5. CASE ~good
    <3>1. fr = <<>>
      BY <1>1, <2>5 DEF ReadsOn
    <3>2. i \notin Held(fr)
      <4>1. 1..Len(fr) = {}
        BY <3>1
      <4> QED BY <4>1 DEF Held
    <3>3. CASE PrefixedIn(q, i)
      BY <1>1, <3>2, <3>3 DEF PrefixesWhole
    <3>4. CASE ~PrefixedIn(q, i)
      BY <2>3, <2>5, <3>2, <3>4 DEF WholeIn
    <3> QED BY <3>2, <3>3, <3>4
  <2> QED BY <2>4, <2>5
<1> QED BY <1>2, <1>3 DEF Done, q, fr

LEMMA ArgsHold == StackInv /\ KidsInv => ArgsAsWritten
<1> SUFFICES ASSUME StackInv, KidsInv, result = Reading PROVE ArgsAsWritten
  BY DEF ArgsAsWritten
<1> DEFINE whole == {i \in 1..Len(stream) : stream[i] \in Nodes /\ Whole(i)}
           parent == [i \in whole |-> Parent(i)]
           S(n) == {i \in whole : parent[i] = n}
           written(n) == InOrder(S(n))
           node(i) == IF stream[i] = "unknown" THEN Null ELSE i
<1>1. ASSUME NEW n PROVE S(n) = Goes(stream, frames, result, n)
  <2>1. whole = Done(stream, frames, result)
    BY DoneIsWhole
  <2>2. \A i : Parent(i) = ParentIn(stream, i)
    BY LooksBack
  <2> HIDE DEF whole
  <2> QED BY <2>1, <2>2 DEF Goes
<1>2. ASSUME NEW n \in DOMAIN kids
      PROVE  kids[n] = [k \in DOMAIN written(n) |-> node(written(n)[k])]
  <2>1. kids[n] = ListIn(stream, S(n))
    <3>1. kids[n] = ListIn(stream, Goes(stream, frames, result, n))
      BY <1>2 DEF KidsInv, KidsOK
    <3> HIDE DEF S
    <3> QED BY <1>1, <3>1
  <2> HIDE DEF S
  <2>2. DOMAIN written(n) = 1..Cardinality(S(n))
    BY DEF InOrder
  <2>3. ListIn(stream, S(n)) = [k \in 1..Cardinality(S(n)) |-> node(InOrder(S(n))[k])]
    BY DEF ListIn, NodeIn
  <2> QED BY <2>1, <2>2, <2>3
<1> HIDE DEF node
<1> QED BY <1>2 DEF ArgsAsWritten, node

(* Whenever ReadByte is called, every argument list, object and subscript  *)
(* holds the nodes written in it, in their order and no others: for calls, *)
(* braces and objects nested to any depth, lists with or without their 54, *)
(* opcodes that ParseNode does not know, and code that ends behind any     *)
(* argument.                                                               *)
THEOREM ArgsAsWrittenCorrect == Spec => []ArgsAsWritten
BY Invariant, ArgsHold, PTL
=============================================================================
