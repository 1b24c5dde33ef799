------------------------- MODULE SubCodeParserProofs -------------------------
(***************************************************************************)
(* Proofs about SubCodeParser, for streams of any length and all           *)
(* liberties.                                                              *)
(*                                                                         *)
(* StackIsNest says how the stack and the stream agree now; Return uncovers *)
(* a frame that agreed when it was covered.  So the invariant says of every *)
(* frame where its construct and its section began, and that everything    *)
(* read since is deeper.                                                   *)
(***************************************************************************)
EXTENDS SubCodeParser, FiniteSetTheorems, WellFoundedInduction, TLAPS

Separators == Cases \cup {"else", "default"}

LEMMA TokenSets ==
  /\ Enders = {"endif", "endtrue", "endjudge", "endloop"}
  /\ Matches = {"ifend", "trueend", "judgeend", "tail"}
  /\ End["if"] = "endif" /\ End["ifTrue"] = "endtrue"
  /\ End["judge"] = "endjudge" /\ End["loop"] = "endloop"
  /\ Match["if"] = "ifend" /\ Match["ifTrue"] = "trueend"
  /\ Match["judge"] = "judgeend" /\ Match["loop"] = "tail"
  /\ Sections \ Openers = Separators
<1>1. Openers = {"if", "ifTrue", "judge", "loop"}
  BY DEF Openers
<1>2. /\ End["if"] = "endif" /\ End["ifTrue"] = "endtrue"
      /\ End["judge"] = "endjudge" /\ End["loop"] = "endloop"
  BY DEF End
<1>3. /\ Match["if"] = "ifend" /\ Match["ifTrue"] = "trueend"
      /\ Match["judge"] = "judgeend" /\ Match["loop"] = "tail"
  BY DEF Match
<1>4. Enders = {"endif", "endtrue", "endjudge", "endloop"}
  BY <1>1, <1>2 DEF Enders
<1>5. Matches = {"ifend", "trueend", "judgeend", "tail"}
  BY <1>1, <1>3 DEF Matches
<1>6. Sections \ Openers = Separators
  BY DEF Sections, Separators, Openers, Cases
<1> QED BY <1>2, <1>3, <1>4, <1>5, <1>6

-----------------------------------------------------------------------------
(* Depth, Owner and Section look back, so they stay what they are when the *)
(* stream grows.                                                           *)
Count(q, C, i) == Cardinality({k \in 1..(i - 1) : q[k] \in C})

LEMMA CountType ==
  ASSUME NEW q, NEW C, NEW i \in Nat
  PROVE  Count(q, C, i) \in Nat
<1>1. IsFiniteSet(1..(i - 1))
  BY FS_Interval
<1>2. IsFiniteSet({k \in 1..(i - 1) : q[k] \in C})
  BY <1>1, FS_Subset
<1> QED BY <1>2, FS_CardinalityType DEF Count

LEMMA CountAppend ==
  ASSUME NEW S, NEW q \in Seq(S), NEW t \in S, NEW C
  PROVE  /\ \A i \in 1..(Len(q) + 1) : Count(Append(q, t), C, i) = Count(q, C, i)
         /\ Count(Append(q, t), C, Len(q) + 2) = Count(q, C, Len(q) + 1) + (IF t \in C THEN 1 ELSE 0)
         /\ Count(q, C, 1) = 0
<1> DEFINE r == Append(q, t)
           n == Len(q)
<1>1. n \in Nat /\ (\A k \in 1..n : r[k] = q[k]) /\ r[n + 1] = t
  OBVIOUS
<1> HIDE DEF r, n
<1>2. ASSUME NEW i \in 1..(n + 1) PROVE Count(r, C, i) = Count(q, C, i)
  <2>1. {k \in 1..(i - 1) : r[k] \in C} = {k \in 1..(i - 1) : q[k] \in C}
    BY <1>1
  <2> QED BY <2>1 DEF Count
<1>3. Count(r, C, n + 2) = Count(q, C, n + 1) + (IF t \in C THEN 1 ELSE 0)
  <2> DEFINE A == {k \in 1..n : q[k] \in C}
             B == {k \in 1..(n + 1) : r[k] \in C}
  <2>1. IsFiniteSet(A)
    <3>1. IsFiniteSet(1..n)
      BY <1>1, FS_Interval
    <3> QED BY <3>1, FS_Subset
  <2>2. /\ t \in C => B = A \cup {n + 1}
        /\ t \notin C => B = A
        /\ n + 1 \notin A
    BY <1>1
  <2>3. Count(r, C, n + 2) = Cardinality(B) /\ Count(q, C, n + 1) = Cardinality(A)
    <3>1. (n + 2) - 1 = n + 1 /\ (n + 1) - 1 = n
      BY <1>1
    <3> QED BY <3>1 DEF Count
  <2> HIDE DEF A, B
  <2>4. Cardinality(A) \in Nat /\ Cardinality(A \cup {n + 1}) = Cardinality(A) + 1
    BY <2>1, <2>2, FS_AddElement, FS_CardinalityType
  <2>5. CASE t \in C
    BY <2>2, <2>3, <2>4, <2>5
  <2>6. CASE t \notin C
    BY <2>2, <2>3, <2>4, <2>6
  <2> QED BY <2>5, <2>6
<1>4. Count(q, C, 1) = 0
  <2>1. {k \in 1..(1 - 1) : q[k] \in C} = {}
    OBVIOUS
  <2> QED BY <2>1, FS_EmptySet DEF Count
<1> QED BY <1>2, <1>3, <1>4 DEF r, n

DepthIn(q, i) == Count(q, Openers, i) - Count(q, Enders, i)
OwnerIn(q, i) ==
  Latest({k \in 1..(i - 1) : q[k] \in Openers /\ DepthIn(q, k) = DepthIn(q, i) - 1})
SectionIn(q, i) ==
  Latest({OwnerIn(q, i)} \cup {k \in (OwnerIn(q, i) + 1)..(i - 1) :
                               q[k] \in Separators /\ DepthIn(q, k) = DepthIn(q, i)})

LEMMA LooksBack ==
  ASSUME NEW i
  PROVE  Depth(i) = DepthIn(stream, i) /\ Owner(i) = OwnerIn(stream, i) /\ Section(i) = SectionIn(stream, i)
<1>1. \A k : Depth(k) = DepthIn(stream, k)
  BY DEF Depth, DepthIn, Count
<1>2. Owner(i) = OwnerIn(stream, i)
  BY <1>1 DEF Owner, OwnerIn
<1> QED BY <1>1, <1>2, TokenSets DEF Section, SectionIn

LEMMA DepthType == ASSUME NEW q, NEW i \in Nat PROVE DepthIn(q, i) \in Int
  BY CountType DEF DepthIn

LEMMA DepthGrows ==
  ASSUME NEW q \in Seq(Tokens), NEW t \in Tokens
  PROVE  /\ \A i \in 1..(Len(q) + 1) : DepthIn(Append(q, t), i) = DepthIn(q, i)
         /\ t \in Openers => DepthIn(Append(q, t), Len(q) + 2) = DepthIn(q, Len(q) + 1) + 1
         /\ t \in Enders => DepthIn(Append(q, t), Len(q) + 2) = DepthIn(q, Len(q) + 1) - 1
         /\ t \notin Openers \cup Enders => DepthIn(Append(q, t), Len(q) + 2) = DepthIn(q, Len(q) + 1)
         /\ DepthIn(q, 1) = 0
<1>1. ASSUME NEW C
      PROVE  /\ \A i \in 1..(Len(q) + 1) : Count(Append(q, t), C, i) = Count(q, C, i)
             /\ Count(Append(q, t), C, Len(q) + 2) = Count(q, C, Len(q) + 1) + (IF t \in C THEN 1 ELSE 0)
             /\ Count(q, C, 1) = 0
  BY CountAppend
<1>2. \A C, i : i \in Nat => Count(q, C, i) \in Nat
  BY CountType
<1>3. Len(q) + 1 \in Nat
  OBVIOUS
<1>4. t \in Openers => t \notin Enders
  BY TokenSets DEF Openers
<1>5. \A i \in 1..(Len(q) + 1) : DepthIn(Append(q, t), i) = DepthIn(q, i)
  BY <1>1 DEF DepthIn
<1>6. DepthIn(q, 1) = 0
  BY <1>1 DEF DepthIn
<1> HIDE DEF Enders, Openers
<1> DEFINE o == Count(q, Openers, Len(q) + 1)
           e == Count(q, Enders, Len(q) + 1)
<1>7. /\ DepthIn(Append(q, t), Len(q) + 2) = (o + (IF t \in Openers THEN 1 ELSE 0)) - (e + (IF t \in Enders THEN 1 ELSE 0))
      /\ DepthIn(q, Len(q) + 1) = o - e
      /\ o \in Nat /\ e \in Nat
  BY <1>1, <1>2, <1>3 DEF DepthIn
<1> HIDE DEF o, e
<1> QED BY <1>4, <1>5, <1>6, <1>7

(* Naturals are well founded: the least and the greatest element of a set. *)
LEMMA Least ==
  ASSUME NEW T, T \subseteq Nat, T # {}
  PROVE  \E x \in T : \A y \in T : x <= y
<1> DEFINE R == {p \in Nat \X Nat : p[1] < p[2]}
<1>1. IsWellFoundedOn(R, Nat)
  BY NatLessThanWellFounded DEF OpToRel
<1>2. \A x, y \in Nat : y < x => <<y, x>> \in R
  OBVIOUS
<1> HIDE DEF R
<1>3. PICK x \in T : \A y \in T : ~(<<y, x>> \in R)
  BY <1>1, WFMin
<1>4. ASSUME NEW y \in T PROVE x <= y
  <2>1. x \in Nat /\ y \in Nat
    OBVIOUS
  <2>2. ~(y < x)
    BY <1>2, <1>3, <2>1
  <2> QED BY <2>1, <2>2
<1> QED BY <1>4

LEMMA Greatest ==
  ASSUME NEW n \in Nat, NEW T, T \subseteq 0..n, T # {}
  PROVE  \E x \in T : \A y \in T : y <= x
<1> DEFINE U == {n - x : x \in T}
<1>1. \A x \in T : x \in Nat /\ x <= n /\ n - x \in Nat
  OBVIOUS
<1>2. U \subseteq Nat
  BY <1>1
<1>3. \A x \in T : n - x \in U
  OBVIOUS
<1> HIDE DEF U
<1>4. PICK u \in U : \A y \in U : u <= y
  BY <1>2, <1>3, Least
<1>5. PICK x \in T : u = n - x
  BY DEF U
<1>6. ASSUME NEW y \in T PROVE y <= x
  <2>1. n - x <= n - y
    BY <1>3, <1>4, <1>5
  <2> QED BY <1>1, <2>1
<1> QED BY <1>6

(* Latest is the maximum.                                                  *)
LEMMA LatestIs ==
  ASSUME NEW S \in SUBSET Nat, NEW m \in S, \A j \in S : j <= m
  PROVE  Latest(S) = m
<1>1. \A k \in S \cup {0} : (\A j \in S : j <= k) => k = m
  <2> SUFFICES ASSUME NEW k \in S \cup {0}, \A j \in S : j <= k PROVE k = m
    OBVIOUS
  <2>1. m <= k /\ m \in Nat /\ k \in Nat
    OBVIOUS
  <2>2. k \in S \/ (k = 0 /\ m = 0)
    BY <2>1
  <2> QED BY <2>1, <2>2
<1> QED BY <1>1 DEF Latest

LEMMA LatestNone == Latest({}) = 0
  BY DEF Latest

LEMMA LatestType ==
  ASSUME NEW n \in Nat, NEW S, S \subseteq 0..n
  PROVE  Latest(S) \in 0..n /\ (S # {} => Latest(S) \in S)
<1>1. CASE S = {}
  BY <1>1, LatestNone
<1>2. CASE S # {}
  <2>1. PICK m \in S : \A j \in S : j <= m
    BY <1>2, Greatest
  <2>2. Latest(S) = m
    BY <2>1, LatestIs
  <2> QED BY <2>2
<1> QED BY <1>1, <1>2

LEMMA OwnerType ==
  ASSUME NEW q, NEW i \in Nat \ {0}
  PROVE  OwnerIn(q, i) \in 0..(i - 1)
<1> DEFINE S == {k \in 1..(i - 1) : q[k] \in Openers /\ DepthIn(q, k) = DepthIn(q, i) - 1}
<1>1. i - 1 \in Nat /\ S \subseteq 0..(i - 1) /\ OwnerIn(q, i) = Latest(S)
  BY DEF OwnerIn
<1> HIDE DEF S
<1> QED BY <1>1, LatestType, ZenonT(60)

LEMMA OwnerGrows ==
  ASSUME NEW q \in Seq(Tokens), NEW t \in Tokens, NEW i \in 1..(Len(q) + 1)
  PROVE  /\ DepthIn(Append(q, t), i) = DepthIn(q, i)
         /\ OwnerIn(Append(q, t), i) = OwnerIn(q, i)
         /\ SectionIn(Append(q, t), i) = SectionIn(q, i)
<1> DEFINE r == Append(q, t)
<1>1. \A k \in 1..Len(q) : r[k] = q[k]
  OBVIOUS
<1>2. \A k \in 1..(Len(q) + 1) : DepthIn(r, k) = DepthIn(q, k)
  BY DepthGrows
<1>3. \A k \in 1..(i - 1) : k \in 1..Len(q) /\ k \in 1..(Len(q) + 1)
  OBVIOUS
<1> HIDE DEF r
<1>4. OwnerIn(r, i) = OwnerIn(q, i)
  <2>1. {k \in 1..(i - 1) : r[k] \in Openers /\ DepthIn(r, k) = DepthIn(r, i) - 1}
        = {k \in 1..(i - 1) : q[k] \in Openers /\ DepthIn(q, k) = DepthIn(q, i) - 1}
    BY <1>1, <1>2, <1>3
  <2> QED BY <2>1 DEF OwnerIn
<1>5. OwnerIn(q, i) \in Nat
  BY OwnerType
<1> DEFINE o == OwnerIn(q, i)
<1> HIDE DEF o
<1>6. SectionIn(r, i) = SectionIn(q, i)
  <2>1. {k \in (o + 1)..(i - 1) : r[k] \in Separators /\ DepthIn(r, k) = DepthIn(r, i)}
        = {k \in (o + 1)..(i - 1) : q[k] \in Separators /\ DepthIn(q, k) = DepthIn(q, i)}
    <3>1. \A k \in (o + 1)..(i - 1) : k \in 1..(i - 1)
      BY <1>5 DEF o
    <3> QED BY <1>1, <1>2, <1>3, <3>1
  <2> QED BY <1>4, <2>1 DEF SectionIn, o
<1> QED BY <1>2, <1>4, <1>6 DEF r

-----------------------------------------------------------------------------
(* The stack fr is that of the stream q: frame d stands for the construct  *)
(* that node opened at depth d - 2, and everything behind node is deeper.  *)
FrameRecord == [kind : Openers \cup {"program", "else"}, node : Nat, block : Nat \cup {NoNode}]

Nested(q, fr) ==
  /\ DepthIn(q, Len(q) + 1) = Len(fr) - 1
  /\ fr[1].node = Program
  /\ \A d \in 2..Len(fr) :
       fr[d].node \in 1..Len(q) /\ q[fr[d].node] \in Openers /\ DepthIn(q, fr[d].node) = d - 2
  /\ \A d \in 1..Len(fr) : \A k \in (fr[d].node + 1)..(Len(q) + 1) : DepthIn(q, k) >= d - 1

(* The token that began the section a frame is in, and what the kind of a  *)
(* frame says of it.                                                       *)
KindIn(q, i) == IF i = 0 THEN "program" ELSE q[i]
SectionOf(f) == IF f.block = NoNode THEN f.node ELSE f.block
KindFits(kind, opener, section) ==
  \/ kind = "program" /\ opener = "program" /\ section = "program"
  \/ opener \in {"if", "ifTrue", "loop"} /\ kind = opener /\ section = opener
  \/ kind = "else" /\ opener = "if" /\ section = "else"
  \/ kind = "judge" /\ opener = "judge" /\ section \in {"judge", "default"} \cup Cases

Sectioned(q, f, d) ==
  /\ \/ SectionOf(f) = f.node
     \/ /\ SectionOf(f) \in (f.node + 1)..Len(q)
        /\ q[SectionOf(f)] \in Separators /\ DepthIn(q, SectionOf(f)) = d - 1
  /\ \A k \in (SectionOf(f) + 1)..Len(q) : DepthIn(q, k) = d - 1 => q[k] \notin Separators
  /\ f.block = NoNode <=> KindIn(q, SectionOf(f)) = "judge"
  /\ KindFits(f.kind, KindIn(q, f.node), KindIn(q, SectionOf(f)))

(* Only the frame on top may be in front of the first case of a judge.     *)
StackFits(q, fr) ==
  /\ Nested(q, fr)
  /\ \A d \in 1..Len(fr) : Sectioned(q, fr[d], d)
  /\ \A d \in 1..(Len(fr) - 1) : fr[d].block # NoNode

(* What ParseLineNode and Match keep of the token in front.                *)
ReadingFits ==
  /\ line <=> Previous = "skip"
  /\ pending # NoNode => /\ pending \in 1..Len(stream) /\ stream[pending] \in Openers
                         /\ Previous = End[stream[pending]]
  /\ Previous \in Enders => pending # NoNode

StackInv ==
  /\ stream \in Seq(Tokens)
  /\ frames \in Seq(FrameRecord) /\ frames # <<>>
  /\ StackFits(stream, frames)
  /\ line \in BOOLEAN /\ ReadingFits

-----------------------------------------------------------------------------
(* What each kind of token does to a stack that fits.                      *)
LEMMA AppendIs ==
  ASSUME NEW S, NEW q \in Seq(S), NEW t \in S
  PROVE  /\ Append(q, t) \in Seq(S) /\ Len(q) \in Nat /\ Len(Append(q, t)) = Len(q) + 1
         /\ DOMAIN q = 1..Len(q) /\ DOMAIN Append(q, t) = 1..(Len(q) + 1)
         /\ Append(q, t)[Len(q) + 1] = t /\ \A k \in 1..Len(q) : Append(q, t)[k] = q[k]
  OBVIOUS

LEMMA SectionedGrows ==
  ASSUME NEW q \in Seq(Tokens), NEW t \in Tokens, NEW f \in FrameRecord, NEW d \in Nat \ {0},
         Sectioned(q, f, d), f.node \in 0..Len(q),
         t \notin Separators \/ DepthIn(q, Len(q) + 1) # d - 1
  PROVE  Sectioned(Append(q, t), f, d)
<1> DEFINE r == Append(q, t)
           n == Len(q)
           s == SectionOf(f)
<1>1. n \in Nat /\ Len(r) = n + 1 /\ r[n + 1] = t /\ \A k \in 1..n : r[k] = q[k]
  BY AppendIs
<1>2. \A k \in 1..(n + 1) : DepthIn(r, k) = DepthIn(q, k)
  BY DepthGrows
<1>3. f.node \in 0..n /\ s \in 0..n
  BY <1>1 DEF Sectioned
<1> HIDE DEF r, s
<1>4. KindIn(r, s) = KindIn(q, s) /\ KindIn(r, f.node) = KindIn(q, f.node)
  BY <1>1, <1>3 DEF KindIn
<1>5. \/ s = f.node
      \/ s \in (f.node + 1)..Len(r) /\ r[s] \in Separators /\ DepthIn(r, s) = d - 1
  BY <1>1, <1>2, <1>3 DEF Sectioned, s
<1>6. \A k \in (s + 1)..Len(r) : DepthIn(r, k) = d - 1 => r[k] \notin Separators
  <2> SUFFICES ASSUME NEW k \in (s + 1)..(n + 1), DepthIn(q, k) = d - 1 PROVE r[k] \notin Separators
    BY <1>1, <1>2, <1>3
  <2>1. CASE k = n + 1
    BY <1>1, <2>1
  <2>2. CASE k \in 1..n
    BY <1>1, <2>2 DEF Sectioned, s
  <2> QED BY <1>1, <1>3, <2>1, <2>2
<1> QED BY <1>4, <1>5, <1>6 DEF Sectioned, s, r

(* Where the constructs of the frames are.                                 *)
LEMMA NestedNodes ==
  ASSUME NEW q \in Seq(Tokens), NEW fr \in Seq(FrameRecord), fr # <<>>, StackFits(q, fr)
  PROVE  /\ Len(fr) \in Nat \ {0}
         /\ \A d \in 1..Len(fr) : fr[d] \in FrameRecord /\ fr[d].node \in 0..Len(q)
  BY DEF StackFits, Nested, Program

LEMMA StackKeeps ==
  ASSUME NEW q \in Seq(Tokens), NEW fr \in Seq(FrameRecord), fr # <<>>, StackFits(q, fr),
         NEW t \in Tokens \ (Openers \cup Enders \cup Separators)
  PROVE  StackFits(Append(q, t), fr)
<1> DEFINE r == Append(q, t)
           n == Len(q)
<1>1. n \in Nat /\ Len(r) = n + 1 /\ r[n + 1] = t /\ \A k \in 1..n : r[k] = q[k]
  BY AppendIs
<1>2. /\ \A k \in 1..(n + 1) : DepthIn(r, k) = DepthIn(q, k)
      /\ DepthIn(r, n + 2) = DepthIn(q, n + 1)
  BY DepthGrows
<1>3. Len(fr) \in Nat \ {0} /\ \A d \in 1..Len(fr) : fr[d] \in FrameRecord /\ fr[d].node \in 0..n
  BY NestedNodes
<1>4. \A d \in 1..Len(fr) : Sectioned(r, fr[d], d)
  BY <1>3, SectionedGrows DEF StackFits
<1> HIDE DEF r
<1>5. Nested(r, fr)
  <2>1. DepthIn(r, Len(r) + 1) = Len(fr) - 1
    BY <1>1, <1>2 DEF StackFits, Nested
  <2>2. \A d \in 2..Len(fr) : fr[d].node \in 1..Len(r) /\ r[fr[d].node] \in Openers /\ DepthIn(r, fr[d].node) = d - 2
    BY <1>1, <1>2, SMTT(60) DEF StackFits, Nested
  <2>3. ASSUME NEW d \in 1..Len(fr), NEW k \in (fr[d].node + 1)..(Len(r) + 1)
        PROVE  DepthIn(r, k) >= d - 1
    <3>1. CASE k = n + 2
      BY <1>2, <1>3, <3>1 DEF StackFits, Nested
    <3>2. CASE k \in 1..(n + 1)
      BY <1>1, <1>2, <1>3, <3>2 DEF StackFits, Nested
    <3> QED BY <1>1, <1>3, <3>1, <3>2
  <2> QED BY <2>1, <2>2, <2>3 DEF StackFits, Nested
<1> QED BY <1>4, <1>5 DEF StackFits, r

LEMMA StackPushes ==
  ASSUME NEW q \in Seq(Tokens), NEW fr \in Seq(FrameRecord), fr # <<>>, StackFits(q, fr),
         NEW t \in Openers, t \in Tokens, fr[Len(fr)].block # NoNode,
         NEW f \in FrameRecord, f.kind = t, f.node = Len(q) + 1,
         f.block = IF t = "judge" THEN NoNode ELSE Len(q) + 1
  PROVE  StackFits(Append(q, t), Append(fr, f))
<1> DEFINE r == Append(q, t)
           gr == Append(fr, f)
           n == Len(q)
           m == Len(fr)
<1>1. n \in Nat /\ Len(r) = n + 1 /\ r[n + 1] = t /\ \A k \in 1..n : r[k] = q[k]
  BY AppendIs
<1>2. /\ \A k \in 1..(n + 1) : DepthIn(r, k) = DepthIn(q, k)
      /\ DepthIn(r, n + 2) = DepthIn(q, n + 1) + 1
  BY DepthGrows
<1>3. m \in Nat \ {0} /\ \A d \in 1..m : fr[d] \in FrameRecord /\ fr[d].node \in 0..n
  BY NestedNodes
<1>4. Len(gr) = m + 1 /\ gr[m + 1] = f /\ \A d \in 1..m : gr[d] = fr[d]
  BY AppendIs
<1>5. t \notin Separators
  BY DEF Openers, Separators, Cases
<1>6. \A d \in 1..m : Sectioned(r, fr[d], d)
  BY <1>3, <1>5, SectionedGrows DEF StackFits
<1> HIDE DEF r, gr, n, m
<1>7. f.node = n + 1 /\ f.kind = t /\ f.block = IF t = "judge" THEN NoNode ELSE n + 1
  BY DEF n
<1>8. /\ DepthIn(q, n + 1) = m - 1 /\ fr[1].node = Program
      /\ \A d \in 2..m : fr[d].node \in 1..n /\ q[fr[d].node] \in Openers /\ DepthIn(q, fr[d].node) = d - 2
      /\ \A d \in 1..m : \A k \in (fr[d].node + 1)..(n + 1) : DepthIn(q, k) >= d - 1
      /\ \A d \in 1..(m - 1) : fr[d].block # NoNode
      /\ fr[m].block # NoNode
  BY DEF StackFits, Nested, n, m
<1>9. Sectioned(r, f, m + 1)
  <2>1. SectionOf(f) = n + 1 /\ KindIn(r, n + 1) = t
    BY <1>1, <1>7 DEF SectionOf, KindIn
  <2>2. f.block = NoNode <=> t = "judge"
    BY <1>1, <1>7 DEF NoNode
  <2>3. KindFits(t, t, t)
    BY DEF KindFits, Openers
  <2> QED BY <1>1, <1>7, <2>1, <2>2, <2>3 DEF Sectioned
<1>10. Nested(r, gr)
  <2>1. DepthIn(r, Len(r) + 1) = Len(gr) - 1 /\ gr[1].node = Program
    BY <1>1, <1>2, <1>3, <1>4, <1>8
  <2>2. ASSUME NEW d \in 2..Len(gr)
        PROVE  gr[d].node \in 1..Len(r) /\ r[gr[d].node] \in Openers /\ DepthIn(r, gr[d].node) = d - 2
    <3>1. CASE d = m + 1
      BY <1>1, <1>2, <1>3, <1>4, <1>7, <1>8, <3>1
    <3>2. CASE d \in 2..m
      <4>1. d \in 1..m /\ gr[d] = fr[d]
        BY <1>3, <1>4, <3>2
      <4>2. fr[d].node \in 1..n /\ q[fr[d].node] \in Openers /\ DepthIn(q, fr[d].node) = d - 2
        BY <1>8, <3>2
      <4>3. fr[d].node \in 1..(n + 1) /\ r[fr[d].node] = q[fr[d].node]
        BY <1>1, <4>2
      <4> QED BY <1>1, <1>2, <4>1, <4>2, <4>3
    <3> QED BY <1>3, <1>4, <3>1, <3>2
  <2>3. ASSUME NEW d \in 1..Len(gr), NEW k \in (gr[d].node + 1)..(Len(r) + 1)
        PROVE  DepthIn(r, k) >= d - 1
    <3>1. CASE k = n + 2
      BY <1>2, <1>3, <1>4, <1>8, <3>1
    <3>2. CASE k # n + 2
      <4>1. d \in 1..m
        BY <1>1, <1>3, <1>4, <1>7, <3>2
      <4>2. k \in 1..(n + 1) /\ k \in (fr[d].node + 1)..(n + 1)
        BY <1>1, <1>3, <1>4, <3>2, <4>1
      <4> QED BY <1>2, <1>8, <4>1, <4>2
    <3> QED BY <3>1, <3>2
  <2> QED BY <2>1, <2>2, <2>3 DEF Nested
<1>11. \A d \in 1..Len(gr) : Sectioned(r, gr[d], d)
  <2>1. \A d \in 1..Len(gr) : d \in 1..m \/ d = m + 1
    BY <1>3, <1>4
  <2> QED BY <1>4, <1>6, <1>9, <2>1
<1>12. \A d \in 1..(Len(gr) - 1) : gr[d].block # NoNode
  BY <1>3, <1>4, <1>8
<1> QED BY <1>10, <1>11, <1>12 DEF StackFits, r, gr

(* A separator: the frame on top turns to the section it begins.           *)
LEMMA StackTurns ==
  ASSUME NEW q \in Seq(Tokens), NEW fr \in Seq(FrameRecord), fr # <<>>, StackFits(q, fr),
         NEW t \in Separators, t \in Tokens,
         NEW g \in FrameRecord, g.node = fr[Len(fr)].node, g.block = Len(q) + 1,
         KindFits(g.kind, KindIn(q, g.node), t)
  PROVE  StackFits(Append(q, t), [fr EXCEPT ![Len(fr)] = g])
<1> DEFINE r == Append(q, t)
           n == Len(q)
           m == Len(fr)
           gr == [fr EXCEPT ![m] = g]
<1>1. n \in Nat /\ Len(r) = n + 1 /\ r[n + 1] = t /\ \A k \in 1..n : r[k] = q[k]
  BY AppendIs
<1>2. t \notin Openers \cup Enders /\ t # "judge"
  BY TokenSets DEF Openers, Separators, Cases
<1>3. /\ \A k \in 1..(n + 1) : DepthIn(r, k) = DepthIn(q, k)
      /\ DepthIn(r, n + 2) = DepthIn(q, n + 1)
  BY <1>2, DepthGrows
<1>4. m \in Nat \ {0} /\ \A d \in 1..m : fr[d] \in FrameRecord /\ fr[d].node \in 0..n
  BY NestedNodes
<1>5. Len(gr) = m /\ gr[m] = g /\ \A d \in 1..m : d # m => gr[d] = fr[d]
  BY <1>4
<1>6. /\ DepthIn(q, n + 1) = m - 1 /\ fr[1].node = Program
      /\ \A d \in 2..m : fr[d].node \in 1..n /\ q[fr[d].node] \in Openers /\ DepthIn(q, fr[d].node) = d - 2
      /\ \A d \in 1..m : \A k \in (fr[d].node + 1)..(n + 1) : DepthIn(q, k) >= d - 1
      /\ \A d \in 1..(m - 1) : fr[d].block # NoNode
  BY DEF StackFits, Nested
<1>7. ASSUME NEW d \in 1..m, d # m PROVE Sectioned(r, fr[d], d)
  <2>1. DepthIn(q, n + 1) # d - 1
    BY <1>4, <1>6, <1>7
  <2> QED BY <1>4, <2>1, SectionedGrows DEF StackFits
<1> HIDE DEF r, gr, n, m
<1>8. g.node = fr[m].node /\ g.block = n + 1 /\ KindFits(g.kind, KindIn(q, g.node), t)
  BY DEF m, n
<1>9. \A d \in 1..m : gr[d].node = fr[d].node
  BY <1>5, <1>8
<1>10. Sectioned(r, g, m)
  <2>1. SectionOf(g) = n + 1 /\ KindIn(r, n + 1) = t
    BY <1>1, <1>8 DEF SectionOf, KindIn, NoNode
  <2>2. g.node \in 0..n /\ KindIn(r, g.node) = KindIn(q, g.node)
    BY <1>1, <1>4, <1>8 DEF KindIn
  <2>3. r[n + 1] \in Separators /\ DepthIn(r, n + 1) = m - 1 /\ n + 1 \in (g.node + 1)..Len(r)
    BY <1>1, <1>3, <1>6, <2>2
  <2>4. g.block # NoNode
    BY <1>1, <1>8 DEF NoNode
  <2> QED BY <1>1, <1>2, <1>8, <2>1, <2>2, <2>3, <2>4 DEF Sectioned
<1>11. Nested(r, gr)
  <2>1. DepthIn(r, Len(r) + 1) = Len(gr) - 1 /\ gr[1].node = Program
    BY <1>1, <1>3, <1>4, <1>5, <1>6, <1>9
  <2>2. \A d \in 2..Len(gr) : gr[d].node \in 1..Len(r) /\ r[gr[d].node] \in Openers /\ DepthIn(r, gr[d].node) = d - 2
    <3> SUFFICES ASSUME NEW d \in 2..m
                 PROVE  gr[d].node \in 1..(n + 1) /\ r[gr[d].node] \in Openers /\ DepthIn(r, gr[d].node) = d - 2
      BY <1>1, <1>5
    <3>1. d \in 1..m /\ gr[d].node = fr[d].node
      BY <1>4, <1>9
    <3>2. fr[d].node \in 1..n /\ q[fr[d].node] \in Openers /\ DepthIn(q, fr[d].node) = d - 2
      BY <1>6
    <3>3. fr[d].node \in 1..(n + 1) /\ r[fr[d].node] = q[fr[d].node]
      BY <1>1, <3>2
    <3> QED BY <1>3, <3>1, <3>2, <3>3
  <2>3. ASSUME NEW d \in 1..Len(gr), NEW k \in (gr[d].node + 1)..(Len(r) + 1)
        PROVE  DepthIn(r, k) >= d - 1
    <3>1. d \in 1..m /\ gr[d].node = fr[d].node /\ fr[d].node \in 0..n
      BY <1>4, <1>5, <1>9
    <3>2. CASE k = n + 2
      BY <1>3, <1>4, <1>6, <3>1, <3>2
    <3>3. CASE k # n + 2
      <4>1. k \in 1..(n + 1) /\ k \in (fr[d].node + 1)..(n + 1)
        BY <1>1, <3>1, <3>3, SMTT(60)
      <4> QED BY <1>3, <1>6, <3>1, <4>1
    <3> QED BY <3>2, <3>3
  <2> QED BY <2>1, <2>2, <2>3 DEF Nested
<1>12. \A d \in 1..Len(gr) : Sectioned(r, gr[d], d)
  BY <1>5, <1>7, <1>10
<1>13. \A d \in 1..(Len(gr) - 1) : gr[d].block # NoNode
  BY <1>4, <1>5, <1>6
<1> QED BY <1>11, <1>12, <1>13 DEF StackFits, r, gr, m

LEMMA StackPops ==
  ASSUME NEW q \in Seq(Tokens), NEW fr \in Seq(FrameRecord), Len(fr) > 1, StackFits(q, fr),
         NEW t \in Enders, t \in Tokens,
         NEW gr \in Seq(FrameRecord), Len(gr) = Len(fr) - 1, \A d \in 1..(Len(fr) - 1) : gr[d] = fr[d]
  PROVE  StackFits(Append(q, t), gr)
<1> DEFINE r == Append(q, t)
           n == Len(q)
           m == Len(fr)
<1>1. n \in Nat /\ Len(r) = n + 1 /\ r[n + 1] = t /\ \A k \in 1..n : r[k] = q[k]
  BY AppendIs
<1>2. t \notin Openers /\ t \notin Separators
  BY TokenSets DEF Openers, Separators, Cases
<1>3. /\ \A k \in 1..(n + 1) : DepthIn(r, k) = DepthIn(q, k)
      /\ DepthIn(r, n + 2) = DepthIn(q, n + 1) - 1
  BY DepthGrows
<1>4. m \in Nat \ {0, 1} /\ \A d \in 1..m : fr[d] \in FrameRecord /\ fr[d].node \in 0..n
  BY NestedNodes
<1>5. /\ DepthIn(q, n + 1) = m - 1 /\ fr[1].node = Program
      /\ \A d \in 2..m : fr[d].node \in 1..n /\ q[fr[d].node] \in Openers /\ DepthIn(q, fr[d].node) = d - 2
      /\ \A d \in 1..m : \A k \in (fr[d].node + 1)..(n + 1) : DepthIn(q, k) >= d - 1
      /\ \A d \in 1..(m - 1) : fr[d].block # NoNode
  BY DEF StackFits, Nested
<1>6. ASSUME NEW d \in 1..m PROVE Sectioned(r, fr[d], d)
  <2>1. fr[d] \in FrameRecord /\ fr[d].node \in 0..n /\ d \in Nat \ {0} /\ Sectioned(q, fr[d], d)
    BY <1>4 DEF StackFits
  <2> QED BY <1>2, <2>1, SectionedGrows
<1> HIDE DEF r, n
<1>7. Len(gr) = m - 1 /\ \A d \in 1..(m - 1) : d \in 1..m /\ gr[d] = fr[d]
  BY <1>4
<1> HIDE DEF m
<1>8. Nested(r, gr)
  <2>1. DepthIn(r, Len(r) + 1) = Len(gr) - 1 /\ gr[1].node = Program
    <3>1. Len(r) + 1 = n + 2 /\ DepthIn(r, n + 2) = (m - 1) - 1
      BY <1>1, <1>3, <1>5
    <3>2. 1 \in 1..(m - 1)
      BY <1>4
    <3> QED BY <1>5, <1>7, <3>1, <3>2
  <2>2. \A d \in 2..Len(gr) : gr[d].node \in 1..Len(r) /\ r[gr[d].node] \in Openers /\ DepthIn(r, gr[d].node) = d - 2
    <3> SUFFICES ASSUME NEW d \in 2..(m - 1)
                 PROVE  gr[d].node \in 1..(n + 1) /\ r[gr[d].node] \in Openers /\ DepthIn(r, gr[d].node) = d - 2
      BY <1>1, <1>7
    <3>1. d \in 2..m /\ gr[d].node = fr[d].node
      BY <1>4, <1>7
    <3>2. fr[d].node \in 1..n /\ q[fr[d].node] \in Openers /\ DepthIn(q, fr[d].node) = d - 2
      BY <1>5, <3>1
    <3>3. fr[d].node \in 1..(n + 1) /\ r[fr[d].node] = q[fr[d].node]
      BY <1>1, <3>2
    <3> QED BY <1>3, <3>1, <3>2, <3>3
  <2>3. ASSUME NEW d \in 1..Len(gr), NEW k \in (gr[d].node + 1)..(Len(r) + 1)
        PROVE  DepthIn(r, k) >= d - 1
    <3>1. d \in 1..m /\ d <= m - 1 /\ gr[d].node = fr[d].node /\ fr[d].node \in 0..n
      BY <1>4, <1>7
    <3>2. CASE k = n + 2
      BY <1>3, <1>4, <1>5, <3>1, <3>2
    <3>3. CASE k # n + 2
      <4>1. k \in 1..(n + 1) /\ k \in (fr[d].node + 1)..(n + 1)
        BY <1>1, <3>1, <3>3
      <4> QED BY <1>3, <1>5, <3>1, <4>1
    <3> QED BY <3>2, <3>3
  <2> QED BY <2>1, <2>2, <2>3 DEF Nested
<1>9. \A d \in 1..Len(gr) : Sectioned(r, gr[d], d)
  BY <1>6, <1>7
<1>10. \A d \in 1..(Len(gr) - 1) : gr[d].block # NoNode
  BY <1>4, <1>5, <1>7
<1> QED BY <1>8, <1>9, <1>10 DEF StackFits, r

-----------------------------------------------------------------------------
(* Where a stack that fits says the stream is.                             *)
LEMMA OwnerAt ==
  ASSUME NEW q \in Seq(Tokens), NEW fr \in Seq(FrameRecord), fr # <<>>, StackFits(q, fr),
         NEW d \in 1..Len(fr), NEW i \in (fr[d].node + 1)..(Len(q) + 1), DepthIn(q, i) = d - 1
  PROVE  OwnerIn(q, i) = fr[d].node
<1> DEFINE n == Len(q)
           S == {k \in 1..(i - 1) : q[k] \in Openers /\ DepthIn(q, k) = DepthIn(q, i) - 1}
           f == fr[d].node
<1>1. n \in Nat /\ Len(fr) \in Nat \ {0} /\ f \in 0..n
  BY NestedNodes
<1>2. \A k \in (f + 1)..(n + 1) : DepthIn(q, k) >= d - 1
  BY DEF StackFits, Nested
<1>3. i \in Nat /\ S \subseteq Nat
  BY <1>1
<1>4. \A k \in S : k <= f
  <2> SUFFICES ASSUME NEW k \in 1..(i - 1), DepthIn(q, k) = DepthIn(q, i) - 1, k > f PROVE FALSE
    BY <1>1, <1>3
  <2>1. k \in (f + 1)..(n + 1)
    BY <1>1
  <2>2. DepthIn(q, k) >= d - 1 /\ DepthIn(q, k) = (d - 1) - 1 /\ d \in Int
    BY <1>2, <2>1
  <2> QED BY <2>2
<1>5. CASE d = 1
  <2>1. f = 0
    BY <1>5 DEF StackFits, Nested, Program
  <2>2. S = {}
    BY <1>3, <1>4, <2>1
  <2> HIDE DEF S
  <2> QED BY <2>1, <2>2, LatestNone DEF OwnerIn, S
<1>6. CASE d # 1
  <2>1. f \in 1..n /\ q[f] \in Openers /\ DepthIn(q, f) = d - 2
    BY <1>1, <1>6 DEF StackFits, Nested
  <2>2. f \in S
    BY <1>1, <2>1
  <2> HIDE DEF S, f
  <2>3. Latest(S) = f
    BY <1>3, <1>4, <2>2, LatestIs
  <2> QED BY <2>3 DEF OwnerIn, S, f
<1> QED BY <1>5, <1>6

LEMMA SectionAt ==
  ASSUME NEW q \in Seq(Tokens), NEW fr \in Seq(FrameRecord), fr # <<>>, StackFits(q, fr),
         NEW d \in 1..Len(fr), NEW i \in (fr[d].node + 1)..(Len(q) + 1), DepthIn(q, i) = d - 1,
         SectionOf(fr[d]) < i
  PROVE  SectionIn(q, i) = SectionOf(fr[d])
<1> DEFINE n == Len(q)
           f == fr[d].node
           s == SectionOf(fr[d])
           S == {f} \cup {k \in (f + 1)..(i - 1) : q[k] \in Separators /\ DepthIn(q, k) = DepthIn(q, i)}
<1>1. n \in Nat /\ Len(fr) \in Nat \ {0} /\ f \in 0..n
  BY NestedNodes
<1>2. SectionIn(q, i) = Latest(S)
  BY OwnerAt DEF SectionIn
<1>3. /\ s = f \/ (s \in (f + 1)..n /\ q[s] \in Separators /\ DepthIn(q, s) = d - 1)
      /\ \A k \in (s + 1)..n : DepthIn(q, k) = d - 1 => q[k] \notin Separators
  BY DEF StackFits, Sectioned
<1> HIDE DEF s
<1>4. s \in 0..n /\ s >= f /\ s < i
  BY <1>1, <1>3 DEF s
<1>5. S \subseteq Nat /\ s \in S
  BY <1>1, <1>3, <1>4
<1>6. \A k \in S : k <= s
  <2> SUFFICES ASSUME NEW k \in (f + 1)..(i - 1), q[k] \in Separators, DepthIn(q, k) = d - 1, k > s PROVE FALSE
    BY <1>1, <1>4
  <2>1. k \in (s + 1)..n
    BY <1>1, <1>4
  <2> QED BY <1>3, <2>1
<1> HIDE DEF S
<1>7. Latest(S) = s
  BY <1>5, <1>6, LatestIs
<1> QED BY <1>2, <1>7 DEF s

LEMMA NodesAscend ==
  ASSUME NEW q \in Seq(Tokens), NEW fr \in Seq(FrameRecord), fr # <<>>, StackFits(q, fr),
         NEW d \in 1..(Len(fr) - 1)
  PROVE  /\ fr[d].node < fr[d + 1].node /\ SectionOf(fr[d]) < fr[d + 1].node
         /\ OwnerIn(q, fr[d + 1].node) = fr[d].node
         /\ SectionIn(q, fr[d + 1].node) = SectionOf(fr[d])
<1> DEFINE n == Len(q)
           f == fr[d].node
           g == fr[d + 1].node
           s == SectionOf(fr[d])
<1>1. n \in Nat /\ Len(fr) \in Nat \ {0} /\ f \in 0..n /\ d \in 1..Len(fr) /\ d + 1 \in 2..Len(fr) /\ d + 1 \in 1..Len(fr)
  BY NestedNodes
<1>2. /\ g \in 1..n /\ DepthIn(q, g) = d - 1 /\ q[g] \in Openers
      /\ \A k \in (g + 1)..(n + 1) : DepthIn(q, k) >= d
      /\ d = 1 => f = 0
      /\ d # 1 => DepthIn(q, f) = d - 2 /\ f \in 1..n
  <2>1. (d + 1) - 2 = d - 1 /\ (d + 1) - 1 = d /\ (d # 1 => d \in 2..Len(fr))
    BY <1>1
  <2> QED BY <1>1, <2>1 DEF StackFits, Nested, Program
<1>3. s = f \/ (s \in (f + 1)..n /\ q[s] \in Separators /\ DepthIn(q, s) = d - 1)
  BY <1>1 DEF StackFits, Sectioned
<1>4. Openers \cap Separators = {}
  BY DEF Openers, Separators, Cases
<1> HIDE DEF n, f, g, s
<1>5. f < g
  <2>1. f = g => FALSE
    BY <1>1, <1>2
  <2>2. f > g => f \in (g + 1)..(n + 1)
    BY <1>1, <1>2
  <2>3. f > g => FALSE
    BY <1>1, <1>2, <2>2
  <2> QED BY <1>1, <1>2, <2>1, <2>3
<1>6. s < g
  <2>1. s > g => s \in (g + 1)..(n + 1)
    BY <1>1, <1>2, <1>3
  <2> QED BY <1>1, <1>2, <1>3, <1>4, <1>5, <2>1
<1>7. g \in (f + 1)..(n + 1)
  BY <1>1, <1>2, <1>5
<1>8. OwnerIn(q, g) = f
  BY <1>1, <1>2, <1>7, OwnerAt DEF f, n
<1>9. SectionIn(q, g) = s
  BY <1>1, <1>2, <1>6, <1>7, SectionAt DEF f, n, s
<1> QED BY <1>5, <1>6, <1>8, <1>9 DEF f, g, s

LEMMA HereIs ==
  ASSUME StackInv
  PROVE  /\ Len(stream) \in Nat /\ Here = Len(stream) + 1
         /\ Len(frames) \in Nat \ {0} /\ Top = frames[Len(frames)] /\ Top \in FrameRecord
         /\ Top.node \in 0..Len(stream) /\ SectionOf(Top) \in 0..Len(stream)
         /\ Owner(Here) = Top.node /\ Section(Here) = SectionOf(Top)
         /\ Depth(Here) = Len(frames) - 1
<1> DEFINE n == Len(stream)
           m == Len(frames)
<1>1. StackFits(stream, frames) /\ stream \in Seq(Tokens) /\ frames \in Seq(FrameRecord) /\ frames # <<>>
  BY DEF StackInv
<1>2. n \in Nat /\ m \in Nat \ {0} /\ m \in 1..m /\ \A d \in 1..m : frames[d] \in FrameRecord /\ frames[d].node \in 0..n
  BY <1>1, NestedNodes
<1>3. DepthIn(stream, n + 1) = m - 1
  BY <1>1 DEF StackFits, Nested
<1>4. SectionOf(frames[m]) \in 0..n
  BY <1>1, <1>2 DEF StackFits, Sectioned
<1>5. n + 1 \in (frames[m].node + 1)..(n + 1) /\ SectionOf(frames[m]) < n + 1
  BY <1>2, <1>4
<1>6. OwnerIn(stream, n + 1) = frames[m].node /\ SectionIn(stream, n + 1) = SectionOf(frames[m])
  BY <1>1, <1>2, <1>3, <1>5, OwnerAt, SectionAt
<1> QED BY <1>2, <1>3, <1>4, <1>6, LooksBack DEF Here, Top

(* What may stand where, in terms of the frame on top.                     *)
LEMMA TokenFits ==
  ASSUME StackInv, NEW t \in Following
  PROVE  LET o == KindIn(stream, Top.node)
             s == KindIn(stream, SectionOf(Top))
             over == Ended(SectionOf(Top))
         IN
         /\ t \in Tokens /\ KindFits(Top.kind, o, s) /\ (Top.block = NoNode <=> s = "judge")
         /\ t \in Statements \cup {"skip", "other"} => s # "judge" /\ ~over
         /\ t \notin Statements \cup {"skip", "other"} => ~line
         /\ t = "else" => s = "if"
         /\ t \in Cases => s = "judge" \/ (s \in Cases /\ over)
         /\ t = "default" => s \in Cases /\ over
         /\ t = "endcase" => s \in Cases \cup {"default"} /\ ~over
         /\ t = "endjudge" => s = "default" \/ (s \in Cases /\ over)
         /\ t \in Enders => Top.node # 0 /\ o \in Openers /\ t = End[o]
         /\ t \in Matches => \E k \in Openers : t = Match[k] /\ Previous = End[k]
         /\ t = "bareCase" => "bareCase" \in Liberties
<1> DEFINE o == KindIn(stream, Top.node)
           s == KindIn(stream, SectionOf(Top))
           over == Ended(SectionOf(Top))
<1>1. /\ Kind(Section(Here)) = s /\ Ended(Section(Here)) = over /\ Kind(Owner(Here)) = o /\ Owner(Here) = Top.node
  BY HereIs DEF Kind, KindIn
<1>2. KindFits(Top.kind, o, s) /\ (Top.block = NoNode <=> s = "judge")
  <2>1. Len(frames) \in 1..Len(frames) /\ Top = frames[Len(frames)]
    BY HereIs
  <2> QED BY <2>1 DEF StackInv, StackFits, Sectioned
<1> HIDE DEF s, o, over
<1>3. /\ t \in Tokens /\ (t = "bareCase" => "bareCase" \in Liberties)
      /\ t \in Statements \cup {"skip", "other"} => StatementFits(t, Section(Here))
      /\ t \notin Statements \cup {"skip", "other"} => ClosingFits(t, Section(Here))
  BY DEF Following, AllLiberties
<1>4. t \in Statements \cup {"skip", "other"} => s # "judge" /\ ~over
  BY <1>1, <1>3 DEF StatementFits
<1>5. t \notin Statements \cup {"skip", "other"} => ~line
  BY <1>3 DEF ClosingFits, StackInv, ReadingFits
<1>6. "else" \notin Statements \cup {"skip", "other"} /\ (Cases \cup {"default", "endcase"}) \cap (Statements \cup {"skip", "other"}) = {}
      /\ (Enders \cup Matches) \cap (Statements \cup {"skip", "other"}) = {}
  BY TokenSets DEF Statements, Openers, Cases
<1>7. t = "else" => s = "if"
  <2> SUFFICES ASSUME t = "else" PROVE s = "if"
    OBVIOUS
  <2>1. ClosingFits(t, Section(Here))
    BY <1>3, <1>6
  <2>2. t \notin Cases /\ t # "default" /\ t # "endcase" /\ t \notin Enders
    BY TokenSets DEF Cases
  <2> QED BY <1>1, <2>1, <2>2 DEF ClosingFits
<1>8. t \in Cases => s = "judge" \/ (s \in Cases /\ over)
  <2> SUFFICES ASSUME t \in Cases PROVE s = "judge" \/ (s \in Cases /\ over)
    OBVIOUS
  <2>1. ClosingFits(t, Section(Here))
    BY <1>3, <1>6
  <2>2. t # "else" /\ t # "default" /\ t # "endcase" /\ t \notin Enders
    BY TokenSets DEF Cases
  <2>3. Kind(Section(Here)) = "judge" \/ (Kind(Section(Here)) \in Cases /\ Ended(Section(Here)))
    <3>1. t = "case" \/ t = "bareCase"
      BY DEF Cases
    <3> QED BY <2>1, <2>2, <3>1 DEF ClosingFits, Cases, Ended, Length
  <2> QED BY <1>1, <2>3
<1>9. t = "default" => s \in Cases /\ over
  <2> SUFFICES ASSUME t = "default" PROVE s \in Cases /\ over
    OBVIOUS
  <2>1. ClosingFits(t, Section(Here))
    BY <1>3, <1>6
  <2>2. t \notin Cases /\ t # "else" /\ t # "endcase" /\ t \notin Enders
    BY TokenSets DEF Cases
  <2> QED BY <1>1, <2>1, <2>2 DEF ClosingFits
<1>10. t = "endcase" => s \in Cases \cup {"default"} /\ ~over
  <2> SUFFICES ASSUME t = "endcase" PROVE s \in Cases \cup {"default"} /\ ~over
    OBVIOUS
  <2>1. ClosingFits(t, Section(Here))
    BY <1>3, <1>6
  <2>2. t \notin Cases /\ t # "else" /\ t # "default" /\ t \notin Enders
    BY TokenSets DEF Cases
  <2> QED BY <1>1, <2>1, <2>2 DEF ClosingFits
<1>11. t = "endjudge" => s = "default" \/ (s \in Cases /\ over)
  <2> SUFFICES ASSUME t = "endjudge" PROVE s = "default" \/ (s \in Cases /\ over)
    OBVIOUS
  <2>1. ClosingFits(t, Section(Here))
    BY <1>3, <1>6, TokenSets
  <2>2. t \notin Cases /\ t # "else" /\ t # "default" /\ t # "endcase"
    BY DEF Cases
  <2> QED BY <1>1, <2>1, <2>2 DEF ClosingFits
<1>12. t \in Enders => Top.node # 0 /\ o \in Openers /\ t = End[o]
  <2>1. CASE t = "endjudge"
    <3>1. o = "judge"
      BY <1>2, <1>11, <2>1 DEF KindFits, Cases
    <3> QED BY <2>1, <3>1, TokenSets DEF o, KindIn, Openers
  <2>2. CASE t \in Enders \ {"endjudge"}
    <3>1. ClosingFits(t, Section(Here))
      BY <1>3, <1>6, <2>2
    <3>2. t \notin Cases /\ t # "else" /\ t # "default" /\ t # "endcase" /\ t # "endjudge"
      BY <2>2, TokenSets DEF Cases
    <3>3. Owner(Here) # 0 /\ t = End[Kind(Owner(Here))]
      BY <2>2, <3>1, <3>2 DEF ClosingFits
    <3>4. o \in Openers
      <4>1. o # "program"
        <5>1. Top.node \in 1..Len(stream)
          BY HereIs, <1>1, <3>3
        <5>2. o = stream[Top.node] /\ o \in Tokens
          BY <5>1 DEF o, KindIn, StackInv
        <5> QED BY <5>2, TokenSets DEF Tokens, Statements, Openers, Sections, Cases
      <4> QED BY <1>2, <4>1 DEF KindFits, Openers
    <3> QED BY <1>1, <3>3, <3>4
  <2> QED BY <2>1, <2>2
<1>13. t \in Matches => \E k \in Openers : t = Match[k] /\ Previous = End[k]
  <2> SUFFICES ASSUME t \in Matches PROVE \E k \in Openers : t = Match[k] /\ Previous = End[k]
    OBVIOUS
  <2>1. ClosingFits(t, Section(Here))
    BY <1>3, <1>6
  <2>2. t \notin Cases /\ t # "else" /\ t # "default" /\ t # "endcase" /\ t # "endjudge" /\ t \notin Enders \ {"endjudge"}
    BY TokenSets DEF Cases
  <2> QED BY <2>1, <2>2 DEF ClosingFits
<1> QED BY <1>2, <1>3, <1>4, <1>5, <1>7, <1>8, <1>9, <1>10, <1>11, <1>12, <1>13 DEF s, o, over

(* ParseLineNode meets nothing but statements, opcode 1 and opcodes that   *)
(* it does not know: every closing token is awaited or matched.            *)
LEMMA LineTokens ==
  ASSUME StackInv, NEW t \in Following, InLine(t)
  PROVE  t \in Statements \cup {"skip", "other"}
<1> DEFINE o == KindIn(stream, Top.node)
           s == KindIn(stream, SectionOf(Top))
           over == Ended(SectionOf(Top))
           kind == Top.kind
<1> SUFFICES ASSUME t \notin Statements \cup {"skip", "other"} PROVE FALSE
  OBVIOUS
<1>1. /\ t \in Tokens /\ KindFits(kind, o, s) /\ ~line
      /\ t = "else" => s = "if"
      /\ t \in Cases => s = "judge" \/ (s \in Cases /\ over)
      /\ t = "default" => s \in Cases /\ over
      /\ t = "endcase" => s \in Cases \cup {"default"} /\ ~over
      /\ t \in Enders => Top.node # 0 /\ o \in Openers /\ t = End[o]
      /\ t \in Matches => \E k \in Openers : t = Match[k] /\ Previous = End[k]
  BY TokenFits
<1>2. t \notin Awaited(kind) /\ ~Matched(t)
  BY <1>1 DEF InLine
<1> HIDE DEF o, s, over, kind
<1>3. CASE t = "else"
  <2>1. kind = "if"
    BY <1>1, <1>3 DEF KindFits, Cases
  <2> QED BY <1>2, <1>3, <2>1 DEF Awaited
<1>4. CASE t \in Cases \cup {"default", "endcase"}
  <2>1. kind = "judge"
    BY <1>1, <1>4 DEF KindFits, Cases
  <2> QED BY <1>2, <1>4, <2>1 DEF Awaited
<1>5. CASE t \in Enders
  <2>1. (kind = o /\ o \in Openers) \/ (kind = "else" /\ o = "if")
    BY <1>1, <1>5 DEF KindFits, Openers
  <2>2. t = End[o]
    BY <1>1, <1>5
  <2> QED BY <1>2, <2>1, <2>2, TokenSets DEF Awaited, Openers
<1>6. CASE t \in Matches
  <2>1. PICK k \in Openers : t = Match[k] /\ Previous = End[k]
    BY <1>1, <1>6
  <2>2. pending # NoNode /\ stream[pending] \in Openers /\ Previous = End[stream[pending]]
    BY <2>1, TokenSets DEF StackInv, ReadingFits, Openers
  <2>3. stream[pending] = k
    BY <2>1, <2>2, TokenSets DEF Openers
  <2> QED BY <1>2, <2>1, <2>2, <2>3 DEF Matched
<1>7. t \in Tokens \ (Statements \cup {"skip", "other"})
  BY <1>1
<1> QED BY <1>3, <1>4, <1>5, <1>6, <1>7 DEF Tokens, Sections, Statements

LEMMA ReadingStep ==
  ASSUME stream \in Seq(Tokens), NEW t \in Tokens, stream' = Append(stream, t),
         line' <=> t = "skip",
         t \notin Enders => pending' = NoNode,
         t \in Enders => /\ pending' \in 1..Len(stream) /\ stream[pending'] \in Openers
                         /\ t = End[stream[pending']]
  PROVE  stream' \in Seq(Tokens) /\ ReadingFits'
<1>1. /\ stream' \in Seq(Tokens) /\ Len(stream) \in Nat /\ Len(stream') = Len(stream) + 1
      /\ stream'[Len(stream) + 1] = t /\ \A k \in 1..Len(stream) : stream'[k] = stream[k]
  BY AppendIs
<1>2. Previous' = t
  <2>1. stream' # <<>>
    BY <1>1
  <2> QED BY <1>1, <2>1 DEF Previous
<1>3. pending' # NoNode => /\ pending' \in 1..Len(stream') /\ stream'[pending'] \in Openers
                           /\ t = End[stream'[pending']]
  <2>1. t \in Enders => pending' \in 1..Len(stream') /\ stream'[pending'] = stream[pending']
    BY <1>1
  <2> QED BY <2>1
<1>4. t \in Enders => pending' # NoNode
  BY <1>1 DEF NoNode
<1> QED BY <1>1, <1>2, <1>3, <1>4 DEF ReadingFits

-----------------------------------------------------------------------------
(* Every action keeps the stack and the stream in agreement.               *)
LEMMA KeepStep ==
  ASSUME StackInv, NEW t \in Following, stream' = Append(stream, t),
         \/ ParseLine(t) \/ ParseSkip(t) \/ ParseUnknown(t) \/ ReadEndCase(t) \/ ReadMatch(t)
  PROVE  StackInv'
<1>1. t \in Tokens
  BY DEF Following
<1>2. stream \in Seq(Tokens) /\ frames \in Seq(FrameRecord) /\ frames # <<>> /\ StackFits(stream, frames)
  BY DEF StackInv
<1>3. frames' = frames /\ pending' = NoNode
  BY DEF ParseLine, ParseSkip, ParseUnknown, ReadEndCase, ReadMatch
<1>4. t \in {"line", "skip", "other", "endcase"} \cup Matches
  <2>1. CASE ParseLine(t) \/ ParseSkip(t) \/ ReadEndCase(t)
    BY <2>1 DEF ParseLine, ParseSkip, ReadEndCase
  <2>2. CASE ParseUnknown(t)
    BY <2>2, LineTokens DEF ParseUnknown
  <2>3. CASE ReadMatch(t)
    BY <2>3, TokenSets DEF ReadMatch, Matched, Matches, StackInv, ReadingFits
  <2> QED BY <2>1, <2>2, <2>3
<1>5. t \notin Openers \cup Enders \cup Separators
  BY <1>4, TokenSets DEF Openers, Separators, Cases
<1>6. line' <=> t = "skip"
  <2>1. CASE ParseLine(t) \/ ParseSkip(t) \/ ParseUnknown(t)
    BY <2>1 DEF ParseLine, ParseSkip, ParseUnknown
  <2>2. CASE ReadEndCase(t)
    BY <2>2 DEF ReadEndCase, InLoop
  <2>3. CASE ReadMatch(t)
    <3>1. t \in Matches
      BY <2>3, TokenSets DEF ReadMatch, Matched, Matches, StackInv, ReadingFits
    <3>2. t \notin Statements \cup {"skip", "other"}
      BY <3>1, TokenSets DEF Statements, Openers
    <3> QED BY <2>3, <3>2, TokenFits DEF ReadMatch
  <2> QED BY <2>1, <2>2, <2>3
<1>7. line' \in BOOLEAN
  BY DEF ParseLine, ParseSkip, ParseUnknown, ReadEndCase, ReadMatch, StackInv
<1>8. StackFits(stream', frames')
  BY <1>1, <1>2, <1>3, <1>5, StackKeeps
<1>9. stream' \in Seq(Tokens) /\ ReadingFits'
  BY <1>1, <1>2, <1>3, <1>5, <1>6, ReadingStep
<1> QED BY <1>2, <1>3, <1>7, <1>8, <1>9 DEF StackInv

LEMMA PushStep ==
  ASSUME StackInv, NEW t \in Following, stream' = Append(stream, t),
         \/ ParseIf(t) \/ ParseIfTrue(t) \/ ParseLoop(t) \/ ParseJudge(t)
  PROVE  /\ StackInv' /\ t \in Openers
         /\ frames' = Append(frames, Frame(t, Here, IF t = "judge" THEN NoNode ELSE Here))
<1> DEFINE f == Frame(t, Here, IF t = "judge" THEN NoNode ELSE Here)
<1>1. t \in Openers /\ t \in Tokens
  BY DEF Following, ParseIf, ParseIfTrue, ParseLoop, ParseJudge, Openers
<1>2. stream \in Seq(Tokens) /\ frames \in Seq(FrameRecord) /\ frames # <<>> /\ StackFits(stream, frames)
  BY DEF StackInv
<1>3. frames' = Append(frames, f) /\ pending' = NoNode /\ line' = FALSE
  BY DEF ParseIf, ParseIfTrue, ParseLoop, ParseJudge, Enter
<1>4. f \in FrameRecord /\ f.kind = t /\ f.node = Len(stream) + 1
      /\ f.block = IF t = "judge" THEN NoNode ELSE Len(stream) + 1
  <2>1. Len(stream) + 1 \in Nat
    BY <1>2
  <2> QED BY <1>1, <2>1 DEF Frame, FrameRecord, Here
<1>5. frames[Len(frames)].block # NoNode
  <2>1. t \in Statements
    BY <1>1 DEF Statements
  <2> QED BY <2>1, HereIs, TokenFits
<1> HIDE DEF f
<1>6. StackFits(stream', frames')
  BY <1>1, <1>2, <1>3, <1>4, <1>5, StackPushes
<1>7. t \notin Enders /\ t # "skip"
  BY <1>1, TokenSets DEF Openers
<1>8. stream' \in Seq(Tokens) /\ ReadingFits'
  BY <1>1, <1>2, <1>3, <1>7, ReadingStep
<1>9. frames' \in Seq(FrameRecord) /\ frames' # <<>>
  BY <1>2, <1>3, <1>4
<1>10. StackInv'
  BY <1>3, <1>6, <1>8, <1>9 DEF StackInv
<1> QED BY <1>1, <1>3, <1>10 DEF f

LEMMA FrameTurns ==
  ASSUME NEW f \in FrameRecord, NEW kind, NEW block
  PROVE  [f EXCEPT !.kind = kind, !.block = block] = Frame(kind, f.node, block)
<1> DEFINE e == [f EXCEPT !.kind = kind, !.block = block]
<1>1. DOMAIN f = {"kind", "node", "block"}
  BY DEF FrameRecord
<1>2. e = [x \in {"kind", "node", "block"} |->
             IF x = "block" THEN block ELSE IF x = "kind" THEN kind ELSE f[x]]
  BY <1>1
<1>3. Frame(kind, f.node, block) = [x \in {"kind", "node", "block"} |->
             IF x = "block" THEN block ELSE IF x = "kind" THEN kind ELSE f[x]]
  BY DEF Frame
<1> QED BY <1>2, <1>3

LEMMA TurnStep ==
  ASSUME StackInv, NEW t \in Following, stream' = Append(stream, t),
         \/ ReadElse(t) \/ ReadCase(t) \/ ReadDefault(t)
  PROVE  /\ StackInv' /\ t \in Separators
         /\ frames' = [frames EXCEPT ![Len(frames)] =
                         Frame(IF t = "else" THEN "else" ELSE "judge", Top.node, Here)]
<1> DEFINE kind == IF t = "else" THEN "else" ELSE "judge"
           g == Frame(kind, Top.node, Here)
           o == KindIn(stream, Top.node)
           s == KindIn(stream, SectionOf(Top))
           m == Len(frames)
<1>1. t \in Separators /\ t \in Tokens
  BY DEF Following, ReadElse, ReadCase, ReadDefault, Separators, Cases
<1>2. stream \in Seq(Tokens) /\ frames \in Seq(FrameRecord) /\ frames # <<>> /\ StackFits(stream, frames)
  BY DEF StackInv
<1>3. m \in Nat \ {0} /\ Top = frames[m] /\ Top \in FrameRecord
  BY HereIs
<1>4. frames' = [frames EXCEPT ![m] = g]
  <2>1. frames' = SetTop(kind, Here)
    BY DEF ReadElse, ReadCase, ReadDefault, Cases
  <2>2. [frames[m] EXCEPT !.kind = kind, !.block = Here] = g
    BY <1>3, FrameTurns
  <2> QED BY <1>2, <1>3, <2>1, <2>2 DEF SetTop
<1>5. g \in FrameRecord /\ g.node = frames[m].node /\ g.block = Len(stream) + 1 /\ g.kind = kind
  <2>1. Len(stream) + 1 \in Nat
    BY <1>2
  <2> QED BY <1>3, <2>1 DEF Frame, FrameRecord, Here, Openers
<1>6. KindFits(g.kind, KindIn(stream, g.node), t)
  <2>1. /\ KindFits(Top.kind, o, s)
        /\ t = "else" => s = "if"
        /\ t \in Cases => s = "judge" \/ s \in Cases
        /\ t = "default" => s \in Cases
    BY TokenFits
  <2>2. g.kind = kind /\ KindIn(stream, g.node) = o
    BY <1>3, <1>5
  <2> HIDE DEF g, o, s
  <2>3. t = "else" => o = "if"
    BY <2>1 DEF KindFits, Cases
  <2>4. t # "else" => o = "judge"
    BY <1>1, <2>1 DEF KindFits, Cases, Separators
  <2> QED BY <1>1, <2>2, <2>3, <2>4 DEF KindFits, Separators
<1> HIDE DEF g
<1>7. StackFits(stream', frames')
  BY <1>1, <1>2, <1>4, <1>5, <1>6, StackTurns
<1>8. t \notin Enders /\ t # "skip" /\ t \notin Statements \cup {"skip", "other"}
  BY <1>1, TokenSets DEF Separators, Cases, Statements, Openers
<1>9. line' = FALSE /\ pending' = NoNode
  BY <1>8, TokenFits DEF ReadElse, ReadCase, ReadDefault, StackInv
<1>10. stream' \in Seq(Tokens) /\ ReadingFits'
  BY <1>1, <1>2, <1>8, <1>9, ReadingStep
<1>11. frames' \in Seq(FrameRecord) /\ frames' # <<>>
  BY <1>2, <1>3, <1>4, <1>5
<1>12. StackInv'
  BY <1>7, <1>9, <1>10, <1>11 DEF StackInv
<1> QED BY <1>1, <1>4, <1>12 DEF g

LEMMA PopStep ==
  ASSUME StackInv, NEW t \in Following, stream' = Append(stream, t), ReadEnd(t)
  PROVE  /\ StackInv' /\ t \in Enders /\ Len(frames) > 1
         /\ Top.node \in 1..Len(stream) /\ stream[Top.node] \in Openers /\ t = End[stream[Top.node]]
         /\ Len(frames') = Len(frames) - 1 /\ \A d \in 1..(Len(frames) - 1) : frames'[d] = frames[d]
<1> DEFINE m == Len(frames)
<1>1. t \in Enders /\ t \in Tokens
  BY DEF Following, ReadEnd
<1>2. stream \in Seq(Tokens) /\ frames \in Seq(FrameRecord) /\ frames # <<>> /\ StackFits(stream, frames)
  BY DEF StackInv
<1>3. m \in Nat \ {0} /\ Top = frames[m] /\ Top.node \in 0..Len(stream)
  BY HereIs
<1>4. Top.node # 0 /\ t = End[KindIn(stream, Top.node)] /\ KindIn(stream, Top.node) \in Openers
  BY <1>1, TokenFits
<1>5. Top.node \in 1..Len(stream) /\ stream[Top.node] \in Openers /\ t = End[stream[Top.node]]
  BY <1>2, <1>3, <1>4 DEF KindIn
<1>6. m > 1
  <2>1. m # 1
    BY <1>2, <1>3, <1>4 DEF StackFits, Nested, Program
  <2>2. m \in Nat \ {0}
    BY <1>3
  <2> HIDE DEF m
  <2> QED BY <2>1, <2>2
<1>7. frames' = SubSeq(frames, 1, m - 1)
  BY DEF ReadEnd, Return, Pop
<1>8. frames' \in Seq(FrameRecord) /\ Len(frames') = m - 1 /\ \A d \in 1..(m - 1) : frames'[d] = frames[d]
  BY <1>2, <1>3, <1>6, <1>7
<1>9. frames' # <<>>
  BY <1>6, <1>8
<1>10. StackFits(stream', frames')
  BY <1>1, <1>2, <1>6, <1>8, StackPops
<1>11. t # "skip" /\ t \notin Statements \cup {"skip", "other"}
  BY <1>1, TokenSets DEF Statements, Openers
<1>12. line' = FALSE /\ pending' = Top.node
  BY <1>11, TokenFits DEF ReadEnd, StackInv
<1>13. stream' \in Seq(Tokens) /\ ReadingFits'
  BY <1>1, <1>2, <1>5, <1>11, <1>12, ReadingStep
<1>14. StackInv'
  BY <1>8, <1>9, <1>10, <1>12, <1>13 DEF StackInv
<1> QED BY <1>1, <1>5, <1>6, <1>8, <1>14

LEMMA StackStart == Init => StackInv
<1> SUFFICES ASSUME Init PROVE StackInv
  OBVIOUS
<1> DEFINE f == Frame("program", Program, Program)
<1>1. stream = <<>> /\ frames = <<f>> /\ ~line /\ pending = NoNode /\ line \in BOOLEAN
  BY DEF Init
<1>2. f \in FrameRecord /\ f.kind = "program" /\ f.node = 0 /\ f.block = 0
  BY DEF Frame, FrameRecord, Program
<1> HIDE DEF f
<1>3. stream \in Seq(Tokens) /\ Len(stream) = 0 /\ frames \in Seq(FrameRecord) /\ frames # <<>>
      /\ Len(frames) = 1 /\ frames[1] = f
  BY <1>1, <1>2
<1>4. DepthIn(stream, 1) = 0
  <2>1. "line" \in Tokens
    BY DEF Tokens, Statements
  <2> QED BY <1>3, <2>1, DepthGrows
<1>5. Nested(stream, frames)
  <2>1. \A k \in (0 + 1)..(0 + 1) : DepthIn(stream, k) >= 0
    BY <1>4
  <2> QED BY <1>2, <1>3, <1>4, <2>1 DEF Nested, Program
<1>6. Sectioned(stream, f, 1)
  <2>1. SectionOf(f) = 0 /\ f.block # NoNode /\ KindIn(stream, 0) = "program"
    BY <1>2 DEF SectionOf, NoNode, KindIn
  <2> QED BY <1>2, <1>3, <2>1 DEF Sectioned, KindFits
<1>7. StackFits(stream, frames)
  BY <1>3, <1>5, <1>6 DEF StackFits
<1>8. ReadingFits
  BY <1>1, TokenSets DEF ReadingFits, Previous
<1> QED BY <1>1, <1>3, <1>7, <1>8 DEF StackInv

LEMMA StackStep == StackInv /\ [Next]_vars => StackInv'
<1> SUFFICES ASSUME StackInv, [Next]_vars PROVE StackInv'
  OBVIOUS
<1>1. CASE UNCHANGED vars
  BY <1>1 DEF vars, StackInv, ReadingFits, Previous
<1>2. CASE Finished
  BY <1>2 DEF Finished, vars, StackInv, ReadingFits, Previous
<1>3. ASSUME NEW t \in Following, ReadByte(t), stream' = Append(stream, t)
      PROVE  StackInv'
  <2>1. CASE ParseLine(t) \/ ParseSkip(t) \/ ParseUnknown(t) \/ ReadEndCase(t) \/ ReadMatch(t)
    BY <1>3, <2>1, KeepStep
  <2>2. CASE ParseIf(t) \/ ParseIfTrue(t) \/ ParseLoop(t) \/ ParseJudge(t)
    BY <1>3, <2>2, PushStep
  <2>3. CASE ReadElse(t) \/ ReadCase(t) \/ ReadDefault(t)
    BY <1>3, <2>3, TurnStep
  <2>4. CASE ReadEnd(t)
    BY <1>3, <2>4, PopStep
  <2> QED BY <1>3, <2>1, <2>2, <2>3, <2>4 DEF ReadByte
<1> QED BY <1>1, <1>2, <1>3 DEF Next

LEMMA StackInvariant == Spec => []StackInv
<1>1. Init => StackInv
  BY StackStart
<1>2. StackInv /\ [Next]_vars => StackInv'
  BY StackStep
<1> QED BY <1>1, <1>2, PTL DEF Spec

(* A ParseXxx call is in progress for each construct that is open in the   *)
(* stream and for no other, and the call on top adds statements to the     *)
(* block of the section the stream is in, after any sequence of opcodes.   *)
THEOREM StackIsNestCorrect == Spec => []StackIsNest
<1>1. ASSUME StackInv PROVE StackIsNest
  <2> DEFINE m == Len(frames)
             s == SectionOf(Top)
  <2>1. /\ m \in Nat \ {0} /\ Top = frames[m] /\ Top \in FrameRecord
        /\ Owner(Here) = Top.node /\ Section(Here) = s /\ Depth(Here) = m - 1
    BY <1>1, HereIs
  <2>2. StackFits(stream, frames) /\ stream \in Seq(Tokens) /\ frames \in Seq(FrameRecord) /\ frames # <<>>
    BY <1>1 DEF StackInv
  <2>3. Top.block = NoNode <=> KindIn(stream, s) = "judge"
    BY <2>1, <2>2 DEF StackFits, Sectioned
  <2>4. Top.block = IF Kind(Section(Here)) = "judge" THEN NoNode ELSE Section(Here)
    BY <2>1, <2>3 DEF Kind, KindIn, SectionOf
  <2>5. \A d \in 1..(m - 1) : frames[d].node = Owner(frames[d + 1].node)
    BY <2>2, NodesAscend, LooksBack
  <2> QED BY <2>1, <2>4, <2>5 DEF StackIsNest
<1> QED BY <1>1, StackInvariant, PTL

-----------------------------------------------------------------------------
(* The tree: which blocks and judges there are, and what they hold.        *)
BlockAt(q) == {Program} \cup {i \in 1..Len(q) : q[i] \in Sections \ {"judge"}}
JudgeAt(q) == {i \in 1..Len(q) : q[i] = "judge"}
Entries(q) == (1..Len(q)) \cup {NoNode}
JudgeRecord(q) == [conditions : Seq(1..Len(q)), blocks : Seq(BlockAt(q)),
                   default_block : BlockAt(q) \cup {NoNode}]

TreeInv ==
  /\ blocks \in [BlockAt(stream) -> Seq(Entries(stream))]
  /\ judges \in [JudgeAt(stream) -> JudgeRecord(stream)]
  /\ elses \in [DOMAIN elses -> BlockAt(stream) \cup {NoNode}]
  /\ tails \in [DOMAIN tails -> Entries(stream)]

LEMMA Extended ==
  ASSUME NEW D, NEW R, NEW f \in [D -> R], NEW x, NEW v \in R, x \notin D
  PROVE  /\ Added(f, x, v) \in [D \cup {x} -> R]
         /\ Added(f, x, v)[x] = v /\ \A y \in D : Added(f, x, v)[y] = f[y]
  BY DEF Added

LEMMA ExtendedAny ==
  ASSUME NEW R, NEW f, f \in [DOMAIN f -> R], NEW x, NEW v \in R
  PROVE  Added(f, x, v) \in [DOMAIN Added(f, x, v) -> R]
  BY DEF Added

LEMMA SeqWiden ==
  ASSUME NEW S, NEW T, S \subseteq T, NEW s \in Seq(S)
  PROVE  s \in Seq(T)
  OBVIOUS

LEMMA TreeGrows ==
  ASSUME NEW q \in Seq(Tokens), NEW t \in Tokens
  PROVE  /\ BlockAt(Append(q, t)) = BlockAt(q) \cup (IF t \in Sections \ {"judge"} THEN {Len(q) + 1} ELSE {})
         /\ JudgeAt(Append(q, t)) = JudgeAt(q) \cup (IF t = "judge" THEN {Len(q) + 1} ELSE {})
         /\ Entries(Append(q, t)) = Entries(q) \cup {Len(q) + 1}
         /\ JudgeRecord(q) \subseteq JudgeRecord(Append(q, t))
         /\ Len(q) + 1 \notin BlockAt(q) /\ Len(q) + 1 \notin JudgeAt(q)
<1> DEFINE r == Append(q, t)
           n == Len(q)
<1>1. n \in Nat /\ Len(r) = n + 1 /\ r[n + 1] = t /\ \A k \in 1..n : r[k] = q[k]
  BY AppendIs
<1> HIDE DEF r, n
<1>2. 1..(n + 1) = (1..n) \cup {n + 1} /\ n + 1 \notin 1..n /\ n + 1 # 0
  BY <1>1
<1>3. BlockAt(r) = BlockAt(q) \cup (IF t \in Sections \ {"judge"} THEN {n + 1} ELSE {}) /\ n + 1 \notin BlockAt(q)
  BY <1>1, <1>2 DEF BlockAt, n, Program
<1>4. JudgeAt(r) = JudgeAt(q) \cup (IF t = "judge" THEN {n + 1} ELSE {}) /\ n + 1 \notin JudgeAt(q)
  BY <1>1, <1>2 DEF JudgeAt, n
<1>5. Entries(r) = Entries(q) \cup {n + 1}
  BY <1>1, <1>2 DEF Entries, n
<1>6. JudgeRecord(q) \subseteq JudgeRecord(r)
  <2>1. BlockAt(q) \subseteq BlockAt(r) /\ 1..Len(q) \subseteq 1..Len(r)
    BY <1>1, <1>2, <1>3 DEF n
  <2>2. Seq(BlockAt(q)) \subseteq Seq(BlockAt(r)) /\ Seq(1..Len(q)) \subseteq Seq(1..Len(r))
    BY <2>1, SeqWiden
  <2> QED BY <2>1, <2>2 DEF JudgeRecord
<1> QED BY <1>3, <1>4, <1>5, <1>6 DEF r, n

LEMMA TreeWidens ==
  ASSUME NEW q \in Seq(Tokens), NEW t \in Tokens
  PROVE  /\ BlockAt(q) \subseteq BlockAt(Append(q, t)) /\ Entries(q) \subseteq Entries(Append(q, t))
         /\ JudgeRecord(q) \subseteq JudgeRecord(Append(q, t))
         /\ Seq(Entries(q)) \subseteq Seq(Entries(Append(q, t)))
         /\ Len(q) + 1 \in 1..Len(Append(q, t)) /\ 1..Len(q) \subseteq 1..Len(Append(q, t))
<1>1. BlockAt(q) \subseteq BlockAt(Append(q, t)) /\ Entries(q) \subseteq Entries(Append(q, t))
      /\ JudgeRecord(q) \subseteq JudgeRecord(Append(q, t))
  BY TreeGrows
<1>2. Seq(Entries(q)) \subseteq Seq(Entries(Append(q, t)))
  BY <1>1, SeqWiden
<1>3. Len(q) \in Nat /\ Len(Append(q, t)) = Len(q) + 1
  BY AppendIs
<1> QED BY <1>1, <1>2, <1>3

(* The block that a method adds to is the block of a section.              *)
LEMMA FrameBlock ==
  ASSUME StackInv, NEW d \in 1..Len(frames), frames[d].block # NoNode
  PROVE  frames[d].block \in BlockAt(stream) /\ SectionOf(frames[d]) = frames[d].block
<1> DEFINE f == frames[d]
           s == SectionOf(f)
<1>1. StackFits(stream, frames) /\ Len(stream) \in Nat /\ Len(frames) \in Nat \ {0}
  BY HereIs DEF StackInv
<1>2. s = f.block
  BY DEF SectionOf
<1>3. \/ s = f.node
      \/ s \in (f.node + 1)..Len(stream) /\ stream[s] \in Separators
  BY <1>1 DEF StackFits, Sectioned
<1>4. KindIn(stream, s) # "judge"
  BY <1>1 DEF StackFits, Sectioned
<1>5. CASE s = f.node
  <2>1. f.node = 0 \/ (f.node \in 1..Len(stream) /\ stream[f.node] \in Openers)
    BY <1>1 DEF StackFits, Nested, Program
  <2> QED BY <1>2, <1>4, <1>5, <2>1 DEF BlockAt, KindIn, Sections, Program
<1>6. CASE s # f.node
  <2>1. s \in 1..Len(stream) /\ stream[s] \in Separators
    <3>1. f.node \in 0..Len(stream)
      BY <1>1, NestedNodes DEF StackInv
    <3> QED BY <1>1, <1>3, <1>6, <3>1
  <2>2. Separators \subseteq Sections \ {"judge"}
    BY DEF Separators, Sections, Cases, Openers
  <2> QED BY <1>2, <2>1, <2>2 DEF BlockAt
<1> QED BY <1>2, <1>5, <1>6

LEMMA JudgeOnTop ==
  ASSUME StackInv, NEW t \in Following, t \in Cases \cup {"default", "endcase", "endjudge"}
  PROVE  Top.node \in 1..Len(stream) /\ stream[Top.node] = "judge" /\ Top.kind = "judge"
<1>1. /\ KindFits(Top.kind, KindIn(stream, Top.node), KindIn(stream, SectionOf(Top)))
      /\ KindIn(stream, SectionOf(Top)) \in {"judge", "default"} \cup Cases
  BY TokenFits
<1>2. Top.kind = "judge" /\ KindIn(stream, Top.node) = "judge"
  BY <1>1 DEF KindFits, Cases
<1> QED BY <1>2, HereIs DEF KindIn

(* Which tokens the actions that make no block and no judge read.          *)
LEMMA PlainTokens ==
  ASSUME StackInv, NEW t \in Following,
         \/ ParseLine(t) \/ ParseSkip(t) \/ ParseUnknown(t)
         \/ ReadEndCase(t) \/ ReadEnd(t) \/ ReadMatch(t)
  PROVE  t \notin Sections
<1>1. t \in {"line", "skip", "other", "endcase"} \cup Matches \cup Enders
  <2>1. CASE ParseLine(t) \/ ParseSkip(t) \/ ReadEndCase(t) \/ ReadEnd(t)
    BY <2>1 DEF ParseLine, ParseSkip, ReadEndCase, ReadEnd
  <2>2. CASE ParseUnknown(t)
    BY <2>2, LineTokens DEF ParseUnknown
  <2>3. CASE ReadMatch(t)
    BY <2>3, TokenSets DEF ReadMatch, Matched, Matches, StackInv, ReadingFits
  <2> QED BY <2>1, <2>2, <2>3
<1> QED BY <1>1, TokenSets DEF Sections, Openers, Cases

LEMMA TopAdds ==
  ASSUME StackInv, NEW t \in Following, t \in Statements \cup {"skip", "other"}
  PROVE  Top.block \in BlockAt(stream) /\ Top.block = SectionOf(Top)
<1>1. Top.block # NoNode
  BY TokenFits
<1>2. Len(frames) \in 1..Len(frames) /\ Top = frames[Len(frames)]
  BY HereIs
<1> QED BY <1>1, <1>2, FrameBlock

LEMMA BelowAdds ==
  ASSUME StackInv, Len(frames) > 1
  PROVE  LET b == frames[Len(frames) - 1].block
         IN b \in BlockAt(stream) /\ b = SectionOf(frames[Len(frames) - 1])
<1>1. Len(frames) \in Nat /\ Len(frames) - 1 \in 1..Len(frames) /\ Len(frames) - 1 \in 1..(Len(frames) - 1)
  BY HereIs
<1>2. frames[Len(frames) - 1].block # NoNode
  BY <1>1 DEF StackInv, StackFits
<1> QED BY <1>1, <1>2, FrameBlock

LEMMA Listed ==
  ASSUME NEW D, NEW R, NEW f \in [D -> Seq(R)], NEW x \in D, NEW v \in R
  PROVE  [f EXCEPT ![x] = Append(@, v)] \in [D -> Seq(R)]
  OBVIOUS

LEMMA BlocksStep ==
  ASSUME StackInv, TreeInv, NEW t \in Following, ReadByte(t), stream' = Append(stream, t)
  PROVE  blocks' \in [BlockAt(stream') -> Seq(Entries(stream'))]
<1> DEFINE B == BlockAt(stream)
           R == Seq(Entries(stream'))
<1>1. t \in Tokens /\ stream \in Seq(Tokens)
  BY DEF Following, StackInv
<1>2. /\ BlockAt(stream') = B \cup (IF t \in Sections \ {"judge"} THEN {Here} ELSE {}) /\ Here \notin B
      /\ Entries(stream') = Entries(stream) \cup {Here}
      /\ Seq(Entries(stream)) \subseteq R
  BY <1>1, TreeGrows, TreeWidens DEF Here
<1>3. blocks \in [B -> R]
  BY <1>2 DEF TreeInv
<1>4. CASE ParseSkip(t) \/ ReadEndCase(t) \/ ReadMatch(t)
  BY <1>2, <1>3, <1>4, PlainTokens DEF ParseSkip, ReadEndCase, ReadMatch
<1>5. CASE ParseJudge(t)
  BY <1>2, <1>3, <1>5 DEF ParseJudge
<1>6. CASE ParseLine(t) \/ ParseUnknown(t)
  <2>1. PICK v \in {Here, NoNode} : blocks' = AddStmt(Top.block, v)
    BY <1>6 DEF ParseLine, ParseUnknown
  <2>2. t \in Statements \cup {"skip", "other"}
    BY <1>6, LineTokens DEF ParseLine, ParseUnknown, Statements
  <2>3. v \in Entries(stream') /\ Top.block \in B
    BY <1>2, <2>2, TopAdds DEF Entries
  <2>4. blocks' \in [B -> R]
    BY <1>3, <2>1, <2>3, Listed DEF AddStmt
  <2> QED BY <1>2, <1>6, <2>4, PlainTokens
<1>7. CASE ReadEnd(t)
  <2>1. Len(frames) > 1 /\ Top.node \in 1..Len(stream)
    BY <1>7, PopStep
  <2>2. Top.node \in Entries(stream')
    BY <1>2, <2>1 DEF Entries
  <2>3. frames[Len(frames) - 1].block \in B
    BY <2>1, BelowAdds
  <2>4. blocks' \in [B -> R]
    BY <1>3, <1>7, <2>2, <2>3, Listed DEF ReadEnd, Return, AddStmt
  <2> QED BY <1>2, <1>7, <2>4, PlainTokens
<1>8. CASE \/ ParseIf(t) \/ ParseIfTrue(t) \/ ParseLoop(t)
           \/ ReadElse(t) \/ ReadCase(t) \/ ReadDefault(t)
  <2>1. blocks' = Added(blocks, Here, <<>>) /\ t \in Sections \ {"judge"}
    BY <1>8 DEF ParseIf, ParseIfTrue, ParseLoop, Enter, ReadElse, ReadCase, ReadDefault,
                Sections, Openers, Cases
  <2>2. <<>> \in R
    OBVIOUS
  <2> HIDE DEF B, R
  <2>3. Added(blocks, Here, <<>>) \in [B \cup {Here} -> R]
    BY <1>2, <1>3, <2>2, Extended
  <2> QED BY <1>2, <2>1, <2>3 DEF R
<1> QED BY <1>4, <1>5, <1>6, <1>7, <1>8 DEF ReadByte

(* The fields of a judge, by what an action does to them.                  *)
LEMMA JudgeFields ==
  ASSUME NEW q, NEW g \in JudgeRecord(q)
  PROVE  /\ g.conditions \in Seq(1..Len(q)) /\ g.blocks \in Seq(BlockAt(q))
         /\ g.default_block \in BlockAt(q) \cup {NoNode}
         /\ DOMAIN g = {"conditions", "blocks", "default_block"}
         /\ g = [x \in {"conditions", "blocks", "default_block"} |-> g[x]]
  BY DEF JudgeRecord

LEMMA ConditionsUpdated ==
  ASSUME NEW q, NEW g \in JudgeRecord(q), NEW c
  PROVE  [g EXCEPT !.conditions = c] = [conditions |-> c, blocks |-> g.blocks, default_block |-> g.default_block]
<1> DEFINE h == [x \in {"conditions", "blocks", "default_block"} |-> IF x = "conditions" THEN c ELSE g[x]]
<1>1. [g EXCEPT !.conditions = c] = h
  BY JudgeFields
<1>2. [conditions |-> c, blocks |-> g.blocks, default_block |-> g.default_block] = h
  OBVIOUS
<1> QED BY <1>1, <1>2

LEMMA BlocksUpdated ==
  ASSUME NEW q, NEW g \in JudgeRecord(q), NEW b
  PROVE  [g EXCEPT !.blocks = b] = [conditions |-> g.conditions, blocks |-> b, default_block |-> g.default_block]
<1> DEFINE h == [x \in {"conditions", "blocks", "default_block"} |-> IF x = "blocks" THEN b ELSE g[x]]
<1>1. [g EXCEPT !.blocks = b] = h
  BY JudgeFields
<1>2. [conditions |-> g.conditions, blocks |-> b, default_block |-> g.default_block] = h
  OBVIOUS
<1> QED BY <1>1, <1>2

LEMMA DefaultUpdated ==
  ASSUME NEW q, NEW g \in JudgeRecord(q), NEW b, NEW d
  PROVE  [g EXCEPT !.blocks = b, !.default_block = d] = [conditions |-> g.conditions, blocks |-> b, default_block |-> d]
<1> DEFINE h == [x \in {"conditions", "blocks", "default_block"} |->
                  IF x = "default_block" THEN d ELSE IF x = "blocks" THEN b ELSE g[x]]
<1>1. [g EXCEPT !.blocks = b, !.default_block = d] = h
  BY JudgeFields
<1>2. [conditions |-> g.conditions, blocks |-> b, default_block |-> d] = h
  OBVIOUS
<1> QED BY <1>1, <1>2

(* What the three opcodes of a judge make of the one that is read.         *)
LEMMA JudgeActions ==
  ASSUME StackInv, TreeInv, NEW t \in Following,
         ReadCase(t) \/ ReadDefault(t) \/ ReadEndCase(t)
  PROVE  LET j == Top.node
             g == judges[j]
             h == CASE t \in Cases -> [conditions |-> Append(g.conditions, Here), blocks |-> g.blocks,
                                       default_block |-> g.default_block]
                    [] t = "default" -> [conditions |-> g.conditions, blocks |-> Append(g.blocks, Top.block),
                                         default_block |-> Here]
                    [] t = "endcase" -> [conditions |-> g.conditions, blocks |-> Append(g.blocks, Top.block),
                                         default_block |-> g.default_block]
         IN  /\ t \in Cases \cup {"default", "endcase"}
             /\ j \in JudgeAt(stream) /\ judges[j] \in JudgeRecord(stream)
             /\ judges' = IF t = "bareCase" THEN judges ELSE [judges EXCEPT ![j] = h]
<1> DEFINE j == Top.node
           g == judges[j]
           hc == [conditions |-> Append(g.conditions, Here), blocks |-> g.blocks,
                  default_block |-> g.default_block]
           hd == [conditions |-> g.conditions, blocks |-> Append(g.blocks, Top.block),
                  default_block |-> Here]
           he == [conditions |-> g.conditions, blocks |-> Append(g.blocks, Top.block),
                  default_block |-> g.default_block]
<1>1. t \in Cases \cup {"default", "endcase"}
  BY DEF ReadCase, ReadDefault, ReadEndCase
<1>2. j \in JudgeAt(stream) /\ g \in JudgeRecord(stream)
  BY <1>1, JudgeOnTop DEF JudgeAt, TreeInv
<1>3. CASE ReadCase(t)
  <2>1. [g EXCEPT !.conditions = Append(g.conditions, Here)] = hc
    <3> DEFINE c == Append(g.conditions, Here)
    <3> HIDE DEF g, c
    <3>1. [g EXCEPT !.conditions = c] = [conditions |-> c, blocks |-> g.blocks, default_block |-> g.default_block]
      BY <1>2, ConditionsUpdated
    <3> QED BY <3>1 DEF c
  <2>2. judges' = IF t = "bareCase" THEN judges
                  ELSE [judges EXCEPT ![j] = [g EXCEPT !.conditions = Append(g.conditions, Here)]]
    BY <1>3, Zenon DEF ReadCase
  <2>3. t \in Cases
    BY <1>3 DEF ReadCase
  <2> QED BY <1>1, <1>2, <2>1, <2>2, <2>3 DEF Cases
<1>4. CASE ReadDefault(t)
  <2>1. [g EXCEPT !.blocks = Append(g.blocks, Top.block), !.default_block = Here] = hd
    <3> DEFINE b == Append(g.blocks, Top.block)
    <3> HIDE DEF g, b
    <3>1. [g EXCEPT !.blocks = b, !.default_block = Here] = [conditions |-> g.conditions, blocks |-> b, default_block |-> Here]
      BY <1>2, DefaultUpdated
    <3> QED BY <3>1 DEF b
  <2>2. judges' = [judges EXCEPT ![j] = [g EXCEPT !.blocks = Append(g.blocks, Top.block), !.default_block = Here]]
    BY <1>4, Zenon DEF ReadDefault, PushBack
  <2>3. t = "default" /\ t \notin Cases
    BY <1>4 DEF ReadDefault, Cases
  <2> QED BY <1>1, <1>2, <2>1, <2>2, <2>3 DEF Cases
<1>5. CASE ReadEndCase(t)
  <2>1. [g EXCEPT !.blocks = Append(g.blocks, Top.block)] = he
    <3> HIDE DEF g
    <3> QED BY <1>2, BlocksUpdated
  <2>2. judges' = [judges EXCEPT ![j] = [g EXCEPT !.blocks = Append(g.blocks, Top.block)]]
    BY <1>5, Zenon DEF ReadEndCase, PushBack
  <2>3. t = "endcase" /\ t \notin Cases
    BY <1>5 DEF ReadEndCase, Cases
  <2> QED BY <1>1, <1>2, <2>1, <2>2, <2>3 DEF Cases
<1> QED BY <1>3, <1>4, <1>5

LEMMA JudgesStep ==
  ASSUME StackInv, TreeInv, NEW t \in Following, ReadByte(t), stream' = Append(stream, t)
  PROVE  judges' \in [JudgeAt(stream') -> JudgeRecord(stream')]
<1> DEFINE J == JudgeAt(stream)
           R == JudgeRecord(stream')
           j == Top.node
           C == Seq(1..Len(stream'))
           B == Seq(BlockAt(stream'))
           D == BlockAt(stream') \cup {NoNode}
<1>1. t \in Tokens /\ stream \in Seq(Tokens)
  BY DEF Following, StackInv
<1>2. /\ JudgeAt(stream') = J \cup (IF t = "judge" THEN {Here} ELSE {}) /\ Here \notin J
      /\ BlockAt(stream') = BlockAt(stream) \cup (IF t \in Sections \ {"judge"} THEN {Here} ELSE {})
      /\ JudgeRecord(stream) \subseteq R /\ Here \in 1..Len(stream')
  BY <1>1, TreeGrows, TreeWidens DEF Here
<1>3. judges \in [J -> R]
  BY <1>2 DEF TreeInv
<1>4. CASE ParseJudge(t)
  <2>1. NewJudge \in R
    BY DEF NewJudge, JudgeRecord
  <2>2. t = "judge" /\ judges' = Added(judges, Here, NewJudge)
    BY <1>4 DEF ParseJudge
  <2> HIDE DEF J, R
  <2>3. Added(judges, Here, NewJudge) \in [J \cup {Here} -> R]
    BY <1>2, <1>3, <2>1, Extended
  <2> QED BY <1>2, <2>2, <2>3 DEF R
<1>5. CASE UNCHANGED judges /\ t # "judge"
  BY <1>2, <1>3, <1>5
<1>6. R = [conditions : C, blocks : B, default_block : D]
  BY Zenon DEF JudgeRecord
<1>7. CASE ReadCase(t) \/ ReadDefault(t) \/ ReadEndCase(t)
  <2> DEFINE g == judges[j]
             hc == [conditions |-> Append(g.conditions, Here), blocks |-> g.blocks,
                    default_block |-> g.default_block]
             hd == [conditions |-> g.conditions, blocks |-> Append(g.blocks, Top.block),
                    default_block |-> Here]
             he == [conditions |-> g.conditions, blocks |-> Append(g.blocks, Top.block),
                    default_block |-> g.default_block]
  <2>1. /\ t \in Cases \cup {"default", "endcase"} /\ j \in J /\ g \in JudgeRecord(stream)
        /\ t \in Cases => judges' = judges \/ judges' = [judges EXCEPT ![j] = hc]
        /\ t = "default" => judges' = [judges EXCEPT ![j] = hd]
        /\ t = "endcase" => judges' = [judges EXCEPT ![j] = he]
    BY <1>7, JudgeActions DEF Cases
  <2>2. g.conditions \in C /\ g.blocks \in B /\ g.default_block \in D
    <3>1. g \in JudgeRecord(stream')
      BY <1>2, <2>1
    <3> HIDE DEF g
    <3> QED BY <3>1, JudgeFields
  <2>3. t \in {"default", "endcase"} => Top.block \in BlockAt(stream')
    <3>1. t \in {"default", "endcase"} => Top.block # NoNode
      BY TokenFits DEF Cases
    <3>2. Len(frames) \in 1..Len(frames) /\ Top = frames[Len(frames)]
      BY HereIs
    <3> QED BY <1>2, <3>1, <3>2, FrameBlock
  <2>4. t = "default" => Here \in D
    BY <1>2 DEF Sections, Openers
  <2>5. Append(g.conditions, Here) \in C /\ (t \in {"default", "endcase"} => Append(g.blocks, Top.block) \in B)
    BY <1>2, <2>2, <2>3
  <2>6. hc \in R /\ (t = "default" => hd \in R) /\ (t = "endcase" => he \in R)
    BY <1>6, <2>2, <2>4, <2>5
  <2>7. t # "judge"
    BY <2>1 DEF Cases
  <2> HIDE DEF R, J, hc, hd, he
  <2>8. judges' \in [J -> R]
    BY <1>3, <2>1, <2>6
  <2> QED BY <1>2, <2>7, <2>8 DEF R
<1>8. CASE \/ ParseLine(t) \/ ParseSkip(t) \/ ParseUnknown(t) \/ ReadEnd(t) \/ ReadMatch(t)
           \/ ParseIf(t) \/ ParseIfTrue(t) \/ ParseLoop(t) \/ ReadElse(t)
  <2>1. UNCHANGED judges
    BY <1>8 DEF ParseLine, ParseSkip, ParseUnknown, ReadEnd, ReadMatch, ParseIf, ParseIfTrue, ParseLoop,
                Enter, ReadElse
  <2>2. t # "judge"
    BY <1>8, PlainTokens DEF Sections, Openers, ParseIf, ParseIfTrue, ParseLoop, ReadElse
  <2> QED BY <1>5, <2>1, <2>2
<1> QED BY <1>4, <1>7, <1>8 DEF ReadByte

LEMMA LinksStep ==
  ASSUME StackInv, TreeInv, NEW t \in Following, ReadByte(t), stream' = Append(stream, t)
  PROVE  /\ elses' \in [DOMAIN elses' -> BlockAt(stream') \cup {NoNode}]
         /\ tails' \in [DOMAIN tails' -> Entries(stream')]
<1> DEFINE B == BlockAt(stream') \cup {NoNode}
           E == Entries(stream')
<1>1. t \in Tokens /\ stream \in Seq(Tokens)
  BY DEF Following, StackInv
<1>2. /\ BlockAt(stream) \subseteq BlockAt(stream') /\ Entries(stream') = Entries(stream) \cup {Here}
      /\ t \in Sections \ {"judge"} => Here \in BlockAt(stream')
  BY <1>1, TreeGrows, TreeWidens DEF Here
<1>3. /\ elses \in [DOMAIN elses -> B] /\ tails \in [DOMAIN tails -> E]
      /\ NoNode \in B /\ NoNode \in E /\ Here \in E
  BY <1>2 DEF TreeInv, Entries
<1> HIDE DEF B, E
<1>4. CASE \/ ParseLine(t) \/ ParseSkip(t) \/ ParseUnknown(t) \/ ParseJudge(t)
           \/ ReadCase(t) \/ ReadDefault(t) \/ ReadEndCase(t) \/ ReadEnd(t)
  <2>1. UNCHANGED <<elses, tails>>
    BY <1>4 DEF ParseLine, ParseSkip, ParseUnknown, ParseJudge, ReadCase, ReadDefault, ReadEndCase, ReadEnd
  <2> QED BY <1>3, <2>1 DEF B, E
<1>5. CASE ParseIf(t) \/ ParseIfTrue(t)
  <2>1. tails' = tails /\ elses' = Added(elses, Here, NoNode)
    BY <1>5 DEF ParseIf, ParseIfTrue
  <2> QED BY <1>3, <2>1, ExtendedAny DEF B, E
<1>6. CASE ParseLoop(t)
  <2>1. elses' = elses /\ tails' = Added(tails, Here, NoNode)
    BY <1>6 DEF ParseLoop
  <2> QED BY <1>3, <2>1, ExtendedAny DEF B, E
<1>7. CASE ReadElse(t)
  <2>1. tails' = tails /\ elses' = [elses EXCEPT ![Top.node] = Here]
    BY <1>7 DEF ReadElse
  <2>2. Here \in B
    BY <1>2, <1>7 DEF ReadElse, Sections, Openers, B
  <2> QED BY <1>3, <2>1, <2>2 DEF B, E
<1>8. CASE ReadMatch(t)
  <2>1. elses' = elses /\ (tails' = tails \/ tails' = [tails EXCEPT ![pending] = Here])
    BY <1>8 DEF ReadMatch
  <2> QED BY <1>3, <2>1 DEF B, E
<1> QED BY <1>4, <1>5, <1>6, <1>7, <1>8 DEF ReadByte

LEMMA TreeStart == Init => TreeInv
<1> SUFFICES ASSUME Init PROVE TreeInv
  OBVIOUS
<1>1. stream = <<>> /\ blocks = [s \in {Program} |-> <<>>] /\ judges = <<>> /\ elses = <<>> /\ tails = <<>>
  BY DEF Init
<1>2. BlockAt(stream) = {Program} /\ JudgeAt(stream) = {}
  BY <1>1 DEF BlockAt, JudgeAt
<1>3. DOMAIN <<>> = {} /\ <<>> = [x \in {} |-> 0]
  OBVIOUS
<1>4. /\ judges \in [{} -> JudgeRecord(stream)]
      /\ elses \in [DOMAIN elses -> BlockAt(stream) \cup {NoNode}] /\ tails \in [DOMAIN tails -> Entries(stream)]
  BY <1>1, <1>3
<1>5. blocks \in [{Program} -> Seq(Entries(stream))]
  BY <1>1
<1> QED BY <1>2, <1>4, <1>5 DEF TreeInv

LEMMA TreeStep == StackInv /\ TreeInv /\ [Next]_vars => TreeInv'
<1> SUFFICES ASSUME StackInv, TreeInv, [Next]_vars PROVE TreeInv'
  OBVIOUS
<1>1. CASE UNCHANGED vars
  BY <1>1 DEF vars, TreeInv
<1>2. CASE Finished
  BY <1>2 DEF Finished, vars, TreeInv
<1>3. ASSUME NEW t \in Following, ReadByte(t), stream' = Append(stream, t) PROVE TreeInv'
  BY <1>3, BlocksStep, JudgesStep, LinksStep DEF TreeInv
<1> QED BY <1>1, <1>2, <1>3 DEF Next

LEMMA TreeInvariant == Spec => []TreeInv
<1>1. Init => TreeInv
  BY TreeStart
<1>2. StackInv /\ TreeInv /\ [Next]_vars => TreeInv'
  BY TreeStep
<1> QED BY <1>1, <1>2, StackInvariant, PTL DEF Spec

(* Nothing refers to a node, a block or a call that the stream has not     *)
(* reached, and a covered call began before the one above it.              *)
THEOREM TypeCorrect == Spec => []TypeOK
<1>1. ASSUME StackInv, TreeInv PROVE TypeOK
  <2> DEFINE n == Len(stream)
             m == Len(frames)
             F == [kind : Openers \cup {"program", "else"}, node : 0..n, block : (0..n) \cup {NoNode}]
  <2>1. /\ stream \in Seq(Tokens) /\ frames \in Seq(FrameRecord) /\ frames # <<>>
        /\ StackFits(stream, frames) /\ line \in BOOLEAN /\ ReadingFits
    BY <1>1 DEF StackInv
  <2>2. n \in Nat /\ m \in Nat /\ \A d \in 1..m : frames[d] \in FrameRecord /\ frames[d].node \in 0..n
    BY <2>1, NestedNodes
  <2>3. ASSUME NEW d \in 1..m PROVE frames[d] \in F
    <3>1. frames[d].block # NoNode => frames[d].block \in 0..n
      <4>1. BlockAt(stream) \subseteq 0..n
        BY <2>2 DEF BlockAt, Program
      <4> QED BY <1>1, <4>1, FrameBlock
    <3> QED BY <2>2, <3>1 DEF FrameRecord
  <2>4. frames \in Seq(F)
    <3> HIDE DEF F
    <3>1. DOMAIN frames = 1..m /\ m \in Nat /\ frames = [d \in 1..m |-> frames[d]]
      BY <2>1
    <3> HIDE DEF m
    <3> QED BY <2>3, <3>1
  <2>5. \A d \in 1..(m - 1) : frames[d].node < frames[d + 1].node
    BY <2>1, NodesAscend
  <2>6. pending \in (1..n) \cup {NoNode}
    BY <2>1 DEF ReadingFits
  <2>7. blocks \in [DOMAIN blocks -> Seq((1..n) \cup {NoNode})]
    BY <1>1 DEF TreeInv, Entries
  <2>8. judges \in [DOMAIN judges -> [conditions : Seq(1..n), blocks : Seq(DOMAIN blocks),
                                     default_block : DOMAIN blocks \cup {NoNode}]]
    BY <1>1 DEF TreeInv, JudgeRecord
  <2>9. /\ elses \in [DOMAIN elses -> DOMAIN blocks \cup {NoNode}]
        /\ tails \in [DOMAIN tails -> (1..n) \cup {NoNode}]
    BY <1>1 DEF TreeInv, Entries
  <2> QED BY <2>1, <2>4, <2>5, <2>6, <2>7, <2>8, <2>9 DEF TypeOK
<1> QED BY <1>1, StackInvariant, TreeInvariant, PTL

-----------------------------------------------------------------------------
(* A construct that a call is in progress for is not complete, and nothing *)
(* that stands behind its opener belongs to a section in front of it: so   *)
(* a call that returns adds its node behind what is there.                 *)
CompleteIn(q, i) ==
  \/ q[i] = "line"
  \/ \E k \in (i + 1)..Len(q) : q[k] = End[q[i]] /\ OwnerIn(q, k) = i
WholeIn(q) == {i \in 1..Len(q) : q[i] \in Statements /\ CompleteIn(q, i)}
Home(q, s) == {i \in WholeIn(q) : SectionIn(q, i) = s}

OpenFits(q, fr) ==
  /\ \A d \in 2..Len(fr) : ~CompleteIn(q, fr[d].node)
  /\ \A d \in 1..Len(fr) : \A i \in (fr[d].node + 1)..(Len(q) + 1) : SectionIn(q, i) >= fr[d].node

LEMMA SectionType ==
  ASSUME NEW q, NEW i \in Nat \ {0}
  PROVE  SectionIn(q, i) \in 0..(i - 1)
<1> DEFINE o == OwnerIn(q, i)
           S == {o} \cup {k \in (o + 1)..(i - 1) : q[k] \in Separators /\ DepthIn(q, k) = DepthIn(q, i)}
<1>1. o \in 0..(i - 1) /\ i - 1 \in Nat
  BY OwnerType
<1>2. SectionIn(q, i) = Latest(S)
  BY DEF SectionIn
<1> HIDE DEF o
<1>3. S \subseteq 0..(i - 1)
  BY <1>1
<1> HIDE DEF S
<1> QED BY <1>1, <1>2, <1>3, LatestType, ZenonT(60)

LEMMA NodesBelow ==
  ASSUME NEW q \in Seq(Tokens), NEW fr \in Seq(FrameRecord), fr # <<>>, StackFits(q, fr),
         NEW d \in 1..Len(fr), d # Len(fr)
  PROVE  fr[d].node < fr[Len(fr)].node
<1> DEFINE n == Len(q)
           m == Len(fr)
           f == fr[d].node
           g == fr[m].node
<1>1. n \in Nat /\ m \in Nat \ {0} /\ f \in 0..n /\ g \in 0..n /\ m \in 2..m /\ m \in 1..m
  <2>1. n \in Nat /\ m \in Nat \ {0} /\ \A e \in 1..m : fr[e].node \in 0..n
    BY AppendIs, NestedNodes
  <2> HIDE DEF m, n, f, g
  <2> QED BY <2>1 DEF m, f, g
<1>2. /\ g \in 1..n /\ DepthIn(q, g) = m - 2
      /\ \A k \in (g + 1)..(n + 1) : DepthIn(q, k) >= m - 1
      /\ d = 1 => f = 0
      /\ d # 1 => DepthIn(q, f) = d - 2
  <2>1. d # 1 => d \in 2..m
    BY <1>1
  <2> QED BY <1>1, <2>1 DEF StackFits, Nested, Program
<1> HIDE DEF n, m, f, g
<1>3. d \in Nat /\ d < m
  BY <1>1 DEF m
<1>4. f = g => FALSE
  BY <1>1, <1>2, <1>3
<1>5. f > g => FALSE
  <2>1. f > g => f \in (g + 1)..(n + 1)
    BY <1>1
  <2> QED BY <1>1, <1>2, <1>3, <2>1
<1> QED BY <1>1, <1>4, <1>5 DEF f, g, m

LEMMA CompleteGrows ==
  ASSUME NEW q \in Seq(Tokens), NEW t \in Tokens
  PROVE  /\ \A i \in 1..Len(q) : CompleteIn(Append(q, t), i)
              <=> CompleteIn(q, i) \/ (t = End[q[i]] /\ OwnerIn(q, Len(q) + 1) = i)
         /\ CompleteIn(Append(q, t), Len(q) + 1) <=> t = "line"
<1> DEFINE r == Append(q, t)
           n == Len(q)
<1>1. n \in Nat /\ Len(r) = n + 1 /\ r[n + 1] = t /\ \A k \in 1..n : r[k] = q[k]
  BY AppendIs
<1>2. \A k \in 1..(n + 1) : OwnerIn(r, k) = OwnerIn(q, k)
  BY OwnerGrows
<1> HIDE DEF r, n
<1>3. ASSUME NEW i \in 1..n
      PROVE  CompleteIn(r, i) <=> CompleteIn(q, i) \/ (t = End[q[i]] /\ OwnerIn(q, n + 1) = i)
  <2>1. r[i] = q[i] /\ (i + 1)..(n + 1) = ((i + 1)..n) \cup {n + 1} /\ \A k \in (i + 1)..n : k \in 1..n /\ k \in 1..(n + 1)
    BY <1>1
  <2>2. \A k \in (i + 1)..n : (r[k] = End[r[i]] /\ OwnerIn(r, k) = i) <=> (q[k] = End[q[i]] /\ OwnerIn(q, k) = i)
    BY <1>1, <1>2, <2>1
  <2>3. (r[n + 1] = End[r[i]] /\ OwnerIn(r, n + 1) = i) <=> (t = End[q[i]] /\ OwnerIn(q, n + 1) = i)
    BY <1>1, <1>2, <2>1
  <2>4. Len(r) = n + 1 /\ Len(q) = n
    BY <1>1 DEF n
  <2> QED BY <2>1, <2>2, <2>3, <2>4 DEF CompleteIn
<1>4. CompleteIn(r, n + 1) <=> t = "line"
  <2>1. ((n + 1) + 1)..(n + 1) = {}
    BY <1>1
  <2> QED BY <1>1, <2>1 DEF CompleteIn
<1> QED BY <1>3, <1>4 DEF r, n

LEMMA OpenGrows ==
  ASSUME NEW q \in Seq(Tokens), NEW t \in Tokens, NEW fr \in Seq(FrameRecord), OpenFits(q, fr),
         NEW gr \in Seq(FrameRecord), gr # <<>>, StackFits(Append(q, t), gr),
         \A d \in 1..Len(gr) : \/ d \in 1..Len(fr) /\ gr[d].node = fr[d].node /\ gr[d].node \in 0..Len(q)
                               \/ gr[d].node = Len(q) + 1 /\ t # "line",
         \A d \in 2..Len(gr) : gr[d].node \in 1..Len(q)
                                 => t # End[q[gr[d].node]] \/ OwnerIn(q, Len(q) + 1) # gr[d].node
  PROVE  OpenFits(Append(q, t), gr)
<1> DEFINE r == Append(q, t)
           n == Len(q)
           m == Len(gr)
<1>1. r \in Seq(Tokens) /\ n \in Nat /\ Len(r) = n + 1 /\ \A k \in 1..n : r[k] = q[k]
  BY AppendIs
<1>2. \A k \in 1..(n + 1) : SectionIn(r, k) = SectionIn(q, k)
  BY OwnerGrows
<1>3. StackFits(r, gr) /\ m \in Nat \ {0} /\ m \in 1..m /\ \A d \in 1..m : gr[d] \in FrameRecord /\ gr[d].node \in 0..(n + 1)
  <2>1. m \in Nat \ {0} /\ \A d \in 1..m : gr[d] \in FrameRecord /\ gr[d].node \in 0..Len(r)
    BY <1>1, NestedNodes
  <2> HIDE DEF m, r, n
  <2> QED BY <1>1, <2>1 DEF r
<1>4. /\ \A i \in 1..n : CompleteIn(r, i) <=> CompleteIn(q, i) \/ (t = End[q[i]] /\ OwnerIn(q, n + 1) = i)
      /\ CompleteIn(r, n + 1) <=> t = "line"
  BY CompleteGrows
<1>5. \A d \in 2..m : gr[d].node \in 1..Len(r)
  BY <1>3 DEF StackFits, Nested
<1> HIDE DEF r, n, m
<1>6. ASSUME NEW d \in 2..m PROVE ~CompleteIn(r, gr[d].node)
  <2>1. d \in 1..m /\ gr[d].node \in 1..(n + 1)
    BY <1>1, <1>3, <1>5
  <2>2. CASE gr[d].node = n + 1
    <3>1. t # "line"
      BY <1>1, <2>1, <2>2 DEF n, m
    <3> QED BY <1>4, <2>2, <3>1
  <2>3. CASE gr[d].node # n + 1
    <3>1. d \in 2..Len(fr) /\ gr[d].node = fr[d].node /\ gr[d].node \in 1..n
      BY <1>1, <2>1, <2>3 DEF n, m
    <3>2. ~CompleteIn(q, gr[d].node)
      BY <3>1 DEF OpenFits
    <3>3. t # End[q[gr[d].node]] \/ OwnerIn(q, n + 1) # gr[d].node
      BY <3>1 DEF n, m
    <3> QED BY <1>4, <3>1, <3>2, <3>3
  <2> QED BY <2>2, <2>3
<1>7. ASSUME NEW d \in 1..m, NEW i \in (gr[d].node + 1)..((n + 1) + 1)
      PROVE  SectionIn(r, i) >= gr[d].node
  <2>1. CASE i = n + 2
    <3>1. gr[d].node \in Nat /\ gr[m].node \in 0..(n + 1)
      BY <1>1, <1>3
    <3>2. gr[d].node <= gr[m].node
      <4>1. d # m => gr[d].node < gr[m].node
        BY <1>1, <1>3, NodesBelow DEF m
      <4> QED BY <3>1, <4>1
    <3>3. /\ DepthIn(r, (n + 1) + 1) = m - 1
          /\ \/ SectionOf(gr[m]) = gr[m].node
             \/ SectionOf(gr[m]) \in (gr[m].node + 1)..(n + 1)
      BY <1>1, <1>3 DEF StackFits, Nested, Sectioned, m
    <3>4. SectionOf(gr[m]) >= gr[m].node /\ SectionOf(gr[m]) \in 0..(n + 1) /\ SectionOf(gr[m]) < (n + 1) + 1
          /\ (n + 1) + 1 \in (gr[m].node + 1)..((n + 1) + 1)
      BY <1>1, <3>1, <3>3, SMTT(60)
    <3>5. SectionIn(r, (n + 1) + 1) = SectionOf(gr[m])
      BY <1>1, <1>3, <3>3, <3>4, SectionAt DEF m
    <3>6. (n + 1) + 1 = n + 2
      BY <1>1
    <3> QED BY <2>1, <3>1, <3>2, <3>4, <3>5, <3>6
  <2>2. CASE i # n + 2
    <3>1. gr[d].node \in 0..(n + 1)
      BY <1>3
    <3>2. i \in 1..(n + 1) /\ gr[d].node # n + 1
      BY <1>1, <2>2, <3>1
    <3>3. d \in 1..Len(fr) /\ gr[d].node = fr[d].node
      BY <3>2 DEF n, m
    <3>4. SectionIn(q, i) >= fr[d].node
      <4>1. i \in (fr[d].node + 1)..(n + 1)
        BY <1>1, <2>2, <3>1, <3>3
      <4> QED BY <3>3, <4>1 DEF OpenFits, n
    <3> QED BY <1>2, <3>2, <3>3, <3>4
  <2> QED BY <2>1, <2>2
<1> QED BY <1>1, <1>6, <1>7 DEF OpenFits, r, n, m

(* A token that closes a construct is read by the loop that awaits it.     *)
LEMMA EndersEnd ==
  ASSUME StackInv, NEW t \in Following, ReadByte(t)
  PROVE  t \in Enders <=> ReadEnd(t)
<1>1. ReadEnd(t) => t \in Enders
  BY DEF ReadEnd
<1>2. ASSUME \/ ParseLine(t) \/ ParseSkip(t) \/ ParseUnknown(t) \/ ReadEndCase(t) \/ ReadMatch(t)
      PROVE  t \notin Enders
  <2>1. t \in {"line", "skip", "other", "endcase"} \cup Matches
    <3>1. CASE ParseLine(t) \/ ParseSkip(t) \/ ReadEndCase(t)
      BY <3>1 DEF ParseLine, ParseSkip, ReadEndCase
    <3>2. CASE ParseUnknown(t)
      BY <3>2, LineTokens DEF ParseUnknown
    <3>3. CASE ReadMatch(t)
      BY <3>3, TokenSets DEF ReadMatch, Matched, Matches, StackInv, ReadingFits
    <3> QED BY <1>2, <3>1, <3>2, <3>3
  <2> QED BY <2>1, TokenSets
<1>3. ASSUME \/ ParseIf(t) \/ ParseIfTrue(t) \/ ParseLoop(t) \/ ParseJudge(t)
             \/ ReadElse(t) \/ ReadCase(t) \/ ReadDefault(t)
      PROVE  t \notin Enders
  BY <1>3, TokenSets DEF ParseIf, ParseIfTrue, ParseLoop, ParseJudge, ReadElse, ReadCase, ReadDefault, Cases
<1> QED BY <1>1, <1>2, <1>3 DEF ReadByte

LEMMA OpenStep ==
  ASSUME StackInv, OpenFits(stream, frames),
         NEW t \in Following, ReadByte(t), stream' = Append(stream, t), StackInv'
  PROVE  OpenFits(stream', frames')
<1> DEFINE n == Len(stream)
           m == Len(frames)
           gr == frames'
<1>1. /\ t \in Tokens /\ stream \in Seq(Tokens) /\ frames \in Seq(FrameRecord) /\ n \in Nat /\ m \in Nat \ {0}
      /\ \A d \in 1..m : frames[d].node \in 0..n
  <2>1. t \in Tokens /\ stream \in Seq(Tokens) /\ frames \in Seq(FrameRecord) /\ frames # <<>> /\ StackFits(stream, frames)
    BY DEF Following, StackInv
  <2> QED BY <2>1, AppendIs, NestedNodes
<1>2. gr \in Seq(FrameRecord) /\ gr # <<>> /\ StackFits(Append(stream, t), gr)
  BY DEF StackInv
<1>3. \A d \in 2..m : frames[d].node \in 1..n /\ stream[frames[d].node] \in Openers
  BY DEF StackInv, StackFits, Nested
<1>4. OwnerIn(stream, n + 1) = Top.node /\ Top = frames[m]
  BY HereIs, LooksBack DEF Here
<1>5. \A k \in Openers : End[k] \in Enders
  BY DEF Enders
<1>6. ASSUME Len(gr) = m, \A d \in 1..m : gr[d].node = frames[d].node, t \notin Enders
      PROVE  OpenFits(stream', gr)
  <2> HIDE DEF n, m, gr
  <2>1. \A d \in 1..Len(gr) : d \in 1..m /\ gr[d].node = frames[d].node /\ gr[d].node \in 0..n
    BY <1>1, <1>6
  <2>2. \A d \in 2..Len(gr) : gr[d].node \in 1..n => t # End[stream[gr[d].node]]
    <3>1. \A d \in 2..Len(gr) : d \in 2..m /\ gr[d].node = frames[d].node
      BY <1>1, <1>6
    <3> QED BY <1>3, <1>5, <1>6, <3>1
  <2> QED BY <1>1, <1>2, <2>1, <2>2, OpenGrows DEF n, m
<1>7. CASE ParseLine(t) \/ ParseSkip(t) \/ ParseUnknown(t) \/ ReadEndCase(t) \/ ReadMatch(t)
  <2>1. frames' = frames
    BY <1>7 DEF ParseLine, ParseSkip, ParseUnknown, ReadEndCase, ReadMatch
  <2>2. t \notin Enders
    <3>1. ~ReadEnd(t) \/ t \notin Enders
      <4>1. CASE ParseLine(t) \/ ParseSkip(t) \/ ReadEndCase(t)
        BY <4>1, TokenSets DEF ParseLine, ParseSkip, ReadEndCase
      <4>2. CASE ParseUnknown(t)
        BY <4>2, LineTokens, TokenSets DEF ParseUnknown, Statements, Openers
      <4>3. CASE ReadMatch(t)
        BY <4>3, TokenSets DEF ReadMatch, ReadEnd, InLoop
      <4> QED BY <1>7, <4>1, <4>2, <4>3
    <3> QED BY <3>1, EndersEnd
  <2> QED BY <1>6, <2>1, <2>2
<1>8. CASE ReadElse(t) \/ ReadCase(t) \/ ReadDefault(t)
  <2>1. /\ t \in Separators
        /\ frames' = [frames EXCEPT ![m] = Frame(IF t = "else" THEN "else" ELSE "judge", Top.node, Here)]
    BY <1>8, TurnStep
  <2>2. t \notin Enders
    BY <2>1, TokenSets DEF Separators, Cases
  <2>3. Len(gr) = m /\ \A d \in 1..m : gr[d].node = frames[d].node
    BY <1>1, <1>4, <2>1 DEF Frame
  <2> QED BY <1>6, <2>2, <2>3
<1>9. CASE ParseIf(t) \/ ParseIfTrue(t) \/ ParseLoop(t) \/ ParseJudge(t)
  <2> DEFINE f == Frame(t, Here, IF t = "judge" THEN NoNode ELSE Here)
  <2>1. t \in Openers /\ gr = Append(frames, f)
    BY <1>9, PushStep
  <2>2. f.node = n + 1
    BY DEF Frame, Here
  <2>3. Len(gr) = m + 1 /\ gr[m + 1].node = n + 1 /\ \A d \in 1..m : gr[d].node = frames[d].node
    <3> HIDE DEF f
    <3> QED BY <1>1, <2>1, <2>2
  <2>4. t \notin Enders /\ t # "line"
    BY <2>1, TokenSets DEF Openers
  <2> HIDE DEF n, m, gr
  <2>5. \A d \in 1..Len(gr) : \/ d \in 1..m /\ gr[d].node = frames[d].node /\ gr[d].node \in 0..n
                              \/ gr[d].node = n + 1 /\ t # "line"
    <3> SUFFICES ASSUME NEW d \in 1..(m + 1), d \notin 1..m PROVE gr[d].node = n + 1
      BY <1>1, <2>3, <2>4
    <3>1. d = m + 1
      BY <1>1
    <3> QED BY <2>3, <3>1
  <2>6. \A d \in 2..Len(gr) : gr[d].node \in 1..n => t # End[stream[gr[d].node]]
    <3> SUFFICES ASSUME NEW d \in 2..Len(gr), gr[d].node \in 1..n PROVE t # End[stream[gr[d].node]]
      OBVIOUS
    <3>1. d \in 2..m
      BY <1>1, <2>3
    <3>2. d \in 1..m
      BY <1>1, <3>1
    <3> QED BY <1>3, <1>5, <2>3, <2>4, <3>1, <3>2
  <2> QED BY <1>1, <1>2, <2>5, <2>6, OpenGrows DEF n, m, gr
<1>10. CASE ReadEnd(t)
  <2>1. m > 1 /\ Len(gr) = m - 1 /\ \A d \in 1..(m - 1) : gr[d] = frames[d]
    BY <1>10, PopStep
  <2>2. \A d \in 1..(m - 1) : frames[d].node < frames[m].node
    <3>1. \A d \in 1..(m - 1) : d \in 1..m /\ d # m
      BY <1>1
    <3>2. StackFits(stream, frames) /\ frames # <<>>
      BY DEF StackInv
    <3> QED BY <1>1, <3>1, <3>2, NodesBelow
  <2> HIDE DEF n, m, gr
  <2>3. \A d \in 1..Len(gr) : d \in 1..m /\ gr[d].node = frames[d].node /\ gr[d].node \in 0..n
    BY <1>1, <2>1
  <2>4. \A d \in 2..Len(gr) : OwnerIn(stream, n + 1) # gr[d].node
    <3> SUFFICES ASSUME NEW d \in 2..Len(gr) PROVE Top.node # gr[d].node
      BY <1>4
    <3>1. d \in 1..(m - 1) /\ gr[d].node = frames[d].node /\ frames[d].node < frames[m].node
      BY <1>1, <2>1, <2>2
    <3>2. d \in 1..m /\ m \in 1..m
      BY <1>1, <3>1
    <3> QED BY <1>1, <1>4, <3>1, <3>2
  <2> QED BY <1>1, <1>2, <2>3, <2>4, OpenGrows DEF n, m, gr
<1> QED BY <1>7, <1>8, <1>9, <1>10 DEF ReadByte

-----------------------------------------------------------------------------
(* The blocks list what is complete.                                       *)
ParsedFits(q, b) == \A s \in BlockAt(q) : Lists(b[s], Home(q, s))

LEMMA HomeGrows ==
  ASSUME StackInv, NEW t \in Following, stream' = Append(stream, t)
  PROVE  /\ \A s \in BlockAt(stream) :
              Home(stream', s) = Home(stream, s)
                \cup (IF t = "line" /\ s = SectionOf(Top) THEN {Here} ELSE {})
                \cup (IF t \in Enders /\ s = SectionIn(stream, Top.node) THEN {Top.node} ELSE {})
         /\ Home(stream', Here) = {}
         /\ \A s : Home(stream, s) \subseteq 1..Len(stream)
<1> DEFINE n == Len(stream)
           r == stream'
<1>1. t \in Tokens /\ stream \in Seq(Tokens)
  BY DEF Following, StackInv
<1>2. n \in Nat /\ Len(r) = n + 1 /\ r[n + 1] = t /\ \A k \in 1..n : r[k] = stream[k]
  BY <1>1, AppendIs
<1>3. \A k \in 1..(n + 1) : SectionIn(r, k) = SectionIn(stream, k)
  BY <1>1, OwnerGrows
<1>4. /\ \A i \in 1..n : CompleteIn(r, i)
           <=> CompleteIn(stream, i) \/ (t = End[stream[i]] /\ OwnerIn(stream, n + 1) = i)
      /\ CompleteIn(r, n + 1) <=> t = "line"
  BY <1>1, CompleteGrows
<1>5. OwnerIn(stream, n + 1) = Top.node /\ SectionIn(stream, n + 1) = SectionOf(Top) /\ Here = n + 1
  BY HereIs, LooksBack DEF Here
<1>6. t \in Enders => Top.node \in 1..n /\ stream[Top.node] \in Openers /\ t = End[stream[Top.node]]
  BY HereIs, TokenFits DEF KindIn
<1>7. \A i \in 1..(n + 1) : SectionIn(stream, i) \in 0..(i - 1)
  BY <1>2, SectionType
<1> HIDE DEF n, r
<1>8. ASSUME NEW i \in 1..n
      PROVE  i \in WholeIn(r) <=> i \in WholeIn(stream) \/ (t \in Enders /\ i = Top.node)
  <2>1. i \in 1..Len(r) /\ i \in 1..Len(stream) /\ r[i] = stream[i]
    BY <1>2 DEF n
  <2>2. stream[i] \in Statements /\ t = End[stream[i]] => CompleteIn(stream, i) \/ t \in Enders
    BY DEF Statements, Enders, CompleteIn
  <2>3. t \in Enders /\ i = Top.node => stream[i] \in Statements /\ t = End[stream[i]] /\ OwnerIn(stream, n + 1) = i
    BY <1>5, <1>6 DEF Statements
  <2> QED BY <1>4, <1>5, <2>1, <2>2, <2>3 DEF WholeIn
<1>9. n + 1 \in WholeIn(r) <=> t = "line"
  BY <1>2, <1>4 DEF WholeIn, Statements
<1>10. WholeIn(r) \subseteq 1..(n + 1) /\ WholeIn(stream) \subseteq 1..n
  BY <1>2 DEF WholeIn, n
<1>11. \A s : Home(stream, s) \subseteq 1..n
  BY <1>10 DEF Home
<1>12. ASSUME NEW i, NEW s
       PROVE  i \in Home(r, s) <=> \/ i \in Home(stream, s)
                                   \/ t = "line" /\ s = SectionOf(Top) /\ i = n + 1
                                   \/ t \in Enders /\ s = SectionIn(stream, Top.node) /\ i = Top.node
  <2>1. CASE i \in 1..n
    <3>1. i # n + 1 /\ i \in 1..(n + 1)
      BY <1>2, <2>1
    <3>2. SectionIn(r, i) = SectionIn(stream, i)
      BY <1>3, <3>1
    <3>3. i \in WholeIn(r) <=> i \in WholeIn(stream) \/ (t \in Enders /\ i = Top.node)
      BY <1>8, <2>1
    <3> QED BY <3>1, <3>2, <3>3 DEF Home
  <2>2. CASE i = n + 1
    <3>1. i \notin 1..n /\ i \in 1..(n + 1)
      BY <1>2, <2>2
    <3>2. i \notin WholeIn(stream) /\ ~(t \in Enders /\ i = Top.node)
      BY <1>6, <1>10, <3>1
    <3>3. SectionIn(r, i) = SectionOf(Top)
      BY <1>3, <1>5, <2>2, <3>1
    <3> QED BY <1>9, <2>2, <3>2, <3>3 DEF Home
  <2>3. CASE i \notin 1..(n + 1)
    <3>1. i \notin 1..n /\ i # n + 1
      BY <1>2, <2>3
    <3>2. i \notin WholeIn(r) /\ i \notin WholeIn(stream) /\ ~(t \in Enders /\ i = Top.node)
      BY <1>6, <1>10, <2>3, <3>1
    <3> QED BY <3>1, <3>2 DEF Home
  <2>4. i \in 1..(n + 1) => i \in 1..n \/ i = n + 1
    BY <1>2
  <2> QED BY <2>1, <2>2, <2>3, <2>4
<1>13. ASSUME NEW i PROVE i \notin Home(r, n + 1)
  <2> SUFFICES ASSUME i \in Home(r, n + 1) PROVE FALSE
    OBVIOUS
  <2>1. i \in 1..(n + 1) /\ SectionIn(r, i) = n + 1
    BY <1>10 DEF Home
  <2>2. SectionIn(stream, i) \in 0..(i - 1) /\ SectionIn(stream, i) = n + 1
    BY <1>3, <1>7, <2>1
  <2> QED BY <1>2, <2>1, <2>2
<1> QED BY <1>5, <1>11, <1>12, <1>13 DEF r, n

LEMMA ListsNode ==
  ASSUME NEW R, NEW s \in Seq(R), NEW S, S \subseteq Nat, Lists(s, S),
         NEW x \in Nat, \A y \in S : y < x
  PROVE  Lists(Append(s, x), S \cup {x})
<1> DEFINE a == Append(s, x)
           n == Len(s)
<1>1. n \in Nat /\ DOMAIN s = 1..n /\ DOMAIN a = 1..(n + 1) /\ a[n + 1] = x /\ \A k \in 1..n : a[k] = s[k]
  OBVIOUS
<1>2. {s[k] : k \in 1..n} \ {NoNode} = S /\ \A k, l \in 1..n : k < l /\ s[k] # NoNode /\ s[l] # NoNode => s[k] < s[l]
  BY <1>1 DEF Lists
<1>3. x # NoNode
  BY DEF NoNode
<1> HIDE DEF a, n
<1>4. 1..(n + 1) = (1..n) \cup {n + 1}
  BY <1>1
<1>5. {a[k] : k \in 1..(n + 1)} = {s[k] : k \in 1..n} \cup {x}
  BY <1>1, <1>4
<1>6. {a[k] : k \in 1..(n + 1)} \ {NoNode} = S \cup {x}
  BY <1>2, <1>3, <1>5
<1>7. ASSUME NEW k \in 1..(n + 1), NEW l \in 1..(n + 1), k < l, a[k] # NoNode, a[l] # NoNode
      PROVE  a[k] < a[l]
  <2>1. k \in 1..n /\ a[k] = s[k]
    BY <1>1, <1>7
  <2>2. CASE l \in 1..n
    BY <1>1, <1>2, <1>7, <2>1, <2>2
  <2>3. CASE l = n + 1
    <3>1. s[k] \in S
      BY <1>2, <1>7, <2>1
    <3> QED BY <1>1, <2>1, <2>3, <3>1
  <2> QED BY <1>4, <2>2, <2>3
<1> QED BY <1>1, <1>6, <1>7 DEF Lists, a

LEMMA ListsNull ==
  ASSUME NEW R, NEW s \in Seq(R), NEW S, Lists(s, S)
  PROVE  Lists(Append(s, NoNode), S)
<1> DEFINE a == Append(s, NoNode)
           n == Len(s)
<1>1. n \in Nat /\ DOMAIN s = 1..n /\ DOMAIN a = 1..(n + 1) /\ a[n + 1] = NoNode /\ \A k \in 1..n : a[k] = s[k]
  OBVIOUS
<1>2. {s[k] : k \in 1..n} \ {NoNode} = S /\ \A k, l \in 1..n : k < l /\ s[k] # NoNode /\ s[l] # NoNode => s[k] < s[l]
  BY <1>1 DEF Lists
<1> HIDE DEF a, n
<1>3. 1..(n + 1) = (1..n) \cup {n + 1}
  BY <1>1
<1>4. {a[k] : k \in 1..(n + 1)} \ {NoNode} = S
  BY <1>1, <1>2, <1>3
<1>5. \A k, l \in 1..(n + 1) : k < l /\ a[k] # NoNode /\ a[l] # NoNode => a[k] < a[l]
  BY <1>1, <1>2, <1>3
<1> QED BY <1>1, <1>4, <1>5 DEF Lists, a

(* What an action does to one block, when it makes none.                   *)
LEMMA ParsedStep ==
  ASSUME StackInv, TreeInv, OpenFits(stream, frames), ParsedFits(stream, blocks),
         NEW t \in Following, ReadByte(t), stream' = Append(stream, t)
  PROVE  ParsedFits(stream', blocks')
<1> DEFINE n == Len(stream)
           m == Len(frames)
           B == BlockAt(stream)
<1>1. /\ t \in Tokens /\ stream \in Seq(Tokens) /\ frames \in Seq(FrameRecord) /\ frames # <<>>
      /\ StackFits(stream, frames) /\ n \in Nat /\ m \in Nat \ {0} /\ Here = n + 1 /\ Top = frames[m]
  BY HereIs DEF Following, StackInv
<1>2. /\ BlockAt(stream') = B \cup (IF t \in Sections \ {"judge"} THEN {Here} ELSE {}) /\ Here \notin B
  BY <1>1, TreeGrows DEF Here
<1>3. /\ \A s \in B :
           Home(stream', s) = Home(stream, s)
             \cup (IF t = "line" /\ s = SectionOf(Top) THEN {Here} ELSE {})
             \cup (IF t \in Enders /\ s = SectionIn(stream, Top.node) THEN {Top.node} ELSE {})
      /\ Home(stream', Here) = {}
      /\ \A s : Home(stream, s) \subseteq 1..n
  BY HomeGrows
<1>4. blocks \in [B -> Seq(Entries(stream))] /\ \A s \in B : Lists(blocks[s], Home(stream, s))
  BY DEF TreeInv, ParsedFits
<1>5. Lists(<<>>, {})
  BY DEF Lists
<1> HIDE DEF B, n, m
<1>6. CASE ParseSkip(t) \/ ReadEndCase(t) \/ ReadMatch(t) \/ ParseJudge(t)
  <2>1. blocks' = blocks
    BY <1>6 DEF ParseSkip, ReadEndCase, ReadMatch, ParseJudge
  <2>2. t # "line" /\ t \notin Sections \ {"judge"}
    BY <1>6, PlainTokens, TokenSets DEF ParseSkip, ReadEndCase, ReadMatch, ParseJudge, Matched, Matches, StackInv, ReadingFits
  <2>3. t \notin Enders
    <3>1. CASE ReadMatch(t)
      BY <3>1, EndersEnd DEF ReadMatch, ReadEnd, InLoop
    <3>2. CASE ParseSkip(t) \/ ReadEndCase(t) \/ ParseJudge(t)
      BY <3>2, TokenSets DEF ParseSkip, ReadEndCase, ParseJudge
    <3> QED BY <1>6, <3>1, <3>2
  <2> QED BY <1>2, <1>3, <1>4, <2>1, <2>2, <2>3 DEF ParsedFits
<1>7. CASE \/ ParseIf(t) \/ ParseIfTrue(t) \/ ParseLoop(t)
           \/ ReadElse(t) \/ ReadCase(t) \/ ReadDefault(t)
  <2>1. blocks' = Added(blocks, Here, <<>>) /\ t \in Sections \ {"judge"}
    BY <1>7 DEF ParseIf, ParseIfTrue, ParseLoop, Enter, ReadElse, ReadCase, ReadDefault,
                Sections, Openers, Cases
  <2>2. t \notin Enders /\ t # "line"
    BY <2>1, TokenSets DEF Sections, Openers, Cases
  <2>3. blocks'[Here] = <<>> /\ \A s \in B : blocks'[s] = blocks[s]
    BY <1>2, <1>4, <2>1 DEF Added
  <2>4. \A s \in B : Lists(blocks'[s], Home(stream', s))
    BY <1>3, <1>4, <2>2, <2>3
  <2>5. Lists(blocks'[Here], Home(stream', Here))
    BY <1>3, <1>5, <2>3
  <2> QED BY <1>2, <2>1, <2>4, <2>5 DEF ParsedFits
<1>8. CASE ParseLine(t)
  <2>1. t = "line" /\ blocks' = [blocks EXCEPT ![Top.block] = Append(@, Here)]
    BY <1>8 DEF ParseLine, AddStmt
  <2>2. Top.block \in B /\ Top.block = SectionOf(Top)
    BY <2>1, TopAdds DEF Statements, B
  <2>3. t \notin Enders /\ t \notin Sections
    BY <2>1, TokenSets DEF Sections, Openers, Cases
  <2> SUFFICES ASSUME NEW s \in B PROVE Lists(blocks'[s], Home(stream', s))
    BY <1>2, <2>3 DEF ParsedFits
  <2>4. CASE s # Top.block
    BY <1>3, <1>4, <2>1, <2>2, <2>3, <2>4
  <2>5. CASE s = Top.block
    <3>1. blocks'[s] = Append(blocks[s], Here) /\ Home(stream', s) = Home(stream, s) \cup {Here}
      BY <1>3, <1>4, <2>1, <2>2, <2>3, <2>5
    <3>2. blocks[s] \in Seq(Entries(stream)) /\ Lists(blocks[s], Home(stream, s))
      BY <1>4
    <3>3. Home(stream, s) \subseteq Nat /\ Here \in Nat /\ \A y \in Home(stream, s) : y < Here
      BY <1>1, <1>3
    <3> DEFINE a == blocks[s]
               H == Home(stream, s)
    <3>4. a \in Seq(Entries(stream)) /\ Lists(a, H) /\ H \subseteq Nat /\ Here \in Nat /\ \A y \in H : y < Here
      BY <3>2, <3>3
    <3>5. blocks'[s] = Append(a, Here) /\ Home(stream', s) = H \cup {Here}
      BY <3>1
    <3> HIDE DEF a, H
    <3>6. Lists(Append(a, Here), H \cup {Here})
      BY <3>4, ListsNode
    <3> QED BY <3>5, <3>6
  <2> QED BY <2>4, <2>5
<1>9. CASE ParseUnknown(t)
  <2>1. blocks' = [blocks EXCEPT ![Top.block] = Append(@, NoNode)]
    BY <1>9 DEF ParseUnknown, AddStmt
  <2>2. t \in {"skip", "other"}
    BY <1>9, LineTokens DEF ParseUnknown
  <2>3. Top.block \in B
    BY <2>2, TopAdds DEF B
  <2>4. t \notin Enders /\ t \notin Sections /\ t # "line"
    BY <2>2, TokenSets DEF Sections, Openers, Cases
  <2> SUFFICES ASSUME NEW s \in B PROVE Lists(blocks'[s], Home(stream', s))
    BY <1>2, <2>4 DEF ParsedFits
  <2>5. Home(stream', s) = Home(stream, s)
    BY <1>3, <2>4
  <2>6. blocks[s] \in Seq(Entries(stream)) /\ Lists(blocks[s], Home(stream, s))
    BY <1>4
  <2>7. blocks'[s] = blocks[s] \/ blocks'[s] = Append(blocks[s], NoNode)
    BY <1>4, <2>1, <2>3
  <2> QED BY <2>5, <2>6, <2>7, ListsNull
<1>10. CASE ReadEnd(t)
  <2> DEFINE b == frames[m - 1].block
             x == Top.node
  <2>1. t \in Enders /\ m > 1 /\ x \in 1..n
    BY <1>10, PopStep DEF m, n
  <2>2. blocks' = [blocks EXCEPT ![b] = Append(@, x)]
    BY <1>10 DEF ReadEnd, Return, AddStmt, m
  <2>3. b \in B /\ b = SectionOf(frames[m - 1])
    BY <2>1, BelowAdds DEF B, m
  <2>4. m - 1 \in 1..(m - 1) /\ (m - 1) + 1 = m /\ m \in 1..m /\ m \in 2..m
    BY <1>1, <2>1
  <2>5. b < x /\ SectionIn(stream, x) = b
    BY <1>1, <2>3, <2>4, NodesAscend DEF m
  <2>6. t # "line" /\ t \notin Sections
    BY <2>1, TokenSets DEF Sections, Openers, Cases
  <2>7. \A y \in Home(stream, b) : y < x
    <3> SUFFICES ASSUME NEW y \in Home(stream, b) PROVE y < x
      OBVIOUS
    <3>1. y \in 1..n /\ SectionIn(stream, y) = b /\ CompleteIn(stream, y)
      BY <1>3 DEF Home, WholeIn
    <3>2. ~CompleteIn(stream, x)
      BY <1>1, <2>4 DEF OpenFits, m
    <3>3. \A i \in (x + 1)..(n + 1) : SectionIn(stream, i) >= x
      BY <1>1, <2>4 DEF OpenFits, m, n
    <3>4. y > x => y \in (x + 1)..(n + 1)
      BY <1>1, <2>1, <3>1
    <3>5. b \in Int
      BY <1>1, <2>3 DEF B, BlockAt, Program
    <3> HIDE DEF b, x
    <3> QED BY <1>1, <2>1, <2>5, <3>1, <3>2, <3>3, <3>4, <3>5
  <2> HIDE DEF b, x
  <2> SUFFICES ASSUME NEW s \in B PROVE Lists(blocks'[s], Home(stream', s))
    BY <1>2, <2>6 DEF ParsedFits
  <2>8. CASE s # b
    BY <1>3, <1>4, <2>2, <2>3, <2>5, <2>6, <2>8, ZenonT(60) DEF x
  <2>9. CASE s = b
    <3>1. blocks'[s] = Append(blocks[s], x) /\ Home(stream', s) = Home(stream, s) \cup {x}
      BY <1>3, <1>4, <2>1, <2>2, <2>3, <2>5, <2>6, <2>9 DEF x
    <3>2. blocks[s] \in Seq(Entries(stream)) /\ Lists(blocks[s], Home(stream, s))
      BY <1>4
    <3>3. Home(stream, s) \subseteq Nat /\ x \in Nat
      BY <1>1, <1>3, <2>1
    <3> DEFINE a == blocks[s]
               H == Home(stream, s)
    <3>4. a \in Seq(Entries(stream)) /\ Lists(a, H) /\ H \subseteq Nat /\ x \in Nat /\ \A y \in H : y < x
      BY <2>7, <2>9, <3>2, <3>3
    <3>5. blocks'[s] = Append(a, x) /\ Home(stream', s) = H \cup {x}
      BY <3>1
    <3> HIDE DEF a, H
    <3>6. Lists(Append(a, x), H \cup {x})
      BY <3>4, ListsNode
    <3> QED BY <3>5, <3>6
  <2> QED BY <2>8, <2>9
<1> QED BY <1>6, <1>7, <1>8, <1>9, <1>10 DEF ReadByte

ParsedInv == OpenFits(stream, frames) /\ ParsedFits(stream, blocks)

LEMMA ParsedInvariant == Spec => []ParsedInv
<1>1. Init => ParsedInv
  <2> SUFFICES ASSUME Init PROVE ParsedInv
    OBVIOUS
  <2>1. stream = <<>> /\ frames = <<Frame("program", Program, Program)>> /\ blocks = [s \in {Program} |-> <<>>]
    BY DEF Init
  <2>2. Len(stream) = 0 /\ Len(frames) = 1 /\ frames[1].node = 0
    BY <2>1 DEF Frame, Program
  <2>3. SectionIn(stream, 1) \in 0..(1 - 1)
    BY SectionType
  <2>4. OpenFits(stream, frames)
    BY <2>2, <2>3 DEF OpenFits
  <2>5. \A s : Home(stream, s) = {}
    BY <2>2 DEF Home, WholeIn
  <2>6. BlockAt(stream) = {Program}
    BY <2>2 DEF BlockAt
  <2>7. ParsedFits(stream, blocks)
    BY <2>1, <2>5, <2>6 DEF ParsedFits, Lists
  <2> QED BY <2>4, <2>7 DEF ParsedInv
<1>2. StackInv /\ TreeInv /\ ParsedInv /\ StackInv' /\ [Next]_vars => ParsedInv'
  <2> SUFFICES ASSUME StackInv, TreeInv, ParsedInv, StackInv', [Next]_vars PROVE ParsedInv'
    OBVIOUS
  <2>1. CASE UNCHANGED vars
    BY <2>1 DEF vars, ParsedInv
  <2>2. CASE Finished
    BY <2>2 DEF Finished, vars, ParsedInv
  <2>3. ASSUME NEW t \in Following, ReadByte(t), stream' = Append(stream, t) PROVE ParsedInv'
    BY <2>3, OpenStep, ParsedStep DEF ParsedInv
  <2> QED BY <2>1, <2>2, <2>3 DEF Next
<1> QED BY <1>1, <1>2, StackInvariant, TreeInvariant, PTL DEF Spec

LEMMA CompleteIs == \A i : Complete(i) <=> CompleteIn(stream, i)
  BY LooksBack DEF Complete, CompleteIn

(* The block of each section holds the complete statements that stand in   *)
(* that section, in the order of the code and nothing else, whatever       *)
(* opcodes the parser does not know and whichever closing opcodes it does  *)
(* not find: ParseSubCode and the methods it calls, on code of any length. *)
THEOREM ParsedAsNestedCorrect == Spec => []ParsedAsNested
<1>1. ASSUME TreeInv, ParsedInv PROVE ParsedAsNested
  <2> DEFINE whole == {i \in 1..Len(stream) : stream[i] \in Statements /\ Complete(i)}
             home == [i \in whole |-> Section(i)]
  <2>1. whole = WholeIn(stream)
    BY CompleteIs DEF WholeIn
  <2>2. \A s : {i \in whole : home[i] = s} = Home(stream, s)
    BY <2>1, LooksBack DEF Home
  <2>3. DOMAIN blocks = {Program} \cup {i \in 1..Len(stream) : stream[i] \in Sections \ {"judge"}}
    BY <1>1 DEF TreeInv, BlockAt
  <2>4. \A s \in DOMAIN blocks : Lists(blocks[s], Home(stream, s))
    BY <1>1 DEF TreeInv, ParsedInv, ParsedFits
  <2> HIDE DEF whole, home
  <2>5. \A s \in DOMAIN blocks : Lists(blocks[s], {i \in whole : home[i] = s})
    BY <2>2, <2>4
  <2> QED BY <2>3, <2>5 DEF ParsedAsNested, whole, home
<1> QED BY <1>1, ParsedInvariant, TreeInvariant, PTL

-----------------------------------------------------------------------------
(* A judge that is being read has as many blocks as conditions in front of *)
(* the first case and behind each end of a case, one less in a case, and   *)
(* at least as many from the default on.                                   *)
EndedIn(q, s) == \E k \in (s + 1)..Len(q) : q[k] = "endcase" /\ SectionIn(q, k) = s

JudgeFits(q, g, f) ==
  LET s == SectionOf(f)
      c == Len(g.conditions)
      b == Len(g.blocks)
  IN  \/ s = f.node /\ c = 0 /\ b = 0
      \/ s # f.node /\ q[s] \in Cases /\ ~EndedIn(q, s) /\ c = b + 1 /\ g.conditions[c] = s
      \/ s # f.node /\ q[s] \in Cases /\ EndedIn(q, s) /\ c = b
      \/ s # f.node /\ q[s] = "default" /\ c <= b

PairedUp(g) ==
  \A k \in DOMAIN g.conditions \cap DOMAIN g.blocks : g.blocks[k] = g.conditions[k]

JudgesFit(q, fr, ju) ==
  /\ \A j \in JudgeAt(q) : PairedUp(ju[j])
  /\ \A j \in JudgeAt(q) : CompleteIn(q, j) => Len(ju[j].conditions) <= Len(ju[j].blocks)
  /\ \A d \in 1..Len(fr) : fr[d].node \in JudgeAt(q) => JudgeFits(q, ju[fr[d].node], fr[d])

LEMMA EndedGrows ==
  ASSUME StackInv, NEW t \in Following, stream' = Append(stream, t), NEW s \in 0..Len(stream)
  PROVE  /\ EndedIn(stream', s) <=> EndedIn(stream, s) \/ (t = "endcase" /\ SectionOf(Top) = s)
         /\ Ended(s) <=> EndedIn(stream, s)
         /\ ~EndedIn(stream', Here)
<1> DEFINE n == Len(stream)
           r == stream'
<1>1. t \in Tokens /\ stream \in Seq(Tokens)
  BY DEF Following, StackInv
<1>2. n \in Nat /\ Len(r) = n + 1 /\ r[n + 1] = t /\ \A k \in 1..n : r[k] = stream[k]
  BY <1>1, AppendIs
<1>3. \A k \in 1..(n + 1) : SectionIn(r, k) = SectionIn(stream, k)
  BY <1>1, OwnerGrows
<1>4. SectionIn(stream, n + 1) = SectionOf(Top) /\ Here = n + 1
  BY HereIs, LooksBack DEF Here
<1> HIDE DEF n, r
<1>5. (s + 1)..(n + 1) = ((s + 1)..n) \cup {n + 1} /\ \A k \in (s + 1)..n : k \in 1..n /\ k \in 1..(n + 1)
  BY <1>2 DEF n
<1>6. n + 1 \in 1..(n + 1) /\ ((n + 1) + 1)..(n + 1) = {}
  BY <1>2
<1>7. EndedIn(r, s) <=> EndedIn(stream, s) \/ (t = "endcase" /\ SectionOf(Top) = s)
  <2>1. EndedIn(r, s) <=> \E k \in (s + 1)..(n + 1) : r[k] = "endcase" /\ SectionIn(r, k) = s
    BY <1>2 DEF EndedIn
  <2>2. EndedIn(stream, s) <=> \E k \in (s + 1)..n : r[k] = "endcase" /\ SectionIn(r, k) = s
    BY <1>2, <1>3, <1>5 DEF EndedIn, n
  <2>3. (r[n + 1] = "endcase" /\ SectionIn(r, n + 1) = s) <=> (t = "endcase" /\ SectionOf(Top) = s)
    BY <1>2, <1>3, <1>4, <1>6
  <2> QED BY <1>5, <2>1, <2>2, <2>3
<1>8. Ended(s) <=> EndedIn(stream, s)
  BY LooksBack DEF Ended, EndedIn
<1>9. ~EndedIn(r, Here)
  BY <1>2, <1>4, <1>6 DEF EndedIn
<1> QED BY <1>7, <1>8, <1>9 DEF r

LEMMA SectionsApart ==
  ASSUME StackInv, NEW d \in 1..Len(frames)
  PROVE  /\ frames[d] \in FrameRecord /\ frames[d].node \in 0..Len(stream)
         /\ SectionOf(frames[d]) \in 0..Len(stream) /\ SectionOf(frames[d]) >= frames[d].node
         /\ d # Len(frames) => SectionOf(frames[d]) # SectionOf(Top) /\ frames[d].node # Top.node
<1> DEFINE n == Len(stream)
           m == Len(frames)
<1>1. /\ stream \in Seq(Tokens) /\ frames \in Seq(FrameRecord) /\ frames # <<>> /\ StackFits(stream, frames)
      /\ n \in Nat /\ m \in Nat \ {0} /\ Top = frames[m]
  BY HereIs DEF StackInv
<1>2. \A e \in 1..m : frames[e] \in FrameRecord /\ frames[e].node \in 0..n
  BY <1>1, NestedNodes
<1>3. \A e \in 1..m : \/ SectionOf(frames[e]) = frames[e].node
                      \/ SectionOf(frames[e]) \in (frames[e].node + 1)..n
  BY <1>1 DEF StackFits, Sectioned
<1>4. ASSUME d # m
      PROVE  /\ frames[d].node < frames[m].node
             /\ SectionOf(frames[d]) < frames[d + 1].node
             /\ d + 1 # m => frames[d + 1].node < frames[m].node
  <2>1. d \in 1..(m - 1) /\ d + 1 \in 1..m
    BY <1>1, <1>4
  <2> QED BY <1>1, <1>4, <2>1, NodesBelow, NodesAscend
<1> HIDE DEF n, m
<1>5. \A e \in 1..m : SectionOf(frames[e]) \in 0..n /\ SectionOf(frames[e]) >= frames[e].node
  BY <1>1, <1>2, <1>3
<1>6. ASSUME d # m PROVE SectionOf(frames[d]) < SectionOf(frames[m])
  <2>1. d + 1 \in 1..m /\ m \in 1..m /\ d \in 1..m
    BY <1>1, <1>6 DEF m
  <2>2. frames[d + 1].node <= frames[m].node
    BY <1>2, <1>4, <1>6, <2>1
  <2> QED BY <1>2, <1>4, <1>5, <1>6, <2>1, <2>2
<1>7. d \in 1..m
  BY DEF m
<1> QED BY <1>1, <1>2, <1>4, <1>5, <1>6, <1>7 DEF n, m

LEMMA JudgeStays ==
  ASSUME StackInv, NEW t \in Following, stream' = Append(stream, t), NEW g,
         NEW d \in 1..Len(frames), frames[d].node \in JudgeAt(stream),
         JudgeFits(stream, g, frames[d]), t # "endcase" \/ d # Len(frames)
  PROVE  JudgeFits(stream', g, frames[d])
<1> DEFINE s == SectionOf(frames[d])
<1>1. s \in 0..Len(stream) /\ s >= frames[d].node /\ frames[d].node \in 1..Len(stream)
      /\ (d # Len(frames) => s # SectionOf(Top))
  BY SectionsApart DEF JudgeAt
<1>2. EndedIn(stream', s) <=> EndedIn(stream, s)
  BY <1>1, EndedGrows
<1>3. s \in 1..Len(stream)
  BY <1>1, HereIs
<1>4. stream'[s] = stream[s]
  <2>1. t \in Tokens /\ stream \in Seq(Tokens)
    BY DEF Following, StackInv
  <2> HIDE DEF s
  <2> QED BY <1>3, <2>1, AppendIs
<1> HIDE DEF s
<1> QED BY <1>2, <1>4 DEF JudgeFits, s

LEMMA ConditionsAppend ==
  ASSUME NEW R, NEW s \in Seq(R), NEW x
  PROVE  /\ Len(s) \in Nat /\ DOMAIN s = 1..Len(s) /\ Len(Append(s, x)) = Len(s) + 1
         /\ DOMAIN Append(s, x) = 1..(Len(s) + 1)
         /\ Append(s, x)[Len(s) + 1] = x /\ \A k \in 1..Len(s) : Append(s, x)[k] = s[k]
<1> DEFINE T == R \cup {x}
<1>1. s \in Seq(T) /\ x \in T
  OBVIOUS
<1> HIDE DEF T
<1> QED BY <1>1, AppendIs

LEMMA JudgesFitStep ==
  ASSUME "bareCase" \notin Liberties,
         StackInv, TreeInv, OpenFits(stream, frames), JudgesFit(stream, frames, judges),
         NEW t \in Following, ReadByte(t), stream' = Append(stream, t)
  PROVE  JudgesFit(stream', frames', judges')
<1> DEFINE n == Len(stream)
           m == Len(frames)
           J == JudgeAt(stream)
           r == stream'
           gr == frames'
           ju == judges'
<1>1. /\ t \in Tokens /\ stream \in Seq(Tokens) /\ frames \in Seq(FrameRecord) /\ frames # <<>>
      /\ StackFits(stream, frames) /\ n \in Nat /\ m \in Nat \ {0} /\ Here = n + 1 /\ Top = frames[m]
  BY HereIs DEF Following, StackInv
<1>2. JudgeAt(r) = J \cup (IF t = "judge" THEN {Here} ELSE {}) /\ Here \notin J
  BY <1>1, TreeGrows DEF Here
<1>3. \A j \in J : CompleteIn(r, j) <=> CompleteIn(stream, j) \/ (t = "endjudge" /\ j = Top.node)
  <2>1. OwnerIn(stream, n + 1) = Top.node
    BY HereIs, LooksBack DEF Here
  <2>2. \A j \in J : j \in 1..n /\ End[stream[j]] = "endjudge"
    BY TokenSets DEF JudgeAt
  <2> QED BY <1>1, <2>1, <2>2, CompleteGrows
<1>4. CompleteIn(r, Here) <=> t = "line"
  BY <1>1, CompleteGrows
<1>5. /\ \A j \in J : PairedUp(judges[j])
      /\ \A j \in J : CompleteIn(stream, j) => Len(judges[j].conditions) <= Len(judges[j].blocks)
      /\ \A d \in 1..m : frames[d].node \in J => JudgeFits(stream, judges[frames[d].node], frames[d])
  BY DEF JudgesFit
<1>6. /\ r[n + 1] = t /\ \A k \in 1..n : r[k] = stream[k]
  BY <1>1, AppendIs
<1>7. judges \in [J -> JudgeRecord(stream)]
  BY DEF TreeInv
<1>8. \A d \in 1..m : d # m => frames[d].node # Top.node
  BY SectionsApart
<1>9. \A d \in 1..m : frames[d].node \in J /\ (t # "endcase" \/ d # m)
        => JudgeFits(r, judges[frames[d].node], frames[d])
  BY <1>5, JudgeStays
<1> SUFFICES JudgesFit(r, gr, ju)
  OBVIOUS
<1> HIDE DEF n, m, J, r, gr, ju
<1>10. ASSUME ju = judges, t \notin {"judge", "endjudge", "endcase"},
              \A d \in 1..Len(gr) : gr[d].node \in J => d \in 1..m /\ gr[d] = frames[d]
       PROVE  JudgesFit(r, gr, ju)
  <2>1. JudgeAt(r) = J
    BY <1>2, <1>10
  <2>2. \A j \in J : CompleteIn(r, j) => Len(ju[j].conditions) <= Len(ju[j].blocks)
    BY <1>3, <1>5, <1>10
  <2>3. \A d \in 1..Len(gr) : gr[d].node \in J => JudgeFits(r, ju[gr[d].node], gr[d])
    BY <1>9, <1>10
  <2> QED BY <1>5, <1>10, <2>1, <2>2, <2>3 DEF JudgesFit
<1>11. CASE ParseLine(t) \/ ParseSkip(t) \/ ParseUnknown(t) \/ ReadMatch(t)
  <2>1. gr = frames /\ ju = judges
    BY <1>11 DEF ParseLine, ParseSkip, ParseUnknown, ReadMatch, gr, ju
  <2>2. t \in {"line", "skip", "other"} \cup Matches
    <3>1. CASE ParseLine(t) \/ ParseSkip(t)
      BY <3>1 DEF ParseLine, ParseSkip
    <3>2. CASE ParseUnknown(t)
      BY <3>2, LineTokens DEF ParseUnknown
    <3>3. CASE ReadMatch(t)
      BY <3>3, TokenSets DEF ReadMatch, Matched, Matches, StackInv, ReadingFits
    <3> QED BY <1>11, <3>1, <3>2, <3>3
  <2> QED BY <1>10, <2>1, <2>2, TokenSets DEF m
<1>12. CASE ParseIf(t) \/ ParseIfTrue(t) \/ ParseLoop(t)
  <2> DEFINE f == Frame(t, Here, IF t = "judge" THEN NoNode ELSE Here)
  <2>1. gr = Append(frames, f) /\ ju = judges /\ t \in {"if", "ifTrue", "loop"} /\ f.node = Here
    BY <1>12, PushStep DEF ParseIf, ParseIfTrue, ParseLoop, Enter, Frame, gr, ju
  <2> HIDE DEF f
  <2>2. Len(gr) = m + 1 /\ gr[m + 1].node = Here /\ \A d \in 1..m : gr[d] = frames[d]
    BY <1>1, <2>1 DEF m
  <2>3. \A d \in 1..Len(gr) : gr[d].node \in J => d \in 1..m /\ gr[d] = frames[d]
    <3> SUFFICES ASSUME NEW d \in 1..(m + 1), d \notin 1..m PROVE gr[d].node \notin J
      BY <2>2
    <3>1. d = m + 1
      BY <1>1
    <3> QED BY <1>2, <2>2, <3>1
  <2> QED BY <1>10, <2>1, <2>3
<1>13. CASE ParseJudge(t)
  <2> DEFINE f == Frame(t, Here, IF t = "judge" THEN NoNode ELSE Here)
  <2>1. gr = Append(frames, f) /\ ju = Added(judges, Here, NewJudge) /\ t = "judge"
    BY <1>13, PushStep DEF ParseJudge, gr, ju
  <2>2. f.node = Here /\ f.block = NoNode
    BY <2>1 DEF Frame
  <2> HIDE DEF f
  <2>3. Len(gr) = m + 1 /\ gr[m + 1] = f /\ \A d \in 1..m : gr[d] = frames[d]
    BY <1>1, <2>1 DEF m
  <2>4. ju[Here] = NewJudge /\ \A j \in J : ju[j] = judges[j]
    BY <1>2, <1>7, <2>1 DEF Added
  <2>5. NewJudge.conditions = <<>> /\ NewJudge.blocks = <<>>
    BY DEF NewJudge
  <2>6. PairedUp(ju[Here]) /\ JudgeFits(r, ju[Here], f)
    <3>1. SectionOf(f) = f.node
      BY <2>2 DEF SectionOf
    <3> QED BY <2>4, <2>5, <3>1 DEF PairedUp, JudgeFits
  <2>7. \A j \in J : CompleteIn(r, j) => Len(ju[j].conditions) <= Len(ju[j].blocks)
    BY <1>3, <1>5, <2>1, <2>4
  <2>8. \A d \in 1..Len(gr) : gr[d].node \in JudgeAt(r) => JudgeFits(r, ju[gr[d].node], gr[d])
    <3> SUFFICES ASSUME NEW d \in 1..(m + 1), gr[d].node \in JudgeAt(r) PROVE JudgeFits(r, ju[gr[d].node], gr[d])
      BY <2>3
    <3>1. CASE d = m + 1
      BY <2>2, <2>3, <2>6, <3>1
    <3>2. CASE d \in 1..m
      <4>1. frames[d].node \in 0..Len(stream)
        BY <3>2, SectionsApart DEF m
      <4>2. frames[d].node # Here
        BY <1>1, <4>1 DEF n
      <4>3. frames[d].node \in J
        BY <1>2, <2>3, <3>2, <4>2
      <4> QED BY <1>9, <2>1, <2>3, <2>4, <3>2, <4>3
    <3> QED BY <1>1, <3>1, <3>2
  <2> QED BY <1>2, <1>4, <1>5, <2>1, <2>4, <2>6, <2>7, <2>8 DEF JudgesFit
<1>14. CASE ReadElse(t)
  <2>1. /\ gr = [frames EXCEPT ![m] = Frame(IF t = "else" THEN "else" ELSE "judge", Top.node, Here)]
        /\ ju = judges /\ t = "else"
    BY <1>14, TurnStep DEF ReadElse, gr, ju, m
  <2>2. Top.node \notin J
    <3>1. KindIn(stream, Top.node) = "if"
      BY <2>1, TokenFits DEF KindFits, Cases
    <3> QED BY <3>1 DEF J, JudgeAt, KindIn
  <2>3. \A d \in 1..Len(gr) : gr[d].node \in J => d \in 1..m /\ gr[d] = frames[d]
    BY <1>1, <2>1, <2>2 DEF Frame, m
  <2> QED BY <1>10, <2>1, <2>3
<1>15. CASE ReadEnd(t)
  <2>1. /\ t \in Enders /\ m > 1 /\ Len(gr) = m - 1 /\ \A d \in 1..(m - 1) : gr[d] = frames[d]
        /\ Top.node \in 1..Len(stream) /\ stream[Top.node] \in Openers /\ t = End[stream[Top.node]]
    BY <1>15, PopStep DEF gr, m
  <2>2. ju = judges /\ t # "judge" /\ t # "endcase"
    BY <1>15, <2>1, TokenSets DEF ReadEnd, ju
  <2>3. ASSUME t = "endjudge", Top.node \in J
        PROVE  Len(judges[Top.node].conditions) <= Len(judges[Top.node].blocks)
    <3> DEFINE s == SectionOf(Top)
               g == judges[Top.node]
    <3>1. KindIn(stream, s) = "default" \/ (KindIn(stream, s) \in Cases /\ Ended(s))
      BY <2>3, TokenFits
    <3>2. s \in 0..Len(stream) /\ (Ended(s) <=> EndedIn(stream, s))
      <4>1. s \in 0..Len(stream)
        BY HereIs
      <4> QED BY <4>1, EndedGrows
    <3>3. JudgeFits(stream, g, Top)
      BY <1>1, <1>5, <2>3
    <3>4. s # 0 /\ (stream[s] = "default" \/ (stream[s] \in Cases /\ EndedIn(stream, s)))
      BY <3>1, <3>2 DEF KindIn, Cases
    <3>5. stream[Top.node] = "judge" /\ "judge" \notin Cases \cup {"default"}
      BY <2>3 DEF J, JudgeAt, Cases
    <3>6. g \in JudgeRecord(stream)
      BY <1>7, <2>3
    <3> HIDE DEF s, g
    <3>7. Len(g.conditions) \in Nat /\ Len(g.blocks) \in Nat
      BY <3>6, JudgeFields
    <3>8. s # Top.node
      BY <3>4, <3>5
    <3> QED BY <3>3, <3>4, <3>7, <3>8 DEF JudgeFits, s, g, Cases
  <2>4. \A j \in J : CompleteIn(r, j) => Len(ju[j].conditions) <= Len(ju[j].blocks)
    BY <1>3, <1>5, <2>2, <2>3
  <2>5. \A d \in 1..Len(gr) : gr[d].node \in J => JudgeFits(r, ju[gr[d].node], gr[d])
    <3>1. \A d \in 1..(m - 1) : d \in 1..m
      BY <1>1
    <3> QED BY <1>9, <2>1, <2>2, <3>1
  <2> QED BY <1>2, <1>5, <2>2, <2>4, <2>5 DEF JudgesFit
<1>16. CASE ReadCase(t) \/ ReadDefault(t) \/ ReadEndCase(t)
  <2> DEFINE j == Top.node
             g == judges[j]
             s == SectionOf(Top)
             over == EndedIn(stream, s)
             hc == [conditions |-> Append(g.conditions, Here), blocks |-> g.blocks,
                    default_block |-> g.default_block]
             hd == [conditions |-> g.conditions, blocks |-> Append(g.blocks, Top.block),
                    default_block |-> Here]
             he == [conditions |-> g.conditions, blocks |-> Append(g.blocks, Top.block),
                    default_block |-> g.default_block]
             f == Frame("judge", j, Here)
  <2>1. /\ t \in Cases \cup {"default", "endcase"} /\ j \in J /\ g \in JudgeRecord(stream)
        /\ t \in Cases => ju = judges \/ ju = [judges EXCEPT ![j] = hc]
        /\ t = "case" => ju = [judges EXCEPT ![j] = hc]
        /\ t = "default" => ju = [judges EXCEPT ![j] = hd]
        /\ t = "endcase" => ju = [judges EXCEPT ![j] = he]
    BY <1>16, JudgeActions DEF Cases, ju, J
  <2>2. t \in {"case", "default", "endcase"}
    BY <2>1, TokenFits DEF Cases
  <2>3. /\ t = "case" => KindIn(stream, s) = "judge" \/ (KindIn(stream, s) \in Cases /\ Ended(s))
        /\ t = "default" => KindIn(stream, s) \in Cases /\ Ended(s)
        /\ t = "endcase" => KindIn(stream, s) \in Cases \cup {"default"} /\ ~Ended(s)
        /\ Top.block = NoNode <=> KindIn(stream, s) = "judge"
    BY TokenFits DEF Cases
  <2>4. s \in 0..n /\ (Ended(s) <=> over) /\ (EndedIn(r, s) <=> over \/ t = "endcase") /\ ~EndedIn(r, Here)
    <3>1. s \in 0..Len(stream)
      BY HereIs
    <3> QED BY <3>1, EndedGrows DEF n, r
  <2>5. JudgeFits(stream, g, Top) /\ PairedUp(g)
    <3>1. m \in 1..m /\ frames[m].node = j /\ frames[m] = Top
      BY <1>1
    <3> HIDE DEF j
    <3> QED BY <1>5, <2>1, <3>1
  <2>6. j \in 1..n /\ stream[j] = "judge"
    BY <2>1 DEF J, JudgeAt, n
  <2>7. /\ t \in {"case", "default"} => gr = [frames EXCEPT ![m] = f]
        /\ t = "endcase" => gr = frames
    <3>1. CASE ReadCase(t) \/ ReadDefault(t)
      BY <2>1, <3>1, TurnStep DEF gr, m, ReadCase, ReadDefault, Cases
    <3>2. CASE ReadEndCase(t)
      BY <3>2 DEF ReadEndCase, gr
    <3> QED BY <1>16, <3>1, <3>2
  <2>8. f.node = j /\ f.block = Here /\ SectionOf(f) = Here /\ Here # j
    BY <1>1, <2>6 DEF Frame, SectionOf, NoNode
  <2>9. /\ g.conditions \in Seq(1..n) /\ g.blocks \in Seq(BlockAt(stream))
    BY <2>1, JudgeFields DEF n
  <2> HIDE DEF g, s, j, over, f
  <2> DEFINE c == g.conditions
             b == g.blocks
  <2>10. /\ Len(c) \in Nat /\ DOMAIN c = 1..Len(c) /\ Len(Append(c, Here)) = Len(c) + 1
         /\ DOMAIN Append(c, Here) = 1..(Len(c) + 1)
         /\ Append(c, Here)[Len(c) + 1] = Here /\ \A k \in 1..Len(c) : Append(c, Here)[k] = c[k]
    BY <2>9, ConditionsAppend
  <2>11. /\ Len(b) \in Nat /\ DOMAIN b = 1..Len(b) /\ Len(Append(b, Top.block)) = Len(b) + 1
         /\ DOMAIN Append(b, Top.block) = 1..(Len(b) + 1)
         /\ Append(b, Top.block)[Len(b) + 1] = Top.block
         /\ \A k \in 1..Len(b) : Append(b, Top.block)[k] = b[k]
    BY <2>9, ConditionsAppend
  <2>12. t \in {"default", "endcase"} => Top.block = s
    BY <2>3 DEF SectionOf, s, Cases
  <2>13. \/ s = j /\ Len(c) = 0 /\ Len(b) = 0
         \/ s # j /\ stream[s] \in Cases /\ ~over /\ Len(c) = Len(b) + 1 /\ c[Len(c)] = s
         \/ s # j /\ stream[s] \in Cases /\ over /\ Len(c) = Len(b)
         \/ s # j /\ stream[s] = "default" /\ Len(c) <= Len(b)
    BY <2>5 DEF JudgeFits, s, j, over, g
  <2>14. "judge" \notin Cases /\ "default" \notin Cases
    BY DEF Cases
  <2>15. s # 0 => KindIn(stream, s) = stream[s]
    BY DEF KindIn
  <2>16. s = 0 => KindIn(stream, s) = "program"
    BY DEF KindIn
  <2>17. \A k \in 1..Len(c) : k \in 1..Len(b) => b[k] = c[k]
    BY <2>5, <2>10, <2>11 DEF PairedUp
  <2> HIDE DEF c, b
  <2>18. ASSUME NEW h, ju = [judges EXCEPT ![j] = h], PairedUp(h), JudgeFits(r, h, gr[m])
         PROVE  JudgesFit(r, gr, ju)
    <3>1. Len(gr) = m /\ gr[m].node = j /\ \A d \in 1..m : d # m => gr[d] = frames[d]
      BY <1>1, <2>2, <2>7, <2>8 DEF j, m
    <3>2. ju[j] = h /\ \A i \in J : i # j => ju[i] = judges[i]
      BY <1>7, <2>1, <2>18
    <3>3. JudgeAt(r) = J
      BY <1>2, <2>2
    <3>4. ~CompleteIn(stream, j)
      <4>1. m # 1
        BY <1>1, <2>6 DEF m, n, j, StackFits, Nested, Program
      <4>2. m \in 2..m /\ frames[m].node = j
        BY <1>1, <4>1 DEF j
      <4> QED BY <4>2 DEF OpenFits, m
    <3>5. \A i \in J : CompleteIn(r, i) => Len(ju[i].conditions) <= Len(ju[i].blocks)
      BY <1>3, <1>5, <2>2, <3>2, <3>4
    <3>6. \A d \in 1..m : gr[d].node \in J => JudgeFits(r, ju[gr[d].node], gr[d])
      <4> SUFFICES ASSUME NEW d \in 1..m, d # m, frames[d].node \in J
                   PROVE  JudgeFits(r, ju[frames[d].node], frames[d])
        BY <2>18, <3>1, <3>2
      <4>1. frames[d].node # j
        BY <1>8 DEF j
      <4> QED BY <1>9, <3>2, <4>1
    <3> QED BY <1>5, <2>18, <3>1, <3>2, <3>3, <3>5, <3>6 DEF JudgesFit
  <2>19. CASE t = "case"
    <3>1. Len(c) = Len(b)
      <4>1. KindIn(stream, s) = "judge" => s = j
        BY <2>13, <2>14, <2>15, <2>16
      <4>2. KindIn(stream, s) \in Cases => s # 0 /\ stream[s] \in Cases
        BY <2>15, <2>16 DEF Cases
      <4> QED BY <2>3, <2>4, <2>6, <2>13, <2>14, <2>19, <4>1, <4>2
    <3>2. ju = [judges EXCEPT ![j] = hc] /\ hc.conditions = Append(c, Here) /\ hc.blocks = b
      BY <2>1, <2>19 DEF c, b
    <3> HIDE DEF hc
    <3>3. PairedUp(hc)
      BY <2>10, <2>11, <2>17, <3>1, <3>2 DEF PairedUp
    <3>4. gr[m] = f
      BY <1>1, <2>7, <2>19 DEF m
    <3>5. JudgeFits(r, hc, f)
      <4>1. r[Here] \in Cases
        BY <1>1, <1>6, <2>19 DEF Cases
      <4> QED BY <2>4, <2>8, <2>10, <3>1, <3>2, <4>1 DEF JudgeFits
    <3> QED BY <2>18, <3>2, <3>3, <3>4, <3>5
  <2>20. CASE t = "default"
    <3>1. Len(c) = Len(b)
      <4>1. s # 0 /\ stream[s] \in Cases /\ over
        BY <2>3, <2>4, <2>15, <2>16, <2>20 DEF Cases
      <4> QED BY <2>6, <2>13, <2>14, <4>1
    <3>2. ju = [judges EXCEPT ![j] = hd] /\ hd.conditions = c /\ hd.blocks = Append(b, Top.block)
      BY <2>1, <2>20 DEF c, b
    <3> HIDE DEF hd
    <3>3. PairedUp(hd)
      BY <2>10, <2>11, <2>17, <3>1, <3>2 DEF PairedUp
    <3>4. gr[m] = f
      BY <1>1, <2>7, <2>20 DEF m
    <3>5. JudgeFits(r, hd, f)
      <4>1. r[Here] = "default"
        BY <1>1, <1>6, <2>20
      <4>2. Len(hd.conditions) <= Len(hd.blocks)
        BY <2>10, <2>11, <3>1, <3>2
      <4> QED BY <2>8, <4>1, <4>2 DEF JudgeFits
    <3> QED BY <2>18, <3>2, <3>3, <3>4, <3>5
  <2>21. CASE t = "endcase"
    <3>1. ju = [judges EXCEPT ![j] = he] /\ he.conditions = c /\ he.blocks = Append(b, s)
      BY <2>1, <2>12, <2>21 DEF c, b
    <3>2. s # 0 /\ stream[s] \in Cases \cup {"default"} /\ ~over /\ s # j
      BY <2>3, <2>4, <2>6, <2>14, <2>15, <2>16, <2>21 DEF Cases
    <3>3. \/ stream[s] \in Cases /\ Len(c) = Len(b) + 1 /\ c[Len(c)] = s
          \/ stream[s] = "default" /\ Len(c) <= Len(b)
      BY <2>13, <2>14, <3>2
    <3>4. /\ Len(Append(b, s)) = Len(b) + 1 /\ DOMAIN Append(b, s) = 1..(Len(b) + 1)
          /\ Append(b, s)[Len(b) + 1] = s /\ \A k \in 1..Len(b) : Append(b, s)[k] = b[k]
      BY <2>11, <2>12, <2>21
    <3> HIDE DEF he
    <3>5. PairedUp(he)
      <4> SUFFICES ASSUME NEW k \in 1..Len(c), k \in 1..(Len(b) + 1) PROVE Append(b, s)[k] = c[k]
        BY <2>10, <3>1, <3>4 DEF PairedUp
      <4>1. CASE k \in 1..Len(b)
        BY <2>17, <3>4, <4>1
      <4>2. CASE k = Len(b) + 1
        <5>1. Len(c) = k /\ c[Len(c)] = s
          <6>1. k <= Len(c) /\ Len(c) \in Nat /\ Len(b) \in Nat
            BY <2>10, <2>11
          <6>2. ~(Len(c) <= Len(b))
            BY <4>2, <6>1
          <6> QED BY <3>3, <4>2, <6>2
        <5> QED BY <3>4, <4>2, <5>1
      <4> QED BY <2>11, <4>1, <4>2
    <3>6. gr[m] = Top
      BY <1>1, <2>7, <2>21 DEF m
    <3>7. JudgeFits(r, he, Top)
      <4>1. r[s] = stream[s] /\ EndedIn(r, s)
        BY <1>1, <1>6, <2>4, <2>21, <3>2
      <4>2. Len(he.conditions) = Len(c) /\ Len(he.blocks) = Len(b) + 1 /\ SectionOf(Top) = s /\ Top.node = j
        BY <3>1, <3>4 DEF s, j
      <4> DEFINE lc == Len(he.conditions)
                 lb == Len(he.blocks)
      <4>3. CASE stream[s] = "default"
        <5>1. Len(c) <= Len(b) \/ Len(c) = Len(b) + 1
          BY <3>3
        <5>2. Len(c) <= Len(b) + 1
          <6>1. Len(c) \in Nat /\ Len(b) \in Nat
            BY <2>10, <2>11
          <6> QED BY <5>1, <6>1
        <5>3. lc <= lb
          BY <4>2, <5>2
        <5> QED BY <3>2, <4>1, <4>2, <4>3, <5>3 DEF JudgeFits
      <4>4. CASE stream[s] \in Cases
        <5>1. lc = lb
          BY <2>10, <2>11, <2>14, <3>3, <4>2, <4>4
        <5> QED BY <3>2, <4>1, <4>2, <4>4, <5>1 DEF JudgeFits
      <4> QED BY <3>2, <4>3, <4>4
    <3> QED BY <2>18, <3>1, <3>5, <3>6, <3>7
  <2> QED BY <2>2, <2>19, <2>20, <2>21
<1> QED BY <1>11, <1>12, <1>13, <1>14, <1>15, <1>16 DEF ReadByte

JudgesInv == JudgesFit(stream, frames, judges)

(* Every condition of a judge is paired with its own block, though the     *)
(* block in front of the default is pushed twice, and a complete judge has *)
(* a block for every condition: visit(ASTJudge) indexes blocks with the    *)
(* number of a condition.  A case without arguments (bareCase) breaks the  *)
(* pairing.                                                                *)
THEOREM JudgePairedCorrect ==
  ASSUME "bareCase" \notin Liberties
  PROVE  Spec => []JudgePaired
<1>1. Init => JudgesInv
  <2> SUFFICES ASSUME Init PROVE JudgesInv
    OBVIOUS
  <2>1. stream = <<>> /\ frames = <<Frame("program", Program, Program)>>
    BY DEF Init
  <2>2. JudgeAt(stream) = {}
    BY <2>1 DEF JudgeAt
  <2> QED BY <2>2 DEF JudgesInv, JudgesFit
<1>2. StackInv /\ TreeInv /\ ParsedInv /\ JudgesInv /\ [Next]_vars => JudgesInv'
  <2> SUFFICES ASSUME StackInv, TreeInv, ParsedInv, JudgesInv, [Next]_vars PROVE JudgesInv'
    OBVIOUS
  <2>1. CASE UNCHANGED vars
    BY <2>1 DEF vars, JudgesInv
  <2>2. CASE Finished
    BY <2>2 DEF Finished, vars, JudgesInv
  <2>3. ASSUME NEW t \in Following, ReadByte(t), stream' = Append(stream, t) PROVE JudgesInv'
    BY <2>3, JudgesFitStep DEF JudgesInv, ParsedInv
  <2> QED BY <2>1, <2>2, <2>3 DEF Next
<1>3. ASSUME TreeInv, JudgesInv PROVE JudgePaired
  <2> SUFFICES ASSUME NEW j \in JudgeAt(stream)
               PROVE  /\ PairedUp(judges[j])
                      /\ Complete(j) => Len(judges[j].conditions) <= Len(judges[j].blocks)
    BY <1>3 DEF JudgePaired, TreeInv, PairedUp
  <2> QED BY <1>3, CompleteIs DEF JudgesInv, JudgesFit
<1> QED BY <1>1, <1>2, <1>3, StackInvariant, TreeInvariant, ParsedInvariant, PTL DEF Spec
=============================================================================
