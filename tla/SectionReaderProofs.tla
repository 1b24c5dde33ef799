------------------------- MODULE SectionReaderProofs -------------------------
(***************************************************************************)
(* The readers keep in step with files of any number of segments,          *)
(* elements, variables and pad fields, and read them as they were written. *)
(*                                                                         *)
(* The argument.  From pos on, the file is what the editor wrote for the   *)
(* work that is left: the rest of the list of variables in progress, of    *)
(* the record it belongs to, of the section's records, the sections still  *)
(* to be read and the segments behind (PositionInv).  A reader takes the   *)
(* first piece of that apart, which shows what it reads and where it       *)
(* stops.  LoadedInv says what the vectors have: one that is there has a   *)
(* length, and keys, from the last segment that sized it, whatever other   *)
(* segments held (Loaded), and the lists of every element are there.       *)
(* Elements have fields of their own kind, at their own place (DataInv).   *)
(*                                                                         *)
(* FlattenSeq is a recursive function.  Its equations follow without       *)
(* induction from the fact that a set of numbers has a least element.      *)
(***************************************************************************)
EXTENDS SectionReader, WellFoundedInduction, TLAPS

(* Naturals are well founded: the least element of a set.                  *)
LEMMA Least ==
  ASSUME NEW T, T \subseteq Nat, T # {}
  PROVE  \E x \in T : \A y \in T : x <= y
<1> DEFINE R == {p \in Nat \X Nat : p[1] < p[2]}
<1>1. IsWellFoundedOn(R, Nat)
  BY NatLessThanWellFounded DEF OpToRel
<1>2. \A x, y \in Nat : y < x => <<y, x>> \in R
  OBVIOUS
<1> HIDE DEF R
<1>3. PICK x \in T : \A y \in T : ~(<<y, x>> \in R)
  BY <1>1, WFMin
<1>4. ASSUME NEW y \in T PROVE x <= y
  <2>1. x \in Nat /\ y \in Nat
    OBVIOUS
  <2>2. ~(y < x)
    BY <1>2, <1>3, <2>1
  <2> QED BY <2>1, <2>2
<1> QED BY <1>4

-----------------------------------------------------------------------------
(* Pieces of files, and their concatenation.                               *)
Names == {"number", "block", "mark", "junk", "start", "key", "path", "include", "code", "type", "property",
          "name", "comment", "base", "skip", "lib", "func", "belong", "bounds", "cursor", "flags", "looks",
          "className", "title", "helpFileName", "value", "description", "author", "address", "telephone",
          "fox", "email", "host", "copyright", "version", "create"}
Vecs == {"", "info", "libraries", "modules", "subs", "globals", "structs", "dlls", "windows", "constants"}
          \X Nat \X {"", "vars", "locals", "params", "members", "include", "code"}
Elem == [is : Names, vec : Vecs, of : Nat, n : Nat]
Pieces == Seq(Elem)
a ++ b == a \o b

LEMMA ConcatIs ==
  ASSUME NEW a \in Pieces, NEW b \in Pieces
  PROVE  /\ a ++ b \in Pieces /\ Len(a ++ b) = Len(a) + Len(b) /\ Len(a) \in Nat /\ Len(b) \in Nat
         /\ \A k \in 1..Len(a) : (a ++ b)[k] = a[k]
         /\ \A k \in 1..Len(b) : (a ++ b)[Len(a) + k] = b[k]
BY DEF Pieces, ++

LEMMA SameSeq ==
  ASSUME NEW a \in Pieces, NEW b \in Pieces, Len(a) = Len(b),
         \A k \in 1..Len(a) : a[k] = b[k]
  PROVE  a = b
BY DEF Pieces, ++

LEMMA Assoc ==
  ASSUME NEW a \in Pieces, NEW b \in Pieces, NEW c \in Pieces
  PROVE  (a ++ b) ++ c = a ++ (b ++ c)
BY DEF Pieces, ++

LEMMA ConcatEmpty ==
  ASSUME NEW a \in Pieces
  PROVE  a ++ <<>> = a /\ <<>> ++ a = a
BY DEF Pieces, ++

LEMMA SubSeqIs ==
  ASSUME NEW E, NEW s \in Seq(E), NEW k \in 1..(Len(s) + 1)
  PROVE  /\ Len(s) \in Nat /\ SubSeq(s, k, Len(s)) \in Seq(E)
         /\ Len(SubSeq(s, k, Len(s))) = (Len(s) - k) + 1
         /\ \A i \in 1..((Len(s) - k) + 1) : SubSeq(s, k, Len(s))[i] = s[(k + i) - 1]
OBVIOUS

LEMMA SubSeqTail ==
  ASSUME NEW E, NEW s \in Seq(E), NEW k \in 1..Len(s)
  PROVE  Tail(SubSeq(s, k, Len(s))) = SubSeq(s, k + 1, Len(s))
OBVIOUS

-----------------------------------------------------------------------------
(* FlattenSeq: the first sequence, then what the others are.               *)
FlatTo(s, n, F) == F = [i \in 1..n |-> IF i = 1 THEN s[1] ELSE F[i - 1] ++ s[i]]

LEMMA FlatExists ==
  ASSUME NEW s, NEW n \in Nat
  PROVE  \E F : FlatTo(s, n, F)
<1> DEFINE T == {m \in Nat : ~\E F : FlatTo(s, m, F)}
<1>1. ASSUME T # {} PROVE FALSE
  <2>1. PICK m \in T : \A k \in T : m <= k
    BY <1>1, Least
  <2>2. m # 0
    <3>1. FlatTo(s, 0, [i \in 1..0 |-> s])
      BY DEF FlatTo
    <3> QED BY <3>1
  <2>3. m \in Nat \ {0} /\ m - 1 \in Nat /\ ~(m <= m - 1)
    BY <2>2
  <2>4. m - 1 \notin T
    BY <2>1, <2>3
  <2>5. PICK F : FlatTo(s, m - 1, F)
    BY <2>3, <2>4
  <2> DEFINE G == [i \in 1..m |-> IF i < m THEN F[i] ELSE IF i = 1 THEN s[1] ELSE F[i - 1] ++ s[i]]
  <2>6. \A i \in 1..m : G[i] = IF i = 1 THEN s[1] ELSE G[i - 1] ++ s[i]
    <3> SUFFICES ASSUME NEW i \in 1..m PROVE G[i] = IF i = 1 THEN s[1] ELSE G[i - 1] ++ s[i]
      OBVIOUS
    <3>1. i < m => F[i] = IF i = 1 THEN s[1] ELSE F[i - 1] ++ s[i]
      <4> HIDE DEF G
      <4>1. ASSUME i < m PROVE i \in 1..(m - 1)
        BY <2>3, <4>1
      <4>2. F = [k \in 1..(m - 1) |-> IF k = 1 THEN s[1] ELSE F[k - 1] ++ s[k]]
        BY <2>5, Zenon DEF FlatTo
      <4>3. \A k \in 1..(m - 1) : F[k] = IF k = 1 THEN s[1] ELSE F[k - 1] ++ s[k]
        BY <4>2
      <4> QED BY <4>1, <4>3, Zenon
    <3>2. i # 1 => i - 1 \in 1..m /\ i - 1 < m
      BY <2>3
    <3>3. i < m => G[i] = F[i]
      OBVIOUS
    <3>4. i # 1 => G[i - 1] = F[i - 1]
      BY <3>2
    <3>5. ~(i < m) => G[i] = IF i = 1 THEN s[1] ELSE F[i - 1] ++ s[i]
      OBVIOUS
    <3> HIDE DEF G
    <3> QED BY <3>1, <3>3, <3>4, <3>5
  <2>7. G = [i \in 1..m |-> IF i = 1 THEN s[1] ELSE G[i - 1] ++ s[i]]
    <3>1. G = [i \in 1..m |-> G[i]]
      OBVIOUS
    <3> HIDE DEF G
    <3> QED BY <2>6, <3>1
  <2>8. FlatTo(s, m, G)
    BY <2>7 DEF FlatTo
  <2> QED BY <2>1, <2>8
<1> QED BY <1>1

LEMMA FlattenIs ==
  ASSUME NEW s, Len(s) \in Nat \ {0}
  PROVE  \E F : FlatTo(s, Len(s), F) /\ FlattenSeq(s) = F[Len(s)]
<1> DEFINE F == CHOOSE G : G = [i \in 1..Len(s) |-> IF i = 1 THEN s[i] ELSE G[i - 1] ++ s[i]]
<1>1. FlattenSeq(s) = F[Len(s)]
  BY DEF FlattenSeq, ++
<1>2. \A G : FlatTo(s, Len(s), G) <=> G = [i \in 1..Len(s) |-> IF i = 1 THEN s[i] ELSE G[i - 1] ++ s[i]]
  <2>1. ASSUME NEW G PROVE [i \in 1..Len(s) |-> IF i = 1 THEN s[1] ELSE G[i - 1] ++ s[i]]
                            = [i \in 1..Len(s) |-> IF i = 1 THEN s[i] ELSE G[i - 1] ++ s[i]]
    OBVIOUS
  <2> QED BY <2>1, Zenon DEF FlatTo
<1>3. \E G : G = [i \in 1..Len(s) |-> IF i = 1 THEN s[i] ELSE G[i - 1] ++ s[i]]
  BY <1>2, FlatExists
<1>4. F = [i \in 1..Len(s) |-> IF i = 1 THEN s[i] ELSE F[i - 1] ++ s[i]]
  BY <1>3, Zenon
<1> HIDE DEF F
<1> QED BY <1>1, <1>2, <1>4

LEMMA FlatType ==
  ASSUME NEW s \in Seq(Pieces), NEW F, FlatTo(s, Len(s), F), NEW j \in 1..Len(s)
  PROVE  F[j] \in Pieces
<1> DEFINE T == {m \in 1..Len(s) : F[m] \notin Pieces}
<1>1. Len(s) \in Nat /\ \A i \in 1..Len(s) : s[i] \in Pieces
  OBVIOUS
<1>2. \A i \in 1..Len(s) : F[i] = IF i = 1 THEN s[1] ELSE F[i - 1] ++ s[i]
  BY DEF FlatTo
<1>3. ASSUME T # {} PROVE FALSE
  <2>1. T \subseteq Nat
    BY <1>1
  <2>2. PICK m \in T : \A k \in T : m <= k
    BY <1>3, <2>1, Least
  <2>3. m \in 1..Len(s) /\ F[m] \notin Pieces
    OBVIOUS
  <2>4. m # 1
    BY <1>1, <1>2, <2>3
  <2>5. m - 1 \in 1..Len(s) /\ ~(m <= m - 1)
    BY <1>1, <2>3, <2>4
  <2>6. F[m - 1] \in Pieces
    BY <2>2, <2>5
  <2>7. F[m] = F[m - 1] ++ s[m] /\ s[m] \in Pieces
    BY <1>1, <1>2, <2>3, <2>4
  <2> QED BY <2>3, <2>6, <2>7, ConcatIs
<1> QED BY <1>3

LEMMA FlattenEmpty == FlattenSeq(<<>>) = <<>>
BY DEF FlattenSeq, ++

LEMMA FlattenHead ==
  ASSUME NEW s \in Seq(Pieces), s # <<>>
  PROVE  FlattenSeq(s) = s[1] ++ FlattenSeq(Tail(s))
<1> DEFINE t == Tail(s)
           n == Len(s)
<1>1. n \in Nat \ {0} /\ t \in Seq(Pieces) /\ Len(t) = n - 1 /\ s[1] \in Pieces
      /\ \A i \in 1..(n - 1) : t[i] = s[i + 1]
  OBVIOUS
<1>2. \A i \in 1..n : s[i] \in Pieces
  OBVIOUS
<1>3. n = 1 => t = <<>>
  <2> HIDE DEF t, n
  <2>1. Len(t) = 0 => t = <<>>
    BY <1>1
  <2> QED BY <1>1, <2>1
<1>4. PICK F : FlatTo(s, n, F) /\ FlattenSeq(s) = F[n]
  BY <1>1, FlattenIs
<1>5. \A i \in 1..n : F[i] = IF i = 1 THEN s[1] ELSE F[i - 1] ++ s[i]
  BY <1>4 DEF FlatTo
<1> HIDE DEF n, t
<1>6. CASE n = 1
  <2>1. FlattenSeq(s) = s[1]
    BY <1>4, <1>5, <1>6
  <2> QED BY <1>1, <1>3, <1>6, <2>1, FlattenEmpty, ConcatEmpty DEF t
<1>7. CASE n # 1
  <2>1. Len(t) \in Nat \ {0}
    BY <1>1, <1>7
  <2>2. PICK G : FlatTo(t, Len(t), G) /\ FlattenSeq(t) = G[Len(t)]
    BY <2>1, FlattenIs
  <2>3. \A i \in 1..(n - 1) : G[i] = IF i = 1 THEN t[1] ELSE G[i - 1] ++ t[i]
    BY <1>1, <2>2 DEF FlatTo
  <2>4. \A i \in 1..(n - 1) : G[i] \in Pieces
    BY <1>1, <2>2, FlatType
  <2> DEFINE T == {i \in 1..(n - 1) : F[i + 1] # s[1] ++ G[i]}
  <2>5. ASSUME NEW m \in 1..(n - 1), \A k \in T : m <= k
        PROVE  F[m + 1] = s[1] ++ G[m]
    <3>1. m \in Nat \ {0} /\ m + 1 \in 1..n /\ m + 1 # 1 /\ (m + 1) - 1 = m /\ m \in 1..n
      BY <1>1
    <3>2. F[m + 1] = F[m] ++ s[m + 1] /\ t[m] = s[m + 1] /\ s[m + 1] \in Pieces
      BY <1>1, <1>2, <1>5, <3>1
    <3>3. CASE m = 1
      <4>1. F[m] = s[1]
        BY <1>5, <3>1, <3>3
      <4>2. G[m] = t[m]
        BY <2>3, <3>3
      <4> QED BY <3>2, <4>1, <4>2
    <3>4. CASE m # 1
      <4>1. m - 1 \in 1..(n - 1) /\ ~(m <= m - 1) /\ (m - 1) + 1 = m
        BY <1>1, <3>1, <3>4
      <4>2. m - 1 \notin T
        BY <2>5, <4>1
      <4>3. F[m] = s[1] ++ G[m - 1]
        BY <4>1, <4>2
      <4>4. G[m] = G[m - 1] ++ s[m + 1]
        BY <2>3, <3>2, <3>4
      <4>5. G[m - 1] \in Pieces
        BY <2>4, <4>1
      <4> HIDE DEF T
      <4>6. (s[1] ++ G[m - 1]) ++ s[m + 1] = s[1] ++ (G[m - 1] ++ s[m + 1])
        <5>1. \A a, b, c \in Pieces : (a ++ b) ++ c = a ++ (b ++ c)
          BY Assoc
        <5>2. s[1] \in Pieces /\ G[m - 1] \in Pieces /\ s[m + 1] \in Pieces
          BY <1>1, <3>2, <4>5
        <5> QED BY <5>1, <5>2
      <4> QED BY <3>2, <4>3, <4>4, <4>6
    <3> QED BY <3>3, <3>4
  <2>6. T = {}
    <3> SUFFICES ASSUME T # {} PROVE FALSE
      OBVIOUS
    <3>1. T \subseteq 1..(n - 1) /\ \A k \in T : F[k + 1] # s[1] ++ G[k]
      OBVIOUS
    <3> HIDE DEF T
    <3>2. T \subseteq Nat
      BY <1>1, <3>1
    <3>3. PICK m \in T : \A k \in T : m <= k
      BY <3>2, Least
    <3> QED BY <2>5, <3>1, <3>3
  <2>7. n - 1 \in 1..(n - 1) /\ (n - 1) + 1 = n
    BY <1>1, <1>7
  <2>8. F[n] = s[1] ++ G[n - 1]
    BY <2>6, <2>7
  <2> QED BY <1>1, <1>4, <2>2, <2>8 DEF t
<1> QED BY <1>6, <1>7

LEMMA FlattenType ==
  ASSUME NEW s \in Seq(Pieces)
  PROVE  FlattenSeq(s) \in Pieces
<1>1. CASE s = <<>>
  <2>1. <<>> \in Pieces
    BY DEF Pieces
  <2> QED BY <1>1, <2>1, FlattenEmpty
<1>2. CASE s # <<>>
  <2>1. Len(s) \in Nat \ {0} /\ Len(s) \in 1..Len(s)
    BY <1>2
  <2>2. PICK F : FlatTo(s, Len(s), F) /\ FlattenSeq(s) = F[Len(s)]
    BY <2>1, FlattenIs
  <2> QED BY <2>1, <2>2, FlatType
<1> QED BY <1>1, <1>2

(* What is left from the k-th sequence on.                                 *)
From(s, k) == FlattenSeq(SubSeq(s, k, Len(s)))

LEMMA FromIs ==
  ASSUME NEW s \in Seq(Pieces)
  PROVE  /\ From(s, 1) = FlattenSeq(s)
         /\ From(s, Len(s) + 1) = <<>>
         /\ \A k \in 1..(Len(s) + 1) : From(s, k) \in Pieces
         /\ \A k \in 1..Len(s) : From(s, k) = s[k] ++ From(s, k + 1)
<1>1. SubSeq(s, 1, Len(s)) = s /\ SubSeq(s, Len(s) + 1, Len(s)) = <<>> /\ Len(s) \in Nat
  OBVIOUS
<1>2. ASSUME NEW k \in 1..(Len(s) + 1) PROVE SubSeq(s, k, Len(s)) \in Seq(Pieces)
  BY <1>1
<1>3. ASSUME NEW k \in 1..(Len(s) + 1) PROVE From(s, k) \in Pieces
  BY <1>2, FlattenType DEF From
<1>4. ASSUME NEW k \in 1..Len(s) PROVE From(s, k) = s[k] ++ From(s, k + 1)
  <2> DEFINE t == SubSeq(s, k, Len(s))
  <2>1. /\ t \in Seq(Pieces) /\ Len(t) = (Len(s) - k) + 1
        /\ \A i \in 1..((Len(s) - k) + 1) : t[i] = s[(k + i) - 1]
    BY SubSeqIs
  <2>2. Tail(t) = SubSeq(s, k + 1, Len(s))
    BY SubSeqTail
  <2> HIDE DEF t
  <2>3. t # <<>> /\ t[1] = s[k]
    <3>1. 1 \in 1..((Len(s) - k) + 1) /\ (k + 1) - 1 = k /\ (Len(s) - k) + 1 # 0
      BY <1>1
    <3> QED BY <2>1, <3>1
  <2>4. FlattenSeq(t) = t[1] ++ FlattenSeq(Tail(t))
    BY <2>1, <2>3, FlattenHead
  <2> QED BY <2>2, <2>3, <2>4 DEF From, t
<1> QED BY <1>1, <1>3, <1>4, FlattenEmpty DEF From

-----------------------------------------------------------------------------
(* What the editor wrote, section by section.                              *)
Kinds == {"modules", "subs", "structs", "dlls", "windows", "constants"}
ListNames(s) ==
  CASE s = "modules" -> <<"include", "vars">>
    [] s = "subs" -> <<"locals", "params", "code">>
    [] s = "structs" -> <<"members">>
    [] s = "dlls" -> <<"params">>
    [] OTHER -> <<>>
ListsOf(s) == {ListNames(s)[j] : j \in 1..Len(ListNames(s))}

Count(p, s) == CASE s = "info" -> 1 [] s \in {"libraries", "globals"} -> p[s] [] OTHER -> Len(p[s])
Size(p, vec) ==
  CASE vec[3] = "" -> Count(p, vec[1])
    [] vec[3] = "code" -> 6
    [] vec[1] = "subs" /\ vec[3] = "params" -> 1
    [] OTHER -> p[vec[1]][vec[2]]
IsVec(p, vec) ==
  \/ \E s \in Kinds \cup {"info", "libraries", "globals"} : vec = Section(s)
  \/ \E s \in Kinds : \E i \in 1..Len(p[s]), list \in ListsOf(s) : vec = <<s, i, list>>

ListWritten(p, s, i, list) ==
  CASE list = "include" -> <<Number(4 * p.modules[i])>> \o Many(<<s, i, list>>, list, p.modules[i])
    [] list = "code" -> Many(<<s, i, list>>, list, 6)
    [] OTHER -> VarsWritten(<<s, i, list>>, Size(p, <<s, i, list>>), p.pad)
ListsWritten(p, s, i, lists) == FlattenSeq([j \in DOMAIN lists |-> ListWritten(p, s, i, lists[j])])

ModulesHead(p) == Blocks(1) \o Sized(Blocks(p.pad)) \o Sized(Blocks(1))
ConstantsWritten(p) ==
  <<Number(Len(p.constants)), Plain("block")>> \o ConstantKeys(p) \o Blocks(Len(p.constants))
  \o RecordsWritten(p, "constants")
PartWritten(p, s) ==
  CASE s = "libraries" -> LibrariesWritten(p)
    [] s = "modules" -> ModulesHead(p) \o SectionWritten(p, "modules")
    [] s = "globals" -> VarsWritten(Section("globals"), p.globals, p.pad)
    [] s = "constants" -> ConstantsWritten(p)
    [] s = "info" -> Fields(Section("info"), 1, InfoNames)
    [] s = "ast" -> <<Plain("junk")>>
    [] OTHER -> SectionWritten(p, s)
PartsWritten(p, parts) == FlattenSeq([j \in DOMAIN parts |-> PartWritten(p, parts[j])])

CutShort(p, k) == p.cut /\ k = Len(p.segments)
Marks(k) == [m \in 1..k |-> Plain("mark")]
Trailer(k) == <<Plain("block"), Number(k), Plain("block")>>
Content(p, t) ==
  CASE t = 2 -> Blocks(1)
    [] t = 0 -> <<Plain("junk")>>
    [] OTHER -> PartsWritten(p, Sections(t))
After(p, k) == From([j \in DOMAIN p.segments |-> SegmentWritten(p, j)], k + 1)

-----------------------------------------------------------------------------
(* What is left of a loop over records, or over variables.                 *)
Vars(p, vec) == [i \in 1..Size(p, vec) |-> VarWritten(vec, i, p.pad)]
Records(p, s) == [i \in DOMAIN p[s] |-> RecordWritten(p, s, i)]
FrameRest(p, fr) ==
  IF IsVars(fr.vec) THEN From(Vars(p, fr.vec), fr.at + 1) \o Blocks(p.pad)
  ELSE ListsWritten(p, fr.vec[1], fr.at, fr.lists) \o From(Records(p, fr.vec[1]), fr.at + 1)
StackRest(p, fr) ==
  CASE Len(fr) = 0 -> <<>>
    [] Len(fr) = 1 -> FrameRest(p, fr[1])
    [] OTHER -> FrameRest(p, fr[2]) \o FrameRest(p, fr[1])

IsFrame(fr) == fr = [vec |-> fr.vec, at |-> fr.at, lists |-> fr.lists, past |-> fr.past]
TailsOf(q) == {SubSeq(q, k, Len(q)) : k \in 1..(Len(q) + 1)}
SectionFrame(p, fr, s) ==
  /\ IsFrame(fr) /\ s \in Kinds /\ fr.vec = Section(s) /\ fr.at \in 0..Len(p[s])
  /\ fr.lists \in TailsOf(ListNames(s)) /\ (fr.lists # <<>> => fr.at # 0)
VarFrame(p, fr, q) ==
  /\ IsFrame(fr) /\ IsVars(fr.vec) /\ IsVec(p, fr.vec) /\ fr.at \in 0..Size(p, fr.vec)
  /\ fr.lists = <<>> /\ fr.past = q + Len(FrameRest(p, fr))
FramesFit(p, q, fr, s) ==
  \/ fr = <<>>
  \/ /\ fr = <<fr[1]>> /\ SectionFrame(p, fr[1], s)
  \/ /\ fr = <<fr[1]>> /\ s = "globals" /\ fr[1].vec = Section(s) /\ VarFrame(p, fr[1], q)
  \/ /\ fr = <<fr[1], fr[2]>> /\ SectionFrame(p, fr[1], s) /\ VarFrame(p, fr[2], q)
     /\ fr[1].at # 0 /\ \E list \in ListsOf(s) : fr[2].vec = <<s, fr[1].at, list>>

(* The rest of the file from q on.                                         *)
CutAt(f, q, r) == q \in 1..(Len(f) + 1) /\ r = SubSeq(f, q, Len(f))

ScanFits(p, f, q, k) ==
  \/ CutAt(f, q, After(p, k))
  \/ CutAt(f, q, <<Plain("junk")>> \o After(p, k))
  \/ q \in Nat /\ k < Len(p.segments) /\ CutAt(f, q - 1, After(p, k))
SearchFits(p, f, q, k) ==
  LET rest == Marks(k) \o (Trailer(k) \o (Content(p.contents[k], p.segments[k]) \o After(p, k))) IN
  IF CutShort(p, k) THEN q = Len(f) + 1
  ELSE CutAt(f, q, <<Plain("block")>> \o rest) \/ CutAt(f, q, rest)
ReadFits(p, f, q, k, td, fr) ==
  LET c == p.contents[k] IN
  /\ ~CutShort(p, k) /\ td \in TailsOf(Sections(p.segments[k])) /\ FramesFit(c, q, fr, td[1])
  /\ CutAt(f, q, StackRest(c, fr)
                 \o (PartsWritten(c, IF fr = <<>> THEN td ELSE Tail(td)) \o After(p, k)))

PositionInv ==
  /\ IsProgram(program)
  /\ file = FlattenSeq([k \in DOMAIN program.segments |-> SegmentWritten(program, k)])
  /\ check \in 0..Len(program.segments) /\ ~warned
  /\ segment = IF check = 0 THEN 0 ELSE program.segments[check]
  /\ \A k \in 1..(check - 1) : program.segments[k] \notin Ast
  /\ todo = <<>> => frames = <<>>
  /\ \/ phase = "scan" /\ todo = <<>> /\ segment \notin Ast /\ ScanFits(program, file, pos, check)
     \/ phase = "scan" /\ todo # <<>> /\ check # 0 /\ ReadFits(program, file, pos, check, todo, frames)
     \/ phase = "search" /\ todo = <<>> /\ check # 0 /\ SearchFits(program, file, pos, check)
     \/ /\ phase = "done" /\ todo = <<>> /\ pos \in 1..(Len(file) + 1)
        /\ check = Len(program.segments) \/ segment \in Ast

-----------------------------------------------------------------------------
(* What has been read.                                                     *)
Keyed(vec) ==
  \/ vec[3] = "" /\ vec[1] \in Kinds \cup {"globals"}
  \/ vec[3] \in VarLists
KeyOf(p, vec, i) ==
  Field("key", vec, i, IF vec = Section("constants") /\ p.constants[i] = 0 THEN 1 ELSE 0)
IsName(vec) ==
  \/ \E s \in Kinds \cup {"info", "libraries", "globals"} : vec = Section(s)
  \/ \E s \in Kinds : \E i \in Nat \ {0}, list \in ListsOf(s) : vec = <<s, i, list>>
FieldFits(vec, i, f, x) ==
  CASE f = "ast" -> x = Field("code", <<"subs", i, "code">>, 6, 0)
    [] f = "key" -> Keyed(vec) /\ x.n \in Nat /\ x = Field("key", vec, i, x.n)
    [] OTHER -> x = Field(f, vec, i, 0)
VectorFits(vec, v) ==
  LET n == Len(v.items) IN
  /\ v = [gen |-> v.gen, room |-> v.room, items |-> v.items]
  /\ v.gen \in Nat /\ v.room \in Nat /\ n \in 0..v.room
  /\ v.items = [i \in 1..n |-> v.items[i]]
  /\ vec[3] = "code" => n = 6
  /\ \A i \in 1..n :
       /\ \A f \in DOMAIN v.items[i] : FieldFits(vec, i, f, v.items[i][f])
       /\ Keyed(vec) => "key" \in DOMAIN v.items[i]
       /\ vec[3] = "code" => "code" \in DOMAIN v.items[i]
ElemsFit(es) == \A vec \in DOMAIN es : IsName(vec) /\ VectorFits(vec, es[vec])
MapsFit(ms) ==
  \A k \in DOMAIN ms :
    /\ k = Field("key", k.vec, k.of, k.n) /\ k.of \in Nat /\ k.n \in Nat
    /\ ms[k].vec = k.vec /\ ms[k].of = k.of /\ ms[k].gen \in Nat

(* A vector has what p says of it.  Loaded: the section s was read from p  *)
(* and from no other segment since; LoadedTo: up to where the loop is.     *)
Has(p, es, vec) ==
  /\ vec \in DOMAIN es /\ Len(es[vec].items) = Size(p, vec)
  /\ Keyed(vec) => \A i \in 1..Size(p, vec) : es[vec].items[i].key = KeyOf(p, vec, i)
LoadedTo(p, es, s, fr) ==
  /\ Has(p, es, Section(s))
  /\ \A i \in 1..fr.at : \A j \in 1..Len(ListNames(s)) :
       i < fr.at \/ j <= Len(ListNames(s)) - Len(fr.lists) => Has(p, es, <<s, i, ListNames(s)[j]>>)
Loaded(p, es, s) ==
  /\ Has(p, es, Section(s))
  /\ s \in Kinds => \A i \in 1..Len(p[s]), list \in ListsOf(s) : Has(p, es, <<s, i, list>>)

(* Whatever was read when: the lists of a section's elements are there.    *)
SectionsLoaded(es, td) ==
  \A s \in Kinds : Section(s) \in DOMAIN es /\ s \notin ToSet(td) =>
    \A i \in 1..Len(es[Section(s)].items), list \in ListsOf(s) : <<s, i, list>> \in DOMAIN es
FramesLoaded(p, es, td, fr) ==
  /\ fr # <<>> => LoadedTo(p, es, td[1], fr[1])
  /\ Len(fr) = 2 => Has(p, es, fr[2].vec)
(* Of the first n segments the last one is searched, in progress or read.  *)
SegmentsLoaded(p, es, td, n, full) ==
  \A k \in 1..n : k < n \/ full =>
    \A s \in ToSet(Sections(p.segments[k])) \ {"ast"} :
      /\ k < n \/ s \notin ToSet(td)
      /\ \A j \in (k + 1)..n : j < n \/ full => s \notin ToSet(Sections(p.segments[j]))
      => Loaded(p.contents[k], es, s)
AstLoaded(ph, t, es) ==
  ph = "done" /\ t \in Ast /\ Section("subs") \in DOMAIN es =>
    \A i \in 1..Len(es[Section("subs")].items) : "ast" \in DOMAIN es[Section("subs")].items[i]

(* The contents of the segment that is read.                               *)
Now == program.contents[check]
LoadedInv ==
  /\ FramesLoaded(Now, elems, todo, frames) /\ SectionsLoaded(elems, todo)
  /\ SegmentsLoaded(program, elems, todo, check, phase # "search")
  /\ AstLoaded(phase, segment, elems)
DataInv == ElemsFit(elems) /\ MapsFit(maps) /\ LoadedInv

-----------------------------------------------------------------------------
(* Pieces the editor writes.                                               *)
LEMMA VecIs ==
  ASSUME NEW i \in Nat
  PROVE  /\ \A s \in {"", "info", "libraries", "modules", "subs", "globals", "structs", "dlls",
                      "windows", "constants"} : Section(s) \in Vecs
         /\ \A s \in {"modules", "subs", "structs", "dlls", "windows", "constants"} :
              \A l \in {"vars", "locals", "params", "members", "include", "code"} : <<s, i, l>> \in Vecs
BY DEF Vecs, Section

LEMMA SectionIs ==
  ASSUME NEW s
  PROVE  Section(s)[1] = s /\ Section(s)[2] = 0 /\ Section(s)[3] = ""
BY DEF Section

LEMMA FieldIs ==
  ASSUME NEW is, NEW vec, NEW i, NEW n
  PROVE  /\ Field(is, vec, i, n).is = is /\ Field(is, vec, i, n).vec = vec
         /\ Field(is, vec, i, n).of = i /\ Field(is, vec, i, n).n = n
BY DEF Field

LEMMA FieldType ==
  ASSUME NEW is \in Names, NEW vec \in Vecs, NEW i \in Nat, NEW n \in Nat
  PROVE  Field(is, vec, i, n) \in Elem
BY DEF Field, Elem

LEMMA NumberIs ==
  ASSUME NEW n \in Nat
  PROVE  Number(n) \in Elem /\ Number(n).n = n /\ Number(n).is = "number"
<1>1. Section("") \in Vecs
  BY VecIs
<1>2. "number" \in Names /\ 0 \in Nat
  BY DEF Names
<1>3. Field("number", Section(""), 0, n) \in Elem
  BY <1>1, <1>2, FieldType
<1>4. Field("number", Section(""), 0, n).n = n /\ Field("number", Section(""), 0, n).is = "number"
  BY DEF Field
<1> QED BY <1>3, <1>4 DEF Number

LEMMA PlainIs ==
  /\ Plain("block") \in Elem /\ Plain("mark") \in Elem /\ Plain("junk") \in Elem
  /\ Plain("start") \in Elem /\ Plain("key") \in Elem
  /\ Plain("block").is = "block" /\ Plain("mark").is = "mark" /\ Plain("junk").is = "junk"
  /\ Plain("start").is = "start"
<1>1. Section("") \in Vecs
  BY VecIs
<1>2. {"block", "mark", "junk", "start", "key"} \subseteq Names
  BY DEF Names
<1>3. ASSUME NEW is \in Names PROVE Plain(is) \in Elem /\ Plain(is).is = is
  <2>1. Field(is, Section(""), 0, 0) \in Elem
    BY <1>1, FieldType
  <2>2. Field(is, Section(""), 0, 0).is = is
    BY DEF Field
  <2> QED BY <2>1, <2>2 DEF Plain
<1> QED BY <1>2, <1>3

LEMMA OneIs ==
  ASSUME NEW x \in Elem
  PROVE  <<x>> \in Pieces /\ Len(<<x>>) = 1 /\ <<x>>[1] = x
BY DEF Pieces

LEMMA RunIs ==
  ASSUME NEW n \in Nat, NEW x, x = [k \in 1..n |-> x[k]], \A k \in 1..n : x[k] \in Elem
  PROVE  x \in Pieces /\ Len(x) = n
<1>1. x \in [1..n -> Elem]
  OBVIOUS
<1> HIDE DEF Elem
<1> QED BY <1>1 DEF Pieces

LEMMA BlocksIs ==
  ASSUME NEW n \in Nat
  PROVE  Blocks(n) \in Pieces /\ Len(Blocks(n)) = n /\ \A k \in 1..n : Blocks(n)[k] = Plain("block")
<1> DEFINE x == Blocks(n)
<1>1. x = [k \in 1..n |-> x[k]] /\ \A k \in 1..n : x[k] = Plain("block")
  BY DEF Blocks
<1> HIDE DEF x
<1>2. \A k \in 1..n : x[k] \in Elem
  BY <1>1, PlainIs
<1> QED BY <1>1, <1>2, RunIs DEF x

LEMMA MarksIs ==
  ASSUME NEW n \in Nat
  PROVE  Marks(n) \in Pieces /\ Len(Marks(n)) = n /\ \A k \in 1..n : Marks(n)[k] = Plain("mark")
<1> DEFINE x == Marks(n)
<1>1. x = [k \in 1..n |-> x[k]] /\ \A k \in 1..n : x[k] = Plain("mark")
  BY DEF Marks
<1> HIDE DEF x
<1>2. \A k \in 1..n : x[k] \in Elem
  BY <1>1, PlainIs
<1> QED BY <1>1, <1>2, RunIs DEF x

LEMMA ManyIs ==
  ASSUME NEW n \in Nat, NEW vec \in Vecs, NEW is \in Names
  PROVE  /\ Many(vec, is, n) \in Pieces /\ Len(Many(vec, is, n)) = n
         /\ \A k \in 1..n : Many(vec, is, n)[k] = Field(is, vec, k, 0)
<1> DEFINE x == Many(vec, is, n)
<1>1. x = [k \in 1..n |-> x[k]] /\ \A k \in 1..n : x[k] = Field(is, vec, k, 0)
  BY DEF Many
<1> HIDE DEF x
<1>2. \A k \in 1..n : k \in Nat
  OBVIOUS
<1>3. \A k \in 1..n : x[k] \in Elem
  BY <1>1, <1>2, FieldType
<1> QED BY <1>1, <1>3, RunIs DEF x

LEMMA FieldsIs ==
  ASSUME NEW vec \in Vecs, NEW i \in Nat, NEW names \in Seq(Names)
  PROVE  /\ Fields(vec, i, names) \in Pieces /\ Len(Fields(vec, i, names)) = Len(names)
         /\ Len(names) \in Nat /\ DOMAIN names = 1..Len(names)
         /\ \A k \in 1..Len(names) : names[k] \in Names /\ Fields(vec, i, names)[k] = Field(names[k], vec, i, 0)
<1> DEFINE x == Fields(vec, i, names)
           n == Len(names)
<1>1. n \in Nat /\ DOMAIN names = 1..n /\ \A k \in 1..n : names[k] \in Names
  OBVIOUS
<1>2. x = [k \in 1..n |-> x[k]] /\ \A k \in 1..n : x[k] = Field(names[k], vec, i, 0)
  BY <1>1 DEF Fields
<1> HIDE DEF x, n
<1>3. \A k \in 1..n : x[k] \in Elem
  BY <1>1, <1>2, FieldType
<1> QED BY <1>1, <1>2, <1>3, RunIs DEF x, n

LEMMA SizedIs ==
  ASSUME NEW x \in Pieces
  PROVE  Sized(x) \in Pieces /\ Len(Sized(x)) = 1 + Len(x) /\ Len(x) \in Nat
         /\ Sized(x) = <<Number(Len(x))>> ++ x /\ Number(Len(x)) \in Elem
<1>1. Len(x) \in Nat
  BY DEF Pieces
<1>2. Number(Len(x)) \in Elem
  BY <1>1, NumberIs
<1>3. <<Number(Len(x))>> \in Pieces /\ Len(<<Number(Len(x))>>) = 1
  BY <1>2, OneIs
<1> QED BY <1>1, <1>2, <1>3, ConcatIs DEF Sized, ++

LEMMA KeysIs ==
  ASSUME NEW n \in Nat, NEW vec \in Vecs
  PROVE  /\ Keys(vec, n) \in Pieces /\ Len(Keys(vec, n)) = 2 * n
         /\ \A k \in 1..n : Keys(vec, n)[k] = Field("key", vec, k, 0)
<1> DEFINE a == Many(vec, "key", n)
           b == Blocks(n)
<1>1. a \in Pieces /\ Len(a) = n /\ b \in Pieces /\ Len(b) = n /\ \A k \in 1..n : a[k] = Field("key", vec, k, 0)
  <2>1. "key" \in Names
    BY DEF Names
  <2>2. a \in Pieces /\ Len(a) = n /\ \A k \in 1..n : a[k] = Field("key", vec, k, 0)
    BY <2>1, ManyIs
  <2>3. b \in Pieces /\ Len(b) = n
    BY BlocksIs
  <2> QED BY <2>2, <2>3
<1> HIDE DEF a, b
<1>2. Keys(vec, n) = a ++ b
  BY DEF Keys, ++, a, b
<1>3. n + n = 2 * n
  OBVIOUS
<1>4. /\ a ++ b \in Pieces /\ Len(a ++ b) = Len(a) + Len(b)
      /\ \A k \in 1..Len(a) : (a ++ b)[k] = a[k]
  <2>1. a \in Pieces /\ b \in Pieces
    BY <1>1
  <2> QED BY <2>1, ConcatIs
<1> QED BY <1>1, <1>2, <1>3, <1>4

-----------------------------------------------------------------------------
(* Concatenations from the right.                                          *)
LEMMA Right2 ==
  ASSUME NEW a \in Pieces, NEW b \in Pieces, NEW r \in Pieces
  PROVE  /\ (a ++ b) \in Pieces /\ b ++ r \in Pieces
         /\ (a ++ b) ++ r = a ++ (b ++ r)
BY Assoc, ConcatIs

LEMMA Right3 ==
  ASSUME NEW a \in Pieces, NEW b \in Pieces, NEW c \in Pieces, NEW r \in Pieces
  PROVE  /\ a ++ b ++ c \in Pieces /\ c ++ r \in Pieces /\ b ++ (c ++ r) \in Pieces
         /\ (a ++ b ++ c) ++ r = a ++ (b ++ (c ++ r))
<1>1. a ++ b \in Pieces /\ c ++ r \in Pieces
  BY ConcatIs
<1>2. ((a ++ b) ++ c) ++ r = (a ++ b) ++ (c ++ r)
  BY <1>1, Assoc
<1>3. (a ++ b) ++ (c ++ r) = a ++ (b ++ (c ++ r))
  BY <1>1, Assoc
<1> QED BY <1>1, <1>2, <1>3, ConcatIs

LEMMA Right4 ==
  ASSUME NEW a \in Pieces, NEW b \in Pieces, NEW c \in Pieces, NEW d \in Pieces, NEW r \in Pieces
  PROVE  /\ a ++ b ++ c ++ d \in Pieces /\ d ++ r \in Pieces /\ c ++ (d ++ r) \in Pieces
         /\ b ++ (c ++ (d ++ r)) \in Pieces
         /\ (a ++ b ++ c ++ d) ++ r = a ++ (b ++ (c ++ (d ++ r)))
<1>1. a ++ b ++ c \in Pieces /\ d ++ r \in Pieces
  BY ConcatIs
<1>2. ((a ++ b ++ c) ++ d) ++ r = (a ++ b ++ c) ++ (d ++ r)
  BY <1>1, Assoc
<1>3. (a ++ b ++ c) ++ (d ++ r) = a ++ (b ++ (c ++ (d ++ r)))
  BY <1>1, Right3
<1> QED BY <1>1, <1>2, <1>3, ConcatIs

-----------------------------------------------------------------------------
(* Reading a file from q on.                                               *)
LEMMA CutStep ==
  ASSUME NEW f \in Pieces, NEW q, NEW a \in Pieces, NEW r \in Pieces, CutAt(f, q, a ++ r)
  PROVE  /\ Len(f) \in Nat /\ Len(a) \in Nat /\ q \in Nat \ {0} /\ q + Len(a) \in 1..(Len(f) + 1)
         /\ CutAt(f, q + Len(a), r)
         /\ \A k \in 1..Len(a) : (q + k) - 1 \in 1..Len(f) /\ f[(q + k) - 1] = a[k]
<1>1. /\ a ++ r \in Pieces /\ Len(a ++ r) = Len(a) + Len(r) /\ Len(a) \in Nat /\ Len(r) \in Nat
      /\ \A k \in 1..Len(a) : (a ++ r)[k] = a[k]
      /\ \A k \in 1..Len(r) : (a ++ r)[Len(a) + k] = r[k]
  BY ConcatIs
<1> DEFINE s == a ++ r
<1>2. q \in 1..(Len(f) + 1) /\ s = SubSeq(f, q, Len(f))
  BY DEF CutAt
<1> HIDE DEF s
<1>3. /\ Len(f) \in Nat /\ Len(s) = (Len(f) - q) + 1
      /\ \A i \in 1..((Len(f) - q) + 1) : s[i] = f[(q + i) - 1]
  BY <1>2, SubSeqIs DEF Pieces
<1>4. Len(s) = Len(a) + Len(r)
  BY <1>1 DEF s
<1>5. q + Len(a) \in 1..(Len(f) + 1) /\ (Len(f) - (q + Len(a))) + 1 = Len(r)
  <2>1. \A n, l, m \in Nat : q \in 1..(n + 1) /\ (n - q) + 1 = l + m =>
          q + l \in 1..(n + 1) /\ (n - (q + l)) + 1 = m
    OBVIOUS
  <2>2. Len(a) \in Nat /\ Len(r) \in Nat
    BY <1>1
  <2>3. (Len(f) - q) + 1 = Len(a) + Len(r)
    BY <1>3, <1>4
  <2> QED BY <1>2, <1>3, <2>1, <2>2, <2>3
<1>6. ASSUME NEW k \in 1..Len(a)
      PROVE  (q + k) - 1 \in 1..Len(f) /\ f[(q + k) - 1] = a[k]
  <2>1. k \in 1..((Len(f) - q) + 1) /\ (q + k) - 1 \in 1..Len(f)
    BY <1>1, <1>2, <1>3, <1>4
  <2>2. s[k] = a[k]
    BY <1>1 DEF s
  <2> QED BY <1>3, <2>1, <2>2
<1>7. r = SubSeq(f, q + Len(a), Len(f))
  <2> DEFINE t == SubSeq(f, q + Len(a), Len(f))
  <2>1. /\ t \in Pieces /\ Len(t) = Len(r)
        /\ \A i \in 1..Len(r) : t[i] = f[((q + Len(a)) + i) - 1]
    BY <1>5, SubSeqIs DEF Pieces
  <2> HIDE DEF t
  <2>2. ASSUME NEW i \in 1..Len(r) PROVE t[i] = r[i]
    <3>1. Len(a) + i \in 1..((Len(f) - q) + 1) /\ (q + (Len(a) + i)) - 1 = ((q + Len(a)) + i) - 1
      BY <1>1, <1>2, <1>3, <1>4
    <3>2. s[Len(a) + i] = r[i]
      BY <1>1 DEF s
    <3>3. s[Len(a) + i] = f[(q + (Len(a) + i)) - 1]
      BY <1>3, <3>1
    <3> QED BY <2>1, <3>1, <3>2, <3>3
  <2>3. t = r
    BY <2>1, <2>2, SameSeq
  <2> QED BY <2>3 DEF t
<1> QED BY <1>1, <1>2, <1>3, <1>5, <1>6, <1>7 DEF CutAt

LEMMA CutOne ==
  ASSUME NEW f \in Pieces, NEW q, NEW x \in Elem, NEW r \in Pieces, CutAt(f, q, <<x>> ++ r)
  PROVE  /\ Len(f) \in Nat /\ q \in 1..Len(f) /\ f[q] = x
         /\ q + 1 \in 1..(Len(f) + 1) /\ CutAt(f, q + 1, r)
<1>1. <<x>> \in Pieces /\ Len(<<x>>) = 1 /\ <<x>>[1] = x
  BY OneIs
<1> DEFINE a == <<x>>
<1> HIDE DEF a
<1>2. a \in Pieces /\ Len(a) = 1 /\ a[1] = x /\ CutAt(f, q, a ++ r)
  BY <1>1 DEF a
<1>3. /\ Len(f) \in Nat /\ q \in Nat \ {0} /\ q + Len(a) \in 1..(Len(f) + 1) /\ CutAt(f, q + Len(a), r)
      /\ \A k \in 1..Len(a) : (q + k) - 1 \in 1..Len(f) /\ f[(q + k) - 1] = a[k]
  BY <1>2, CutStep
<1>4. (q + 1) - 1 = q /\ 1 \in 1..Len(a)
  BY <1>2, <1>3
<1> QED BY <1>2, <1>3, <1>4

(* A block with its length in front.                                       *)
LEMMA CutSized ==
  ASSUME NEW f \in Pieces, NEW q, NEW x \in Pieces, NEW r \in Pieces, CutAt(f, q, Sized(x) ++ r)
  PROVE  /\ Len(f) \in Nat /\ q \in 1..Len(f) /\ f[q].n = Len(x) /\ Len(x) \in Nat
         /\ q + 1 \in 1..(Len(f) + 1) /\ CutAt(f, q + 1, x ++ r)
         /\ (q + 1) + Len(x) \in 1..(Len(f) + 1) /\ CutAt(f, (q + 1) + Len(x), r)
<1>1. Len(x) \in Nat /\ Number(Len(x)) \in Elem /\ Sized(x) = <<Number(Len(x))>> ++ x
  BY SizedIs
<1>2. <<Number(Len(x))>> \in Pieces
  BY <1>1, OneIs
<1>3. Sized(x) ++ r = <<Number(Len(x))>> ++ (x ++ r) /\ x ++ r \in Pieces
  BY <1>1, <1>2, Right2
<1>4. /\ Len(f) \in Nat /\ q \in 1..Len(f) /\ f[q] = Number(Len(x))
      /\ q + 1 \in 1..(Len(f) + 1) /\ CutAt(f, q + 1, x ++ r)
  BY <1>1, <1>3, CutOne
<1>5. (q + 1) + Len(x) \in 1..(Len(f) + 1) /\ CutAt(f, (q + 1) + Len(x), r)
  BY <1>4, CutStep
<1>6. f[q].n = Len(x)
  BY <1>1, <1>4, NumberIs
<1> QED BY <1>1, <1>4, <1>5, <1>6

-----------------------------------------------------------------------------
(* Programs and the sizes of their vectors.                                *)
LEMMA ContentsIs ==
  ASSUME NEW p, IsContents(p)
  PROVE  /\ p.pad \in Nat /\ p.libraries \in Nat /\ p.globals \in Nat
         /\ \A s \in {"modules", "subs", "structs", "dlls"} :
              Len(p[s]) \in Nat /\ DOMAIN p[s] = 1..Len(p[s]) /\ \A i \in 1..Len(p[s]) : p[s][i] \in Nat
         /\ Len(p.windows) \in Nat /\ DOMAIN p.windows = 1..Len(p.windows)
         /\ \A i \in 1..Len(p.windows) : p.windows[i] \in 0..7
         /\ Len(p.constants) \in Nat /\ DOMAIN p.constants = 1..Len(p.constants)
         /\ \A i \in 1..Len(p.constants) : p.constants[i] \in {0, 59} \cup 22..26
<1>1. /\ p.pad \in Nat /\ p.libraries \in Nat /\ p.globals \in Nat
      /\ p.modules \in Seq(Nat) /\ p.subs \in Seq(Nat) /\ p.structs \in Seq(Nat) /\ p.dlls \in Seq(Nat)
      /\ p.windows \in Seq(0..7) /\ p.constants \in Seq({0, 59} \cup 22..26)
  BY DEF IsContents
<1>2. \A q \in Seq(Nat) : Len(q) \in Nat /\ DOMAIN q = 1..Len(q) /\ \A i \in 1..Len(q) : q[i] \in Nat
  OBVIOUS
<1>3. \A s \in {"modules", "subs", "structs", "dlls"} : p[s] \in Seq(Nat)
  BY <1>1
<1>5. /\ Len(p.windows) \in Nat /\ DOMAIN p.windows = 1..Len(p.windows)
      /\ \A i \in 1..Len(p.windows) : p.windows[i] \in 0..7
  <2>1. \A q \in Seq(0..7) : Len(q) \in Nat /\ DOMAIN q = 1..Len(q) /\ \A i \in 1..Len(q) : q[i] \in 0..7
    OBVIOUS
  <2> QED BY <1>1, <2>1
<1>6. /\ Len(p.constants) \in Nat /\ DOMAIN p.constants = 1..Len(p.constants)
      /\ \A i \in 1..Len(p.constants) : p.constants[i] \in {0, 59} \cup 22..26
  <2> DEFINE T == {0, 59} \cup 22..26
  <2>1. p.constants \in Seq(T)
    BY <1>1
  <2> HIDE DEF T
  <2>2. Len(p.constants) \in Nat /\ DOMAIN p.constants = 1..Len(p.constants)
        /\ \A i \in 1..Len(p.constants) : p.constants[i] \in T
    BY <2>1
  <2> QED BY <2>2 DEF T
<1> QED BY <1>1, <1>2, <1>3, <1>5, <1>6

LEMMA ProgramIs ==
  ASSUME NEW p, IsProgram(p)
  PROVE  /\ p.segments \in Seq(0..9) /\ Len(p.segments) \in Nat /\ DOMAIN p.segments = 1..Len(p.segments)
         /\ \A k \in 1..Len(p.segments) : p.segments[k] \in 0..9 /\ IsContents(p.contents[k])
<1>1. p.segments \in Seq(0..9) /\ \A k \in DOMAIN p.segments : IsContents(p.contents[k])
  BY DEF IsProgram
<1>2. Len(p.segments) \in Nat /\ DOMAIN p.segments = 1..Len(p.segments)
      /\ \A k \in 1..Len(p.segments) : p.segments[k] \in 0..9
  BY <1>1
<1> QED BY <1>1, <1>2

LEMMA KindsIs ==
  ASSUME NEW p, IsContents(p), NEW s \in Kinds
  PROVE  Len(p[s]) \in Nat /\ DOMAIN p[s] = 1..Len(p[s])
<1>1. \/ s \in {"modules", "subs", "structs", "dlls"}
      \/ s = "windows" \/ s = "constants"
  BY DEF Kinds
<1>2. CASE s \in {"modules", "subs", "structs", "dlls"}
  BY <1>2, ContentsIs
<1>3. CASE s = "windows"
  BY <1>3, ContentsIs
<1>4. CASE s = "constants"
  BY <1>4, ContentsIs
<1> QED BY <1>1, <1>2, <1>3, <1>4

(* The lists of the elements of a section.                                 *)
LEMMA ListNamesIs ==
  /\ ListNames("modules") = <<"include", "vars">>
  /\ ListNames("subs") = <<"locals", "params", "code">>
  /\ ListNames("structs") = <<"members">> /\ ListNames("dlls") = <<"params">>
  /\ ListNames("windows") = <<>> /\ ListNames("constants") = <<>>
BY DEF ListNames

LEMMA ListsOfIs ==
  /\ ListsOf("modules") = {"include", "vars"}
  /\ ListsOf("subs") = {"locals", "params", "code"}
  /\ ListsOf("structs") = {"members"} /\ ListsOf("dlls") = {"params"}
  /\ ListsOf("windows") = {} /\ ListsOf("constants") = {}
<1>1. Len(<<"include", "vars">>) = 2 /\ Len(<<"locals", "params", "code">>) = 3
      /\ Len(<<"members">>) = 1 /\ Len(<<"params">>) = 1 /\ Len(<<>>) = 0
  OBVIOUS
<1>2. 1..2 = {1, 2} /\ 1..3 = {1, 2, 3} /\ 1..1 = {1} /\ 1..0 = {}
  OBVIOUS
<1>3. ListsOf("modules") = {"include", "vars"}
  BY <1>1, <1>2, ListNamesIs DEF ListsOf
<1>4. ListsOf("subs") = {"locals", "params", "code"}
  BY <1>1, <1>2, ListNamesIs DEF ListsOf
<1>5. ListsOf("structs") = {"members"} /\ ListsOf("dlls") = {"params"}
  BY <1>1, <1>2, ListNamesIs DEF ListsOf
<1>6. ListsOf("windows") = {} /\ ListsOf("constants") = {}
  BY <1>1, <1>2, ListNamesIs DEF ListsOf
<1> QED BY <1>3, <1>4, <1>5, <1>6

LEMMA ListIs ==
  ASSUME NEW s \in Kinds, NEW list \in ListsOf(s)
  PROVE  /\ s \in {"modules", "subs", "structs", "dlls"}
         /\ list \in {"include", "vars", "locals", "params", "code", "members"} /\ list # ""
         /\ list = "include" => s = "modules"
         /\ list = "code" => s = "subs"
         /\ list \notin {"include", "code"} => list \in VarLists
         /\ list \in VarLists => list \notin {"include", "code"}
<1>1. s \in {"modules", "subs", "structs", "dlls", "windows", "constants"}
  BY DEF Kinds
<1> QED BY <1>1, ListsOfIs DEF VarLists

LEMMA VecType ==
  ASSUME NEW p, IsContents(p), NEW vec, IsVec(p, vec)
  PROVE  vec \in Vecs
<1>1. ASSUME NEW s \in Kinds \cup {"info", "libraries", "globals"}, vec = Section(s)
      PROVE  vec \in Vecs
  <2>1. s \in {"", "info", "libraries", "modules", "subs", "globals", "structs", "dlls",
                      "windows", "constants"}
    BY DEF Kinds
  <2>2. 0 \in Nat
    OBVIOUS
  <2> QED BY <1>1, <2>1, <2>2, VecIs
<1>2. ASSUME NEW s \in Kinds, NEW i \in 1..Len(p[s]), NEW list \in ListsOf(s), vec = <<s, i, list>>
      PROVE  vec \in Vecs
  <2>1. s \in {"modules", "subs", "structs", "dlls", "windows", "constants"} /\ i \in Nat
    BY KindsIs DEF Kinds
  <2>2. list \in {"vars", "locals", "params", "members", "include", "code"}
    BY ListIs
  <2> QED BY <1>2, <2>1, <2>2, VecIs
<1> QED BY <1>1, <1>2 DEF IsVec

LEMMA CountIs ==
  ASSUME NEW p, IsContents(p)
  PROVE  /\ Count(p, "info") = 1
         /\ Count(p, "libraries") = p.libraries /\ Count(p, "globals") = p.globals
         /\ \A s \in Kinds : Count(p, s) = Len(p[s])
<1>1. \A s \in Kinds : s # "info" /\ s # "libraries" /\ s # "globals"
  BY DEF Kinds
<1>2. \A s \in Kinds : Count(p, s) = Len(p[s])
  BY <1>1 DEF Count
<1> QED BY <1>2 DEF Count

LEMMA SizeIs ==
  ASSUME NEW p, IsContents(p)
  PROVE  /\ \A s \in Kinds : Size(p, Section(s)) = Len(p[s])
         /\ Size(p, Section("info")) = 1
         /\ Size(p, Section("libraries")) = p.libraries /\ Size(p, Section("globals")) = p.globals
<1>1. \A s : Size(p, Section(s)) = Count(p, s)
  BY SectionIs DEF Size
<1> QED BY <1>1, CountIs

LEMMA ListSize ==
  ASSUME NEW p, IsContents(p), NEW s \in Kinds, NEW i, NEW list \in ListsOf(s)
  PROVE  Size(p, <<s, i, list>>) = IF list = "code" THEN 6
                                   ELSE IF s = "subs" /\ list = "params" THEN 1 ELSE p[s][i]
<1>1. <<s, i, list>>[1] = s /\ <<s, i, list>>[2] = i /\ <<s, i, list>>[3] = list
  OBVIOUS
<1>2. list # ""
  BY ListIs
<1> DEFINE v == <<s, i, list>>
<1> HIDE DEF v
<1>3. v[1] = s /\ v[2] = i /\ v[3] = list
  BY <1>1 DEF v
<1>4. Size(p, v) = IF list = "code" THEN 6
                                   ELSE IF s = "subs" /\ list = "params" THEN 1 ELSE p[s][i]
  BY <1>2, <1>3 DEF Size
<1> QED BY <1>4 DEF v

LEMMA SizeType ==
  ASSUME NEW p, IsContents(p), NEW vec, IsVec(p, vec)
  PROVE  Size(p, vec) \in Nat
<1>1. ASSUME NEW s \in Kinds \cup {"info", "libraries", "globals"}, vec = Section(s)
      PROVE  Size(p, vec) \in Nat
  <2>1. CASE s \in Kinds
    BY <1>1, <2>1, SizeIs, KindsIs
  <2>2. CASE s \in {"info", "libraries", "globals"}
    <3>1. p.libraries \in Nat /\ p.globals \in Nat /\ 1 \in Nat
      BY ContentsIs
    <3> QED BY <1>1, <2>2, <3>1, SizeIs
  <2> QED BY <2>1, <2>2
<1>2. ASSUME NEW s \in Kinds, NEW i \in 1..Len(p[s]), NEW list \in ListsOf(s), vec = <<s, i, list>>
      PROVE  Size(p, vec) \in Nat
  <2>1. p[s][i] \in Nat
    BY ListIs, ContentsIs
  <2>2. Size(p, <<s, i, list>>) \in {6, 1, p[s][i]}
    BY ListSize
  <2> QED BY <1>2, <2>1, <2>2
<1> QED BY <1>1, <1>2 DEF IsVec

-----------------------------------------------------------------------------
(* What is written, piece by piece.                                        *)
VarBody(vec, i, pad) ==
  Fields(vec, i, <<"type", "property">>) ++ Sized(Blocks(i - 1))
  ++ Fields(vec, i, <<"name", "comment">>) ++ Blocks(pad)

LEMMA PairIs ==
  ASSUME NEW a \in Names, NEW b \in Names
  PROVE  <<a, b>> \in Seq(Names) /\ Len(<<a, b>>) = 2 /\ <<a, b>>[1] = a /\ <<a, b>>[2] = b
OBVIOUS

LEMMA VarPairs ==
  /\ <<"type", "property">> \in Seq(Names) /\ Len(<<"type", "property">>) = 2
  /\ <<"name", "comment">> \in Seq(Names) /\ Len(<<"name", "comment">>) = 2
<1>1. "type" \in Names /\ "property" \in Names /\ "name" \in Names /\ "comment" \in Names
  BY DEF Names
<1> QED BY <1>1, PairIs

LEMMA VarIs ==
  ASSUME NEW vec \in Vecs, NEW i \in Nat \ {0}, NEW pad \in Nat
  PROVE  /\ Fields(vec, i, <<"type", "property">>) \in Pieces /\ Sized(Blocks(i - 1)) \in Pieces
         /\ Fields(vec, i, <<"name", "comment">>) \in Pieces /\ Blocks(pad) \in Pieces
         /\ Blocks(i - 1) \in Pieces
         /\ Len(Fields(vec, i, <<"type", "property">>)) = 2
         /\ VarBody(vec, i, pad) \in Pieces
         /\ VarWritten(vec, i, pad) = Sized(VarBody(vec, i, pad)) /\ VarWritten(vec, i, pad) \in Pieces
<1>1. i \in Nat /\ i - 1 \in Nat
  OBVIOUS
<1>2. Blocks(pad) \in Pieces /\ Blocks(i - 1) \in Pieces
  BY <1>1, BlocksIs
<1>3. Sized(Blocks(i - 1)) \in Pieces
  BY <1>2, SizedIs
<1>4. /\ Fields(vec, i, <<"type", "property">>) \in Pieces
      /\ Len(Fields(vec, i, <<"type", "property">>)) = 2
      /\ Fields(vec, i, <<"name", "comment">>) \in Pieces
  BY <1>1, VarPairs, FieldsIs
<1>5. VarBody(vec, i, pad) \in Pieces
  BY <1>2, <1>3, <1>4, ConcatIs DEF VarBody
<1>6. VarWritten(vec, i, pad) = Sized(VarBody(vec, i, pad))
  BY DEF VarWritten, VarBody, ++
<1> QED BY <1>1, <1>2, <1>3, <1>4, <1>5, <1>6, SizedIs

(* A list of variables: the count, its bytes, the keys, and one after the  *)
(* other.                                                                  *)
VarSeq(vec, n, pad) == [i \in 1..n |-> VarWritten(vec, i, pad)]
VarsLoop(vec, n, pad) == FlattenSeq(VarSeq(vec, n, pad)) ++ Blocks(pad)

LEMMA SeqIs ==
  ASSUME NEW n \in Nat, NEW x, x = [k \in 1..n |-> x[k]], \A k \in 1..n : x[k] \in Pieces
  PROVE  x \in Seq(Pieces) /\ Len(x) = n
<1>1. x \in [1..n -> Pieces]
  OBVIOUS
<1> QED BY <1>1

LEMMA VarSeqIs ==
  ASSUME NEW vec \in Vecs, NEW n \in Nat, NEW pad \in Nat
  PROVE  /\ VarSeq(vec, n, pad) \in Seq(Pieces) /\ Len(VarSeq(vec, n, pad)) = n
         /\ \A i \in 1..n : VarSeq(vec, n, pad)[i] = VarWritten(vec, i, pad)
<1> DEFINE x == VarSeq(vec, n, pad)
<1>1. x = [i \in 1..n |-> x[i]] /\ \A i \in 1..n : x[i] = VarWritten(vec, i, pad)
  BY DEF VarSeq
<1>2. \A i \in 1..n : i \in Nat \ {0}
  OBVIOUS
<1>3. \A i \in 1..n : x[i] \in Pieces
  BY <1>1, <1>2, VarIs
<1> HIDE DEF x
<1>4. x \in Seq(Pieces) /\ Len(x) = n
  BY <1>1, <1>3, SeqIs
<1> QED BY <1>1, <1>4 DEF x

LEMMA VarsIs ==
  ASSUME NEW vec \in Vecs, NEW n \in Nat, NEW pad \in Nat
  PROVE  /\ VarsLoop(vec, n, pad) \in Pieces /\ Keys(vec, n) \in Pieces
         /\ Keys(vec, n) ++ VarsLoop(vec, n, pad) \in Pieces
         /\ VarsWritten(vec, n, pad)
              = <<Number(n)>> ++ Sized(Keys(vec, n) ++ VarsLoop(vec, n, pad))
         /\ Number(n) \in Elem /\ <<Number(n)>> \in Pieces
         /\ Sized(Keys(vec, n) ++ VarsLoop(vec, n, pad)) \in Pieces
         /\ VarsWritten(vec, n, pad) \in Pieces
<1> DEFINE k == Keys(vec, n)
           v == FlattenSeq(VarSeq(vec, n, pad))
           b == Blocks(pad)
<1>1. k \in Pieces /\ b \in Pieces
  BY KeysIs, BlocksIs
<1>2. v \in Pieces
  BY VarSeqIs, FlattenType
<1>3. Number(n) \in Elem
  BY NumberIs
<1>4. <<Number(n)>> \in Pieces
  BY <1>3, OneIs
<1>5. VarsWritten(vec, n, pad) = <<Number(n)>> ++ Sized((k ++ v) ++ b)
  BY DEF VarsWritten, ++, VarSeq
<1>6. VarsLoop(vec, n, pad) = v ++ b
  BY DEF VarsLoop
<1> HIDE DEF k, v, b
<1>7. (k ++ v) ++ b = k ++ (v ++ b) /\ v ++ b \in Pieces /\ k ++ (v ++ b) \in Pieces
  BY <1>1, <1>2, Assoc, ConcatIs
<1>8. Sized(k ++ (v ++ b)) \in Pieces
  BY <1>7, SizedIs
<1>9. <<Number(n)>> ++ Sized(k ++ (v ++ b)) \in Pieces
  BY <1>4, <1>8, ConcatIs
<1> QED BY <1>1, <1>3, <1>4, <1>5, <1>6, <1>7, <1>8, <1>9 DEF k

-----------------------------------------------------------------------------
(* Tails of sequences.                                                     *)
LEMMA TailsIs ==
  ASSUME NEW E, NEW q \in Seq(E)
  PROVE  /\ q \in TailsOf(q) /\ <<>> \in TailsOf(q) /\ Len(q) \in Nat
         /\ \A t \in TailsOf(q) :
              /\ t \in Seq(E) /\ Len(t) \in 0..Len(q)
              /\ \A j \in 1..Len(t) : t[j] = q[(Len(q) - Len(t)) + j]
              /\ t # <<>> => /\ t[1] = q[(Len(q) - Len(t)) + 1] /\ t[1] \in E
                             /\ Tail(t) \in TailsOf(q) /\ Tail(t) \in Seq(E) /\ Len(Tail(t)) = Len(t) - 1
                             /\ Len(t) \in Nat \ {0}
<1>1. Len(q) \in Nat /\ SubSeq(q, 1, Len(q)) = q /\ SubSeq(q, Len(q) + 1, Len(q)) = <<>>
      /\ 1 \in 1..(Len(q) + 1) /\ Len(q) + 1 \in 1..(Len(q) + 1)
  OBVIOUS
<1>2. q \in TailsOf(q) /\ <<>> \in TailsOf(q)
  BY <1>1 DEF TailsOf
<1>3. ASSUME NEW t \in TailsOf(q)
      PROVE  /\ t \in Seq(E) /\ Len(t) \in 0..Len(q)
             /\ \A j \in 1..Len(t) : t[j] = q[(Len(q) - Len(t)) + j]
             /\ t # <<>> => /\ t[1] = q[(Len(q) - Len(t)) + 1] /\ t[1] \in E
                            /\ Tail(t) \in TailsOf(q) /\ Tail(t) \in Seq(E) /\ Len(Tail(t)) = Len(t) - 1
                            /\ Len(t) \in Nat \ {0}
  <2>1. PICK k \in 1..(Len(q) + 1) : t = SubSeq(q, k, Len(q))
    BY DEF TailsOf
  <2>2. /\ t \in Seq(E) /\ Len(t) = (Len(q) - k) + 1
        /\ \A i \in 1..((Len(q) - k) + 1) : t[i] = q[(k + i) - 1]
    BY <2>1, SubSeqIs
  <2>3. \A j \in 1..Len(t) : t[j] = q[(Len(q) - Len(t)) + j]
    <3> SUFFICES ASSUME NEW j \in 1..Len(t) PROVE t[j] = q[(Len(q) - Len(t)) + j]
      OBVIOUS
    <3>1. (k + j) - 1 = (Len(q) - Len(t)) + j /\ j \in 1..((Len(q) - k) + 1)
      BY <1>1, <2>2
    <3> QED BY <2>2, <3>1
  <2>4. Len(t) \in 0..Len(q)
    BY <1>1, <2>2
  <2>5. ASSUME t # <<>>
        PROVE  /\ t[1] = q[(Len(q) - Len(t)) + 1] /\ t[1] \in E
               /\ Tail(t) \in TailsOf(q) /\ Tail(t) \in Seq(E) /\ Len(Tail(t)) = Len(t) - 1
               /\ Len(t) \in Nat \ {0}
    <3>1. /\ t[1] \in E /\ Tail(t) \in Seq(E) /\ Len(Tail(t)) = Len(t) - 1 /\ Len(t) \in Nat \ {0}
          /\ 1 \in 1..Len(t)
      BY <2>2, <2>5
    <3>2. k \in 1..Len(q) /\ k + 1 \in 1..(Len(q) + 1)
      BY <1>1, <2>2, <3>1
    <3>3. Tail(t) = SubSeq(q, k + 1, Len(q))
      BY <2>1, <3>2, SubSeqTail
    <3>4. Tail(t) \in TailsOf(q)
      BY <3>2, <3>3 DEF TailsOf
    <3> QED BY <2>3, <3>1, <3>4
  <2> QED BY <2>2, <2>3, <2>4, <2>5
<1> QED BY <1>1, <1>2, <1>3

LEMMA TailSame ==
  ASSUME NEW E, NEW x \in Seq(E), NEW y, x # <<>>, y = [j \in 1..(Len(x) - 1) |-> y[j]],
         \A j \in 1..(Len(x) - 1) : y[j] = x[j + 1]
  PROVE  Tail(x) = y
<1>1. \A t \in Seq(E) : t = [j \in 1..Len(t) |-> t[j]]
  OBVIOUS
<1>2. Tail(x) \in Seq(E) /\ Len(Tail(x)) = Len(x) - 1 /\ \A j \in 1..(Len(x) - 1) : Tail(x)[j] = x[j + 1]
  OBVIOUS
<1> DEFINE t == Tail(x)
<1> HIDE DEF t
<1>3. t = [j \in 1..(Len(x) - 1) |-> t[j]] /\ \A j \in 1..(Len(x) - 1) : t[j] = x[j + 1]
  BY <1>1, <1>2 DEF t
<1>4. t = y
  BY <1>3
<1> QED BY <1>4 DEF t

(* A list of a record.                                                     *)
LEMMA ListType ==
  ASSUME NEW p, IsContents(p), NEW s \in Kinds, NEW i \in 1..Len(p[s]), NEW list \in ListsOf(s)
  PROVE  ListWritten(p, s, i, list) \in Pieces
<1> DEFINE vec == <<s, i, list>>
<1>1. IsVec(p, vec)
  BY DEF IsVec
<1> HIDE DEF vec
<1>2. vec \in Vecs /\ Size(p, vec) \in Nat
  BY <1>1, VecType, SizeType
<1>3. CASE list = "include"
  <2>1. p.modules[i] \in Nat
    BY <1>3, ListIs, ContentsIs
  <2>2. <<Number(4 * p.modules[i])>> \in Pieces
    BY <2>1, NumberIs, OneIs
  <2>3. Many(vec, "include", p.modules[i]) \in Pieces
    BY <1>2, <2>1, ManyIs DEF Names
  <2>4. ListWritten(p, s, i, list) = <<Number(4 * p.modules[i])>> ++ Many(vec, "include", p.modules[i])
    BY <1>3 DEF ListWritten, vec, ++
  <2> QED BY <2>2, <2>3, <2>4, ConcatIs
<1>4. CASE list = "code"
  <2>1. "code" \in Names /\ 6 \in Nat
    BY DEF Names
  <2>2. \A n \in Nat : Many(vec, "code", n) \in Pieces
    BY <1>2, <2>1, ManyIs
  <2>3. ListWritten(p, s, i, list) = Many(vec, "code", 6)
    BY <1>4 DEF ListWritten, vec
  <2> QED BY <2>1, <2>2, <2>3
<1>5. CASE list \notin {"include", "code"}
  <2>1. ListWritten(p, s, i, list) = VarsWritten(vec, Size(p, vec), p.pad)
    BY <1>5 DEF ListWritten, vec
  <2> QED BY <1>2, <2>1, VarsIs, ContentsIs
<1> QED BY <1>3, <1>4, <1>5

LEMMA ListNamesType ==
  ASSUME NEW s \in Kinds
  PROVE  ListNames(s) \in Seq(ListsOf(s)) /\ Len(ListNames(s)) \in Nat
<1>1. /\ <<"include", "vars">> \in Seq({"include", "vars"})
      /\ <<"locals", "params", "code">> \in Seq({"locals", "params", "code"})
      /\ <<"members">> \in Seq({"members"}) /\ <<"params">> \in Seq({"params"})
  OBVIOUS
<1>2. \A T : <<>> \in Seq(T)
  OBVIOUS
<1>3. s \in {"modules", "subs", "structs", "dlls", "windows", "constants"}
  BY DEF Kinds
<1>4. ListNames(s) \in Seq(ListsOf(s))
  <2>1. CASE s = "modules"
    BY <1>1, <2>1, ListNamesIs, ListsOfIs
  <2>2. CASE s = "subs"
    BY <1>1, <2>2, ListNamesIs, ListsOfIs
  <2>3. CASE s \in {"structs", "dlls"}
    BY <1>1, <2>3, ListNamesIs, ListsOfIs
  <2>4. CASE s \in {"windows", "constants"}
    <3>1. ListNames(s) = <<>>
      BY <2>4, ListNamesIs
    <3> HIDE DEF ListNames
    <3> QED BY <1>2, <3>1, Zenon
  <2> QED BY <1>3, <2>1, <2>2, <2>3, <2>4
<1>5. \A T : \A q \in Seq(T) : Len(q) \in Nat
  OBVIOUS
<1> QED BY <1>4, <1>5

LEMMA ListsIs ==
  ASSUME NEW p, IsContents(p), NEW s \in Kinds, NEW i \in 1..Len(p[s]), NEW lists \in Seq(ListsOf(s))
  PROVE  /\ ListsWritten(p, s, i, lists) \in Pieces
         /\ ListsWritten(p, s, i, <<>>) = <<>>
         /\ lists # <<>> =>
              /\ ListWritten(p, s, i, lists[1]) \in Pieces
              /\ ListsWritten(p, s, i, Tail(lists)) \in Pieces
              /\ ListsWritten(p, s, i, lists)
                   = ListWritten(p, s, i, lists[1]) ++ ListsWritten(p, s, i, Tail(lists))
<1> DEFINE W(q) == [j \in DOMAIN q |-> ListWritten(p, s, i, q[j])]
<1>1. ASSUME NEW q \in Seq(ListsOf(s))
      PROVE  /\ W(q) \in Seq(Pieces) /\ Len(W(q)) = Len(q) /\ ListsWritten(p, s, i, q) = FlattenSeq(W(q))
             /\ \A j \in 1..Len(q) : W(q)[j] = ListWritten(p, s, i, q[j])
             /\ W(q) = [j \in 1..Len(q) |-> W(q)[j]]
  <2>1. Len(q) \in Nat /\ DOMAIN q = 1..Len(q) /\ \A j \in 1..Len(q) : q[j] \in ListsOf(s)
    OBVIOUS
  <2>2. W(q) = [j \in 1..Len(q) |-> W(q)[j]] /\ \A j \in 1..Len(q) : W(q)[j] = ListWritten(p, s, i, q[j])
    BY <2>1
  <2>3. \A j \in 1..Len(q) : W(q)[j] \in Pieces
    BY <2>1, <2>2, ListType
  <2>4. ListsWritten(p, s, i, q) = FlattenSeq(W(q))
    BY DEF ListsWritten
  <2> HIDE DEF W
  <2>5. W(q) \in Seq(Pieces) /\ Len(W(q)) = Len(q)
    BY <2>1, <2>2, <2>3, SeqIs
  <2> QED BY <2>2, <2>4, <2>5
<1>2. ListsWritten(p, s, i, <<>>) = <<>>
  <2>1. [j \in DOMAIN <<>> |-> ListWritten(p, s, i, <<>>[j])] = <<>>
    OBVIOUS
  <2> QED BY <2>1, FlattenEmpty DEF ListsWritten
<1>3. ASSUME lists # <<>>
      PROVE  /\ ListWritten(p, s, i, lists[1]) \in Pieces
             /\ ListsWritten(p, s, i, Tail(lists)) \in Pieces
             /\ ListsWritten(p, s, i, lists)
                  = ListWritten(p, s, i, lists[1]) ++ ListsWritten(p, s, i, Tail(lists))
  <2> DEFINE x == W(lists)
             y == W(Tail(lists))
  <2>1. /\ Tail(lists) \in Seq(ListsOf(s)) /\ Len(Tail(lists)) = Len(lists) - 1 /\ Len(lists) \in Nat \ {0}
        /\ \A j \in 1..(Len(lists) - 1) : Tail(lists)[j] = lists[j + 1] /\ j + 1 \in 1..Len(lists)
    BY <1>3
  <2>2. /\ x \in Seq(Pieces) /\ Len(x) = Len(lists) /\ ListsWritten(p, s, i, lists) = FlattenSeq(x)
        /\ \A j \in 1..Len(lists) : x[j] = ListWritten(p, s, i, lists[j])
    BY <1>1
  <2>3. /\ y \in Seq(Pieces) /\ ListsWritten(p, s, i, Tail(lists)) = FlattenSeq(y)
        /\ \A j \in 1..(Len(lists) - 1) : y[j] = ListWritten(p, s, i, Tail(lists)[j])
        /\ y = [j \in 1..(Len(lists) - 1) |-> y[j]]
    BY <1>1, <2>1
  <2> HIDE DEF x, y, W
  <2>4. \A j \in 1..(Len(lists) - 1) : y[j] = x[j + 1]
    BY <2>1, <2>2, <2>3
  <2>5. x # <<>>
    BY <2>1, <2>2
  <2>6. Tail(x) = y
    BY <2>2, <2>3, <2>4, <2>5, TailSame
  <2>7. FlattenSeq(x) = x[1] ++ FlattenSeq(y)
    BY <2>2, <2>5, <2>6, FlattenHead
  <2>8. x[1] = ListWritten(p, s, i, lists[1]) /\ x[1] \in Pieces
    BY <2>1, <2>2, <2>5
  <2>9. FlattenSeq(y) \in Pieces
    BY <2>3, FlattenType
  <2> QED BY <2>2, <2>3, <2>7, <2>8, <2>9
<1> HIDE DEF W
<1>4. ListsWritten(p, s, i, lists) \in Pieces
  BY <1>1, FlattenType
<1> QED BY <1>2, <1>3, <1>4

-----------------------------------------------------------------------------
(* The names of the fields of records.                                     *)
PlainNames == Names \ {"key"}
HeadNames(s) ==
  CASE s = "modules" -> <<"property", "base", "name", "comment">>
    [] s = "subs" -> <<"skip", "property", "type", "name", "comment">>
    [] s = "structs" -> <<"property", "name", "comment">>
    [] s = "dlls" -> <<"property", "type", "name", "comment", "lib", "func">>
    [] OTHER -> <<"skip">>
WindowHead == <<"skip", "belong", "name", "comment">>
WindowBody == <<"bounds", "skip", "cursor", "mark", "skip", "flags", "skip">>
ConstantHead == <<"skip", "property", "name", "comment">>

LEMMA NamesMono ==
  ASSUME NEW q \in Seq(PlainNames)
  PROVE  q \in Seq(Names) /\ Len(q) \in Nat /\ DOMAIN q = 1..Len(q)
         /\ \A k \in 1..Len(q) : q[k] \in PlainNames /\ q[k] \in Names /\ q[k] # "key" /\ q[k] # "ast"
<1>1. Len(q) \in Nat /\ DOMAIN q = 1..Len(q) /\ \A k \in 1..Len(q) : q[k] \in PlainNames
  OBVIOUS
<1>2. \A x \in PlainNames : x \in Names /\ x # "key" /\ x # "ast"
  BY DEF PlainNames, Names
<1>3. \A A, B : A \subseteq B => \A t \in Seq(A) : t \in Seq(B)
  OBVIOUS
<1> QED BY <1>1, <1>2, <1>3

LEMMA PlainType ==
  /\ <<"property", "base", "name", "comment">> \in Seq(PlainNames)
  /\ <<"skip", "property", "type", "name", "comment">> \in Seq(PlainNames)
  /\ <<"property", "name", "comment">> \in Seq(PlainNames)
  /\ <<"property", "type", "name", "comment", "lib", "func">> \in Seq(PlainNames)
  /\ WindowHead \in Seq(PlainNames) /\ Len(WindowHead) = 4
  /\ WindowBody \in Seq(PlainNames) /\ Len(WindowBody) = 7
  /\ ConstantHead \in Seq(PlainNames) /\ Len(ConstantHead) = 4
  /\ <<"value">> \in Seq(PlainNames) /\ Len(<<"value">>) = 1
  /\ <<"type", "property">> \in Seq(PlainNames) /\ <<"name", "comment">> \in Seq(PlainNames)
<1>1. /\ "property" \in PlainNames /\ "base" \in PlainNames /\ "name" \in PlainNames /\ "comment" \in PlainNames
      /\ "skip" \in PlainNames /\ "type" \in PlainNames /\ "lib" \in PlainNames /\ "func" \in PlainNames
      /\ "belong" \in PlainNames /\ "bounds" \in PlainNames /\ "cursor" \in PlainNames /\ "mark" \in PlainNames
      /\ "flags" \in PlainNames /\ "value" \in PlainNames
  BY DEF PlainNames, Names
<1> HIDE DEF PlainNames
<1>2. \A P : \A a, b, c, d, e, f, g \in P :
        /\ <<a>> \in Seq(P) /\ Len(<<a>>) = 1
        /\ <<a, b>> \in Seq(P) /\ <<a, b, c>> \in Seq(P)
        /\ <<a, b, c, d>> \in Seq(P) /\ Len(<<a, b, c, d>>) = 4
        /\ <<a, b, c, d, e>> \in Seq(P) /\ <<a, b, c, d, e, f>> \in Seq(P)
        /\ <<a, b, c, d, e, f, g>> \in Seq(P) /\ Len(<<a, b, c, d, e, f, g>>) = 7
  OBVIOUS
<1> QED BY <1>1, <1>2 DEF WindowHead, WindowBody, ConstantHead

LEMMA HeadType ==
  ASSUME NEW s \in {"modules", "subs", "structs", "dlls"}
  PROVE  HeadNames(s) \in Seq(PlainNames)
BY PlainType DEF HeadNames

(* Fields of two lists of names.                                           *)
LEMMA FieldsConcat ==
  ASSUME NEW vec \in Vecs, NEW i \in Nat, NEW a \in Seq(PlainNames), NEW b \in Seq(PlainNames)
  PROVE  a \o b \in Seq(PlainNames) /\ Fields(vec, i, a \o b) = Fields(vec, i, a) ++ Fields(vec, i, b)
<1>1. /\ a \o b \in Seq(PlainNames) /\ Len(a \o b) = Len(a) + Len(b) /\ Len(a) \in Nat /\ Len(b) \in Nat
      /\ \A k \in 1..Len(a) : (a \o b)[k] = a[k]
      /\ \A k \in 1..Len(b) : (a \o b)[Len(a) + k] = b[k]
  OBVIOUS
<1> DEFINE c == a \o b
           x == Fields(vec, i, a)
           y == Fields(vec, i, b)
           z == Fields(vec, i, c)
<1> HIDE DEF c
<1>2. c \in Seq(PlainNames) /\ Len(c) = Len(a) + Len(b)
      /\ (\A k \in 1..Len(a) : c[k] = a[k]) /\ \A k \in 1..Len(b) : c[Len(a) + k] = b[k]
  BY <1>1 DEF c
<1>3. /\ x \in Pieces /\ Len(x) = Len(a) /\ \A k \in 1..Len(a) : x[k] = Field(a[k], vec, i, 0)
  BY NamesMono, FieldsIs
<1>4. /\ y \in Pieces /\ Len(y) = Len(b) /\ \A k \in 1..Len(b) : y[k] = Field(b[k], vec, i, 0)
  BY NamesMono, FieldsIs
<1>5. /\ z \in Pieces /\ Len(z) = Len(c) /\ \A k \in 1..Len(c) : z[k] = Field(c[k], vec, i, 0)
  BY <1>2, NamesMono, FieldsIs
<1> HIDE DEF x, y, z
<1>6. /\ x ++ y \in Pieces /\ Len(x ++ y) = Len(x) + Len(y)
      /\ \A k \in 1..Len(x) : (x ++ y)[k] = x[k]
      /\ \A k \in 1..Len(y) : (x ++ y)[Len(x) + k] = y[k]
  BY <1>3, <1>4, ConcatIs
<1> DEFINE w == x ++ y
<1> HIDE DEF w
<1>7. /\ w \in Pieces /\ Len(w) = Len(x) + Len(y)
      /\ \A k \in 1..Len(x) : w[k] = x[k]
      /\ \A k \in 1..Len(y) : w[Len(x) + k] = y[k]
  BY <1>6 DEF w
<1>8. ASSUME NEW k \in 1..Len(z) PROVE z[k] = w[k]
  <2>1. CASE k <= Len(a)
    <3>1. k \in 1..Len(a) /\ k \in 1..Len(c)
      BY <1>1, <1>2, <1>5, <2>1
    <3> QED BY <1>2, <1>3, <1>5, <1>7, <3>1
  <2>2. CASE ~(k <= Len(a))
    <3>1. k - Len(a) \in 1..Len(b) /\ k \in 1..Len(c) /\ Len(a) + (k - Len(a)) = k
      BY <1>1, <1>2, <1>5, <2>2
    <3>2. c[k] = b[k - Len(a)]
      BY <1>2, <3>1
    <3>3. w[k] = y[k - Len(a)]
      BY <1>3, <1>4, <1>7, <3>1
    <3> QED BY <1>4, <1>5, <3>1, <3>2, <3>3
  <2> QED BY <2>1, <2>2
<1>9. z = w
  BY <1>2, <1>3, <1>4, <1>5, <1>7, <1>8, SameSeq
<1> QED BY <1>1, <1>9 DEF c, w, x, y, z

LEMMA FieldsEmpty ==
  ASSUME NEW vec, NEW i
  PROVE  Fields(vec, i, <<>>) = <<>>
BY DEF Fields

(* The lists of a record of code.                                          *)
LEMMA ListsStep ==
  ASSUME NEW p, IsContents(p), NEW s \in Kinds, NEW i \in 1..Len(p[s]), NEW q, NEW a, NEW t,
         q \in Seq(ListsOf(s)), q # <<>>, q[1] = a, Tail(q) = t
  PROVE  ListsWritten(p, s, i, q) = ListWritten(p, s, i, a) ++ ListsWritten(p, s, i, t)
BY ListsIs

LEMMA Lists1 ==
  ASSUME NEW p, IsContents(p), NEW s \in Kinds, NEW i \in 1..Len(p[s]), NEW a \in ListsOf(s)
  PROVE  /\ ListsWritten(p, s, i, <<a>>) = ListWritten(p, s, i, a) /\ ListWritten(p, s, i, a) \in Pieces
<1> DEFINE q == <<a>>
           t == <<>>
<1>1. q \in Seq(ListsOf(s)) /\ q # <<>> /\ q[1] = a /\ Tail(q) = t
  OBVIOUS
<1>0. ListsWritten(p, s, i, t) = <<>>
  BY <1>1, ListsIs
<1> HIDE DEF q, t
<1>2. ListWritten(p, s, i, a) \in Pieces
  BY ListType
<1>3. ListsWritten(p, s, i, q) = ListWritten(p, s, i, a) ++ ListsWritten(p, s, i, t)
  BY <1>1, ListsStep
<1>5. ListWritten(p, s, i, a) ++ <<>> = ListWritten(p, s, i, a)
  BY <1>2, ConcatEmpty
<1>6. ListsWritten(p, s, i, q) = ListWritten(p, s, i, a)
  BY <1>3, <1>0, <1>5, Zenon
<1> QED BY <1>2, <1>6 DEF q

LEMMA Lists2 ==
  ASSUME NEW p, IsContents(p), NEW s \in Kinds, NEW i \in 1..Len(p[s]), NEW a \in ListsOf(s), NEW b \in ListsOf(s)
  PROVE  ListsWritten(p, s, i, <<a, b>>) = ListWritten(p, s, i, a) ++ ListWritten(p, s, i, b)
<1> DEFINE q == <<a, b>>
           t == <<b>>
<1>1. q \in Seq(ListsOf(s)) /\ q # <<>> /\ q[1] = a /\ Tail(q) = t
  OBVIOUS
<1>2. ListsWritten(p, s, i, t) = ListWritten(p, s, i, b)
  BY Lists1
<1> HIDE DEF q, t
<1>3. ListsWritten(p, s, i, q) = ListWritten(p, s, i, a) ++ ListWritten(p, s, i, b)
  <2>1. ListsWritten(p, s, i, q) = ListWritten(p, s, i, a) ++ ListsWritten(p, s, i, t)
    BY <1>1, ListsStep
  <2> QED BY <1>2, <2>1
<1> QED BY <1>3 DEF q

LEMMA Lists3 ==
  ASSUME NEW p, IsContents(p), NEW s \in Kinds, NEW i \in 1..Len(p[s]),
         NEW a \in ListsOf(s), NEW b \in ListsOf(s), NEW c \in ListsOf(s)
  PROVE  ListsWritten(p, s, i, <<a, b, c>>)
           = ListWritten(p, s, i, a) ++ (ListWritten(p, s, i, b) ++ ListWritten(p, s, i, c))
<1> DEFINE q == <<a, b, c>>
           t == <<b, c>>
<1>1. q \in Seq(ListsOf(s)) /\ q # <<>> /\ q[1] = a /\ Tail(q) = t
  OBVIOUS
<1>2. ListsWritten(p, s, i, t) = ListWritten(p, s, i, b) ++ ListWritten(p, s, i, c)
  BY Lists2
<1> HIDE DEF q, t
<1>3. ListsWritten(p, s, i, q)
        = ListWritten(p, s, i, a) ++ (ListWritten(p, s, i, b) ++ ListWritten(p, s, i, c))
  <2>1. ListsWritten(p, s, i, q) = ListWritten(p, s, i, a) ++ ListsWritten(p, s, i, t)
    BY <1>1, ListsStep
  <2> QED BY <1>2, <2>1
<1> QED BY <1>3 DEF q

-----------------------------------------------------------------------------
(* Records.                                                                *)
LEMMA IndexIs ==
  ASSUME NEW p, IsContents(p), NEW s \in Kinds, NEW i \in 1..Len(p[s])
  PROVE  i \in Nat \ {0} /\ i \in Nat /\ i - 1 \in Nat /\ Section(s) \in Vecs /\ IsVec(p, Section(s))
<1>1. i \in Nat \ {0} /\ i \in Nat /\ i - 1 \in Nat
  BY KindsIs
<1>2. IsVec(p, Section(s))
  BY DEF IsVec
<1> QED BY <1>1, <1>2, VecType

LEMMA CodeRecord ==
  ASSUME NEW p, IsContents(p), NEW s \in {"modules", "subs", "structs", "dlls"}, NEW i \in 1..Len(p[s])
  PROVE  /\ RecordWritten(p, s, i)
              = Fields(Section(s), i, HeadNames(s)) ++ ListsWritten(p, s, i, ListNames(s))
         /\ Fields(Section(s), i, HeadNames(s)) \in Pieces
         /\ ListsWritten(p, s, i, ListNames(s)) \in Pieces
         /\ RecordWritten(p, s, i) \in Pieces
<1>1. s \in Kinds
  BY DEF Kinds
<1> DEFINE x == Fields(Section(s), i, HeadNames(s))
<1>2. x \in Pieces
  BY <1>1, IndexIs, HeadType, NamesMono, FieldsIs
<1>3. ListsWritten(p, s, i, ListNames(s)) \in Pieces
  BY <1>1, ListNamesType, ListsIs
<1>4. p[s][i] \in Nat /\ p.pad \in Nat
  BY <1>1, ContentsIs
<1>5. CASE s = "modules"
  <2> DEFINE a == <<Number(4 * p.modules[i])>>
             b == Many(<<s, i, "include">>, "include", p.modules[i])
             c == VarsWritten(<<s, i, "vars">>, p.modules[i], p.pad)
  <2>1. RecordWritten(p, s, i) = ((x ++ a) ++ b) ++ c
    BY <1>5 DEF RecordWritten, HeadNames, ++
  <2>2. ListsWritten(p, s, i, ListNames(s)) = ListWritten(p, s, i, "include") ++ ListWritten(p, s, i, "vars")
    BY <1>1, <1>5, ListNamesIs, ListsOfIs, Lists2
  <2>3. ListWritten(p, s, i, "include") = a ++ b
    BY DEF ListWritten, ++
  <2>4. Size(p, <<s, i, "vars">>) = p.modules[i]
    BY <1>1, <1>5, ListsOfIs, ListSize
  <2>5. ListWritten(p, s, i, "vars") = c
    BY <2>4 DEF ListWritten
  <2>6. c \in Pieces
    BY <1>1, <1>5, <2>5, ListsOfIs, ListType
  <2>7. a \in Pieces
    BY <1>4, <1>5, NumberIs, OneIs
  <2>8. b \in Pieces
    <3>1. <<s, i, "include">> \in Vecs /\ "include" \in Names
      BY <1>1, <1>5, IndexIs, VecIs DEF Names
    <3> QED BY <1>4, <1>5, <3>1, ManyIs
  <2> HIDE DEF x, a, b, c
  <2>9. ((x ++ a) ++ b) ++ c = x ++ ((a ++ b) ++ c)
    <3>1. ((x ++ a) ++ b) ++ c = x ++ (a ++ (b ++ c))
      BY <1>2, <2>6, <2>7, <2>8, Right3
    <3>2. (a ++ b) ++ c = a ++ (b ++ c)
      BY <2>6, <2>7, <2>8, Assoc
    <3> QED BY <3>1, <3>2
  <2>10. RecordWritten(p, s, i) = x ++ ListsWritten(p, s, i, ListNames(s))
    BY <2>1, <2>2, <2>3, <2>5, <2>9
  <2> QED BY <1>2, <1>3, <2>10, ConcatIs DEF x
<1>6. CASE s = "subs"
  <2> DEFINE a == VarsWritten(<<s, i, "locals">>, p.subs[i], p.pad)
             b == VarsWritten(<<s, i, "params">>, 1, p.pad)
             c == Many(<<s, i, "code">>, "code", 6)
  <2>1. RecordWritten(p, s, i) = ((x ++ a) ++ b) ++ c
    BY <1>6 DEF RecordWritten, HeadNames, ++
  <2>2. ListsWritten(p, s, i, ListNames(s)) = ListWritten(p, s, i, "locals")
          ++ (ListWritten(p, s, i, "params") ++ ListWritten(p, s, i, "code"))
    BY <1>1, <1>6, ListNamesIs, ListsOfIs, Lists3
  <2>3. Size(p, <<s, i, "locals">>) = p.subs[i] /\ Size(p, <<s, i, "params">>) = 1
    BY <1>1, <1>6, ListsOfIs, ListSize
  <2>4. ListWritten(p, s, i, "locals") = a /\ ListWritten(p, s, i, "params") = b
        /\ ListWritten(p, s, i, "code") = c
    BY <2>3 DEF ListWritten
  <2>5. a \in Pieces /\ b \in Pieces /\ c \in Pieces
    BY <1>1, <1>6, <2>4, ListsOfIs, ListType
  <2> HIDE DEF x, a, b, c
  <2>6. ((x ++ a) ++ b) ++ c = x ++ (a ++ (b ++ c))
    BY <1>2, <2>5, Right3
  <2>7. RecordWritten(p, s, i) = x ++ ListsWritten(p, s, i, ListNames(s))
    BY <2>1, <2>2, <2>4, <2>6
  <2> QED BY <1>2, <1>3, <2>7, ConcatIs DEF x
<1>7. CASE s = "structs"
  <2> DEFINE a == VarsWritten(<<s, i, "members">>, p.structs[i], p.pad)
  <2>1. RecordWritten(p, s, i) = x ++ a
    BY <1>7 DEF RecordWritten, HeadNames, ++
  <2>2. ListsWritten(p, s, i, ListNames(s)) = ListWritten(p, s, i, "members")
    BY <1>1, <1>7, ListNamesIs, ListsOfIs, Lists1
  <2>3. Size(p, <<s, i, "members">>) = p.structs[i]
    BY <1>1, <1>7, ListsOfIs, ListSize
  <2>4. ListWritten(p, s, i, "members") = a
    BY <2>3 DEF ListWritten
  <2> QED BY <1>2, <1>3, <2>1, <2>2, <2>4, ConcatIs
<1>8. CASE s = "dlls"
  <2> DEFINE a == VarsWritten(<<s, i, "params">>, p.dlls[i], p.pad)
  <2>1. RecordWritten(p, s, i) = x ++ a
    BY <1>8 DEF RecordWritten, HeadNames, ++
  <2>2. ListsWritten(p, s, i, ListNames(s)) = ListWritten(p, s, i, "params")
    BY <1>1, <1>8, ListNamesIs, ListsOfIs, Lists1
  <2>3. Size(p, <<s, i, "params">>) = p.dlls[i]
    BY <1>1, <1>8, ListsOfIs, ListSize
  <2>4. ListWritten(p, s, i, "params") = a
    BY <2>3 DEF ListWritten
  <2> QED BY <1>2, <1>3, <2>1, <2>2, <2>4, ConcatIs
<1> QED BY <1>5, <1>6, <1>7, <1>8

(* What a window's property calls for.                                     *)
LEMMA TailType ==
  ASSUME NEW k \in 0..7
  PROVE  WindowTail(k) \in Seq(PlainNames) /\ Len(WindowTail(k)) \in Nat \ {0}
<1>1. "looks" \in PlainNames /\ "className" \in PlainNames /\ "title" \in PlainNames
      /\ "helpFileName" \in PlainNames
  BY DEF PlainNames, Names
<1> HIDE DEF PlainNames
<1>2. \A P : \A a \in P : <<a>> \in Seq(P) /\ <<>> \in Seq(P) /\ Len(<<a>>) = 1
  OBVIOUS
<1>3. \A P : \A a \in Seq(P), b \in Seq(P) : a \o b \in Seq(P) /\ Len(a \o b) = Len(a) + Len(b) /\ Len(a) \in Nat
  OBVIOUS
<1> DEFINE a == IF k \in 1..6 THEN <<"looks">> ELSE <<>>
           b == IF k = 6 THEN <<"className">> ELSE <<>>
           c == IF k >= 2 THEN <<"title">> ELSE <<>>
           d == <<"helpFileName">>
<1>4. a \in Seq(PlainNames) /\ b \in Seq(PlainNames) /\ c \in Seq(PlainNames) /\ d \in Seq(PlainNames)
      /\ Len(d) = 1
  BY <1>1, <1>2
<1>5. WindowTail(k) = ((a \o b) \o c) \o d
  BY DEF WindowTail
<1> HIDE DEF a, b, c, d
<1>6. a \o b \in Seq(PlainNames)
  BY <1>3, <1>4
<1> DEFINE e == a \o b
<1> HIDE DEF e
<1>7. e \o c \in Seq(PlainNames)
  BY <1>3, <1>4, <1>6 DEF e
<1> DEFINE g == e \o c
<1> HIDE DEF g
<1>8. g \o d \in Seq(PlainNames) /\ Len(g \o d) = Len(g) + 1 /\ Len(g) \in Nat
  BY <1>3, <1>4, <1>7 DEF g
<1> QED BY <1>5, <1>8 DEF e, g

LEMMA RestIs ==
  ASSUME NEW i \in Nat, NEW k \in 0..7
  PROVE  /\ Blocks(1) \in Pieces /\ Len(Blocks(1)) = 1
         /\ k = 7 => WindowRest(i, k) = Blocks(1)
         /\ k # 7 => WindowRest(i, k)
              = Blocks(1) ++ (<<Number(k)>> ++ (Fields(Section("windows"), i, WindowTail(k)) ++ Blocks(2)))
         /\ Fields(Section("windows"), i, WindowTail(k)) \in Pieces
         /\ Blocks(2) \in Pieces /\ Len(Blocks(2)) = 2
         /\ Number(k) \in Elem
         /\ <<Number(k)>> ++ (Fields(Section("windows"), i, WindowTail(k)) ++ Blocks(2)) \in Pieces
         /\ WindowRest(i, k) \in Pieces
<1> DEFINE vec == Section("windows")
           w == WindowTail(k)
<1>1. vec \in Vecs
  <2>1. 0 \in Nat
    OBVIOUS
  <2> QED BY <2>1, VecIs
<1>2. w \in Seq(PlainNames)
  BY TailType
<1>3. Number(k) \in Elem /\ <<Number(k)>> \in Pieces
  <2>1. k \in Nat
    OBVIOUS
  <2> QED BY <2>1, NumberIs, OneIs
<1>4. \A m \in Nat : Blocks(m) \in Pieces /\ Len(Blocks(m)) = m
  BY BlocksIs
<1>5. Blocks(1) \in Pieces /\ Len(Blocks(1)) = 1 /\ Blocks(2) \in Pieces /\ Len(Blocks(2)) = 2
  BY <1>4
<1>6. Fields(vec, i, w) \in Pieces
  BY <1>1, <1>2, NamesMono, FieldsIs
<1>7. k = 7 => WindowRest(i, k) = Blocks(1)
  <2>1. ASSUME k = 7 PROVE WindowRest(i, k) = Blocks(1) ++ <<>>
    BY <2>1 DEF WindowRest, ++
  <2> QED BY <1>5, <2>1, ConcatEmpty
<1>8. ASSUME k # 7
      PROVE  WindowRest(i, k) = Blocks(1) ++ (<<Number(k)>> ++ (Fields(vec, i, w) ++ Blocks(2)))
  <2> DEFINE a == IF k \in 1..6 THEN <<"looks">> ELSE <<>>
             b == IF k = 6 THEN <<"className">> ELSE <<>>
             c == IF k >= 2 THEN <<"title">> ELSE <<>>
             d == <<"helpFileName">>
             F(q) == Fields(vec, i, q)
  <2>1. a \in Seq(PlainNames) /\ b \in Seq(PlainNames) /\ c \in Seq(PlainNames) /\ d \in Seq(PlainNames)
    <3>1. "looks" \in PlainNames /\ "className" \in PlainNames /\ "title" \in PlainNames
          /\ "helpFileName" \in PlainNames
      BY DEF PlainNames, Names
    <3>2. \A P : \A x \in P : <<x>> \in Seq(P) /\ <<>> \in Seq(P) /\ Len(<<x>>) = 1
      OBVIOUS
    <3> QED BY <3>1, <3>2
  <2>2. w = ((a \o b) \o c) \o d
    BY DEF WindowTail
  <2>3. WindowRest(i, k)
          = Blocks(1) ++ (((((<<Number(k)>> ++ F(a)) ++ F(b)) ++ F(c)) ++ F(d)) ++ Blocks(2))
    BY <1>8, FieldsEmpty DEF WindowRest, ++
  <2> HIDE DEF a, b, c, d, w, vec
  <2>4. a \o b \in Seq(PlainNames) /\ F(a \o b) = F(a) ++ F(b)
    BY <1>1, <2>1, FieldsConcat
  <2> DEFINE e == a \o b
  <2>41. e \in Seq(PlainNames) /\ F(e) = F(a) ++ F(b)
    BY <2>4 DEF e
  <2> HIDE DEF e
  <2>5. e \o c \in Seq(PlainNames) /\ F(e \o c) = F(e) ++ F(c)
    BY <1>1, <2>1, <2>41, FieldsConcat
  <2> DEFINE g == e \o c
  <2>51. g \in Seq(PlainNames) /\ F(g) = F(e) ++ F(c) /\ w = g \o d
    BY <2>2, <2>5 DEF e, g
  <2> HIDE DEF g
  <2>6. F(g \o d) = F(g) ++ F(d)
    BY <1>1, <2>1, <2>51, FieldsConcat
  <2>7. F(w) = ((F(a) ++ F(b)) ++ F(c)) ++ F(d)
    BY <2>41, <2>51, <2>6
  <2>8. F(a) \in Pieces /\ F(b) \in Pieces /\ F(c) \in Pieces /\ F(d) \in Pieces
    BY <1>1, <2>1, NamesMono, FieldsIs
  <2> HIDE DEF F
  <2> DEFINE n == <<Number(k)>>
             z == Blocks(2)
             A == F(a)
             B == F(b)
             C == F(c)
             D == F(d)
  <2>9. n \in Pieces /\ z \in Pieces /\ A \in Pieces /\ B \in Pieces /\ C \in Pieces /\ D \in Pieces
    BY <1>3, <1>5, <2>8
  <2>10. WindowRest(i, k) = Blocks(1) ++ (((((n ++ A) ++ B) ++ C) ++ D) ++ z) /\ F(w) = ((A ++ B) ++ C) ++ D
    BY <2>3, <2>7
  <2> HIDE DEF n, z, A, B, C, D
  <2>11. ((((n ++ A) ++ B) ++ C) ++ D) ++ z = n ++ ((((A ++ B) ++ C) ++ D) ++ z)
    <3>1. ((n ++ A) ++ B) ++ C = n ++ (A ++ (B ++ C)) /\ B ++ C \in Pieces /\ A ++ (B ++ C) \in Pieces
      BY <2>9, Right3
    <3>2. (A ++ B) ++ C = A ++ (B ++ C)
      BY <2>9, Assoc
    <3> DEFINE x == A ++ (B ++ C)
    <3> HIDE DEF x
    <3>3. ((n ++ x) ++ D) ++ z = n ++ (x ++ (D ++ z))
      BY <2>9, <3>1, Right3 DEF x
    <3>4. (x ++ D) ++ z = x ++ (D ++ z)
      BY <2>9, <3>1, Assoc DEF x
    <3> QED BY <3>1, <3>2, <3>3, <3>4 DEF x
  <2>12. WindowRest(i, k) = Blocks(1) ++ (n ++ (F(w) ++ z))
    BY <2>10, <2>11
  <2> QED BY <2>12 DEF n, z, F
<1>9. <<Number(k)>> ++ (Fields(vec, i, w) ++ Blocks(2)) \in Pieces
  BY <1>3, <1>5, <1>6, ConcatIs
<1> HIDE DEF vec, w
<1>10. WindowRest(i, k) \in Pieces
  <2>1. CASE k = 7
    BY <1>5, <1>7, <2>1
  <2>2. CASE k # 7
    BY <1>5, <1>8, <1>9, <2>2, ConcatIs
  <2> QED BY <2>1, <2>2
<1> QED BY <1>3, <1>5, <1>6, <1>7, <1>8, <1>9, <1>10 DEF vec, w

(* A window, and a constant.                                               *)
WindowIn(p, i) ==
  Blocks(i) ++ (Fields(Section("windows"), i, WindowBody)
                ++ (Sized(Blocks(1)) ++ WindowRest(i, p.windows[i])))

LEMMA WindowIs ==
  ASSUME NEW p, IsContents(p), NEW i \in 1..Len(p.windows)
  PROVE  /\ Fields(Section("windows"), i, WindowHead) \in Pieces
         /\ Number(i - 1) \in Elem /\ Blocks(i) \in Pieces /\ Len(Blocks(i)) = i
         /\ Fields(Section("windows"), i, WindowBody) \in Pieces
         /\ Blocks(1) \in Pieces /\ Sized(Blocks(1)) \in Pieces
         /\ Sized(Blocks(1)) ++ WindowRest(i, p.windows[i]) \in Pieces
         /\ Fields(Section("windows"), i, WindowBody)
              ++ (Sized(Blocks(1)) ++ WindowRest(i, p.windows[i])) \in Pieces
         /\ WindowIn(p, i) \in Pieces /\ Sized(WindowIn(p, i)) \in Pieces
         /\ RecordWritten(p, "windows", i)
              = Fields(Section("windows"), i, WindowHead) ++ (<<Number(i - 1)>> ++ Sized(WindowIn(p, i)))
         /\ <<Number(i - 1)>> ++ Sized(WindowIn(p, i)) \in Pieces
         /\ RecordWritten(p, "windows", i) \in Pieces
<1> DEFINE vec == Section("windows")
           k == p.windows[i]
           h == Fields(vec, i, WindowHead)
           b == Fields(vec, i, WindowBody)
<1>1. "windows" \in Kinds /\ i \in 1..Len(p["windows"])
  BY DEF Kinds
<1>2. i \in Nat /\ i - 1 \in Nat /\ vec \in Vecs /\ k \in 0..7
  BY <1>1, IndexIs, ContentsIs
<1>3. h \in Pieces /\ b \in Pieces
  BY <1>2, PlainType, NamesMono, FieldsIs
<1>4. Number(i - 1) \in Elem /\ <<Number(i - 1)>> \in Pieces
  BY <1>2, NumberIs, OneIs
<1>5. Blocks(i) \in Pieces /\ Len(Blocks(i)) = i
  BY <1>2, BlocksIs
<1>6. Blocks(1) \in Pieces /\ WindowRest(i, k) \in Pieces
  BY <1>2, RestIs
<1>7. Sized(Blocks(1)) \in Pieces
  BY <1>6, SizedIs
<1> DEFINE z == Sized(Blocks(1))
           e == WindowRest(i, k)
           a == Blocks(i)
           n == <<Number(i - 1)>>
<1>8. RecordWritten(p, "windows", i) = (h ++ n) ++ Sized(((a ++ b) ++ z) ++ e)
  BY DEF RecordWritten, WindowHead, WindowBody, ++
<1>9. WindowIn(p, i) = a ++ (b ++ (z ++ e))
  BY DEF WindowIn
<1> HIDE DEF h, b, z, e, a, n
<1>10. ((a ++ b) ++ z) ++ e = a ++ (b ++ (z ++ e)) /\ z ++ e \in Pieces /\ b ++ (z ++ e) \in Pieces
       /\ ((a ++ b) ++ z) ++ e \in Pieces
  <2>1. a \in Pieces /\ b \in Pieces /\ z \in Pieces /\ e \in Pieces
    BY <1>3, <1>5, <1>6, <1>7 DEF z, e, a
  <2>2. (a ++ b ++ z) ++ e = a ++ (b ++ (z ++ e)) /\ z ++ e \in Pieces /\ b ++ (z ++ e) \in Pieces
        /\ a ++ b ++ z \in Pieces
    BY <2>1, Right3
  <2> QED BY <2>1, <2>2, ConcatIs
<1>11. WindowIn(p, i) \in Pieces
  BY <1>9, <1>10
<1> DEFINE w == Sized(WindowIn(p, i))
<1>12. w \in Pieces
  BY <1>11, SizedIs
<1>13. RecordWritten(p, "windows", i) = (h ++ n) ++ w
  BY <1>8, <1>9, <1>10
<1> HIDE DEF w
<1>14. n \in Pieces
  BY <1>4 DEF n
<1>15. (h ++ n) ++ w = h ++ (n ++ w) /\ n ++ w \in Pieces /\ h ++ (n ++ w) \in Pieces
  BY <1>3, <1>12, <1>14, Assoc, ConcatIs
<1> QED BY <1>3, <1>4, <1>5, <1>6, <1>7, <1>10, <1>11, <1>12, <1>13, <1>15 DEF h, b, z, e, a, n, w

LEMMA ConstantIs ==
  ASSUME NEW p, IsContents(p), NEW i \in 1..Len(p.constants)
  PROVE  LET k == p.constants[i]
             h == Fields(Section("constants"), i, ConstantHead)
             v == Fields(Section("constants"), i, <<"value">>)
         IN  /\ k \in {0, 59} \cup 22..26 /\ k \in Nat /\ h \in Pieces /\ v \in Pieces
             /\ Number(k) \in Elem /\ <<Number(k)>> \in Pieces
             /\ k = 0 => RecordWritten(p, "constants", i) = h ++ v
             /\ k = 22 => RecordWritten(p, "constants", i) = h ++ <<Number(k)>>
             /\ k \notin {0, 22} => RecordWritten(p, "constants", i) = h ++ (<<Number(k)>> ++ v)
             /\ RecordWritten(p, "constants", i) \in Pieces
<1> DEFINE vec == Section("constants")
           k == p.constants[i]
           h == Fields(vec, i, ConstantHead)
           v == Fields(vec, i, <<"value">>)
           n == <<Number(k)>>
<1>1. "constants" \in Kinds /\ i \in 1..Len(p["constants"])
  BY DEF Kinds
<1>2. i \in Nat /\ vec \in Vecs
  BY <1>1, IndexIs
<1>3. k \in {0, 59} \cup 22..26
  BY ContentsIs
<1>4. k \in Nat
  BY <1>3
<1>5. h \in Pieces /\ v \in Pieces
  BY <1>2, PlainType, NamesMono, FieldsIs
<1>6. Number(k) \in Elem /\ n \in Pieces
  BY <1>4, NumberIs, OneIs
<1> DEFINE a == IF k = 0 THEN <<>> ELSE n
           b == IF k = 22 THEN <<>> ELSE v
           r == RecordWritten(p, "constants", i)
<1>7. r = h ++ (a ++ b)
  BY DEF RecordWritten, ConstantRest, ConstantHead, ++
<1> HIDE DEF h, v, n, k, r
<1>8. k = 0 => r = h ++ v
  <2>1. <<>> ++ v = v
    BY <1>5, ConcatEmpty
  <2>2. ASSUME k = 0 PROVE a = <<>> /\ b = v
    BY <2>2
  <2> HIDE DEF a, b
  <2> QED BY <1>7, <2>1, <2>2
<1>9. k = 22 => r = h ++ n
  <2>1. n ++ <<>> = n
    BY <1>6, ConcatEmpty
  <2>2. ASSUME k = 22 PROVE b = <<>> /\ a = n
    BY <2>2
  <2> HIDE DEF a, b
  <2> QED BY <1>7, <2>1, <2>2
<1>10. k \notin {0, 22} => r = h ++ (n ++ v)
  <2>2. ASSUME k \notin {0, 22} PROVE b = v /\ a = n
    BY <2>2
  <2> HIDE DEF a, b
  <2> QED BY <1>7, <2>2
<1>11. r \in Pieces
  <2>1. h ++ v \in Pieces /\ h ++ n \in Pieces /\ h ++ (n ++ v) \in Pieces
    BY <1>5, <1>6, ConcatIs
  <2> QED BY <1>8, <1>9, <1>10, <2>1
<1> QED BY <1>3, <1>4, <1>5, <1>6, <1>8, <1>9, <1>10, <1>11 DEF h, v, n, k, r

(* All records of a section.                                               *)
LEMMA RecordsAre ==
  ASSUME NEW p, IsContents(p), NEW s \in Kinds
  PROVE  /\ Records(p, s) \in Seq(Pieces) /\ Len(Records(p, s)) = Len(p[s]) /\ Len(p[s]) \in Nat
         /\ \A i \in 1..Len(p[s]) : Records(p, s)[i] = RecordWritten(p, s, i) /\ RecordWritten(p, s, i) \in Pieces
         /\ RecordsWritten(p, s) = FlattenSeq(Records(p, s)) /\ RecordsWritten(p, s) \in Pieces
<1> DEFINE x == Records(p, s)
<1>1. Len(p[s]) \in Nat /\ DOMAIN p[s] = 1..Len(p[s])
  BY KindsIs
<1>2. x = [i \in 1..Len(p[s]) |-> x[i]] /\ \A i \in 1..Len(p[s]) : x[i] = RecordWritten(p, s, i)
  BY <1>1 DEF Records
<1>3. ASSUME NEW i \in 1..Len(p[s]) PROVE RecordWritten(p, s, i) \in Pieces
  <2>1. s \in {"modules", "subs", "structs", "dlls"} \/ s = "windows" \/ s = "constants"
    BY DEF Kinds
  <2>2. CASE s \in {"modules", "subs", "structs", "dlls"}
    BY <2>2, CodeRecord
  <2>3. CASE s = "windows"
    BY <2>3, WindowIs
  <2>4. CASE s = "constants"
    BY <2>4, ConstantIs
  <2> QED BY <2>1, <2>2, <2>3, <2>4
<1>4. RecordsWritten(p, s) = FlattenSeq(x)
  BY DEF RecordsWritten, Records
<1> HIDE DEF x
<1>5. x \in Seq(Pieces) /\ Len(x) = Len(p[s])
  <2> DEFINE n == Len(p[s])
  <2>1. n \in Nat /\ x = [k \in 1..n |-> x[k]] /\ \A k \in 1..n : x[k] \in Pieces
    BY <1>1, <1>2, <1>3
  <2> HIDE DEF n
  <2>2. x \in Seq(Pieces) /\ Len(x) = n
    BY <2>1, SeqIs
  <2> QED BY <2>2 DEF n
<1>6. FlattenSeq(x) \in Pieces
  BY <1>5, FlattenType
<1> QED BY <1>1, <1>2, <1>3, <1>4, <1>5, <1>6 DEF x

-----------------------------------------------------------------------------
(* Sections and the parts of a segment.                                    *)
LEMMA Two ==
  ASSUME NEW x \in Elem, NEW y \in Elem
  PROVE  <<x, y>> = <<x>> ++ <<y>> /\ <<x, y>> \in Pieces
<1>1. <<x>> \in Pieces /\ Len(<<x>>) = 1 /\ <<x>>[1] = x /\ <<y>> \in Pieces /\ Len(<<y>>) = 1 /\ <<y>>[1] = y
  BY OneIs
<1> DEFINE a == <<x>>
           b == <<y>>
           c == <<x, y>>
<1>2. c \in Pieces /\ Len(c) = 2 /\ c[1] = x /\ c[2] = y
  BY DEF Pieces
<1> HIDE DEF a, b, c
<1>3. a \in Pieces /\ Len(a) = 1 /\ a[1] = x /\ b \in Pieces /\ Len(b) = 1 /\ b[1] = y
  BY <1>1 DEF a, b
<1>4. /\ a ++ b \in Pieces /\ Len(a ++ b) = Len(a) + Len(b)
      /\ \A k \in 1..Len(a) : (a ++ b)[k] = a[k]
      /\ \A k \in 1..Len(b) : (a ++ b)[Len(a) + k] = b[k]
  BY <1>3, ConcatIs
<1> DEFINE w == a ++ b
<1> HIDE DEF w
<1>5. w \in Pieces /\ Len(w) = 2 /\ w[1] = x /\ w[2] = y
  <2>1. Len(a) = 1 /\ Len(b) = 1 /\ 1 \in 1..1 /\ 1 + 1 = 2
    BY <1>3
  <2> QED BY <1>3, <1>4, <2>1 DEF w
<1>6. \A k \in 1..Len(c) : c[k] = w[k]
  BY <1>2, <1>5
<1>7. c = w
  BY <1>2, <1>5, <1>6, SameSeq
<1> QED BY <1>2, <1>7 DEF a, b, c, w

LEMMA Three ==
  ASSUME NEW x \in Elem, NEW y \in Elem, NEW z \in Elem
  PROVE  <<x, y, z>> = (<<x>> ++ <<y>>) ++ <<z>>
<1>1. <<z>> \in Pieces /\ Len(<<z>>) = 1 /\ <<z>>[1] = z
  BY OneIs
<1>2. <<x, y>> = <<x>> ++ <<y>>
  BY Two
<1> DEFINE a == <<x, y>>
           b == <<z>>
           c == <<x, y, z>>
<1>3. c \in Pieces /\ Len(c) = 3 /\ c[1] = x /\ c[2] = y /\ c[3] = z
  BY DEF Pieces
<1>4. a \in Pieces /\ Len(a) = 2 /\ a[1] = x /\ a[2] = y
  BY DEF Pieces
<1>5. b \in Pieces /\ Len(b) = 1 /\ b[1] = z
  BY <1>1
<1> HIDE DEF a, b, c
<1>6. /\ a ++ b \in Pieces /\ Len(a ++ b) = Len(a) + Len(b)
      /\ \A k \in 1..Len(a) : (a ++ b)[k] = a[k]
      /\ \A k \in 1..Len(b) : (a ++ b)[Len(a) + k] = b[k]
  BY <1>4, <1>5, ConcatIs
<1> DEFINE w == a ++ b
<1> HIDE DEF w
<1>7. w \in Pieces /\ Len(w) = 3 /\ w[1] = x /\ w[2] = y /\ w[3] = z
  <2>1. Len(a) = 2 /\ Len(b) = 1 /\ 1 \in 1..2 /\ 2 \in 1..2 /\ 1 \in 1..1 /\ 2 + 1 = 3
    BY <1>4, <1>5
  <2> QED BY <1>4, <1>5, <1>6, <2>1 DEF w
<1>8. \A k \in 1..Len(c) : c[k] = w[k]
  BY <1>3, <1>7
<1>9. c = w
  BY <1>3, <1>7, <1>8, SameSeq
<1> QED BY <1>2, <1>9 DEF a, b, c, w

LEMMA SectionWrittenIs ==
  ASSUME NEW p, IsContents(p), NEW s \in Kinds
  PROVE  /\ SectionWritten(p, s)
              = <<Number(8 * Len(p[s]))>> ++ (Keys(Section(s), Len(p[s])) ++ RecordsWritten(p, s))
         /\ Number(8 * Len(p[s])) \in Elem /\ <<Number(8 * Len(p[s]))>> \in Pieces
         /\ Keys(Section(s), Len(p[s])) \in Pieces /\ RecordsWritten(p, s) \in Pieces
         /\ Keys(Section(s), Len(p[s])) ++ RecordsWritten(p, s) \in Pieces
         /\ SectionWritten(p, s) \in Pieces
<1> DEFINE a == <<Number(8 * Len(p[s]))>>
           b == Keys(Section(s), Len(p[s]))
           c == RecordsWritten(p, s)
<1>1. Len(p[s]) \in Nat /\ c \in Pieces
  BY RecordsAre
<1>2. 8 * Len(p[s]) \in Nat
  BY <1>1
<1>3. Number(8 * Len(p[s])) \in Elem /\ a \in Pieces
  BY <1>2, NumberIs, OneIs
<1>4. Section(s) \in Vecs
  <2>1. IsVec(p, Section(s))
    BY DEF IsVec
  <2> QED BY <2>1, VecType
<1>5. b \in Pieces
  BY <1>1, <1>4, KeysIs
<1>6. SectionWritten(p, s) = (a ++ b) ++ c
  BY DEF SectionWritten, ++
<1>7. Number(8 * Len(p[s])) \in Elem
  BY <1>3
<1> HIDE DEF a, b, c
<1>8. (a ++ b) ++ c = a ++ (b ++ c) /\ b ++ c \in Pieces /\ a ++ (b ++ c) \in Pieces
  BY <1>1, <1>3, <1>5, Assoc, ConcatIs
<1>9. /\ SectionWritten(p, s) = a ++ (b ++ c) /\ a \in Pieces /\ b \in Pieces /\ c \in Pieces
      /\ b ++ c \in Pieces /\ SectionWritten(p, s) \in Pieces
  BY <1>1, <1>3, <1>5, <1>6, <1>8
<1> QED BY <1>7, <1>9 DEF a, b, c

LEMMA GlobalVec ==
  ASSUME NEW p, IsContents(p)
  PROVE  /\ IsVec(p, Section("globals")) /\ Section("globals") \in Vecs
         /\ IsVec(p, Section("libraries")) /\ Section("libraries") \in Vecs
         /\ IsVec(p, Section("info")) /\ Section("info") \in Vecs
<1>1. IsVec(p, Section("globals")) /\ IsVec(p, Section("libraries")) /\ IsVec(p, Section("info"))
  BY DEF IsVec
<1> QED BY <1>1, VecType

LEMMA LibrariesIs ==
  ASSUME NEW p, IsContents(p)
  PROVE  LET n == p.libraries IN
         /\ n \in Nat /\ Number(4 * n) \in Elem /\ Plain("key") \in Elem /\ Plain("block") \in Elem
         /\ Blocks(1 + 2 * n) \in Pieces /\ Len(Blocks(1 + 2 * n)) = 1 + 2 * n
         /\ Many(Section("libraries"), "path", n) \in Pieces
         /\ Len(Many(Section("libraries"), "path", n)) = n
         /\ \A k \in 1..n : Many(Section("libraries"), "path", n)[k] = Field("path", Section("libraries"), k, 0)
         /\ Blocks(1 + 2 * n) ++ Many(Section("libraries"), "path", n) \in Pieces
         /\ <<Number(4 * n)>> ++ (Blocks(1 + 2 * n) ++ Many(Section("libraries"), "path", n)) \in Pieces
         /\ <<Plain("block")>> ++ (<<Number(4 * n)>>
              ++ (Blocks(1 + 2 * n) ++ Many(Section("libraries"), "path", n))) \in Pieces
         /\ LibrariesWritten(p) = <<Plain("key")>> ++ (<<Plain("block")>> ++ (<<Number(4 * n)>>
              ++ (Blocks(1 + 2 * n) ++ Many(Section("libraries"), "path", n))))
         /\ LibrariesWritten(p) \in Pieces
<1> DEFINE n == p.libraries
           a == <<Plain("key")>>
           b == <<Plain("block")>>
           c == <<Number(4 * n)>>
           d == Blocks(1 + 2 * n)
           e == Many(Section("libraries"), "path", n)
<1>1. n \in Nat
  BY ContentsIs
<1>2. 4 * n \in Nat /\ 1 + 2 * n \in Nat
  BY <1>1
<1>3. Number(4 * n) \in Elem /\ c \in Pieces
  BY <1>2, NumberIs, OneIs
<1>4. d \in Pieces /\ Len(d) = 1 + 2 * n
  BY <1>2, BlocksIs
<1>5. "path" \in Names
  BY DEF Names
<1>6. e \in Pieces /\ Len(e) = n /\ \A k \in 1..n : e[k] = Field("path", Section("libraries"), k, 0)
  BY <1>1, <1>5, GlobalVec, ManyIs
<1>7. a \in Pieces /\ b \in Pieces
  BY PlainIs, OneIs
<1>8. <<Plain("key"), Plain("block"), Number(4 * n)>> = (a ++ b) ++ c
  BY <1>3, PlainIs, Three
<1>9. LibrariesWritten(p) = (((a ++ b) ++ c) ++ d) ++ e
  BY <1>8 DEF LibrariesWritten, ++
<1> HIDE DEF a, b, c, d, e, n
<1>10. (((a ++ b) ++ c) ++ d) ++ e = a ++ (b ++ (c ++ (d ++ e))) /\ d ++ e \in Pieces /\ c ++ (d ++ e) \in Pieces
       /\ b ++ (c ++ (d ++ e)) \in Pieces
  BY <1>3, <1>4, <1>6, <1>7, Right4
<1>11. a ++ (b ++ (c ++ (d ++ e))) \in Pieces
  BY <1>7, <1>10, ConcatIs
<1>12. LibrariesWritten(p) = a ++ (b ++ (c ++ (d ++ e))) /\ LibrariesWritten(p) \in Pieces
  BY <1>9, <1>10, <1>11
<1> QED BY <1>1, <1>3, <1>4, <1>6, <1>10, <1>12, PlainIs DEF a, b, c, d, e, n

LEMMA ModulesHeadIs ==
  ASSUME NEW p, IsContents(p)
  PROVE  /\ Blocks(1) \in Pieces /\ Len(Blocks(1)) = 1 /\ Blocks(p.pad) \in Pieces
         /\ Sized(Blocks(p.pad)) \in Pieces /\ Sized(Blocks(1)) \in Pieces
         /\ ModulesHead(p) = Blocks(1) ++ (Sized(Blocks(p.pad)) ++ Sized(Blocks(1)))
         /\ Sized(Blocks(p.pad)) ++ Sized(Blocks(1)) \in Pieces
         /\ ModulesHead(p) \in Pieces
<1>1. \A m \in Nat : Blocks(m) \in Pieces /\ Len(Blocks(m)) = m
  BY BlocksIs
<1>2. Blocks(1) \in Pieces /\ Len(Blocks(1)) = 1 /\ Blocks(p.pad) \in Pieces
  BY <1>1, ContentsIs
<1>3. Sized(Blocks(p.pad)) \in Pieces /\ Sized(Blocks(1)) \in Pieces
  BY <1>2, SizedIs
<1> DEFINE a == Blocks(1)
           b == Sized(Blocks(p.pad))
           c == Sized(Blocks(1))
<1>4. ModulesHead(p) = (a ++ b) ++ c
  BY DEF ModulesHead, ++
<1>5. a \in Pieces /\ Len(a) = 1 /\ Blocks(p.pad) \in Pieces /\ b \in Pieces /\ c \in Pieces
  BY <1>2, <1>3
<1> HIDE DEF a, b, c
<1>6. (a ++ b) ++ c = a ++ (b ++ c) /\ b ++ c \in Pieces /\ a ++ (b ++ c) \in Pieces
  BY <1>5, Assoc, ConcatIs
<1>7. ModulesHead(p) = a ++ (b ++ c) /\ ModulesHead(p) \in Pieces
  BY <1>4, <1>6
<1> QED BY <1>5, <1>6, <1>7 DEF a, b, c

(* The constants: their number, not its bytes.                             *)
ConstantsTail(p) == Blocks(Len(p.constants)) ++ RecordsWritten(p, "constants")

LEMMA ConstantsIs ==
  ASSUME NEW p, IsContents(p)
  PROVE  LET n == Len(p.constants) IN
         /\ n \in Nat /\ Number(n) \in Elem /\ Plain("block") \in Elem
         /\ ConstantKeys(p) \in Pieces /\ Len(ConstantKeys(p)) = n
         /\ \A i \in 1..n : ConstantKeys(p)[i] = KeyOf(p, Section("constants"), i)
         /\ Blocks(n) \in Pieces /\ Len(Blocks(n)) = n /\ RecordsWritten(p, "constants") \in Pieces
         /\ ConstantsTail(p) \in Pieces
         /\ ConstantKeys(p) ++ ConstantsTail(p) \in Pieces
         /\ <<Plain("block")>> ++ (ConstantKeys(p) ++ ConstantsTail(p)) \in Pieces
         /\ ConstantsWritten(p)
              = <<Number(n)>> ++ (<<Plain("block")>> ++ (ConstantKeys(p) ++ ConstantsTail(p)))
         /\ ConstantsWritten(p) \in Pieces
<1> DEFINE n == Len(p.constants)
           a == <<Number(n)>>
           b == <<Plain("block")>>
           c == ConstantKeys(p)
           d == Blocks(n)
           e == RecordsWritten(p, "constants")
           vec == Section("constants")
<1>1. n \in Nat /\ DOMAIN p.constants = 1..n /\ \A i \in 1..n : p.constants[i] \in {0, 59} \cup 22..26
  BY ContentsIs
<1>2. Number(n) \in Elem /\ a \in Pieces /\ b \in Pieces
  BY <1>1, NumberIs, PlainIs, OneIs
<1>3. vec \in Vecs
  <2>1. 0 \in Nat
    OBVIOUS
  <2> QED BY <2>1, VecIs
<1>4. c = [i \in 1..n |-> c[i]] /\ \A i \in 1..n : c[i] = KeyOf(p, vec, i)
  BY <1>1 DEF ConstantKeys, KeyOf
<1>5. ASSUME NEW i \in 1..n PROVE c[i] \in Elem
  <2>1. \A m \in {0, 1} : m \in Nat /\ i \in Nat
    BY <1>1
  <2>2. "key" \in Names
    BY DEF Names
  <2>3. \A m \in {0, 1} : Field("key", vec, i, m) \in Elem
    BY <1>3, <2>1, <2>2, FieldType
  <2>4. \E m \in {0, 1} : KeyOf(p, vec, i) = Field("key", vec, i, m)
    BY DEF KeyOf
  <2> QED BY <1>4, <2>3, <2>4
<1>6. d \in Pieces /\ Len(d) = n
  BY <1>1, BlocksIs
<1>7. e \in Pieces
  <2>1. "constants" \in Kinds
    BY DEF Kinds
  <2> QED BY <2>1, RecordsAre
<1>8. <<Number(n), Plain("block")>> = a ++ b
  BY <1>2, PlainIs, Two
<1>9. ConstantsWritten(p) = ((a ++ b) ++ c ++ d) ++ e
  BY <1>8 DEF ConstantsWritten, ++
<1>10. ConstantsTail(p) = d ++ e
  BY DEF ConstantsTail
<1> HIDE DEF c, n
<1>11. c \in Pieces /\ Len(c) = n
  BY <1>1, <1>4, <1>5, RunIs
<1> HIDE DEF a, b, d, e
<1>12. (((a ++ b) ++ c) ++ d) ++ e = a ++ (b ++ (c ++ (d ++ e))) /\ d ++ e \in Pieces /\ c ++ (d ++ e) \in Pieces
       /\ b ++ (c ++ (d ++ e)) \in Pieces
  BY <1>2, <1>6, <1>7, <1>11, Right4
<1>13. a ++ (b ++ (c ++ (d ++ e))) \in Pieces
  BY <1>2, <1>12, ConcatIs
<1>14. ConstantsWritten(p) = a ++ (b ++ (c ++ (d ++ e)))
  BY <1>9, <1>12
<1> QED BY <1>1, <1>2, <1>4, <1>6, <1>7, <1>10, <1>11, <1>12, <1>13, <1>14, PlainIs DEF a, b, c, d, e, n

(* The parts a segment is made of.                                         *)
PartNames == {"info", "libraries", "modules", "subs", "globals", "structs", "dlls", "windows", "constants", "ast"}

LEMMA InfoType ==
  InfoNames \in Seq(PlainNames) /\ Len(InfoNames) = 12 /\ DOMAIN InfoNames = 1..12
<1>1. /\ "name" \in PlainNames /\ "description" \in PlainNames /\ "author" \in PlainNames /\ "code" \in PlainNames
      /\ "address" \in PlainNames /\ "telephone" \in PlainNames /\ "fox" \in PlainNames /\ "email" \in PlainNames
      /\ "host" \in PlainNames /\ "copyright" \in PlainNames /\ "version" \in PlainNames /\ "create" \in PlainNames
  BY DEF PlainNames, Names
<1> HIDE DEF PlainNames
<1>2. InfoNames \in Seq(PlainNames) /\ Len(InfoNames) = 12
  BY <1>1 DEF InfoNames
<1> QED BY <1>2

LEMMA InfoIs ==
  Fields(Section("info"), 1, InfoNames) \in Pieces /\ Len(Fields(Section("info"), 1, InfoNames)) = 12
<1>1. Section("info") \in Vecs /\ 1 \in Nat
  <2>1. 0 \in Nat
    OBVIOUS
  <2> QED BY <2>1, VecIs
<1>2. \A i \in Nat : Fields(Section("info"), i, InfoNames) \in Pieces /\ Len(Fields(Section("info"), i, InfoNames)) = 12
  BY <1>1, InfoType, NamesMono, FieldsIs
<1> QED BY <1>1, <1>2

LEMMA PartType ==
  ASSUME NEW p, IsContents(p), NEW s \in PartNames
  PROVE  PartWritten(p, s) \in Pieces
<1>1. CASE s = "info"
  BY <1>1, InfoIs DEF PartWritten
<1>2. CASE s = "libraries"
  BY <1>2, LibrariesIs DEF PartWritten
<1>3. CASE s = "modules"
  <2>1. "modules" \in Kinds
    BY DEF Kinds
  <2>2. SectionWritten(p, "modules") \in Pieces /\ ModulesHead(p) \in Pieces
    BY <2>1, SectionWrittenIs, ModulesHeadIs
  <2>3. PartWritten(p, s) = ModulesHead(p) ++ SectionWritten(p, "modules")
    BY <1>3 DEF PartWritten, ++
  <2> QED BY <2>2, <2>3, ConcatIs
<1>4. CASE s = "globals"
  BY <1>4, ContentsIs, GlobalVec, VarsIs DEF PartWritten
<1>5. CASE s = "constants"
  BY <1>5, ConstantsIs DEF PartWritten
<1>6. CASE s = "ast"
  BY <1>6, PlainIs, OneIs DEF PartWritten
<1>7. CASE s \in {"subs", "structs", "dlls", "windows"}
  <2>1. s \in Kinds
    BY <1>7 DEF Kinds
  <2>2. PartWritten(p, s) = SectionWritten(p, s)
    BY <1>7 DEF PartWritten
  <2> QED BY <2>1, <2>2, SectionWrittenIs
<1> QED BY <1>1, <1>2, <1>3, <1>4, <1>5, <1>6, <1>7 DEF PartNames

LEMMA PartsAre ==
  ASSUME NEW p, IsContents(p), NEW parts \in Seq(PartNames)
  PROVE  /\ PartsWritten(p, parts) \in Pieces
         /\ PartsWritten(p, <<>>) = <<>>
         /\ parts # <<>> =>
              /\ parts[1] \in PartNames /\ PartWritten(p, parts[1]) \in Pieces
              /\ PartsWritten(p, Tail(parts)) \in Pieces
              /\ PartsWritten(p, parts) = PartWritten(p, parts[1]) ++ PartsWritten(p, Tail(parts))
<1> DEFINE W(q) == [j \in DOMAIN q |-> PartWritten(p, q[j])]
<1>1. ASSUME NEW q \in Seq(PartNames)
      PROVE  /\ W(q) \in Seq(Pieces) /\ Len(W(q)) = Len(q) /\ PartsWritten(p, q) = FlattenSeq(W(q))
             /\ \A j \in 1..Len(q) : W(q)[j] = PartWritten(p, q[j])
             /\ W(q) = [j \in 1..Len(q) |-> W(q)[j]]
  <2>1. Len(q) \in Nat /\ DOMAIN q = 1..Len(q) /\ \A j \in 1..Len(q) : q[j] \in PartNames
    OBVIOUS
  <2>2. W(q) = [j \in 1..Len(q) |-> W(q)[j]] /\ \A j \in 1..Len(q) : W(q)[j] = PartWritten(p, q[j])
    BY <2>1
  <2>3. \A j \in 1..Len(q) : W(q)[j] \in Pieces
    BY <2>1, <2>2, PartType
  <2>4. PartsWritten(p, q) = FlattenSeq(W(q))
    BY DEF PartsWritten
  <2> HIDE DEF W
  <2>5. W(q) \in Seq(Pieces) /\ Len(W(q)) = Len(q)
    BY <2>1, <2>2, <2>3, SeqIs
  <2> QED BY <2>2, <2>4, <2>5
<1>2. PartsWritten(p, <<>>) = <<>>
  <2>1. [j \in DOMAIN <<>> |-> PartWritten(p, <<>>[j])] = <<>>
    OBVIOUS
  <2> QED BY <2>1, FlattenEmpty DEF PartsWritten
<1>3. ASSUME parts # <<>>
      PROVE  /\ parts[1] \in PartNames /\ PartWritten(p, parts[1]) \in Pieces
             /\ PartsWritten(p, Tail(parts)) \in Pieces
             /\ PartsWritten(p, parts) = PartWritten(p, parts[1]) ++ PartsWritten(p, Tail(parts))
  <2> DEFINE x == W(parts)
             y == W(Tail(parts))
  <2>1. /\ Tail(parts) \in Seq(PartNames) /\ Len(Tail(parts)) = Len(parts) - 1 /\ Len(parts) \in Nat \ {0}
        /\ \A j \in 1..(Len(parts) - 1) : Tail(parts)[j] = parts[j + 1] /\ j + 1 \in 1..Len(parts)
        /\ parts[1] \in PartNames
    BY <1>3
  <2>2. /\ x \in Seq(Pieces) /\ Len(x) = Len(parts) /\ PartsWritten(p, parts) = FlattenSeq(x)
        /\ \A j \in 1..Len(parts) : x[j] = PartWritten(p, parts[j])
    BY <1>1
  <2>3. /\ y \in Seq(Pieces) /\ PartsWritten(p, Tail(parts)) = FlattenSeq(y)
        /\ \A j \in 1..(Len(parts) - 1) : y[j] = PartWritten(p, Tail(parts)[j])
        /\ y = [j \in 1..(Len(parts) - 1) |-> y[j]]
    BY <1>1, <2>1
  <2> HIDE DEF x, y, W
  <2>4. \A j \in 1..(Len(parts) - 1) : y[j] = x[j + 1]
    BY <2>1, <2>2, <2>3
  <2>5. x # <<>>
    BY <2>1, <2>2
  <2>6. Tail(x) = y
    BY <2>2, <2>3, <2>4, <2>5, TailSame
  <2>7. FlattenSeq(x) = x[1] ++ FlattenSeq(y)
    BY <2>2, <2>5, <2>6, FlattenHead
  <2>8. x[1] = PartWritten(p, parts[1]) /\ x[1] \in Pieces
    BY <2>1, <2>2, <2>5
  <2>9. FlattenSeq(y) \in Pieces
    BY <2>3, FlattenType
  <2> QED BY <2>1, <2>2, <2>3, <2>7, <2>8, <2>9
<1> HIDE DEF W
<1>4. PartsWritten(p, parts) \in Pieces
  BY <1>1, FlattenType
<1> QED BY <1>2, <1>3, <1>4

LEMMA PartsStep ==
  ASSUME NEW p, IsContents(p), NEW q, NEW a, NEW t, q \in Seq(PartNames), q # <<>>, q[1] = a, Tail(q) = t
  PROVE  PartsWritten(p, q) = PartWritten(p, a) ++ PartsWritten(p, t)
BY PartsAre

LEMMA PartsOne ==
  ASSUME NEW p, IsContents(p), NEW s \in PartNames
  PROVE  PartsWritten(p, <<s>>) = PartWritten(p, s)
<1> DEFINE q == <<s>>
           t == <<>>
<1>1. q \in Seq(PartNames) /\ q # <<>> /\ q[1] = s /\ Tail(q) = t
  OBVIOUS
<1>2. PartsWritten(p, t) = <<>>
  BY <1>1, PartsAre
<1> HIDE DEF q, t
<1>3. PartsWritten(p, q) = PartWritten(p, s) ++ PartsWritten(p, t)
  BY <1>1, PartsStep
<1>4. PartWritten(p, s) ++ <<>> = PartWritten(p, s)
  BY PartType, ConcatEmpty
<1>5. PartsWritten(p, q) = PartWritten(p, s)
  BY <1>2, <1>3, <1>4, Zenon
<1> QED BY <1>5 DEF q

LEMMA SectionsType ==
  ASSUME NEW t \in 0..9
  PROVE  /\ Sections(t) \in Seq(PartNames)
         /\ t = 1 => Sections(t) = <<"info">>
         /\ t = 3 => Sections(t) = CodeSections
         /\ t = 4 => Sections(t) = <<"windows", "constants">>
         /\ t \in 5..9 => Sections(t) = <<"ast">>
         /\ t \in {0, 2} => Sections(t) = <<>>
<1>1. /\ t = 1 => Sections(t) = <<"info">>
      /\ t = 3 => Sections(t) = CodeSections
      /\ t = 4 => Sections(t) = <<"windows", "constants">>
      /\ t \in 5..9 => Sections(t) = <<"ast">>
      /\ t \in {0, 2} => Sections(t) = <<>>
  BY DEF Sections
<1>2. /\ <<"info">> \in Seq(PartNames) /\ <<"windows", "constants">> \in Seq(PartNames)
      /\ <<"ast">> \in Seq(PartNames) /\ CodeSections \in Seq(PartNames)
  <2>1. /\ "info" \in PartNames /\ "windows" \in PartNames /\ "constants" \in PartNames /\ "ast" \in PartNames
        /\ "libraries" \in PartNames /\ "modules" \in PartNames /\ "subs" \in PartNames
        /\ "globals" \in PartNames /\ "structs" \in PartNames /\ "dlls" \in PartNames
    BY DEF PartNames
  <2> HIDE DEF PartNames
  <2> QED BY <2>1 DEF CodeSections
<1>3. \A T : <<>> \in Seq(T)
  OBVIOUS
<1>4. CASE t \in {0, 2}
  <2>1. Sections(t) = <<>>
    BY <1>1, <1>4
  <2> QED BY <1>1, <1>3, <2>1, Zenon
<1>5. CASE t \notin {0, 2}
  <2>1. t \in {1, 3, 4} \cup 5..9
    BY <1>5
  <2>2. Sections(t) \in Seq(PartNames)
    <3>1. CASE t = 1
      BY <1>1, <1>2, <3>1
    <3>2. CASE t = 3
      BY <1>1, <1>2, <3>2
    <3>3. CASE t = 4
      BY <1>1, <1>2, <3>3
    <3>4. CASE t \in 5..9
      BY <1>1, <1>2, <3>4
    <3> QED BY <2>1, <3>1, <3>2, <3>3, <3>4
  <2> QED BY <1>1, <2>2
<1> QED BY <1>4, <1>5

(* The code and the resources are the parts the readers take them for.     *)
LEMMA CodeIs ==
  ASSUME NEW p, IsContents(p)
  PROVE  CodeWritten(p) = PartsWritten(p, CodeSections)
<1> DEFINE L == LibrariesWritten(p)
           B == Blocks(1)
           P == Sized(Blocks(p.pad))
           Q == Sized(Blocks(1))
           M == SectionWritten(p, "modules")
           S == SectionWritten(p, "subs")
           G == VarsWritten(Section("globals"), p.globals, p.pad)
           T == SectionWritten(p, "structs")
           D == SectionWritten(p, "dlls")
<1>1. CodeWritten(p) = (((((((L ++ B) ++ P) ++ Q) ++ M) ++ S) ++ G) ++ T) ++ D
  BY DEF CodeWritten, ++
<1>2. /\ "modules" \in Kinds /\ "subs" \in Kinds /\ "structs" \in Kinds /\ "dlls" \in Kinds
  BY DEF Kinds
<1>3. /\ L \in Pieces /\ B \in Pieces /\ P \in Pieces /\ Q \in Pieces /\ M \in Pieces /\ S \in Pieces
      /\ G \in Pieces /\ T \in Pieces /\ D \in Pieces
  BY <1>2, LibrariesIs, ModulesHeadIs, SectionWrittenIs, ContentsIs, GlobalVec, VarsIs
<1>4. ModulesHead(p) = B ++ (P ++ Q)
  BY ModulesHeadIs
<1>5. /\ PartWritten(p, "libraries") = L /\ PartWritten(p, "modules") = ModulesHead(p) ++ M
      /\ PartWritten(p, "subs") = S /\ PartWritten(p, "globals") = G
      /\ PartWritten(p, "structs") = T /\ PartWritten(p, "dlls") = D
  BY DEF PartWritten, ++
<1>6. PartsWritten(p, CodeSections) = L ++ ((ModulesHead(p) ++ M) ++ (S ++ (G ++ (T ++ D))))
  <2> DEFINE q1 == CodeSections
             q2 == <<"modules", "subs", "globals", "structs", "dlls">>
             q3 == <<"subs", "globals", "structs", "dlls">>
             q4 == <<"globals", "structs", "dlls">>
             q5 == <<"structs", "dlls">>
             q6 == <<"dlls">>
  <2>1. /\ "libraries" \in PartNames /\ "modules" \in PartNames /\ "subs" \in PartNames
        /\ "globals" \in PartNames /\ "structs" \in PartNames /\ "dlls" \in PartNames
    BY DEF PartNames
  <2>21. q1 \in Seq(PartNames) /\ q1 # <<>> /\ q1[1] = "libraries" /\ Tail(q1) = q2
    <3> HIDE DEF PartNames
    <3> QED BY <2>1 DEF CodeSections
  <2>22. q2 \in Seq(PartNames) /\ q2 # <<>> /\ q2[1] = "modules" /\ Tail(q2) = q3
    <3> HIDE DEF PartNames
    <3> QED BY <2>1
  <2>23. q3 \in Seq(PartNames) /\ q3 # <<>> /\ q3[1] = "subs" /\ Tail(q3) = q4
    <3> HIDE DEF PartNames
    <3> QED BY <2>1
  <2>3. /\ q4 \in Seq(PartNames) /\ q4 # <<>> /\ q4[1] = "globals" /\ Tail(q4) = q5
        /\ q5 \in Seq(PartNames) /\ q5 # <<>> /\ q5[1] = "structs" /\ Tail(q5) = q6
    <3> HIDE DEF PartNames
    <3> QED BY <2>1
  <2>4. PartsWritten(p, q6) = PartWritten(p, "dlls")
    BY <2>1, PartsOne
  <2> HIDE DEF q1, q2, q3, q4, q5, q6, L, S, G, T, D, M, B, P, Q
  <2>5. PartsWritten(p, q1) = PartWritten(p, "libraries") ++ PartsWritten(p, q2)
    BY <2>21, PartsStep
  <2>6. PartsWritten(p, q2) = PartWritten(p, "modules") ++ PartsWritten(p, q3)
    BY <2>22, PartsStep
  <2>7. PartsWritten(p, q3) = PartWritten(p, "subs") ++ PartsWritten(p, q4)
    BY <2>23, PartsStep
  <2>8. PartsWritten(p, q4) = PartWritten(p, "globals") ++ PartsWritten(p, q5)
    BY <2>3, PartsStep
  <2>9. PartsWritten(p, q5) = PartWritten(p, "structs") ++ PartsWritten(p, q6)
    BY <2>3, PartsStep
  <2>10. PartsWritten(p, q1) = L ++ ((ModulesHead(p) ++ M) ++ (S ++ (G ++ (T ++ D))))
    BY <1>5, <2>4, <2>5, <2>6, <2>7, <2>8, <2>9
  <2> QED BY <2>10 DEF q1
<1> DEFINE H == P ++ Q
           R == S ++ (G ++ (T ++ D))
<1>7. ModulesHead(p) = B ++ H
  BY <1>4
<1> HIDE DEF L, B, P, Q, M, S, G, T, D
<1>8. /\ T ++ D \in Pieces /\ G ++ (T ++ D) \in Pieces /\ R \in Pieces /\ H \in Pieces
  BY <1>3, ConcatIs DEF R, H
<1>9. ((L ++ B) ++ P) ++ Q = L ++ (B ++ H) /\ B ++ H \in Pieces
  BY <1>3, Right3 DEF H
<1> DEFINE Z == B ++ H
           Y == L ++ Z
<1>10. Z \in Pieces /\ Y \in Pieces
  BY <1>3, <1>9, ConcatIs
<1>11. ((((Y ++ M) ++ S) ++ G) ++ T) ++ D = (Y ++ M) ++ R
  <2> HIDE DEF Z, Y, H
  <2> DEFINE X == Y ++ M
  <2>1. X \in Pieces
    BY <1>3, <1>10, ConcatIs
  <2> HIDE DEF X
  <2>2. (((X ++ S) ++ G) ++ T) ++ D = X ++ (S ++ (G ++ (T ++ D)))
    BY <1>3, <2>1, Right4
  <2> QED BY <2>2 DEF X, R
<1>12. (Y ++ M) ++ R = L ++ ((Z ++ M) ++ R)
  <2>0. R \in Pieces /\ M \in Pieces /\ L \in Pieces
    BY <1>3, <1>8
  <2>2. Y = L ++ Z
    OBVIOUS
  <2> HIDE DEF R, Z, Y
  <2>1. (Y ++ M) ++ R = Y ++ (M ++ R) /\ (Z ++ M) ++ R = Z ++ (M ++ R) /\ M ++ R \in Pieces
    BY <1>10, <2>0, Assoc, ConcatIs
  <2>3. Y ++ (M ++ R) = L ++ (Z ++ (M ++ R))
    BY <1>10, <2>0, <2>1, <2>2, Assoc
  <2> QED BY <2>1, <2>3
<1>13. CodeWritten(p) = ((((Y ++ M) ++ S) ++ G) ++ T) ++ D
  BY <1>1, <1>9
<1>14. PartsWritten(p, CodeSections) = L ++ ((Z ++ M) ++ R)
  BY <1>6, <1>7
<1> HIDE DEF R, Z, Y
<1> QED BY <1>11, <1>12, <1>13, <1>14

LEMMA ResourcesAre ==
  ASSUME NEW p, IsContents(p)
  PROVE  ResourcesWritten(p) = PartsWritten(p, <<"windows", "constants">>)
<1> DEFINE W == SectionWritten(p, "windows")
           N == <<Number(Len(p.constants)), Plain("block")>>
           K == ConstantKeys(p)
           B == Blocks(Len(p.constants))
           R == RecordsWritten(p, "constants")
<1>1. ResourcesWritten(p) = (((W ++ N) ++ K) ++ B) ++ R
  BY DEF ResourcesWritten, ++
<1>2. ConstantsWritten(p) = ((N ++ K) ++ B) ++ R
  BY DEF ConstantsWritten, ++
<1>3. W \in Pieces /\ N \in Pieces /\ K \in Pieces /\ B \in Pieces /\ R \in Pieces
  <2>1. "windows" \in Kinds
    BY DEF Kinds
  <2>2. N \in Pieces
    BY ConstantsIs, Two
  <2> QED BY <2>1, <2>2, SectionWrittenIs, ConstantsIs
<1>4. PartsWritten(p, <<"windows", "constants">>) = W ++ ConstantsWritten(p)
  <2> DEFINE q == <<"windows", "constants">>
             t == <<"constants">>
  <2>1. "windows" \in PartNames /\ "constants" \in PartNames
    BY DEF PartNames
  <2>2. q \in Seq(PartNames) /\ q # <<>> /\ q[1] = "windows" /\ Tail(q) = t
    <3> HIDE DEF PartNames
    <3> QED BY <2>1
  <2>3. PartsWritten(p, t) = PartWritten(p, "constants")
    BY <2>1, PartsOne
  <2> HIDE DEF q, t, W
  <2>4. PartsWritten(p, q) = PartWritten(p, "windows") ++ PartsWritten(p, t)
    BY <2>2, PartsStep
  <2>5. PartWritten(p, "windows") = W /\ PartWritten(p, "constants") = ConstantsWritten(p)
    BY DEF PartWritten, W
  <2>6. PartsWritten(p, q) = W ++ ConstantsWritten(p)
    BY <2>3, <2>4, <2>5
  <2> QED BY <2>6 DEF q
<1> HIDE DEF W, N, K, B, R
<1>5. (((W ++ N) ++ K) ++ B) ++ R = W ++ (N ++ (K ++ (B ++ R)))
  BY <1>3, Right4
<1>6. ((N ++ K) ++ B) ++ R = N ++ (K ++ (B ++ R))
  BY <1>3, Right3
<1> QED BY <1>1, <1>2, <1>4, <1>5, <1>6

-----------------------------------------------------------------------------
(* Segments.                                                               *)
LEMMA ContentIs ==
  ASSUME NEW p, NEW t \in 0..9, t \notin {0, 2}
  PROVE  Content(p, t) = PartsWritten(p, Sections(t))
BY DEF Content

LEMMA ContentType ==
  ASSUME NEW p, IsContents(p), NEW t \in 0..9
  PROVE  Content(p, t) \in Pieces
<1>1. CASE t = 2
  <2>1. \A m \in Nat : Blocks(m) \in Pieces
    BY BlocksIs
  <2> QED BY <1>1, <2>1 DEF Content
<1>2. CASE t = 0
  BY <1>2, PlainIs, OneIs DEF Content
<1>3. CASE t \notin {0, 2}
  <2>1. Content(p, t) = PartsWritten(p, Sections(t))
    BY <1>3 DEF Content
  <2> QED BY <2>1, SectionsType, PartsAre
<1> QED BY <1>1, <1>2, <1>3

Header(t) == (<<Plain("junk")>> ++ <<Plain("start")>>) ++ (<<Number(0)>> ++ <<Number(t)>>)

LEMMA HeaderIs ==
  ASSUME NEW t \in 0..9
  PROVE  /\ <<Plain("junk"), Plain("start"), Number(0), Number(t)>> = Header(t)
         /\ <<Plain("junk")>> \in Pieces /\ <<Plain("start")>> \in Pieces
         /\ <<Number(0)>> \in Pieces /\ <<Number(t)>> \in Pieces
         /\ Number(0) \in Elem /\ Number(t) \in Elem
         /\ Header(t) \in Pieces /\ Len(Header(t)) = 4
<1>1. Plain("junk") \in Elem /\ Plain("start") \in Elem
  BY PlainIs
<1>2. Number(0) \in Elem /\ Number(t) \in Elem
  <2>1. \A m \in Nat : Number(m) \in Elem
    BY NumberIs
  <2>2. 0 \in Nat /\ t \in Nat
    OBVIOUS
  <2> QED BY <2>1, <2>2
<1> DEFINE w == Plain("junk")
           x == Plain("start")
           y == Number(0)
           z == Number(t)
<1>3. w \in Elem /\ x \in Elem /\ y \in Elem /\ z \in Elem
  BY <1>1, <1>2
<1>4. Header(t) = (<<w>> ++ <<x>>) ++ (<<y>> ++ <<z>>)
  BY DEF Header
<1> HIDE DEF w, x, y, z
<1>5. <<w>> \in Pieces /\ <<x>> \in Pieces /\ <<y>> \in Pieces /\ <<z>> \in Pieces
  BY <1>3, OneIs
<1>6. <<w, x>> = <<w>> ++ <<x>> /\ <<w, x>> \in Pieces /\ <<y, z>> = <<y>> ++ <<z>> /\ <<y, z>> \in Pieces
  BY <1>3, Two
<1> DEFINE a == <<w, x>>
           b == <<y, z>>
           c == <<w, x, y, z>>
<1>7. c \in Pieces /\ Len(c) = 4 /\ c[1] = w /\ c[2] = x /\ c[3] = y /\ c[4] = z
  BY <1>3 DEF Pieces
<1>8. a \in Pieces /\ Len(a) = 2 /\ a[1] = w /\ a[2] = x
  BY <1>6
<1>9. b \in Pieces /\ Len(b) = 2 /\ b[1] = y /\ b[2] = z
  BY <1>6
<1>10. Header(t) = a ++ b
  BY <1>4, <1>6
<1> HIDE DEF a, b, c
<1>11. /\ a ++ b \in Pieces /\ Len(a ++ b) = Len(a) + Len(b)
       /\ \A k \in 1..Len(a) : (a ++ b)[k] = a[k]
       /\ \A k \in 1..Len(b) : (a ++ b)[Len(a) + k] = b[k]
  BY <1>8, <1>9, ConcatIs
<1> DEFINE v == a ++ b
<1> HIDE DEF v
<1>12. v \in Pieces /\ Len(v) = 4 /\ v[1] = w /\ v[2] = x /\ v[3] = y /\ v[4] = z
  <2>1. 1 \in 1..2 /\ 2 \in 1..2 /\ 2 + 1 = 3 /\ 2 + 2 = 4
    OBVIOUS
  <2> QED BY <1>8, <1>9, <1>11, <2>1 DEF v
<1>13. \A k \in 1..Len(c) : c[k] = v[k]
  BY <1>7, <1>12
<1>14. c = v
  BY <1>7, <1>12, <1>13, SameSeq
<1>15. c = Header(t) /\ Header(t) \in Pieces /\ Len(Header(t)) = 4
  BY <1>10, <1>12, <1>14 DEF v
<1> QED BY <1>3, <1>5, <1>15 DEF c, w, x, y, z

Body(p, k) ==
  IF CutShort(p, k) THEN <<>>
  ELSE <<Plain("block")>> ++ (Marks(k) ++ (Trailer(k) ++ Content(p.contents[k], p.segments[k])))

LEMMA BlockOne == Blocks(1) = <<Plain("block")>>
<1>1. \A m \in Nat : Blocks(m) \in Pieces /\ Len(Blocks(m)) = m /\ \A k \in 1..m : Blocks(m)[k] = Plain("block")
  BY BlocksIs
<1>2. Blocks(1) \in Pieces /\ Len(Blocks(1)) = 1 /\ Blocks(1)[1] = Plain("block")
  <2>1. 1 \in Nat /\ 1 \in 1..1
    OBVIOUS
  <2> HIDE DEF Blocks, Plain
  <2> QED BY <1>1, <2>1, Zenon
<1>3. <<Plain("block")>> \in Pieces /\ Len(<<Plain("block")>>) = 1 /\ <<Plain("block")>>[1] = Plain("block")
  BY PlainIs, OneIs
<1> DEFINE a == Blocks(1)
           b == <<Plain("block")>>
<1>4. a \in Pieces /\ b \in Pieces /\ Len(a) = 1 /\ Len(b) = 1 /\ a[1] = b[1]
  BY <1>2, <1>3
<1> HIDE DEF a, b
<1>5. \A k \in 1..Len(a) : a[k] = b[k]
  BY <1>4
<1>6. a = b
  BY <1>4, <1>5, SameSeq
<1> QED BY <1>6 DEF a, b

LEMMA TrailerIs ==
  ASSUME NEW k \in Nat
  PROVE  /\ Trailer(k) \in Pieces /\ Len(Trailer(k)) = 3
         /\ Trailer(k) = <<Plain("block")>> ++ (<<Number(k)>> ++ <<Plain("block")>>)
         /\ Number(k) \in Elem /\ <<Number(k)>> ++ <<Plain("block")>> \in Pieces
<1> DEFINE b == Plain("block")
           n == Number(k)
<1>1. b \in Elem /\ n \in Elem
  BY PlainIs, NumberIs
<1>2. Trailer(k) = <<b, n, b>>
  BY DEF Trailer
<1> HIDE DEF b, n
<1>3. <<b, n, b>> = (<<b>> ++ <<n>>) ++ <<b>> /\ <<b>> \in Pieces /\ <<n>> \in Pieces
  BY <1>1, Three, OneIs
<1> DEFINE x == <<b>>
           y == <<n>>
<1>4. <<b, n, b>> = (x ++ y) ++ x /\ x \in Pieces /\ y \in Pieces
  BY <1>3
<1>5. <<b, n, b>> \in Pieces /\ Len(<<b, n, b>>) = 3
  BY <1>1 DEF Pieces
<1> HIDE DEF x, y
<1>6. (x ++ y) ++ x = x ++ (y ++ x) /\ y ++ x \in Pieces
  BY <1>4, Assoc, ConcatIs
<1>7. Trailer(k) = x ++ (y ++ x)
  BY <1>2, <1>4, <1>6
<1> QED BY <1>1, <1>2, <1>5, <1>6, <1>7 DEF x, y, b, n

LEMMA SegmentIs ==
  ASSUME NEW p, IsProgram(p), NEW k \in 1..Len(p.segments)
  PROVE  /\ k \in Nat /\ p.segments[k] \in 0..9
         /\ <<Plain("block")>> \in Pieces
         /\ Marks(k) \in Pieces /\ Trailer(k) \in Pieces
         /\ Content(p.contents[k], p.segments[k]) \in Pieces
         /\ Body(p, k) \in Pieces
         /\ SegmentWritten(p, k) = Header(p.segments[k]) ++ Body(p, k)
         /\ SegmentWritten(p, k) \in Pieces
<1> DEFINE t == p.segments[k]
           g == p.contents[k]
           C == Content(g, t)
<1>1. k \in Nat /\ t \in 0..9 /\ IsContents(g)
  BY ProgramIs
<1>2. <<Plain("block")>> \in Pieces /\ Marks(k) \in Pieces /\ Trailer(k) \in Pieces
  BY <1>1, PlainIs, OneIs, MarksIs, TrailerIs
<1>3. C \in Pieces
  BY <1>1, ContentType
<1> DEFINE h == <<Plain("junk"), Plain("start"), Number(0), Number(t)>>
           b == Blocks(1)
           m == Marks(k)
           e == Trailer(k)
           D == CASE t = 1 -> Fields(Section("info"), 1,
                             <<"name", "description", "author", "code", "address", "telephone", "fox",
                               "email", "host", "copyright", "version", "create">>)
                  [] t = 2 -> Blocks(1)
                  [] t = 3 -> CodeWritten(g)
                  [] t = 4 -> ResourcesWritten(g)
                  [] OTHER -> <<Plain("junk")>>
<1>4. D = C
  <2>1. CASE t = 1
    <3>1. C = PartWritten(g, "info")
      <4>1. "info" \in PartNames
        BY DEF PartNames
      <4> QED BY <1>1, <2>1, <4>1, SectionsType, PartsOne, ContentIs
    <3>2. PartWritten(g, "info") = Fields(Section("info"), 1, InfoNames)
      BY DEF PartWritten
    <3>3. D = Fields(Section("info"), 1, InfoNames)
      BY <2>1 DEF InfoNames
    <3> QED BY <3>1, <3>2, <3>3
  <2>2. CASE t = 2
    BY <2>2 DEF Content
  <2>3. CASE t = 3
    <3>1. C = PartsWritten(g, CodeSections)
      BY <1>1, <2>3, SectionsType, ContentIs
    <3>2. D = CodeWritten(g)
      BY <2>3
    <3> QED BY <1>1, <3>1, <3>2, CodeIs
  <2>4. CASE t = 4
    <3>1. C = PartsWritten(g, <<"windows", "constants">>)
      <4>1. Sections(t) = <<"windows", "constants">>
        BY <1>1, <2>4, SectionsType
      <4>2. C = PartsWritten(g, Sections(t))
        BY <1>1, <2>4, ContentIs
      <4> QED BY <4>1, <4>2
    <3>2. D = ResourcesWritten(g)
      BY <2>4
    <3> QED BY <1>1, <3>1, <3>2, ResourcesAre
  <2>5. CASE t \in 5..9
    <3>1. C = PartWritten(g, "ast")
      <4>1. "ast" \in PartNames
        BY DEF PartNames
      <4>2. C = PartsWritten(g, <<"ast">>)
        <5>1. Sections(t) = <<"ast">>
          BY <1>1, <2>5, SectionsType
        <5>2. C = PartsWritten(g, Sections(t))
          BY <1>1, <2>5, ContentIs
        <5> QED BY <5>1, <5>2
      <4> QED BY <1>1, <4>1, <4>2, PartsOne
    <3>2. PartWritten(g, "ast") = <<Plain("junk")>>
      BY DEF PartWritten
    <3>3. D = <<Plain("junk")>>
      BY <2>5
    <3> QED BY <3>1, <3>2, <3>3
  <2>6. CASE t = 0
    BY <2>6 DEF Content
  <2> QED BY <1>1, <2>1, <2>2, <2>3, <2>4, <2>5, <2>6
<1>5. SegmentWritten(p, k) = h ++ IF CutShort(p, k) THEN <<>> ELSE ((b ++ m) ++ e) ++ D
  BY DEF SegmentWritten, CutShort, Marks, Trailer, ++
<1>6. h = Header(t) /\ Header(t) \in Pieces
  BY <1>1, HeaderIs
<1>7. Body(p, k) = IF CutShort(p, k) THEN <<>> ELSE b ++ (m ++ (e ++ C))
  BY BlockOne DEF Body
<1>8. b \in Pieces /\ m \in Pieces /\ e \in Pieces
  BY <1>2, BlockOne
<1> HIDE DEF C, D, b, m, e, h, g
<1>9. ((b ++ m) ++ e) ++ C = b ++ (m ++ (e ++ C)) /\ b ++ (m ++ (e ++ C)) \in Pieces
  <2>1. (b ++ m ++ e) ++ C = b ++ (m ++ (e ++ C)) /\ b ++ m ++ e \in Pieces
    BY <1>3, <1>8, Right3
  <2> QED BY <1>3, <2>1, ConcatIs
<1>10. SegmentWritten(p, k) = Header(t) ++ Body(p, k)
  BY <1>4, <1>5, <1>6, <1>7, <1>9
<1>11. Body(p, k) \in Pieces
  <2>1. <<>> \in Pieces
    BY DEF Pieces
  <2> QED BY <1>7, <1>9, <2>1
<1>12. SegmentWritten(p, k) \in Pieces
  BY <1>6, <1>10, <1>11, ConcatIs
<1> QED BY <1>1, <1>2, <1>3, <1>10, <1>11, <1>12 DEF C, g

(* The segments behind one.                                                *)
LEMMA AfterIs ==
  ASSUME NEW p, IsProgram(p)
  PROVE  /\ After(p, 0) = FlattenSeq([k \in DOMAIN p.segments |-> SegmentWritten(p, k)])
         /\ FlattenSeq([k \in DOMAIN p.segments |-> SegmentWritten(p, k)]) \in Pieces
         /\ After(p, Len(p.segments)) = <<>>
         /\ \A k \in 0..Len(p.segments) : After(p, k) \in Pieces
         /\ \A k \in 0..(Len(p.segments) - 1) :
              After(p, k) = SegmentWritten(p, k + 1) ++ After(p, k + 1)
<1> DEFINE n == Len(p.segments)
           x == [k \in DOMAIN p.segments |-> SegmentWritten(p, k)]
<1>1. n \in Nat /\ DOMAIN p.segments = 1..n
  BY ProgramIs
<1>2. x = [k \in 1..n |-> x[k]] /\ \A k \in 1..n : x[k] = SegmentWritten(p, k) /\ x[k] \in Pieces
  BY <1>1, SegmentIs
<1>3. \A k : After(p, k) = From(x, k + 1)
  BY DEF After
<1> HIDE DEF x, n
<1>4. x \in Seq(Pieces) /\ Len(x) = n
  BY <1>1, <1>2, SeqIs
<1>5. /\ From(x, 1) = FlattenSeq(x) /\ From(x, n + 1) = <<>>
      /\ \A k \in 1..(n + 1) : From(x, k) \in Pieces
      /\ \A k \in 1..n : From(x, k) = x[k] ++ From(x, k + 1)
  BY <1>4, FromIs
<1>6. After(p, 0) = FlattenSeq(x)
  <2>1. 0 + 1 = 1
    OBVIOUS
  <2> QED BY <1>3, <1>5, <2>1
<1>7. FlattenSeq(x) \in Pieces
  BY <1>4, FlattenType
<1>8. \A k \in 0..n : After(p, k) \in Pieces
  <2>1. \A k \in 0..n : k + 1 \in 1..(n + 1)
    BY <1>1
  <2> QED BY <1>3, <1>5, <2>1
<1>9. \A k \in 0..(n - 1) : After(p, k) = SegmentWritten(p, k + 1) ++ After(p, k + 1)
  <2>1. \A k \in 0..(n - 1) : k + 1 \in 1..n
    BY <1>1
  <2> QED BY <1>2, <1>3, <1>5, <2>1
<1> QED BY <1>3, <1>5, <1>6, <1>7, <1>8, <1>9 DEF x, n

-----------------------------------------------------------------------------
(* What is left of a loop, as pieces.                                      *)
VarsRest(p, vec, at) == From(Vars(p, vec), at + 1) ++ Blocks(p.pad)
RecordsRest(p, s, at, lists) == ListsWritten(p, s, at, lists) ++ From(Records(p, s), at + 1)

LEMMA NotVars ==
  ASSUME NEW s \in Kinds
  PROVE  ~IsVars(Section(s)) /\ Section(s) # Section("globals")
<1>1. s # "globals"
  BY DEF Kinds
<1>2. Section(s)[1] = s /\ Section(s)[3] = "" /\ Section("globals")[1] = "globals"
  BY SectionIs
<1>3. "" \notin VarLists
  BY DEF VarLists
<1> HIDE DEF Section
<1>4. ~IsVars(Section(s))
  BY <1>1, <1>2, <1>3 DEF IsVars
<1>5. Section(s) # Section("globals")
  BY <1>1, <1>2
<1> QED BY <1>4, <1>5

LEMMA VarsRestIs ==
  ASSUME NEW p, IsContents(p), NEW vec, IsVec(p, vec)
  PROVE  /\ vec \in Vecs /\ Size(p, vec) \in Nat /\ p.pad \in Nat /\ Blocks(p.pad) \in Pieces
         /\ \A at \in 0..Size(p, vec) : VarsRest(p, vec, at) \in Pieces
         /\ VarsRest(p, vec, 0) = VarsLoop(vec, Size(p, vec), p.pad)
         /\ VarsRest(p, vec, Size(p, vec)) = Blocks(p.pad)
         /\ \A at \in 0..(Size(p, vec) - 1) :
              /\ VarWritten(vec, at + 1, p.pad) \in Pieces /\ VarsRest(p, vec, at + 1) \in Pieces
              /\ VarsRest(p, vec, at) = VarWritten(vec, at + 1, p.pad) ++ VarsRest(p, vec, at + 1)
<1> DEFINE n == Size(p, vec)
           x == Vars(p, vec)
           b == Blocks(p.pad)
           R(at) == VarsRest(p, vec, at)
<1>1. vec \in Vecs /\ n \in Nat /\ p.pad \in Nat /\ b \in Pieces
  BY VecType, SizeType, ContentsIs, BlocksIs
<1>2. x = VarSeq(vec, n, p.pad)
  BY DEF Vars, VarSeq
<1>3. x \in Seq(Pieces) /\ Len(x) = n /\ \A i \in 1..n : x[i] = VarWritten(vec, i, p.pad)
  <2> DEFINE d == p.pad
  <2>1. d \in Nat /\ n \in Nat /\ vec \in Vecs
    BY <1>1
  <2> HIDE DEF n, d
  <2>2. /\ VarSeq(vec, n, d) \in Seq(Pieces) /\ Len(VarSeq(vec, n, d)) = n
        /\ \A i \in 1..n : VarSeq(vec, n, d)[i] = VarWritten(vec, i, d)
    BY <2>1, VarSeqIs
  <2> QED BY <1>2, <2>2 DEF d
<1>4. \A at : R(at) = From(x, at + 1) ++ b
  BY DEF VarsRest
<1>5. VarsLoop(vec, n, p.pad) = FlattenSeq(x) ++ b
  BY <1>2 DEF VarsLoop
<1> HIDE DEF n, x, b, R
<1>6. /\ From(x, 1) = FlattenSeq(x) /\ From(x, n + 1) = <<>>
      /\ \A k \in 1..(n + 1) : From(x, k) \in Pieces
      /\ \A k \in 1..n : From(x, k) = x[k] ++ From(x, k + 1)
  BY <1>3, FromIs
<1>7. \A at \in 0..n : R(at) \in Pieces /\ From(x, at + 1) \in Pieces
  <2>1. \A at \in 0..n : at + 1 \in 1..(n + 1)
    BY <1>1
  <2> QED BY <1>1, <1>4, <1>6, <2>1, ConcatIs
<1>8. R(0) = VarsLoop(vec, n, p.pad)
  <2>1. 0 + 1 = 1
    OBVIOUS
  <2> QED BY <1>4, <1>5, <1>6, <2>1
<1>9. R(n) = b
  BY <1>1, <1>4, <1>6, ConcatEmpty
<1>10. ASSUME NEW at \in 0..(n - 1)
       PROVE  /\ VarWritten(vec, at + 1, p.pad) \in Pieces /\ R(at + 1) \in Pieces
              /\ R(at) = VarWritten(vec, at + 1, p.pad) ++ R(at + 1)
  <2>1. at + 1 \in 1..n /\ at + 1 \in Nat \ {0} /\ at + 1 \in 0..n
    BY <1>1
  <2>2. VarWritten(vec, at + 1, p.pad) \in Pieces
    BY <1>1, <2>1, VarIs
  <2>3. From(x, at + 1) = x[at + 1] ++ From(x, (at + 1) + 1) /\ x[at + 1] = VarWritten(vec, at + 1, p.pad)
    BY <1>3, <1>6, <2>1
  <2>4. From(x, (at + 1) + 1) \in Pieces /\ R(at + 1) \in Pieces /\ R(at + 1) = From(x, (at + 1) + 1) ++ b
    BY <1>4, <1>7, <2>1
  <2>5. (x[at + 1] ++ From(x, (at + 1) + 1)) ++ b = x[at + 1] ++ (From(x, (at + 1) + 1) ++ b)
    BY <1>1, <2>2, <2>3, <2>4, Assoc
  <2> QED BY <1>4, <2>2, <2>3, <2>4, <2>5
<1> QED BY <1>1, <1>7, <1>8, <1>9, <1>10 DEF n, x, b, R

LEMMA RecordsRestIs ==
  ASSUME NEW p, IsContents(p), NEW s \in Kinds
  PROVE  /\ Len(p[s]) \in Nat
         /\ \A at \in 0..Len(p[s]) : From(Records(p, s), at + 1) \in Pieces
         /\ \A at \in 0..Len(p[s]) : RecordsRest(p, s, at, <<>>) = From(Records(p, s), at + 1)
         /\ From(Records(p, s), 0 + 1) = RecordsWritten(p, s)
         /\ From(Records(p, s), Len(p[s]) + 1) = <<>>
         /\ \A at \in 0..(Len(p[s]) - 1) :
              /\ RecordWritten(p, s, at + 1) \in Pieces
              /\ From(Records(p, s), (at + 1) + 1) \in Pieces
              /\ From(Records(p, s), at + 1) = RecordWritten(p, s, at + 1) ++ From(Records(p, s), (at + 1) + 1)
<1> DEFINE n == Len(p[s])
           x == Records(p, s)
<1>1. /\ x \in Seq(Pieces) /\ Len(x) = n /\ n \in Nat
      /\ \A i \in 1..n : x[i] = RecordWritten(p, s, i) /\ RecordWritten(p, s, i) \in Pieces
      /\ RecordsWritten(p, s) = FlattenSeq(x)
  BY RecordsAre
<1>2. \A at : RecordsRest(p, s, at, <<>>) = ListsWritten(p, s, at, <<>>) ++ From(x, at + 1)
  BY DEF RecordsRest
<1>3. \A at : ListsWritten(p, s, at, <<>>) = <<>>
  <2> SUFFICES ASSUME NEW at PROVE ListsWritten(p, s, at, <<>>) = <<>>
    OBVIOUS
  <2>1. [j \in DOMAIN <<>> |-> ListWritten(p, s, at, <<>>[j])] = <<>>
    OBVIOUS
  <2> QED BY <2>1, FlattenEmpty DEF ListsWritten
<1> HIDE DEF n, x
<1>4. /\ From(x, 1) = FlattenSeq(x) /\ From(x, n + 1) = <<>>
      /\ \A k \in 1..(n + 1) : From(x, k) \in Pieces
      /\ \A k \in 1..n : From(x, k) = x[k] ++ From(x, k + 1)
  BY <1>1, FromIs
<1>5. \A at \in 0..n : at + 1 \in 1..(n + 1)
  BY <1>1
<1>6. \A at \in 0..n : From(x, at + 1) \in Pieces
  BY <1>4, <1>5
<1>7. \A at \in 0..n : RecordsRest(p, s, at, <<>>) = From(x, at + 1)
  BY <1>2, <1>3, <1>6, ConcatEmpty
<1>8. From(x, 0 + 1) = RecordsWritten(p, s)
  <2>1. 0 + 1 = 1
    OBVIOUS
  <2> QED BY <1>1, <1>4, <2>1
<1>9. \A at \in 0..(n - 1) :
        /\ RecordWritten(p, s, at + 1) \in Pieces
        /\ From(x, (at + 1) + 1) \in Pieces
        /\ From(x, at + 1) = RecordWritten(p, s, at + 1) ++ From(x, (at + 1) + 1)
  <2>1. \A at \in 0..(n - 1) : at + 1 \in 1..n /\ at + 1 \in 0..n
    BY <1>1
  <2> QED BY <1>1, <1>4, <1>6, <2>1
<1> QED BY <1>1, <1>4, <1>6, <1>7, <1>8, <1>9 DEF n, x

LEMMA ListRest ==
  ASSUME NEW p, IsContents(p), NEW s \in Kinds, NEW at \in 1..Len(p[s]),
         NEW lists \in Seq(ListsOf(s)), lists # <<>>
  PROVE  /\ RecordsRest(p, s, at, lists) = ListWritten(p, s, at, lists[1]) ++ RecordsRest(p, s, at, Tail(lists))
         /\ ListWritten(p, s, at, lists[1]) \in Pieces /\ RecordsRest(p, s, at, Tail(lists)) \in Pieces
         /\ lists[1] \in ListsOf(s)
<1> DEFINE a == ListWritten(p, s, at, lists[1])
           b == ListsWritten(p, s, at, Tail(lists))
           r == From(Records(p, s), at + 1)
<1>1. a \in Pieces /\ b \in Pieces /\ ListsWritten(p, s, at, lists) = a ++ b
  BY ListsIs
<1>2. r \in Pieces
  <2>1. at \in 0..Len(p[s])
    BY KindsIs
  <2> QED BY <2>1, RecordsRestIs
<1>3. RecordsRest(p, s, at, lists) = (a ++ b) ++ r /\ RecordsRest(p, s, at, Tail(lists)) = b ++ r
  BY <1>1 DEF RecordsRest
<1>4. lists[1] \in ListsOf(s)
  OBVIOUS
<1> HIDE DEF a, b, r
<1>5. (a ++ b) ++ r = a ++ (b ++ r) /\ b ++ r \in Pieces
  BY <1>1, <1>2, Assoc, ConcatIs
<1> QED BY <1>1, <1>3, <1>4, <1>5 DEF a

LEMMA ListsRestType ==
  ASSUME NEW p, IsContents(p), NEW s \in Kinds, NEW at \in 0..Len(p[s]),
         NEW lists \in Seq(ListsOf(s)), lists # <<>> => at # 0
  PROVE  RecordsRest(p, s, at, lists) \in Pieces
<1>1. Len(p[s]) \in Nat /\ From(Records(p, s), at + 1) \in Pieces
      /\ RecordsRest(p, s, at, <<>>) = From(Records(p, s), at + 1)
  BY RecordsRestIs
<1>2. CASE lists = <<>>
  <2>1. RecordsRest(p, s, at, lists) = From(Records(p, s), at + 1)
    BY <1>1, <1>2
  <2> QED BY <1>1, <2>1
<1>3. CASE lists # <<>>
  <2>1. at \in 1..Len(p[s])
    BY <1>1, <1>3
  <2>2. ListsWritten(p, s, at, lists) \in Pieces
    BY <2>1, ListsIs
  <2> QED BY <1>1, <2>2, ConcatIs DEF RecordsRest
<1> QED BY <1>2, <1>3

(* Frames.                                                                 *)
LEMMA SectionFrameIs ==
  ASSUME NEW p, IsContents(p), NEW fr, NEW s, SectionFrame(p, fr, s)
  PROVE  /\ s \in Kinds /\ fr.vec = Section(s) /\ fr.at \in 0..Len(p[s]) /\ Len(p[s]) \in Nat
         /\ fr.lists \in TailsOf(ListNames(s)) /\ fr.lists \in Seq(ListsOf(s))
         /\ fr.lists # <<>> => fr.at \in 1..Len(p[s])
         /\ FrameRest(p, fr) = RecordsRest(p, s, fr.at, fr.lists) /\ FrameRest(p, fr) \in Pieces
<1>1. s \in Kinds /\ fr.vec = Section(s) /\ fr.at \in 0..Len(p[s]) /\ fr.lists \in TailsOf(ListNames(s))
      /\ (fr.lists # <<>> => fr.at # 0)
  BY DEF SectionFrame
<1>2. fr.lists \in Seq(ListsOf(s))
  BY <1>1, ListNamesType, TailsIs
<1>3. Len(p[s]) \in Nat
  BY <1>1, KindsIs
<1>4. ~IsVars(fr.vec) /\ fr.vec[1] = s
  BY <1>1, NotVars, SectionIs
<1>5. FrameRest(p, fr) = RecordsRest(p, s, fr.at, fr.lists)
  BY <1>4 DEF FrameRest, RecordsRest, ++
<1>6. RecordsRest(p, s, fr.at, fr.lists) \in Pieces
  BY <1>1, <1>2, ListsRestType
<1> QED BY <1>1, <1>2, <1>3, <1>5, <1>6

LEMMA VarFrameIs ==
  ASSUME NEW p, IsContents(p), NEW fr, NEW q, VarFrame(p, fr, q)
  PROVE  /\ IsVars(fr.vec) /\ IsVec(p, fr.vec) /\ fr.at \in 0..Size(p, fr.vec) /\ Size(p, fr.vec) \in Nat
         /\ fr.lists = <<>> /\ fr.past = q + Len(FrameRest(p, fr))
         /\ FrameRest(p, fr) = VarsRest(p, fr.vec, fr.at) /\ FrameRest(p, fr) \in Pieces
<1>1. IsVars(fr.vec) /\ IsVec(p, fr.vec) /\ fr.at \in 0..Size(p, fr.vec) /\ fr.lists = <<>>
      /\ fr.past = q + Len(FrameRest(p, fr))
  BY DEF VarFrame
<1>2. FrameRest(p, fr) = VarsRest(p, fr.vec, fr.at)
  BY <1>1 DEF FrameRest, VarsRest, ++
<1> QED BY <1>1, <1>2, VarsRestIs

-----------------------------------------------------------------------------
(* The state while a section is read.                                      *)
Behind(p, td, k) == PartsWritten(p.contents[k], Tail(td)) ++ After(p, k)

LEMMA FileIs ==
  ASSUME PositionInv
  PROVE  /\ IsProgram(program) /\ file \in Pieces /\ file = After(program, 0)
         /\ Len(program.segments) \in Nat /\ check \in 0..Len(program.segments) /\ check \in Nat
         /\ segment \in 0..9 /\ (check # 0 => segment = program.segments[check] /\ IsContents(Now))
<1>1. /\ IsProgram(program) /\ check \in 0..Len(program.segments)
      /\ file = FlattenSeq([k \in DOMAIN program.segments |-> SegmentWritten(program, k)])
      /\ segment = IF check = 0 THEN 0 ELSE program.segments[check]
  BY DEF PositionInv
<1>2. /\ Len(program.segments) \in Nat
      /\ \A k \in 1..Len(program.segments) : program.segments[k] \in 0..9 /\ IsContents(program.contents[k])
  BY <1>1, ProgramIs
<1>3. check \in Nat /\ segment \in 0..9 /\ (check # 0 => IsContents(Now))
  BY <1>1, <1>2 DEF Now
<1> QED BY <1>1, <1>2, <1>3, AfterIs

OneFits(p, q, fr, s) ==
  \/ SectionFrame(p, fr, s)
  \/ s = "globals" /\ fr.vec = Section(s) /\ VarFrame(p, fr, q)
TwoFit(p, q, fr, s) ==
  /\ SectionFrame(p, fr[1], s) /\ VarFrame(p, fr[2], q)
  /\ fr[1].at # 0 /\ \E list \in ListsOf(s) : fr[2].vec = <<s, fr[1].at, list>>

LEMMA StackIs ==
  ASSUME NEW p, IsContents(p), NEW q, NEW fr, NEW s, FramesFit(p, q, fr, s)
  PROVE  /\ StackRest(p, fr) \in Pieces
         /\ fr = <<>> => StackRest(p, fr) = <<>>
         /\ fr # <<>> =>
              \/ Len(fr) = 1 /\ fr = <<fr[1]>> /\ StackRest(p, fr) = FrameRest(p, fr[1])
                 /\ FrameRest(p, fr[1]) \in Pieces
                 /\ OneFits(p, q, fr[1], s)
              \/ Len(fr) = 2 /\ fr = <<fr[1], fr[2]>>
                 /\ StackRest(p, fr) = FrameRest(p, fr[2]) ++ FrameRest(p, fr[1])
                 /\ TwoFit(p, q, fr, s)
                 /\ FrameRest(p, fr[1]) \in Pieces /\ FrameRest(p, fr[2]) \in Pieces
<1>1. CASE fr = <<>>
  <2>1. Len(fr) = 0 /\ <<>> \in Pieces
    BY <1>1 DEF Pieces
  <2>2. StackRest(p, fr) = <<>>
    BY <2>1 DEF StackRest
  <2> QED BY <1>1, <2>1, <2>2
<1>2. ASSUME fr = <<fr[1]>>, OneFits(p, q, fr[1], s)
      PROVE  Len(fr) = 1 /\ StackRest(p, fr) = FrameRest(p, fr[1]) /\ FrameRest(p, fr[1]) \in Pieces
  <2>1. \A x : Len(<<x>>) = 1
    OBVIOUS
  <2>2. Len(fr) = 1
    BY <1>2, <2>1, Zenon
  <2>3. StackRest(p, fr) = FrameRest(p, fr[1])
    BY <2>2 DEF StackRest
  <2>4. FrameRest(p, fr[1]) \in Pieces
    BY <1>2, SectionFrameIs, VarFrameIs DEF OneFits
  <2> QED BY <2>2, <2>3, <2>4
<1>3. ASSUME fr = <<fr[1], fr[2]>>, TwoFit(p, q, fr, s)
      PROVE  Len(fr) = 2 /\ StackRest(p, fr) = FrameRest(p, fr[2]) ++ FrameRest(p, fr[1])
             /\ FrameRest(p, fr[1]) \in Pieces /\ FrameRest(p, fr[2]) \in Pieces
  <2>1. \A x, y : Len(<<x, y>>) = 2
    OBVIOUS
  <2>2. Len(fr) = 2
    BY <1>3, <2>1, Zenon
  <2>3. StackRest(p, fr) = FrameRest(p, fr[2]) ++ FrameRest(p, fr[1])
    BY <2>2 DEF StackRest, ++
  <2>4. FrameRest(p, fr[1]) \in Pieces /\ FrameRest(p, fr[2]) \in Pieces
    BY <1>3, SectionFrameIs, VarFrameIs DEF TwoFit
  <2> QED BY <2>2, <2>3, <2>4
<1>4. \/ fr = <<>>
      \/ fr = <<fr[1]>> /\ OneFits(p, q, fr[1], s)
      \/ fr = <<fr[1], fr[2]>> /\ TwoFit(p, q, fr, s)
  BY ZenonT(30) DEF FramesFit, OneFits, TwoFit
<1>5. CASE fr = <<fr[1]>> /\ OneFits(p, q, fr[1], s)
  <2>1. Len(fr) = 1 /\ StackRest(p, fr) = FrameRest(p, fr[1]) /\ FrameRest(p, fr[1]) \in Pieces
    BY <1>2, <1>5
  <2>2. fr # <<>>
    BY <2>1
  <2> QED BY <1>5, <2>1, <2>2
<1>6. CASE fr = <<fr[1], fr[2]>> /\ TwoFit(p, q, fr, s)
  <2>1. Len(fr) = 2 /\ StackRest(p, fr) = FrameRest(p, fr[2]) ++ FrameRest(p, fr[1])
             /\ FrameRest(p, fr[1]) \in Pieces /\ FrameRest(p, fr[2]) \in Pieces
    BY <1>3, <1>6
  <2>2. StackRest(p, fr) \in Pieces
    BY <2>1, ConcatIs
  <2>3. fr # <<>>
    <3>1. Len(<<>>) = 0
      OBVIOUS
    <3>2. Len(fr) = 2
      BY <2>1
    <3> QED BY <3>1, <3>2
  <2> QED BY <1>6, <2>1, <2>2, <2>3
<1> QED BY <1>1, <1>4, <1>5, <1>6

LEMMA ReadingIs ==
  ASSUME PositionInv, todo # <<>>
  PROVE  /\ IsContents(Now) /\ phase = "scan" /\ check \in 1..Len(program.segments) /\ segment = program.segments[check]
         /\ ~CutShort(program, check)
         /\ todo \in TailsOf(Sections(segment)) /\ todo \in Seq(PartNames) /\ todo[1] \in PartNames
         /\ Tail(todo) \in TailsOf(Sections(segment)) /\ Tail(todo) \in Seq(PartNames)
         /\ After(program, check) \in Pieces /\ PartsWritten(Now, Tail(todo)) \in Pieces
         /\ Behind(program, todo, check) \in Pieces
         /\ FramesFit(Now, pos, frames, todo[1])
         /\ frames = <<>> =>
              /\ PartWritten(Now, todo[1]) \in Pieces
              /\ CutAt(file, pos, PartWritten(Now, todo[1]) ++ Behind(program, todo, check))
         /\ frames # <<>> =>
              /\ StackRest(Now, frames) \in Pieces
              /\ CutAt(file, pos, StackRest(Now, frames) ++ Behind(program, todo, check))
<1>1. phase = "scan" /\ check # 0 /\ ReadFits(program, file, pos, check, todo, frames)
  BY DEF PositionInv
<1>2. IsProgram(program) /\ IsContents(Now) /\ Len(program.segments) \in Nat /\ check \in 0..Len(program.segments)
      /\ segment = program.segments[check] /\ segment \in 0..9
  BY <1>1, FileIs
<1>3. check \in 1..Len(program.segments)
  BY <1>1, <1>2
<1>4. /\ ~CutShort(program, check) /\ todo \in TailsOf(Sections(segment))
      /\ FramesFit(Now, pos, frames, todo[1])
      /\ CutAt(file, pos, StackRest(Now, frames)
                 ++ (PartsWritten(Now, IF frames = <<>> THEN todo ELSE Tail(todo)) ++ After(program, check)))
  BY <1>1, <1>2 DEF ReadFits, ++, Now
<1>5. Sections(segment) \in Seq(PartNames)
  BY <1>2, SectionsType
<1>6. /\ todo \in Seq(PartNames) /\ todo[1] \in PartNames
      /\ Tail(todo) \in TailsOf(Sections(segment)) /\ Tail(todo) \in Seq(PartNames)
  BY <1>4, <1>5, TailsIs
<1>7. /\ PartsWritten(Now, todo) = PartWritten(Now, todo[1]) ++ PartsWritten(Now, Tail(todo))
      /\ PartWritten(Now, todo[1]) \in Pieces /\ PartsWritten(Now, Tail(todo)) \in Pieces
  BY <1>2, <1>6, PartsAre
<1>8. After(program, check) \in Pieces
  BY <1>2, AfterIs
<1>9. StackRest(Now, frames) \in Pieces /\ (frames = <<>> => StackRest(Now, frames) = <<>>)
  BY <1>2, <1>4, StackIs
<1> DEFINE a == PartWritten(Now, todo[1])
           b == PartsWritten(Now, Tail(todo))
           c == After(program, check)
           z == PartsWritten(Now, todo)
           r == StackRest(Now, frames)
<1>10. Behind(program, todo, check) = b ++ c
  BY DEF Behind, Now
<1>11. a \in Pieces /\ b \in Pieces /\ c \in Pieces /\ z = a ++ b /\ r \in Pieces /\ (frames = <<>> => r = <<>>)
  BY <1>7, <1>8, <1>9
<1>12. CutAt(file, pos, r ++ ((IF frames = <<>> THEN z ELSE b) ++ c))
  <2>1. PartsWritten(Now, IF frames = <<>> THEN todo ELSE Tail(todo)) = IF frames = <<>> THEN z ELSE b
    OBVIOUS
  <2> QED BY <1>4, <2>1
<1> HIDE DEF a, b, c, z, r
<1>13. b ++ c \in Pieces /\ (a ++ b) ++ c = a ++ (b ++ c) /\ a ++ (b ++ c) \in Pieces
  BY <1>11, Assoc, ConcatIs
<1>14. ASSUME frames = <<>> PROVE CutAt(file, pos, a ++ (b ++ c))
  <2>1. <<>> ++ (a ++ (b ++ c)) = a ++ (b ++ c)
    BY <1>13, ConcatEmpty
  <2>2. r ++ ((IF frames = <<>> THEN z ELSE b) ++ c) = <<>> ++ ((a ++ b) ++ c)
    BY <1>11, <1>14
  <2>3. r ++ ((IF frames = <<>> THEN z ELSE b) ++ c) = a ++ (b ++ c)
    BY <1>13, <2>1, <2>2
  <2> QED BY <1>12, <2>3
<1>15. ASSUME frames # <<>> PROVE CutAt(file, pos, r ++ (b ++ c))
  BY <1>12, <1>15
<1>16. /\ frames = <<>> => a \in Pieces /\ CutAt(file, pos, a ++ Behind(program, todo, check))
       /\ frames # <<>> => r \in Pieces /\ CutAt(file, pos, r ++ Behind(program, todo, check))
       /\ c \in Pieces /\ b \in Pieces /\ Behind(program, todo, check) \in Pieces
  BY <1>10, <1>11, <1>13, <1>14, <1>15
<1> QED BY <1>1, <1>2, <1>3, <1>4, <1>6, <1>16 DEF a, b, c, r

(* Only ParseAST reads the part of a segment of the types 5 to 9.          *)
LEMMA AstPart ==
  ASSUME PositionInv, todo # <<>>
  PROVE  /\ todo[1] # "ast" => segment \notin Ast
         /\ todo[1] = "ast" => segment \in Ast
         /\ todo \in TailsOf(Sections(segment)) /\ segment \in 0..9
<1>1. segment \in 0..9 /\ todo \in TailsOf(Sections(segment))
  BY FileIs, ReadingIs
<1>2. /\ Sections(segment) \in Seq(PartNames)
      /\ segment = 1 => Sections(segment) = <<"info">>
      /\ segment = 3 => Sections(segment) = CodeSections
      /\ segment = 4 => Sections(segment) = <<"windows", "constants">>
      /\ segment \in 5..9 => Sections(segment) = <<"ast">>
      /\ segment \in {0, 2} => Sections(segment) = <<>>
  BY <1>1, SectionsType
<1>3. /\ Len(todo) \in 0..Len(Sections(segment)) /\ Len(todo) \in Nat \ {0}
      /\ todo[1] = Sections(segment)[(Len(Sections(segment)) - Len(todo)) + 1]
      /\ Len(Sections(segment)) \in Nat
  BY <1>1, <1>2, TailsIs
<1> DEFINE n == Len(Sections(segment))
           j == (n - Len(todo)) + 1
<1>4. j \in 1..n /\ todo[1] = Sections(segment)[j]
  BY <1>3
<1> HIDE DEF j
<1>5. CASE segment \in Ast
  <2>1. Sections(segment) = <<"ast">>
    BY <1>2, <1>5 DEF Ast
  <2>2. Len(<<"ast">>) = 1 /\ <<"ast">>[1] = "ast"
    OBVIOUS
  <2>3. n = 1 /\ j = 1
    BY <1>4, <2>1, <2>2
  <2> QED BY <1>1, <1>4, <1>5, <2>1, <2>2, <2>3
<1>6. CASE segment \notin Ast
  <2>1. segment \in {0, 1, 2, 3, 4}
    BY <1>1, <1>6 DEF Ast
  <2>2. n # 0
    BY <1>4
  <2>3. \A i \in 1..n : Sections(segment)[i] # "ast"
    <3>1. CASE segment = 1
      <4>1. \A i \in 1..Len(<<"info">>) : <<"info">>[i] # "ast"
        OBVIOUS
      <4> QED BY <1>2, <3>1, <4>1
    <3>2. CASE segment = 3
      <4>1. \A i \in 1..Len(CodeSections) : CodeSections[i] # "ast"
        BY DEF CodeSections
      <4> QED BY <1>2, <3>2, <4>1
    <3>3. CASE segment = 4
      <4>1. \A i \in 1..Len(<<"windows", "constants">>) : <<"windows", "constants">>[i] # "ast"
        OBVIOUS
      <4> QED BY <1>2, <3>3, <4>1
    <3>4. CASE segment \in {0, 2}
      <4>1. Len(<<>>) = 0
        OBVIOUS
      <4> QED BY <1>2, <2>2, <3>4, <4>1
    <3> QED BY <2>1, <3>1, <3>2, <3>3, <3>4
  <2> QED BY <1>1, <1>4, <1>6, <2>3
<1> QED BY <1>5, <1>6

(* How a part is done, and how a loop goes on.                             *)
LEMMA PartRead ==
  ASSUME PositionInv, todo # <<>>, UNCHANGED <<given, scanner>>, todo' = Tail(todo), frames' = <<>>,
         todo[1] # "ast", CutAt(file, pos', Behind(program, todo, check))
  PROVE  PositionInv'
<1>1. /\ program' = program /\ file' = file /\ phase' = phase /\ check' = check /\ warned' = warned
      /\ segment' = segment
  BY DEF given, scanner
<1>2. /\ IsProgram(program)
      /\ file = FlattenSeq([k \in DOMAIN program.segments |-> SegmentWritten(program, k)])
      /\ check \in 0..Len(program.segments) /\ ~warned
      /\ segment = IF check = 0 THEN 0 ELSE program.segments[check]
      /\ \A k \in 1..(check - 1) : program.segments[k] \notin Ast
  BY DEF PositionInv
<1>3. /\ phase = "scan" /\ check # 0 /\ ~CutShort(program, check) /\ segment \notin Ast /\ IsContents(Now)
      /\ segment = program.segments[check] /\ After(program, check) \in Pieces
      /\ PartsWritten(Now, Tail(todo)) \in Pieces
      /\ Tail(todo) \in TailsOf(Sections(segment)) /\ Tail(todo) \in Seq(PartNames)
  BY <1>2, ReadingIs, AstPart
<1>4. CutAt(file, pos', PartsWritten(Now, Tail(todo)) ++ After(program, check))
  BY DEF Behind, Now
<1>5. CASE Tail(todo) = <<>>
  <2>1. PartsWritten(Now, Tail(todo)) = <<>>
    BY <1>2, <1>3, <1>5, PartsAre
  <2>2. CutAt(file, pos', After(program, check))
    BY <1>3, <1>4, <2>1, ConcatEmpty
  <2>3. ScanFits(program, file, pos', check)
    BY <2>2 DEF ScanFits
  <2> QED BY <1>1, <1>2, <1>3, <1>5, <2>3 DEF PositionInv
<1>6. CASE Tail(todo) # <<>>
  <2>1. StackRest(Now, <<>>) = <<>> /\ FramesFit(Now, pos', <<>>, Tail(todo)[1])
    BY DEF StackRest, FramesFit
  <2>2. PartsWritten(Now, Tail(todo)) ++ After(program, check) \in Pieces
    BY <1>3, ConcatIs
  <2>3. CutAt(file, pos', <<>> ++ (PartsWritten(Now, Tail(todo)) ++ After(program, check)))
    BY <1>4, <2>2, ConcatEmpty
  <2>4. ReadFits(program, file, pos', check, Tail(todo), <<>>)
    BY <1>3, <2>1, <2>3 DEF ReadFits, ++, Now
  <2> QED BY <1>1, <1>2, <1>3, <1>6, <2>4 DEF PositionInv
<1> QED BY <1>5, <1>6

LEMMA LoopGoesOn ==
  ASSUME PositionInv, todo # <<>>, UNCHANGED <<given, scanner, todo>>, frames' # <<>>,
         FramesFit(Now, pos', frames', todo[1]),
         CutAt(file, pos', StackRest(Now, frames') ++ Behind(program, todo, check))
  PROVE  PositionInv'
<1>1. /\ program' = program /\ file' = file /\ phase' = phase /\ check' = check /\ warned' = warned
      /\ segment' = segment /\ todo' = todo
  BY DEF given, scanner
<1>2. /\ IsProgram(program)
      /\ file = FlattenSeq([k \in DOMAIN program.segments |-> SegmentWritten(program, k)])
      /\ check \in 0..Len(program.segments) /\ ~warned
      /\ segment = IF check = 0 THEN 0 ELSE program.segments[check]
      /\ \A k \in 1..(check - 1) : program.segments[k] \notin Ast
  BY DEF PositionInv
<1>3. /\ phase = "scan" /\ check # 0 /\ ~CutShort(program, check)
      /\ segment = program.segments[check]
      /\ todo \in TailsOf(Sections(segment))
  BY <1>2, ReadingIs
<1>4. ReadFits(program, file, pos', check, todo, frames')
  BY <1>3 DEF ReadFits, ++, Now, Behind
<1> QED BY <1>1, <1>2, <1>3, <1>4 DEF PositionInv

-----------------------------------------------------------------------------
(* Reading the pieces of a part, one after the other.                      *)
LEMMA CutSplit ==
  ASSUME NEW f \in Pieces, NEW q, NEW a \in Pieces, NEW b \in Pieces, NEW r \in Pieces,
         CutAt(f, q, (a ++ b) ++ r)
  PROVE  /\ Len(f) \in Nat /\ Len(a) \in Nat /\ q \in Nat \ {0} /\ q + Len(a) \in 1..(Len(f) + 1)
         /\ CutAt(f, q + Len(a), b ++ r) /\ b ++ r \in Pieces
         /\ CutAt(f, q, a ++ (b ++ r))
         /\ \A k \in 1..Len(a) : (q + k) - 1 \in 1..Len(f) /\ f[(q + k) - 1] = a[k]
<1>1. (a ++ b) ++ r = a ++ (b ++ r) /\ b ++ r \in Pieces
  BY Assoc, ConcatIs
<1> DEFINE z == b ++ r
<1>2. CutAt(f, q, a ++ z) /\ z \in Pieces
  BY <1>1
<1> HIDE DEF z
<1>3. /\ Len(f) \in Nat /\ Len(a) \in Nat /\ q \in Nat \ {0} /\ q + Len(a) \in 1..(Len(f) + 1)
      /\ CutAt(f, q + Len(a), z)
      /\ \A k \in 1..Len(a) : (q + k) - 1 \in 1..Len(f) /\ f[(q + k) - 1] = a[k]
  BY <1>2, CutStep
<1> QED BY <1>2, <1>3 DEF z

LEMMA CutOneSplit ==
  ASSUME NEW f \in Pieces, NEW q, NEW x \in Elem, NEW b \in Pieces, NEW r \in Pieces,
         CutAt(f, q, (<<x>> ++ b) ++ r)
  PROVE  /\ Len(f) \in Nat /\ q \in 1..Len(f) /\ f[q] = x
         /\ q + 1 \in 1..(Len(f) + 1) /\ CutAt(f, q + 1, b ++ r) /\ b ++ r \in Pieces
<1>1. <<x>> \in Pieces
  BY OneIs
<1>2. (<<x>> ++ b) ++ r = <<x>> ++ (b ++ r) /\ b ++ r \in Pieces
  BY <1>1, Assoc, ConcatIs
<1> DEFINE z == b ++ r
<1>3. CutAt(f, q, <<x>> ++ z) /\ z \in Pieces
  BY <1>2
<1> HIDE DEF z
<1>4. /\ Len(f) \in Nat /\ q \in 1..Len(f) /\ f[q] = x
      /\ q + 1 \in 1..(Len(f) + 1) /\ CutAt(f, q + 1, z)
  BY <1>3, CutOne
<1> QED BY <1>3, <1>4 DEF z

LEMMA CutSizedSplit ==
  ASSUME NEW f \in Pieces, NEW q, NEW x \in Pieces, NEW b \in Pieces, NEW r \in Pieces,
         CutAt(f, q, (Sized(x) ++ b) ++ r)
  PROVE  /\ Len(f) \in Nat /\ q \in 1..Len(f) /\ f[q].n = Len(x) /\ Len(x) \in Nat
         /\ (q + 1) + Len(x) \in 1..(Len(f) + 1)
         /\ CutAt(f, (q + 1) + Len(x), b ++ r) /\ b ++ r \in Pieces
<1>1. Sized(x) \in Pieces
  BY SizedIs
<1>2. (Sized(x) ++ b) ++ r = Sized(x) ++ (b ++ r) /\ b ++ r \in Pieces
  BY <1>1, Assoc, ConcatIs
<1> DEFINE z == b ++ r
<1>3. CutAt(f, q, Sized(x) ++ z) /\ z \in Pieces
  BY <1>2
<1> HIDE DEF z
<1>4. /\ Len(f) \in Nat /\ q \in 1..Len(f) /\ f[q].n = Len(x) /\ Len(x) \in Nat
      /\ (q + 1) + Len(x) \in 1..(Len(f) + 1) /\ CutAt(f, (q + 1) + Len(x), z)
  BY <1>3, CutSized
<1> QED BY <1>3, <1>4 DEF z

(* A list of variables.                                                    *)
VarsAt(f, q, vec, n, pad, r) ==
  /\ q \in Nat \ {0} /\ f[q].n = n
  /\ \A i \in 1..n : f[(q + 2) + i - 1] = Field("key", vec, i, 0)
  /\ CutAt(f, (q + 2) + 2 * n, VarsLoop(vec, n, pad) ++ r)
  /\ VarsLoop(vec, n, pad) \in Pieces /\ Len(VarsLoop(vec, n, pad)) \in Nat
  /\ (q + 2) + f[q + 1].n = ((q + 2) + 2 * n) + Len(VarsLoop(vec, n, pad))

LEMMA VarsReads ==
  ASSUME NEW f \in Pieces, NEW q, NEW vec \in Vecs, NEW n \in Nat, NEW pad \in Nat, NEW r \in Pieces,
         CutAt(f, q, VarsWritten(vec, n, pad) ++ r)
  PROVE  VarsAt(f, q, vec, n, pad, r)
<1> SUFFICES /\ q \in Nat \ {0} /\ f[q].n = n
             /\ \A i \in 1..n : f[(q + 2) + i - 1] = Field("key", vec, i, 0)
             /\ CutAt(f, (q + 2) + 2 * n, VarsLoop(vec, n, pad) ++ r)
             /\ VarsLoop(vec, n, pad) \in Pieces /\ Len(VarsLoop(vec, n, pad)) \in Nat
             /\ (q + 2) + f[q + 1].n = ((q + 2) + 2 * n) + Len(VarsLoop(vec, n, pad))
  BY DEF VarsAt
<1> DEFINE k == Keys(vec, n)
           v == VarsLoop(vec, n, pad)
           x == Number(n)
           z == Sized(k ++ v)
<1>1. /\ v \in Pieces /\ k \in Pieces /\ k ++ v \in Pieces /\ x \in Elem /\ z \in Pieces
      /\ VarsWritten(vec, n, pad) = <<x>> ++ z
  BY VarsIs
<1>2. Len(k) = 2 * n /\ \A i \in 1..n : k[i] = Field("key", vec, i, 0)
  BY KeysIs
<1>3. x.n = n
  BY NumberIs
<1> HIDE DEF k, v, x
<1>4. CutAt(f, q, (<<x>> ++ Sized(k ++ v)) ++ r)
  BY <1>1
<1>5. /\ Len(f) \in Nat /\ q \in 1..Len(f) /\ f[q] = x /\ CutAt(f, q + 1, Sized(k ++ v) ++ r)
  BY <1>1, <1>4, CutOneSplit
<1>6. f[q + 1].n = Len(k ++ v) /\ CutAt(f, (q + 1) + 1, (k ++ v) ++ r)
  BY <1>1, <1>5, CutSized
<1>7. (q + 1) + 1 = q + 2
  BY <1>5
<1>8. /\ Len(k) \in Nat /\ CutAt(f, (q + 2) + Len(k), v ++ r)
      /\ \A i \in 1..Len(k) : f[((q + 2) + i) - 1] = k[i]
  BY <1>1, <1>6, <1>7, CutSplit
<1>9. Len(k ++ v) = Len(k) + Len(v) /\ Len(v) \in Nat
  BY <1>1, ConcatIs
<1>10. \A i \in 1..n : f[(q + 2) + i - 1] = Field("key", vec, i, 0)
  <2>1. \A i \in 1..n : i \in 1..Len(k) /\ (q + 2) + i - 1 = ((q + 2) + i) - 1
    BY <1>2, <1>5
  <2> QED BY <1>2, <1>8, <2>1
<1>11. (q + 2) + f[q + 1].n = ((q + 2) + 2 * n) + Len(v)
  BY <1>2, <1>5, <1>6, <1>9
<1>12. q \in Nat \ {0} /\ f[q].n = n
  BY <1>3, <1>5
<1>13. CutAt(f, (q + 2) + 2 * n, v ++ r)
  BY <1>2, <1>8
<1>14. v \in Pieces /\ Len(v) \in Nat
  BY <1>1, <1>9
<1> QED BY <1>10, <1>11, <1>12, <1>13, <1>14 DEF v

(* A variable.                                                             *)
LEMMA VarReads ==
  ASSUME NEW f \in Pieces, NEW q, NEW vec \in Vecs, NEW i \in Nat \ {0}, NEW pad \in Nat, NEW r \in Pieces,
         CutAt(f, q, VarWritten(vec, i, pad) ++ r)
  PROVE  /\ q \in Nat \ {0} /\ Len(VarWritten(vec, i, pad)) \in Nat
         /\ CutAt(f, (q + 1) + f[q].n, r)
         /\ (q + 1) + f[q].n = q + Len(VarWritten(vec, i, pad))
         /\ \E s, t \in Pieces :
              /\ CutAt(f, q + 1, Fields(vec, i, <<"type", "property">>) ++ s)
              /\ CutAt(f, (q + 4) + f[q + 3].n, Fields(vec, i, <<"name", "comment">>) ++ t)
<1> DEFINE a == Fields(vec, i, <<"type", "property">>)
           m == Blocks(i - 1)
           b == Sized(m)
           c == Fields(vec, i, <<"name", "comment">>)
           d == Blocks(pad)
           x == VarBody(vec, i, pad)
<1>1. /\ a \in Pieces /\ b \in Pieces /\ c \in Pieces /\ d \in Pieces /\ m \in Pieces /\ Len(a) = 2
      /\ x \in Pieces /\ VarWritten(vec, i, pad) = Sized(x)
  BY VarIs
<1>2. x = ((a ++ b) ++ c) ++ d
  BY DEF VarBody
<1> HIDE DEF a, m, c, d, x
<1>3. /\ Len(f) \in Nat /\ q \in 1..Len(f) /\ f[q].n = Len(x) /\ Len(x) \in Nat
      /\ CutAt(f, q + 1, x ++ r)
      /\ CutAt(f, (q + 1) + Len(x), r)
  BY <1>1, CutSized
<1>4. Len(Sized(x)) = 1 + Len(x)
  BY <1>1, SizedIs
<1>5. /\ x = a ++ (b ++ (c ++ d)) /\ c ++ d \in Pieces /\ b ++ (c ++ d) \in Pieces
  BY <1>1, <1>2, Right3
<1> DEFINE y == b ++ (c ++ d)
           w == c ++ d
<1>6. y \in Pieces /\ w \in Pieces /\ x = a ++ y /\ y = Sized(m) ++ w /\ w = c ++ d
  BY <1>5
<1> HIDE DEF y, w, b
<1>7. CutAt(f, (q + 1) + Len(a), y ++ r) /\ y ++ r \in Pieces /\ CutAt(f, q + 1, a ++ (y ++ r))
  BY <1>1, <1>3, <1>6, CutSplit
<1>8. (q + 1) + Len(a) = q + 3
  BY <1>1, <1>3
<1>9. /\ f[q + 3].n = Len(m) /\ Len(m) \in Nat /\ CutAt(f, ((q + 3) + 1) + Len(m), w ++ r)
  BY <1>1, <1>6, <1>7, <1>8, CutSizedSplit
<1>10. ((q + 3) + 1) + Len(m) = (q + 4) + f[q + 3].n
  BY <1>3, <1>9
<1>11. CutAt(f, (q + 4) + f[q + 3].n, c ++ (d ++ r)) /\ d ++ r \in Pieces
  <2> DEFINE e == (q + 4) + f[q + 3].n
  <2>1. CutAt(f, e, (c ++ d) ++ r)
    BY <1>6, <1>9, <1>10
  <2> HIDE DEF e
  <2>2. CutAt(f, e, c ++ (d ++ r)) /\ d ++ r \in Pieces
    BY <1>1, <2>1, CutSplit
  <2> QED BY <2>2 DEF e
<1>12. (q + 1) + f[q].n = q + Len(VarWritten(vec, i, pad)) /\ Len(VarWritten(vec, i, pad)) \in Nat
  BY <1>1, <1>3, <1>4
<1>13. \E s, t \in Pieces :
          /\ CutAt(f, q + 1, a ++ s)
          /\ CutAt(f, (q + 4) + f[q + 3].n, c ++ t)
  BY <1>7, <1>11
<1>14. q \in Nat \ {0}
  BY <1>3
<1>15. CutAt(f, (q + 1) + f[q].n, r)
  BY <1>3
<1> QED BY <1>12, <1>13, <1>14, <1>15 DEF a, c

(* The records of a section.                                               *)
LEMMA SectionReads ==
  ASSUME NEW p, IsContents(p), NEW s \in Kinds, NEW f \in Pieces, NEW q, NEW r \in Pieces,
         CutAt(f, q, SectionWritten(p, s) ++ r)
  PROVE  /\ q \in Nat \ {0} /\ f[q].n \div 8 = Len(p[s]) /\ Len(p[s]) \in Nat
         /\ \A i \in 1..Len(p[s]) : f[(q + 1) + i - 1] = Field("key", Section(s), i, 0)
         /\ CutAt(f, (q + 1) + 2 * Len(p[s]), RecordsWritten(p, s) ++ r)
<1> DEFINE n == Len(p[s])
           x == Number(8 * n)
           k == Keys(Section(s), n)
           v == RecordsWritten(p, s)
<1>1. /\ SectionWritten(p, s) = <<x>> ++ (k ++ v) /\ x \in Elem /\ k \in Pieces /\ v \in Pieces
      /\ k ++ v \in Pieces
  BY SectionWrittenIs
<1>2. n \in Nat /\ Section(s) \in Vecs
  <2>1. IsVec(p, Section(s))
    BY DEF IsVec
  <2> QED BY <2>1, KindsIs, VecType
<1>3. Len(k) = 2 * n /\ \A i \in 1..n : k[i] = Field("key", Section(s), i, 0)
  BY <1>2, KeysIs
<1>4. x.n = 8 * n
  <2>1. 8 * n \in Nat
    BY <1>2
  <2> QED BY <2>1, NumberIs
<1> HIDE DEF n, x, k, v
<1>5. CutAt(f, q, (<<x>> ++ (k ++ v)) ++ r)
  BY <1>1
<1>6. /\ Len(f) \in Nat /\ q \in 1..Len(f) /\ f[q] = x /\ CutAt(f, q + 1, (k ++ v) ++ r)
  BY <1>1, <1>5, CutOneSplit
<1>7. /\ Len(k) \in Nat /\ CutAt(f, (q + 1) + Len(k), v ++ r)
      /\ \A i \in 1..Len(k) : f[((q + 1) + i) - 1] = k[i]
  <2> DEFINE e == q + 1
  <2>1. CutAt(f, e, (k ++ v) ++ r)
    BY <1>6
  <2> HIDE DEF e
  <2>2. /\ Len(k) \in Nat /\ CutAt(f, e + Len(k), v ++ r)
        /\ \A i \in 1..Len(k) : f[(e + i) - 1] = k[i]
    BY <1>1, <2>1, CutSplit
  <2> QED BY <2>2 DEF e
<1>8. f[q].n \div 8 = n
  BY <1>2, <1>4, <1>6
<1>9. \A i \in 1..n : f[(q + 1) + i - 1] = Field("key", Section(s), i, 0)
  <2>1. \A i \in 1..n : i \in 1..Len(k) /\ (q + 1) + i - 1 = ((q + 1) + i) - 1
    BY <1>2, <1>3, <1>6
  <2> QED BY <1>3, <1>7, <2>1
<1>10. q \in Nat \ {0} /\ CutAt(f, (q + 1) + 2 * n, v ++ r)
  BY <1>3, <1>6, <1>7
<1>11. q \in Nat \ {0} /\ f[q].n \div 8 = n /\ n \in Nat
  BY <1>2, <1>8, <1>10
<1> QED BY <1>9, <1>10, <1>11, Zenon DEF n, v

(* The two blocks in front of the modules.                                 *)
LEMMA ModulesRead ==
  ASSUME NEW p, IsContents(p), NEW f \in Pieces, NEW q, NEW b \in Pieces, NEW r \in Pieces,
         CutAt(f, q, (ModulesHead(p) ++ b) ++ r)
  PROVE  LET c == (q + 2) + f[q + 1].n IN CutAt(f, (c + 1) + f[c].n, b ++ r)
<1> DEFINE x == Blocks(1)
           y == Blocks(p.pad)
           z == x
           h == Sized(y) ++ Sized(z)
<1>1. /\ x \in Pieces /\ Len(x) = 1 /\ y \in Pieces /\ Sized(y) \in Pieces /\ Sized(z) \in Pieces
      /\ ModulesHead(p) = x ++ h /\ h \in Pieces /\ h = Sized(y) ++ Sized(z) /\ z \in Pieces
  BY ModulesHeadIs
<1> HIDE DEF x, y, z, h
<1>2. h ++ b \in Pieces /\ (x ++ h) ++ b = x ++ (h ++ b)
  BY <1>1, Assoc, ConcatIs
<1>3. CutAt(f, q, (x ++ (h ++ b)) ++ r)
  BY <1>1, <1>2
<1>4. q \in Nat \ {0} /\ CutAt(f, q + Len(x), (h ++ b) ++ r)
  BY <1>1, <1>2, <1>3, CutSplit
<1>5. q + Len(x) = q + 1
  BY <1>1, <1>4
<1>6. h ++ b = Sized(y) ++ (Sized(z) ++ b) /\ Sized(z) ++ b \in Pieces
  BY <1>1, Assoc, ConcatIs
<1>7. CutAt(f, q + 1, (Sized(y) ++ (Sized(z) ++ b)) ++ r)
  BY <1>4, <1>5, <1>6
<1>8. /\ f[q + 1].n = Len(y) /\ Len(y) \in Nat /\ CutAt(f, ((q + 1) + 1) + Len(y), (Sized(z) ++ b) ++ r)
  BY <1>1, <1>6, <1>7, CutSizedSplit
<1> DEFINE c == (q + 2) + f[q + 1].n
<1>9. ((q + 1) + 1) + Len(y) = c
  BY <1>4, <1>8
<1> HIDE DEF c
<1>10. /\ f[c].n = Len(z) /\ CutAt(f, (c + 1) + Len(z), b ++ r)
  BY <1>1, <1>8, <1>9, CutSizedSplit
<1> QED BY <1>10 DEF c

(* The libraries.                                                          *)
LibrariesAt(p, f, q, n, r) ==
  /\ n = p.libraries
  /\ \A i \in 1..n : f[((q + 4) + 2 * n) + i - 1] = Field("path", Section("libraries"), i, 0)
  /\ CutAt(f, (q + 4) + 3 * n, r)

LEMMA LibrariesRead ==
  ASSUME NEW p, IsContents(p), NEW f \in Pieces, NEW q, NEW r \in Pieces,
         CutAt(f, q, LibrariesWritten(p) ++ r)
  PROVE  LibrariesAt(p, f, q, f[q + 2].n \div 4, r)
<1> DEFINE n == p.libraries
           u == Plain("key")
           v == Plain("block")
           w == Number(4 * n)
           x == Blocks(1 + 2 * n)
           y == Many(Section("libraries"), "path", n)
           z1 == x ++ y
           z2 == <<w>> ++ z1
           z3 == <<v>> ++ z2
<1>1. /\ n \in Nat /\ w \in Elem /\ u \in Elem /\ v \in Elem
      /\ x \in Pieces /\ Len(x) = 1 + 2 * n /\ y \in Pieces /\ Len(y) = n
      /\ \A k \in 1..n : y[k] = Field("path", Section("libraries"), k, 0)
      /\ z1 \in Pieces /\ z2 \in Pieces /\ z3 \in Pieces
      /\ LibrariesWritten(p) = <<u>> ++ z3
  BY LibrariesIs
<1>2. w.n = 4 * n
  <2>1. 4 * n \in Nat
    BY <1>1
  <2> QED BY <2>1, NumberIs
<1>3. z3 = <<v>> ++ z2 /\ z2 = <<w>> ++ z1 /\ z1 = x ++ y
  OBVIOUS
<1> HIDE DEF n, u, v, w, x, y, z1, z2, z3
<1>4. CutAt(f, q, (<<u>> ++ z3) ++ r)
  BY <1>1
<1>5. Len(f) \in Nat /\ q \in 1..Len(f) /\ CutAt(f, q + 1, (<<v>> ++ z2) ++ r)
  BY <1>1, <1>3, <1>4, CutOneSplit
<1>6. CutAt(f, (q + 1) + 1, (<<w>> ++ z1) ++ r)
  BY <1>1, <1>3, <1>5, CutOneSplit
<1>7. (q + 1) + 1 = q + 2
  BY <1>5
<1>8. f[q + 2] = w /\ CutAt(f, (q + 2) + 1, (x ++ y) ++ r)
  <2> DEFINE d == q + 2
  <2>1. CutAt(f, d, (<<w>> ++ z1) ++ r)
    BY <1>6, <1>7
  <2> HIDE DEF d
  <2>2. f[d] = w /\ CutAt(f, d + 1, z1 ++ r)
    BY <1>1, <2>1, CutOneSplit
  <2> QED BY <1>3, <2>2 DEF d
<1>9. CutAt(f, ((q + 2) + 1) + Len(x), y ++ r)
  BY <1>1, <1>8, CutSplit
<1> DEFINE e == (q + 4) + 2 * n
<1>10. ((q + 2) + 1) + Len(x) = e
  BY <1>1, <1>5
<1> HIDE DEF e
<1>11. /\ CutAt(f, e + Len(y), r)
       /\ \A k \in 1..Len(y) : f[(e + k) - 1] = y[k]
  <2>1. CutAt(f, e, y ++ r)
    BY <1>9, <1>10
  <2>2. y \in Pieces
    BY <1>1
  <2> QED BY <2>1, <2>2, CutStep
<1>12. f[q + 2].n \div 4 = n
  BY <1>1, <1>2, <1>8
<1>13. e + Len(y) = (q + 4) + 3 * n
  BY <1>1, <1>5 DEF e
<1>14. \A i \in 1..n : f[e + i - 1] = Field("path", Section("libraries"), i, 0)
  <2>1. \A i \in 1..n : i \in 1..Len(y) /\ e + i - 1 = (e + i) - 1
    BY <1>1, <1>5 DEF e
  <2> QED BY <1>1, <1>11, <2>1
<1>15. CutAt(f, (q + 4) + 3 * n, r)
  BY <1>11, <1>13
<1>17. \A i \in 1..n : f[((q + 4) + 2 * n) + i - 1] = Field("path", Section("libraries"), i, 0)
  BY <1>14 DEF e
<1> DEFINE m == f[q + 2].n \div 4
<1>18. m = n
  BY <1>12
<1> HIDE DEF m
<1>19. LibrariesAt(p, f, q, m, r)
  <2>1. \A i \in 1..m : f[((q + 4) + 2 * m) + i - 1] = Field("path", Section("libraries"), i, 0)
    BY <1>17, <1>18
  <2>2. m = p.libraries /\ CutAt(f, (q + 4) + 3 * m, r)
    BY <1>15, <1>18 DEF n
  <2> QED BY <2>1, <2>2 DEF LibrariesAt
<1> QED BY <1>19 DEF m

(* The constants, and one of them.                                         *)
LEMMA ConstantsRead ==
  ASSUME NEW p, IsContents(p), NEW f \in Pieces, NEW q, NEW r \in Pieces,
         CutAt(f, q, ConstantsWritten(p) ++ r)
  PROVE  /\ q \in Nat \ {0} /\ f[q].n = Len(p.constants) /\ Len(p.constants) \in Nat
         /\ \A i \in 1..Len(p.constants) : f[(q + 2) + i - 1] = KeyOf(p, Section("constants"), i)
         /\ CutAt(f, (q + 2) + 2 * Len(p.constants), RecordsWritten(p, "constants") ++ r)
<1> DEFINE n == Len(p.constants)
           x == Number(n)
           y == Plain("block")
           k == ConstantKeys(p)
           b == Blocks(n)
           e == RecordsWritten(p, "constants")
           t == ConstantsTail(p)
           z1 == k ++ t
           z2 == <<y>> ++ z1
<1>1. /\ n \in Nat /\ x \in Elem /\ y \in Elem /\ k \in Pieces /\ Len(k) = n
      /\ b \in Pieces /\ Len(b) = n /\ e \in Pieces /\ t \in Pieces /\ z1 \in Pieces /\ z2 \in Pieces
      /\ ConstantsWritten(p) = <<x>> ++ z2
  BY ConstantsIs
<1>2. \A i \in 1..n : k[i] = KeyOf(p, Section("constants"), i)
  BY ConstantsIs
<1>3. x.n = n
  BY <1>1, NumberIs
<1>4. z2 = <<y>> ++ z1 /\ z1 = k ++ t /\ t = b ++ e
  BY DEF ConstantsTail
<1> HIDE DEF n, x, y, k, b, e, t, z1, z2
<1>5. CutAt(f, q, (<<x>> ++ z2) ++ r)
  BY <1>1
<1>6. Len(f) \in Nat /\ q \in 1..Len(f) /\ f[q] = x /\ CutAt(f, q + 1, z2 ++ r)
  BY <1>1, <1>5, CutOneSplit
<1> DEFINE q1 == q + 1
<1>7. CutAt(f, q1, (<<y>> ++ z1) ++ r)
  BY <1>4, <1>6
<1> HIDE DEF q1
<1>8. CutAt(f, q1 + 1, z1 ++ r)
  BY <1>1, <1>7, CutOneSplit
<1> DEFINE q2 == q + 2
<1>9. CutAt(f, q2, (k ++ t) ++ r)
  <2>1. q1 + 1 = q2
    BY <1>6 DEF q1
  <2> QED BY <1>4, <1>8, <2>1
<1> HIDE DEF q2
<1>10. /\ CutAt(f, q2 + Len(k), t ++ r)
       /\ \A i \in 1..Len(k) : f[(q2 + i) - 1] = k[i]
  <2>1. k \in Pieces /\ t \in Pieces
    BY <1>1
  <2> QED BY <1>9, <2>1, CutSplit
<1> DEFINE q3 == q2 + Len(k)
<1>11. CutAt(f, q3, (b ++ e) ++ r)
  BY <1>4, <1>10
<1> HIDE DEF q3
<1>12. CutAt(f, q3 + Len(b), e ++ r)
  BY <1>1, <1>11, CutSplit
<1>13. q3 + Len(b) = q2 + 2 * n
  BY <1>1, <1>6 DEF q2, q3
<1>14. \A i \in 1..n : f[q2 + i - 1] = KeyOf(p, Section("constants"), i)
  <2>1. \A i \in 1..n : i \in 1..Len(k) /\ q2 + i - 1 = (q2 + i) - 1
    BY <1>1, <1>6 DEF q2
  <2> QED BY <1>2, <1>10, <2>1
<1>15. q \in Nat \ {0} /\ f[q].n = n /\ n \in Nat
  BY <1>1, <1>3, <1>6
<1>16. CutAt(f, q2 + 2 * n, e ++ r)
  BY <1>12, <1>13
<1> QED BY <1>14, <1>15, <1>16 DEF n, e, q2

LEMMA ConstantRead ==
  ASSUME NEW p, IsContents(p), NEW i \in 1..Len(p.constants), NEW f \in Pieces, NEW q, NEW r \in Pieces,
         CutAt(f, q, RecordWritten(p, "constants", i) ++ r)
  PROVE  LET k == p.constants[i]
             vec == Section("constants")
         IN  /\ q \in Nat \ {0} /\ k \in {0, 59} \cup 22..26
             /\ \E s \in Pieces : CutAt(f, q, Fields(vec, i, ConstantHead) ++ s)
             /\ k # 0 => f[q + 4].n = k
             /\ k = 0 => CutAt(f, q + 4, Fields(vec, i, <<"value">>) ++ r) /\ CutAt(f, (q + 4) + 1, r)
             /\ k = 22 => CutAt(f, q + 5, r)
             /\ k \notin {0, 22} => CutAt(f, q + 5, Fields(vec, i, <<"value">>) ++ r) /\ CutAt(f, (q + 5) + 1, r)
<1> DEFINE k == p.constants[i]
           h == Fields(Section("constants"), i, ConstantHead)
           v == Fields(Section("constants"), i, <<"value">>)
           x == Number(k)
<1>1. /\ k \in {0, 59} \cup 22..26 /\ k \in Nat /\ h \in Pieces /\ v \in Pieces
      /\ x \in Elem /\ <<x>> \in Pieces
      /\ k = 0 => RecordWritten(p, "constants", i) = h ++ v
      /\ k = 22 => RecordWritten(p, "constants", i) = h ++ <<x>>
      /\ k \notin {0, 22} => RecordWritten(p, "constants", i) = h ++ (<<x>> ++ v)
  BY ConstantIs
<1>2. Len(h) = 4 /\ Len(v) = 1
  <2>1. i \in Nat /\ Section("constants") \in Vecs
    <3>1. "constants" \in Kinds /\ i \in 1..Len(p["constants"])
      BY DEF Kinds
    <3> QED BY <3>1, IndexIs
  <2>2. \A ns \in Seq(PlainNames) : ns \in Seq(Names)
    BY NamesMono
  <2>3. ConstantHead \in Seq(PlainNames) /\ Len(ConstantHead) = 4
    BY PlainType
  <2>4. <<"value">> \in Seq(PlainNames) /\ Len(<<"value">>) = 1
    BY PlainType
  <2> DEFINE cv == <<"value">>
             vec == Section("constants")
  <2>5. cv \in Seq(Names) /\ Len(cv) = 1 /\ ConstantHead \in Seq(Names) /\ vec \in Vecs
    BY <2>1, <2>2, <2>3, <2>4
  <2>6. h = Fields(vec, i, ConstantHead) /\ v = Fields(vec, i, cv)
    OBVIOUS
  <2> HIDE DEF cv, vec, h, v
  <2>7. Len(h) = Len(ConstantHead) /\ Len(v) = Len(cv)
    BY <2>1, <2>5, <2>6, FieldsIs
  <2> QED BY <2>3, <2>5, <2>7
<1>3. x.n = k
  BY <1>1, NumberIs
<1> DEFINE e == <<x>>
<1>4. e \in Pieces /\ Len(e) = 1 /\ e[1] = x
  BY <1>1, OneIs
<1> HIDE DEF k, h, v, x, e
<1>5. ASSUME NEW w \in Pieces, CutAt(f, q, (h ++ w) ++ r)
      PROVE  /\ q \in Nat \ {0} /\ CutAt(f, q + 4, w ++ r)
             /\ \E s \in Pieces : CutAt(f, q, h ++ s)
  <2>1. q \in Nat \ {0} /\ CutAt(f, q + Len(h), w ++ r) /\ w ++ r \in Pieces /\ CutAt(f, q, h ++ (w ++ r))
    BY <1>1, <1>5, CutSplit
  <2> QED BY <1>2, <2>1
<1> DEFINE q4 == q + 4
           q5 == q + 5
<1>6. CASE k = 0
  <2>1. q \in Nat \ {0} /\ CutAt(f, q4, v ++ r) /\ \E s \in Pieces : CutAt(f, q, h ++ s)
    BY <1>1, <1>5, <1>6
  <2> HIDE DEF q4
  <2>2. CutAt(f, q4 + Len(v), r)
    BY <1>1, <2>1, CutStep
  <2>3. CutAt(f, q4 + 1, r)
    BY <1>2, <2>2
  <2> QED BY <1>1, <1>6, <2>1, <2>3 DEF k, h, v, q4
<1>7. CASE k = 22
  <2>1. q \in Nat \ {0} /\ CutAt(f, q4, e ++ r) /\ \E s \in Pieces : CutAt(f, q, h ++ s)
    BY <1>1, <1>4, <1>5, <1>7 DEF e
  <2>2. CutAt(f, q4, <<x>> ++ r)
    BY <2>1 DEF e
  <2>3. q4 + 1 = q5
    BY <2>1
  <2> HIDE DEF q4, q5
  <2>4. f[q4] = x /\ CutAt(f, q4 + 1, r)
    BY <1>1, <2>2, CutOne
  <2>5. f[q4].n = k /\ CutAt(f, q5, r)
    BY <1>3, <2>3, <2>4
  <2> QED BY <1>1, <1>7, <2>1, <2>5 DEF k, h, v, q4, q5
<1>8. CASE k \notin {0, 22}
  <2>0. <<x>> ++ v \in Pieces
    BY <1>1, ConcatIs
  <2>1. q \in Nat \ {0} /\ CutAt(f, q4, (<<x>> ++ v) ++ r) /\ \E s \in Pieces : CutAt(f, q, h ++ s)
    BY <1>1, <1>5, <1>8, <2>0
  <2>3. q4 + 1 = q5
    BY <2>1
  <2> HIDE DEF q4, q5
  <2>4. f[q4] = x /\ CutAt(f, q4 + 1, v ++ r)
    BY <1>1, <2>1, CutOneSplit
  <2>5. f[q4].n = k /\ CutAt(f, q5, v ++ r)
    BY <1>3, <2>3, <2>4
  <2>6. CutAt(f, q5 + Len(v), r)
    BY <1>1, <2>5, CutStep
  <2>7. CutAt(f, q5 + 1, r)
    BY <1>2, <2>6
  <2> QED BY <1>1, <1>8, <2>1, <2>5, <2>7 DEF k, h, v, q4, q5
<1> QED BY <1>6, <1>7, <1>8

(* A window.                                                               *)
WindowAt(p, i, f, q, r) ==
  LET k == p.windows[i]
      vec == Section("windows")
      end == (q + 6) + f[q + 5].n
      b == (q + 7) + f[q + 4].n
      e == (b + 8) + f[b + 7].n
  IN  /\ q \in Nat \ {0} /\ k \in 0..7 /\ CutAt(f, end, r)
      /\ \E s \in Pieces : CutAt(f, q, Fields(vec, i, WindowHead) ++ s)
      /\ \E s \in Pieces : CutAt(f, b, Fields(vec, i, WindowBody) ++ s)
      /\ k = 7 => e + 4 > end
      /\ k # 7 => /\ ~(e + 4 > end) /\ f[e + 1].n = k
                  /\ \E s \in Pieces : CutAt(f, e + 2, Fields(vec, i, WindowTail(k)) ++ s)

LEMMA WindowRead ==
  ASSUME NEW p, IsContents(p), NEW i \in 1..Len(p.windows), NEW f \in Pieces, NEW q, NEW r \in Pieces,
         CutAt(f, q, RecordWritten(p, "windows", i) ++ r)
  PROVE  WindowAt(p, i, f, q, r)
<1> SUFFICES LET k == p.windows[i]
                 vec == Section("windows")
                 end == (q + 6) + f[q + 5].n
                 b == (q + 7) + f[q + 4].n
                 e == (b + 8) + f[b + 7].n
             IN  /\ q \in Nat \ {0} /\ k \in 0..7 /\ CutAt(f, end, r)
                 /\ \E s \in Pieces : CutAt(f, q, Fields(vec, i, WindowHead) ++ s)
                 /\ \E s \in Pieces : CutAt(f, b, Fields(vec, i, WindowBody) ++ s)
                 /\ k = 7 => e + 4 > end
                 /\ k # 7 => /\ ~(e + 4 > end) /\ f[e + 1].n = k
                             /\ \E s \in Pieces : CutAt(f, e + 2, Fields(vec, i, WindowTail(k)) ++ s)
  BY DEF WindowAt
<1> DEFINE vec == Section("windows")
           k == p.windows[i]
           h == Fields(vec, i, WindowHead)
           x == Number(i - 1)
           a == Blocks(i)
           d == Fields(vec, i, WindowBody)
           o == Blocks(1)
           R == WindowRest(i, k)
           z1 == Sized(o) ++ R
           z2 == d ++ z1
           w == WindowIn(p, i)
           z3 == <<x>> ++ Sized(w)
           y == Fields(vec, i, WindowTail(k))
           n == Number(k)
           c == Blocks(2)
<1>1. /\ h \in Pieces /\ x \in Elem /\ a \in Pieces /\ Len(a) = i /\ d \in Pieces /\ o \in Pieces
      /\ Sized(o) \in Pieces /\ z1 \in Pieces /\ z2 \in Pieces /\ w \in Pieces /\ Sized(w) \in Pieces
      /\ z3 \in Pieces /\ RecordWritten(p, "windows", i) = h ++ z3
  BY WindowIs
<1>2. z3 = <<x>> ++ Sized(w) /\ w = a ++ z2 /\ z2 = d ++ z1 /\ z1 = Sized(o) ++ R
  BY DEF WindowIn
<1>3. i \in Nat /\ i - 1 \in Nat /\ vec \in Vecs /\ k \in 0..7
  <2>1. "windows" \in Kinds /\ i \in 1..Len(p["windows"])
    BY DEF Kinds
  <2> QED BY <2>1, IndexIs, ContentsIs
<1>4. x.n = i - 1
  BY <1>3, NumberIs
<1>5. Len(h) = 4 /\ Len(d) = 7
  BY <1>3, PlainType, NamesMono, FieldsIs
<1>6. /\ Len(o) = 1 /\ R \in Pieces /\ y \in Pieces /\ c \in Pieces /\ Len(c) = 2
      /\ n \in Elem /\ <<n>> ++ (y ++ c) \in Pieces
      /\ (k = 7 => R = o) /\ (k # 7 => R = o ++ (<<n>> ++ (y ++ c)))
  BY <1>3, RestIs
<1>7. n.n = k
  <2>1. k \in Nat
    BY <1>3
  <2> QED BY <2>1, NumberIs
<1>8. Len(y) \in Nat \ {0}
  <2> DEFINE t == WindowTail(k)
  <2>1. t \in Seq(PlainNames) /\ Len(t) \in Nat \ {0}
    BY <1>3, TailType
  <2>2. y = Fields(vec, i, t)
    OBVIOUS
  <2> HIDE DEF t, y
  <2>3. t \in Seq(Names)
    BY <2>1, NamesMono
  <2>4. Len(y) = Len(t)
    BY <1>3, <2>2, <2>3, FieldsIs
  <2> QED BY <2>1, <2>4
<1> HIDE DEF vec, k, h, x, a, d, o, R, z1, z2, w, z3, y, n, c
<1>9. q \in Nat \ {0} /\ CutAt(f, q + Len(h), z3 ++ r) /\ z3 ++ r \in Pieces /\ CutAt(f, q, h ++ (z3 ++ r))
  BY <1>1, CutSplit
<1> DEFINE q4 == q + 4
           q5 == q + 5
           q6 == q + 6
<1>10. q4 \in Nat /\ q5 = q4 + 1 /\ q6 = q5 + 1 /\ q5 \in Nat /\ q6 \in Nat /\ CutAt(f, q4, (<<x>> ++ Sized(w)) ++ r)
  BY <1>2, <1>5, <1>9
<1> HIDE DEF q4, q5, q6
<1>11. f[q4] = x /\ CutAt(f, q5, Sized(w) ++ r)
  BY <1>1, <1>10, CutOneSplit
<1>12. /\ f[q5].n = Len(w) /\ Len(w) \in Nat /\ CutAt(f, q6, w ++ r) /\ CutAt(f, q6 + Len(w), r)
  BY <1>1, <1>10, <1>11, CutSized
<1> DEFINE b == (q + 7) + f[q + 4].n
           end == (q + 6) + f[q + 5].n
<1>13. end = q6 + Len(w) /\ b = q6 + Len(a) /\ b \in Nat /\ end \in Nat
  <2>1. f[q + 5].n = Len(w)
    BY <1>12 DEF q5
  <2>2. f[q + 4].n = i - 1
    BY <1>4, <1>11 DEF q4
  <2> QED BY <1>1, <1>3, <1>9, <1>12, <2>1, <2>2 DEF q6
<1> HIDE DEF b, end
<1>14. CutAt(f, q6, (a ++ z2) ++ r)
  BY <1>2, <1>12
<1>15. CutAt(f, b, z2 ++ r)
  BY <1>1, <1>13, <1>14, CutSplit
<1>16. CutAt(f, b, (d ++ z1) ++ r)
  BY <1>2, <1>15
<1>17. CutAt(f, b + Len(d), z1 ++ r) /\ z1 ++ r \in Pieces /\ CutAt(f, b, d ++ (z1 ++ r))
  BY <1>1, <1>16, CutSplit
<1> DEFINE b7 == b + 7
<1>18. CutAt(f, b7, (Sized(o) ++ R) ++ r)
  BY <1>2, <1>5, <1>17
<1> HIDE DEF b7
<1>19. f[b7].n = 1 /\ CutAt(f, (b7 + 1) + 1, R ++ r)
  <2>1. f[b7].n = Len(o) /\ CutAt(f, (b7 + 1) + Len(o), R ++ r)
    <3>1. o \in Pieces /\ R \in Pieces
      BY <1>1, <1>6
    <3> QED BY <1>18, <3>1, CutSizedSplit
  <2> QED BY <1>6, <2>1
<1> DEFINE e == (b + 8) + f[b + 7].n
<1>20. e = (b7 + 1) + 1 /\ e \in Nat
  <2>1. f[b + 7].n = 1
    BY <1>19 DEF b7
  <2> QED BY <1>13, <2>1 DEF b7
<1>21. e = b + 9
  BY <1>13, <1>20 DEF b7
<1> HIDE DEF e
<1>22. CutAt(f, e, R ++ r)
  BY <1>19, <1>20
<1>23. Len(w) = Len(a) + (9 + Len(R)) /\ Len(R) \in Nat
  <2>1. Len(w) = Len(a) + Len(z2)
    BY <1>1, <1>2, ConcatIs
  <2>2. Len(z2) = Len(d) + Len(z1)
    BY <1>1, <1>2, ConcatIs
  <2>3. Len(z1) = Len(Sized(o)) + Len(R) /\ Len(R) \in Nat
    BY <1>1, <1>2, <1>6, ConcatIs
  <2>4. Len(Sized(o)) = 2
    <3>1. Len(Sized(o)) = 1 + Len(o)
      BY <1>1, SizedIs
    <3> QED BY <1>6, <3>1
  <2> QED BY <1>1, <1>3, <1>5, <2>1, <2>2, <2>3, <2>4
<1>24. end = e + Len(R)
  BY <1>1, <1>3, <1>10, <1>13, <1>21, <1>23
<1>25. k = 7 => e + 4 > end
  <2>1. k = 7 => Len(R) = 1
    BY <1>6
  <2>2. k = 7 => end = e + 1
    BY <1>24, <2>1
  <2>3. e + 4 > e + 1
    BY <1>20
  <2> QED BY <2>2, <2>3
<1>26. ASSUME k # 7
       PROVE  ~(e + 4 > end) /\ f[e + 1].n = k /\ \E s \in Pieces : CutAt(f, e + 2, y ++ s)
  <2> DEFINE g == y ++ c
             u == <<n>> ++ g
  <2>1. u \in Pieces /\ R = o ++ u
    BY <1>6, <1>26
  <2>2. g \in Pieces /\ Len(g) = Len(y) + 2
    <3>1. g \in Pieces /\ Len(g) = Len(y) + Len(c)
      BY <1>6, ConcatIs
    <3> QED BY <1>6, <3>1
  <2>3. u = <<n>> ++ g /\ g = y ++ c
    OBVIOUS
  <2>4. Len(u) = 1 + Len(g) /\ Len(g) \in Nat
    <3>1. <<n>> \in Pieces /\ Len(<<n>>) = 1
      BY <1>6, OneIs
    <3> DEFINE nn == <<n>>
    <3>2. nn \in Pieces /\ Len(nn) = 1 /\ u = nn ++ g
      BY <3>1
    <3> HIDE DEF nn, u, g
    <3>3. Len(u) = Len(nn) + Len(g) /\ Len(g) \in Nat
      BY <2>2, <3>2, ConcatIs
    <3> QED BY <3>2, <3>3
  <2> HIDE DEF g, u
  <2>5. Len(R) = 1 + Len(u)
    <3>1. Len(R) = Len(o) + Len(u)
      BY <1>1, <2>1, ConcatIs
    <3> QED BY <1>6, <3>1
  <2>6. ~(e + 4 > end)
    BY <1>8, <1>20, <1>24, <2>2, <2>4, <2>5
  <2>7. CutAt(f, e, (o ++ u) ++ r)
    BY <1>22, <2>1
  <2>8. CutAt(f, e + Len(o), u ++ r)
    BY <1>1, <2>1, <2>7, CutSplit
  <2> DEFINE e1 == e + 1
  <2>9. CutAt(f, e1, (<<n>> ++ g) ++ r)
    BY <1>6, <2>3, <2>8
  <2>10. e1 + 1 = e + 2
    BY <1>20
  <2> HIDE DEF e1
  <2>11. f[e1] = n /\ CutAt(f, e1 + 1, g ++ r)
    BY <1>6, <2>2, <2>9, CutOneSplit
  <2> DEFINE e2 == e + 2
  <2>12. CutAt(f, e2, (y ++ c) ++ r)
    BY <2>3, <2>10, <2>11
  <2> HIDE DEF e2
  <2>13. CutAt(f, e2, y ++ (c ++ r)) /\ c ++ r \in Pieces
    BY <1>6, <2>12, CutSplit
  <2>14. f[e + 1].n = k
    BY <1>7, <2>11 DEF e1
  <2> QED BY <2>6, <2>13, <2>14 DEF e2
<1>27. CutAt(f, end, r)
  BY <1>12, <1>13
<1>28. /\ \E s \in Pieces : CutAt(f, q, h ++ s)
       /\ \E s \in Pieces : CutAt(f, b, d ++ s)
  BY <1>9, <1>17
<1> QED BY <1>3, <1>9, <1>25, <1>26, <1>27, <1>28 DEF vec, k, h, d, y, b, end, e

-----------------------------------------------------------------------------
(* What is read into the elements.                                         *)
Stands(q, x) == \E s \in Pieces : CutAt(file, q, x ++ s)

NamedFits(vec, i, names, q) ==
  \A f \in DOMAIN Named(names, q) :
    f # "key" /\ f # "ast" /\ Named(names, q)[f] = Field(f, vec, i, 0)

LEMMA NamedIs ==
  ASSUME NEW vec \in Vecs, NEW i \in Nat, NEW names \in Seq(PlainNames), NEW q, file \in Pieces,
         Stands(q, Fields(vec, i, names))
  PROVE  /\ DOMAIN Named(names, q) = ToSet(names) \ {"skip"}
         /\ NamedFits(vec, i, names, q)
<1> DEFINE x == Fields(vec, i, names)
           n == Len(names)
           N == ToSet(names) \ {"skip"}
<1>1. names \in Seq(Names) /\ n \in Nat /\ DOMAIN names = 1..n
      /\ \A k \in 1..n : names[k] # "key" /\ names[k] # "ast"
  BY NamesMono
<1>2. x \in Pieces /\ Len(x) = n /\ \A k \in 1..n : x[k] = Field(names[k], vec, i, 0)
  BY <1>1, FieldsIs
<1>3. PICK s \in Pieces : CutAt(file, q, x ++ s)
  BY DEF Stands
<1> HIDE DEF x, n, N
<1>4. q \in Nat /\ \A k \in 1..n : file[(q + k) - 1] = x[k]
  <2>1. x \in Pieces /\ file \in Pieces
    BY <1>2
  <2>2. q \in Nat \ {0} /\ \A k \in 1..Len(x) : file[(q + k) - 1] = x[k]
    <3>1. \A t \in Pieces : CutAt(file, q, x ++ t) =>
            q \in Nat \ {0} /\ \A k \in 1..Len(x) : file[(q + k) - 1] = x[k]
      BY <2>1, CutStep
    <3> QED BY <1>3, <3>1
  <2> QED BY <1>2, <2>2
<1>5. Named(names, q) = [f \in N |-> file[q - 1 + CHOOSE k \in DOMAIN names : names[k] = f]]
  BY DEF Named, N
<1>6. DOMAIN Named(names, q) = N
  BY <1>5
<1>7. ASSUME NEW f \in N
      PROVE  f # "key" /\ f # "ast" /\ Named(names, q)[f] = Field(f, vec, i, 0)
  <2> DEFINE c == CHOOSE k \in DOMAIN names : names[k] = f
  <2>1. \E k \in DOMAIN names : names[k] = f
    BY DEF ToSet, N
  <2>2. c \in DOMAIN names /\ names[c] = f
    BY <2>1
  <2>3. Named(names, q)[f] = file[q - 1 + c]
    BY <1>5
  <2> HIDE DEF c
  <2>4. c \in 1..n /\ q - 1 + c = (q + c) - 1
    BY <1>1, <1>4, <2>2
  <2>5. file[q - 1 + c] = Field(f, vec, i, 0)
    BY <1>2, <1>4, <2>2, <2>4
  <2> QED BY <1>1, <2>2, <2>3, <2>4, <2>5
<1>8. NamedFits(vec, i, names, q)
  BY <1>6, <1>7 DEF NamedFits
<1> QED BY <1>6, <1>8 DEF N

LEMMA RecordIs ==
  ASSUME NEW a, NEW b, NEW c
  PROVE  /\ [gen |-> a, room |-> b, items |-> c].gen = a
         /\ [gen |-> a, room |-> b, items |-> c].room = b
         /\ [gen |-> a, room |-> b, items |-> c].items = c
OBVIOUS

(* What a step leaves of a vector, and of the sections but t.              *)
Keeps(es, es2, vec) ==
  /\ vec \in DOMAIN es2 /\ Len(es2[vec].items) = Len(es[vec].items)
  /\ Keyed(vec) => \A i \in 1..Len(es[vec].items) : es2[vec].items[i].key = es[vec].items[i].key
Others(es, es2, t) ==
  /\ \A vec \in DOMAIN es : vec[1] # t => Keeps(es, es2, vec)
  /\ \A vec \in DOMAIN es2 : vec[1] # t => vec \in DOMAIN es
Renewed(es, es2) == ElemsFit(es2) /\ DOMAIN es2 = DOMAIN es /\ \A vec \in DOMAIN es : Keeps(es, es2, vec)

LEMMA RenewedTwice ==
  ASSUME NEW es, NEW es2, NEW es3, Renewed(es, es2), Renewed(es2, es3)
  PROVE  Renewed(es, es3)
<1>1. ElemsFit(es3) /\ DOMAIN es3 = DOMAIN es
  BY DEF Renewed
<1>2. ASSUME NEW vec \in DOMAIN es PROVE Keeps(es, es3, vec)
  <2>1. Keeps(es, es2, vec) /\ Keeps(es2, es3, vec)
    BY DEF Renewed
  <2>2. vec \in DOMAIN es3 /\ Len(es3[vec].items) = Len(es[vec].items)
    BY <2>1 DEF Keeps
  <2>3. ASSUME Keyed(vec), NEW i \in 1..Len(es[vec].items) PROVE es3[vec].items[i].key = es[vec].items[i].key
    <3>1. es2[vec].items[i].key = es[vec].items[i].key /\ i \in 1..Len(es2[vec].items)
      BY <2>1, <2>3 DEF Keeps
    <3>2. es3[vec].items[i].key = es2[vec].items[i].key
      BY <2>1, <2>3, <3>1 DEF Keeps
    <3> QED BY <3>1, <3>2
  <2> QED BY <2>2, <2>3 DEF Keeps
<1> QED BY <1>1, <1>2 DEF Renewed

LEMMA RenewedOthers ==
  ASSUME NEW es, NEW es2, Renewed(es, es2), NEW t
  PROVE  Others(es, es2, t)
BY DEF Renewed, Others

LEMMA KeepsSame ==
  ASSUME NEW es, NEW es2, NEW vec, vec \in DOMAIN es2, es2[vec] = es[vec]
  PROVE  Keeps(es, es2, vec)
BY DEF Keeps

LEMMA HasKept ==
  ASSUME NEW p, NEW es, NEW es2, NEW vec, Has(p, es, vec), Keeps(es, es2, vec)
  PROVE  Has(p, es2, vec)
<1>1. vec \in DOMAIN es2 /\ Len(es2[vec].items) = Size(p, vec) /\ Len(es[vec].items) = Size(p, vec)
  BY DEF Has, Keeps
<1>2. ASSUME Keyed(vec), NEW i \in 1..Size(p, vec) PROVE es2[vec].items[i].key = KeyOf(p, vec, i)
  <2>1. es[vec].items[i].key = KeyOf(p, vec, i)
    BY <1>2 DEF Has
  <2>2. es2[vec].items[i].key = es[vec].items[i].key
    BY <1>1, <1>2 DEF Keeps
  <2> QED BY <2>1, <2>2
<1> QED BY <1>1, <1>2 DEF Has

LEMMA RenewedHas ==
  ASSUME NEW p, NEW es, NEW es2, Renewed(es, es2), NEW vec, Has(p, es, vec)
  PROVE  Has(p, es2, vec)
<1>1. Keeps(es, es2, vec)
  BY DEF Renewed, Has
<1> QED BY <1>1, HasKept

LEMMA NameIs ==
  ASSUME NEW vec, IsName(vec)
  PROVE  vec \in Vecs
<1>1. ASSUME NEW s \in Kinds \cup {"info", "libraries", "globals"}, vec = Section(s)
      PROVE  vec \in Vecs
  <2>1. s \in {"", "info", "libraries", "modules", "subs", "globals", "structs", "dlls",
                      "windows", "constants"}
    BY DEF Kinds
  <2>2. 0 \in Nat
    OBVIOUS
  <2> QED BY <1>1, <2>1, <2>2, VecIs
<1>2. ASSUME NEW s \in Kinds, NEW i \in Nat \ {0}, NEW list \in ListsOf(s), vec = <<s, i, list>>
      PROVE  vec \in Vecs
  <2>1. s \in {"modules", "subs", "structs", "dlls", "windows", "constants"} /\ i \in Nat
    BY DEF Kinds
  <2>2. list \in {"vars", "locals", "params", "members", "include", "code"}
    BY ListIs
  <2> QED BY <1>2, <2>1, <2>2, VecIs
<1> QED BY <1>1, <1>2 DEF IsName

LEMMA VecName ==
  ASSUME NEW p, IsContents(p), NEW vec, IsVec(p, vec)
  PROVE  IsName(vec)
<1>1. ASSUME NEW s \in Kinds, NEW i \in 1..Len(p[s]) PROVE i \in Nat \ {0}
  BY KindsIs
<1> QED BY <1>1 DEF IsVec, IsName

(* A vector with one element that has more fields.                         *)
LEMMA ItemFits ==
  ASSUME NEW es, ElemsFit(es), NEW vec \in DOMAIN es, NEW i \in 1..Len(es[vec].items), NEW g,
         \A f \in DOMAIN g : f # "key" /\ FieldFits(vec, i, f, g[f])
  PROVE  Renewed(es, [es EXCEPT ![vec].items[i] = Over(g, @)])
<1> DEFINE v == es[vec]
           n == Len(v.items)
           w == Over(g, v.items[i])
           u == [v.items EXCEPT ![i] = w]
           v2 == [v EXCEPT !.items = u]
           es2 == [es EXCEPT ![vec] = v2]
           a == v.gen
           b == v.room
<1>1. IsName(vec) /\ VectorFits(vec, v)
  BY DEF ElemsFit
<1>2. /\ v = [gen |-> a, room |-> b, items |-> v.items]
      /\ a \in Nat /\ b \in Nat /\ n \in 0..b
      /\ v.items = [k \in 1..n |-> v.items[k]]
      /\ vec[3] = "code" => n = 6
      /\ \A k \in 1..n :
           /\ \A f \in DOMAIN v.items[k] : FieldFits(vec, k, f, v.items[k][f])
           /\ Keyed(vec) => "key" \in DOMAIN v.items[k]
           /\ vec[3] = "code" => "code" \in DOMAIN v.items[k]
  BY <1>1, Zenon DEF VectorFits
<1>3. DOMAIN w = DOMAIN g \cup DOMAIN v.items[i]
      /\ \A f \in DOMAIN w : w[f] = IF f \in DOMAIN g THEN g[f] ELSE v.items[i][f]
  BY DEF Over
<1>4. [es EXCEPT ![vec].items[i] = Over(g, @)] = es2
  OBVIOUS
<1> HIDE DEF w, a, b
<1>5. u = [k \in 1..n |-> u[k]] /\ u[i] = w /\ \A k \in 1..n : k # i => u[k] = v.items[k]
  BY <1>2
<1>6. Len(u) = n
  BY <1>2, <1>5
<1> HIDE DEF u
<1>7. v2 = [gen |-> a, room |-> b, items |-> u]
  <2>1. \A x, c, d, e, f : x = [gen |-> c, room |-> d, items |-> e]
                            => [x EXCEPT !.items = f] = [gen |-> c, room |-> d, items |-> f]
    OBVIOUS
  <2> DEFINE m == v.items
  <2>2. v = [gen |-> a, room |-> b, items |-> m]
    BY <1>2
  <2> HIDE DEF m, v
  <2> QED BY <2>1, <2>2
<1> HIDE DEF v2
<1>8. v2.gen = a /\ v2.room = b /\ v2.items = u
  BY <1>7, RecordIs, Zenon
<1>9. ASSUME NEW k \in 1..n
      PROVE  /\ \A f \in DOMAIN u[k] : FieldFits(vec, k, f, u[k][f])
             /\ Keyed(vec) => "key" \in DOMAIN u[k] /\ u[k].key = v.items[k].key
             /\ vec[3] = "code" => "code" \in DOMAIN u[k]
  <2>1. CASE k = i
    <3>1. \A f \in DOMAIN w : FieldFits(vec, i, f, w[f])
      BY <1>2, <1>3
    <3>2. /\ Keyed(vec) => "key" \in DOMAIN w /\ w.key = v.items[i].key
          /\ vec[3] = "code" => "code" \in DOMAIN w
      BY <1>2, <1>3
    <3>3. u[k] = w
      BY <1>5, <2>1
    <3> QED BY <2>1, <3>1, <3>2, <3>3
  <2>2. CASE k # i
    <3>1. u[k] = v.items[k]
      BY <1>5, <2>2
    <3> QED BY <1>2, <3>1
  <2> QED BY <2>1, <2>2
<1>10. VectorFits(vec, v2)
  <2>1. v2 = [gen |-> v2.gen, room |-> v2.room, items |-> v2.items]
    BY <1>7, <1>8, Zenon
  <2>2. v2.gen \in Nat /\ v2.room \in Nat /\ Len(v2.items) \in 0..v2.room /\ (vec[3] = "code" => Len(v2.items) = 6)
    BY <1>2, <1>6, <1>8
  <2>3. v2.items = [k \in 1..Len(v2.items) |-> v2.items[k]]
    BY <1>5, <1>6, <1>8
  <2>4. \A k \in 1..Len(v2.items) :
          /\ \A f \in DOMAIN v2.items[k] : FieldFits(vec, k, f, v2.items[k][f])
          /\ Keyed(vec) => "key" \in DOMAIN v2.items[k]
          /\ vec[3] = "code" => "code" \in DOMAIN v2.items[k]
    BY <1>6, <1>8, <1>9
  <2> QED BY <2>1, <2>2, <2>3, <2>4, Zenon DEF VectorFits
<1>11. DOMAIN es2 = DOMAIN es /\ es2[vec] = v2 /\ \A x \in DOMAIN es : x # vec => es2[x] = es[x]
  OBVIOUS
<1> HIDE DEF es2
<1>12. ASSUME NEW x \in DOMAIN es2 PROVE IsName(x) /\ VectorFits(x, es2[x])
  <2>1. CASE x = vec
    BY <1>1, <1>10, <1>11, <2>1
  <2>2. CASE x # vec
    BY <1>11, <2>2 DEF ElemsFit
  <2> QED BY <2>1, <2>2
<1>13. ElemsFit(es2)
  BY <1>12 DEF ElemsFit
<1>14. ASSUME NEW x \in DOMAIN es PROVE Keeps(es, es2, x)
  <2>1. CASE x = vec
    BY <1>6, <1>8, <1>9, <1>11, <2>1 DEF Keeps
  <2>2. CASE x # vec
    BY <1>11, <2>2, KeepsSame
  <2> QED BY <2>1, <2>2
<1> QED BY <1>4, <1>11, <1>13, <1>14 DEF Renewed

LEMMA AssignFits ==
  ASSUME NEW es, ElemsFit(es), NEW vec \in DOMAIN es, NEW i \in 1..Len(es[vec].items),
         NEW names \in Seq(PlainNames), NEW q, file \in Pieces,
         Stands(q, Fields(vec, i, names))
  PROVE  Renewed(es, Assign(es, vec, i, names, q))
<1> DEFINE g == Named(names, q)
<1>1. IsName(vec) /\ VectorFits(vec, es[vec])
  BY DEF ElemsFit
<1>2. vec \in Vecs /\ i \in Nat
  <2>1. Len(es[vec].items) \in Nat
    BY <1>1 DEF VectorFits
  <2> QED BY <1>1, <2>1, NameIs
<1>3. \A f \in DOMAIN g : f # "key" /\ f # "ast" /\ g[f] = Field(f, vec, i, 0)
  <2>1. Stands(q, Fields(vec, i, names))
    OBVIOUS
  <2>2. vec \in Vecs /\ i \in Nat /\ names \in Seq(PlainNames) /\ file \in Pieces
    BY <1>2
  <2>3. NamedFits(vec, i, names, q)
    BY ONLY <2>1, <2>2, NamedIs
  <2>4. \A f \in DOMAIN Named(names, q) :
              f # "key" /\ f # "ast" /\ Named(names, q)[f] = Field(f, vec, i, 0)
    BY ONLY <2>3 DEF NamedFits
  <2> QED BY <2>4
<1> HIDE DEF g
<1>4. \A f \in DOMAIN g : f # "key" /\ FieldFits(vec, i, f, g[f])
  BY <1>3 DEF FieldFits
<1> DEFINE es2 == [es EXCEPT ![vec].items[i] = Over(g, @)]
<1>5. Assign(es, vec, i, names, q) = es2
  BY DEF Assign, g
<1>6. Renewed(es, es2)
  BY <1>4, ItemFits
<1> QED BY <1>5, <1>6

(* A vector that is sized for its elements again, or for the first time.   *)
Content0(vec, v, n) ==
  /\ v = [gen |-> v.gen, room |-> v.room, items |-> v.items]
  /\ v.gen \in Nat /\ v.room \in Nat /\ n \in 0..v.room
  /\ v.items = [i \in 1..n |-> v.items[i]] /\ Len(v.items) = n
  /\ \A i \in 1..n : \A f \in DOMAIN v.items[i] : FieldFits(vec, i, f, v.items[i][f])

LEMMA VectorIs ==
  ASSUME ElemsFit(elems), NEW vec
  PROVE  LET v == Vector(vec) IN
         /\ v.gen \in Nat /\ v.room \in Nat
         /\ \/ v.items = <<>>
            \/ /\ v.items = [i \in 1..Len(v.items) |-> v.items[i]] /\ Len(v.items) \in Nat
               /\ \A i \in 1..Len(v.items) : \A f \in DOMAIN v.items[i] : FieldFits(vec, i, f, v.items[i][f])
<1>1. CASE vec \in DOMAIN elems
  <2>1. VectorFits(vec, elems[vec]) /\ Vector(vec) = elems[vec]
    BY <1>1 DEF ElemsFit, Vector
  <2> QED BY <2>1 DEF VectorFits
<1>2. CASE vec \notin DOMAIN elems
  BY <1>2 DEF Vector
<1> QED BY <1>1, <1>2

LEMMA GrownIs ==
  ASSUME ElemsFit(elems), check \in Nat, NEW vec, NEW n \in Nat
  PROVE  LET g == Grown(Vector(vec), n) IN g.gen \in Nat /\ g.room \in Nat /\ n \in 0..g.room
<1> DEFINE v == Vector(vec)
<1>1. v.gen \in Nat /\ v.room \in Nat
  BY VectorIs
<1> HIDE DEF v
<1>2. LET g == Grown(v, n) IN g.gen \in Nat /\ g.room \in Nat /\ n \in 0..g.room
  BY <1>1 DEF Grown
<1> QED BY <1>2 DEF v

LEMMA ResizedFits ==
  ASSUME ElemsFit(elems), check \in Nat, NEW vec, NEW n \in Nat
  PROVE  Content0(vec, Resized(vec, n), n)
<1> DEFINE v == Vector(vec)
           m == v.items
           x == [i \in 1..n |-> IF i <= Len(m) THEN m[i] ELSE <<>>]
           r == Resized(vec, n)
           a == Grown(v, n).gen
           b == Grown(v, n).room
<1>1. a \in Nat /\ b \in Nat /\ n \in 0..b
  BY GrownIs
<1>2. r = [gen |-> a, room |-> b, items |-> x]
  BY DEF Resized
<1>3. \/ m = <<>>
      \/ /\ m = [i \in 1..Len(m) |-> m[i]] /\ Len(m) \in Nat
         /\ \A i \in 1..Len(m) : \A f \in DOMAIN m[i] : FieldFits(vec, i, f, m[i][f])
  BY VectorIs
<1> HIDE DEF m, r, a, b
<1>4. r.gen = a /\ r.room = b /\ r.items = x
  BY <1>2
<1>5. x = [i \in 1..n |-> x[i]] /\ Len(x) = n
  OBVIOUS
<1>6. ASSUME NEW i \in 1..n, NEW f \in DOMAIN x[i] PROVE FieldFits(vec, i, f, x[i][f])
  <2>1. CASE m = <<>>
    <3>1. Len(m) = 0
      BY <2>1
    <3>2. x[i] = <<>>
      BY <3>1
    <3> QED BY <3>2
  <2>2. CASE /\ m = [j \in 1..Len(m) |-> m[j]] /\ Len(m) \in Nat
             /\ \A j \in 1..Len(m) : \A h \in DOMAIN m[j] : FieldFits(vec, j, h, m[j][h])
    <3>1. CASE i <= Len(m)
      <4>1. x[i] = m[i] /\ i \in 1..Len(m)
        BY <2>2, <3>1
      <4> QED BY <2>2, <4>1
    <3>2. CASE ~(i <= Len(m))
      <4>1. x[i] = <<>>
        BY <3>2
      <4> QED BY <4>1
    <3> QED BY <3>1, <3>2
  <2> QED BY <1>3, <2>1, <2>2
<1> HIDE DEF x
<1>7. r = [gen |-> r.gen, room |-> r.room, items |-> r.items] /\ r.items = [i \in 1..n |-> r.items[i]]
  BY <1>2, <1>4, <1>5
<1>8. \A i \in 1..n : \A f \in DOMAIN r.items[i] : FieldFits(vec, i, f, r.items[i][f])
  BY <1>4, <1>6
<1>9. r.gen \in Nat /\ r.room \in Nat /\ n \in 0..r.room /\ Len(r.items) = n
  BY <1>1, <1>4, <1>5
<1> QED BY <1>7, <1>8, <1>9, Zenon DEF Content0, r

(* A vector more, while some of the others go.                             *)
LEMMA AddFits ==
  ASSUME NEW es, ElemsFit(es), NEW vec, IsName(vec), NEW v, VectorFits(vec, v), NEW D, D \subseteq DOMAIN es
  PROVE  LET es2 == Over(Only(vec, v), [other \in D |-> es[other]]) IN
         /\ ElemsFit(es2) /\ DOMAIN es2 = D \cup {vec} /\ es2[vec] = v
         /\ \A x \in D : x # vec => es2[x] = es[x]
<1> DEFINE es2 == Over(Only(vec, v), [other \in D |-> es[other]])
<1>1. DOMAIN es2 = D \cup {vec} /\ es2[vec] = v /\ \A x \in D : x # vec => es2[x] = es[x]
  BY DEF Over, Only
<1> HIDE DEF es2
<1>2. ASSUME NEW x \in DOMAIN es2 PROVE IsName(x) /\ VectorFits(x, es2[x])
  <2>1. CASE x = vec
    BY <1>1, <2>1
  <2>2. CASE x # vec
    BY <1>1, <2>2 DEF ElemsFit
  <2> QED BY <2>1, <2>2
<1>3. ElemsFit(es2)
  BY <1>2 DEF ElemsFit
<1> QED BY <1>1, <1>3 DEF es2

EachAt(vec, n, is, q) == \A i \in 1..n : FieldFits(vec, i, is, file[q + i - 1])
Added(es, vec, n, is, q) ==
  /\ ElemsFit(es) /\ DOMAIN es = Kept(vec, n) \cup {vec}
  /\ Len(es[vec].items) = n /\ \A i \in 1..n : es[vec].items[i][is] = file[q + i - 1]
  /\ \A x \in Kept(vec, n) : x # vec => es[x] = elems[x]

LEMMA AssignEachFits ==
  ASSUME ElemsFit(elems), check \in Nat, NEW vec, IsName(vec), NEW n \in Nat, NEW is, NEW q,
         EachAt(vec, n, is, q), Keyed(vec) => is = "key", vec[3] = "code" => is = "code" /\ n = 6
  PROVE  Added(AssignEach(vec, is, n, q), vec, n, is, q)
<1> DEFINE v == Resized(vec, n)
           o == v.items
           u == [i \in 1..n |-> Over(Only(is, file[q + i - 1]), o[i])]
           v2 == [v EXCEPT !.items = [i \in 1..n |-> Over(Only(is, file[q + i - 1]), @[i])]]
           a == v.gen
           b == v.room
<1>1. Content0(vec, v, n)
  BY ResizedFits
<1>2. /\ v = [gen |-> a, room |-> b, items |-> o] /\ a \in Nat /\ b \in Nat /\ n \in 0..b
      /\ \A i \in 1..n : \A f \in DOMAIN o[i] : FieldFits(vec, i, f, o[i][f])
  BY <1>1, Zenon DEF Content0
<1>3. v2 = [v EXCEPT !.items = u]
  BY <1>2
<1>4. u = [i \in 1..n |-> u[i]] /\ Len(u) = n
  OBVIOUS
<1>5. \A i \in 1..n :
        /\ DOMAIN u[i] = {is} \cup DOMAIN o[i] /\ u[i][is] = file[q + i - 1]
        /\ \A f \in DOMAIN o[i] : f # is => u[i][f] = o[i][f]
  BY DEF Over, Only
<1> HIDE DEF v, o, u, v2, a, b
<1>6. v2 = [gen |-> a, room |-> b, items |-> u] /\ v2.items = u /\ v2.gen = a /\ v2.room = b
  BY <1>2, <1>3
<1>7. \A i \in 1..n : \A f \in DOMAIN u[i] : FieldFits(vec, i, f, u[i][f])
  <2>1. \A i \in 1..n : FieldFits(vec, i, is, file[q + i - 1])
    BY DEF EachAt
  <2>2. ASSUME NEW i \in 1..n, NEW f \in DOMAIN u[i] PROVE FieldFits(vec, i, f, u[i][f])
    <3>1. CASE f = is
      BY <1>5, <2>1, <3>1
    <3>2. CASE f # is
      BY <1>2, <1>5, <3>2
    <3> QED BY <3>1, <3>2
  <2> QED BY <2>2
<1>8. \A i \in 1..n : is \in DOMAIN u[i]
  BY <1>5
<1>9. VectorFits(vec, v2)
  <2>1. v2 = [gen |-> v2.gen, room |-> v2.room, items |-> v2.items]
    BY <1>6, Zenon
  <2>2. v2.items = [i \in 1..Len(v2.items) |-> v2.items[i]]
    BY <1>4, <1>6
  <2>3. \A i \in 1..Len(v2.items) :
       /\ \A f \in DOMAIN v2.items[i] : FieldFits(vec, i, f, v2.items[i][f])
       /\ Keyed(vec) => "key" \in DOMAIN v2.items[i]
       /\ vec[3] = "code" => "code" \in DOMAIN v2.items[i]
    BY <1>4, <1>6, <1>7, <1>8
  <2>4. v2.gen \in Nat /\ v2.room \in Nat /\ Len(v2.items) \in 0..v2.room /\ (vec[3] = "code" => Len(v2.items) = 6)
    BY <1>2, <1>4, <1>6
  <2> QED BY <2>1, <2>2, <2>3, <2>4, Zenon DEF VectorFits
<1> DEFINE D == Kept(vec, n)
           es == Over(Only(vec, v2), [other \in D |-> elems[other]])
<1>10. AssignEach(vec, is, n, q) = es
  BY DEF AssignEach, v2, v
<1>11. D \subseteq DOMAIN elems
  BY DEF Kept
<1> HIDE DEF D
<1>12. ElemsFit(es) /\ DOMAIN es = D \cup {vec} /\ es[vec] = v2 /\ \A x \in D : x # vec => es[x] = elems[x]
  BY <1>9, <1>11, AddFits
<1> HIDE DEF es
<1>13. Len(es[vec].items) = n /\ \A i \in 1..n : es[vec].items[i][is] = file[q + i - 1]
  BY <1>4, <1>5, <1>6, <1>12
<1>14. Added(es, vec, n, is, q)
  BY <1>12, <1>13, Zenon DEF Added, D
<1> QED BY <1>10, <1>14

(* What has entered as p says while other sections stay, and other lists.  *)
Entered(p, es, vec) ==
  /\ Has(p, es, vec) /\ DOMAIN es \subseteq DOMAIN elems \cup {vec}
  /\ \A x \in DOMAIN elems : x # vec /\ (vec[3] # "" \/ x[1] # vec[1]) => Keeps(elems, es, x)

LEMMA EnteredIs ==
  ASSUME NEW p, NEW es, NEW vec, NEW is, NEW q, Added(es, vec, Size(p, vec), is, q),
         Keyed(vec) => is = "key" /\ \A i \in 1..Size(p, vec) : file[q + i - 1] = KeyOf(p, vec, i)
  PROVE  Entered(p, es, vec)
<1> DEFINE n == Size(p, vec)
<1>1. Has(p, es, vec)
  <2>1. vec \in DOMAIN es /\ Len(es[vec].items) = n
    BY DEF Added
  <2>2. ASSUME Keyed(vec), NEW i \in 1..n PROVE es[vec].items[i].key = KeyOf(p, vec, i)
    <3>1. es[vec].items[i][is] = file[q + i - 1] /\ is = "key" /\ file[q + i - 1] = KeyOf(p, vec, i)
      BY <2>2 DEF Added
    <3> QED BY <3>1
  <2> QED BY <2>1, <2>2 DEF Has
<1>2. DOMAIN es \subseteq DOMAIN elems \cup {vec}
  BY DEF Added, Kept
<1>3. ASSUME NEW x \in DOMAIN elems, x # vec, vec[3] # "" \/ x[1] # vec[1] PROVE Keeps(elems, es, x)
  <2>1. x \in Kept(vec, n)
    BY <1>3 DEF Kept
  <2>2. x \in DOMAIN es /\ es[x] = elems[x]
    BY <1>3, <2>1 DEF Added
  <2> QED BY <2>2, KeepsSame
<1> QED BY <1>1, <1>2, <1>3 DEF Entered

LEMMA EnteredOthers ==
  ASSUME NEW p, NEW es, NEW vec, Entered(p, es, vec)
  PROVE  Others(elems, es, vec[1])
<1>1. ASSUME NEW x \in DOMAIN elems, x[1] # vec[1] PROVE Keeps(elems, es, x)
  BY <1>1 DEF Entered
<1>2. ASSUME NEW x \in DOMAIN es, x[1] # vec[1] PROVE x \in DOMAIN elems
  BY <1>2 DEF Entered
<1> QED BY <1>1, <1>2 DEF Others

(* The keys of the elements, and what maps has for them.                   *)
LEMMA KeyIs ==
  ASSUME NEW p, NEW vec, NEW i
  PROVE  LET k == KeyOf(p, vec, i) IN
         k.vec = vec /\ k.of = i /\ k.n \in Nat /\ k = Field("key", vec, i, k.n)
<1> DEFINE m == IF vec = Section("constants") /\ p.constants[i] = 0 THEN 1 ELSE 0
           k == Field("key", vec, i, m)
<1>1. KeyOf(p, vec, i) = k /\ m \in Nat
  BY DEF KeyOf
<1> HIDE DEF m
<1>2. k.vec = vec /\ k.of = i /\ k.n = m
  BY FieldIs
<1> HIDE DEF k
<1>3. k = Field("key", vec, i, k.n)
  BY <1>2 DEF k
<1> QED BY <1>1, <1>2, <1>3

LEMMA MapsAdd ==
  ASSUME MapsFit(maps), ElemsFit(elems), check \in Nat, NEW p, NEW vec, NEW n \in Nat, NEW q,
         \A i \in 1..n : file[q + i - 1] = KeyOf(p, vec, i)
  PROVE  MapsFit(Emplaced(vec, n, q))
<1> DEFINE at(k) == CHOOSE i \in 1..n : file[q + i - 1] = k
           g == Grown(Vector(vec), n).gen
           D == {file[q + i - 1] : i \in 1..n}
           new == [k \in D |-> [vec |-> vec, of |-> at(k), gen |-> g]]
           E == Emplaced(vec, n, q)
<1>1. E = Over(maps, new)
  BY DEF Emplaced
<1>2. g \in Nat
  BY GrownIs
<1>3. ASSUME NEW k \in D
      PROVE  /\ k = Field("key", k.vec, k.of, k.n) /\ k.of \in Nat /\ k.n \in Nat
             /\ new[k].vec = k.vec /\ new[k].of = k.of /\ new[k].gen \in Nat
  <2>1. at(k) \in 1..n /\ file[q + at(k) - 1] = k
    OBVIOUS
  <2> DEFINE c == at(k)
  <2>3. c \in 1..n => file[q + c - 1] = KeyOf(p, vec, c)
    OBVIOUS
  <2>2. new[k].vec = vec /\ new[k].of = at(k) /\ new[k].gen = g
    OBVIOUS
  <2>4. c \in 1..n /\ k = KeyOf(p, vec, c) /\ new[k].of = c
    BY <2>1, <2>2, <2>3
  <2> HIDE DEF at, g, D, new, c
  <2>5. LET x == KeyOf(p, vec, c) IN
        x.vec = vec /\ x.of = c /\ x.n \in Nat /\ x = Field("key", vec, c, x.n)
    BY KeyIs
  <2>6. k.vec = vec /\ k.of = c /\ k.n \in Nat /\ k = Field("key", vec, c, k.n)
    BY <2>4, <2>5
  <2> QED BY <1>2, <2>2, <2>4, <2>6
<1>4. DOMAIN new = D
  OBVIOUS
<1> HIDE DEF new, D, E
<1>5. DOMAIN E = DOMAIN maps \cup D /\ \A k \in DOMAIN E : E[k] = IF k \in DOMAIN maps THEN maps[k] ELSE new[k]
  BY <1>1, <1>4 DEF Over
<1>6. ASSUME NEW k \in DOMAIN E
      PROVE  /\ k = Field("key", k.vec, k.of, k.n) /\ k.of \in Nat /\ k.n \in Nat
             /\ E[k].vec = k.vec /\ E[k].of = k.of /\ E[k].gen \in Nat
  <2>1. CASE k \in DOMAIN maps
    BY <1>5, <2>1, Zenon DEF MapsFit
  <2>2. CASE k \notin DOMAIN maps
    <3>1. k \in D /\ E[k] = new[k]
      BY <1>5, <2>2
    <3> QED BY <1>3, <3>1
  <2> QED BY <2>1, <2>2
<1> QED BY <1>6, Zenon DEF MapsFit, E

(* A vector whose keys are read, and one without keys.                     *)
DataFit(es, ms) == ElemsFit(es) /\ MapsFit(ms)

LEMMA OpenFits ==
  ASSUME NEW p, IsContents(p), check \in Nat, DataFit(elems, maps), NEW vec, IsVec(p, vec), Keyed(vec),
         vec[3] # "code", NEW q,
         \A i \in 1..Size(p, vec) : file[q + i - 1] = KeyOf(p, vec, i),
         OpenVector(vec, Size(p, vec), q)
  PROVE  DataFit(elems', maps') /\ Entered(p, elems', vec) /\ pos' = q + 2 * Size(p, vec)
<1> DEFINE n == Size(p, vec)
           es == AssignEach(vec, "key", n, q)
<1>1. elems' = es /\ pos' = q + 2 * n
      /\ maps' = IF vec = Section("windows") THEN maps ELSE Emplaced(vec, n, q)
  BY DEF OpenVector
<1>2. n \in Nat /\ IsName(vec) /\ ElemsFit(elems) /\ MapsFit(maps)
  BY SizeType, VecName DEF DataFit
<1>3. EachAt(vec, n, "key", q)
  <2>1. ASSUME NEW i \in 1..n PROVE FieldFits(vec, i, "key", file[q + i - 1])
    <3>1. file[q + i - 1] = KeyOf(p, vec, i)
      OBVIOUS
    <3> DEFINE k == KeyOf(p, vec, i)
    <3>2. k.n \in Nat /\ k = Field("key", vec, i, k.n)
      BY KeyIs
    <3> HIDE DEF k, n
    <3>3. FieldFits(vec, i, "key", k)
      BY <3>2 DEF FieldFits
    <3> QED BY <3>1, <3>3 DEF k
  <2> QED BY <2>1 DEF EachAt
<1>4. Added(es, vec, n, "key", q)
  <2> HIDE DEF n
  <2> QED BY <1>2, <1>3, AssignEachFits
<1>5. Entered(p, es, vec) /\ ElemsFit(es)
  <2>1. Added(es, vec, Size(p, vec), "key", q)
    BY <1>4
  <2> HIDE DEF es, n
  <2>2. ElemsFit(es)
    BY <2>1 DEF Added
  <2> QED BY <2>1, <2>2, EnteredIs
<1>6. MapsFit(maps')
  <2>1. CASE vec = Section("windows")
    BY <1>1, <1>2, <2>1
  <2>2. CASE vec # Section("windows")
    <3>1. MapsFit(Emplaced(vec, n, q))
      <4>1. \A i \in 1..n : file[q + i - 1] = KeyOf(p, vec, i)
        OBVIOUS
      <4> HIDE DEF n
      <4> QED BY <1>2, <4>1, MapsAdd
    <3> QED BY <1>1, <2>2, <3>1
  <2> QED BY <2>1, <2>2
<1> HIDE DEF es, n
<1> QED BY <1>1, <1>5, <1>6 DEF DataFit, n

LEMMA EachFits ==
  ASSUME NEW p, IsContents(p), check \in Nat, DataFit(elems, maps), NEW vec, IsVec(p, vec), ~Keyed(vec),
         NEW is, NEW q, EachAt(vec, Size(p, vec), is, q), vec[3] = "code" => is = "code" /\ Size(p, vec) = 6
  PROVE  LET es == AssignEach(vec, is, Size(p, vec), q) IN DataFit(es, maps) /\ Entered(p, es, vec)
<1> DEFINE n == Size(p, vec)
           es == AssignEach(vec, is, n, q)
<1>1. n \in Nat /\ IsName(vec) /\ ElemsFit(elems) /\ MapsFit(maps)
  BY SizeType, VecName DEF DataFit
<1>2. Added(es, vec, n, is, q)
  <2>1. EachAt(vec, n, is, q) /\ (vec[3] = "code" => is = "code" /\ n = 6)
    OBVIOUS
  <2> HIDE DEF n
  <2> QED BY <1>1, <2>1, AssignEachFits
<1>3. Entered(p, es, vec) /\ ElemsFit(es)
  <2>1. Added(es, vec, Size(p, vec), is, q)
    BY <1>2
  <2> HIDE DEF es, n
  <2>2. ElemsFit(es)
    BY <2>1 DEF Added
  <2> QED BY <2>1, <2>2, EnteredIs
<1> QED BY <1>1, <1>3 DEF DataFit

-----------------------------------------------------------------------------
(* The steps of the scanner.                                               *)
LEMMA CutEmpty ==
  ASSUME NEW f \in Pieces, NEW q, CutAt(f, q, <<>>)
  PROVE  Len(f) \in Nat /\ q = Len(f) + 1
<1>1. q \in 1..(Len(f) + 1) /\ <<>> = SubSeq(f, q, Len(f))
  BY DEF CutAt
<1>2. Len(f) \in Nat /\ Len(SubSeq(f, q, Len(f))) = (Len(f) - q) + 1
  BY <1>1, SubSeqIs DEF Pieces
<1>3. Len(<<>>) = 0
  OBVIOUS
<1>4. (Len(f) - q) + 1 = 0
  BY <1>1, <1>2, <1>3
<1> QED BY <1>1, <1>2, <1>4

LEMMA HeadRead ==
  ASSUME NEW p, IsProgram(p), NEW k \in 0..(Len(p.segments) - 1), NEW f \in Pieces, NEW q,
         CutAt(f, q, After(p, k))
  PROVE  /\ q \in Nat \ {0} /\ Len(f) \in Nat /\ q + 4 \in 1..(Len(f) + 1)
         /\ f[q].is = "junk" /\ f[q + 1].is = "start" /\ f[q + 3].n = p.segments[k + 1]
         /\ CutAt(f, q + 4, Body(p, k + 1) ++ After(p, k + 1))
<1> DEFINE t == p.segments[k + 1]
           j == <<Plain("junk")>>
           s == <<Plain("start")>>
           z == <<Number(0)>>
           m == <<Number(t)>>
           h == Header(t)
           b == Body(p, k + 1)
           a == After(p, k + 1)
<1>1. Len(p.segments) \in Nat /\ k + 1 \in 1..Len(p.segments) /\ k + 1 \in 0..Len(p.segments)
  BY ProgramIs
<1>2. t \in 0..9 /\ b \in Pieces /\ SegmentWritten(p, k + 1) = h ++ b
  BY <1>1, SegmentIs
<1>3. a \in Pieces /\ After(p, k) = SegmentWritten(p, k + 1) ++ a
  BY <1>1, AfterIs
<1>4. j \in Pieces /\ s \in Pieces /\ z \in Pieces /\ m \in Pieces /\ h \in Pieces /\ Len(h) = 4
  BY <1>2, HeaderIs
<1>5. h = (j ++ s) ++ (z ++ m)
  BY DEF Header
<1>6. /\ Len(j) = 1 /\ j[1].is = "junk" /\ Len(s) = 1 /\ s[1].is = "start"
      /\ Len(z) = 1 /\ Len(m) = 1 /\ m[1].n = t
  <2>1. Plain("junk") \in Elem /\ Plain("start") \in Elem /\ Number(0) \in Elem /\ Number(t) \in Elem
    BY <1>2, PlainIs, HeaderIs
  <2>2. Plain("junk").is = "junk" /\ Plain("start").is = "start" /\ Number(t).n = t
    BY <1>2, PlainIs, NumberIs
  <2> QED BY <2>1, <2>2, OneIs
<1> HIDE DEF t, j, s, z, m, h, b, a
<1>7. /\ j ++ s \in Pieces /\ z ++ m \in Pieces /\ Len(j ++ s) = 2 /\ Len(z ++ m) = 2
      /\ (j ++ s)[1] = j[1] /\ (j ++ s)[2] = s[1] /\ (z ++ m)[2] = m[1]
  <2>1. /\ j ++ s \in Pieces /\ Len(j ++ s) = Len(j) + Len(s)
        /\ \A i \in 1..Len(j) : (j ++ s)[i] = j[i]
        /\ \A i \in 1..Len(s) : (j ++ s)[Len(j) + i] = s[i]
    BY <1>4, ConcatIs
  <2>2. /\ z ++ m \in Pieces /\ Len(z ++ m) = Len(z) + Len(m)
        /\ \A i \in 1..Len(m) : (z ++ m)[Len(z) + i] = m[i]
    BY <1>4, ConcatIs
  <2> QED BY <1>6, <2>1, <2>2
<1>8. h[1].is = "junk" /\ h[2].is = "start" /\ h[4].n = t
  <2> DEFINE x == j ++ s
             y == z ++ m
  <2>1. x \in Pieces /\ y \in Pieces /\ Len(x) = 2 /\ Len(y) = 2 /\ h = x ++ y
        /\ x[1].is = "junk" /\ x[2].is = "start" /\ y[2].n = t
    BY <1>5, <1>6, <1>7
  <2> HIDE DEF x, y
  <2>2. /\ \A i \in 1..Len(x) : (x ++ y)[i] = x[i]
        /\ \A i \in 1..Len(y) : (x ++ y)[Len(x) + i] = y[i]
    BY <2>1, ConcatIs
  <2> QED BY <2>1, <2>2
<1>9. CutAt(f, q, (h ++ b) ++ a)
  BY <1>2, <1>3
<1>10. /\ Len(f) \in Nat /\ q \in Nat \ {0} /\ q + 4 \in 1..(Len(f) + 1)
       /\ CutAt(f, q + 4, b ++ a)
       /\ \A i \in 1..4 : f[(q + i) - 1] = h[i]
  <2>1. h \in Pieces /\ b \in Pieces /\ a \in Pieces
    BY <1>2, <1>3, <1>4
  <2>2. /\ Len(f) \in Nat /\ q \in Nat \ {0} /\ q + Len(h) \in 1..(Len(f) + 1)
        /\ CutAt(f, q + Len(h), b ++ a)
        /\ \A i \in 1..Len(h) : f[(q + i) - 1] = h[i]
    BY <1>9, <2>1, CutSplit
  <2> QED BY <1>4, <2>2
<1>11. f[q] = h[1] /\ f[q + 1] = h[2] /\ f[q + 3] = h[4]
  <2>1. (q + 1) - 1 = q /\ (q + 2) - 1 = q + 1 /\ (q + 4) - 1 = q + 3
    BY <1>10
  <2> QED BY <1>10, <2>1
<1> QED BY <1>8, <1>10, <1>11 DEF t, b, a

LEMMA ScanIs ==
  ASSUME PositionInv, phase = "scan", todo = <<>>
  PROVE  /\ ScanFits(program, file, pos, check) /\ segment \notin Ast /\ frames = <<>>
         /\ \A k \in 1..check : program.segments[k] \notin Ast
<1>1. ScanFits(program, file, pos, check) /\ segment \notin Ast /\ frames = <<>>
  BY DEF PositionInv
<1>2. check \in Nat /\ segment = (IF check = 0 THEN 0 ELSE program.segments[check])
      /\ \A k \in 1..(check - 1) : program.segments[k] \notin Ast
  BY FileIs DEF PositionInv
<1>3. ASSUME NEW k \in 1..check PROVE program.segments[k] \notin Ast
  <2>1. CASE k = check
    BY <1>1, <1>2, <2>1
  <2>2. CASE k # check
    BY <1>2, <2>2
  <2> QED BY <2>1, <2>2
<1> QED BY <1>1, <1>3

LEMMA PosIs ==
  ASSUME PositionInv
  PROVE  pos \in 1..(Len(file) + 1) /\ Len(file) \in Nat
<1>1. /\ file \in Pieces /\ IsProgram(program) /\ check \in 0..Len(program.segments)
      /\ Len(program.segments) \in Nat
  BY FileIs
<1>2. Len(file) \in Nat
  BY <1>1 DEF Pieces
<1>3. \A r : CutAt(file, pos, r) => pos \in 1..(Len(file) + 1)
  BY DEF CutAt
<1>4. CASE phase = "scan" /\ todo = <<>>
  <2>1. ScanFits(program, file, pos, check)
    BY <1>4, ScanIs
  <2>2. CASE CutAt(file, pos, After(program, check)) \/ CutAt(file, pos, <<Plain("junk")>> \o After(program, check))
    BY <1>2, <1>3, <2>2
  <2>3. CASE pos \in Nat /\ check < Len(program.segments) /\ CutAt(file, pos - 1, After(program, check))
    <3>1. check \in 0..(Len(program.segments) - 1)
      BY <1>1, <2>3
    <3> DEFINE q == pos - 1
    <3>2. CutAt(file, q, After(program, check))
      BY <2>3
    <3> HIDE DEF q
    <3>3. q \in Nat \ {0} /\ q + 4 \in 1..(Len(file) + 1)
      BY <1>1, <3>1, <3>2, HeadRead
    <3>4. pos = q + 1
      BY <2>3 DEF q
    <3> QED BY <1>2, <3>3, <3>4
  <2> QED BY <2>1, <2>2, <2>3 DEF ScanFits
<1>5. CASE todo # <<>>
  BY <1>2, <1>3, <1>5, ReadingIs
<1>6. CASE phase = "search" /\ SearchFits(program, file, pos, check)
  <2>1. Len(file) + 1 \in 1..(Len(file) + 1)
    BY <1>2
  <2> QED BY <1>2, <1>3, <1>6, <2>1 DEF SearchFits
<1>7. CASE phase = "done"
  BY <1>2, <1>7 DEF PositionInv
<1> QED BY <1>4, <1>5, <1>6, <1>7 DEF PositionInv

LEMMA JunkIs ==
  ASSUME PositionInv, NEW q, CutAt(file, q, <<Plain("junk")>> \o After(program, check))
  PROVE  /\ Len(file) \in Nat /\ q \in 1..Len(file) /\ file[q].is = "junk"
         /\ q + 1 \in Nat /\ CutAt(file, q + 1, After(program, check))
<1> DEFINE x == Plain("junk")
           a == After(program, check)
           f == file
<1>1. /\ f \in Pieces /\ IsProgram(program) /\ check \in 0..Len(program.segments)
  BY FileIs
<1>2. x \in Elem /\ x.is = "junk"
  BY PlainIs
<1>3. a \in Pieces
  BY <1>1, AfterIs
<1>4. CutAt(f, q, <<x>> ++ a)
  BY DEF ++
<1> HIDE DEF x, a, f
<1>5. Len(f) \in Nat /\ q \in 1..Len(f) /\ f[q] = x /\ CutAt(f, q + 1, a)
  BY <1>1, <1>2, <1>3, <1>4, CutOne
<1>6. q + 1 \in Nat
  BY <1>5
<1> QED BY <1>2, <1>5, <1>6 DEF x, a, f

LEMMA StepFits ==
  ASSUME PositionInv, Step
  PROVE  PositionInv'
<1>1. /\ phase = "scan" /\ todo = <<>> /\ pos <= Len(file) /\ file[pos].is # "start" /\ pos' = pos + 1
      /\ program' = program /\ file' = file /\ phase' = phase /\ check' = check /\ warned' = warned
      /\ segment' = segment /\ todo' = todo /\ frames' = frames
  BY DEF Step, Scanning, Good, At, Skipped, given, scanner
<1>2. /\ file \in Pieces /\ IsProgram(program) /\ check \in 0..Len(program.segments)
      /\ Len(program.segments) \in Nat
  BY FileIs
<1>3. ScanFits(program, file, pos, check)
  BY <1>1, ScanIs
<1>4. ScanFits(program, file, pos', check)
  <2>1. CASE CutAt(file, pos, After(program, check))
    <3>1. check # Len(program.segments)
      <4>1. SUFFICES ASSUME check = Len(program.segments) PROVE FALSE
        OBVIOUS
      <4>2. After(program, check) = <<>>
        BY <1>2, <4>1, AfterIs
      <4>3. CutAt(file, pos, <<>>)
        BY <2>1, <4>2
      <4>4. Len(file) \in Nat /\ pos = Len(file) + 1
        BY <1>2, <4>3, CutEmpty
      <4> QED BY <1>1, <4>4
    <3>2. pos' \in Nat /\ pos' - 1 = pos /\ check < Len(program.segments)
      <4>1. pos \in 1..(Len(file) + 1) /\ Len(file) \in Nat
        BY PosIs
      <4> QED BY <1>1, <1>2, <3>1, <4>1
    <3> QED BY <2>1, <3>2 DEF ScanFits
  <2>2. CASE CutAt(file, pos, <<Plain("junk")>> \o After(program, check))
    BY <1>1, <2>2, JunkIs DEF ScanFits
  <2>3. CASE pos \in Nat /\ check < Len(program.segments) /\ CutAt(file, pos - 1, After(program, check))
    <3>1. check \in 0..(Len(program.segments) - 1)
      BY <1>2, <2>3
    <3> DEFINE q == pos - 1
    <3>2. CutAt(file, q, After(program, check)) /\ q + 1 = pos
      BY <2>3
    <3> HIDE DEF q
    <3>3. file[q + 1].is = "start"
      BY <1>2, <3>1, <3>2, HeadRead
    <3> QED BY <1>1, <3>2, <3>3
  <2> QED BY <1>3, <2>1, <2>2, <2>3 DEF ScanFits
<1>5. segment \notin Ast /\ frames = <<>>
  BY <1>1, ScanIs
<1> QED BY <1>1, <1>4, <1>5 DEF PositionInv

LEMMA FinishFits ==
  ASSUME PositionInv, Finish
  PROVE  PositionInv'
<1>1. /\ phase = "scan" /\ todo = <<>> /\ ~(pos <= Len(file)) /\ pos' = pos
      /\ program' = program /\ file' = file /\ phase' = "done" /\ check' = check /\ warned' = warned
      /\ segment' = segment /\ todo' = todo /\ frames' = frames
  BY DEF Finish, Scanning, Good, given
<1>2. /\ file \in Pieces /\ IsProgram(program) /\ check \in 0..Len(program.segments)
      /\ Len(program.segments) \in Nat
  BY FileIs
<1>3. ScanFits(program, file, pos, check)
  BY <1>1, ScanIs
<1>4. pos \in 1..(Len(file) + 1) /\ Len(file) \in Nat
  BY PosIs
<1>5. check = Len(program.segments)
  <2>1. SUFFICES ASSUME check # Len(program.segments) PROVE FALSE
    OBVIOUS
  <2>2. check \in 0..(Len(program.segments) - 1)
    BY <1>2, <2>1
  <2>3. CASE CutAt(file, pos, After(program, check))
    <3>1. pos \in Nat \ {0} /\ pos + 4 \in 1..(Len(file) + 1)
      BY <1>2, <2>2, <2>3, HeadRead
    <3> QED BY <1>1, <1>4, <3>1
  <2>4. CASE CutAt(file, pos, <<Plain("junk")>> \o After(program, check))
    <3>1. pos \in 1..Len(file)
      BY <2>4, JunkIs
    <3> QED BY <1>1, <1>4, <3>1
  <2>5. CASE pos \in Nat /\ check < Len(program.segments) /\ CutAt(file, pos - 1, After(program, check))
    <3> DEFINE q == pos - 1
    <3>2. CutAt(file, q, After(program, check)) /\ q + 1 = pos
      BY <2>5
    <3> HIDE DEF q
    <3>3. q \in Nat \ {0} /\ q + 4 \in 1..(Len(file) + 1)
      BY <1>2, <2>2, <3>2, HeadRead
    <3> QED BY <1>1, <1>4, <3>2, <3>3
  <2> QED BY <1>3, <2>3, <2>4, <2>5 DEF ScanFits
<1> QED BY <1>1, <1>4, <1>5 DEF PositionInv

LEMMA StartFits ==
  ASSUME PositionInv, StartSegment
  PROVE  PositionInv' /\ check' = check + 1
<1>1. /\ phase = "scan" /\ todo = <<>> /\ pos <= Len(file) /\ file[pos].is = "start"
      /\ pos' = pos + 3 /\ segment' = file[pos + 2].n /\ check' = check + 1
      /\ program' = program /\ file' = file /\ phase' = "search" /\ warned' = warned
      /\ todo' = todo /\ frames' = frames
  BY DEF StartSegment, Scanning, Good, At, Counted, given
<1>2. /\ file \in Pieces /\ IsProgram(program) /\ check \in 0..Len(program.segments)
      /\ Len(program.segments) \in Nat
  BY FileIs
<1>3. ScanFits(program, file, pos, check) /\ \A k \in 1..check : program.segments[k] \notin Ast
      /\ frames = <<>>
  BY <1>1, ScanIs
<1>4. pos \in 1..(Len(file) + 1) /\ Len(file) \in Nat
  BY PosIs
<1> DEFINE q == pos - 1
           k == check + 1
<1>5. CutAt(file, q, After(program, check)) /\ check \in 0..(Len(program.segments) - 1)
  <2>1. CASE CutAt(file, pos, After(program, check))
    <3>1. CASE check = Len(program.segments)
      <4>1. After(program, check) = <<>>
        BY <1>2, <3>1, AfterIs
      <4>2. CutAt(file, pos, <<>>)
        BY <2>1, <4>1
      <4>3. pos = Len(file) + 1
        BY <1>2, <4>2, CutEmpty
      <4> QED BY <1>1, <1>4, <4>3
    <3>2. CASE check # Len(program.segments)
      <4>1. check \in 0..(Len(program.segments) - 1)
        BY <1>2, <3>2
      <4>2. file[pos].is = "junk"
        BY <1>2, <2>1, <4>1, HeadRead
      <4> QED BY <1>1, <4>2
    <3> QED BY <3>1, <3>2
  <2>2. CASE CutAt(file, pos, <<Plain("junk")>> \o After(program, check))
    BY <1>1, <2>2, JunkIs
  <2>3. CASE pos \in Nat /\ check < Len(program.segments) /\ CutAt(file, pos - 1, After(program, check))
    BY <1>2, <2>3
  <2> QED BY <1>3, <2>1, <2>2, <2>3 DEF ScanFits
<1>6. q + 1 = pos /\ q + 3 = pos + 2 /\ q + 4 = pos + 3
  BY <1>4
<1> HIDE DEF q
<1>7. /\ q + 4 \in 1..(Len(file) + 1) /\ file[q + 3].n = program.segments[k]
      /\ CutAt(file, q + 4, Body(program, k) ++ After(program, k))
  BY <1>2, <1>5, HeadRead
<1>8. /\ k \in 1..Len(program.segments) /\ k # 0 /\ k \in 0..Len(program.segments) /\ k - 1 = check
  BY <1>2, <1>5
<1>9. SearchFits(program, file, pos + 3, k)
  <2> DEFINE x == Plain("block")
             t == Trailer(k)
             c == Content(program.contents[k], program.segments[k])
             a == After(program, k)
             m == Marks(k)
  <2>1. /\ m \in Pieces /\ t \in Pieces /\ c \in Pieces /\ <<x>> \in Pieces /\ a \in Pieces
        /\ Body(program, k) = IF CutShort(program, k) THEN <<>> ELSE <<x>> ++ (m ++ (t ++ c))
    BY <1>2, <1>8, SegmentIs, AfterIs DEF Body
  <2>2. CASE CutShort(program, k)
    <3>1. k = Len(program.segments)
      BY <2>2 DEF CutShort
    <3>2. a = <<>> /\ Body(program, k) = <<>>
      BY <1>2, <2>1, <2>2, <3>1, AfterIs
    <3>3. <<>> ++ <<>> = <<>>
      BY <2>1, <3>2, ConcatEmpty
    <3>4. CutAt(file, pos + 3, <<>>)
      BY <1>6, <1>7, <3>2, <3>3
    <3>5. pos + 3 = Len(file) + 1
      BY <1>2, <3>4, CutEmpty
    <3> QED BY <2>2, <3>5 DEF SearchFits
  <2>3. CASE ~CutShort(program, k)
    <3> DEFINE y == <<x>>
    <3>1. CutAt(file, pos + 3, (y ++ (m ++ (t ++ c))) ++ a)
      BY <1>6, <1>7, <2>1, <2>3
    <3>2. y \in Pieces
      BY <2>1
    <3> HIDE DEF y, m, t, c, a
    <3>3. (y ++ (m ++ (t ++ c))) ++ a = y ++ (m ++ (t ++ (c ++ a)))
      <4>1. t ++ c \in Pieces /\ m ++ (t ++ c) \in Pieces
        BY <2>1, ConcatIs
      <4>2. (y ++ (m ++ (t ++ c))) ++ a = y ++ ((m ++ (t ++ c)) ++ a)
        BY <2>1, <3>2, <4>1, Assoc
      <4>3. (m ++ (t ++ c)) ++ a = m ++ ((t ++ c) ++ a)
        BY <2>1, <4>1, Assoc
      <4>4. (t ++ c) ++ a = t ++ (c ++ a)
        BY <2>1, Assoc
      <4> QED BY <4>2, <4>3, <4>4
    <3>4. CutAt(file, pos + 3, y ++ (m ++ (t ++ (c ++ a))))
      BY <3>1, <3>3
    <3> QED BY <2>3, <3>4 DEF SearchFits, ++, y, m, t, c, a
  <2> QED BY <2>2, <2>3
<1>10. segment' = IF check' = 0 THEN 0 ELSE program.segments[check']
  BY <1>1, <1>6, <1>7, <1>8
<1>11. check' = k /\ pos' = pos + 3
  BY <1>1
<1> HIDE DEF k
<1>12. /\ check' \in 0..Len(program.segments) /\ \A i \in 1..(check' - 1) : program.segments[i] \notin Ast
       /\ check' # 0 /\ SearchFits(program, file, pos', check')
  BY <1>3, <1>8, <1>9, <1>11
<1>13. IsProgram(program) /\ file = FlattenSeq([i \in DOMAIN program.segments |-> SegmentWritten(program, i)])
       /\ ~warned
  BY DEF PositionInv
<1> QED BY <1>1, <1>3, <1>10, <1>12, <1>13 DEF PositionInv

(* The rest of a segment's header, in pieces.                              *)
LEMMA HeaderRest ==
  ASSUME PositionInv, phase = "search"
  PROVE  LET k == check
             t == Trailer(k)
             c == Content(program.contents[k], program.segments[k])
             a == After(program, k)
             r == Marks(k) ++ (t ++ (c ++ a))
         IN  /\ k \in 1..Len(program.segments) /\ k \in Nat /\ program.segments[k] \in 0..9
             /\ Marks(k) \in Pieces /\ t \in Pieces /\ c \in Pieces /\ a \in Pieces
             /\ c ++ a \in Pieces /\ t ++ (c ++ a) \in Pieces /\ r \in Pieces
             /\ CutShort(program, k) => pos = Len(file) + 1
             /\ ~CutShort(program, k) =>
                  CutAt(file, pos, <<Plain("block")>> ++ r) \/ CutAt(file, pos, r)
<1> DEFINE k == check
           t == Trailer(k)
           c == Content(program.contents[k], program.segments[k])
           a == After(program, k)
           m == Marks(k)
<1>1. /\ file \in Pieces /\ IsProgram(program) /\ check \in 0..Len(program.segments)
      /\ Len(program.segments) \in Nat /\ k \in Nat
  BY FileIs
<1>2. k # 0 /\ SearchFits(program, file, pos, k)
  BY DEF PositionInv
<1>3. k \in 1..Len(program.segments) /\ k \in 0..Len(program.segments)
  BY <1>1, <1>2
<1>4. program.segments[k] \in 0..9 /\ m \in Pieces /\ t \in Pieces /\ c \in Pieces /\ a \in Pieces
  BY <1>1, <1>3, SegmentIs, AfterIs
<1>5. /\ CutShort(program, k) => pos = Len(file) + 1
      /\ ~CutShort(program, k) =>
           CutAt(file, pos, <<Plain("block")>> ++ (m ++ (t ++ (c ++ a)))) \/ CutAt(file, pos, m ++ (t ++ (c ++ a)))
  BY <1>2 DEF SearchFits, ++
<1> HIDE DEF t, c, a, m
<1>6. c ++ a \in Pieces /\ t ++ (c ++ a) \in Pieces /\ m ++ (t ++ (c ++ a)) \in Pieces
  BY <1>4, ConcatIs
<1> QED BY <1>1, <1>3, <1>4, <1>5, <1>6 DEF t, c, a, m

LEMMA MarkIs ==
  ASSUME NEW f \in Pieces, NEW q, NEW k \in Nat, NEW r \in Pieces, CutAt(f, q, Marks(k) ++ r)
  PROVE  /\ q \in Nat \ {0} /\ Len(f) \in Nat /\ q + k \in 1..(Len(f) + 1) /\ CutAt(f, q + k, r)
         /\ \A j \in q..((q + k) - 1) : f[j].is = "mark"
         /\ k # 0 => q \in 1..Len(f) /\ f[q].is = "mark"
<1> DEFINE m == Marks(k)
<1>1. m \in Pieces /\ Len(m) = k /\ \A i \in 1..k : m[i].is = "mark"
  BY MarksIs, PlainIs, FieldIs DEF Plain
<1> HIDE DEF m
<1>2. /\ q \in Nat \ {0} /\ Len(f) \in Nat /\ q + Len(m) \in 1..(Len(f) + 1) /\ CutAt(f, q + Len(m), r)
      /\ \A i \in 1..Len(m) : f[(q + i) - 1] = m[i]
  <2>1. CutAt(f, q, m ++ r)
    BY DEF m
  <2>2. m \in Pieces
    BY <1>1
  <2> QED BY <2>1, <2>2, CutStep
<1>3. \A j \in q..((q + k) - 1) : f[j].is = "mark"
  <2>1. ASSUME NEW j \in q..((q + k) - 1) PROVE f[j].is = "mark"
    <3> DEFINE i == (j - q) + 1
    <3>1. i \in 1..k /\ (q + i) - 1 = j
      BY <1>2
    <3> HIDE DEF i
    <3> QED BY <1>1, <1>2, <3>1
  <2> QED BY <2>1
<1>4. k # 0 => q \in 1..Len(f) /\ q \in q..((q + k) - 1)
  BY <1>1, <1>2
<1> QED BY <1>1, <1>2, <1>3, <1>4

LEMMA SearchKeeps ==
  ASSUME PositionInv, Search
  PROVE  PositionInv'
<1>1. /\ phase = "search" /\ ~(pos <= Len(file) /\ file[pos].is \in {"mark", "start"})
      /\ pos' = (IF pos <= Len(file) THEN pos + 1 ELSE pos)
      /\ program' = program /\ file' = file /\ phase' = "search" /\ check' = check /\ warned' = warned
      /\ segment' = segment /\ todo' = todo /\ frames' = frames
  BY DEF Search, Good, At, given, scanner
<1> DEFINE k == check
           t == Trailer(k)
           c == Content(program.contents[k], program.segments[k])
           a == After(program, k)
           r == Marks(k) ++ (t ++ (c ++ a))
           z == t ++ (c ++ a)
           x == Plain("block")
<1>2. /\ k \in 1..Len(program.segments) /\ k \in Nat /\ r \in Pieces /\ z \in Pieces
      /\ CutShort(program, k) => pos = Len(file) + 1
      /\ ~CutShort(program, k) => CutAt(file, pos, <<x>> ++ r) \/ CutAt(file, pos, r)
  BY <1>1, HeaderRest
<1>3. r = Marks(k) ++ z /\ x \in Elem /\ file \in Pieces
  BY PlainIs, FileIs
<1>4. pos \in 1..(Len(file) + 1) /\ Len(file) \in Nat
  BY PosIs
<1>5. SearchFits(program, file, pos', check)
  <2>1. CASE CutShort(program, k)
    <3>1. pos' = Len(file) + 1
      BY <1>1, <1>2, <1>4, <2>1
    <3> QED BY <2>1, <3>1 DEF SearchFits
  <2>2. CASE ~CutShort(program, k) /\ CutAt(file, pos, <<x>> ++ r)
    <3>1. CutAt(file, pos + 1, r) /\ pos \in 1..Len(file)
      <4>1. CutAt(file, pos, <<x>> ++ r) /\ r \in Pieces /\ x \in Elem /\ file \in Pieces
        BY <1>2, <1>3, <2>2
      <4> HIDE DEF r, x
      <4> QED BY <4>1, CutOne
    <3>2. pos' = pos + 1
      BY <1>1, <3>1
    <3> QED BY <2>2, <3>1, <3>2 DEF SearchFits, ++
  <2>3. CASE ~CutShort(program, k) /\ CutAt(file, pos, r)
    <3>1. pos \in 1..Len(file) /\ file[pos].is = "mark"
      <4>1. CutAt(file, pos, Marks(k) ++ z)
        BY <1>3, <2>3
      <4>2. k # 0
        BY <1>2
      <4> HIDE DEF z, k
      <4> QED BY <1>2, <1>3, <4>1, <4>2, MarkIs
    <3> QED BY <1>1, <1>4, <3>1
  <2> QED BY <1>2, <2>1, <2>2, <2>3
<1>6. /\ IsProgram(program) /\ file = FlattenSeq([i \in DOMAIN program.segments |-> SegmentWritten(program, i)])
      /\ ~warned /\ check \in 0..Len(program.segments) /\ check # 0 /\ todo = <<>> /\ frames = <<>>
      /\ segment = (IF check = 0 THEN 0 ELSE program.segments[check])
      /\ \A i \in 1..(check - 1) : program.segments[i] \notin Ast
  BY <1>1 DEF PositionInv
<1> QED BY <1>1, <1>5, <1>6 DEF PositionInv

LEMMA TrailRead ==
  ASSUME NEW f \in Pieces, NEW q, NEW k \in Nat, NEW r \in Pieces, CutAt(f, q, Trailer(k) ++ r)
  PROVE  /\ q \in 1..Len(f) /\ Len(f) \in Nat /\ f[q].is = "block" /\ f[q + 1].n = k /\ CutAt(f, q + 3, r)
<1> DEFINE b == Plain("block")
           n == Number(k)
           x == <<b>>
           y == <<n>> ++ <<b>>
<1>1. b \in Elem /\ b.is = "block" /\ n \in Elem /\ n.n = k /\ y \in Pieces /\ Trailer(k) = <<b>> ++ y
  BY PlainIs, NumberIs, TrailerIs
<1>2. x \in Pieces
  BY <1>1, OneIs
<1>3. y = <<n>> ++ x
  OBVIOUS
<1> HIDE DEF b, n, x, y
<1>4. CutAt(f, q, (<<b>> ++ y) ++ r)
  BY <1>1
<1>5. Len(f) \in Nat /\ q \in 1..Len(f) /\ f[q] = b /\ CutAt(f, q + 1, y ++ r)
  BY <1>1, <1>4, CutOneSplit
<1> DEFINE e == q + 1
<1>6. CutAt(f, e, (<<n>> ++ x) ++ r)
  BY <1>3, <1>5
<1> HIDE DEF e
<1>7. f[e] = n /\ CutAt(f, e + 1, x ++ r)
  BY <1>1, <1>2, <1>6, CutOneSplit
<1> DEFINE d == e + 1
<1>8. CutAt(f, d, <<b>> ++ r)
  BY <1>7 DEF x
<1> HIDE DEF d
<1>9. CutAt(f, d + 1, r)
  BY <1>1, <1>8, CutOne
<1>10. d + 1 = q + 3 /\ e = q + 1
  BY <1>5 DEF d, e
<1> QED BY <1>1, <1>5, <1>7, <1>9, <1>10

LEMMA SkipFits ==
  ASSUME PositionInv, SkipSegment
  PROVE  PositionInv' /\ frames = <<>> /\ todo = <<>>
<1>1. /\ phase = "search" /\ pos <= Len(file) /\ file[pos].is \in {"mark", "start"}
      /\ warned' = (warned \/ file[MarksEnd + 1].n # check)
      /\ pos' = MarksEnd + 3 + (IF segment = 2 THEN 1 ELSE 0)
      /\ todo' = Sections(segment)
      /\ program' = program /\ file' = file /\ phase' = "scan" /\ check' = check
      /\ segment' = segment /\ frames' = frames
  BY DEF SkipSegment, Good, At, given
<1> DEFINE k == check
           t == Trailer(k)
           c == Content(program.contents[k], program.segments[k])
           a == After(program, k)
           z == t ++ (c ++ a)
           r == Marks(k) ++ z
           x == Plain("block")
<1>2. /\ k \in 1..Len(program.segments) /\ k \in Nat /\ r \in Pieces /\ z \in Pieces
      /\ c \in Pieces /\ a \in Pieces /\ c ++ a \in Pieces
      /\ CutShort(program, k) => pos = Len(file) + 1
      /\ ~CutShort(program, k) => CutAt(file, pos, <<x>> ++ r) \/ CutAt(file, pos, r)
      /\ program.segments[k] \in 0..9
  BY <1>1, HeaderRest
<1>3. x \in Elem /\ x.is = "block" /\ file \in Pieces
  BY PlainIs, FileIs
<1>4. pos \in 1..(Len(file) + 1) /\ Len(file) \in Nat
  BY PosIs
<1>5. /\ IsProgram(program) /\ file = FlattenSeq([i \in DOMAIN program.segments |-> SegmentWritten(program, i)])
      /\ ~warned /\ check \in 0..Len(program.segments) /\ check # 0 /\ todo = <<>> /\ frames = <<>>
      /\ segment = (IF check = 0 THEN 0 ELSE program.segments[check]) /\ segment = program.segments[k]
      /\ \A i \in 1..(check - 1) : program.segments[i] \notin Ast
  BY <1>1 DEF PositionInv
<1>6. ~CutShort(program, k) /\ CutAt(file, pos, r)
  <2>1. ~CutShort(program, k)
    BY <1>1, <1>2, <1>4
  <2>2. ASSUME CutAt(file, pos, <<x>> ++ r) PROVE FALSE
    <3> HIDE DEF r, x
    <3>1. file[pos] = x
      BY <1>2, <1>3, <2>2, CutOne
    <3> QED BY <1>1, <1>3, <3>1
  <2> QED BY <1>2, <2>1, <2>2
<1> DEFINE e == pos + k
<1>7. /\ e \in 1..(Len(file) + 1) /\ CutAt(file, e, z)
      /\ \A j \in pos..(e - 1) : file[j].is = "mark"
  <2>1. CutAt(file, pos, Marks(k) ++ z)
    BY <1>6
  <2>2. k \in Nat /\ z \in Pieces /\ file \in Pieces
    BY <1>2, <1>3
  <2> HIDE DEF z, k
  <2>3. /\ pos + k \in 1..(Len(file) + 1) /\ CutAt(file, pos + k, z)
        /\ \A j \in pos..((pos + k) - 1) : file[j].is = "mark"
    BY <2>1, <2>2, MarkIs
  <2> QED BY <2>3
<1> DEFINE w == c ++ a
<1>8. e \in 1..Len(file) /\ file[e].is = "block" /\ file[e + 1].n = k /\ CutAt(file, e + 3, w)
  <2>1. CutAt(file, e, Trailer(k) ++ w)
    BY <1>7
  <2>2. k \in Nat /\ w \in Pieces /\ file \in Pieces
    BY <1>2, <1>3
  <2> HIDE DEF e, w, k
  <2> QED BY <2>1, <2>2, TrailRead
<1>9. MarksEnd = e
  <2> DEFINE Ends(q) == /\ \A j \in pos..(q - 1) : file[j].is \in {"mark", "start"}
                        /\ q = Len(file) + 1 \/ file[q].is \notin {"mark", "start"}
  <2>1. MarksEnd = CHOOSE q \in pos..(Len(file) + 1) : Ends(q)
    BY DEF MarksEnd
  <2>2. e \in pos..(Len(file) + 1) /\ Ends(e)
    <3>1. e \in pos..(Len(file) + 1)
      BY <1>2, <1>4, <1>7
    <3>2. \A j \in pos..(e - 1) : file[j].is \in {"mark", "start"}
      <4> HIDE DEF e
      <4> QED BY <1>7
    <3>3. file[e].is \notin {"mark", "start"}
      <4> HIDE DEF e
      <4> QED BY <1>8
    <3> QED BY <3>1, <3>2, <3>3
  <2>3. \A q \in pos..(Len(file) + 1) : Ends(q) => q = e
    <3>1. SUFFICES ASSUME NEW q \in pos..(Len(file) + 1), Ends(q) PROVE q = e
      OBVIOUS
    <3>2. ~(q < e)
      <4>1. SUFFICES ASSUME q < e PROVE FALSE
        OBVIOUS
      <4>2. q \in pos..(e - 1) /\ q # Len(file) + 1
        BY <1>2, <1>4, <1>7, <4>1
      <4>3. file[q].is = "mark"
        BY <1>7, <4>2
      <4> QED BY <3>1, <4>2, <4>3
    <3>3. ~(e < q)
      <4>1. SUFFICES ASSUME e < q PROVE FALSE
        OBVIOUS
      <4>2. e \in pos..(q - 1)
        BY <1>2, <1>4, <2>2, <4>1
      <4> QED BY <1>8, <3>1, <4>2
    <3> QED BY <1>4, <1>8, <3>1, <3>2, <3>3
  <2> HIDE DEF Ends, e
  <2> QED BY <2>1, <2>2, <2>3
<1> HIDE DEF e
<1>10. ~warned'
  BY <1>1, <1>5, <1>8, <1>9
<1>11. pos' = e + 3 + (IF segment = 2 THEN 1 ELSE 0)
  BY <1>1, <1>9
<1>12. segment \in 0..9 /\ e \in Nat
  BY <1>2, <1>5, <1>8
<1> DEFINE d == e + 3
<1>13. d \in Nat /\ CutAt(file, d, w)
  BY <1>8, <1>12
<1>14. CASE segment = 2
  <2>1. pos' = d + 1
    BY <1>11, <1>12, <1>14
  <2>2. c = <<x>>
    BY <1>5, <1>14, BlockOne DEF Content
  <2>3. CutAt(file, d, <<x>> ++ a)
    BY <1>13, <2>2
  <2> HIDE DEF d, x, a
  <2>4. CutAt(file, d + 1, a)
    BY <1>2, <1>3, <2>3, CutOne
  <2>5. ScanFits(program, file, pos', check)
    BY <2>1, <2>4 DEF ScanFits, a
  <2>6. Sections(segment) = <<>> /\ segment \notin Ast
    BY <1>12, <1>14, SectionsType DEF Ast
  <2> QED BY <1>1, <1>5, <1>10, <2>5, <2>6 DEF PositionInv
<1>15. CASE segment = 0
  <2>1. pos' = d
    BY <1>11, <1>12, <1>15
  <2>2. c = <<Plain("junk")>>
    BY <1>5, <1>15 DEF Content
  <2>3. ScanFits(program, file, pos', check)
    BY <1>13, <2>1, <2>2 DEF ScanFits, ++
  <2>4. Sections(segment) = <<>> /\ segment \notin Ast
    BY <1>12, <1>15, SectionsType DEF Ast
  <2> QED BY <1>1, <1>5, <1>10, <2>3, <2>4 DEF PositionInv
<1>16. CASE segment \notin {0, 2}
  <2>1. pos' = d
    BY <1>11, <1>12, <1>16
  <2>2. c = PartsWritten(Now, Sections(segment))
    BY <1>5, <1>12, <1>16, ContentIs DEF Now
  <2>3. Sections(segment) \in Seq(PartNames) /\ Sections(segment) # <<>>
    <3>1. /\ Sections(segment) \in Seq(PartNames)
          /\ segment = 1 => Sections(segment) = <<"info">>
          /\ segment = 3 => Sections(segment) = CodeSections
          /\ segment = 4 => Sections(segment) = <<"windows", "constants">>
          /\ segment \in 5..9 => Sections(segment) = <<"ast">>
      BY <1>12, SectionsType
    <3>2. <<"info">> # <<>> /\ CodeSections # <<>> /\ <<"windows", "constants">> # <<>> /\ <<"ast">> # <<>>
      BY DEF CodeSections
    <3>3. segment \in {1, 3, 4} \cup 5..9
      BY <1>12, <1>16
    <3> QED BY <3>1, <3>2, <3>3
  <2>4. Sections(segment) \in TailsOf(Sections(segment))
    BY <2>3, TailsIs
  <2>5. StackRest(Now, <<>>) = <<>> /\ FramesFit(Now, pos', <<>>, Sections(segment)[1])
    BY DEF StackRest, FramesFit
  <2>6. CutAt(file, pos', <<>> ++ (PartsWritten(Now, Sections(segment)) ++ a))
    <3>1. CutAt(file, pos', c ++ a) /\ c ++ a \in Pieces
      BY <1>2, <1>13, <2>1
    <3>2. <<>> ++ (c ++ a) = c ++ a
      <4> DEFINE v == c ++ a
      <4>1. v \in Pieces
        BY <3>1
      <4> HIDE DEF v
      <4>2. <<>> ++ v = v
        BY <4>1, ConcatEmpty
      <4> QED BY <4>2 DEF v
    <3>3. CutAt(file, pos', <<>> ++ (c ++ a))
      BY <3>1, <3>2
    <3> HIDE DEF c, a
    <3> QED BY <2>2, <3>3
  <2>7. ReadFits(program, file, pos', check, Sections(segment), <<>>)
    BY <1>5, <1>6, <2>4, <2>5, <2>6 DEF ReadFits, ++, Now
  <2> QED BY <1>1, <1>5, <1>10, <2>3, <2>7 DEF PositionInv
<1>17. PositionInv'
  BY <1>14, <1>15, <1>16
<1> QED BY <1>5, <1>17

(* What has been loaded stays loaded.                                      *)
LEMMA EmptySet == \A s : s \notin ToSet(<<>>)
BY DEF ToSet

LEMMA HeadSet ==
  ASSUME NEW E, NEW q \in Seq(E), q # <<>>
  PROVE  q[1] \in ToSet(q) /\ ToSet(Tail(q)) \subseteq ToSet(q) /\ ToSet(q) \subseteq ToSet(Tail(q)) \cup {q[1]}
<1>1. /\ Len(q) \in Nat \ {0} /\ DOMAIN q = 1..Len(q) /\ DOMAIN Tail(q) = 1..(Len(q) - 1)
      /\ \A j \in 1..(Len(q) - 1) : Tail(q)[j] = q[j + 1]
  OBVIOUS
<1>2. 1 \in DOMAIN q
  BY <1>1
<1>3. ASSUME NEW j \in DOMAIN Tail(q) PROVE Tail(q)[j] \in ToSet(q)
  <2>1. j + 1 \in DOMAIN q /\ Tail(q)[j] = q[j + 1]
    BY <1>1
  <2> QED BY <2>1 DEF ToSet
<1>4. ASSUME NEW j \in DOMAIN q PROVE q[j] \in ToSet(Tail(q)) \cup {q[1]}
  <2>1. CASE j = 1
    BY <2>1
  <2>2. CASE j # 1
    <3>1. j - 1 \in DOMAIN Tail(q) /\ j - 1 \in 1..(Len(q) - 1) /\ (j - 1) + 1 = j
      BY <1>1, <2>2
    <3>2. Tail(q)[j - 1] = q[j]
      BY <1>1, <3>1
    <3> DEFINE i == j - 1
               t == Tail(q)
    <3>3. i \in DOMAIN t /\ t[i] = q[j]
      BY <3>1, <3>2
    <3> HIDE DEF i, t
    <3>4. q[j] \in {t[m] : m \in DOMAIN t}
      BY <3>3
    <3> QED BY <3>4 DEF ToSet, t
  <2> QED BY <2>1, <2>2
<1> QED BY <1>2, <1>3, <1>4 DEF ToSet

LEMMA LoadedIs ==
  ASSUME LoadedInv
  PROVE  /\ FramesLoaded(Now, elems, todo, frames) /\ SectionsLoaded(elems, todo)
         /\ SegmentsLoaded(program, elems, todo, check, phase # "search")
         /\ AstLoaded(phase, segment, elems)
BY DEF LoadedInv

LEMMA LoadedNext ==
  ASSUME program' = program, FramesLoaded(program.contents[check'], elems', todo', frames'),
         SectionsLoaded(elems', todo'), SegmentsLoaded(program, elems', todo', check', phase' # "search"),
         AstLoaded(phase', segment', elems')
  PROVE  LoadedInv'
BY DEF LoadedInv, Now

LEMMA NoFrames ==
  ASSUME NEW p, NEW es, NEW td
  PROVE  FramesLoaded(p, es, td, <<>>)
<1>1. Len(<<>>) = 0
  OBVIOUS
<1> QED BY <1>1 DEF FramesLoaded

(* The scanner moves on.                                                   *)
LEMMA ScanLoads ==
  ASSUME LoadedInv, todo = <<>>, frames' = <<>>, program' = program, elems' = elems,
         SegmentsLoaded(program, elems, todo', check', phase' # "search"),
         phase' = "done" => segment' \notin Ast
  PROVE  LoadedInv'
<1>1. FramesLoaded(program.contents[check'], elems', todo', frames')
  BY NoFrames
<1>2. SectionsLoaded(elems', todo')
  BY LoadedIs, EmptySet DEF SectionsLoaded
<1>3. AstLoaded(phase', segment', elems')
  BY DEF AstLoaded
<1> QED BY <1>1, <1>2, <1>3, LoadedNext

(* What was read into other sections.                                      *)
LEMMA LoadedKept ==
  ASSUME NEW p, NEW es, NEW es2, NEW t, NEW s, s # t, Others(es, es2, t), Loaded(p, es, s)
  PROVE  Loaded(p, es2, s)
<1>1. ASSUME NEW vec, vec[1] = s, Has(p, es, vec) PROVE Has(p, es2, vec)
  <2>1. vec \in DOMAIN es
    BY <1>1 DEF Has
  <2>2. Keeps(es, es2, vec)
    BY <1>1, <2>1 DEF Others
  <2> QED BY <1>1, <2>2, HasKept
<1>2. Section(s)[1] = s /\ \A i, list : <<s, i, list>>[1] = s
  BY SectionIs
<1>3. Has(p, es2, Section(s))
  <2>1. Has(p, es, Section(s))
    BY DEF Loaded
  <2> HIDE DEF Section
  <2> QED BY <1>1, <1>2, <2>1
<1>4. ASSUME s \in Kinds, NEW i \in 1..Len(p[s]), NEW list \in ListsOf(s) PROVE Has(p, es2, <<s, i, list>>)
  <2> DEFINE v == <<s, i, list>>
  <2>1. Has(p, es, v) /\ v[1] = s
    BY <1>2, <1>4 DEF Loaded
  <2> HIDE DEF v
  <2>2. Has(p, es2, v)
    BY <1>1, <2>1
  <2> QED BY <2>2 DEF v
<1> QED BY <1>3, <1>4 DEF Loaded

LEMMA SectionKept ==
  ASSUME NEW es, NEW es2, NEW t, NEW s, s # t, Others(es, es2, t), Section(s) \in DOMAIN es2,
         \A i \in 1..Len(es[Section(s)].items), list \in ListsOf(s) : <<s, i, list>> \in DOMAIN es
  PROVE  \A i \in 1..Len(es2[Section(s)].items), list \in ListsOf(s) : <<s, i, list>> \in DOMAIN es2
<1>1. Section(s)[1] = s /\ \A i, list : <<s, i, list>>[1] = s
  BY SectionIs
<1>2. Section(s) \in DOMAIN es /\ Keeps(es, es2, Section(s))
  <2> HIDE DEF Section
  <2> QED BY <1>1 DEF Others
<1>3. Len(es2[Section(s)].items) = Len(es[Section(s)].items)
  BY <1>2 DEF Keeps
<1>4. ASSUME NEW i \in 1..Len(es[Section(s)].items), NEW list \in ListsOf(s) PROVE <<s, i, list>> \in DOMAIN es2
  <2> DEFINE v == <<s, i, list>>
  <2>1. v \in DOMAIN es /\ v[1] = s
    BY <1>1
  <2> HIDE DEF v
  <2>2. v \in DOMAIN es2
    BY <2>1 DEF Others, Keeps
  <2> QED BY <2>2 DEF v
<1> QED BY <1>3, <1>4

(* The section in progress is one of the segment.                          *)
LEMMA TodoIn ==
  ASSUME PositionInv, todo # <<>>
  PROVE  /\ check \in 1..check /\ phase = "scan" /\ todo[1] \in ToSet(Sections(program.segments[check]))
         /\ todo[1] \in ToSet(todo) /\ ToSet(Tail(todo)) \subseteq ToSet(todo)
         /\ ToSet(todo) \subseteq ToSet(Tail(todo)) \cup {todo[1]}
<1>1. /\ phase = "scan" /\ todo \in Seq(PartNames) /\ check \in 1..Len(program.segments)
      /\ segment = program.segments[check] /\ todo \in TailsOf(Sections(segment))
      /\ segment \in 0..9 /\ check \in Nat
  BY ReadingIs, FileIs
<1>2. Sections(segment) \in Seq(PartNames)
  BY <1>1, SectionsType
<1>3. /\ Len(todo) \in 0..Len(Sections(segment)) /\ Len(todo) \in Nat \ {0}
      /\ todo[1] = Sections(segment)[(Len(Sections(segment)) - Len(todo)) + 1]
      /\ Len(Sections(segment)) \in Nat
  BY <1>1, <1>2, TailsIs
<1> DEFINE q == Sections(segment)
           j == (Len(q) - Len(todo)) + 1
<1>4. j \in 1..Len(q) /\ todo[1] = q[j]
  BY <1>3
<1> HIDE DEF j, q
<1>5. j \in DOMAIN q
  BY <1>2, <1>4 DEF q
<1>6. todo[1] \in ToSet(q)
  BY <1>4, <1>5 DEF ToSet
<1>7. check \in 1..check
  BY <1>1
<1> QED BY <1>1, <1>6, <1>7, HeadSet DEF q

(* What is said of the segments does not depend on the section in progress.*)
LEMMA SegmentsKept ==
  ASSUME PositionInv, LoadedInv, todo # <<>>, Others(elems, elems', todo[1]), NEW td,
         ToSet(todo) \subseteq ToSet(td) \cup {todo[1]},
         todo[1] \notin ToSet(td) => Loaded(Now, elems', todo[1])
  PROVE  SegmentsLoaded(program, elems', td, check, phase # "search")
<1>1. /\ phase = "scan" /\ check \in 1..check /\ todo[1] \in ToSet(Sections(program.segments[check]))
  BY TodoIn
<1>2. SegmentsLoaded(program, elems, todo, check, phase # "search")
  BY LoadedIs
<1>3. SUFFICES ASSUME NEW k \in 1..check, NEW s \in ToSet(Sections(program.segments[k])) \ {"ast"},
                      k < check \/ s \notin ToSet(td),
                      \A j \in (k + 1)..check : s \notin ToSet(Sections(program.segments[j]))
               PROVE  Loaded(program.contents[k], elems', s)
  BY <1>1 DEF SegmentsLoaded
<1>4. CASE s = todo[1]
  <2>1. k = check
    <3>1. SUFFICES ASSUME k # check PROVE FALSE
      OBVIOUS
    <3>2. check \in (k + 1)..check
      BY <1>1, <3>1
    <3> QED BY <1>1, <1>3, <1>4, <3>2
  <2> QED BY <1>3, <1>4, <2>1 DEF Now
<1>5. CASE s # todo[1]
  <2>1. k < check \/ s \notin ToSet(todo)
    BY <1>3, <1>5
  <2>2. Loaded(program.contents[k], elems, s)
    BY <1>1, <1>2, <1>3, <2>1 DEF SegmentsLoaded
  <2> QED BY <1>5, <2>2, LoadedKept
<1> QED BY <1>4, <1>5

(* A section is read to its end.                                           *)
LEMMA PartLoads ==
  ASSUME PositionInv, LoadedInv, todo # <<>>, UNCHANGED <<given, scanner>>, todo' = Tail(todo), frames' = <<>>,
         Others(elems, elems', todo[1]), Loaded(Now, elems', todo[1])
  PROVE  LoadedInv'
<1>1. program' = program /\ check' = check /\ phase' = phase /\ segment' = segment
  BY DEF given, scanner
<1>2. phase = "scan" /\ IsContents(Now) /\ ToSet(todo) \subseteq ToSet(Tail(todo)) \cup {todo[1]}
  BY ReadingIs, TodoIn
<1>3. FramesLoaded(program.contents[check'], elems', todo', frames')
  BY NoFrames
<1>4. SectionsLoaded(elems', todo')
  <2>1. SUFFICES ASSUME NEW s \in Kinds, Section(s) \in DOMAIN elems', s \notin ToSet(todo')
                 PROVE  \A i \in 1..Len(elems'[Section(s)].items), list \in ListsOf(s) : <<s, i, list>> \in DOMAIN elems'
    BY DEF SectionsLoaded
  <2>2. CASE s = todo[1]
    <3>1. Len(elems'[Section(s)].items) = Len(Now[s])
      BY <1>2, <2>2, SizeIs DEF Loaded, Has
    <3>2. \A i \in 1..Len(Now[s]), list \in ListsOf(s) : <<s, i, list>> \in DOMAIN elems'
      BY <2>2 DEF Loaded, Has
    <3> QED BY <3>1, <3>2
  <2>3. CASE s # todo[1]
    <3>1. s \notin ToSet(todo)
      BY <1>2, <2>1, <2>3
    <3>2. Section(s) \in DOMAIN elems
      <4>1. Section(s)[1] = s
        BY SectionIs
      <4> HIDE DEF Section
      <4> QED BY <2>1, <2>3, <4>1 DEF Others
    <3>3. \A i \in 1..Len(elems[Section(s)].items), list \in ListsOf(s) : <<s, i, list>> \in DOMAIN elems
      BY <3>1, <3>2, LoadedIs DEF SectionsLoaded
    <3> QED BY <2>1, <2>3, <3>3, SectionKept
  <2> QED BY <2>2, <2>3
<1>5. SegmentsLoaded(program, elems', todo', check', phase' # "search")
  <2>1. SegmentsLoaded(program, elems', Tail(todo), check, phase # "search")
    BY <1>2, SegmentsKept
  <2> QED BY <1>1, <2>1
<1>6. AstLoaded(phase', segment', elems')
  BY <1>1, <1>2 DEF AstLoaded
<1> QED BY <1>1, <1>3, <1>4, <1>5, <1>6, LoadedNext

(* A loop over the elements of a section goes on.                          *)
LEMMA LoopLoads ==
  ASSUME PositionInv, LoadedInv, todo # <<>>, UNCHANGED <<given, scanner, todo>>,
         Others(elems, elems', todo[1]), FramesLoaded(Now, elems', todo, frames')
  PROVE  LoadedInv'
<1>1. program' = program /\ check' = check /\ phase' = phase /\ segment' = segment /\ todo' = todo
  BY DEF given, scanner
<1>2. phase = "scan" /\ todo[1] \in ToSet(todo)
  BY TodoIn
<1>3. FramesLoaded(program.contents[check'], elems', todo', frames')
  BY <1>1 DEF Now
<1>4. SectionsLoaded(elems', todo')
  <2>1. SUFFICES ASSUME NEW s \in Kinds, Section(s) \in DOMAIN elems', s \notin ToSet(todo)
                 PROVE  \A i \in 1..Len(elems'[Section(s)].items), list \in ListsOf(s) : <<s, i, list>> \in DOMAIN elems'
    BY <1>1 DEF SectionsLoaded
  <2>2. s # todo[1]
    BY <1>2, <2>1
  <2>3. Section(s) \in DOMAIN elems
    <3>1. Section(s)[1] = s
      BY SectionIs
    <3> HIDE DEF Section
    <3> QED BY <2>1, <2>2, <3>1 DEF Others
  <2>4. \A i \in 1..Len(elems[Section(s)].items), list \in ListsOf(s) : <<s, i, list>> \in DOMAIN elems
    BY <2>1, <2>3, LoadedIs DEF SectionsLoaded
  <2> QED BY <2>1, <2>2, <2>4, SectionKept
<1>5. SegmentsLoaded(program, elems', todo', check', phase' # "search")
  <2>1. SegmentsLoaded(program, elems', todo, check, phase # "search")
    BY <1>2, SegmentsKept
  <2> QED BY <1>1, <2>1
<1>6. AstLoaded(phase', segment', elems')
  BY <1>1, <1>2 DEF AstLoaded
<1> QED BY <1>1, <1>3, <1>4, <1>5, <1>6, LoadedNext

-----------------------------------------------------------------------------
(* The invariant, and the steps that read no section.                      *)
ReaderInv == PositionInv /\ DataInv

LEMMA ReaderIs ==
  ASSUME ReaderInv
  PROVE  PositionInv /\ LoadedInv /\ DataFit(elems, maps) /\ IsProgram(program) /\ file \in Pieces
BY FileIs DEF ReaderInv, DataInv, DataFit

LEMMA ReaderNext ==
  ASSUME PositionInv', LoadedInv', DataFit(elems', maps')
  PROVE  ReaderInv'
BY DEF ReaderInv, DataInv, DataFit

LEMMA ScannerKeeps ==
  ASSUME ReaderInv, Step \/ StartSegment \/ Search \/ SkipSegment \/ Finish
  PROVE  ReaderInv'
<1>1. PositionInv /\ LoadedInv /\ DataFit(elems, maps) /\ check \in Nat
  BY ReaderIs, FileIs
<1>2. program' = program /\ elems' = elems /\ maps' = maps /\ frames' = frames
  BY DEF Step, StartSegment, Search, SkipSegment, Finish, given
<1>3. SegmentsLoaded(program, elems, todo, check, phase # "search")
  BY <1>1, LoadedIs
<1>4. CASE Step
  <2>1. PositionInv'
    BY <1>1, <1>4, StepFits
  <2>2. phase = "scan" /\ todo = <<>> /\ phase' = phase /\ check' = check /\ todo' = todo
    BY <1>4 DEF Step, Scanning, scanner
  <2>3. frames = <<>> /\ phase' # "done"
    BY <1>1, <2>2, ScanIs
  <2>4. SegmentsLoaded(program, elems, todo', check', phase' # "search")
    BY <1>3, <2>2
  <2>5. LoadedInv'
    BY <1>1, <1>2, <2>2, <2>3, <2>4, ScanLoads
  <2> QED BY <1>1, <1>2, <2>1, <2>5, ReaderNext
<1>5. CASE Finish
  <2>1. PositionInv'
    BY <1>1, <1>5, FinishFits
  <2>2. phase = "scan" /\ todo = <<>> /\ phase' = "done" /\ check' = check /\ todo' = todo /\ segment' = segment
    BY <1>5 DEF Finish, Scanning
  <2>3. frames = <<>> /\ segment \notin Ast
    BY <1>1, <2>2, ScanIs
  <2>4. SegmentsLoaded(program, elems, todo', check', phase' # "search")
    BY <1>3, <2>2
  <2>5. LoadedInv'
    BY <1>1, <1>2, <2>2, <2>3, <2>4, ScanLoads
  <2> QED BY <1>1, <1>2, <2>1, <2>5, ReaderNext
<1>6. CASE StartSegment
  <2>1. PositionInv' /\ check' = check + 1
    BY <1>1, <1>6, StartFits
  <2>2. phase = "scan" /\ todo = <<>> /\ phase' = "search" /\ todo' = todo
    BY <1>6 DEF StartSegment, Scanning
  <2>3. frames = <<>>
    BY <1>1, <2>2, ScanIs
  <2>4. SegmentsLoaded(program, elems, todo', check', phase' # "search")
    <3>1. SUFFICES ASSUME NEW k \in 1..(check + 1), k < check + 1,
                          NEW s \in ToSet(Sections(program.segments[k])) \ {"ast"},
                          \A j \in (k + 1)..(check + 1) : j < check + 1 =>
                            s \notin ToSet(Sections(program.segments[j]))
                   PROVE  Loaded(program.contents[k], elems, s)
      BY <2>1, <2>2 DEF SegmentsLoaded
    <3>2. k \in 1..check /\ \A j \in (k + 1)..check : j \in (k + 1)..(check + 1) /\ j < check + 1
      BY <1>1, <3>1
    <3> QED BY <1>3, <2>2, <3>1, <3>2, EmptySet DEF SegmentsLoaded
  <2>5. LoadedInv'
    BY <1>1, <1>2, <2>2, <2>3, <2>4, ScanLoads
  <2> QED BY <1>1, <1>2, <2>1, <2>5, ReaderNext
<1>7. CASE Search
  <2>1. PositionInv'
    BY <1>1, <1>7, SearchKeeps
  <2>2. phase = "search" /\ phase' = phase /\ check' = check /\ todo' = todo
    BY <1>7 DEF Search, scanner
  <2>3. frames = <<>> /\ todo = <<>>
    BY <1>1, <2>2 DEF PositionInv
  <2>4. SegmentsLoaded(program, elems, todo', check', phase' # "search")
    BY <1>3, <2>2
  <2>5. LoadedInv'
    BY <1>1, <1>2, <2>2, <2>3, <2>4, ScanLoads
  <2> QED BY <1>1, <1>2, <2>1, <2>5, ReaderNext
<1>8. CASE SkipSegment
  <2>1. PositionInv' /\ frames = <<>> /\ todo = <<>>
    BY <1>1, <1>8, SkipFits
  <2>2. phase = "search" /\ phase' = "scan" /\ check' = check /\ todo' = Sections(segment)
    BY <1>8 DEF SkipSegment
  <2>3. check # 0 => segment = program.segments[check]
    BY <1>1, FileIs
  <2>4. SegmentsLoaded(program, elems, todo', check', phase' # "search")
    <3>1. SUFFICES ASSUME NEW k \in 1..check, NEW s \in ToSet(Sections(program.segments[k])) \ {"ast"},
                          k < check \/ s \notin ToSet(todo'),
                          \A j \in (k + 1)..check : s \notin ToSet(Sections(program.segments[j]))
                   PROVE  Loaded(program.contents[k], elems, s)
      BY <2>2 DEF SegmentsLoaded
    <3>2. k < check
      <4>1. SUFFICES ASSUME ~(k < check) PROVE FALSE
        OBVIOUS
      <4>2. k = check /\ check # 0
        BY <1>1, <4>1
      <4> QED BY <2>2, <2>3, <3>1, <4>2
    <3> QED BY <1>3, <2>1, <3>1, <3>2, EmptySet DEF SegmentsLoaded
  <2>5. LoadedInv'
    BY <1>1, <1>2, <2>1, <2>2, <2>4, ScanLoads
  <2> QED BY <1>1, <1>2, <2>1, <2>5, ReaderNext
<1> QED BY <1>4, <1>5, <1>6, <1>7, <1>8

(* The sections without records.                                           *)
LEMMA NoKeys ==
  /\ ~Keyed(Section("info")) /\ Section("info")[3] # "code"
  /\ ~Keyed(Section("libraries")) /\ Section("libraries")[3] # "code"
  /\ "info" \notin Kinds /\ "libraries" \notin Kinds /\ "globals" \notin Kinds
<1>1. "info" \notin Kinds \cup {"globals"} /\ "libraries" \notin Kinds \cup {"globals"} /\ "globals" \notin Kinds
  BY DEF Kinds
<1>2. "" \notin VarLists
  BY DEF VarLists
<1>3. \A s : Section(s)[1] = s /\ Section(s)[3] = ""
  BY SectionIs
<1> HIDE DEF Section
<1> QED BY <1>1, <1>2, <1>3 DEF Keyed

LEMMA ReadingAt ==
  ASSUME ReaderInv, NEW s, Reading(s)
  PROVE  /\ todo # <<>> /\ frames = <<>> /\ todo[1] = s /\ Behind(program, todo, check) \in Pieces
         /\ PartWritten(Now, s) \in Pieces
         /\ CutAt(file, pos, PartWritten(Now, s) ++ Behind(program, todo, check))
         /\ PositionInv /\ IsContents(Now) /\ check \in Nat /\ file \in Pieces
         /\ DataFit(elems, maps) /\ LoadedInv
<1>1. todo # <<>> /\ frames = <<>> /\ todo[1] = s
  BY DEF Reading
<1>2. PositionInv /\ check \in Nat /\ file \in Pieces /\ DataFit(elems, maps) /\ LoadedInv
  BY ReaderIs, FileIs
<1> QED BY <1>1, <1>2, ReadingIs

LEMMA ElemsFun ==
  ASSUME NEW es, NEW es2
  PROVE  Over(es2, es) = Over(es2, [x \in DOMAIN es |-> es[x]])
BY DEF Over

LEMMA InfoKeeps ==
  ASSUME ReaderInv, ParseInfoSegment
  PROVE  ReaderInv'
<1> DEFINE vec == Section("info")
           v == Resized(vec, 1)
           es == Over(Only(vec, v), elems)
           es2 == Assign(es, vec, 1, InfoNames, pos)
           r == Behind(program, todo, check)
           x == Fields(vec, 1, InfoNames)
<1>1. /\ Reading("info") /\ elems' = es2 /\ pos' = pos + Len(InfoNames) /\ todo' = Tail(todo)
      /\ UNCHANGED <<given, scanner>> /\ frames' = frames /\ maps' = maps
  BY DEF ParseInfoSegment
<1>2. /\ todo # <<>> /\ frames = <<>> /\ todo[1] = "info" /\ r \in Pieces
      /\ CutAt(file, pos, PartWritten(Now, "info") ++ r)
      /\ PositionInv /\ IsContents(Now) /\ check \in Nat /\ file \in Pieces /\ DataFit(elems, maps) /\ LoadedInv
  BY <1>1, ReadingAt
<1>3. PartWritten(Now, "info") = x
  BY DEF PartWritten
<1>4. x \in Pieces /\ Len(x) = 12 /\ Len(InfoNames) = 12 /\ InfoNames \in Seq(PlainNames)
  BY InfoIs, InfoType
<1>5. IsVec(Now, vec) /\ Size(Now, vec) = 1 /\ IsName(vec) /\ ElemsFit(elems)
  BY <1>2, GlobalVec, SizeIs, VecName DEF DataFit
<1>6. VectorFits(vec, v) /\ Len(v.items) = 1
  <2>1. Content0(vec, v, 1)
    <3>1. \A n \in Nat : Content0(vec, Resized(vec, n), n)
      BY <1>2, <1>5, ResizedFits
    <3> QED BY <3>1
  <2>2. ~Keyed(vec) /\ vec[3] # "code"
    BY NoKeys
  <2> HIDE DEF v, vec
  <2> QED BY <2>1, <2>2 DEF VectorFits, Content0
<1>7. /\ ElemsFit(es) /\ DOMAIN es = DOMAIN elems \cup {vec} /\ es[vec] = v
      /\ \A y \in DOMAIN elems : y # vec => es[y] = elems[y]
  <2>1. es = Over(Only(vec, v), [other \in DOMAIN elems |-> elems[other]])
    BY ElemsFun
  <2> HIDE DEF vec, v
  <2>2. LET e == Over(Only(vec, v), [other \in DOMAIN elems |-> elems[other]]) IN
        /\ ElemsFit(e) /\ DOMAIN e = DOMAIN elems \cup {vec} /\ e[vec] = v
        /\ \A y \in DOMAIN elems : y # vec => e[y] = elems[y]
    BY <1>5, <1>6, AddFits
  <2> QED BY <2>1, <2>2
<1>8. CutAt(file, pos, x ++ r)
  BY <1>2, <1>3
<1>9. CutAt(file, pos + Len(x), r)
  <2> HIDE DEF x, r
  <2> QED BY <1>2, <1>4, <1>8, CutStep
<1>10. Stands(pos, x)
  BY <1>2, <1>8 DEF Stands
<1>11. Renewed(es, es2)
  <2>1. vec \in DOMAIN es /\ 1 \in 1..Len(es[vec].items)
    BY <1>6, <1>7
  <2> HIDE DEF es, vec
  <2> QED BY <1>2, <1>4, <1>7, <1>10, <2>1, AssignFits DEF x
<1>12. PositionInv'
  <2>1. CutAt(file, pos', r)
    BY <1>1, <1>4, <1>9
  <2> QED BY <1>1, <1>2, <2>1, PartRead
<1>13. DataFit(elems', maps')
  BY <1>1, <1>2, <1>11 DEF DataFit, Renewed
<1>14. Others(elems, elems', "info") /\ Has(Now, elems', vec)
  <2>1. vec[1] = "info" /\ ~Keyed(vec)
    BY SectionIs, NoKeys
  <2> HIDE DEF vec, es, es2, v
  <2>2. Has(Now, es, vec)
    BY <1>5, <1>6, <1>7, <2>1 DEF Has
  <2>3. Has(Now, es2, vec)
    BY <1>7, <1>11, <2>2, HasKept DEF Renewed
  <2>4. ASSUME NEW y \in DOMAIN elems, y[1] # "info" PROVE Keeps(elems, es2, y)
    <3>1. y \in DOMAIN es /\ es[y] = elems[y]
      BY <1>7, <2>1, <2>4
    <3>2. Keeps(es, es2, y)
      BY <1>11, <3>1 DEF Renewed
    <3> QED BY <3>1, <3>2 DEF Keeps
  <2>5. ASSUME NEW y \in DOMAIN es2, y[1] # "info" PROVE y \in DOMAIN elems
    BY <1>7, <1>11, <2>1, <2>5 DEF Renewed
  <2> QED BY <1>1, <2>3, <2>4, <2>5 DEF Others
<1>15. LoadedInv'
  <2>1. Loaded(Now, elems', "info")
    BY <1>14, NoKeys DEF Loaded
  <2> QED BY <1>1, <1>2, <1>14, <2>1, PartLoads
<1> QED BY <1>12, <1>13, <1>15, ReaderNext

LEMMA LibrariesKeep ==
  ASSUME ReaderInv, ParseLibrary
  PROVE  ReaderInv'
<1> DEFINE vec == Section("libraries")
           n == file[pos + 2].n \div 4
           q == pos + 4 + 2 * n
           es == AssignEach(vec, "path", n, q)
           r == Behind(program, todo, check)
<1>1. /\ Reading("libraries") /\ elems' = es /\ pos' = pos + 4 + 3 * n /\ todo' = Tail(todo)
      /\ UNCHANGED <<given, scanner>> /\ frames' = frames /\ maps' = maps
  BY DEF ParseLibrary
<1>2. /\ todo # <<>> /\ frames = <<>> /\ todo[1] = "libraries" /\ r \in Pieces
      /\ CutAt(file, pos, PartWritten(Now, "libraries") ++ r)
      /\ PositionInv /\ IsContents(Now) /\ check \in Nat /\ file \in Pieces /\ DataFit(elems, maps) /\ LoadedInv
  BY <1>1, ReadingAt
<1>3. PartWritten(Now, "libraries") = LibrariesWritten(Now)
  BY DEF PartWritten
<1>4. /\ n = Now.libraries
      /\ \A i \in 1..n : file[q + i - 1] = Field("path", Section("libraries"), i, 0)
      /\ CutAt(file, pos + 4 + 3 * n, r)
  <2>1. CutAt(file, pos, LibrariesWritten(Now) ++ r) /\ r \in Pieces
    BY <1>2, <1>3
  <2>2. IsContents(Now) /\ file \in Pieces
    BY <1>2
  <2> HIDE DEF r, n, q
  <2>3. LibrariesAt(Now, file, pos, file[pos + 2].n \div 4, r)
    BY <2>1, <2>2, LibrariesRead
  <2>4. LibrariesAt(Now, file, pos, n, r)
    BY <2>3 DEF n
  <2> QED BY <2>4 DEF LibrariesAt, q
<1>5. IsVec(Now, vec) /\ Size(Now, vec) = n
  BY <1>2, <1>4, GlobalVec, SizeIs
<1>6. EachAt(vec, n, "path", q)
  <2>1. ASSUME NEW i \in 1..n PROVE FieldFits(vec, i, "path", file[q + i - 1])
    <3>1. file[q + i - 1] = Field("path", vec, i, 0)
      BY <1>4
    <3> QED BY <3>1, FieldIs DEF FieldFits
  <2> QED BY <2>1 DEF EachAt
<1>7. DataFit(es, maps) /\ Entered(Now, es, vec)
  <2>1. ~Keyed(vec) /\ vec[3] # "code"
    BY NoKeys
  <2>2. EachAt(vec, Size(Now, vec), "path", q)
    BY <1>5, <1>6
  <2> HIDE DEF vec, n, q
  <2>3. LET e == AssignEach(vec, "path", Size(Now, vec), q) IN DataFit(e, maps) /\ Entered(Now, e, vec)
    BY <1>2, <1>5, <2>1, <2>2, EachFits
  <2> QED BY <1>5, <2>3
<1>8. PositionInv'
  BY <1>1, <1>2, <1>4, PartRead
<1>9. LoadedInv'
  <2>1. Others(elems, elems', "libraries")
    <3>1. vec[1] = "libraries"
      BY SectionIs
    <3> HIDE DEF vec, es
    <3> QED BY <1>1, <1>7, <3>1, EnteredOthers
  <2>2. Loaded(Now, elems', "libraries")
    BY <1>1, <1>7, NoKeys DEF Loaded, Entered
  <2> QED BY <1>1, <1>2, <2>1, <2>2, PartLoads
<1> QED BY <1>1, <1>7, <1>8, <1>9, ReaderNext

(* The loops over the elements of a section are opened.                    *)
LEMMA FrameIs ==
  ASSUME NEW vec, NEW past
  PROVE  /\ Frame(vec, past).vec = vec /\ Frame(vec, past).at = 0 /\ Frame(vec, past).lists = <<>>
         /\ Frame(vec, past).past = past /\ IsFrame(Frame(vec, past))
BY DEF Frame, IsFrame

LEMMA OneFrame == \A x : <<x>> # <<>> /\ Len(<<x>>) = 1 /\ <<x>>[1] = x /\ <<x>> = <<<<x>>[1]>>
OBVIOUS

LEMMA KindOpened ==
  ASSUME NEW p, IsContents(p), NEW s \in Kinds, NEW q, NEW es, Has(p, es, Section(s)), NEW td, td[1] = s
  PROVE  LET fr == <<Frame(Section(s), 0)>> IN
         /\ fr # <<>> /\ FramesFit(p, q, fr, s) /\ StackRest(p, fr) = RecordsWritten(p, s)
         /\ FramesLoaded(p, es, td, fr)
<1> DEFINE F == Frame(Section(s), 0)
           fr == <<F>>
<1>1. F.vec = Section(s) /\ F.at = 0 /\ F.lists = <<>> /\ IsFrame(F)
  BY FrameIs
<1>2. fr # <<>> /\ Len(fr) = 1 /\ fr[1] = F /\ fr = <<fr[1]>>
  BY OneFrame
<1>3. Len(p[s]) \in Nat /\ <<>> \in TailsOf(ListNames(s))
  BY KindsIs, ListNamesType, TailsIs
<1> HIDE DEF F, fr
<1>4. SectionFrame(p, F, s)
  BY <1>1, <1>3 DEF SectionFrame
<1>5. FramesFit(p, q, fr, s)
  BY <1>2, <1>4 DEF FramesFit
<1>6. StackRest(p, fr) = FrameRest(p, F)
  BY <1>2 DEF StackRest
<1>7. FrameRest(p, F) = RecordsRest(p, s, 0, <<>>)
  BY <1>1, <1>4, SectionFrameIs
<1>8. RecordsRest(p, s, 0, <<>>) = RecordsWritten(p, s)
  <2>1. /\ \A at \in 0..Len(p[s]) : RecordsRest(p, s, at, <<>>) = From(Records(p, s), at + 1)
        /\ From(Records(p, s), 0 + 1) = RecordsWritten(p, s)
    BY RecordsRestIs
  <2>2. 0 \in 0..Len(p[s])
    BY <1>3
  <2> QED BY <2>1, <2>2
<1>9. FramesLoaded(p, es, td, fr)
  <2>1. LoadedTo(p, es, s, F)
    BY <1>1 DEF LoadedTo
  <2> QED BY <1>2, <2>1 DEF FramesLoaded
<1> QED BY <1>2, <1>5, <1>6, <1>7, <1>8, <1>9 DEF F, fr

LEMMA KindOpens ==
  ASSUME ReaderInv, NEW s \in Kinds, Reading(s), UNCHANGED <<given, scanner, todo>>,
         frames' = <<Frame(Section(s), 0)>>, Entered(Now, elems', Section(s)), DataFit(elems', maps'),
         CutAt(file, pos', RecordsWritten(Now, s) ++ Behind(program, todo, check))
  PROVE  ReaderInv'
<1>1. /\ todo # <<>> /\ frames = <<>> /\ todo[1] = s /\ PositionInv /\ LoadedInv /\ IsContents(Now)
  BY ReadingAt
<1>2. Has(Now, elems', Section(s)) /\ Others(elems, elems', s)
  <2>1. Section(s)[1] = s
    BY SectionIs
  <2> HIDE DEF Section
  <2> QED BY <2>1, EnteredOthers DEF Entered
<1>3. /\ frames' # <<>> /\ FramesFit(Now, pos', frames', s)
      /\ StackRest(Now, frames') = RecordsWritten(Now, s)
      /\ FramesLoaded(Now, elems', todo, frames')
  <2> DEFINE q == pos'
             es == elems'
             c == Now
  <2>1. Has(c, es, Section(s)) /\ IsContents(c)
    BY <1>1, <1>2
  <2> HIDE DEF q, es, c
  <2>2. LET fr == <<Frame(Section(s), 0)>> IN
         /\ fr # <<>> /\ FramesFit(c, q, fr, s) /\ StackRest(c, fr) = RecordsWritten(c, s)
         /\ FramesLoaded(c, es, todo, fr)
    BY <1>1, <2>1, KindOpened
  <2> QED BY <2>2 DEF q, es, c
<1>4. PositionInv'
  BY <1>1, <1>3, LoopGoesOn
<1>5. LoadedInv'
  BY <1>1, <1>2, <1>3, LoopLoads
<1> QED BY <1>4, <1>5, ReaderNext

LEMMA KindKeyed ==
  ASSUME NEW p, NEW s \in Kinds
  PROVE  Keyed(Section(s)) /\ Section(s)[3] # "code" /\ IsVec(p, Section(s))
<1>1. Section(s)[1] = s /\ Section(s)[3] = ""
  BY SectionIs
<1>2. IsVec(p, Section(s))
  BY DEF IsVec
<1> HIDE DEF Section
<1> QED BY <1>1, <1>2 DEF Keyed

LEMMA OpenKeeps ==
  ASSUME ReaderInv, NEW s \in {"modules", "subs", "structs", "dlls", "windows"}, OpenSection(s)
  PROVE  ReaderInv'
<1> DEFINE vec == Section(s)
           c == CountAt(s)
           n == Len(Now[s])
           r == Behind(program, todo, check)
<1>1. s \in Kinds /\ s # "constants" /\ s \notin {"libraries", "globals", "constants", "info", "ast"}
  BY DEF Kinds
<1>2. /\ Reading(s) /\ OpenVector(vec, file[c].n \div 8, c + 1) /\ frames' = <<Frame(vec, 0)>>
      /\ UNCHANGED <<given, scanner, todo>>
  BY DEF OpenSection
<1>3. /\ todo # <<>> /\ frames = <<>> /\ todo[1] = s /\ r \in Pieces
      /\ CutAt(file, pos, PartWritten(Now, s) ++ r)
      /\ PositionInv /\ IsContents(Now) /\ check \in Nat /\ file \in Pieces /\ DataFit(elems, maps) /\ LoadedInv
  BY <1>2, ReadingAt
<1>4. CutAt(file, c, SectionWritten(Now, s) ++ r)
  <2>1. CASE s = "modules"
    <3> DEFINE b == SectionWritten(Now, s)
    <3>1. PartWritten(Now, s) = ModulesHead(Now) ++ b
      BY <2>1 DEF PartWritten, ++
    <3>2. b \in Pieces
      BY <1>1, <1>3, SectionWrittenIs
    <3>3. c = LET d == pos + 2 + file[pos + 1].n IN d + 1 + file[d].n
      BY <2>1 DEF CountAt
    <3> HIDE DEF b, c, r
    <3>4. CutAt(file, pos, (ModulesHead(Now) ++ b) ++ r)
      BY <1>3, <3>1
    <3>5. LET d == pos + 2 + file[pos + 1].n IN CutAt(file, d + 1 + file[d].n, b ++ r)
      BY <1>3, <3>2, <3>4, ModulesRead
    <3> QED BY <3>3, <3>5 DEF b
  <2>2. CASE s # "modules"
    <3>1. PartWritten(Now, s) = SectionWritten(Now, s)
      BY <1>1, <2>2 DEF PartWritten
    <3>2. c = pos
      BY <2>2 DEF CountAt
    <3> QED BY <1>3, <3>1, <3>2
  <2> QED BY <2>1, <2>2
<1> HIDE DEF c, r
<1>5. /\ file[c].n \div 8 = n /\ n \in Nat
      /\ \A i \in 1..n : file[(c + 1) + i - 1] = Field("key", vec, i, 0)
      /\ CutAt(file, (c + 1) + 2 * n, RecordsWritten(Now, s) ++ r)
  BY <1>1, <1>3, <1>4, SectionReads
<1>6. Size(Now, vec) = n
  BY <1>1, <1>3, SizeIs
<1> DEFINE q == c + 1
<1>7. \A i \in 1..Size(Now, vec) : file[q + i - 1] = KeyOf(Now, vec, i)
  <2>1. vec # Section("constants")
    <3>1. \A x : Section(x)[1] = x
      BY SectionIs
    <3> HIDE DEF Section
    <3> QED BY <1>1, <3>1
  <2>2. \A i : KeyOf(Now, vec, i) = Field("key", vec, i, 0)
    BY <2>1 DEF KeyOf
  <2> QED BY <1>5, <1>6, <2>2
<1>8. OpenVector(vec, Size(Now, vec), q)
  BY <1>2, <1>5, <1>6
<1>9. Keyed(vec) /\ vec[3] # "code" /\ IsVec(Now, vec)
  BY <1>1, KindKeyed
<1> HIDE DEF q
<1>10. DataFit(elems', maps') /\ Entered(Now, elems', vec) /\ pos' = q + 2 * Size(Now, vec)
  <2> HIDE DEF vec
  <2> QED BY <1>3, <1>7, <1>8, <1>9, OpenFits
<1>11. CutAt(file, pos', RecordsWritten(Now, s) ++ r)
  BY <1>5, <1>6, <1>10 DEF q
<1> QED BY <1>1, <1>2, <1>10, <1>11, KindOpens DEF r

LEMMA ConstantsKeep ==
  ASSUME ReaderInv, OpenConstants
  PROVE  ReaderInv'
<1> DEFINE vec == Section("constants")
           n == Len(Now.constants)
           r == Behind(program, todo, check)
           q == pos + 2
<1>1. "constants" \in Kinds
  BY DEF Kinds
<1>2. /\ Reading("constants") /\ OpenVector(vec, file[pos].n, q) /\ frames' = <<Frame(vec, 0)>>
      /\ UNCHANGED <<given, scanner, todo>>
  BY DEF OpenConstants, ConstantCount
<1>3. /\ todo # <<>> /\ frames = <<>> /\ todo[1] = "constants" /\ r \in Pieces
      /\ CutAt(file, pos, PartWritten(Now, "constants") ++ r)
      /\ PositionInv /\ IsContents(Now) /\ check \in Nat /\ file \in Pieces /\ DataFit(elems, maps) /\ LoadedInv
  BY <1>2, ReadingAt
<1>4. CutAt(file, pos, ConstantsWritten(Now) ++ r)
  BY <1>3 DEF PartWritten
<1> HIDE DEF r
<1>5. /\ file[pos].n = n /\ n \in Nat
      /\ \A i \in 1..n : file[(pos + 2) + i - 1] = KeyOf(Now, vec, i)
      /\ CutAt(file, (pos + 2) + 2 * n, RecordsWritten(Now, "constants") ++ r)
  BY <1>3, <1>4, ConstantsRead
<1>6. Size(Now, vec) = n
  BY <1>1, <1>3, SizeIs
<1>7. \A i \in 1..Size(Now, vec) : file[q + i - 1] = KeyOf(Now, vec, i)
  BY <1>5, <1>6
<1>8. OpenVector(vec, Size(Now, vec), q)
  BY <1>2, <1>5, <1>6
<1>9. Keyed(vec) /\ vec[3] # "code" /\ IsVec(Now, vec)
  BY <1>1, KindKeyed
<1> HIDE DEF q
<1>10. DataFit(elems', maps') /\ Entered(Now, elems', vec) /\ pos' = q + 2 * Size(Now, vec)
  <2> HIDE DEF vec
  <2> QED BY <1>3, <1>7, <1>8, <1>9, OpenFits
<1>11. CutAt(file, pos', RecordsWritten(Now, "constants") ++ r)
  BY <1>5, <1>6, <1>10 DEF q
<1> QED BY <1>1, <1>2, <1>10, <1>11, KindOpens DEF r

(* The loop over a list of variables is opened.                            *)
LEMMA VarsOpened ==
  ASSUME NEW p, IsContents(p), NEW vec, IsVars(vec), IsVec(p, vec), NEW f \in Pieces, NEW q, NEW r \in Pieces,
         CutAt(f, q, VarsWritten(vec, Size(p, vec), p.pad) ++ r)
  PROVE  LET F == Frame(vec, q + 2 + f[q + 1].n)
             e == (q + 2) + 2 * Size(p, vec)
         IN  /\ f[q].n = Size(p, vec)
             /\ \A i \in 1..Size(p, vec) : f[(q + 2) + i - 1] = Field("key", vec, i, 0)
             /\ VarFrame(p, F, e) /\ FrameRest(p, F) \in Pieces /\ CutAt(f, e, FrameRest(p, F) ++ r)
<1> DEFINE n == Size(p, vec)
           d == p.pad
           F == Frame(vec, q + 2 + f[q + 1].n)
           e == (q + 2) + 2 * n
           l == VarsLoop(vec, n, d)
<1>1. vec \in Vecs /\ n \in Nat /\ d \in Nat
  BY VecType, SizeType, ContentsIs
<1> HIDE DEF n, d, F, e, l
<1>2. /\ f[q].n = n
      /\ \A i \in 1..n : f[(q + 2) + i - 1] = Field("key", vec, i, 0)
      /\ CutAt(f, (q + 2) + 2 * n, VarsLoop(vec, n, d) ++ r)
      /\ VarsLoop(vec, n, d) \in Pieces /\ Len(VarsLoop(vec, n, d)) \in Nat
      /\ (q + 2) + f[q + 1].n = ((q + 2) + 2 * n) + Len(VarsLoop(vec, n, d))
  <2>1. vec \in Vecs
    BY <1>1
  <2>2. n \in Nat
    BY <1>1
  <2>3. d \in Nat
    BY <1>1
  <2>4. CutAt(f, q, VarsWritten(vec, n, d) ++ r)
    BY DEF n, d
  <2>5. f \in Pieces /\ r \in Pieces
    OBVIOUS
  <2>6. VarsAt(f, q, vec, n, d, r)
    BY ONLY <2>1, <2>2, <2>3, <2>4, <2>5, VarsReads
  <2> QED BY <2>6 DEF VarsAt
<1>3. F.vec = vec /\ F.at = 0 /\ F.lists = <<>> /\ F.past = q + 2 + f[q + 1].n /\ IsFrame(F)
  BY FrameIs DEF F
<1>4. FrameRest(p, F) = VarsRest(p, vec, 0)
  BY <1>3 DEF FrameRest, VarsRest, ++
<1>5. VarsRest(p, vec, 0) = l
  BY VarsRestIs DEF l, n, d
<1>6. VarFrame(p, F, e)
  <2>1. F.at \in 0..Size(p, F.vec)
    BY <1>1, <1>3 DEF n
  <2>2. F.past = e + Len(FrameRest(p, F))
    BY <1>2, <1>3, <1>4, <1>5 DEF e, l
  <2> QED BY <1>3, <2>1, <2>2 DEF VarFrame
<1> QED BY <1>2, <1>4, <1>5, <1>6 DEF F, e, l, n

LEMMA GlobalsKeep ==
  ASSUME ReaderInv, OpenGlobals
  PROVE  ReaderInv'
<1> DEFINE vec == Section("globals")
           n == Size(Now, vec)
           r == Behind(program, todo, check)
           q == pos + 2
           F == Frame(vec, pos + 2 + file[pos + 1].n)
           e == q + 2 * n
<1>1. /\ Reading("globals") /\ OpenVector(vec, file[pos].n, q) /\ frames' = <<F>>
      /\ UNCHANGED <<given, scanner, todo>>
  BY DEF OpenGlobals, Past
<1>2. /\ todo # <<>> /\ frames = <<>> /\ todo[1] = "globals" /\ r \in Pieces
      /\ CutAt(file, pos, PartWritten(Now, "globals") ++ r)
      /\ PositionInv /\ IsContents(Now) /\ check \in Nat /\ file \in Pieces /\ DataFit(elems, maps) /\ LoadedInv
  BY <1>1, ReadingAt
<1>3. /\ IsVec(Now, vec) /\ n = Now.globals /\ vec[1] = "globals" /\ vec[3] = ""
  BY <1>2, GlobalVec, SizeIs, SectionIs
<1>4. IsVars(vec) /\ Keyed(vec) /\ vec[3] # "code" /\ vec # Section("constants")
  <2>1. "globals" # "constants" /\ Section("constants")[1] = "constants"
    BY SectionIs
  <2> HIDE DEF vec
  <2> QED BY <1>3, <2>1 DEF IsVars, Keyed
<1>5. CutAt(file, pos, VarsWritten(vec, n, Now.pad) ++ r)
  BY <1>2, <1>3 DEF PartWritten
<1> HIDE DEF vec, r
<1>6. /\ file[pos].n = n
      /\ \A i \in 1..n : file[q + i - 1] = Field("key", vec, i, 0)
      /\ VarFrame(Now, F, e) /\ FrameRest(Now, F) \in Pieces /\ CutAt(file, e, FrameRest(Now, F) ++ r)
  BY <1>2, <1>3, <1>4, <1>5, VarsOpened
<1>7. \A i \in 1..Size(Now, vec) : file[q + i - 1] = KeyOf(Now, vec, i)
  <2>1. \A i : KeyOf(Now, vec, i) = Field("key", vec, i, 0)
    BY <1>4 DEF KeyOf
  <2> QED BY <1>6, <2>1
<1>8. OpenVector(vec, Size(Now, vec), q)
  BY <1>1, <1>6
<1> HIDE DEF q, F
<1>9. DataFit(elems', maps') /\ Entered(Now, elems', vec) /\ pos' = e
  <2>1. DataFit(elems, maps) /\ IsContents(Now) /\ check \in Nat
    BY <1>2
  <2>2. IsVec(Now, vec) /\ Keyed(vec) /\ vec[3] # "code"
    BY <1>3, <1>4
  <2> HIDE DEF n, e
  <2>3. DataFit(elems', maps') /\ Entered(Now, elems', vec) /\ pos' = q + 2 * Size(Now, vec)
    BY <1>7, <1>8, <2>1, <2>2, OpenFits
  <2> QED BY <2>3 DEF n, e
<1>10. frames' # <<>> /\ Len(frames') = 1 /\ frames'[1] = F /\ frames' = <<frames'[1]>>
  BY <1>1, OneFrame
<1>11. F.vec = vec /\ F.at = 0 /\ F.lists = <<>>
  BY FrameIs DEF F
<1>12. PositionInv'
  <2>1. FramesFit(Now, pos', frames', todo[1])
    BY <1>2, <1>6, <1>9, <1>10, <1>11 DEF FramesFit, vec
  <2>2. StackRest(Now, frames') = FrameRest(Now, F)
    BY <1>10 DEF StackRest
  <2>3. CutAt(file, pos', StackRest(Now, frames') ++ r)
    BY <1>6, <1>9, <2>2
  <2> QED BY <1>1, <1>2, <1>10, <2>1, <2>3, LoopGoesOn DEF r
<1>13. LoadedInv'
  <2>1. LoadedTo(Now, elems', "globals", F)
    <3>1. Has(Now, elems', Section("globals"))
      BY <1>9 DEF Entered, vec
    <3> QED BY <1>11, <3>1 DEF LoadedTo
  <2>2. FramesLoaded(Now, elems', todo, frames')
    BY <1>2, <1>10, <2>1 DEF FramesLoaded
  <2>3. Others(elems, elems', todo[1])
    BY <1>2, <1>3, <1>9, EnteredOthers
  <2> QED BY <1>1, <1>2, <2>2, <2>3, LoopLoads
<1> QED BY <1>9, <1>12, <1>13, ReaderNext

(* Stacks of one frame and of two.                                         *)
LEMMA Stacks ==
  ASSUME NEW x, NEW y, NEW z
  PROVE  /\ [<<x>> EXCEPT ![Len(<<x>>)] = z] = <<z>> /\ <<x>>[Len(<<x>>)] = x
         /\ [<<x, y>> EXCEPT ![Len(<<x, y>>)] = z] = <<x, z>> /\ <<x, y>>[Len(<<x, y>>)] = y
         /\ Append(<<x>>, z) = <<x, z>> /\ Len(<<x>>) = 1 /\ Len(<<x, y>>) = 2
         /\ Front(<<x>>) = <<>> /\ Front(<<x, y>>) = <<x>>
<1>1. [<<x>> EXCEPT ![Len(<<x>>)] = z] = <<z>> /\ <<x>>[Len(<<x>>)] = x
  OBVIOUS
<1>2. [<<x, y>> EXCEPT ![Len(<<x, y>>)] = z] = <<x, z>> /\ <<x, y>>[Len(<<x, y>>)] = y
  OBVIOUS
<1>3. Append(<<x>>, z) = <<x, z>> /\ Len(<<x>>) = 1 /\ Len(<<x, y>>) = 2
  <2>1. <<x>> \in Seq({x, z})
    OBVIOUS
  <2>2. /\ Len(Append(<<x>>, z)) = 2 /\ Append(<<x>>, z)[1] = x /\ Append(<<x>>, z)[2] = z
        /\ Append(<<x>>, z) \in Seq({x, z})
    BY <2>1
  <2>3. \A q \in Seq({x, z}) : Len(q) = 2 /\ q[1] = x /\ q[2] = z => q = <<x, z>>
    OBVIOUS
  <2>4. Append(<<x>>, z) = <<x, z>>
    BY <2>2, <2>3, Zenon
  <2>5. Len(<<x>>) = 1
    OBVIOUS
  <2>6. Len(<<x, y>>) = 2
    OBVIOUS
  <2> QED BY <2>4, <2>5, <2>6
<1>4. Front(<<x>>) = <<>>
  BY DEF Front
<1>5. Front(<<x, y>>) = <<x>>
  <2> DEFINE t == SubSeq(<<x, y>>, 1, 1)
  <2>1. <<x, y>> \in Seq({x, y}) /\ Len(<<x, y>>) - 1 = 1
    OBVIOUS
  <2>2. t \in Seq({x, y}) /\ Len(t) = 1 /\ t[1] = x
    BY <2>1
  <2>3. \A q \in Seq({x, y}) : Len(q) = 1 /\ q[1] = x => q = <<x>>
    OBVIOUS
  <2>4. t = <<x>>
    BY <2>2, <2>3, Zenon
  <2> QED BY <2>1, <2>4 DEF Front
<1> QED BY <1>1, <1>2, <1>3, <1>4, <1>5

LEMMA ItemsLen ==
  ASSUME NEW p, NEW es, ElemsFit(es), NEW vec, Has(p, es, vec)
  PROVE  /\ vec \in DOMAIN es /\ Size(p, vec) \in Nat
         /\ Len(es[vec].items) = Size(p, vec) /\ DOMAIN es[vec].items = 1..Size(p, vec)
<1> DEFINE n == Size(p, vec)
           y == es[vec].items
<1>1. vec \in DOMAIN es /\ Len(y) = n
  BY DEF Has
<1>2. VectorFits(vec, es[vec])
  BY <1>1 DEF ElemsFit
<1>3. y = [i \in 1..Len(y) |-> y[i]] /\ Len(y) \in 0..es[vec].room /\ es[vec].room \in Nat
  BY <1>2 DEF VectorFits
<1> HIDE DEF n, y
<1>4. DOMAIN y = 1..n
  BY <1>1, <1>3, Zenon
<1>5. n \in Nat
  BY <1>1, <1>3
<1> QED BY <1>1, <1>4, <1>5 DEF n, y

(* What the loops over records and variables stand on.                     *)
LEMMA LoopIs ==
  ASSUME ReaderInv, frames # <<>>
  PROVE  /\ todo # <<>> /\ PositionInv /\ IsContents(Now) /\ check \in Nat /\ file \in Pieces
         /\ DataFit(elems, maps) /\ LoadedInv
         /\ Behind(program, todo, check) \in Pieces
         /\ CutAt(file, pos, StackRest(Now, frames) ++ Behind(program, todo, check))
         /\ LoadedTo(Now, elems, todo[1], frames[1])
         /\ \/ /\ Len(frames) = 1 /\ frames = <<frames[1]>> /\ Top = frames[1]
               /\ StackRest(Now, frames) = FrameRest(Now, Top) /\ FrameRest(Now, Top) \in Pieces
               /\ OneFits(Now, pos, Top, todo[1])
            \/ /\ Len(frames) = 2 /\ frames = <<frames[1], frames[2]>> /\ Top = frames[2]
               /\ StackRest(Now, frames) = FrameRest(Now, Top) ++ FrameRest(Now, frames[1])
               /\ TwoFit(Now, pos, frames, todo[1]) /\ Has(Now, elems, Top.vec)
               /\ FrameRest(Now, Top) \in Pieces /\ FrameRest(Now, frames[1]) \in Pieces
<1>1. PositionInv /\ IsContents(Now) /\ check \in Nat /\ file \in Pieces /\ DataFit(elems, maps) /\ LoadedInv
  <2>1. PositionInv /\ DataFit(elems, maps) /\ LoadedInv
    BY ReaderIs
  <2>2. todo # <<>>
    BY <2>1 DEF PositionInv
  <2> QED BY <2>1, <2>2, ReadingIs, FileIs
<1>2. todo # <<>>
  BY <1>1 DEF PositionInv
<1>3. /\ Behind(program, todo, check) \in Pieces /\ FramesFit(Now, pos, frames, todo[1])
      /\ CutAt(file, pos, StackRest(Now, frames) ++ Behind(program, todo, check))
  BY <1>1, <1>2, ReadingIs
<1>4. LoadedTo(Now, elems, todo[1], frames[1]) /\ (Len(frames) = 2 => Has(Now, elems, frames[2].vec))
  <2>1. FramesLoaded(Now, elems, todo, frames)
    BY <1>1, LoadedIs
  <2> QED BY <2>1 DEF FramesLoaded
<1>5. \/ Len(frames) = 1 /\ frames = <<frames[1]>> /\ StackRest(Now, frames) = FrameRest(Now, frames[1])
         /\ FrameRest(Now, frames[1]) \in Pieces
         /\ OneFits(Now, pos, frames[1], todo[1])
      \/ Len(frames) = 2 /\ frames = <<frames[1], frames[2]>>
         /\ StackRest(Now, frames) = FrameRest(Now, frames[2]) ++ FrameRest(Now, frames[1])
         /\ TwoFit(Now, pos, frames, todo[1])
         /\ FrameRest(Now, frames[1]) \in Pieces /\ FrameRest(Now, frames[2]) \in Pieces
  BY <1>1, <1>3, StackIs
<1>6. Top = frames[Len(frames)]
  BY DEF Top
<1> QED BY <1>1, <1>2, <1>3, <1>4, <1>5, <1>6

LEMMA InSectionIs ==
  ASSUME ReaderInv, NEW s \in Kinds, InSection(s)
  PROVE  LET i == Top.at + 1
             b == Behind(program, todo, check)
             r == From(Records(Now, s), i + 1)
         IN  /\ todo # <<>> /\ todo[1] = s /\ frames = <<Top>> /\ SectionFrame(Now, Top, s) /\ Top.lists = <<>>
             /\ Top.vec = Section(s) /\ Top.at \in 0..(Len(Now[s]) - 1) /\ i \in 1..Len(Now[s])
             /\ NextAt = i /\ Has(Now, elems, Section(s)) /\ Section(s) \in DOMAIN elems
             /\ i \in 1..Len(elems[Section(s)].items)
             /\ IsContents(Now) /\ check \in Nat /\ file \in Pieces /\ DataFit(elems, maps)
             /\ CutAt(file, pos, RecordWritten(Now, s, i) ++ (r ++ b))
             /\ RecordWritten(Now, s, i) \in Pieces /\ r \in Pieces /\ b \in Pieces /\ r ++ b \in Pieces
             /\ LoadedTo(Now, elems, s, Top)
<1> DEFINE b == Behind(program, todo, check)
<1>1. frames # <<>> /\ Top.vec = Section(s) /\ Top.lists = <<>> /\ Top.at < Len(elems[Top.vec].items)
  BY DEF InSection
<1>2. /\ todo # <<>> /\ PositionInv /\ IsContents(Now) /\ check \in Nat /\ file \in Pieces
      /\ DataFit(elems, maps) /\ b \in Pieces
      /\ CutAt(file, pos, StackRest(Now, frames) ++ b)
      /\ LoadedTo(Now, elems, todo[1], frames[1])
  BY <1>1, LoopIs
<1> HIDE DEF b
<1>3. /\ frames = <<Top>> /\ Top = frames[1]
      /\ StackRest(Now, frames) = FrameRest(Now, Top) /\ OneFits(Now, pos, Top, todo[1])
  <2>1. ~IsVars(Top.vec)
    BY <1>1, NotVars
  <2>2. ~(TwoFit(Now, pos, frames, todo[1]) /\ Top = frames[2])
    BY <2>1 DEF TwoFit, VarFrame
  <2> QED BY <1>1, <2>2, LoopIs
<1>4. SectionFrame(Now, Top, todo[1])
  BY <1>1, <1>3, NotVars DEF OneFits
<1>5. todo[1] = s
  <2>1. Top.vec = Section(todo[1])
    BY <1>4 DEF SectionFrame
  <2>2. \A x : Section(x)[1] = x
    BY SectionIs
  <2> HIDE DEF Section
  <2> QED BY <1>1, <2>1, <2>2
<1>6. SectionFrame(Now, Top, s) /\ LoadedTo(Now, elems, s, Top)
  BY <1>2, <1>3, <1>4, <1>5
<1>7. Has(Now, elems, Section(s)) /\ Section(s) \in DOMAIN elems
  BY <1>6 DEF LoadedTo, Has
<1>8. Len(elems[Section(s)].items) = Len(Now[s]) /\ Len(Now[s]) \in Nat
  <2>1. ElemsFit(elems)
    BY <1>2 DEF DataFit
  <2>2. Len(elems[Section(s)].items) = Size(Now, Section(s))
    BY <1>7, <2>1, ItemsLen
  <2> QED BY <1>2, <2>2, SizeIs, KindsIs
<1>9. Top.at \in 0..Len(Now[s])
  BY <1>6 DEF SectionFrame
<1>10. Top.at \in 0..(Len(Now[s]) - 1) /\ Top.at + 1 \in 1..Len(Now[s])
  BY <1>1, <1>8, <1>9
<1>11. FrameRest(Now, Top) = RecordsRest(Now, s, Top.at, <<>>)
  BY <1>1, <1>2, <1>6, SectionFrameIs
<1> DEFINE i == Top.at + 1
           r == From(Records(Now, s), i + 1)
           x == RecordWritten(Now, s, i)
<1>12. RecordsRest(Now, s, Top.at, <<>>) = x ++ r /\ x \in Pieces /\ r \in Pieces
  <2>1. /\ \A at \in 0..Len(Now[s]) :
             RecordsRest(Now, s, at, <<>>) = From(Records(Now, s), at + 1)
        /\ \A at \in 0..(Len(Now[s]) - 1) :
              /\ RecordWritten(Now, s, at + 1) \in Pieces
              /\ From(Records(Now, s), (at + 1) + 1) \in Pieces
              /\ From(Records(Now, s), at + 1)
                   = RecordWritten(Now, s, at + 1) ++ From(Records(Now, s), (at + 1) + 1)
    BY <1>2, RecordsRestIs
  <2> QED BY <1>9, <1>10, <2>1
<1>13. CutAt(file, pos, (x ++ r) ++ b)
  BY <1>2, <1>3, <1>11, <1>12
<1> HIDE DEF x, r, i
<1>14. CutAt(file, pos, x ++ (r ++ b)) /\ r ++ b \in Pieces
  BY <1>2, <1>12, <1>13, Right2
<1>15. NextAt = i
  BY DEF NextAt, i
<1>16. i \in 1..Len(elems[Section(s)].items)
  BY <1>8, <1>10 DEF i
<1> QED BY <1>1, <1>2, <1>3, <1>5, <1>6, <1>7, <1>10, <1>12, <1>14, <1>15, <1>16 DEF i, r, x, b

(* A record has been read: the loop over its section goes on.              *)
Begun(fr, a, l) == [fr EXCEPT !.at = a, !.lists = l]
Moved(fr, a) == [fr EXCEPT !.at = a]
Listed(fr, l) == [fr EXCEPT !.lists = l]
LEMMA FrameSet ==
  ASSUME NEW fr, IsFrame(fr), NEW a, NEW l
  PROVE  /\ Begun(fr, a, l) = [vec |-> fr.vec, at |-> a, lists |-> l, past |-> fr.past]
         /\ Moved(fr, a) = [vec |-> fr.vec, at |-> a, lists |-> fr.lists, past |-> fr.past]
         /\ Listed(fr, l) = [vec |-> fr.vec, at |-> fr.at, lists |-> l, past |-> fr.past]
<1>1. \A v, b, m, q, x : x = [vec |-> v, at |-> b, lists |-> m, past |-> q] =>
        [x EXCEPT !.at = a] = [vec |-> v, at |-> a, lists |-> m, past |-> q]
  OBVIOUS
<1>2. \A v, b, m, q, x : x = [vec |-> v, at |-> b, lists |-> m, past |-> q] =>
        [x EXCEPT !.lists = l] = [vec |-> v, at |-> b, lists |-> l, past |-> q]
  OBVIOUS
<1>3. [fr EXCEPT !.at = a, !.lists = l] = [[fr EXCEPT !.at = a] EXCEPT !.lists = l]
  OBVIOUS
<1> DEFINE v == fr.vec
           b == fr.at
           m == fr.lists
           q == fr.past
<1>4. fr = [vec |-> v, at |-> b, lists |-> m, past |-> q]
  BY DEF IsFrame
<1> HIDE DEF v, b, m, q
<1>5. [fr EXCEPT !.at = a] = [vec |-> v, at |-> a, lists |-> m, past |-> q]
  BY <1>1, <1>4
<1> DEFINE g == [fr EXCEPT !.at = a]
<1>6. [g EXCEPT !.lists = l] = [vec |-> v, at |-> a, lists |-> l, past |-> q]
  <2> HIDE DEF g
  <2>1. g = [vec |-> v, at |-> a, lists |-> m, past |-> q]
    BY <1>5 DEF g
  <2> QED BY <1>2, <2>1
<1>7. [fr EXCEPT !.lists = l] = [vec |-> v, at |-> b, lists |-> l, past |-> q]
  BY <1>2, <1>4
<1>8. [fr EXCEPT !.at = a, !.lists = l] = [vec |-> v, at |-> a, lists |-> l, past |-> q]
  <2>1. [fr EXCEPT !.at = a, !.lists = l] = [g EXCEPT !.lists = l]
    BY <1>3
  <2> HIDE DEF g
  <2> QED BY <1>6, <2>1
<1> QED BY <1>5, <1>7, <1>8 DEF v, b, m, q, Begun, Moved, Listed

LEMMA FrameMade ==
  ASSUME NEW v, NEW b, NEW m, NEW q, NEW x, x = [vec |-> v, at |-> b, lists |-> m, past |-> q]
  PROVE  IsFrame(x) /\ x.vec = v /\ x.at = b /\ x.lists = m /\ x.past = q
<1>1. x.vec = v /\ x.at = b /\ x.lists = m /\ x.past = q
  OBVIOUS
<1> QED BY <1>1, Zenon DEF IsFrame

LEMMA SectionGoesOn ==
  ASSUME ReaderInv, todo # <<>>, NEW s \in Kinds, todo[1] = s, UNCHANGED <<given, scanner, todo>>,
         NEW F, frames' = <<F>>, SectionFrame(Now, F, s),
         CutAt(file, pos', RecordsRest(Now, s, F.at, F.lists) ++ Behind(program, todo, check)),
         DataFit(elems', maps'), Others(elems, elems', s), LoadedTo(Now, elems', s, F)
  PROVE  ReaderInv'
<1>1. PositionInv /\ LoadedInv /\ IsContents(Now)
  BY ReaderIs, ReadingIs
<1>2. frames' # <<>> /\ Len(frames') = 1 /\ frames'[1] = F /\ frames' = <<frames'[1]>>
  BY OneFrame
<1>3. FramesFit(Now, pos', frames', todo[1])
  BY <1>2 DEF FramesFit
<1>4. StackRest(Now, frames') = RecordsRest(Now, s, F.at, F.lists)
  <2>1. StackRest(Now, frames') = FrameRest(Now, F)
    BY <1>2 DEF StackRest
  <2>2. FrameRest(Now, F) = RecordsRest(Now, s, F.at, F.lists)
    BY <1>1, SectionFrameIs
  <2> QED BY <2>1, <2>2
<1>5. PositionInv'
  BY <1>1, <1>2, <1>3, <1>4, LoopGoesOn
<1>6. FramesLoaded(Now, elems', todo, frames')
  BY <1>2 DEF FramesLoaded
<1>7. LoadedInv'
  BY <1>1, <1>2, <1>6, LoopLoads
<1> QED BY <1>5, <1>7, ReaderNext

(* What a step renews is loaded as it was.                                 *)
LEMMA RenewedLoaded ==
  ASSUME NEW p, NEW es, NEW es2, Renewed(es, es2), NEW s, NEW F, LoadedTo(p, es, s, F)
  PROVE  LoadedTo(p, es2, s, F)
BY RenewedHas DEF LoadedTo

LEMMA RecordStep ==
  ASSUME ReaderInv, NEW s \in Kinds, InSection(s), UNCHANGED <<given, scanner, todo>>,
         NEW F, frames' = <<F>>, IsFrame(F), F.vec = Section(s), F.at = Top.at + 1, F.lists = ListNames(s),
         CutAt(file, pos', RecordsRest(Now, s, Top.at + 1, ListNames(s)) ++ Behind(program, todo, check)),
         DataFit(elems', maps'), Renewed(elems, elems')
  PROVE  ReaderInv'
<1>1. IsContents(Now)
  BY InSectionIs
<1>2. /\ todo # <<>> /\ todo[1] = s /\ Top.lists = <<>> /\ Top.at \in 0..(Len(Now[s]) - 1)
      /\ LoadedTo(Now, elems, s, Top)
  BY InSectionIs
<1>3. Len(Now[s]) \in Nat
  BY <1>1, KindsIs
<1>4. SectionFrame(Now, F, s)
  <2>1. F.at \in 0..Len(Now[s]) /\ F.at # 0
    BY <1>2, <1>3
  <2>2. ListNames(s) \in TailsOf(ListNames(s))
    BY ListNamesType, TailsIs
  <2> QED BY <2>1, <2>2 DEF SectionFrame
<1>5. LoadedTo(Now, elems, s, F)
  <2>1. Has(Now, elems, Section(s))
    BY <1>2 DEF LoadedTo
  <2> DEFINE n == Len(ListNames(s))
  <2>2. n \in Nat
    BY ListNamesType
  <2>3. Len(Top.lists) = 0
    BY <1>2
  <2>4. \A i \in 1..Top.at : \A j \in 1..n : i < Top.at \/ j <= n - Len(Top.lists) =>
          Has(Now, elems, <<s, i, ListNames(s)[j]>>)
    BY <1>2 DEF LoadedTo
  <2>5. \A i \in 1..F.at : \A j \in 1..n : i < F.at \/ j <= n - Len(F.lists) =>
          Has(Now, elems, <<s, i, ListNames(s)[j]>>)
    <3> SUFFICES ASSUME NEW i \in 1..F.at, NEW j \in 1..n, i < F.at \/ j <= n - Len(F.lists)
                 PROVE  Has(Now, elems, <<s, i, ListNames(s)[j]>>)
      OBVIOUS
    <3>1. Len(F.lists) = n
      OBVIOUS
    <3> HIDE DEF n
    <3>2. i < F.at
      BY <2>2, <3>1
    <3>3. i \in 1..Top.at /\ j <= n - 0
      BY <1>2, <1>3, <2>2, <3>2
    <3> QED BY <2>3, <2>4, <3>3
  <2> QED BY <2>1, <2>5 DEF LoadedTo
<1>6. LoadedTo(Now, elems', s, F)
  <2> DEFINE es == elems'
             c == Now
  <2>1. Renewed(elems, es) /\ LoadedTo(c, elems, s, F)
    BY <1>5
  <2> HIDE DEF es, c
  <2>2. LoadedTo(c, es, s, F)
    BY <2>1, RenewedLoaded
  <2> QED BY <2>2 DEF es, c
<1>7. Others(elems, elems', s)
  BY RenewedOthers
<1> QED BY <1>2, <1>4, <1>6, <1>7, SectionGoesOn

(* A field after the other is assigned.                                    *)
LEMMA RenewedAssign ==
  ASSUME NEW es, Renewed(elems, es), NEW vec \in DOMAIN elems, NEW i \in 1..Len(elems[vec].items),
         NEW names \in Seq(PlainNames), NEW q, file \in Pieces, Stands(q, Fields(vec, i, names))
  PROVE  Renewed(elems, Assign(es, vec, i, names, q))
<1>1. ElemsFit(es) /\ vec \in DOMAIN es /\ i \in 1..Len(es[vec].items)
  BY DEF Renewed, Keeps
<1>2. Renewed(es, Assign(es, vec, i, names, q))
  BY <1>1, AssignFits
<1> QED BY <1>2, RenewedTwice

LEMMA RenewedSame ==
  ASSUME ElemsFit(elems)
  PROVE  Renewed(elems, elems)
BY KeepsSame DEF Renewed

LEMMA HeadKeeps ==
  ASSUME ReaderInv, NEW s \in {"modules", "subs", "structs", "dlls"}, ReadHead(s, HeadNames(s), ListNames(s))
  PROVE  ReaderInv'
<1> DEFINE i == Top.at + 1
           names == HeadNames(s)
           b == Behind(program, todo, check)
           r == From(Records(Now, s), i + 1)
           x == Fields(Section(s), i, names)
           l == ListsWritten(Now, s, i, ListNames(s))
           F == [Top EXCEPT !.at = NextAt, !.lists = ListNames(s)]
<1>1. /\ InSection(s) /\ elems' = Assign(elems, Top.vec, NextAt, names, pos) /\ pos' = pos + Len(names)
      /\ frames' = SetTop(F) /\ UNCHANGED <<given, scanner, todo>> /\ maps' = maps
  BY DEF ReadHead
<1>2. s \in Kinds
  BY DEF Kinds
<1>3. IsContents(Now) /\ file \in Pieces /\ DataFit(elems, maps)
  BY <1>1, <1>2, InSectionIs
<1>4. /\ frames = <<Top>> /\ SectionFrame(Now, Top, s) /\ Top.vec = Section(s)
      /\ i \in 1..Len(Now[s]) /\ NextAt = i
      /\ Section(s) \in DOMAIN elems /\ i \in 1..Len(elems[Section(s)].items)
      /\ CutAt(file, pos, RecordWritten(Now, s, i) ++ (r ++ b))
      /\ r \in Pieces /\ b \in Pieces /\ r ++ b \in Pieces
  BY <1>1, <1>2, InSectionIs
<1>5. RecordWritten(Now, s, i) = x ++ l /\ x \in Pieces /\ l \in Pieces
  BY <1>3, <1>4, CodeRecord
<1>6. names \in Seq(PlainNames)
  BY HeadType
<1>7. Len(x) = Len(names)
  <2>1. Section(s) \in Vecs /\ i \in Nat
    BY <1>2, <1>3, <1>4, IndexIs
  <2>2. names \in Seq(Names)
    BY <1>6, NamesMono
  <2> QED BY <2>1, <2>2, FieldsIs
<1>8. frames' = <<F>> /\ IsFrame(F) /\ F.vec = Section(s) /\ F.at = i /\ F.lists = ListNames(s)
  <2>1. IsFrame(Top)
    BY <1>4 DEF SectionFrame
  <2>2. IsFrame(F) /\ F.vec = Section(s) /\ F.at = i /\ F.lists = ListNames(s)
    <3>1. Begun(Top, NextAt, ListNames(s))
            = [vec |-> Top.vec, at |-> NextAt, lists |-> ListNames(s), past |-> Top.past]
      BY <2>1, FrameSet
    <3>2. IsFrame(F) /\ F.vec = Top.vec /\ F.at = NextAt /\ F.lists = ListNames(s)
      BY <3>1, FrameMade DEF Begun
    <3> QED BY <1>4, <3>2
  <2> DEFINE y == Top
  <2>3. frames = <<y>>
    BY <1>4
  <2> HIDE DEF F, y
  <2>4. SetTop(F) = <<F>>
    BY <2>3, Stacks DEF SetTop
  <2> QED BY <1>1, <2>2, <2>4
<1> HIDE DEF x, l, r, b, F, names
<1>9. CutAt(file, pos, (x ++ l) ++ (r ++ b))
  BY <1>4, <1>5
<1>10. CutAt(file, pos, x ++ (l ++ (r ++ b))) /\ CutAt(file, pos + Len(x), l ++ (r ++ b))
  BY <1>3, <1>4, <1>5, <1>9, CutSplit
<1>11. CutAt(file, pos', (l ++ r) ++ b)
  <2>1. (l ++ r) ++ b = l ++ (r ++ b)
    BY <1>4, <1>5, Assoc
  <2> QED BY <1>1, <1>7, <1>10, <2>1
<1>12. RecordsRest(Now, s, i, ListNames(s)) = l ++ r
  BY DEF RecordsRest, l, r
<1>13. DataFit(elems', maps') /\ Renewed(elems, elems')
  <2> DEFINE vec == Section(s)
             es == Assign(elems, vec, i, names, pos)
  <2>1. Stands(pos, Fields(vec, i, names))
    <3>1. l ++ (r ++ b) \in Pieces
      BY <1>4, <1>5, ConcatIs
    <3> QED BY <1>10, <3>1 DEF Stands, x
  <2>2. i \in 1..Len(elems[vec].items) /\ vec \in DOMAIN elems /\ ElemsFit(elems)
    BY <1>3, <1>4 DEF DataFit
  <2> HIDE DEF vec, i
  <2>3. Renewed(elems, es)
    BY <1>3, <1>6, <2>1, <2>2, AssignFits
  <2>4. elems' = es
    BY <1>1, <1>4 DEF vec, i
  <2> HIDE DEF es
  <2>5. ElemsFit(es)
    BY <2>3 DEF Renewed
  <2> QED BY <1>1, <1>3, <2>3, <2>4, <2>5 DEF DataFit
<1>14. CutAt(file, pos', RecordsRest(Now, s, Top.at + 1, ListNames(s)) ++ Behind(program, todo, check))
  BY <1>11, <1>12 DEF b
<1> QED BY <1>1, <1>2, <1>8, <1>13, <1>14, RecordStep

LEMMA HeadsKeep ==
  ASSUME ReaderInv, ReadModule \/ ReadSub \/ ReadStruct \/ ReadDll
  PROVE  ReaderInv'
<1>1. /\ ReadModule => ReadHead("modules", HeadNames("modules"), ListNames("modules"))
      /\ ReadSub => ReadHead("subs", HeadNames("subs"), ListNames("subs"))
      /\ ReadStruct => ReadHead("structs", HeadNames("structs"), ListNames("structs"))
      /\ ReadDll => ReadHead("dlls", HeadNames("dlls"), ListNames("dlls"))
  <2>1. /\ HeadNames("modules") = <<"property", "base", "name", "comment">>
        /\ HeadNames("subs") = <<"skip", "property", "type", "name", "comment">>
        /\ HeadNames("structs") = <<"property", "name", "comment">>
        /\ HeadNames("dlls") = <<"property", "type", "name", "comment", "lib", "func">>
    BY DEF HeadNames
  <2> QED BY <2>1, ListNamesIs DEF ReadModule, ReadSub, ReadStruct, ReadDll
<1>2. PICK s \in {"modules", "subs", "structs", "dlls"} : ReadHead(s, HeadNames(s), ListNames(s))
  BY <1>1
<1> QED BY <1>2, HeadKeeps

(* A record without lists has been read.                                   *)
LEMMA PlainStep ==
  ASSUME ReaderInv, NEW s \in {"windows", "constants"}, InSection(s), UNCHANGED <<given, scanner, todo>>,
         frames' = SetTop([Top EXCEPT !.at = NextAt]), maps' = maps, Renewed(elems, elems'),
         CutAt(file, pos', From(Records(Now, s), (Top.at + 1) + 1) ++ Behind(program, todo, check))
  PROVE  ReaderInv'
<1> DEFINE F == [Top EXCEPT !.at = NextAt]
           i == Top.at + 1
<1>1. s \in Kinds /\ ListNames(s) = <<>>
  BY ListNamesIs DEF Kinds
<1>2. IsContents(Now) /\ DataFit(elems, maps)
  BY <1>1, InSectionIs
<1>3. /\ frames = <<Top>> /\ SectionFrame(Now, Top, s) /\ Top.vec = Section(s) /\ Top.lists = <<>>
      /\ NextAt = i /\ i \in 1..Len(Now[s])
  BY <1>1, InSectionIs
<1>4. IsFrame(F) /\ F.vec = Section(s) /\ F.at = i /\ F.lists = <<>>
  <2>1. IsFrame(Top)
    BY <1>3 DEF SectionFrame
  <2>2. Moved(Top, NextAt) = [vec |-> Top.vec, at |-> NextAt, lists |-> Top.lists, past |-> Top.past]
    BY <2>1, FrameSet
  <2>3. IsFrame(F) /\ F.vec = Top.vec /\ F.at = NextAt /\ F.lists = Top.lists
    BY <2>2, FrameMade DEF Moved
  <2> QED BY <1>3, <2>3
<1>5. frames' = <<F>>
  <2> DEFINE y == Top
  <2>1. frames = <<y>>
    BY <1>3
  <2> HIDE DEF F, y
  <2>2. SetTop(F) = <<F>>
    BY <2>1, Stacks DEF SetTop
  <2> QED BY <2>2 DEF F
<1>6. RecordsRest(Now, s, i, <<>>) = From(Records(Now, s), i + 1)
  <2>1. \A at \in 0..Len(Now[s]) : RecordsRest(Now, s, at, <<>>) = From(Records(Now, s), at + 1)
    BY <1>1, <1>2, RecordsRestIs
  <2>2. i \in 0..Len(Now[s])
    BY <1>3
  <2> QED BY <2>1, <2>2
<1>7. DataFit(elems', maps')
  BY <1>2 DEF DataFit, Renewed
<1> HIDE DEF F
<1> QED BY <1>1, <1>4, <1>5, <1>6, <1>7, RecordStep

LEMMA ConstantKey ==
  ASSUME NEW p, IsContents(p), NEW es, Has(p, es, Section("constants")), NEW i \in 1..Len(p.constants)
  PROVE  es[Section("constants")].items[i].key.n = 1 <=> p.constants[i] = 0
<1> DEFINE vec == Section("constants")
<1>1. "constants" \in Kinds
  BY DEF Kinds
<1>2. Keyed(vec) /\ Size(p, vec) = Len(p.constants)
  BY <1>1, KindKeyed, SizeIs
<1> HIDE DEF vec
<1>3. es[vec].items[i].key = KeyOf(p, vec, i)
  BY <1>2 DEF Has, vec
<1>4. KeyOf(p, vec, i).n = IF p.constants[i] = 0 THEN 1 ELSE 0
  BY FieldIs DEF KeyOf, vec
<1> QED BY <1>3, <1>4 DEF vec

LEMMA ConstantKeeps ==
  ASSUME ReaderInv, ReadConstant
  PROVE  ReaderInv'
<1> DEFINE vec == Section("constants")
           i == Top.at + 1
           k == Now.constants[i]
           head == Assign(elems, vec, i, ConstantHead, pos)
           r == From(Records(Now, "constants"), i + 1)
           b == Behind(program, todo, check)
           x == Fields(vec, i, ConstantHead)
           v == Fields(vec, i, <<"value">>)
<1>1. "constants" \in Kinds
  BY DEF Kinds
<1>2. /\ InSection("constants") /\ UNCHANGED <<given, scanner, todo>> /\ maps' = maps
      /\ frames' = SetTop([Top EXCEPT !.at = NextAt])
  BY DEF ReadConstant
<1>3. IsContents(Now) /\ file \in Pieces /\ ElemsFit(elems) /\ Has(Now, elems, vec)
  BY <1>1, <1>2, InSectionIs DEF DataFit
<1>4. /\ Top.vec = vec /\ NextAt = i /\ i \in 1..Len(Now.constants)
      /\ vec \in DOMAIN elems /\ i \in 1..Len(elems[vec].items)
      /\ CutAt(file, pos, RecordWritten(Now, "constants", i) ++ (r ++ b))
      /\ r ++ b \in Pieces
  BY <1>1, <1>2, InSectionIs
<1>5. elems[Top.vec].items[NextAt].key.n = 1 <=> k = 0
  BY <1>3, <1>4, ConstantKey
<1>6. /\ k = 0 => elems' = Assign(head, vec, i, <<"value">>, pos + 4) /\ pos' = (pos + 4) + 1
      /\ k # 0 /\ ~HasValue(file[pos + 4].n) => elems' = head /\ pos' = pos + 5
      /\ k # 0 /\ HasValue(file[pos + 4].n) =>
           elems' = Assign(head, vec, i, <<"value">>, pos + 5) /\ pos' = (pos + 5) + 1
  BY <1>4, <1>5 DEF ReadConstant, ConstantHead
<1> HIDE DEF r, b
<1> DEFINE t == r ++ b
<1>7. CutAt(file, pos, RecordWritten(Now, "constants", i) ++ t) /\ t \in Pieces
  BY <1>4
<1> HIDE DEF t
<1>8. /\ k \in {0, 59} \cup 22..26
      /\ \E s \in Pieces : CutAt(file, pos, x ++ s)
      /\ k # 0 => file[pos + 4].n = k
      /\ k = 0 => CutAt(file, pos + 4, v ++ t) /\ CutAt(file, (pos + 4) + 1, t)
      /\ k = 22 => CutAt(file, pos + 5, t)
      /\ k \notin {0, 22} => CutAt(file, pos + 5, v ++ t) /\ CutAt(file, (pos + 5) + 1, t)
  BY <1>3, <1>4, <1>7, ConstantRead
<1>9. /\ HasValue(k) <=> k \notin {0, 22}
  BY <1>8 DEF HasValue
<1>11. Renewed(elems, head)
  <2>1. Stands(pos, x) /\ ConstantHead \in Seq(PlainNames)
    BY <1>8, PlainType DEF Stands
  <2> HIDE DEF vec, i
  <2> QED BY <1>3, <1>4, <2>1, AssignFits DEF x
<1>12. ASSUME NEW q, Stands(q, v)
       PROVE  Renewed(elems, Assign(head, vec, i, <<"value">>, q))
  <2> DEFINE names == <<"value">>
  <2>1. names \in Seq(PlainNames)
    BY PlainType
  <2>2. Stands(q, Fields(vec, i, names))
    BY <1>12
  <2> HIDE DEF vec, i, head, names
  <2>3. Renewed(elems, Assign(head, vec, i, names, q))
    BY <1>3, <1>4, <1>11, <2>1, <2>2, RenewedAssign
  <2> QED BY <2>3 DEF names
<1>13. Renewed(elems, elems') /\ CutAt(file, pos', t)
  <2> HIDE DEF head, v, x, vec, k, i
  <2>1. CASE k = 0
    <3>1. Stands(pos + 4, v)
      BY <1>7, <1>8, <2>1 DEF Stands
    <3> QED BY <1>6, <1>8, <1>12, <2>1, <3>1
  <2>2. CASE k = 22
    BY <1>6, <1>8, <1>9, <1>11, <2>2
  <2>3. CASE k \notin {0, 22}
    <3>1. Stands(pos + 5, v)
      BY <1>7, <1>8, <2>3 DEF Stands
    <3> QED BY <1>6, <1>8, <1>9, <1>12, <2>3, <3>1
  <2> QED BY <2>1, <2>2, <2>3
<1>14. CutAt(file, pos', From(Records(Now, "constants"), (Top.at + 1) + 1) ++ Behind(program, todo, check))
  BY <1>13 DEF t, r, b
<1> QED BY <1>2, <1>13, <1>14, PlainStep

LEMMA WindowKeeps ==
  ASSUME ReaderInv, ReadWindow
  PROVE  ReaderInv'
<1> DEFINE vec == Section("windows")
           i == Top.at + 1
           k == Now.windows[i]
           end == (pos + 6) + file[pos + 5].n
           p == (pos + 7) + file[pos + 4].n
           q == (p + 8) + file[p + 7].n
           head == Assign(elems, vec, i, WindowHead, pos)
           body == Assign(head, vec, i, WindowBody, p)
           full == Assign(body, vec, i, WindowTail(file[q + 1].n), q + 2)
           r == From(Records(Now, "windows"), i + 1)
           b == Behind(program, todo, check)
           t == r ++ b
           Fits(es) == Renewed(elems, es)
<1>1. "windows" \in Kinds
  BY DEF Kinds
<1>2. /\ InSection("windows") /\ UNCHANGED <<given, scanner, todo>> /\ maps' = maps
      /\ frames' = SetTop([Top EXCEPT !.at = NextAt])
  BY DEF ReadWindow
<1>3. IsContents(Now) /\ file \in Pieces /\ ElemsFit(elems) /\ Has(Now, elems, vec)
  BY <1>1, <1>2, InSectionIs DEF DataFit
<1>4. /\ Top.vec = vec /\ NextAt = i /\ i \in 1..Len(Now.windows)
      /\ vec \in DOMAIN elems /\ i \in 1..Len(elems[vec].items)
      /\ CutAt(file, pos, RecordWritten(Now, "windows", i) ++ t) /\ t \in Pieces
  BY <1>1, <1>2, InSectionIs
<1>5. elems' = (IF q + 4 > end THEN body ELSE full) /\ pos' = end
  <2>1. /\ elems' = LET h == Assign(elems, Top.vec, NextAt, WindowHead, pos)
                        o == pos + 6 + file[pos + 5].n
                        s == pos + 7 + file[pos + 4].n
                        c == Assign(h, Top.vec, NextAt, WindowBody, s)
                        e == s + 8 + file[s + 7].n
                    IN  IF e + 4 > o THEN c
                        ELSE Assign(c, Top.vec, NextAt, WindowTail(file[e + 1].n), e + 2)
        /\ pos' = pos + 6 + file[pos + 5].n
    BY DEF ReadWindow, WindowHead, WindowBody
  <2> QED BY <1>4, <2>1
<1> HIDE DEF r, b, t
<1>6. /\ k \in 0..7 /\ CutAt(file, end, t)
      /\ \E s \in Pieces : CutAt(file, pos, Fields(vec, i, WindowHead) ++ s)
      /\ \E s \in Pieces : CutAt(file, p, Fields(vec, i, WindowBody) ++ s)
      /\ k = 7 => q + 4 > end
      /\ k # 7 => /\ ~(q + 4 > end) /\ file[q + 1].n = k
                  /\ \E s \in Pieces : CutAt(file, q + 2, Fields(vec, i, WindowTail(k)) ++ s)
  <2> HIDE DEF k, end, p, q
  <2>1. WindowAt(Now, i, file, pos, t)
    BY <1>3, <1>4, WindowRead
  <2> QED BY <2>1 DEF k, end, p, q, WindowAt
<1> HIDE DEF i, k, end, p, q, vec
<1>8. ASSUME NEW es, Fits(es), NEW names \in Seq(PlainNames), NEW e, Stands(e, Fields(vec, i, names))
      PROVE  Fits(Assign(es, vec, i, names, e))
  BY <1>3, <1>4, <1>8, RenewedAssign
<1>9. WindowHead \in Seq(PlainNames) /\ WindowBody \in Seq(PlainNames) /\ WindowTail(k) \in Seq(PlainNames)
  BY <1>6, PlainType, TailType
<1>10. Fits(elems)
  BY <1>3, RenewedSame
<1> HIDE DEF Fits
<1>11. Fits(head)
  <2>1. Stands(pos, Fields(vec, i, WindowHead))
    BY <1>6 DEF Stands
  <2> QED BY <1>8, <1>9, <1>10, <2>1
<1> HIDE DEF head
<1>12. Fits(body)
  <2>1. Stands(p, Fields(vec, i, WindowBody))
    BY <1>6 DEF Stands
  <2> QED BY <1>8, <1>9, <1>11, <2>1
<1> HIDE DEF body
<1>13. k # 7 => Fits(full)
  <2> SUFFICES ASSUME k # 7 PROVE Fits(full)
    OBVIOUS
  <2>1. Stands(q + 2, Fields(vec, i, WindowTail(k))) /\ file[q + 1].n = k
    BY <1>6 DEF Stands
  <2>2. Fits(Assign(body, vec, i, WindowTail(k), q + 2))
    BY <1>8, <1>9, <1>12, <2>1
  <2> QED BY <2>1, <2>2
<1> HIDE DEF full
<1>14. Fits(elems')
  BY <1>5, <1>6, <1>12, <1>13
<1>15. CutAt(file, pos', From(Records(Now, "windows"), (Top.at + 1) + 1) ++ Behind(program, todo, check))
  BY <1>5, <1>6 DEF t, r, b, i
<1> QED BY <1>2, <1>14, <1>15, PlainStep DEF Fits

(* The lists of an element.                                                *)
LEMMA EnteredHas ==
  ASSUME NEW p, NEW es, NEW vec, vec[3] # "", Entered(p, es, vec), NEW x, Has(p, elems, x)
  PROVE  Has(p, es, x)
<1>1. CASE x = vec
  BY <1>1 DEF Entered
<1>2. CASE x # vec
  <2>1. x \in DOMAIN elems
    BY DEF Has
  <2>2. Keeps(elems, es, x)
    BY <1>2, <2>1 DEF Entered
  <2> QED BY <2>2, HasKept
<1> QED BY <1>1, <1>2

LEMMA TailNext ==
  ASSUME NEW E, NEW q \in Seq(E), NEW l \in TailsOf(q), l # <<>>
  PROVE  /\ Tail(l) \in TailsOf(q) /\ Len(Tail(l)) = Len(l) - 1 /\ l[1] = q[(Len(q) - Len(l)) + 1]
         /\ Len(l) \in 1..Len(q)
<1>1. /\ Tail(l) \in TailsOf(q) /\ Len(Tail(l)) = Len(l) - 1 /\ l[1] = q[(Len(q) - Len(l)) + 1]
      /\ Len(l) \in 0..Len(q) /\ Len(l) \in Nat \ {0} /\ Len(q) \in Nat
  BY TailsIs
<1> HIDE DEF TailsOf
<1> QED BY <1>1

LEMMA FrameListed ==
  ASSUME NEW p, NEW fr, NEW s \in Kinds, SectionFrame(p, fr, s), fr.lists # <<>>,
         NEW F, IsFrame(F), F.vec = fr.vec, F.at = fr.at, F.lists = Tail(fr.lists)
  PROVE  SectionFrame(p, F, s)
<1> DEFINE q == ListNames(s)
<1>1. fr.lists \in TailsOf(q) /\ fr.vec = Section(s) /\ fr.at \in 0..Len(p[s]) /\ fr.at # 0
  BY DEF SectionFrame
<1>2. q \in Seq(ListsOf(s))
  BY ListNamesType
<1>3. Tail(fr.lists) \in TailsOf(q)
  <2> DEFINE l == fr.lists
  <2>1. l \in TailsOf(q) /\ l # <<>>
    BY <1>1
  <2> HIDE DEF q, l
  <2>2. Tail(l) \in TailsOf(q)
    BY <1>2, <2>1, TailNext
  <2> QED BY <2>2 DEF l
<1> QED BY <1>1, <1>3 DEF SectionFrame

LEMMA ListStepIs ==
  ASSUME NEW p, IsContents(p), NEW fr, NEW s \in Kinds, SectionFrame(p, fr, s), fr.lists # <<>>,
         LoadedTo(p, elems, s, fr), fr.lists[1] # "", NEW es, Entered(p, es, <<s, fr.at, fr.lists[1]>>),
         NEW F, IsFrame(F), F.vec = fr.vec, F.at = fr.at, F.lists = Tail(fr.lists)
  PROVE  SectionFrame(p, F, s) /\ LoadedTo(p, es, s, F)
<1> DEFINE q == ListNames(s)
           l == fr.lists
           t == Tail(l)
<1>1. /\ l \in TailsOf(q) /\ l # <<>> /\ fr.vec = Section(s) /\ fr.at \in 0..Len(p[s]) /\ fr.at # 0
  BY DEF SectionFrame
<1>2. q \in Seq(ListsOf(s)) /\ Len(q) \in Nat
  BY ListNamesType
<1>3. /\ t \in TailsOf(q) /\ Len(t) = Len(l) - 1 /\ l[1] = q[(Len(q) - Len(l)) + 1] /\ Len(l) \in 1..Len(q)
  <2> HIDE DEF q, l
  <2>1. q \in Seq(ListsOf(s)) /\ l \in TailsOf(q) /\ l # <<>>
    BY <1>1, <1>2
  <2> QED BY ONLY <2>1, TailNext DEF t
<1>4. SectionFrame(p, F, s)
  BY <1>1, <1>3 DEF SectionFrame
<1>5. /\ Has(p, elems, Section(s))
      /\ \A i \in 1..fr.at : \A j \in 1..Len(q) :
           i < fr.at \/ j <= Len(q) - Len(l) => Has(p, elems, <<s, i, q[j]>>)
  BY DEF LoadedTo
<1>6. fr.at \in Nat
  <2> DEFINE m == Len(p[s])
             a == fr.at
  <2>1. m \in Nat
    BY KindsIs
  <2>2. a \in 0..m
    BY <1>1
  <2> HIDE DEF m, a
  <2>3. a \in Nat
    BY ONLY <2>1, <2>2
  <2> QED BY <2>3 DEF a
<1>7. ASSUME NEW x, Has(p, elems, x) PROVE Has(p, es, x)
  <2> DEFINE vec == <<s, fr.at, fr.lists[1]>>
  <2>1. vec[3] # "" /\ Entered(p, es, vec)
    OBVIOUS
  <2> HIDE DEF vec
  <2> QED BY <1>7, <2>1, EnteredHas
<1>8. ASSUME NEW i \in 1..fr.at, NEW j \in 1..Len(q), i < fr.at \/ j <= Len(q) - Len(t)
      PROVE  Has(p, es, <<s, i, q[j]>>)
  <2> HIDE DEF q, l, t
  <2>1. CASE i < fr.at \/ j <= Len(q) - Len(l)
    BY <1>5, <1>7, <2>1
  <2>2. CASE ~(i < fr.at \/ j <= Len(q) - Len(l))
    <3> DEFINE m == Len(q)
               k == Len(l)
               a == fr.at
    <3>1. m \in Nat /\ k \in 1..m /\ Len(t) = k - 1 /\ a \in Nat
      BY <1>2, <1>3, <1>6
    <3>2. i \in 1..a /\ j \in 1..m /\ (i < a \/ j <= m - Len(t)) /\ ~(i < a \/ j <= m - k)
      BY <1>8, <2>2
    <3> HIDE DEF m, k, a
    <3>3. i = a /\ j = (m - k) + 1
      BY ONLY <3>1, <3>2
    <3>4. q[j] = l[1]
      BY <1>3, <3>3 DEF m, k
    <3>5. Has(p, es, <<s, fr.at, fr.lists[1]>>)
      BY DEF Entered
    <3> QED BY <3>3, <3>4, <3>5 DEF l, a
  <2> QED BY <2>1, <2>2
<1>9. LoadedTo(p, es, s, F)
  BY <1>5, <1>8, <1>7 DEF LoadedTo
<1> QED BY <1>4, <1>9

LEMMA NextListIs ==
  ASSUME ReaderInv, NEW list, NextList(list)
  PROVE  LET s == todo[1]
             i == Top.at
             b == Behind(program, todo, check)
             t == RecordsRest(Now, s, i, Tail(Top.lists))
         IN  /\ todo # <<>> /\ s \in Kinds /\ frames = <<Top>> /\ SectionFrame(Now, Top, s)
             /\ Top.lists # <<>> /\ Top.lists[1] = list
             /\ i \in 1..Len(Now[s]) /\ list \in ListsOf(s)
             /\ ListName(list) = <<s, i, list>> /\ IsVec(Now, <<s, i, list>>)
             /\ LoadedTo(Now, elems, s, Top)
             /\ IsContents(Now) /\ check \in Nat /\ file \in Pieces /\ DataFit(elems, maps)
             /\ CutAt(file, pos, ListWritten(Now, s, i, list) ++ (t ++ b))
             /\ ListWritten(Now, s, i, list) \in Pieces /\ t \in Pieces /\ b \in Pieces /\ t ++ b \in Pieces
<1> DEFINE b == Behind(program, todo, check)
           s == todo[1]
           i == Top.at
           t == RecordsRest(Now, s, i, Tail(Top.lists))
           l == ListWritten(Now, s, i, list)
<1>1. frames # <<>> /\ Top.lists # <<>> /\ Top.lists[1] = list
  BY DEF NextList
<1>2. /\ todo # <<>> /\ PositionInv /\ IsContents(Now) /\ b \in Pieces
      /\ check \in Nat /\ file \in Pieces /\ DataFit(elems, maps)
      /\ CutAt(file, pos, StackRest(Now, frames) ++ b)
      /\ LoadedTo(Now, elems, s, frames[1])
  BY <1>1, LoopIs
<1>3. /\ frames = <<Top>> /\ Top = frames[1]
      /\ StackRest(Now, frames) = FrameRest(Now, Top) /\ OneFits(Now, pos, Top, s)
  <2>1. ~(TwoFit(Now, pos, frames, s) /\ Top = frames[2])
    BY <1>1 DEF TwoFit, VarFrame
  <2> QED BY <1>1, <2>1, LoopIs
<1>4. SectionFrame(Now, Top, s)
  BY <1>1, <1>3 DEF OneFits, VarFrame
<1>5. /\ s \in Kinds /\ Top.vec = Section(s) /\ Top.lists \in Seq(ListsOf(s)) /\ i \in 1..Len(Now[s])
      /\ FrameRest(Now, Top) = RecordsRest(Now, s, i, Top.lists)
  BY <1>1, <1>2, <1>4, SectionFrameIs
<1>6. /\ RecordsRest(Now, s, i, Top.lists) = l ++ t /\ l \in Pieces /\ t \in Pieces /\ list \in ListsOf(s)
  BY <1>1, <1>2, <1>5, ListRest
<1>7. CutAt(file, pos, (l ++ t) ++ b)
  BY <1>2, <1>3, <1>5, <1>6
<1>8. CutAt(file, pos, l ++ (t ++ b)) /\ t ++ b \in Pieces
  <2> HIDE DEF l, t, b
  <2> QED BY <1>2, <1>6, <1>7, Right2
<1>9. ListName(list) = <<s, i, list>>
  <2>1. Top.vec[1] = s
    <3>1. \A x : Section(x)[1] = x
      BY SectionIs
    <3> QED BY <1>5, <3>1
  <2> QED BY <2>1 DEF ListName
<1>10. IsVec(Now, <<s, i, list>>)
  BY <1>5, <1>6 DEF IsVec
<1>11. LoadedTo(Now, elems, s, Top)
  BY <1>2, <1>3
<1> HIDE DEF b, t, l
<1> QED BY <1>1, <1>2, <1>3, <1>4, <1>5, <1>6, <1>8, <1>9, <1>10, <1>11 DEF b, t, l

LEMMA SetOne ==
  ASSUME NEW y, frames = <<y>>, NEW z
  PROVE  SetTop(z) = <<z>>
BY Stacks DEF SetTop

LEMMA ListedIs ==
  ASSUME NEW fr, IsFrame(fr), NEW l, NEW F, F = Listed(fr, l)
  PROVE  IsFrame(F) /\ F.vec = fr.vec /\ F.at = fr.at /\ F.lists = l /\ F.past = fr.past
<1>1. F = [vec |-> fr.vec, at |-> fr.at, lists |-> l, past |-> fr.past]
  BY FrameSet
<1> QED BY <1>1, FrameMade

(* One of the lists without variables has been read.                       *)
LEMMA ListStep ==
  ASSUME ReaderInv, NEW list, NextList(list), list # "", UNCHANGED <<given, scanner, todo>>,
         frames' = SetTop(ListRead), maps' = maps,
         DataFit(elems', maps'), Entered(Now, elems', ListName(list)),
         CutAt(file, pos', RecordsRest(Now, todo[1], Top.at, Tail(Top.lists))
                           ++ Behind(program, todo, check))
  PROVE  ReaderInv'
<1> DEFINE s == todo[1]
           vec == <<s, Top.at, list>>
           F == [Top EXCEPT !.lists = Tail(Top.lists)]
<1>1. IsContents(Now)
  BY NextListIs
<1>2. /\ todo # <<>> /\ s \in Kinds /\ frames = <<Top>> /\ SectionFrame(Now, Top, s)
      /\ Top.lists # <<>> /\ Top.lists[1] = list /\ ListName(list) = vec
      /\ LoadedTo(Now, elems, s, Top)
  BY NextListIs
<1>3. Entered(Now, elems', vec)
  BY <1>2
<1>4. IsFrame(F) /\ F.vec = Top.vec /\ F.at = Top.at /\ F.lists = Tail(Top.lists)
  <2>1. IsFrame(Top)
    BY <1>2 DEF SectionFrame
  <2> DEFINE y == Top
             l == Tail(Top.lists)
  <2>2. F = Listed(y, l) /\ IsFrame(y)
    BY <2>1 DEF Listed
  <2> HIDE DEF F, y, l
  <2>3. IsFrame(F) /\ F.vec = y.vec /\ F.at = y.at /\ F.lists = l
    BY ONLY <2>2, ListedIs
  <2> QED BY <2>3 DEF y, l
<1>5. frames' = <<F>>
  <2> DEFINE y == Top
  <2>1. frames = <<y>> /\ ListRead = F
    BY <1>2 DEF ListRead
  <2> HIDE DEF F, y
  <2>2. SetTop(F) = <<F>>
    BY <2>1, SetOne
  <2> QED BY <2>1, <2>2
<1> HIDE DEF F
<1>6. SectionFrame(Now, F, s) /\ LoadedTo(Now, elems', s, F)
  <2> DEFINE es == elems'
             c == Now
             fr == Top
  <2>1. Entered(c, es, <<s, fr.at, fr.lists[1]>>) /\ fr.lists[1] # "" /\ IsContents(c)
    BY <1>1, <1>2, <1>3
  <2>2. SectionFrame(c, fr, s) /\ fr.lists # <<>> /\ LoadedTo(c, elems, s, fr)
        /\ IsFrame(F) /\ F.vec = fr.vec /\ F.at = fr.at /\ F.lists = Tail(fr.lists) /\ s \in Kinds
    BY <1>2, <1>4
  <2> HIDE DEF es, c, fr, s
  <2>3. SectionFrame(c, F, s) /\ LoadedTo(c, es, s, F)
    BY <2>1, <2>2, ListStepIs
  <2> QED BY <2>3 DEF es, c
<1>7. Others(elems, elems', s)
  <2> DEFINE es == elems'
             c == Now
  <2>1. Entered(c, es, vec) /\ vec[1] = s
    BY <1>3
  <2> HIDE DEF es, c, vec
  <2>2. Others(elems, es, s)
    BY <2>1, EnteredOthers
  <2> QED BY <2>2 DEF es
<1>8. CutAt(file, pos', RecordsRest(Now, s, F.at, F.lists) ++ Behind(program, todo, check))
  BY <1>4
<1> HIDE DEF vec
<1> QED BY <1>2, <1>3, <1>5, <1>6, <1>7, <1>8, SectionGoesOn

LEMMA IncludeKeeps ==
  ASSUME ReaderInv, ReadInclude
  PROVE  ReaderInv'
<1> DEFINE s == todo[1]
           i == Top.at
           vec == <<s, i, "include">>
           n == Now.modules[i]
           t == RecordsRest(Now, s, i, Tail(Top.lists))
           b == Behind(program, todo, check)
           x == Number(4 * n)
           y == Many(vec, "include", n)
           es == AssignEach(vec, "include", n, pos + 1)
<1>1. NextList("include") /\ UNCHANGED <<given, scanner, todo>> /\ frames' = SetTop(ListRead) /\ maps' = maps
  BY DEF ReadInclude
<1>2. IsContents(Now) /\ check \in Nat /\ file \in Pieces /\ DataFit(elems, maps)
  BY <1>1, NextListIs
<1>3. /\ s \in Kinds /\ i \in 1..Len(Now[s]) /\ "include" \in ListsOf(s)
      /\ ListName("include") = vec /\ IsVec(Now, vec)
      /\ CutAt(file, pos, ListWritten(Now, s, i, "include") ++ (t ++ b))
      /\ t \in Pieces /\ b \in Pieces /\ t ++ b \in Pieces
  BY <1>1, NextListIs
<1>4. s = "modules"
  BY <1>3, ListIs
<1>5. n \in Nat /\ vec \in Vecs /\ Size(Now, vec) = n
  <2>1. \A j \in 1..Len(Now["modules"]) : Now["modules"][j] \in Nat
    BY <1>2, ContentsIs
  <2>2. n \in Nat
    BY <1>3, <1>4, <2>1
  <2>3. Size(Now, <<s, i, "include">>) = Now[s][i]
    BY <1>2, <1>3, <1>4, ListSize
  <2>4. Now["modules"] = Now.modules
    OBVIOUS
  <2>5. vec \in Vecs
    BY <1>2, <1>3, VecType
  <2> QED BY <1>4, <2>2, <2>3, <2>4, <2>5
<1>6. ListWritten(Now, s, i, "include") = <<x>> ++ y
  BY DEF ListWritten, ++
<1>7. x \in Elem /\ x.n = 4 * n /\ y \in Pieces /\ Len(y) = n
      /\ \A k \in 1..n : y[k] = Field("include", vec, k, 0)
  <2>1. 4 * n \in Nat
    BY <1>5
  <2>2. x \in Elem /\ x.n = 4 * n
    BY <2>1, NumberIs
  <2>3. "include" \in Names
    BY DEF Names
  <2> HIDE DEF vec, n
  <2>4. y \in Pieces /\ Len(y) = n /\ \A k \in 1..n : y[k] = Field("include", vec, k, 0)
    BY <1>5, <2>3, ManyIs
  <2> QED BY <2>2, <2>4 DEF n, vec
<1>8. vec[3] = "include"
  OBVIOUS
<1> HIDE DEF x, y, t, b, vec, n
<1> DEFINE z == t ++ b
<1>9. CutAt(file, pos, (<<x>> ++ y) ++ z) /\ z \in Pieces
  BY <1>3, <1>6
<1> HIDE DEF z
<1>10. file[pos] = x /\ pos \in 1..Len(file) /\ Len(file) \in Nat /\ CutAt(file, pos + 1, y ++ z)
  BY <1>2, <1>7, <1>9, CutOneSplit
<1>11. CutAt(file, (pos + 1) + n, z) /\ \A k \in 1..n : file[((pos + 1) + k) - 1] = y[k]
  <2> DEFINE q == pos + 1
  <2>1. CutAt(file, q, y ++ z)
    BY <1>10
  <2> HIDE DEF q
  <2>2. CutAt(file, q + Len(y), z) /\ \A k \in 1..Len(y) : file[(q + k) - 1] = y[k]
    BY <1>2, <1>7, <1>9, <2>1, CutStep
  <2> QED BY <1>7, <2>2 DEF q
<1>12. file[pos].n \div 4 = n
  <2>1. (4 * n) \div 4 = n
    BY <1>5
  <2> QED BY <1>7, <1>10, <2>1
<1>13. elems' = es /\ pos' = (pos + 1) + n
  BY <1>3, <1>12 DEF ReadInclude
<1>14. EachAt(vec, n, "include", pos + 1)
  <2>1. ASSUME NEW k \in 1..n PROVE FieldFits(vec, k, "include", file[pos + 1 + k - 1])
    <3>1. pos + 1 + k - 1 = ((pos + 1) + k) - 1
      BY <1>5, <1>10
    <3>2. file[pos + 1 + k - 1] = Field("include", vec, k, 0)
      BY <1>7, <1>11, <3>1
    <3> QED BY <3>2, FieldIs DEF FieldFits
  <2> QED BY <1>5, <2>1 DEF EachAt
<1>15. DataFit(elems', maps') /\ Entered(Now, elems', vec)
  <2>1. ~Keyed(vec) /\ vec[3] # "code"
    BY <1>8 DEF Keyed, VarLists
  <2> DEFINE q == pos + 1
  <2>2. EachAt(vec, Size(Now, vec), "include", q) /\ IsVec(Now, vec)
    BY <1>3, <1>5, <1>14
  <2> HIDE DEF q
  <2>3. LET e == AssignEach(vec, "include", Size(Now, vec), q) IN DataFit(e, maps) /\ Entered(Now, e, vec)
    BY <1>2, <2>1, <2>2, EachFits
  <2> QED BY <1>1, <1>5, <1>13, <2>3 DEF q
<1>16. CutAt(file, pos', RecordsRest(Now, todo[1], Top.at, Tail(Top.lists)) ++ Behind(program, todo, check))
  BY <1>11, <1>13 DEF z, t, b
<1>17. DataFit(elems', maps') /\ Entered(Now, elems', ListName("include"))
  BY <1>3, <1>15
<1> QED BY <1>1, <1>16, <1>17, ListStep

LEMMA CodeKeeps ==
  ASSUME ReaderInv, ReadCode
  PROVE  ReaderInv'
<1> DEFINE s == todo[1]
           i == Top.at
           vec == <<s, i, "code">>
           t == RecordsRest(Now, s, i, Tail(Top.lists))
           b == Behind(program, todo, check)
           n == 6
           y == Many(vec, "code", n)
<1>1. NextList("code") /\ UNCHANGED <<given, scanner, todo>> /\ frames' = SetTop(ListRead) /\ maps' = maps
      /\ elems' = AssignEach(ListName("code"), "code", n, pos) /\ pos' = pos + n
  BY DEF ReadCode
<1>2. IsContents(Now) /\ check \in Nat /\ file \in Pieces /\ DataFit(elems, maps)
  BY <1>1, NextListIs
<1>3. /\ s \in Kinds /\ "code" \in ListsOf(s)
      /\ ListName("code") = vec /\ IsVec(Now, vec)
      /\ CutAt(file, pos, ListWritten(Now, s, i, "code") ++ (t ++ b))
      /\ t \in Pieces /\ b \in Pieces /\ t ++ b \in Pieces
  BY <1>1, NextListIs
<1>4. vec \in Vecs /\ Size(Now, vec) = n /\ n \in Nat
  <2>1. Size(Now, <<s, i, "code">>) = 6
    BY <1>2, <1>3, ListSize
  <2>2. vec \in Vecs
    BY <1>2, <1>3, VecType
  <2> QED BY <2>1, <2>2
<1>5. ListWritten(Now, s, i, "code") = y
  BY DEF ListWritten
<1>6. vec[3] = "code"
  OBVIOUS
<1> HIDE DEF n
<1>7. y \in Pieces /\ Len(y) = n /\ \A k \in 1..n : y[k] = Field("code", vec, k, 0)
  <2>1. "code" \in Names
    BY DEF Names
  <2> HIDE DEF vec
  <2> QED BY <1>4, <2>1, ManyIs
<1> HIDE DEF y, t, b, vec
<1> DEFINE z == t ++ b
<1>8. CutAt(file, pos, y ++ z) /\ z \in Pieces
  BY <1>3, <1>5
<1> HIDE DEF z
<1>9. CutAt(file, pos + n, z) /\ pos \in Nat /\ \A k \in 1..n : file[(pos + k) - 1] = y[k]
  <2>1. CutAt(file, pos + Len(y), z) /\ pos \in Nat /\ \A k \in 1..Len(y) : file[(pos + k) - 1] = y[k]
    BY <1>2, <1>7, <1>8, CutStep
  <2> QED BY <1>7, <2>1
<1>10. EachAt(vec, n, "code", pos)
  <2>1. ASSUME NEW k \in 1..n PROVE FieldFits(vec, k, "code", file[pos + k - 1])
    <3>1. pos + k - 1 = (pos + k) - 1
      BY <1>4, <1>9
    <3>2. file[pos + k - 1] = Field("code", vec, k, 0)
      BY <1>7, <1>9, <3>1
    <3> QED BY <3>2, FieldIs DEF FieldFits
  <2> QED BY <1>4, <2>1 DEF EachAt
<1>11. DataFit(elems', maps') /\ Entered(Now, elems', ListName("code"))
  <2>1. ~Keyed(vec)
    BY <1>6 DEF Keyed, VarLists
  <2>2. EachAt(vec, Size(Now, vec), "code", pos) /\ Size(Now, vec) = 6
    BY <1>4, <1>10 DEF n
  <2>3. LET e == AssignEach(vec, "code", Size(Now, vec), pos) IN DataFit(e, maps) /\ Entered(Now, e, vec)
    BY <1>2, <1>3, <2>1, <2>2, EachFits
  <2> QED BY <1>1, <1>3, <1>4, <2>3
<1>12. CutAt(file, pos', RecordsRest(Now, todo[1], Top.at, Tail(Top.lists)) ++ Behind(program, todo, check))
  BY <1>1, <1>9 DEF z, t, b
<1> QED BY <1>1, <1>11, <1>12, ListStep

(* A loop over the variables of an element is opened: there are two then.  *)
LEMMA TwoFrames ==
  ASSUME NEW x, NEW y, NEW fr, fr = <<x, y>>
  PROVE  fr # <<>> /\ Len(fr) = 2 /\ fr[1] = x /\ fr[2] = y /\ fr = <<fr[1], fr[2]>>
OBVIOUS

LEMMA TwoGoOn ==
  ASSUME ReaderInv, todo # <<>>, NEW s \in Kinds, todo[1] = s, UNCHANGED <<given, scanner, todo>>,
         NEW F, NEW G, frames' = <<F, G>>, SectionFrame(Now, F, s), F.at # 0,
         VarFrame(Now, G, pos'), NEW list \in ListsOf(s), G.vec = <<s, F.at, list>>,
         CutAt(file, pos', (FrameRest(Now, G) ++ FrameRest(Now, F)) ++ Behind(program, todo, check)),
         DataFit(elems', maps'), Others(elems, elems', s), Has(Now, elems', G.vec), LoadedTo(Now, elems', s, F)
  PROVE  ReaderInv'
<1>1. PositionInv /\ LoadedInv
  BY ReaderIs
<1>2. frames' # <<>> /\ Len(frames') = 2 /\ frames'[1] = F /\ frames'[2] = G /\ frames' = <<frames'[1], frames'[2]>>
  <2> DEFINE fr == frames'
  <2>1. fr = <<F, G>>
    OBVIOUS
  <2> HIDE DEF fr
  <2>2. fr # <<>> /\ Len(fr) = 2 /\ fr[1] = F /\ fr[2] = G /\ fr = <<fr[1], fr[2]>>
    BY <2>1, TwoFrames
  <2> QED BY <2>2 DEF fr
<1>3. FramesFit(Now, pos', frames', todo[1])
  <2>1. \E l \in ListsOf(s) : frames'[2].vec = <<s, frames'[1].at, l>>
    BY <1>2
  <2> QED BY <1>2, <2>1, Zenon DEF FramesFit
<1>4. StackRest(Now, frames') = FrameRest(Now, G) ++ FrameRest(Now, F)
  BY <1>2 DEF StackRest, ++
<1>5. PositionInv'
  BY <1>1, <1>2, <1>3, <1>4, LoopGoesOn
<1>6. FramesLoaded(Now, elems', todo, frames')
  BY <1>2 DEF FramesLoaded
<1>7. LoadedInv'
  BY <1>1, <1>2, <1>6, LoopLoads
<1> QED BY <1>5, <1>7, ReaderNext

LEMMA ListVars ==
  ASSUME NEW p, NEW s, NEW i, NEW list \in VarLists
  PROVE  LET vec == <<s, i, list>> IN
         /\ ListWritten(p, s, i, list) = VarsWritten(vec, Size(p, vec), p.pad)
         /\ IsVars(vec) /\ Keyed(vec) /\ vec[3] # "code" /\ vec # Section("windows")
         /\ \A x : Section(x) # vec /\ vec[3] # ""
         /\ \A k : KeyOf(p, vec, k) = Field("key", vec, k, 0)
<1> DEFINE vec == <<s, i, list>>
<1>1. list # "include" /\ list # "code" /\ list # ""
  BY DEF VarLists
<1>2. ListWritten(p, s, i, list) = VarsWritten(vec, Size(p, vec), p.pad)
  BY <1>1 DEF ListWritten
<1>3. vec[3] = list
  OBVIOUS
<1> HIDE DEF vec
<1>4. IsVars(vec) /\ Keyed(vec) /\ vec[3] # "code"
  BY <1>1, <1>3 DEF IsVars, Keyed
<1>5. \A x : Section(x) # vec
  <2>1. \A x : Section(x)[3] = ""
    BY SectionIs
  <2> HIDE DEF Section
  <2> QED BY <1>1, <1>3, <2>1
<1>6. \A k : KeyOf(p, vec, k) = Field("key", vec, k, 0)
  BY <1>5 DEF KeyOf
<1> QED BY <1>1, <1>2, <1>3, <1>4, <1>5, <1>6 DEF vec

LEMMA VarsKeep ==
  ASSUME ReaderInv, NEW list \in VarLists, OpenVars(list)
  PROVE  ReaderInv'
<1> DEFINE s == todo[1]
           i == Top.at
           vec == <<s, i, list>>
           t == RecordsRest(Now, s, i, Tail(Top.lists))
           b == Behind(program, todo, check)
           r == t ++ b
           q == pos + 2
           n == Size(Now, vec)
           G == Frame(vec, pos + 2 + file[pos + 1].n)
           F == [Top EXCEPT !.lists = Tail(Top.lists)]
           e == q + 2 * n
<1>1. /\ NextList(list) /\ OpenVector(ListName(list), file[pos].n, q)
      /\ frames' = Append(SetTop(F), Frame(ListName(list), pos + 2 + file[pos + 1].n))
      /\ UNCHANGED <<given, scanner, todo>>
  BY DEF OpenVars, Past, ListRead
<1>2. IsContents(Now) /\ check \in Nat /\ file \in Pieces /\ DataFit(elems, maps)
  BY <1>1, NextListIs
<1>3. /\ todo # <<>> /\ s \in Kinds /\ frames = <<Top>> /\ SectionFrame(Now, Top, s)
      /\ Top.lists # <<>> /\ Top.lists[1] = list /\ i \in 1..Len(Now[s]) /\ list \in ListsOf(s)
      /\ ListName(list) = vec /\ IsVec(Now, vec) /\ LoadedTo(Now, elems, s, Top)
      /\ CutAt(file, pos, ListWritten(Now, s, i, list) ++ r)
      /\ t \in Pieces /\ b \in Pieces /\ r \in Pieces
  BY <1>1, NextListIs
<1>4. /\ ListWritten(Now, s, i, list) = VarsWritten(vec, n, Now.pad)
      /\ IsVars(vec) /\ Keyed(vec) /\ vec[3] # "code" /\ vec # Section("windows")
      /\ \A x : Section(x) # vec
      /\ \A k : KeyOf(Now, vec, k) = Field("key", vec, k, 0)
  BY ListVars
<1>5. /\ IsFrame(F) /\ F.vec = Top.vec /\ F.at = i /\ F.lists = Tail(Top.lists)
  <2>1. IsFrame(Top)
    BY <1>3 DEF SectionFrame
  <2> DEFINE y == Top
             l == Tail(Top.lists)
  <2>2. F = Listed(y, l) /\ IsFrame(y)
    BY <2>1 DEF Listed
  <2> HIDE DEF F, y, l
  <2>3. IsFrame(F) /\ F.vec = y.vec /\ F.at = y.at /\ F.lists = l
    BY ONLY <2>2, ListedIs
  <2> QED BY <2>3 DEF y, l
<1>6. frames' = <<F, G>>
  <2> DEFINE y == Top
  <2>1. frames = <<y>> /\ frames' = Append(SetTop(F), G)
    BY <1>1, <1>3
  <2> HIDE DEF F, G, y
  <2>2. SetTop(F) = <<F>>
    BY ONLY <2>1, SetOne
  <2>3. Append(<<F>>, G) = <<F, G>>
    BY Stacks
  <2> QED BY <2>1, <2>2, <2>3
<1> HIDE DEF F
<1>7. SectionFrame(Now, F, s)
  <2> DEFINE fr == Top
             c == Now
  <2>1. SectionFrame(c, fr, s) /\ fr.lists # <<>> /\ IsContents(c)
        /\ IsFrame(F) /\ F.vec = fr.vec /\ F.at = fr.at /\ F.lists = Tail(fr.lists) /\ s \in Kinds
    BY <1>2, <1>3, <1>5
  <2> HIDE DEF c, fr, s
  <2>2. SectionFrame(c, F, s)
    BY <2>1, FrameListed
  <2> QED BY <2>2 DEF c
<1>8. FrameRest(Now, F) = t /\ F.at # 0
  <2>1. FrameRest(Now, F) = RecordsRest(Now, s, F.at, F.lists)
    BY <1>2, <1>7, SectionFrameIs
  <2>2. i # 0
    BY <1>3
  <2> QED BY <1>5, <2>1, <2>2
<1> HIDE DEF r, n, t, b
<1>9. CutAt(file, pos, VarsWritten(vec, Size(Now, vec), Now.pad) ++ r)
  BY <1>3, <1>4 DEF n
<1> HIDE DEF vec
<1>10. /\ file[pos].n = Size(Now, vec)
       /\ \A k \in 1..Size(Now, vec) : file[q + k - 1] = Field("key", vec, k, 0)
       /\ VarFrame(Now, G, q + 2 * Size(Now, vec)) /\ FrameRest(Now, G) \in Pieces
       /\ CutAt(file, q + 2 * Size(Now, vec), FrameRest(Now, G) ++ r)
  BY <1>2, <1>3, <1>4, <1>9, VarsOpened
<1>11. \A k \in 1..Size(Now, vec) : file[q + k - 1] = KeyOf(Now, vec, k)
  BY <1>4, <1>10
<1>12. OpenVector(vec, Size(Now, vec), q)
  BY <1>1, <1>3, <1>10
<1>13. G.vec = vec
  BY FrameIs
<1> HIDE DEF q, G, F
<1>14. DataFit(elems', maps') /\ Entered(Now, elems', vec) /\ pos' = q + 2 * Size(Now, vec)
  <2>1. IsVec(Now, vec) /\ Keyed(vec) /\ vec[3] # "code"
    BY <1>3, <1>4
  <2> QED BY <1>2, <1>11, <1>12, <2>1, OpenFits
<1>15. CutAt(file, pos', (FrameRest(Now, G) ++ FrameRest(Now, F)) ++ Behind(program, todo, check))
  <2>1. FrameRest(Now, G) ++ r = (FrameRest(Now, G) ++ t) ++ b
    BY <1>3, <1>10, Assoc DEF r
  <2> QED BY <1>8, <1>10, <1>14, <2>1 DEF b
<1>16. VarFrame(Now, G, pos') /\ G.vec = <<s, F.at, list>>
  BY <1>5, <1>10, <1>13, <1>14 DEF vec
<1>17. Others(elems, elems', s)
  <2> DEFINE es == elems'
             c == Now
  <2>1. vec[1] = s
    BY DEF vec
  <2>2. Entered(c, es, vec)
    BY <1>14
  <2> HIDE DEF es, c
  <2>3. Others(elems, es, s)
    BY <2>1, <2>2, EnteredOthers
  <2> QED BY <2>3 DEF es
<1>18. LoadedTo(Now, elems', s, F)
  <2> DEFINE es == elems'
             c == Now
             fr == Top
  <2>1. Entered(c, es, <<s, fr.at, fr.lists[1]>>) /\ fr.lists[1] # "" /\ IsContents(c)
    BY <1>2, <1>3, <1>4, <1>14 DEF vec, VarLists
  <2>2. SectionFrame(c, fr, s) /\ fr.lists # <<>> /\ LoadedTo(c, elems, s, fr)
        /\ IsFrame(F) /\ F.vec = fr.vec /\ F.at = fr.at /\ F.lists = Tail(fr.lists) /\ s \in Kinds
    BY <1>3, <1>5
  <2> HIDE DEF es, c, fr, s
  <2>3. LoadedTo(c, es, s, F)
    BY <2>1, <2>2, ListStepIs
  <2> QED BY <2>3 DEF es, c
<1>19. Has(Now, elems', G.vec)
  BY <1>13, <1>14 DEF Entered
<1> QED BY <1>1, <1>3, <1>6, <1>7, <1>8, <1>14, <1>15, <1>16, <1>17, <1>18, <1>19, TwoGoOn

(* The loop over the variables of a list.                                  *)
InGlobals ==
  /\ todo[1] = "globals" /\ frames = <<Top>> /\ Top.vec = Section("globals")
  /\ CutAt(file, pos, FrameRest(Now, Top) ++ Behind(program, todo, check))
InElement ==
  /\ todo[1] \in Kinds /\ frames = <<frames[1], Top>> /\ SectionFrame(Now, frames[1], todo[1])
  /\ frames[1].at # 0 /\ \E list \in ListsOf(todo[1]) : Top.vec = <<todo[1], frames[1].at, list>>
  /\ FrameRest(Now, frames[1]) \in Pieces
  /\ FrameRest(Now, frames[1]) ++ Behind(program, todo, check) \in Pieces
  /\ CutAt(file, pos, FrameRest(Now, Top) ++ (FrameRest(Now, frames[1]) ++ Behind(program, todo, check)))

LEMMA VarTop ==
  ASSUME ReaderInv, frames # <<>>, IsVars(Top.vec)
  PROVE  /\ VarFrame(Now, Top, pos) /\ Has(Now, elems, Top.vec) /\ FrameRest(Now, Top) \in Pieces
         /\ LoadedTo(Now, elems, todo[1], frames[1]) /\ todo # <<>>
         /\ InGlobals \/ InElement
<1> DEFINE b == Behind(program, todo, check)
           s == todo[1]
<1>1. /\ todo # <<>> /\ IsContents(Now) /\ b \in Pieces
      /\ CutAt(file, pos, StackRest(Now, frames) ++ b)
      /\ LoadedTo(Now, elems, s, frames[1])
      /\ \/ /\ frames = <<frames[1]>> /\ Top = frames[1]
            /\ StackRest(Now, frames) = FrameRest(Now, Top) /\ FrameRest(Now, Top) \in Pieces
            /\ OneFits(Now, pos, Top, s)
         \/ /\ frames = <<frames[1], frames[2]>> /\ Top = frames[2]
            /\ StackRest(Now, frames) = FrameRest(Now, Top) ++ FrameRest(Now, frames[1])
            /\ TwoFit(Now, pos, frames, s) /\ Has(Now, elems, Top.vec)
            /\ FrameRest(Now, Top) \in Pieces /\ FrameRest(Now, frames[1]) \in Pieces
  BY LoopIs
<1>2. CASE /\ frames = <<frames[1]>> /\ Top = frames[1]
           /\ StackRest(Now, frames) = FrameRest(Now, Top) /\ FrameRest(Now, Top) \in Pieces
           /\ OneFits(Now, pos, Top, s)
  <2>1. ~SectionFrame(Now, Top, s)
    <3>1. SectionFrame(Now, Top, s) => s \in Kinds /\ Top.vec = Section(s)
      BY DEF SectionFrame
    <3> QED BY <3>1, NotVars
  <2>2. s = "globals" /\ Top.vec = Section(s) /\ VarFrame(Now, Top, pos)
    BY <1>2, <2>1 DEF OneFits
  <2>3. Has(Now, elems, Top.vec)
    BY <1>1, <2>2 DEF LoadedTo
  <2>4. InGlobals
    BY <1>1, <1>2, <2>2 DEF InGlobals
  <2> QED BY <1>1, <1>2, <2>2, <2>3, <2>4
<1>3. CASE /\ frames = <<frames[1], frames[2]>> /\ Top = frames[2]
           /\ StackRest(Now, frames) = FrameRest(Now, Top) ++ FrameRest(Now, frames[1])
           /\ TwoFit(Now, pos, frames, s) /\ Has(Now, elems, Top.vec)
           /\ FrameRest(Now, Top) \in Pieces /\ FrameRest(Now, frames[1]) \in Pieces
  <2> DEFINE x == FrameRest(Now, Top)
             y == FrameRest(Now, frames[1])
  <2>1. CutAt(file, pos, (x ++ y) ++ b) /\ x \in Pieces /\ y \in Pieces
    BY <1>1, <1>3
  <2> HIDE DEF x, y, b
  <2>2. CutAt(file, pos, x ++ (y ++ b)) /\ y ++ b \in Pieces
    BY <1>1, <2>1, Right2
  <2>3. SectionFrame(Now, frames[1], s) /\ s \in Kinds /\ VarFrame(Now, Top, pos)
        /\ frames[1].at # 0 /\ \E list \in ListsOf(s) : Top.vec = <<s, frames[1].at, list>>
    BY <1>3 DEF TwoFit, SectionFrame
  <2>4. InElement
    BY <1>3, <2>1, <2>2, <2>3 DEF InElement, x, y, b
  <2> QED BY <1>1, <1>3, <2>3, <2>4
<1> QED BY <1>1, <1>2, <1>3

LEMMA VarStep ==
  ASSUME ReaderInv, ReadVar, VarFrame(Now, Top, pos), Has(Now, elems, Top.vec), NEW r \in Pieces,
         CutAt(file, pos, FrameRest(Now, Top) ++ r), NEW F, F = Moved(Top, NextAt)
  PROVE  /\ VarFrame(Now, F, pos') /\ F.vec = Top.vec /\ FrameRest(Now, F) \in Pieces
         /\ CutAt(file, pos', FrameRest(Now, F) ++ r)
         /\ DataFit(elems', maps') /\ Renewed(elems, elems')
<1> DEFINE vec == Top.vec
           n == Size(Now, vec)
           i == Top.at + 1
           d == Now.pad
           x == VarWritten(vec, i, d)
           y == VarsRest(Now, vec, i)
           one == <<"type", "property">>
           two == <<"name", "comment">>
           q == (pos + 4) + file[pos + 3].n
           es == Assign(elems, vec, i, one, pos + 1)
<1>1. IsContents(Now) /\ file \in Pieces /\ DataFit(elems, maps) /\ ElemsFit(elems)
  <2>1. frames # <<>>
    BY DEF ReadVar
  <2> QED BY <2>1, LoopIs DEF DataFit
<1>2. /\ Top.at < Len(elems[Top.vec].items) /\ NextAt = i /\ maps' = maps
      /\ elems' = Assign(es, vec, i, two, q) /\ pos' = (pos + 1) + file[pos].n
  BY DEF ReadVar, NextVar, NextAt
<1>3. /\ IsFrame(Top) /\ IsVars(vec) /\ IsVec(Now, vec) /\ Top.at \in 0..n /\ n \in Nat /\ Top.lists = <<>>
      /\ Top.past = pos + Len(FrameRest(Now, Top))
      /\ FrameRest(Now, Top) = VarsRest(Now, vec, Top.at)
  BY <1>1, VarFrameIs DEF VarFrame
<1>4. Len(elems[Top.vec].items) = n
  BY <1>1, ItemsLen
<1>5. Top.at \in 0..(n - 1) /\ i \in 1..n /\ i \in Nat \ {0} /\ i \in 0..n
  BY <1>2, <1>3, <1>4
<1>6. /\ vec \in Vecs /\ d \in Nat /\ x \in Pieces /\ y \in Pieces
      /\ VarsRest(Now, vec, Top.at) = x ++ y
  <2>1. /\ vec \in Vecs /\ d \in Nat
        /\ \A at \in 0..(n - 1) :
              /\ VarWritten(vec, at + 1, d) \in Pieces /\ VarsRest(Now, vec, at + 1) \in Pieces
              /\ VarsRest(Now, vec, at) = VarWritten(vec, at + 1, d) ++ VarsRest(Now, vec, at + 1)
    BY <1>1, <1>3, VarsRestIs
  <2> QED BY <1>5, <2>1
<1>7. /\ F = [vec |-> vec, at |-> i, lists |-> <<>>, past |-> Top.past]
  BY <1>2, <1>3, FrameSet
<1>8. IsFrame(F) /\ F.vec = vec /\ F.at = i /\ F.lists = <<>> /\ F.past = Top.past
  BY <1>7, FrameMade
<1>9. FrameRest(Now, F) = y
  <2>1. IsVars(F.vec)
    BY <1>3, <1>8
  <2> QED BY <1>8, <2>1 DEF FrameRest, VarsRest, ++
<1>10. CutAt(file, pos, (x ++ y) ++ r)
  BY <1>3, <1>6
<1> HIDE DEF x, y, n, d, vec, i
<1> DEFINE z == y ++ r
<1>11. CutAt(file, pos, x ++ z) /\ z \in Pieces
  BY <1>6, <1>10, Right2
<1> HIDE DEF z
<1>12. /\ pos \in Nat \ {0} /\ Len(x) \in Nat
       /\ CutAt(file, (pos + 1) + file[pos].n, z)
       /\ (pos + 1) + file[pos].n = pos + Len(x)
       /\ \E s, t \in Pieces :
              /\ CutAt(file, pos + 1, Fields(vec, i, one) ++ s)
              /\ CutAt(file, q, Fields(vec, i, two) ++ t)
  <2>1. vec \in Vecs /\ i \in Nat \ {0} /\ d \in Nat /\ CutAt(file, pos, VarWritten(vec, i, d) ++ z)
    BY <1>5, <1>6, <1>11 DEF x
  <2>2. Len(x) = Len(VarWritten(vec, i, d))
    BY DEF x
  <2> QED BY <1>1, <1>11, <2>1, <2>2, VarReads
<1>13. VarFrame(Now, F, pos')
  <2>1. Len(x ++ y) = Len(x) + Len(y) /\ Len(y) \in Nat
    BY <1>6, ConcatIs
  <2>2. F.past = pos' + Len(y)
    BY <1>2, <1>3, <1>6, <1>8, <1>12, <2>1
  <2>3. F.at \in 0..Size(Now, F.vec)
    BY <1>5, <1>8 DEF n
  <2>4. IsVars(F.vec) /\ IsVec(Now, F.vec)
    BY <1>3, <1>8
  <2> QED BY <1>8, <1>9, <2>2, <2>3, <2>4 DEF VarFrame
<1>14. CutAt(file, pos', FrameRest(Now, F) ++ r)
  BY <1>2, <1>9, <1>12 DEF z
<1>15. Stands(pos + 1, Fields(vec, i, one)) /\ Stands(q, Fields(vec, i, two))
  BY <1>12 DEF Stands
<1>16. one \in Seq(PlainNames) /\ two \in Seq(PlainNames)
  BY PlainType
<1> HIDE DEF one, two, q
<1>17. vec \in DOMAIN elems /\ i \in 1..Len(elems[vec].items)
  BY <1>1, <1>4, <1>5, ItemsLen DEF vec, n
<1>18. Renewed(elems, es)
  BY <1>1, <1>15, <1>16, <1>17, AssignFits
<1> HIDE DEF es
<1>19. Renewed(elems, elems')
  BY <1>1, <1>2, <1>15, <1>16, <1>17, <1>18, RenewedAssign
<1>20. DataFit(elems', maps')
  BY <1>1, <1>2, <1>19 DEF DataFit, Renewed
<1> QED BY <1>6, <1>8, <1>9, <1>13, <1>14, <1>19, <1>20 DEF vec

LEMMA GlobalsGoOn ==
  ASSUME ReaderInv, todo # <<>>, todo[1] = "globals", UNCHANGED <<given, scanner, todo>>,
         NEW F, frames' = <<F>>, F.vec = Section("globals"), VarFrame(Now, F, pos'),
         CutAt(file, pos', FrameRest(Now, F) ++ Behind(program, todo, check)),
         DataFit(elems', maps'), Renewed(elems, elems'), Has(Now, elems, Section("globals"))
  PROVE  ReaderInv'
<1>1. PositionInv /\ LoadedInv
  BY ReaderIs
<1>2. frames' # <<>> /\ Len(frames') = 1 /\ frames'[1] = F /\ frames' = <<frames'[1]>>
  BY OneFrame
<1>3. FramesFit(Now, pos', frames', todo[1])
  BY <1>2 DEF FramesFit
<1>4. StackRest(Now, frames') = FrameRest(Now, F)
  BY <1>2 DEF StackRest
<1>5. PositionInv'
  BY <1>1, <1>2, <1>3, <1>4, LoopGoesOn
<1>6. FramesLoaded(Now, elems', todo, frames')
  <2>1. ListNames("globals") = <<>>
    BY DEF ListNames
  <2>2. Len(<<>>) = 0
    OBVIOUS
  <2>3. Has(Now, elems', Section("globals"))
    BY RenewedHas
  <2>4. LoadedTo(Now, elems', "globals", F)
    BY <2>1, <2>2, <2>3 DEF LoadedTo
  <2> QED BY <1>2, <2>4 DEF FramesLoaded
<1>7. LoadedInv'
  <2>1. Others(elems, elems', "globals")
    BY RenewedOthers
  <2> QED BY <1>1, <1>6, <2>1, LoopLoads
<1> QED BY <1>5, <1>7, ReaderNext

LEMMA VarKeeps ==
  ASSUME ReaderInv, ReadVar
  PROVE  ReaderInv'
<1> DEFINE b == Behind(program, todo, check)
           y == FrameRest(Now, frames[1])
           F == Moved(Top, NextAt)
           s == todo[1]
           f == frames[1]
<1>1. frames # <<>> /\ IsVars(Top.vec) /\ frames' = SetTop(F) /\ UNCHANGED <<given, scanner, todo>>
  BY DEF ReadVar, Moved
<1>2. /\ VarFrame(Now, Top, pos) /\ Has(Now, elems, Top.vec) /\ todo # <<>>
      /\ LoadedTo(Now, elems, s, f) /\ (InGlobals \/ InElement)
  BY <1>1, VarTop
<1>3. b \in Pieces
  BY <1>1, LoopIs
<1>4. CASE InGlobals
  <2>1. /\ s = "globals" /\ frames = <<Top>> /\ Top.vec = Section("globals")
        /\ CutAt(file, pos, FrameRest(Now, Top) ++ b)
    BY <1>4 DEF InGlobals
  <2>2. frames' = <<F>>
    <3> DEFINE t == Top
    <3>1. frames = <<t>>
      BY <2>1
    <3> HIDE DEF t, F
    <3>2. SetTop(F) = <<F>>
      BY <3>1, SetOne
    <3> QED BY <1>1, <3>2
  <2> HIDE DEF F, b
  <2>3. /\ VarFrame(Now, F, pos') /\ F.vec = Top.vec
        /\ CutAt(file, pos', FrameRest(Now, F) ++ b)
        /\ DataFit(elems', maps') /\ Renewed(elems, elems')
    BY <1>2, <1>3, <2>1, VarStep DEF F
  <2> QED BY <1>1, <1>2, <2>1, <2>2, <2>3, GlobalsGoOn DEF b
<1>5. CASE InElement
  <2>1. /\ s \in Kinds /\ frames = <<f, Top>> /\ SectionFrame(Now, f, s) /\ f.at # 0
        /\ y \in Pieces /\ y ++ b \in Pieces
        /\ CutAt(file, pos, FrameRest(Now, Top) ++ (y ++ b))
    BY <1>5 DEF InElement
  <2>2. PICK list \in ListsOf(s) : Top.vec = <<s, f.at, list>>
    BY <1>5 DEF InElement
  <2>3. frames' = <<f, F>>
    <3> DEFINE t == Top
               g == f
    <3>1. frames = <<g, t>>
      BY <2>1
    <3> HIDE DEF t, F, g, f
    <3>2. SetTop(F) = <<g, F>>
      BY ONLY <3>1, Stacks DEF SetTop
    <3> QED BY <1>1, <3>2 DEF g
  <2> HIDE DEF F, b, y, f
  <2> DEFINE r == y ++ b
  <2>4. r \in Pieces /\ CutAt(file, pos, FrameRest(Now, Top) ++ r)
    BY <2>1
  <2> HIDE DEF r
  <2>5. /\ VarFrame(Now, F, pos') /\ F.vec = Top.vec /\ FrameRest(Now, F) \in Pieces
        /\ CutAt(file, pos', FrameRest(Now, F) ++ r)
        /\ DataFit(elems', maps') /\ Renewed(elems, elems')
    BY <1>2, <2>4, VarStep DEF F
  <2>6. CutAt(file, pos', (FrameRest(Now, F) ++ y) ++ b)
    <3>1. (FrameRest(Now, F) ++ y) ++ b = FrameRest(Now, F) ++ r
      BY <1>3, <2>1, <2>5, Assoc DEF r
    <3> QED BY <2>5, <3>1
  <2>7. F.vec = <<s, f.at, list>> /\ Has(Now, elems', F.vec)
    <3> DEFINE c == Now
               es == elems'
               v == F.vec
    <3>1. Has(c, elems, v) /\ Renewed(elems, es)
      BY <1>2, <2>5
    <3> HIDE DEF c, es, v
    <3>2. Has(c, es, v)
      BY <3>1, RenewedHas
    <3> QED BY <2>2, <2>5, <3>2 DEF c, es, v
  <2>8. LoadedTo(Now, elems', s, f) /\ Others(elems, elems', s)
    <3> DEFINE c == Now
               es == elems'
    <3>1. LoadedTo(c, elems, s, f) /\ Renewed(elems, es)
      BY <1>2, <2>5
    <3> HIDE DEF c, es, s
    <3>2. LoadedTo(c, es, s, f) /\ Others(elems, es, s)
      BY <3>1, RenewedLoaded, RenewedOthers
    <3> QED BY <3>2 DEF c, es
  <2>9. CutAt(file, pos', (FrameRest(Now, F) ++ FrameRest(Now, f)) ++ Behind(program, todo, check))
    BY <2>6 DEF y, b, f
  <2> HIDE DEF s
  <2> QED BY <1>1, <1>2, <2>1, <2>3, <2>5, <2>7, <2>8, <2>9, TwoGoOn DEF s
<1> QED BY <1>2, <1>4, <1>5

(* The end of a loop.                                                      *)
LEMMA CloseKeeps ==
  ASSUME ReaderInv, CloseVector
  PROVE  ReaderInv'
<1> DEFINE b == Behind(program, todo, check)
           s == todo[1]
           f == frames[1]
           t == Top
           y == FrameRest(Now, f)
<1>1. /\ frames # <<>> /\ t.lists = <<>> /\ t.at = Len(elems[t.vec].items)
      /\ frames' = Front(frames) /\ pos' = Leave
      /\ todo' = (IF Len(frames) = 1 THEN Tail(todo) ELSE todo)
      /\ UNCHANGED <<given, scanner>> /\ elems' = elems /\ maps' = maps
  BY DEF CloseVector
<1>2. /\ PositionInv /\ LoadedInv /\ IsContents(Now) /\ file \in Pieces /\ DataFit(elems, maps)
      /\ DataFit(elems', maps') /\ ElemsFit(elems) /\ \A u : Others(elems, elems', u)
  BY <1>1, LoopIs, KeepsSame DEF DataFit, Others
<1>3. b \in Pieces /\ todo # <<>>
  BY <1>1, LoopIs
<1>4. CASE IsVars(t.vec)
  <2>1. /\ VarFrame(Now, t, pos) /\ Has(Now, elems, t.vec) /\ FrameRest(Now, t) \in Pieces
        /\ LoadedTo(Now, elems, s, f) /\ (InGlobals \/ InElement)
    BY <1>1, <1>4, VarTop
  <2>2. pos' = pos + Len(FrameRest(Now, t))
    BY <1>1, <1>4, <2>1 DEF Leave, VarFrame
  <2>3. CASE InGlobals
    <3>1. s = "globals" /\ frames = <<t>> /\ t.vec = Section("globals")
          /\ CutAt(file, pos, FrameRest(Now, t) ++ b)
      BY <2>3 DEF InGlobals
    <3>2. frames' = <<>> /\ Len(frames) = 1
      <4> HIDE DEF t
      <4> QED BY <1>1, <3>1, Stacks
    <3>3. todo' = Tail(todo)
      BY <1>1, <3>2
    <3>4. CutAt(file, pos', b)
      <4> DEFINE x == FrameRest(Now, t)
      <4>1. CutAt(file, pos, x ++ b) /\ x \in Pieces /\ pos' = pos + Len(x)
        BY <2>1, <2>2, <3>1
      <4> HIDE DEF x, b
      <4>2. CutAt(file, pos + Len(x), b)
        BY <1>2, <1>3, <4>1, CutStep
      <4> QED BY <4>1, <4>2
    <3>5. todo[1] # "ast" /\ todo[1] \notin Kinds
      BY <3>1, NoKeys
    <3>6. PositionInv'
      BY <1>1, <1>2, <1>3, <3>2, <3>3, <3>4, <3>5, PartRead
    <3>7. Loaded(Now, elems', todo[1])
      BY <1>1, <2>1, <3>1, <3>5 DEF Loaded
    <3>8. LoadedInv'
      BY <1>1, <1>2, <1>3, <3>2, <3>3, <3>7, PartLoads
    <3> QED BY <1>2, <3>6, <3>8, ReaderNext
  <2>4. CASE InElement
    <3>1. /\ s \in Kinds /\ frames = <<f, t>> /\ SectionFrame(Now, f, s)
          /\ y \in Pieces /\ y ++ b \in Pieces
          /\ CutAt(file, pos, FrameRest(Now, t) ++ (y ++ b))
      BY <2>4 DEF InElement
    <3>2. frames' = <<f>> /\ Len(frames) = 2
      <4> HIDE DEF t, f
      <4> QED BY <1>1, <3>1, Stacks
    <3>3. UNCHANGED <<given, scanner, todo>>
      BY <1>1, <3>2
    <3>4. CutAt(file, pos', y ++ b)
      <4> DEFINE x == FrameRest(Now, t)
                 r == y ++ b
      <4>1. CutAt(file, pos, x ++ r) /\ x \in Pieces /\ r \in Pieces /\ pos' = pos + Len(x)
        BY <2>1, <2>2, <3>1
      <4> HIDE DEF x, r
      <4>2. CutAt(file, pos + Len(x), r)
        BY <1>2, <4>1, CutStep
      <4>3. CutAt(file, pos', r)
        BY <4>1, <4>2
      <4> QED BY <4>3 DEF r
    <3>5. y = RecordsRest(Now, s, f.at, f.lists)
      BY <1>2, <3>1, SectionFrameIs
    <3>6. CutAt(file, pos', RecordsRest(Now, s, f.at, f.lists) ++ Behind(program, todo, check))
      BY <3>4, <3>5
    <3>7. LoadedTo(Now, elems', s, f) /\ Others(elems, elems', s)
      BY <1>1, <1>2, <2>1
    <3> DEFINE F == f
    <3>8. /\ frames' = <<F>> /\ SectionFrame(Now, F, s) /\ LoadedTo(Now, elems', s, F)
          /\ CutAt(file, pos', RecordsRest(Now, s, F.at, F.lists) ++ Behind(program, todo, check))
      BY <3>1, <3>2, <3>6, <3>7
    <3> HIDE DEF F, f, y, b, t
    <3> QED BY <1>2, <1>3, <3>1, <3>3, <3>7, <3>8, SectionGoesOn
  <2> QED BY <2>1, <2>3, <2>4
<1>5. CASE ~IsVars(t.vec)
  <2>1. /\ frames = <<t>> /\ t = f /\ SectionFrame(Now, t, s)
        /\ CutAt(file, pos, FrameRest(Now, t) ++ b) /\ LoadedTo(Now, elems, s, t)
    <3>1. ~(TwoFit(Now, pos, frames, s) /\ t = frames[2])
      BY <1>5 DEF TwoFit, VarFrame
    <3>2. OneFits(Now, pos, t, s) => SectionFrame(Now, t, s)
      BY <1>5 DEF OneFits, VarFrame
    <3> QED BY <1>1, <3>1, <3>2, LoopIs
  <2>2. /\ s \in Kinds /\ t.vec = Section(s) /\ Len(Now[s]) \in Nat
        /\ FrameRest(Now, t) = RecordsRest(Now, s, t.at, <<>>)
    BY <1>1, <1>2, <2>1, SectionFrameIs
  <2>3. Has(Now, elems, Section(s))
    BY <2>1 DEF LoadedTo
  <2>4. t.at = Len(Now[s])
    <3> HIDE DEF t, s
    <3>1. Size(Now, Section(s)) = Len(Now[s])
      BY <1>2, <2>2, SizeIs, KindsIs
    <3> QED BY <1>1, <1>2, <2>2, <2>3, <3>1, ItemsLen
  <2>5. FrameRest(Now, t) = <<>>
    <3>1. /\ \A at \in 0..Len(Now[s]) : RecordsRest(Now, s, at, <<>>) = From(Records(Now, s), at + 1)
          /\ From(Records(Now, s), Len(Now[s]) + 1) = <<>>
      BY <1>2, <2>2, RecordsRestIs
    <3> DEFINE n == Len(Now[s])
    <3>2. RecordsRest(Now, s, n, <<>>) = <<>>
      BY <2>2, <3>1
    <3> QED BY <2>2, <2>4, <3>2
  <2>6. CutAt(file, pos', b)
    <3>1. <<>> ++ b = b
      BY <1>3, ConcatEmpty
    <3>2. CutAt(file, pos, <<>> ++ b)
      BY <2>1, <2>5
    <3>3. pos' = pos
      BY <1>1, <1>5 DEF Leave
    <3> QED BY <3>1, <3>2, <3>3
  <2>7. frames' = <<>> /\ todo' = Tail(todo)
    <3> HIDE DEF t
    <3>1. frames' = <<>> /\ Len(frames) = 1
      BY <1>1, <2>1, Stacks
    <3> QED BY <1>1, <3>1
  <2>8. todo[1] # "ast"
    BY <2>2 DEF Kinds
  <2>9. PositionInv'
    BY <1>1, <1>2, <1>3, <2>6, <2>7, <2>8, PartRead
  <2>10. Loaded(Now, elems, s)
    <3> DEFINE n == Len(Now[s])
               m == Len(ListNames(s))
    <3>1. \A i \in 1..n : \A j \in 1..m : Has(Now, elems, <<s, i, ListNames(s)[j]>>)
      <4>1. \A i \in 1..t.at : \A j \in 1..m : i < t.at \/ j <= m - Len(t.lists) =>
              Has(Now, elems, <<s, i, ListNames(s)[j]>>)
        BY <2>1 DEF LoadedTo
      <4>2. m \in Nat /\ Len(t.lists) = 0
        BY <1>1, ListNamesType
      <4> HIDE DEF m, t, n, s
      <4>3. \A j \in 1..m : j <= m - Len(t.lists)
        BY <4>2
      <4>4. t.at = n
        BY <2>4 DEF n
      <4> QED BY <4>1, <4>3, <4>4
    <3>2. ListsOf(s) = {ListNames(s)[j] : j \in 1..m}
      BY DEF ListsOf
    <3> HIDE DEF s
    <3> QED BY <2>3, <3>1, <3>2 DEF Loaded
  <2>11. LoadedInv'
    BY <1>1, <1>2, <1>3, <2>7, <2>10, PartLoads
  <2> QED BY <1>2, <2>9, <2>11, ReaderNext
<1> QED BY <1>4, <1>5

(* ParseAST: each sub gets its statements.                                 *)
AstItems(es, vec) ==
  [i \in DOMAIN es[vec].items |-> Over(Only("ast", es[<<"subs", i, "code">>].items[CodeBlock].code), es[vec].items[i])]
AstElems(es, vec) == [es EXCEPT ![vec] = [es[vec] EXCEPT !.items = AstItems(es, vec)]]

LEMMA CodeBlockIs ==
  ASSUME NEW es, ElemsFit(es), NEW i, <<"subs", i, "code">> \in DOMAIN es
  PROVE  es[<<"subs", i, "code">>].items[CodeBlock].code = Field("code", <<"subs", i, "code">>, 6, 0)
<1> DEFINE vec == <<"subs", i, "code">>
           x == es[vec].items[6]
<1>1. vec[3] = "code"
  OBVIOUS
<1> HIDE DEF vec
<1>2. VectorFits(vec, es[vec])
  BY DEF ElemsFit, vec
<1>3. 6 \in 1..Len(es[vec].items)
  <2>1. Len(es[vec].items) = 6
    BY <1>1, <1>2 DEF VectorFits
  <2> QED BY <2>1
<1>4. /\ \A f \in DOMAIN x : FieldFits(vec, 6, f, x[f])
      /\ "code" \in DOMAIN x
  BY <1>1, <1>2, <1>3 DEF VectorFits
<1>5. FieldFits(vec, 6, "code", x["code"])
  BY <1>4
<1> HIDE DEF x
<1>6. x["code"] = Field("code", vec, 6, 0)
  BY <1>5 DEF FieldFits
<1> QED BY <1>6 DEF x, vec, CodeBlock

LEMMA AstFits ==
  ASSUME NEW es, ElemsFit(es), Section("subs") \in DOMAIN es,
         \A i \in 1..Len(es[Section("subs")].items) : <<"subs", i, "code">> \in DOMAIN es
  PROVE  LET es2 == AstElems(es, Section("subs")) IN
         /\ Renewed(es, es2)
         /\ \A i \in 1..Len(es2[Section("subs")].items) : "ast" \in DOMAIN es2[Section("subs")].items[i]
<1> DEFINE vec == Section("subs")
           v == es[vec]
           n == Len(v.items)
           u == AstItems(es, vec)
           v2 == [v EXCEPT !.items = u]
           es2 == AstElems(es, vec)
           x(i) == es[<<"subs", i, "code">>].items[CodeBlock].code
           a == v.gen
           b == v.room
<1>1. IsName(vec) /\ VectorFits(vec, v)
  BY DEF ElemsFit
<1>3. /\ v = [gen |-> a, room |-> b, items |-> v.items]
      /\ a \in Nat /\ b \in Nat /\ n \in 0..b
      /\ v.items = [k \in 1..n |-> v.items[k]]
      /\ vec[3] = "code" => n = 6
      /\ \A k \in 1..n :
           /\ \A f \in DOMAIN v.items[k] : FieldFits(vec, k, f, v.items[k][f])
           /\ Keyed(vec) => "key" \in DOMAIN v.items[k]
           /\ vec[3] = "code" => "code" \in DOMAIN v.items[k]
  BY <1>1, Zenon DEF VectorFits
<1>4. es2 = [es EXCEPT ![vec] = v2]
  BY DEF AstElems
<1>5. u = [k \in 1..n |-> Over(Only("ast", x(k)), v.items[k])]
  <2>1. DOMAIN v.items = 1..n
    BY <1>3, Zenon
  <2> QED BY <2>1 DEF AstItems
<1>6. \A k \in 1..n : x(k) = Field("code", <<"subs", k, "code">>, 6, 0)
  BY CodeBlockIs
<1>7. u = [k \in 1..n |-> u[k]] /\ \A k \in 1..n : u[k] = Over(Only("ast", x(k)), v.items[k])
  BY <1>5
<1> HIDE DEF u, x, a, b
<1>8. \A k \in 1..n : /\ DOMAIN u[k] = {"ast"} \cup DOMAIN v.items[k]
                      /\ u[k]["ast"] = Field("code", <<"subs", k, "code">>, 6, 0)
                      /\ \A f \in DOMAIN v.items[k] : f # "ast" => u[k][f] = v.items[k][f]
  <2> SUFFICES ASSUME NEW k \in 1..n
               PROVE  /\ DOMAIN u[k] = {"ast"} \cup DOMAIN v.items[k]
                      /\ u[k]["ast"] = Field("code", <<"subs", k, "code">>, 6, 0)
                      /\ \A f \in DOMAIN v.items[k] : f # "ast" => u[k][f] = v.items[k][f]
    OBVIOUS
  <2> DEFINE it == v.items[k]
             c == x(k)
             w == Over(Only("ast", c), it)
  <2>1. u[k] = w /\ c = Field("code", <<"subs", k, "code">>, 6, 0)
    BY <1>6, <1>7
  <2> HIDE DEF c, it
  <2>2. DOMAIN w = {"ast"} \cup DOMAIN it
    BY DEF Over, Only
  <2>3. w["ast"] = c /\ \A f \in DOMAIN it : f # "ast" => w[f] = it[f]
    BY DEF Over, Only
  <2> HIDE DEF w
  <2> QED BY <2>1, <2>2, <2>3 DEF it
<1>9. v2 = [gen |-> a, room |-> b, items |-> u] /\ v2.gen = a /\ v2.room = b /\ v2.items = u
  <2>1. \A z, c, d, e, f : z = [gen |-> c, room |-> d, items |-> e]
                            => [z EXCEPT !.items = f] = [gen |-> c, room |-> d, items |-> f]
    OBVIOUS
  <2> DEFINE m == v.items
  <2>2. v = [gen |-> a, room |-> b, items |-> m]
    BY <1>3
  <2> HIDE DEF m, v
  <2>3. v2 = [gen |-> a, room |-> b, items |-> u]
    BY <2>1, <2>2
  <2> HIDE DEF v2
  <2> QED BY <2>3, RecordIs, Zenon
<1>16. Len(u) = n
  BY <1>3, <1>7
<1> HIDE DEF v2
<1>10. ASSUME NEW k \in 1..n
       PROVE  /\ \A f \in DOMAIN u[k] : FieldFits(vec, k, f, u[k][f])
              /\ Keyed(vec) => "key" \in DOMAIN u[k] /\ u[k].key = v.items[k].key
              /\ vec[3] = "code" => "code" \in DOMAIN u[k]
  <2>1. ASSUME NEW f \in DOMAIN u[k] PROVE FieldFits(vec, k, f, u[k][f])
    <3>1. CASE f = "ast"
      BY <1>8, <3>1 DEF FieldFits
    <3>2. CASE f # "ast"
      BY <1>3, <1>8, <3>2
    <3> QED BY <3>1, <3>2
  <2>2. /\ Keyed(vec) => "key" \in DOMAIN u[k] /\ u[k].key = v.items[k].key
        /\ vec[3] = "code" => "code" \in DOMAIN u[k]
    <3> HIDE DEF v, n, vec
    <3> QED BY <1>3, <1>8
  <2> QED BY <2>1, <2>2
<1> HIDE DEF v, n, vec
<1>11. VectorFits(vec, v2)
  <2>1. v2 = [gen |-> v2.gen, room |-> v2.room, items |-> v2.items]
    BY <1>9, Zenon
  <2>2. v2.gen \in Nat /\ v2.room \in Nat /\ Len(v2.items) \in 0..v2.room /\ (vec[3] = "code" => Len(v2.items) = 6)
    BY <1>3, <1>9, <1>16
  <2>3. v2.items = [k \in 1..Len(v2.items) |-> v2.items[k]]
    BY <1>7, <1>9, <1>16
  <2>4. \A k \in 1..Len(v2.items) :
          /\ \A f \in DOMAIN v2.items[k] : FieldFits(vec, k, f, v2.items[k][f])
          /\ Keyed(vec) => "key" \in DOMAIN v2.items[k]
          /\ vec[3] = "code" => "code" \in DOMAIN v2.items[k]
    BY <1>9, <1>10, <1>16
  <2> QED BY <2>1, <2>2, <2>3, <2>4, Zenon DEF VectorFits
<1>12. DOMAIN es2 = DOMAIN es /\ es2[vec] = v2 /\ \A y \in DOMAIN es : y # vec => es2[y] = es[y]
  <2>1. vec \in DOMAIN es
    BY DEF vec
  <2> DEFINE z == es2
  <2>2. z = [es EXCEPT ![vec] = v2]
    BY <1>4
  <2> HIDE DEF z
  <2>3. DOMAIN z = DOMAIN es /\ z[vec] = v2 /\ \A y \in DOMAIN es : y # vec => z[y] = es[y]
    BY <2>1, <2>2
  <2> QED BY <2>3 DEF z
<1> HIDE DEF es2
<1>13. ASSUME NEW y \in DOMAIN es2 PROVE IsName(y) /\ VectorFits(y, es2[y])
  <2>1. CASE y = vec
    BY <1>1, <1>11, <1>12, <2>1
  <2>2. CASE y # vec
    BY <1>12, <2>2 DEF ElemsFit
  <2> QED BY <2>1, <2>2
<1>14. Renewed(es, es2)
  <2>1. ElemsFit(es2)
    BY <1>13 DEF ElemsFit
  <2>2. ASSUME NEW y \in DOMAIN es PROVE Keeps(es, es2, y)
    <3>1. CASE y = vec
      <4>1. vec \in DOMAIN es2 /\ es[vec] = v
        BY <1>12, <3>1 DEF v
      <4>2. Len(es2[vec].items) = Len(es[vec].items) /\ Len(es[vec].items) = n
        BY <1>9, <1>12, <1>16, <4>1 DEF n
      <4>3. Keyed(vec) => \A i \in 1..n : es2[vec].items[i].key = es[vec].items[i].key
        BY <1>9, <1>10, <1>12, <4>1
      <4> QED BY <3>1, <4>1, <4>2, <4>3 DEF Keeps
    <3>2. CASE y # vec
      BY <1>12, <3>2, KeepsSame
    <3> QED BY <3>1, <3>2
  <2> QED BY <1>12, <2>1, <2>2 DEF Renewed
<1>15. \A i \in 1..Len(es2[vec].items) : "ast" \in DOMAIN es2[vec].items[i]
  <2>1. es2[vec].items = u
    BY <1>9, <1>12
  <2>2. ASSUME NEW i \in 1..n PROVE "ast" \in DOMAIN u[i]
    <3>1. DOMAIN u[i] = {"ast"} \cup DOMAIN v.items[i]
      BY <1>8
    <3> QED BY <3>1
  <2> QED BY <1>16, <2>1, <2>2
<1> QED BY <1>14, <1>15 DEF es2, vec

LEMMA AstKeeps ==
  ASSUME ReaderInv, ParseAST
  PROVE  ReaderInv'
<1> DEFINE vec == Section("subs")
<1>1. /\ Reading("ast") /\ todo' = <<>> /\ phase' = "done"
      /\ UNCHANGED <<given, pos, check, warned, segment, frames, maps>>
      /\ elems' = (IF vec \notin DOMAIN elems THEN elems ELSE AstElems(elems, vec))
  BY DEF ParseAST, AstElems, AstItems
<1>2. /\ todo # <<>> /\ frames = <<>> /\ todo[1] = "ast"
      /\ PositionInv /\ IsContents(Now) /\ check \in Nat /\ file \in Pieces /\ DataFit(elems, maps) /\ LoadedInv
  BY <1>1, ReadingAt
<1>3. /\ program' = program /\ file' = file /\ pos' = pos /\ check' = check /\ warned' = warned
      /\ segment' = segment /\ frames' = <<>> /\ maps' = maps
  BY <1>1, <1>2 DEF given
<1>4. segment \in Ast /\ todo \in TailsOf(Sections(segment)) /\ segment \in 5..9 /\ segment \in 0..9
  BY <1>2, AstPart DEF Ast
<1>5. ToSet(todo) \subseteq {"ast"}
  <2>1. Sections(segment) = <<"ast">>
    BY <1>4, SectionsType
  <2>2. <<"ast">> \in Seq({"ast"})
    OBVIOUS
  <2>3. todo \in Seq({"ast"})
    BY <1>4, <2>1, <2>2, TailsIs
  <2> QED BY <2>3 DEF ToSet
<1>6. "ast" \notin Kinds /\ "subs" \in Kinds /\ "subs" # "ast"
  BY DEF Kinds
<1>7. vec \in DOMAIN elems => \A i \in 1..Len(elems[vec].items) : <<"subs", i, "code">> \in DOMAIN elems
  <2>1. "code" \in ListsOf("subs")
    BY ListsOfIs
  <2>2. "subs" \notin ToSet(todo)
    BY <1>5
  <2> QED BY <1>2, <1>6, <2>1, <2>2, LoadedIs DEF SectionsLoaded
<1>8. /\ Renewed(elems, elems')
      /\ vec \in DOMAIN elems' => \A i \in 1..Len(elems'[vec].items) : "ast" \in DOMAIN elems'[vec].items[i]
  <2>1. ElemsFit(elems)
    BY <1>2 DEF DataFit
  <2>2. CASE vec \notin DOMAIN elems
    <3>1. elems' = elems
      BY <1>1, <2>2
    <3>2. Renewed(elems, elems)
      BY <2>1, RenewedSame
    <3> QED BY <2>2, <3>1, <3>2
  <2>3. CASE vec \in DOMAIN elems
    <3>1. elems' = AstElems(elems, vec)
      BY <1>1, <2>3
    <3>2. /\ Renewed(elems, AstElems(elems, vec))
          /\ \A i \in 1..Len(AstElems(elems, vec)[vec].items) : "ast" \in DOMAIN AstElems(elems, vec)[vec].items[i]
      BY <1>7, <2>1, <2>3, AstFits
    <3> QED BY <3>1, <3>2
  <2> QED BY <2>2, <2>3
<1> HIDE DEF vec
<1>9. DataFit(elems', maps')
  BY <1>2, <1>3, <1>8 DEF DataFit, Renewed
<1>10. PositionInv'
  <2>1. /\ file = FlattenSeq([k \in DOMAIN program.segments |-> SegmentWritten(program, k)])
        /\ check \in 0..Len(program.segments) /\ ~warned
        /\ segment = IF check = 0 THEN 0 ELSE program.segments[check]
        /\ \A k \in 1..(check - 1) : program.segments[k] \notin Ast
    BY <1>2 DEF PositionInv
  <2>2. pos \in 1..(Len(file) + 1)
    BY <1>2, PosIs
  <2> QED BY <1>1, <1>2, <1>3, <1>4, <2>1, <2>2 DEF PositionInv
<1>11. LoadedInv'
  <2>1. FramesLoaded(program.contents[check'], elems', todo', frames')
    BY <1>3, NoFrames
  <2>2. \A t : Others(elems, elems', t)
    BY <1>8, RenewedOthers
  <2>3. SectionsLoaded(elems', todo')
    <3>1. SUFFICES ASSUME NEW s \in Kinds, Section(s) \in DOMAIN elems'
                   PROVE  \A i \in 1..Len(elems'[Section(s)].items), list \in ListsOf(s) : <<s, i, list>> \in DOMAIN elems'
      BY DEF SectionsLoaded
    <3>2. s \notin ToSet(todo) /\ Section(s) \in DOMAIN elems /\ s # "ast"
      BY <1>5, <1>6, <1>8, <3>1 DEF Renewed
    <3>3. \A i \in 1..Len(elems[Section(s)].items), list \in ListsOf(s) : <<s, i, list>> \in DOMAIN elems
      BY <1>2, <3>2, LoadedIs DEF SectionsLoaded
    <3> QED BY <2>2, <3>1, <3>2, <3>3, SectionKept
  <2>4. SegmentsLoaded(program, elems', todo', check', phase' # "search")
    <3>1. SUFFICES ASSUME NEW k \in 1..check, NEW s \in ToSet(Sections(program.segments[k])) \ {"ast"},
                          \A j \in (k + 1)..check : s \notin ToSet(Sections(program.segments[j]))
                   PROVE  Loaded(program.contents[k], elems', s)
      BY <1>1, <1>3 DEF SegmentsLoaded
    <3>2. phase # "search" /\ s \notin ToSet(todo) /\ s # "ast"
      BY <1>2, <1>5, ReadingIs
    <3>3. Loaded(program.contents[k], elems, s)
      BY <1>2, <3>1, <3>2, LoadedIs DEF SegmentsLoaded
    <3> QED BY <2>2, <3>2, <3>3, LoadedKept
  <2>5. AstLoaded(phase', segment', elems')
    BY <1>8 DEF AstLoaded, vec
  <2> QED BY <1>3, <2>1, <2>3, <2>4, <2>5, LoadedNext
<1> QED BY <1>3, <1>9, <1>10, <1>11, ReaderNext

-----------------------------------------------------------------------------
(* The invariant holds at the start and in every step.                     *)
LEMMA InitFits == Init => ReaderInv
<1> SUFFICES ASSUME Init PROVE ReaderInv
  OBVIOUS
<1> DEFINE n == Len(program.segments)
<1>1. /\ IsProgram(program)
      /\ file = FlattenSeq([k \in DOMAIN program.segments |-> SegmentWritten(program, k)])
      /\ pos = 1 /\ phase = "scan" /\ check = 0 /\ warned = FALSE /\ segment = 0
      /\ todo = <<>> /\ frames = <<>> /\ elems = <<>> /\ maps = <<>>
  BY DEF Init
<1>2. n \in Nat /\ file = After(program, 0) /\ file \in Pieces
  BY <1>1, ProgramIs, AfterIs
<1>3. CutAt(file, pos, After(program, check))
  <2>1. \A f \in Pieces : 1 \in 1..(Len(f) + 1) /\ f = SubSeq(f, 1, Len(f))
    BY DEF Pieces
  <2> QED BY <1>1, <1>2, <2>1 DEF CutAt
<1>4. PositionInv
  <2>1. ScanFits(program, file, pos, check)
    BY <1>3 DEF ScanFits
  <2>2. segment \notin Ast
    BY <1>1 DEF Ast
  <2>3. check \in 0..Len(program.segments) /\ \A k \in 1..(check - 1) : program.segments[k] \notin Ast
    BY <1>1, <1>2
  <2> QED BY <1>1, <2>1, <2>2, <2>3 DEF PositionInv
<1>5. DOMAIN elems = {} /\ DOMAIN maps = {}
  BY <1>1
<1>6. ElemsFit(elems)
  BY <1>5 DEF ElemsFit
<1>7. MapsFit(maps)
  BY <1>5 DEF MapsFit
<1>8. LoadedInv
  <2>1. frames = <<>> /\ todo = <<>> /\ check = 0 /\ phase # "done"
    BY <1>1
  <2>2. FramesLoaded(Now, elems, todo, frames)
    BY <2>1, NoFrames
  <2>3. SectionsLoaded(elems, todo) /\ AstLoaded(phase, segment, elems)
    BY <1>5, <2>1 DEF SectionsLoaded, AstLoaded
  <2>4. SegmentsLoaded(program, elems, todo, check, phase # "search")
    <3>1. 1..0 = {}
      OBVIOUS
    <3> QED BY <2>1, <3>1 DEF SegmentsLoaded
  <2> QED BY <2>2, <2>3, <2>4 DEF LoadedInv
<1> QED BY <1>4, <1>6, <1>7, <1>8 DEF ReaderInv, DataInv

LEMMA StutterFits ==
  ASSUME ReaderInv, UNCHANGED vars
  PROVE  ReaderInv'
<1>1. /\ program' = program /\ file' = file /\ pos' = pos /\ phase' = phase /\ check' = check
      /\ warned' = warned /\ segment' = segment /\ todo' = todo /\ frames' = frames
      /\ elems' = elems /\ maps' = maps
  BY DEF vars
<1>2. PositionInv'
  BY <1>1 DEF ReaderInv, PositionInv
<1>3. LoadedInv'
  BY <1>1 DEF ReaderInv, DataInv, LoadedInv, Now
<1>4. DataFit(elems', maps')
  BY <1>1, ReaderIs
<1> QED BY <1>1, <1>2, <1>3, <1>4, ReaderNext

LEMMA NextFits == ReaderInv /\ [Next]_vars => ReaderInv'
<1> SUFFICES ASSUME ReaderInv, [Next]_vars PROVE ReaderInv'
  OBVIOUS
<1>1. CASE Step \/ StartSegment \/ Search \/ SkipSegment \/ Finish
  BY <1>1, ScannerKeeps
<1>2. CASE ParseInfoSegment
  BY <1>2, InfoKeeps
<1>3. CASE ParseLibrary
  BY <1>3, LibrariesKeep
<1>4. CASE \E s \in {"modules", "subs", "structs", "dlls", "windows"} : OpenSection(s)
  BY <1>4, OpenKeeps
<1>5. CASE OpenGlobals
  BY <1>5, GlobalsKeep
<1>6. CASE OpenConstants
  BY <1>6, ConstantsKeep
<1>7. CASE ReadModule \/ ReadSub \/ ReadStruct \/ ReadDll
  BY <1>7, HeadsKeep
<1>8. CASE ReadInclude
  BY <1>8, IncludeKeeps
<1>9. CASE ReadCode
  BY <1>9, CodeKeeps
<1>10. CASE \E list \in VarLists : OpenVars(list)
  BY <1>10, VarsKeep
<1>11. CASE ReadVar
  BY <1>11, VarKeeps
<1>12. CASE ReadConstant
  BY <1>12, ConstantKeeps
<1>13. CASE ReadWindow
  BY <1>13, WindowKeeps
<1>14. CASE CloseVector
  BY <1>14, CloseKeeps
<1>15. CASE ParseAST
  BY <1>15, AstKeeps
<1>16. CASE UNCHANGED vars
  BY <1>16, StutterFits
<1> QED
  BY <1>1, <1>2, <1>3, <1>4, <1>5, <1>6, <1>7, <1>8, <1>9, <1>10, <1>11, <1>12, <1>13, <1>14, <1>15, <1>16
  DEF Next, Parse, Done

LEMMA ReaderCorrect == Spec => []ReaderInv
BY InitFits, NextFits, PTL DEF Spec

-----------------------------------------------------------------------------
(* Positions and numbers stay in range while sections are read, every loop *)
(* is over a vector that is there and not past its end, vectors have room  *)
(* for their elements, fields of elements are fields of a file, and every  *)
(* key in maps has an entry for its own element: for files of any size.    *)
THEOREM SectionTypeCorrect == Spec => []SectionTypeOK
<1>1. ReaderInv => SectionTypeOK
  <2> SUFFICES ASSUME ReaderInv PROVE SectionTypeOK
    OBVIOUS
  <2>1. PositionInv /\ LoadedInv /\ IsProgram(program) /\ ElemsFit(elems) /\ MapsFit(maps)
    BY ReaderIs DEF DataFit
  <2>2. pos \in 1..(Len(file) + 1)
    BY <2>1, PosIs
  <2>3. check \in 0..Len(program.segments) /\ segment \in 0..9
    BY <2>1, FileIs
  <2>4. phase \in {"scan", "search", "done"}
    BY <2>1 DEF PositionInv
  <2>5. todo \in Seq({"info", "windows", "constants", "ast"} \cup ToSet(CodeSections))
    <3>1. ToSet(CodeSections) = {"libraries", "modules", "subs", "globals", "structs", "dlls"}
      <4> DEFINE q == CodeSections
      <4>1. DOMAIN q = 1..6 /\ q[1] = "libraries" /\ q[2] = "modules" /\ q[3] = "subs"
            /\ q[4] = "globals" /\ q[5] = "structs" /\ q[6] = "dlls"
        BY DEF CodeSections
      <4> HIDE DEF q
      <4>2. \A i \in 1..6 : i = 1 \/ i = 2 \/ i = 3 \/ i = 4 \/ i = 5 \/ i = 6
        OBVIOUS
      <4>3. 1 \in 1..6 /\ 2 \in 1..6 /\ 3 \in 1..6 /\ 4 \in 1..6 /\ 5 \in 1..6 /\ 6 \in 1..6
        OBVIOUS
      <4>4. ToSet(q) = {q[i] : i \in 1..6}
        BY <4>1 DEF ToSet
      <4>5. ToSet(q) = {"libraries", "modules", "subs", "globals", "structs", "dlls"}
        BY <4>1, <4>2, <4>3, <4>4
      <4> QED BY <4>5 DEF q
    <3>2. {"info", "windows", "constants", "ast"} \cup ToSet(CodeSections) = PartNames
      BY <3>1 DEF PartNames
    <3>3. todo \in Seq(PartNames)
      <4>1. todo = <<>> => todo \in Seq(PartNames)
        OBVIOUS
      <4> QED BY <2>1, <4>1, ReadingIs
    <3> QED BY <3>2, <3>3
  <2>6. ASSUME NEW d \in DOMAIN frames
        PROVE  frames[d].vec \in DOMAIN elems /\ frames[d].at \in 0..Len(elems[frames[d].vec].items)
    <3>1. frames # <<>>
      BY <2>6
    <3>2. IsContents(Now) /\ LoadedTo(Now, elems, todo[1], frames[1])
      BY <3>1, LoopIs
    <3>3. ASSUME NEW fr, NEW s, SectionFrame(Now, fr, s), Has(Now, elems, Section(s))
          PROVE  fr.vec \in DOMAIN elems /\ fr.at \in 0..Len(elems[fr.vec].items)
      <4>1. s \in Kinds /\ fr.vec = Section(s) /\ fr.at \in 0..Len(Now[s])
        BY <3>3 DEF SectionFrame
      <4>2. Len(elems[Section(s)].items) = Size(Now, Section(s)) /\ Section(s) \in DOMAIN elems
        BY <3>3 DEF Has
      <4>3. Size(Now, Section(s)) = Len(Now[s])
        BY <3>2, <4>1, SizeIs
      <4> QED BY <4>1, <4>2, <4>3
    <3>4. ASSUME NEW fr, VarFrame(Now, fr, pos), Has(Now, elems, fr.vec)
          PROVE  fr.vec \in DOMAIN elems /\ fr.at \in 0..Len(elems[fr.vec].items)
      BY <3>4 DEF VarFrame, Has
    <3>5. Has(Now, elems, Section(todo[1]))
      BY <3>2 DEF LoadedTo
    <3>6. ASSUME \/ SectionFrame(Now, frames[1], todo[1])
                 \/ frames[1].vec = Section(todo[1]) /\ VarFrame(Now, frames[1], pos)
          PROVE  frames[1].vec \in DOMAIN elems /\ frames[1].at \in 0..Len(elems[frames[1].vec].items)
      <4>1. CASE SectionFrame(Now, frames[1], todo[1])
        BY <3>3, <3>5, <4>1
      <4>2. CASE frames[1].vec = Section(todo[1]) /\ VarFrame(Now, frames[1], pos)
        BY <3>4, <3>5, <4>2
      <4> QED BY <3>6, <4>1, <4>2
    <3>7. CASE Len(frames) = 1
      <4>1. frames = <<frames[1]>> /\ OneFits(Now, pos, frames[1], todo[1])
        BY <3>1, <3>7, LoopIs
      <4>2. \A x : DOMAIN <<x>> = 1..1
        OBVIOUS
      <4>3. d = 1
        BY <4>1, <4>2
      <4>4. frames[1].vec \in DOMAIN elems /\ frames[1].at \in 0..Len(elems[frames[1].vec].items)
        <5>1. OneFits(Now, pos, frames[1], todo[1])
          BY <4>1
        <5>2. \/ SectionFrame(Now, frames[1], todo[1])
              \/ frames[1].vec = Section(todo[1]) /\ VarFrame(Now, frames[1], pos)
          BY <5>1 DEF OneFits
        <5> QED BY ONLY <3>6, <5>2
      <4> DEFINE f1 == frames[1]
                 fs == frames
      <4>5. fs[1] = f1 /\ d = 1 /\ f1.vec \in DOMAIN elems /\ f1.at \in 0..Len(elems[f1.vec].items)
        BY <4>3, <4>4
      <4> HIDE DEF f1, fs
      <4>6. fs[d].vec \in DOMAIN elems /\ fs[d].at \in 0..Len(elems[fs[d].vec].items)
        BY ONLY <4>5
      <4> QED BY <4>6 DEF fs
    <3>8. CASE Len(frames) = 2
      <4>1. /\ frames = <<frames[1], frames[2]>> /\ Top = frames[2] /\ TwoFit(Now, pos, frames, todo[1])
            /\ Has(Now, elems, Top.vec)
        BY <3>1, <3>8, LoopIs
      <4>2. \A x, y : DOMAIN <<x, y>> = 1..2
        OBVIOUS
      <4>3. d = 1 \/ d = 2
        BY <4>1, <4>2
      <4>4. frames[2].vec \in DOMAIN elems /\ frames[2].at \in 0..Len(elems[frames[2].vec].items)
        BY <3>4, <4>1 DEF TwoFit
      <4>5. frames[1].vec \in DOMAIN elems /\ frames[1].at \in 0..Len(elems[frames[1].vec].items)
        <5>1. TwoFit(Now, pos, frames, todo[1])
          BY <4>1
        <5>2. \/ SectionFrame(Now, frames[1], todo[1])
              \/ frames[1].vec = Section(todo[1]) /\ VarFrame(Now, frames[1], pos)
          BY <5>1 DEF TwoFit
        <5> QED BY ONLY <3>6, <5>2
      <4> DEFINE f1 == frames[1]
                 f2 == frames[2]
                 fs == frames
      <4>6. /\ fs[1] = f1 /\ fs[2] = f2 /\ (d = 1 \/ d = 2)
            /\ f1.vec \in DOMAIN elems /\ f1.at \in 0..Len(elems[f1.vec].items)
            /\ f2.vec \in DOMAIN elems /\ f2.at \in 0..Len(elems[f2.vec].items)
        BY <4>3, <4>4, <4>5
      <4> HIDE DEF f1, f2, fs
      <4>7. fs[d].vec \in DOMAIN elems /\ fs[d].at \in 0..Len(elems[fs[d].vec].items)
        BY ONLY <4>6
      <4> QED BY <4>7 DEF fs
    <3> QED BY <3>1, <3>7, <3>8, LoopIs
  <2>7. ASSUME NEW vec \in DOMAIN elems
        PROVE  LET v == elems[vec] IN
               /\ v.gen \in Nat /\ v.room \in Nat /\ Len(v.items) \in 0..v.room
               /\ \A i \in DOMAIN v.items : \A f \in DOMAIN v.items[i] : IsField(v.items[i][f])
    <3> DEFINE v == elems[vec]
               n == Len(v.items)
    <3>1. VectorFits(vec, v)
      BY <2>1 DEF ElemsFit
    <3>2. /\ v.gen \in Nat /\ v.room \in Nat /\ n \in 0..v.room
          /\ v.items = [i \in 1..n |-> v.items[i]]
          /\ \A i \in 1..n : \A f \in DOMAIN v.items[i] : FieldFits(vec, i, f, v.items[i][f])
      BY <3>1, Zenon DEF VectorFits
    <3>3. ASSUME NEW i \in 1..n, NEW f, NEW x, FieldFits(vec, i, f, x) PROVE IsField(x)
      <4>1. i \in Nat
        BY <3>2
      <4>2. ASSUME NEW is, NEW w, NEW k \in Nat, NEW m \in Nat, x = Field(is, w, k, m) PROVE IsField(x)
        <5>1. x.is = is /\ x.vec = w /\ x.of = k /\ x.n = m
          BY <4>2, FieldIs
        <5> QED BY <4>2, <5>1 DEF IsField
      <4>3. CASE f = "ast"
        <5>1. x = Field("code", <<"subs", i, "code">>, 6, 0) /\ 6 \in Nat /\ 0 \in Nat
          BY <3>3, <4>3 DEF FieldFits
        <5> QED BY <4>2, <5>1
      <4>4. CASE f = "key"
        <5>1. x.n \in Nat /\ x = Field("key", vec, i, x.n)
          BY <3>3, <4>4 DEF FieldFits
        <5> QED BY <4>1, <4>2, <5>1
      <4>5. CASE f # "ast" /\ f # "key"
        <5>1. x = Field(f, vec, i, 0) /\ 0 \in Nat
          BY <3>3, <4>5 DEF FieldFits
        <5> QED BY <4>1, <4>2, <5>1
      <4> QED BY <4>3, <4>4, <4>5
    <3>4. DOMAIN v.items = 1..n
      <4> DEFINE m == v.items
      <4>1. m = [i \in 1..n |-> m[i]]
        BY <3>2
      <4> HIDE DEF m, n
      <4>2. DOMAIN m = 1..n
        BY <4>1, Zenon
      <4> QED BY <4>2 DEF m
    <3>5. ASSUME NEW i \in DOMAIN v.items, NEW f \in DOMAIN v.items[i] PROVE IsField(v.items[i][f])
      BY <3>2, <3>3, <3>4
    <3> QED BY <3>2, <3>5
  <2>8. ASSUME NEW k \in DOMAIN maps
        PROVE  IsField(k) /\ maps[k].vec = k.vec /\ maps[k].of = k.of /\ maps[k].gen \in Nat
    <3>1. /\ k = Field("key", k.vec, k.of, k.n) /\ k.of \in Nat /\ k.n \in Nat
          /\ maps[k].vec = k.vec /\ maps[k].of = k.of /\ maps[k].gen \in Nat
      BY <2>1 DEF MapsFit
    <3>2. k.is = "key"
      BY <3>1, FieldIs
    <3> QED BY <3>1, <3>2 DEF IsField
  <2> QED BY <2>2, <2>3, <2>4, <2>5, <2>6, <2>7, <2>8 DEF SectionTypeOK
<1> QED BY <1>1, ReaderCorrect, PTL

(* Whatever segments, lists, windows and constants a file holds, and       *)
(* however many: the scanner is between two segments when it looks for the *)
(* next one, and the number behind the marks is the one it has counted.    *)
THEOREM StaysInStepCorrect == Spec => []StaysInStep
<1>1. ReaderInv => StaysInStep
  <2> SUFFICES ASSUME ReaderInv PROVE StaysInStep
    OBVIOUS
  <2>1. PositionInv /\ IsProgram(program) /\ file \in Pieces
    BY ReaderIs
  <2>2. ~warned
    BY <2>1 DEF PositionInv
  <2>3. ASSUME Scanning, Good PROVE file[pos].is \in {"junk", "start"}
    <3>1. phase = "scan" /\ todo = <<>> /\ pos <= Len(file) /\ ScanFits(program, file, pos, check)
      BY <2>1, <2>3, ScanIs DEF Scanning, Good
    <3>2. check \in 0..Len(program.segments) /\ Len(program.segments) \in Nat
      BY <2>1, FileIs
    <3>3. CASE CutAt(file, pos, After(program, check))
      <4>1. check # Len(program.segments)
        <5>1. ASSUME check = Len(program.segments) PROVE FALSE
          <6>1. CutAt(file, pos, <<>>)
            BY <2>1, <3>3, <5>1, AfterIs
          <6>2. Len(file) \in Nat /\ pos = Len(file) + 1
            BY <2>1, <6>1, CutEmpty
          <6> QED BY <3>1, <6>2
        <5> QED BY <5>1
      <4>2. check \in 0..(Len(program.segments) - 1)
        BY <3>2, <4>1
      <4> QED BY <2>1, <3>3, <4>2, HeadRead
    <3>4. CASE CutAt(file, pos, <<Plain("junk")>> \o After(program, check))
      BY <2>1, <3>4, JunkIs
    <3>5. CASE pos \in Nat /\ check < Len(program.segments) /\ CutAt(file, pos - 1, After(program, check))
      <4>1. check \in 0..(Len(program.segments) - 1)
        BY <3>2, <3>5
      <4> DEFINE q == pos - 1
      <4>2. CutAt(file, q, After(program, check)) /\ pos = q + 1
        BY <3>5
      <4> HIDE DEF q
      <4>3. file[q + 1].is = "start"
        BY <2>1, <4>1, <4>2, HeadRead
      <4> QED BY <4>2, <4>3
    <3> QED BY <3>1, <3>3, <3>4, <3>5 DEF ScanFits
  <2> QED BY <2>2, <2>3 DEF StaysInStep
<1> QED BY <1>1, ReaderCorrect, PTL

(* What stands in a field of an element is what the editor wrote for that  *)
(* field of that element, however many sections, elements, variables and   *)
(* dimensions there are; sub->ast comes from the sixth code block.         *)
THEOREM ReadAsWrittenCorrect == Spec => []ReadAsWritten
<1>1. ReaderInv => ReadAsWritten
  <2> SUFFICES ASSUME ReaderInv, NEW vec \in DOMAIN elems, NEW i \in DOMAIN elems[vec].items,
                      NEW f \in DOMAIN elems[vec].items[i]
               PROVE  LET item == elems[vec].items[i] IN
                      IF f = "ast" THEN item[f] = Field("code", <<"subs", i, "code">>, 6, 0)
                      ELSE <<item[f].is, item[f].vec, item[f].of>> = <<f, vec, i>>
    BY DEF ReadAsWritten
  <2> DEFINE x == elems[vec].items[i][f]
  <2>1. IsProgram(program) /\ ElemsFit(elems)
    BY ReaderIs DEF DataFit
  <2>2. VectorFits(vec, elems[vec])
    BY <2>1 DEF ElemsFit
  <2>6. i \in 1..Len(elems[vec].items)
    <3> DEFINE m == elems[vec].items
    <3>1. m = [k \in 1..Len(m) |-> m[k]]
      BY <2>2 DEF VectorFits
    <3> HIDE DEF m
    <3>2. DOMAIN m = 1..Len(m)
      BY <3>1, Zenon
    <3> QED BY <3>2 DEF m
  <2>3. FieldFits(vec, i, f, x)
    BY <2>2, <2>6 DEF VectorFits
  <2> HIDE DEF x
  <2>4. CASE f = "ast"
    <3>1. x = Field("code", <<"subs", i, "code">>, 6, 0)
      BY <2>3, <2>4 DEF FieldFits
    <3> QED BY <2>4, <3>1 DEF x
  <2>5. CASE f # "ast"
    <3>1. x.is = f /\ x.vec = vec /\ x.of = i
      <4>1. CASE f = "key"
        <5>1. x = Field("key", vec, i, x.n)
          BY <2>3, <2>5, <4>1 DEF FieldFits
        <5> QED BY <4>1, <5>1, FieldIs
      <4>2. CASE f # "key"
        <5>1. x = Field(f, vec, i, 0)
          BY <2>3, <2>5, <4>2 DEF FieldFits
        <5> QED BY <5>1, FieldIs
      <4> QED BY <4>1, <4>2
    <3> QED BY <2>5, <3>1 DEF x
  <2> QED BY <2>4, <2>5
<1> QED BY <1>1, ReaderCorrect, PTL

LEMMA TypesIs ==
  ASSUME IsProgram(program), NEW n \in Nat, n <= Len(program.segments)
  PROVE  /\ Types(n) = {program.segments[k] : k \in 1..n}
         /\ Types(n - 1) = {program.segments[k] : k \in 1..(n - 1)}
<1> DEFINE q == program.segments
<1>1. q \in Seq(0..9) /\ Len(q) \in Nat
  BY ProgramIs
<1> HIDE DEF q
<1>2. ASSUME NEW m \in Int, m <= Len(q)
      PROVE  ToSet(SubSeq(q, 1, m)) = {q[k] : k \in 1..m}
  <2> DEFINE t == SubSeq(q, 1, m)
  <2>1. DOMAIN t = 1..m /\ \A k \in 1..m : t[k] = q[k]
    BY <1>1, <1>2
  <2> HIDE DEF t
  <2>2. {t[k] : k \in DOMAIN t} = {q[k] : k \in 1..m}
    BY <2>1
  <2> QED BY <2>2 DEF ToSet, t
<1> QED BY <1>2 DEF Types, q

(* Which type of segment a section belongs to.                             *)
LEMMA TypeOf ==
  ASSUME NEW t \in 0..9
  PROVE  /\ \A s \in {"subs", "dlls"} : s \in ToSet(Sections(t)) <=> t = 3
         /\ "constants" \in ToSet(Sections(t)) <=> t = 4
<1>1. ToSet(<<>>) = {} /\ ToSet(<<"info">>) = {"info"} /\ ToSet(<<"ast">>) = {"ast"}
      /\ ToSet(<<"windows", "constants">>) = {"windows", "constants"}
  <2>1. /\ DOMAIN <<>> = {} /\ DOMAIN <<"info">> = {1} /\ DOMAIN <<"ast">> = {1}
        /\ DOMAIN <<"windows", "constants">> = {1, 2}
    OBVIOUS
  <2>2. ToSet(<<>>) = {} /\ ToSet(<<"info">>) = {"info"} /\ ToSet(<<"ast">>) = {"ast"}
    BY <2>1 DEF ToSet
  <2>3. ToSet(<<"windows", "constants">>) = {"windows", "constants"}
    BY <2>1 DEF ToSet
  <2> QED BY <2>2, <2>3
<1>2. "subs" \in ToSet(CodeSections) /\ "dlls" \in ToSet(CodeSections) /\ "constants" \notin ToSet(CodeSections)
  <2> DEFINE q == CodeSections
  <2>1. DOMAIN q = 1..6 /\ q[1] = "libraries" /\ q[2] = "modules" /\ q[3] = "subs"
        /\ q[4] = "globals" /\ q[5] = "structs" /\ q[6] = "dlls"
    BY DEF CodeSections
  <2> HIDE DEF q
  <2>2. 3 \in DOMAIN q /\ 6 \in DOMAIN q /\ \A i \in DOMAIN q : i = 1 \/ i = 2 \/ i = 3 \/ i = 4 \/ i = 5 \/ i = 6
    BY <2>1
  <2>3. \A i \in DOMAIN q : q[i] # "constants"
    BY <2>1, <2>2
  <2>4. "subs" \in ToSet(q) /\ "dlls" \in ToSet(q) /\ "constants" \notin ToSet(q)
    BY <2>1, <2>2, <2>3 DEF ToSet
  <2> QED BY <2>4 DEF q
<1>3. t = 1 \/ t = 3 \/ t = 4 \/ t \in 5..9 \/ t \in {0, 2}
  OBVIOUS
<1>4. CASE t = 3
  <2>1. Sections(t) = CodeSections /\ t # 4
    BY <1>4, SectionsType
  <2>2. \A s \in {"subs", "dlls"} : s \in ToSet(CodeSections)
    BY <1>2
  <2> QED BY <1>2, <1>4, <2>1, <2>2
<1>5. CASE t = 4
  <2>1. Sections(t) = <<"windows", "constants">> /\ t # 3
    BY <1>5, SectionsType
  <2> QED BY <1>1, <1>5, <2>1
<1>6. CASE t = 1
  BY <1>1, <1>6, SectionsType
<1>7. CASE t \in 5..9
  <2>1. t # 3 /\ t # 4
    BY <1>7
  <2> QED BY <1>1, <1>7, <2>1, SectionsType
<1>8. CASE t \in {0, 2}
  BY <1>1, <1>8, SectionsType
<1> QED BY <1>3, <1>4, <1>5, <1>6, <1>7, <1>8

(* Once Parse has ended, every segment in front of the first one of the    *)
(* types 5 to 9 has been read, the vectors have what the last segment of   *)
(* their type had, and every sub has its statements if the segment that    *)
(* ends Parse is behind a program: for every number of segments, every     *)
(* order of them, and whatever each of them holds.                         *)
THEOREM EverySegmentReadCorrect == Spec => []EverySegmentRead
<1>1. ReaderInv => EverySegmentRead
  <2> SUFFICES ASSUME ReaderInv, phase = "done"
               PROVE  EverySegmentRead
    BY DEF EverySegmentRead
  <2>1. PositionInv /\ LoadedInv /\ IsProgram(program) /\ ElemsFit(elems)
    BY ReaderIs DEF DataFit
  <2>2. /\ check \in Nat /\ check <= Len(program.segments) /\ segment \in 0..9
        /\ check # 0 => segment = program.segments[check]
        /\ \A k \in 1..Len(program.segments) : program.segments[k] \in 0..9 /\ IsContents(program.contents[k])
        /\ Len(program.segments) \in Nat
    BY <2>1, FileIs, ProgramIs
  <2>3. /\ check = Len(program.segments) \/ segment \in Ast
        /\ check = 0 => segment = 0
        /\ \A k \in 1..(check - 1) : program.segments[k] \notin Ast
        /\ todo = <<>>
    BY <2>1 DEF PositionInv
  <2>4. check = Len(program.segments) \/ program.segments[check] \in Ast
    BY <2>2, <2>3 DEF Ast
  <2>5. /\ Types(check) = {program.segments[k] : k \in 1..check}
        /\ Types(check - 1) = {program.segments[k] : k \in 1..(check - 1)}
    BY <2>1, <2>2, TypesIs
  <2>6. Types(check - 1) \cap Ast = {}
    BY <2>3, <2>5
  <2>7. Types(check) \cap Ast # {} => segment \in Ast
    <3>1. SUFFICES ASSUME NEW k \in 1..check, program.segments[k] \in Ast PROVE segment \in Ast
      BY <2>5
    <3>2. k = check /\ check # 0
      BY <2>2, <2>3, <3>1
    <3> QED BY <2>2, <3>1, <3>2
  <2>8. ASSUME NEW k \in 1..check, NEW s \in {"subs", "dlls", "constants"},
               s \in ToSet(Sections(program.segments[k])),
               \A j \in (k + 1)..check : program.segments[j] # program.segments[k]
        PROVE  Loaded(program.contents[k], elems, s)
    <3>1. SegmentsLoaded(program, elems, <<>>, check, TRUE)
      BY <2>1, <2>3, LoadedIs
    <3>2. s \notin ToSet(<<>>) /\ s # "ast"
      BY EmptySet
    <3>3. ASSUME NEW j \in (k + 1)..check PROVE s \notin ToSet(Sections(program.segments[j]))
      <4>1. program.segments[j] \in 0..9 /\ program.segments[k] \in 0..9
        BY <2>2
      <4>2. program.segments[j] # program.segments[k]
        BY <2>8
      <4> QED BY <2>8, <4>1, <4>2, TypeOf
    <3> QED BY <2>8, <3>1, <3>2, <3>3 DEF SegmentsLoaded
  <2>9. "dlls" \in Kinds /\ "subs" \in Kinds /\ "constants" \in Kinds
    BY DEF Kinds
  <2>10. ASSUME NEW c, IsContents(c), NEW s \in Kinds, Loaded(c, elems, s)
         PROVE  Len(elems[Section(s)].items) = Len(c[s]) /\ Section(s) \in DOMAIN elems
    BY <2>10, SizeIs DEF Loaded, Has
  <2>11. ASSUME NEW k \in 1..check, program.segments[k] = 3,
                \A j \in (k + 1)..check : program.segments[j] # program.segments[k]
         PROVE  LET has == program.contents[k] IN
                /\ Len(elems[Section("dlls")].items) = Len(has.dlls)
                /\ \A i \in DOMAIN has.subs :
                     /\ Len(elems[<<"subs", i, "locals">>].items) = has.subs[i]
                     /\ Types(check) \cap Ast # {} => "ast" \in DOMAIN elems[Section("subs")].items[i]
    <3> DEFINE has == program.contents[k]
    <3>1. IsContents(has) /\ Loaded(has, elems, "dlls") /\ Loaded(has, elems, "subs")
      <4>1. program.segments[k] \in 0..9 /\ IsContents(has)
        BY <2>2
      <4>2. \A s \in {"subs", "dlls"} : s \in ToSet(Sections(program.segments[k]))
        BY <2>11, <4>1, TypeOf
      <4> QED BY <2>8, <2>11, <4>1, <4>2
    <3> HIDE DEF has
    <3>2. Len(elems[Section("dlls")].items) = Len(has.dlls)
      BY <2>9, <2>10, <3>1
    <3>3. ASSUME NEW i \in DOMAIN has.subs
          PROVE  /\ Len(elems[<<"subs", i, "locals">>].items) = has.subs[i]
                 /\ Types(check) \cap Ast # {} => "ast" \in DOMAIN elems[Section("subs")].items[i]
      <4>1. i \in 1..Len(has.subs)
        BY <3>1, ContentsIs
      <4>2. "locals" \in ListsOf("subs")
        BY ListsOfIs
      <4>3. Len(elems[<<"subs", i, "locals">>].items) = Size(has, <<"subs", i, "locals">>)
        <5>1. Has(has, elems, <<"subs", i, "locals">>)
          BY <2>9, <3>1, <4>1, <4>2 DEF Loaded
        <5> DEFINE v == <<"subs", i, "locals">>
        <5> HIDE DEF v
        <5>2. Len(elems[v].items) = Size(has, v)
          BY <5>1 DEF Has, v
        <5> QED BY <5>2 DEF v
      <4>4. Size(has, <<"subs", i, "locals">>) = has.subs[i]
        <5>1. Size(has, <<"subs", i, "locals">>) = IF "locals" = "code" THEN 6
                 ELSE IF "subs" = "subs" /\ "locals" = "params" THEN 1 ELSE has["subs"][i]
          BY <2>9, <3>1, <4>2, ListSize
        <5>2. "locals" # "code" /\ "locals" # "params"
          OBVIOUS
        <5> QED BY <5>1, <5>2
      <4>5. Types(check) \cap Ast # {} => "ast" \in DOMAIN elems[Section("subs")].items[i]
        <5>1. AstLoaded(phase, segment, elems)
          BY <2>1, LoadedIs
        <5>2. Len(elems[Section("subs")].items) = Len(has.subs) /\ Section("subs") \in DOMAIN elems
          BY <2>9, <2>10, <3>1
        <5> QED BY <2>7, <4>1, <5>1, <5>2 DEF AstLoaded
      <4> QED BY <4>3, <4>4, <4>5
    <3> QED BY <3>2, <3>3 DEF has
  <2>12. ASSUME NEW k \in 1..check, program.segments[k] = 4,
                \A j \in (k + 1)..check : program.segments[j] # program.segments[k]
         PROVE  Len(elems[Section("constants")].items) = Len(program.contents[k].constants)
    <3>1. program.segments[k] \in 0..9 /\ IsContents(program.contents[k])
      BY <2>2
    <3>2. "constants" \in ToSet(Sections(program.segments[k]))
      BY <2>12, <3>1, TypeOf
    <3>3. Loaded(program.contents[k], elems, "constants")
      BY <2>8, <2>12, <3>2
    <3> QED BY <2>9, <2>10, <3>1, <3>3
  <2> QED BY <2>4, <2>6, <2>11, <2>12 DEF EverySegmentRead
<1> QED BY <1>1, ReaderCorrect, PTL
=============================================================================
