-------------------------- MODULE ExprCodegenProofs --------------------------
(***************************************************************************)
(* Proofs about ExprCodegen, for statements, expressions and arguments of  *)
(* any number and size and for every set of types.  The invariant is that  *)
(* every node on the stack is a good one: its three types are the ones its *)
(* form and its gap say.  There is one lemma for each kind of node: made   *)
(* from good nodes, it is good; and one for each kind of statement.        *)
(***************************************************************************)
EXTENDS ExprCodegen, TLAPS

(* The value of a promised node, by its form.                              *)
Formed(n) ==
  /\ n.e # "none" => (n.how = "broken" <=> Fails(n.val))
  /\ n.e \in AllNamed =>
       /\ n.how = "value" => n.val = GetType[n.e]
       /\ n.how \in {"place", "ref"} => n.val = Ptr(GetType[n.e]) /\ (n.array \/ n.e \notin LikeChars)
       /\ n.how = "chars" => n.e = "text" /\ n.val = I8Ptr
       /\ n.how = "number" => n.e \in {"double", "date"} /\ n.val = I32
       /\ n.how = "bit" => n.e = "bool" /\ n.val = I1

(* Its address, if it can be assigned to.                                  *)
Located(n) ==
  /\ ~n.place => n.lhs = Null
  /\ n.place => n.lhs.base = n.type.base \/ Fails(n.lhs) \/ Fails(n.type)
  /\ n.place /\ n.e # "none" =>
       /\ n.e \in AllNamed
       /\ n.gap \in {"none", "depth", "bad"}
       /\ n.how \in {"value", "place", "ref", "broken"}
       /\ IF n.how = "broken" THEN Fails(n.lhs) ELSE n.lhs = Ptr(GetType[n.e])

(* Arrays are variables.                                                   *)
Arrayed(n) ==
  n.array => /\ n.e \in AllNamed
             /\ n.how = "broken" => n.type = Bad
             /\ n.how # "broken" => n.how = "ref" \/ (n.how \in {"value", "place"} /\ n.gap = "none")

(* What is announced of it, by its gap.                                    *)
Told(n) ==
  /\ n.gap = "none" =>
       /\ n.how \in {"value", "place"} => n.type = GetType[n.e]
       /\ n.how = "ref" => n.type = Ptr(GetType[n.e])
       /\ n.how = "number" => n.type = I32
  /\ n.gap # "bad" => ~Fails(n.type)
  /\ n.how = "chars" => n.gap = "none" /\ n.type = I8Ptr
  /\ n.how = "bit" <=> n.gap = "flag"
  /\ n.how = "place" => n.gap # "bad"
  /\ n.how = "ref" => \/ n.gap = "none"
                      \/ /\ n.gap = "depth" /\ n.array /\ n.e \notin LikeChars
                         /\ n.type = Ptr(Ptr(GetType[n.e]))
  /\ n.gap = "flag" => n.type \in {I8, I32}
  /\ n.gap = "star" => n.how = "place" /\ n.type = GetType[n.e]
  /\ n.gap = "table" => n.type # n.val /\ (n.e = "raw" => n.type # I8Ptr)
  /\ n.gap = "depth" => \/ n.how = "ref" /\ n.array
                        \/ /\ n.how = "value" /\ ~n.array
                           /\ n.type = Ptr(GetType[n.e]) \/ (n.e = "raw" /\ n.type = I8)

Agrees(n) ==
  /\ Formed(n) /\ Located(n) /\ Arrayed(n)
  /\ n.e \in AllNamed /\ n.how # "broken" => Told(n)
  /\ n.gap = "bad" => n.type = Bad \/ (n.type = Null /\ Fails(n.val))
  /\ n.gap = "chars" => n.type = I8Ptr /\ n.val # I8Ptr /\ n.e # "raw"
  /\ n.type = I8Ptr => n.gap = "chars" \/ n.e = "raw" \/ n.val = I8Ptr
  /\ ~Fails(n.type) /\ ~Fails(n.val) => Announces(n)

Good == {n \in Nodes : Agrees(n)}

(* The invariant.                                                          *)
GoodStack ==
  /\ stack \in Seq(Good)
  /\ call \in [on : BOOLEAN, dll : BOOLEAN, typed : BOOLEAN, works : BOOLEAN,
               taken : BOOLEAN, first : Types]
  /\ call.typed => (call.works <=> call.taken)
  /\ outcome \in [typed : BOOLEAN, works : BOOLEAN, ok : BOOLEAN]
  /\ WellTypedCompiles

-----------------------------------------------------------------------------
(* The parts of a type, and what Add, Ptr and Load do to it.               *)
LEMMA TypeParts ==
  \A base, ptr : T(base, ptr).base = base /\ T(base, ptr).ptr = ptr
  BY DEF T

LEMMA SameType ==
  \A b, c, p, q : T(b, p) = T(c, q) <=> b = c /\ p = q
  BY TypeParts

LEMMA AddIs == \A b : \A p, n \in Nat : Add(T(b, p), n) = T(b, p + n)
  BY TypeParts DEF Add

LEMMA PtrIs == \A b : \A p \in Nat : Ptr(T(b, p)) = T(b, p + 1)
  BY AddIs DEF Ptr

LEMMA LoadIs == \A b : \A p \in Nat : Load(T(b, p)) = IF p > 0 THEN T(b, p - 1) ELSE Bad
  BY TypeParts DEF Load

Bases == {"i1", "i8", "i16", "i32", "i64", "float", "double", "text", "rec", "void", "bad", "null"}
Solid == Bases \ {"bad", "null"}
IntBases == {"i1", "i8", "i16", "i32", "i64"}

LEMMA TypesAre ==
  /\ \A b \in Bases : \A p \in Nat : T(b, p) \in Types
  /\ \A t \in Types : /\ t = T(t.base, t.ptr) /\ t.base \in Bases /\ t.ptr \in Nat
  BY DEF Types, Bases, T

LEMMA FailsIs ==
  \A b, p : Fails(T(b, p)) <=> p = 0 /\ b \in {"bad", "null"}
  BY SameType DEF Fails, Bad, Null

LEMMA IsIntIs ==
  \A b, p : IsInt(T(b, p)) <=> p = 0 /\ b \in IntBases
  BY SameType DEF IsInt, I1, I8, I16, I32, I64, IntBases

(* The types that names stand for: each number has a base of its own.      *)
BaseOf == [byte |-> "i8", short |-> "i16", int |-> "i32", int64 |-> "i64",
           float |-> "float", double |-> "double", bool |-> "i8", date |-> "double",
           text |-> "text", rec |-> "rec", raw |-> "i8", void |-> "void"]

LEMMA NamedIs ==
  ASSUME NEW e \in AllNamed \cup {"void"}
  PROVE  /\ GetType[e] = T(BaseOf[e], One(e = "raw"))
         /\ One(e = "raw") = IF e = "raw" THEN 1 ELSE 0
         /\ BaseOf[e] \in Solid
         /\ BaseOf[e] = "i8" <=> e \in {"byte", "bool", "raw"}
         /\ BaseOf[e] = "i32" <=> e = "int"
         /\ BaseOf[e] = "float" <=> e = "float"
         /\ BaseOf[e] = "double" <=> e \in {"double", "date"}
         /\ BaseOf[e] = "text" <=> e = "text"
         /\ BaseOf[e] = "rec" <=> e = "rec"
         /\ BaseOf[e] = "void" <=> e = "void"
         /\ BaseOf[e] # "i1"
         /\ BaseOf[e] \in IntBases <=> e \in Integral \cup {"bool", "raw"}
  BY DEF AllNamed, Numeric, Integral, GetType, BaseOf, One, Solid, Bases, IntBases,
         I8, I16, I32, I64, Float, Double, Text, Rec, I8Ptr, Void

LEMMA NumbersDiffer ==
  \A e, f \in Numeric : BaseOf[e] = BaseOf[f] => e = f
  BY DEF Numeric, Integral, BaseOf

(* A cast gives what is asked for, or fails.                               *)
LEMMA CastGives ==
  ASSUME NEW t, NEW to PROVE TypeCast(t, to) \in {to, Bad}
<1>1. I8Ptr = T("i8", 1) /\ TextPtr = T("text", 1) /\ Text = T("text", 0)
  BY DEF I8Ptr, TextPtr, Text
<1>2. StringCreate(I8Ptr) = TextPtr /\ Load(StringCreate(I8Ptr)) = Text
  BY <1>1, SameType, LoadIs DEF StringCreate, PushFree
<1> QED BY <1>2 DEF TypeCast

(* Which casts LLVM takes.                                                 *)
Casts(b, p, c, q) ==
  \/ b = c /\ p \in {q, q + 1}
  \/ b = "text" /\ p = 1 /\ c = "i8" /\ q = 1
  \/ b = "i8" /\ p = 1 /\ c = "text" /\ q \in {0, 1}
  \/ p = 0 /\ q = 0 /\ b \in IntBases /\ c \in IntBases

LEMMA CastIs ==
  ASSUME NEW b \in Solid, NEW c \in Solid, NEW p \in Nat, NEW q \in Nat
  PROVE  TypeCast(T(b, p), T(c, q)) = IF Casts(b, p, c, q) THEN T(c, q) ELSE Bad
<1> DEFINE t == T(b, p) to == T(c, q)
<1>1. ~Fails(t) /\ ~Fails(to)
  BY FailsIs DEF Solid
<1>2. /\ t = to <=> b = c /\ p = q
      /\ t = Ptr(to) <=> b = c /\ p = q + 1
      /\ t = TextPtr <=> b = "text" /\ p = 1
      /\ t = I8Ptr <=> b = "i8" /\ p = 1
      /\ to = TextPtr <=> c = "text" /\ q = 1
      /\ to = I8Ptr <=> c = "i8" /\ q = 1
      /\ to = Text <=> c = "text" /\ q = 0
  BY SameType, PtrIs DEF TextPtr, I8Ptr, Text
<1>3. IsInt(t) /\ IsInt(to) <=> p = 0 /\ q = 0 /\ b \in IntBases /\ c \in IntBases
  BY IsIntIs
<1>4. StringCreate(I8Ptr) = TextPtr /\ Load(StringCreate(I8Ptr)) = Text
  <2>1. I8Ptr = T("i8", 1) /\ TextPtr = T("text", 1) /\ Text = T("text", 0)
    BY DEF I8Ptr, TextPtr, Text
  <2> QED BY <2>1, SameType, LoadIs DEF StringCreate, PushFree
<1> HIDE DEF t, to
<1>5. TypeCast(t, to) = IF Casts(b, p, c, q) THEN to ELSE Bad
  <2>1. CASE t = to \/ t = Ptr(to)
    BY <1>1, <1>2, <2>1 DEF TypeCast, Casts
  <2>2. CASE t # to /\ t # Ptr(to) /\ (t = TextPtr /\ to = I8Ptr)
    BY <1>1, <1>2, <2>2 DEF TypeCast, Casts
  <2>3. CASE t # to /\ t # Ptr(to) /\ (t = I8Ptr /\ to \in {Text, TextPtr})
    BY <1>1, <1>2, <1>4, <2>3 DEF TypeCast, Casts
  <2>4. CASE /\ t # to /\ t # Ptr(to) /\ ~(t = TextPtr /\ to = I8Ptr)
             /\ ~(t = I8Ptr /\ to \in {Text, TextPtr})
    BY <1>1, <1>2, <1>3, <2>4 DEF TypeCast, Casts
  <2> QED BY <2>1, <2>2, <2>3, <2>4
<1> QED BY <1>5 DEF t, to

LEMMA FailedCast ==
  ASSUME NEW t, NEW to, Fails(t) \/ Fails(to) PROVE TypeCast(t, to) = Bad
  BY DEF TypeCast

(* Types stay in the module's when operations on nodes make new ones.      *)
LEMMA NamedTypes ==
  /\ \A t \in {Bad, Null, I1, I8, I32, Text, Rec, Void, I8Ptr, TextPtr} : t \in Types
  /\ \A e \in AllNamed \cup {"void"} : GetType[e] \in Types
<1>1. \A t \in {Bad, Null, I1, I8, I32, Text, Rec, Void, I8Ptr, TextPtr} : t \in Types
  BY TypesAre DEF Bases, Bad, Null, I1, I8, I32, Text, Rec, Void, I8Ptr, TextPtr
<1>2. ASSUME NEW e \in AllNamed \cup {"void"} PROVE GetType[e] \in Types
  BY NamedIs, TypesAre DEF Solid
<1> QED BY <1>1, <1>2

LEMMA AddType == ASSUME NEW t \in Types, NEW n \in Nat PROVE Add(t, n) \in Types
  BY DEF Types, Add, T

LEMMA PtrType == ASSUME NEW t \in Types PROVE Ptr(t) \in Types
  BY AddType DEF Ptr

LEMMA LoadType == ASSUME NEW t \in Types PROVE Load(t) \in Types
  BY NamedTypes DEF Types, Load, T

LEMMA CastType == ASSUME NEW t, NEW to \in Types PROVE TypeCast(t, to) \in Types
  BY CastGives, NamedTypes

-----------------------------------------------------------------------------
(* What a good node is.                                                    *)
LEMMA GoodIs ==
  ASSUME NEW n \in Good
  PROVE  /\ n \in Nodes /\ Agrees(n)
         /\ n.e \in AllNamed \cup {"none", "void"} /\ n.array \in BOOLEAN /\ n.place \in BOOLEAN
         /\ n.how \in Hows /\ n.gap \in Gaps
         /\ n.type \in Types /\ n.lhs \in Types /\ n.val \in Types
  BY DEF Good, Nodes

(* The base and the pointers of a promised value.                          *)
LEMMA ValIs ==
  ASSUME NEW n \in Good, n.e \in AllNamed
  PROVE  LET b == BaseOf[n.e]
             p == One(n.e = "raw")
         IN  /\ p \in Nat /\ p = (IF n.e = "raw" THEN 1 ELSE 0) /\ GetType[n.e] = T(b, p)
             /\ n.how = "value" => n.val = T(b, p)
             /\ n.how \in {"place", "ref"} => n.val = T(b, p + 1) /\ (n.array \/ n.e \notin LikeChars)
             /\ n.how = "chars" => n.e = "text" /\ n.val = T("i8", 1)
             /\ n.how = "number" => n.e \in {"double", "date"} /\ n.val = T("i32", 0)
             /\ n.how = "bit" => n.e = "bool" /\ n.val = T("i1", 0)
             /\ n.how = "broken" <=> Fails(n.val)
<1>1. Formed(n)
  BY GoodIs DEF Agrees
<1>2. /\ GetType[n.e] = T(BaseOf[n.e], One(n.e = "raw"))
      /\ One(n.e = "raw") = IF n.e = "raw" THEN 1 ELSE 0
  BY NamedIs
<1>3. Ptr(GetType[n.e]) = T(BaseOf[n.e], One(n.e = "raw") + 1)
  BY <1>2, PtrIs
<1>4. n.e # "none"
  BY DEF AllNamed, Numeric, Integral
<1> QED BY <1>1, <1>2, <1>3, <1>4 DEF Formed, I8Ptr, I32, I1

(* A value is cast to a type its own fits if and only if it can be.        *)
LEMMA CastFits ==
  ASSUME NEW n \in Good, NEW e \in AllNamed, Fits(e, n)
  PROVE  TypeCast(n.val, GetType[e]) = IF Castable(e, n) THEN GetType[e] ELSE Bad
<1> DEFINE b == BaseOf[n.e] p == One(n.e = "raw") c == BaseOf[e] q == One(e = "raw")
<1>1. n.e \in AllNamed /\ ~n.array /\ (n.e = e \/ (n.e \in Numeric /\ e \in Numeric))
  BY DEF Fits, AllNamed
<1>2. /\ b \in Solid /\ c \in Solid /\ p \in Nat /\ q \in Nat /\ GetType[e] = T(c, q)
      /\ b \in IntBases <=> n.e \in Integral \cup {"bool", "raw"}
      /\ c \in IntBases <=> e \in Integral \cup {"bool", "raw"}
      /\ b = c <=> n.e = e
      /\ p = (IF n.e = "raw" THEN 1 ELSE 0) /\ q = (IF e = "raw" THEN 1 ELSE 0)
      /\ c = "text" <=> e = "text"
      /\ c = "i8" <=> e \in {"byte", "bool", "raw"}
      /\ c # "i1"
      /\ b = "i8" <=> n.e \in {"byte", "bool", "raw"}
      /\ b = "text" <=> n.e = "text"
  <2>1. n.e \in AllNamed \cup {"void"} /\ e \in AllNamed \cup {"void"}
    BY <1>1
  <2>2. b = c <=> n.e = e
    BY <1>1, NumbersDiffer
  <2> QED BY <1>1, <2>1, <2>2, NamedIs
<1>3. n.e = e \/ (n.e # "raw" /\ e # "raw" /\ n.e # "text" /\ e # "text" /\ n.e # "bool" /\ e # "bool")
  BY <1>1 DEF Numeric, Integral
<1>4. n.how \in Hows
  BY GoodIs
<1>5. n.e \in Integral \cup {"bool"} => n.e \notin {"double", "date", "text", "raw"}
  BY DEF Integral
<1>6. e \in Integral \cup {"bool"} => e \notin {"double", "date", "text", "raw", "float"}
  BY DEF Integral
<1>7. {"i1", "i32", "i8"} \subseteq Solid /\ {"i1", "i32", "i8"} \subseteq IntBases
  BY DEF Solid, Bases, IntBases
<1>a. CASE n.how = "value"
  <2>1. n.val = T(b, p)
    BY <1>a, <1>1, ValIs
  <2>2. TypeCast(n.val, GetType[e]) = IF Casts(b, p, c, q) THEN GetType[e] ELSE Bad
    BY <1>2, <2>1, CastIs
  <2>3. Casts(b, p, c, q) <=> n.e = e \/ (n.e \in Integral \cup {"bool"} /\ e \in Integral \cup {"bool"})
    BY <1>1, <1>2, <1>3 DEF Casts
  <2>4. Castable(e, n) <=> n.e = e \/ (n.e \in Integral \cup {"bool"} /\ e \in Integral \cup {"bool"})
    BY <1>a DEF Castable
  <2> QED BY <2>2, <2>3, <2>4
<1>b. CASE n.how \in {"place", "ref"}
  <2>1. n.val = T(b, p + 1) /\ n.e \notin LikeChars
    BY <1>b, <1>1, ValIs
  <2>2. TypeCast(n.val, GetType[e]) = IF Casts(b, p + 1, c, q) THEN GetType[e] ELSE Bad
    BY <1>2, <2>1, CastIs
  <2>3. Casts(b, p + 1, c, q) <=> n.e = e
    <3>1. n.e = e => Casts(b, p + 1, c, q)
      BY <1>2 DEF Casts
    <3>2. ASSUME n.e # e PROVE ~Casts(b, p + 1, c, q)
      BY <1>2, <1>3, <2>1, <3>2 DEF Casts, LikeChars
    <3> QED BY <3>1, <3>2
  <2>4. Castable(e, n) <=> n.e = e
    BY <1>b DEF Castable
  <2> QED BY <2>2, <2>3, <2>4
<1>c. CASE n.how = "chars"
  <2>1. n.val = T("i8", 1) /\ n.e = "text" /\ e = "text"
    BY <1>c, <1>1, <1>3, ValIs
  <2>2. TypeCast(n.val, GetType[e]) = IF Casts("i8", 1, c, q) THEN GetType[e] ELSE Bad
    BY <1>2, <1>7, <2>1, CastIs
  <2>3. Casts("i8", 1, c, q)
    BY <1>2, <2>1 DEF Casts
  <2> QED BY <1>c, <2>1, <2>2, <2>3 DEF Castable
<1>d. CASE n.how = "number"
  <2>1. n.val = T("i32", 0) /\ n.e \in {"double", "date"}
    BY <1>d, <1>1, ValIs
  <2>2. TypeCast(n.val, GetType[e]) = IF Casts("i32", 0, c, q) THEN GetType[e] ELSE Bad
    BY <1>2, <1>7, <2>1, CastIs
  <2>3. Casts("i32", 0, c, q) <=> e \in Integral
    <3>1. e \in Integral => c \in IntBases /\ q = 0
      BY <1>2, <1>6
    <3>2. e \notin Integral => c \notin IntBases
      BY <1>1, <1>2, <1>3, <2>1
    <3> QED BY <1>7, <3>1, <3>2 DEF Casts
  <2>4. Castable(e, n) <=> e \in Integral
    BY <1>d, <2>1 DEF Castable
  <2> QED BY <2>2, <2>3, <2>4
<1>e. CASE n.how = "bit"
  <2>1. n.val = T("i1", 0) /\ n.e = "bool" /\ e = "bool"
    BY <1>e, <1>1, <1>3, ValIs
  <2>2. TypeCast(n.val, GetType[e]) = IF Casts("i1", 0, c, q) THEN GetType[e] ELSE Bad
    BY <1>2, <1>7, <2>1, CastIs
  <2>3. Casts("i1", 0, c, q)
    BY <1>2, <1>7, <2>1 DEF Casts
  <2>4. Castable(e, n)
    BY <1>e, <2>1 DEF Castable
  <2> QED BY <2>2, <2>3, <2>4
<1>f. CASE n.how = "broken"
  <2>1. Fails(n.val)
    BY <1>f, <1>1, ValIs
  <2>2. TypeCast(n.val, GetType[e]) = Bad
    BY <2>1, FailedCast
  <2>3. ~Castable(e, n)
    BY <1>f DEF Castable
  <2> QED BY <2>2, <2>3
<1> QED BY <1>4, <1>a, <1>b, <1>c, <1>d, <1>e, <1>f DEF Hows

(* The same for what is passed or returned by its address, k references    *)
(* from where it is.                                                       *)
LEMMA CastRef ==
  ASSUME NEW n \in Good, NEW e \in AllNamed, NEW k \in Nat, k > 0,
         n.e = e \/ (n.e \in Numeric /\ e \in Numeric /\ ~n.array)
  PROVE  TypeCast(n.val, Add(GetType[e], k)) =
           IF k = 1 /\ n.e = e /\ n.how \in {"place", "ref", "chars"}
             THEN Add(GetType[e], k) ELSE Bad
<1> DEFINE b == BaseOf[n.e] p == One(n.e = "raw") c == BaseOf[e] q == One(e = "raw")
<1>1. n.e \in AllNamed
  BY DEF AllNamed
<1>2. /\ b \in Solid /\ c \in Solid /\ p \in Nat /\ q \in Nat
      /\ Add(GetType[e], k) = T(c, q + k) /\ q + k \in Nat
      /\ b = c <=> n.e = e
      /\ p = (IF n.e = "raw" THEN 1 ELSE 0) /\ q = (IF e = "raw" THEN 1 ELSE 0)
      /\ c = "text" <=> e = "text"
      /\ c = "i8" <=> e \in {"byte", "bool", "raw"}
      /\ b = "i8" <=> n.e \in {"byte", "bool", "raw"}
      /\ b = "text" <=> n.e = "text"
      /\ c # "i1"
  <2>1. n.e \in AllNamed \cup {"void"} /\ e \in AllNamed \cup {"void"}
    BY <1>1
  <2>2. b = c <=> n.e = e
    BY NumbersDiffer
  <2> QED BY <2>1, <2>2, NamedIs, AddIs
<1>3. n.e = e \/ (n.e # "raw" /\ e # "raw" /\ n.e # "text" /\ e # "text" /\ n.e # "bool" /\ e # "bool"
                  /\ (n.array \/ n.how \notin {"place", "ref"} \/ n.e # "byte"))
  BY <1>1, ValIs DEF Numeric, Integral, LikeChars
<1>4. n.how \in Hows
  BY GoodIs
<1>7. {"i1", "i32", "i8"} \subseteq Solid
  BY DEF Solid, Bases
<1>a. CASE n.how = "value"
  <2>1. n.val = T(b, p)
    BY <1>a, <1>1, ValIs
  <2>2. TypeCast(n.val, T(c, q + k)) = IF Casts(b, p, c, q + k) THEN T(c, q + k) ELSE Bad
    BY <1>2, <2>1, CastIs
  <2>3. ~Casts(b, p, c, q + k)
    BY <1>2, <1>3 DEF Casts
  <2> QED BY <1>2, <1>a, <2>2, <2>3
<1>b. CASE n.how \in {"place", "ref"}
  <2>1. n.val = T(b, p + 1)
    BY <1>b, <1>1, ValIs
  <2>2. TypeCast(n.val, T(c, q + k)) = IF Casts(b, p + 1, c, q + k) THEN T(c, q + k) ELSE Bad
    BY <1>2, <2>1, CastIs
  <2>3. Casts(b, p + 1, c, q + k) <=> k = 1 /\ n.e = e
    <3>1. CASE n.e = e
      BY <1>2, <3>1 DEF Casts
    <3>2. CASE n.e # e
      BY <1>2, <1>3, <3>2 DEF Casts
    <3> QED BY <3>1, <3>2
  <2> QED BY <1>2, <1>b, <2>2, <2>3
<1>c. CASE n.how = "chars"
  <2>1. n.val = T("i8", 1) /\ n.e = "text" /\ e = "text"
    BY <1>c, <1>1, <1>3, ValIs
  <2>2. TypeCast(n.val, T(c, q + k)) = IF Casts("i8", 1, c, q + k) THEN T(c, q + k) ELSE Bad
    BY <1>2, <1>7, <2>1, CastIs
  <2>3. Casts("i8", 1, c, q + k) <=> k = 1
    BY <1>2, <2>1 DEF Casts
  <2> QED BY <1>2, <1>c, <2>1, <2>2, <2>3
<1>d. CASE n.how \in {"number", "bit"}
  <2>1. PICK i \in {"i1", "i32"} : n.val = T(i, 0)
    BY <1>d, <1>1, ValIs
  <2>2. TypeCast(n.val, T(c, q + k)) = IF Casts(i, 0, c, q + k) THEN T(c, q + k) ELSE Bad
    BY <1>2, <1>7, <2>1, CastIs
  <2>3. ~Casts(i, 0, c, q + k)
    BY <1>2, <2>1 DEF Casts
  <2> QED BY <1>2, <1>d, <2>2, <2>3
<1>f. CASE n.how = "broken"
  <2>1. Fails(n.val)
    BY <1>f, <1>1, ValIs
  <2> QED BY <1>f, <2>1, FailedCast
<1> QED BY <1>4, <1>a, <1>b, <1>c, <1>d, <1>f DEF Hows

-----------------------------------------------------------------------------
(* The statements but for assignments: each compiles if and only if it     *)
(* works.                                                                  *)
LEMMA Solids ==
  /\ \A e \in AllNamed \cup {"void"} : \A k \in Nat :
       /\ Add(GetType[e], k) \in Types /\ ~Fails(Add(GetType[e], k)) /\ Add(GetType[e], k) # Bad
       /\ Add(GetType[e], 0) = GetType[e]
       /\ ~Fails(GetType[e]) /\ GetType[e] # Bad
<1> SUFFICES ASSUME NEW e \in AllNamed \cup {"void"}, NEW k \in Nat
             PROVE  /\ Add(GetType[e], k) \in Types /\ ~Fails(Add(GetType[e], k))
                    /\ Add(GetType[e], k) # Bad
                    /\ Add(GetType[e], 0) = GetType[e]
                    /\ ~Fails(GetType[e]) /\ GetType[e] # Bad
  OBVIOUS
<1> DEFINE b == BaseOf[e] p == One(e = "raw")
<1>1. b \in Solid /\ p \in Nat /\ GetType[e] = T(b, p)
  BY NamedIs
<1>2. Add(GetType[e], k) = T(b, p + k) /\ Add(GetType[e], 0) = T(b, p + 0) /\ p + 0 = p /\ p + k \in Nat
  BY <1>1, AddIs
<1>3. b \in Bases /\ b \notin {"bad", "null"}
  BY <1>1 DEF Solid
<1>4. Bad = T("bad", 0)
  BY DEF Bad
<1> HIDE DEF b, p
<1>5. Add(GetType[e], k) \in Types /\ ~Fails(Add(GetType[e], k)) /\ Add(GetType[e], k) # Bad
  BY <1>2, <1>3, <1>4, TypesAre, FailsIs, SameType
<1>6. ~Fails(GetType[e]) /\ GetType[e] # Bad
  BY <1>1, <1>3, <1>4, FailsIs, SameType
<1> QED BY <1>1, <1>2, <1>5, <1>6

LEMMA PtrIsAdd == \A t : Ptr(t) = Add(t, 1)
  BY DEF Ptr

LEMMA IfFits ==
  ASSUME NEW n \in Good, n.e = "bool", ~n.array
  PROVE  n.val = I1 <=> n.how = "bit"
<1>1. n.e \in AllNamed /\ n.how \in Hows
  BY GoodIs DEF AllNamed
<1>2. I1 = T("i1", 0) /\ ~Fails(I1)
  BY FailsIs DEF I1
<1>3. BaseOf[n.e] # "i1"
  BY NamedIs, <1>1
<1> QED BY <1>1, <1>2, <1>3, ValIs, SameType DEF Hows, LikeChars

LEMMA TimesFits ==
  ASSUME NEW n \in Good, NEW counter \in Good,
         counter.place, counter.e \in Integral, n.e \in Numeric, ~n.array
  PROVE  counter.lhs = Ptr(I32) /\ n.val = I32 <=>
           /\ counter.e = "int" /\ counter.how # "broken"
           /\ n.how = "number" \/ (n.e = "int" /\ n.how = "value")
<1>1. n.e \in AllNamed /\ counter.e \in AllNamed /\ counter.e # "none" /\ n.how \in Hows
      /\ counter.e # "raw" /\ n.e \notin {"raw", "text", "bool"}
  BY GoodIs DEF AllNamed, Numeric, Integral
<1>2. Ptr(I32) = T("i32", 1) /\ I32 = T("i32", 0) /\ ~Fails(Ptr(I32)) /\ ~Fails(I32)
  BY PtrIs, FailsIs DEF I32
<1>3. counter.lhs = Ptr(I32) <=> counter.e = "int" /\ counter.how # "broken"
  <2>1. IF counter.how = "broken" THEN Fails(counter.lhs) ELSE counter.lhs = Ptr(GetType[counter.e])
    BY <1>1, GoodIs DEF Agrees, Located
  <2>2. Ptr(GetType[counter.e]) = T(BaseOf[counter.e], 1)
    BY <1>1, NamedIs, PtrIs
  <2>3. BaseOf[counter.e] = "i32" <=> counter.e = "int"
    BY <1>1, NamedIs
  <2> QED BY <1>2, <2>1, <2>2, <2>3, SameType
<1>4. n.val = I32 <=> n.how = "number" \/ (n.e = "int" /\ n.how = "value")
  <2>1. BaseOf[n.e] = "i32" <=> n.e = "int"
    BY <1>1, NamedIs
  <2> QED BY <1>1, <1>2, <2>1, ValIs, SameType DEF Hows
<1> QED BY <1>3, <1>4

LEMMA ReturnFits ==
  ASSUME NEW n \in Good, NEW ret \in AllNamed, NEW stars \in Nat, Fits(ret, n)
  PROVE  TypeCast(n.val, Add(GetType[ret], stars)) # Bad <=>
           CASE stars = 0 -> Castable(ret, n)
             [] stars = 1 -> n.e = ret /\ n.how \in {"place", "ref", "chars"}
             [] OTHER -> FALSE
<1>1. CASE stars = 0
  BY <1>1, CastFits, Solids
<1>2. CASE stars > 0
  <2>1. n.e = ret \/ (n.e \in Numeric /\ ret \in Numeric /\ ~n.array)
    BY DEF Fits
  <2>2. TypeCast(n.val, Add(GetType[ret], stars)) =
          IF stars = 1 /\ n.e = ret /\ n.how \in {"place", "ref", "chars"}
            THEN Add(GetType[ret], stars) ELSE Bad
    BY <1>2, <2>1, CastRef
  <2>3. Add(GetType[ret], stars) # Bad
    BY Solids
  <2> QED BY <1>2, <2>2, <2>3
<1> QED BY <1>1, <1>2

-----------------------------------------------------------------------------
(* Arguments.                                                              *)
LEMMA OnesAre == \A b : One(b) \in {0, 1} /\ (One(b) = 1 <=> b)
  BY DEF One

LEMMA PassedFits ==
  ASSUME NEW n \in Good, NEW p \in Params, NEW dll \in BOOLEAN, FitsParam(p, n),
         ~(dll /\ p.e = "text")
  PROVE  LET t == Passed(p, dll, n.val) IN
         ~Fails(t) /\ t = ParamType(p, dll) <=> Passable(p, dll, n)
<1> DEFINE k == One(p.ref) + One(p.array)
           to == Add(GetType[p.e], k)
           c == TypeCast(n.val, to)
<1>1. p.e \in AllNamed /\ p.ref \in BOOLEAN /\ p.array \in BOOLEAN
  BY NamedAssumption DEF Params
<1>2. k \in Nat /\ ParamType(p, dll) = to /\ k = (IF p.ref /\ p.array THEN 2 ELSE IF p.ref # p.array THEN 1 ELSE 0)
  BY <1>1, OnesAre DEF ParamType
<1>3. ~Fails(to) /\ to # Bad /\ to \in Types /\ Add(GetType[p.e], 0) = GetType[p.e]
  BY <1>1, <1>2, Solids
<1>4. c \in {to, Bad}
  BY CastGives
<1>5. dll => c # TextPtr
  <2>1. ASSUME dll PROVE to # TextPtr
    <3>1. /\ to = T(BaseOf[p.e], One(p.e = "raw") + k)
          /\ BaseOf[p.e] # "text"
      <4>1. /\ GetType[p.e] = T(BaseOf[p.e], One(p.e = "raw")) /\ One(p.e = "raw") \in Nat
            /\ BaseOf[p.e] = "text" <=> p.e = "text"
        BY <1>1, NamedIs
      <4>2. p.e # "text"
        BY <2>1
      <4> QED BY <1>2, <4>1, <4>2, AddIs
    <3> QED BY <3>1, SameType DEF TextPtr
  <2> QED BY <1>4, <2>1, SameType DEF Bad, TextPtr
<1>6. Passed(p, dll, n.val) = c
  BY <1>2, <1>5 DEF Passed, Characters
<1>7. c = to <=> Passable(p, dll, n)
  <2>1. CASE k = 0
    <3>1. Fits(p.e, n) /\ ~p.ref /\ ~p.array
      BY <1>1, <1>2, <2>1 DEF FitsParam
    <3>2. c = IF Castable(p.e, n) THEN GetType[p.e] ELSE Bad
      BY <1>1, <1>3, <2>1, <3>1, CastFits
    <3>3. Passable(p, dll, n) <=> Castable(p.e, n)
      BY <3>1 DEF Passable
    <3> QED BY <1>3, <2>1, <3>2, <3>3
  <2>2. CASE k > 0
    <3>1. n.e = p.e /\ (p.ref \/ p.array)
      BY <1>1, <1>2, <2>2 DEF FitsParam
    <3>2. c = IF k = 1 /\ n.how \in {"place", "ref", "chars"} THEN to ELSE Bad
      BY <1>1, <1>2, <2>2, <3>1, CastRef
    <3>3. Passable(p, dll, n) <=> k = 1 /\ n.how \in {"place", "ref", "chars"}
      BY <1>1, <1>2, <3>1 DEF Passable
    <3> QED BY <1>3, <3>2, <3>3
  <2> QED BY <1>2, <2>1, <2>2
<1> QED BY <1>2, <1>3, <1>4, <1>6, <1>7 DEF Fails

(* A text is passed to a dll as characters.                                *)
LEMMA TextPassed ==
  ASSUME NEW n \in Good, NEW p \in Params, p.e = "text", FitsParam(p, n)
  PROVE  LET t == Passed(p, TRUE, n.val) IN
         ~Fails(t) /\ t = ParamType(p, TRUE) <=> Passable(p, TRUE, n)
<1> DEFINE k == One(p.ref) + One(p.array)
           to == T("i8", k)
           c == TypeCast(n.val, to)
<1>1. p.ref \in BOOLEAN /\ p.array \in BOOLEAN
  BY DEF Params
<1>2. k \in Nat /\ ParamType(p, TRUE) = to /\ k = (IF p.ref /\ p.array THEN 2 ELSE IF p.ref # p.array THEN 1 ELSE 0)
  BY <1>1, OnesAre, AddIs DEF ParamType, I8
<1>3. ~Fails(to) /\ to # Bad /\ to # TextPtr
  BY <1>2, FailsIs, SameType DEF Bad, TextPtr
<1>4. c \in {to, Bad}
  BY CastGives
<1>5. c # TextPtr
  BY <1>3, <1>4, SameType DEF Bad, TextPtr
<1>6. Passed(p, TRUE, n.val) = c
  BY <1>2, <1>5 DEF Passed, Characters
<1>7. n.e = "text" /\ (n.how = "chars" => ~n.array) /\ n.e \in AllNamed /\ (n.e \notin Numeric)
  <2>1. n.e = "text"
    BY <1>1 DEF FitsParam, Fits, Numeric, Integral
  <2>2. n.how = "chars" => ~n.array
    BY GoodIs DEF Agrees, Arrayed
  <2> QED BY <2>1, <2>2 DEF AllNamed, Numeric, Integral
<1>8. BaseOf[n.e] = "text" /\ One(n.e = "raw") = 0 /\ n.how \in Hows
  BY <1>7, NamedIs, GoodIs
<1>9. {"text", "i8"} \subseteq Solid
  BY DEF Solid, Bases
<1>10. c = to <=> Passable(p, TRUE, n)
  <2>1. CASE n.how = "value"
    <3>1. n.val = T("text", 0)
      BY <1>7, <1>8, <2>1, ValIs
    <3>2. ~Casts("text", 0, "i8", k)
      BY DEF Casts, IntBases
    <3>3. c = Bad
      BY <1>2, <1>9, <3>1, <3>2, CastIs
    <3> QED BY <1>1, <1>3, <1>7, <2>1, <3>3 DEF Passable
  <2>2. CASE n.how \in {"place", "ref"}
    <3>1. n.val = T("text", 1)
      BY <1>7, <1>8, <2>2, ValIs
    <3>2. Casts("text", 1, "i8", k) <=> k = 1
      BY <1>2 DEF Casts, IntBases
    <3>3. c = to <=> k = 1
      BY <1>2, <1>3, <1>9, <3>1, <3>2, CastIs
    <3> QED BY <1>1, <1>2, <1>7, <2>2, <3>3 DEF Passable
  <2>3. CASE n.how = "chars"
    <3>1. n.val = T("i8", 1)
      BY <1>7, <2>3, ValIs
    <3>2. Casts("i8", 1, "i8", k) <=> k \in {0, 1}
      BY <1>2 DEF Casts, IntBases
    <3>3. c = to <=> k \in {0, 1}
      BY <1>2, <1>3, <1>9, <3>1, <3>2, CastIs
    <3> QED BY <1>1, <1>2, <1>7, <2>3, <3>3 DEF Passable
  <2>4. CASE n.how = "broken"
    <3>1. c = Bad
      BY <1>7, <2>4, ValIs, FailedCast
    <3> QED BY <1>1, <1>3, <1>7, <2>4, <3>1 DEF Passable
  <2> QED BY <1>7, <1>8, <2>1, <2>2, <2>3, <2>4, ValIs DEF Hows
<1> QED BY <1>2, <1>3, <1>4, <1>6, <1>10 DEF Fails

LEMMA ArgumentFits ==
  ASSUME NEW n \in Good, NEW p \in Params, NEW dll \in BOOLEAN, FitsParam(p, n)
  PROVE  LET t == Passed(p, dll, n.val) IN
         ~Fails(t) /\ t = ParamType(p, dll) <=> Passable(p, dll, n)
<1>1. CASE dll /\ p.e = "text"
  BY <1>1, TextPassed
<1>2. CASE ~(dll /\ p.e = "text")
  BY <1>2, PassedFits
<1> QED BY <1>1, <1>2

LEMMA ExtraFits ==
  ASSUME NEW n \in Good, NEW dll \in BOOLEAN, n.e # "none"
  PROVE  ~Fails(Characters(n.val, dll)) <=> n.how # "broken"
<1>1. n.how = "broken" <=> Fails(n.val)
  BY GoodIs DEF Agrees, Formed
<1>2. TypeCast(TextPtr, I8Ptr) = I8Ptr /\ ~Fails(I8Ptr) /\ ~Fails(TextPtr)
  <2>1. Casts("text", 1, "i8", 1) /\ "text" \in Solid /\ "i8" \in Solid
    BY DEF Casts, Solid, Bases
  <2> QED BY <2>1, CastIs, FailsIs DEF TextPtr, I8Ptr
<1> QED BY <1>1, <1>2 DEF Characters

-----------------------------------------------------------------------------
(* Assignments.                                                            *)
LEMMA NoStore ==
  /\ \A value, address \in Types : address.ptr = 0 => ~Store(value, address)
  /\ \A t \in Types : ~Store(Ptr(t), Ptr(t))
  /\ \A address : ~Store(Bad, address)
<1>1. \A t \in Types : Ptr(t) = T(t.base, t.ptr + 1) /\ Ptr(t).ptr = t.ptr + 1 /\ Ptr(t).ptr \in Nat
  BY TypesAre, TypeParts DEF Ptr, Add
<1> QED BY <1>1, TypesAre DEF Store, Fails

LEMMA CastStore ==
  \A r, t \in Types : \A address : Store(TypeCast(r, t), address) =>
    TypeCast(r, t) = t /\ ~Fails(t) /\ address = Ptr(t)
  BY CastGives DEF Store, Fails

LEMMA AssignFits ==
  ASSUME NEW l \in Good, NEW r \in Good, l.place, l.e # "none", ~l.array, Fits(l.e, r)
  PROVE  Assigned(l, r) <=> Assignable(l, r)
<1> DEFINE b == BaseOf[l.e] p == One(l.e = "raw") g == GetType[l.e]
<1>1. /\ l.e \in AllNamed /\ l.gap \in {"none", "depth", "bad"}
      /\ l.how \in {"value", "place", "ref", "broken"}
      /\ IF l.how = "broken" THEN Fails(l.lhs) ELSE l.lhs = Ptr(g)
  BY GoodIs DEF Agrees, Located
<1>2. /\ l.how # "broken" => Told(l)
      /\ l.gap = "bad" => l.type = Bad \/ (l.type = Null /\ Fails(l.val))
      /\ l.type = I8Ptr => l.gap = "chars" \/ l.e = "raw" \/ l.val = I8Ptr
      /\ l.how = "broken" <=> Fails(l.val)
      /\ l.how = "value" => l.val = g
      /\ l.how = "ref" => l.e \notin LikeChars
  BY <1>1, GoodIs, ValIs DEF Agrees
<1>3. /\ g = T(b, p) /\ p = (IF l.e = "raw" THEN 1 ELSE 0) /\ p \in Nat /\ b \in Solid
      /\ b = "i8" <=> l.e \in {"byte", "bool", "raw"}
      /\ b = "text" <=> l.e = "text"
  BY <1>1, NamedIs
<1>4. /\ Ptr(g) = T(b, p + 1) /\ Ptr(Ptr(g)) = T(b, p + 2)
      /\ g \in Types /\ Ptr(g) \in Types /\ ~Fails(g)
  BY <1>1, <1>3, PtrIs, NamedTypes, PtrType, Solids
<1>5. /\ l.type \in Types /\ l.lhs \in Types /\ r.val \in Types /\ r.lhs \in Types
      /\ \A t \in Types : TypeCast(r.val, t) \in Types
  BY GoodIs, CastType
<1>6. I8Ptr = T("i8", 1) /\ TextPtr = T("text", 1) /\ Text = T("text", 0) /\ I8 = T("i8", 0)
      /\ Bad = T("bad", 0) /\ Null = T("null", 0)
  BY DEF I8Ptr, TextPtr, Text, I8, Bad, Null
<1>7. /\ r.e \in AllNamed /\ ~r.array /\ r.how \in Hows
      /\ r.e = l.e \/ (l.e \in Numeric /\ r.e \in Numeric)
      /\ l.e \in {"text", "raw"} => r.e = l.e
  BY <1>1, GoodIs DEF Fits, AllNamed, Numeric, Integral
<1>8. /\ r.gap = "bad" => r.type = Bad \/ (r.type = Null /\ Fails(r.val))
      /\ r.how = "broken" <=> Fails(r.val)
      /\ r.how # "broken" => Told(r)
      /\ r.how # "broken" /\ r.gap # "bad" => r.type # Bad
      /\ r.how # "broken" /\ r.gap = "bad" => r.type = Bad
  BY <1>7, GoodIs, ValIs DEF Agrees, Told, Fails
<1>9. ASSUME l.type # I8Ptr \/ r.type # I8Ptr, l.type # Text
      PROVE  /\ Assigned(l, r) <=> l.type # Bad /\ r.type # Bad /\ Store(TypeCast(r.val, l.type), l.lhs)
  BY <1>9 DEF Assigned
<1> HIDE DEF b, p, g
<1>a. CASE l.how = "broken"
  <2>1. l.lhs.ptr = 0 /\ l.lhs # TextPtr
    BY <1>1, <1>6, <1>a, TypeParts, SameType DEF Fails
  <2>2. ~StringCopy(l.lhs, r.val)
    BY <2>1 DEF StringCopy
  <2>3. \A v \in Types : ~Store(v, l.lhs)
    BY <1>5, <2>1, NoStore
  <2>4. ~Assigned(l, r)
    BY <1>5, <2>2, <2>3 DEF Assigned
  <2> QED BY <1>a, <2>4 DEF Assignable
<1>b. CASE l.how = "ref"
  <2>1. l.type = Ptr(g)
    BY <1>2, <1>b DEF Told, g
  <2>2. l.type # I8Ptr /\ l.type # Text
    BY <1>1, <1>2, <1>3, <1>4, <1>6, <1>b, <2>1, SameType DEF LikeChars
  <2>3. ~Store(TypeCast(r.val, l.type), l.lhs)
    BY <1>1, <1>4, <1>5, <1>b, <2>1, CastStore, NoStore
  <2>4. ~Assigned(l, r)
    BY <1>9, <2>2, <2>3
  <2> QED BY <1>b, <2>4 DEF Assignable
<1>c. CASE l.how \in {"value", "place"} /\ l.gap = "bad"
  <2>1. l.type = Bad
    BY <1>2, <1>c
  <2> QED BY <1>c, <2>1 DEF Assigned, Assignable
<1>d. CASE l.how \in {"value", "place"} /\ l.gap = "depth"
  <2>1. l.how = "value" /\ (l.type = Ptr(g) \/ (l.e = "raw" /\ l.type = I8))
    BY <1>2, <1>d DEF Told, g
  <2>2. l.type # I8Ptr
    <3>1. ASSUME l.type = I8Ptr PROVE FALSE
      <4>1. l.e # "raw"
        BY <1>3, <1>4, <1>6, <2>1, <3>1, SameType
      <4>2. l.val = I8Ptr /\ l.type = Ptr(g) /\ l.val = g
        BY <1>2, <1>d, <2>1, <3>1, <4>1
      <4> QED BY <1>3, <1>4, <1>6, <3>1, <4>2, SameType
    <3> QED BY <3>1
  <2>3. l.type # Text
    BY <1>3, <1>4, <1>6, <2>1, SameType
  <2>4. ~Store(TypeCast(r.val, l.type), l.lhs)
    <3>1. CASE l.type = Ptr(g)
      BY <1>1, <1>4, <1>5, <1>d, <3>1, CastStore, NoStore
    <3>2. CASE l.e = "raw" /\ l.type = I8
      <4>1. Ptr(I8) = T("i8", 1) /\ l.lhs = T(b, p + 1) /\ p = 1
        BY <1>1, <1>3, <1>4, <1>6, <1>d, <3>2, PtrIs
      <4>2. l.lhs # Ptr(I8)
        BY <4>1, SameType
      <4> QED BY <1>5, <3>2, <4>2, CastStore
    <3> QED BY <2>1, <3>1, <3>2
  <2>5. ~Assigned(l, r)
    BY <1>9, <2>2, <2>3, <2>4
  <2> QED BY <1>d, <2>5 DEF Assignable
<1>e. CASE l.how \in {"value", "place"} /\ l.gap = "none"
  <2>1. l.type = g /\ l.lhs = Ptr(g) /\ l.type # Bad
    <3>1. l.type = g
      BY <1>2, <1>e DEF Told, g
    <3> QED BY <1>1, <1>4, <1>e, <3>1 DEF Fails
  <2>2. CASE l.e = "text"
    <3>1. l.type = Text /\ l.lhs = TextPtr /\ l.type # I8Ptr
      BY <1>3, <1>4, <1>6, <2>1, <2>2, SameType
    <3>2. Assigned(l, r) <=> r.type # Bad /\ StringCopy(TextPtr, r.val)
      BY <2>1, <3>1 DEF Assigned
    <3>3. r.e = "text" /\ BaseOf[r.e] = "text" /\ One(r.e = "raw") = 0
      BY <1>7, <2>2, NamedIs
    <3>4. StringCopy(TextPtr, r.val) <=> r.val \in {TextPtr, I8Ptr}
      BY <1>6, SameType DEF StringCopy, StringCreate, PushFree
    <3>5. r.val \in {TextPtr, I8Ptr} <=> r.how \in {"place", "ref", "chars"}
      <4>1. CASE r.how = "broken"
        BY <1>6, <1>8, <4>1, FailsIs
      <4>2. CASE r.how # "broken"
        BY <1>6, <1>7, <3>3, <4>2, ValIs, SameType DEF Hows
      <4> QED BY <4>1, <4>2
    <3>6. Assignable(l, r) <=> r.gap # "bad" /\ r.how \in {"place", "ref", "chars"}
      BY <1>e, <2>2 DEF Assignable
    <3> QED BY <1>8, <3>2, <3>4, <3>5, <3>6
  <2>3. CASE l.e = "raw"
    <3>1. l.type = I8Ptr /\ l.lhs = Ptr(I8Ptr) /\ l.type # Text /\ g = I8Ptr
      BY <1>3, <1>4, <1>6, <2>1, <2>3, SameType
    <3>2. Assigned(l, r) <=> /\ r.type # Bad
                             /\ IF r.type = I8Ptr THEN Store(IF r.lhs = Null THEN r.val ELSE r.lhs, Ptr(I8Ptr))
                                ELSE Store(TypeCast(r.val, I8Ptr), Ptr(I8Ptr))
      BY <2>1, <3>1 DEF Assigned
    <3>3. Assignable(l, r) <=> /\ r.gap # "bad"
                               /\ \/ r.how = "value" /\ (r.gap = "none" => ~r.place)
                                  \/ r.how = "ref" \/ (r.how = "place" /\ r.gap = "table")
      BY <1>e, <2>3 DEF Assignable
    <3>4. r.e = "raw" /\ GetType[r.e] = I8Ptr /\ r.e \in AllNamed
      BY <1>7, <2>3, <3>1 DEF g
    <3>5. Ptr(I8Ptr) = T("i8", 2) /\ ~Fails(I8Ptr) /\ ~Fails(Ptr(I8Ptr))
      BY <1>6, PtrIs, FailsIs
    <3>6. \A v \in Types : Store(v, Ptr(I8Ptr)) <=> v = I8Ptr
      <4>1. \A v \in Types : Ptr(v) = T(v.base, v.ptr + 1) /\ v = T(v.base, v.ptr) /\ v.ptr \in Nat
        BY TypesAre, PtrIs
      <4> QED BY <1>6, <3>5, <4>1, SameType DEF Store
    <3>7. CASE r.how = "broken"
      <4>1. TypeCast(r.val, I8Ptr) = Bad
        BY <1>8, <3>7, FailedCast
      <4>2. r.lhs = Null \/ Fails(r.lhs)
        BY <3>4, <3>7, GoodIs DEF Agrees, Located, AllNamed, Numeric, Integral
      <4>3. ~Store(r.val, Ptr(I8Ptr)) /\ ~Store(Bad, Ptr(I8Ptr)) /\ (Fails(r.lhs) => ~Store(r.lhs, Ptr(I8Ptr)))
        BY <1>8, <3>7, NoStore DEF Store
      <4> QED BY <3>2, <3>3, <3>7, <4>1, <4>2, <4>3
    <3>8. CASE r.how # "broken" /\ r.gap = "bad"
      BY <1>8, <3>2, <3>3, <3>8
    <3>9. CASE r.how = "value" /\ r.gap # "bad"
      <4>1. r.val = I8Ptr /\ TypeCast(r.val, I8Ptr) = I8Ptr /\ r.type # Bad
        <5>1. r.val = I8Ptr
          BY <3>4, <3>9, GoodIs DEF Agrees, Formed
        <5>2. Casts("i8", 1, "i8", 1) /\ "i8" \in Solid
          BY DEF Casts, Solid, Bases
        <5> QED BY <1>6, <1>8, <3>9, <5>1, <5>2, CastIs
      <4>2. r.gap = "none" <=> r.type = I8Ptr
        <5>1. r.gap = "none" => r.type = I8Ptr
          BY <1>8, <3>4, <3>9 DEF Told
        <5>2. ASSUME r.type = I8Ptr PROVE r.gap = "none"
          <6>1. r.gap \in Gaps /\ r.gap # "chars"
            BY <3>4, GoodIs DEF Agrees
          <6>2. r.gap \notin {"flag", "star", "table"}
            BY <1>8, <3>4, <3>9, <5>2 DEF Told
          <6>3. r.gap # "depth"
            BY <1>6, <1>8, <3>4, <3>5, <3>9, <5>2, SameType DEF Told
          <6> QED BY <3>9, <6>1, <6>2, <6>3 DEF Gaps
        <5> QED BY <5>1, <5>2
      <4>3. r.lhs = Null <=> ~r.place
        <5>1. r.place => r.lhs = Ptr(I8Ptr)
          BY <3>4, <3>9, GoodIs DEF Agrees, Located, AllNamed, Numeric, Integral
        <5>2. ~r.place => r.lhs = Null
          BY GoodIs DEF Agrees, Located
        <5> QED BY <1>6, <3>5, <5>1, <5>2, SameType
      <4>4. r.place => r.lhs # I8Ptr
        BY <1>6, <3>4, <3>5, <3>9, GoodIs, SameType DEF Agrees, Located, AllNamed, Numeric, Integral
      <4> QED BY <1>5, <3>2, <3>3, <3>6, <3>9, <4>1, <4>2, <4>3, <4>4, NamedTypes
    <3>10. CASE r.how \in {"place", "ref"} /\ r.gap # "bad"
      <4>1. r.val = Ptr(I8Ptr) /\ TypeCast(r.val, I8Ptr) = I8Ptr /\ r.type # Bad
        <5>1. r.val = Ptr(I8Ptr)
          BY <3>4, <3>10, GoodIs DEF Agrees, Formed
        <5>2. Casts("i8", 2, "i8", 1) /\ "i8" \in Solid
          BY DEF Casts, Solid, Bases
        <5> QED BY <1>6, <1>8, <3>5, <3>10, <5>1, <5>2, CastIs
      <4>2. r.lhs # I8Ptr /\ r.val # I8Ptr
        <5>1. r.place => r.lhs = Ptr(I8Ptr)
          BY <3>4, <3>10, GoodIs DEF Agrees, Located, AllNamed, Numeric, Integral
        <5>2. ~r.place => r.lhs = Null
          BY GoodIs DEF Agrees, Located
        <5> QED BY <1>6, <3>5, <4>1, <5>1, <5>2, SameType
      <4>3. Assigned(l, r) <=> r.type # I8Ptr
        BY <1>5, <3>2, <3>6, <4>1, <4>2, NamedTypes
      <4>4. r.how = "ref" => r.gap = "none" /\ r.type = Ptr(I8Ptr)
        BY <1>7, <1>8, <3>4, <3>10 DEF Told
      <4>5. r.how = "place" => (r.gap = "table" <=> r.type # I8Ptr)
        <5>1. ASSUME r.how = "place" PROVE r.gap \in {"none", "star", "table"}
          <6>1. r.gap \in Gaps /\ r.gap # "chars"
            BY <3>4, GoodIs DEF Agrees
          <6>2. r.gap \notin {"flag", "depth"}
            BY <1>8, <5>1 DEF Told
          <6> QED BY <3>10, <6>1, <6>2 DEF Gaps
        <5>2. ASSUME r.how = "place" PROVE (r.gap = "table" <=> r.type # I8Ptr)
          BY <1>8, <3>4, <5>1, <5>2 DEF Told
        <5> QED BY <5>2
      <4> QED BY <1>6, <3>3, <3>5, <3>10, <4>3, <4>4, <4>5, SameType
    <3>11. CASE r.how \in {"chars", "number", "bit"}
      BY <3>4, <3>11, ValIs
    <3> QED BY <1>7, <3>7, <3>8, <3>9, <3>10, <3>11 DEF Hows
  <2>4. CASE l.e \notin {"text", "raw"}
    <3>1. l.type # I8Ptr /\ l.type # Text
      BY <1>3, <1>6, <2>1, <2>4, SameType
    <3>2. TypeCast(r.val, g) = IF Castable(l.e, r) THEN g ELSE Bad
      BY <1>1, CastFits DEF g
    <3>3. Store(g, Ptr(g)) /\ ~Store(Bad, Ptr(g))
      BY <1>4, NoStore DEF Store
    <3>4. Assigned(l, r) <=> r.type # Bad /\ Castable(l.e, r)
      BY <1>9, <2>1, <3>1, <3>2, <3>3
    <3>5. Assignable(l, r) <=> r.gap # "bad" /\ Castable(l.e, r)
      BY <1>e, <2>4 DEF Assignable
    <3>6. Castable(l.e, r) => r.how # "broken"
      BY DEF Castable
    <3> QED BY <1>8, <3>4, <3>5, <3>6
  <2> QED BY <2>2, <2>3, <2>4
<1> QED BY <1>1, <1>a, <1>b, <1>c, <1>d, <1>e

-----------------------------------------------------------------------------
(* The nodes: made from good ones, each is good.                           *)
LEMMA NodeIs ==
  ASSUME NEW e, NEW array, NEW place, NEW how, NEW gap, NEW type, NEW lhs, NEW val
  PROVE  LET n == Node(e, array, place, how, gap, type, lhs, val) IN
         /\ n.e = e /\ (n.array <=> e # "none" /\ array) /\ n.place = place
         /\ n.how = IF e = "none" THEN "broken" ELSE how
         /\ n.gap = IF e # "raw" /\ type = I8Ptr /\ val # I8Ptr THEN "chars" ELSE gap
         /\ n.type = type /\ n.lhs = lhs /\ n.val = val
  BY DEF Node

LEMMA NodeType ==
  ASSUME NEW e \in AllNamed \cup {"none", "void"}, NEW array \in BOOLEAN, NEW place \in BOOLEAN,
         NEW how \in Hows, NEW gap \in Gaps, NEW type \in Types, NEW lhs \in Types, NEW val \in Types
  PROVE  Node(e, array, place, how, gap, type, lhs, val) \in Nodes
  BY DEF Node, Nodes, Hows, Gaps

(* What is not promised has little to keep.                                *)
LEMMA NoneGood ==
  ASSUME NEW place \in BOOLEAN, NEW how \in Hows, NEW gap \in Gaps, NEW array \in BOOLEAN,
         NEW type \in Types, NEW lhs \in Types, NEW val \in Types,
         ~place => lhs = Null,
         place => lhs.base = type.base \/ Fails(lhs) \/ Fails(type),
         gap = "bad" => type = Bad \/ (type = Null /\ Fails(val)),
         gap = "chars" => type = I8Ptr /\ val # I8Ptr,
         ~Fails(type) /\ ~Fails(val) /\ (type = I8Ptr => val = I8Ptr) =>
           Announces(Node("none", array, place, how, gap, type, lhs, val))
  PROVE  Node("none", array, place, how, gap, type, lhs, val) \in Good
<1> DEFINE n == Node("none", array, place, how, gap, type, lhs, val)
<1>1. n \in Nodes
  BY NodeType
<1>2. /\ n.e = "none" /\ ~n.array /\ n.place = place /\ n.type = type /\ n.lhs = lhs /\ n.val = val
      /\ n.gap = IF type = I8Ptr /\ val # I8Ptr THEN "chars" ELSE gap
  BY NodeIs
<1> HIDE DEF n
<1>3. Formed(n) /\ Located(n) /\ Arrayed(n) /\ n.e \notin AllNamed
  BY <1>2 DEF Formed, Located, Arrayed, AllNamed, Numeric, Integral
<1>4. ~Fails(n.type) /\ ~Fails(n.val) => Announces(n)
  <2>1. CASE type = I8Ptr /\ val # I8Ptr
    BY <1>2, <2>1 DEF Announces
  <2>2. CASE ~(type = I8Ptr /\ val # I8Ptr)
    BY <1>2, <2>2 DEF n
  <2> QED BY <2>1, <2>2
<1>5. Agrees(n)
  <2>1. n.type # Bad => (n.gap = "bad" => n.type = Null /\ Fails(n.val))
    BY <1>2, SameType DEF I8Ptr, Bad, Null
  <2>2. n.gap = "chars" => n.type = I8Ptr /\ n.val # I8Ptr /\ n.e # "raw"
    BY <1>2
  <2>3. n.type = I8Ptr => n.gap = "chars" \/ n.e = "raw" \/ n.val = I8Ptr
    BY <1>2
  <2> QED BY <1>3, <1>4, <2>1, <2>2, <2>3 DEF Agrees
<1> QED BY <1>1, <1>5 DEF Good, n

LEMMA ConstantGood ==
  ASSUME NEW e \in {"text", "bool", "int", "double", "date"} PROVE Constant(e) \in Good
<1>1. I8Ptr \in Types /\ I32 \in Types /\ I1 \in Types /\ Null \in Types
  BY NamedTypes
<1>2. /\ I8Ptr = T("i8", 1) /\ I32 = T("i32", 0) /\ I1 = T("i1", 0)
      /\ ~Fails(I8Ptr) /\ ~Fails(I32) /\ ~Fails(I1) /\ I32 # I8Ptr /\ I1 # I8Ptr /\ I32 # Bad /\ I1 # Null
  BY FailsIs, SameType DEF I8Ptr, I32, I1, Bad, Null
<1>3. GetType["int"] = I32
  BY DEF GetType
<1>4. e \in AllNamed /\ e # "none" /\ e # "raw"
  BY DEF AllNamed, Numeric, Integral
<1>5. PICK how \in Hows, gap \in Gaps, t \in Types, v \in Types :
        /\ Constant(e) = Node(e, FALSE, FALSE, how, gap, t, Null, v)
        /\ how = (CASE e = "text" -> "chars" [] e = "bool" -> "bit" [] e = "int" -> "value" [] OTHER -> "number")
        /\ gap = (IF e = "bool" THEN "flag" ELSE "none")
        /\ t = (IF e = "text" THEN I8Ptr ELSE I32)
        /\ v = (CASE e = "text" -> I8Ptr [] e = "bool" -> I1 [] OTHER -> I32)
  <2>1. CASE e = "text"
    BY <1>1, <2>1 DEF Constant, Value, Hows, Gaps
  <2>2. CASE e = "bool"
    BY <1>1, <2>2 DEF Constant, Value, Hows, Gaps
  <2>3. CASE e = "int"
    BY <1>1, <2>3 DEF Constant, Value, Hows, Gaps
  <2>4. CASE e \in {"double", "date"}
    BY <1>1, <2>4 DEF Constant, Value, Hows, Gaps
  <2> QED BY <2>1, <2>2, <2>3, <2>4
<1> DEFINE n == Node(e, FALSE, FALSE, how, gap, t, Null, v)
<1>6. n \in Nodes
  BY <1>1, <1>4, NodeType
<1>7. /\ n.e = e /\ ~n.array /\ ~n.place /\ n.lhs = Null
      /\ n.how = how /\ n.gap = gap /\ n.type = t /\ n.val = v
  BY <1>2, <1>4, <1>5 DEF Node
<1> HIDE DEF n
<1>8. Formed(n) /\ Located(n) /\ Arrayed(n)
  BY <1>2, <1>3, <1>5, <1>7 DEF Formed, Located, Arrayed, LikeChars
<1>9. Told(n) /\ Announces(n)
  BY <1>2, <1>3, <1>5, <1>7 DEF Told, Announces
<1>10. Agrees(n)
  BY <1>2, <1>5, <1>7, <1>8, <1>9 DEF Agrees
<1> QED BY <1>5, <1>6, <1>10 DEF Good, n

LEMMA UnhandledGood ==
  ASSUME NEW e \in {"raw", "int", "none"} PROVE Unhandled(e) \in Good
<1>1. Null \in Types /\ Fails(Null) /\ Null # I8Ptr
  BY NamedTypes, SameType DEF Fails, Null, I8Ptr
<1> DEFINE n == Node(e, FALSE, FALSE, "broken", "bad", Null, Null, Null)
<1>2. Unhandled(e) = n
  BY DEF Unhandled, Value
<1>3. n \in Nodes
  BY <1>1, <1>2, NodeType DEF AllNamed, Numeric, Integral, Hows, Gaps
<1>4. /\ n.e = e /\ ~n.array /\ ~n.place /\ n.lhs = Null /\ n.how = "broken"
      /\ n.gap = "bad" /\ n.type = Null /\ n.val = Null
  BY <1>1 DEF Node
<1> HIDE DEF n
<1>5. Agrees(n)
  BY <1>1, <1>4 DEF Agrees, Formed, Located, Arrayed
<1> QED BY <1>2, <1>3, <1>5 DEF Good

LEMMA UntranslatedGood ==
  ASSUME NEW first \in Types, NEW table \in Tables PROVE Untranslated(first, table) \in Good
<1>1. Announced(table, first) \in Types /\ I32 \in Types /\ Null \in Types
  BY NamedTypes, NamedAssumption DEF Announced, Tables
<1>2. Untranslated(first, table) = Node("none", FALSE, FALSE, "value", "table", Announced(table, first), Null, I32)
  BY DEF Untranslated, Value
<1> DEFINE n == Node("none", FALSE, FALSE, "value", "table", Announced(table, first), Null, I32)
<1>3. (Announced(table, first) = I8Ptr => I32 = I8Ptr) => Announces(n)
  <2>1. ASSUME Announced(table, first) = I8Ptr => I32 = I8Ptr PROVE n.gap = "table"
    BY <2>1 DEF Node
  <2> QED BY <2>1 DEF Announces
<1>4. "value" \in Hows /\ "table" \in Gaps
  BY DEF Hows, Gaps
<1> QED BY <1>1, <1>2, <1>3, <1>4, NoneGood

LEMMA OtherGood ==
  ASSUME NEW e \in AllNamed, NEW array \in BOOLEAN
  PROVE  Node(e, array, TRUE, "broken", "bad", Bad, Null, Bad) \in Good
<1> DEFINE n == Node(e, array, TRUE, "broken", "bad", Bad, Null, Bad)
<1>1. Bad \in Types /\ Null \in Types /\ Bad # I8Ptr /\ Fails(Bad) /\ Fails(Null)
  BY NamedTypes, SameType DEF Bad, Null, I8Ptr, Fails
<1>2. n \in Nodes
  BY <1>1, NodeType DEF Hows, Gaps
<1>3. /\ n.e = e /\ (n.array <=> array) /\ n.place /\ n.how = "broken" /\ n.gap = "bad"
      /\ n.type = Bad /\ n.lhs = Null /\ n.val = Bad /\ e # "none" /\ e \in AllNamed
  BY <1>1 DEF Node, AllNamed, Numeric, Integral
<1> HIDE DEF n
<1>4. Agrees(n)
  BY <1>1, <1>3 DEF Agrees, Formed, Located, Arrayed
<1> QED BY <1>2, <1>4 DEF Good, n

LEMMA VariableGood == ASSUME NEW d \in Decls PROVE Variable(d) \in Good
<1> DEFINE b == BaseOf[d.e] p == One(d.e = "raw") k == Refs(d) s == d.stars
           slot == T(b, p + k + s) lhs == T(b, p + s + 1)
           how == IF k > 0 THEN "ref" ELSE IF IsAddressed(slot) THEN "place" ELSE "value"
           gap == IF k = 2 THEN "depth" ELSE "none"
           val == IF IsAddressed(slot) THEN lhs ELSE Load(lhs)
           n == Node(Means(d), d.array, TRUE, how, gap, slot, lhs, val)
<1>1. /\ d.e \in AllNamed /\ d.kind \in {"param", "local", "other"} /\ d.ref \in BOOLEAN
      /\ d.array \in BOOLEAN /\ s \in Nat
      /\ d.ref => d.kind = "param"
      /\ s > 0 => d.kind = "local"
  BY NamedAssumption, BoundsAssumption DEF Decls
<1>2. /\ GetType[d.e] = T(b, p) /\ p = (IF d.e = "raw" THEN 1 ELSE 0) /\ p \in Nat /\ b \in Solid
      /\ b \in Bases /\ b \notin {"bad", "null"}
      /\ b = "i8" <=> d.e \in {"byte", "bool", "raw"}
      /\ b = "text" <=> d.e = "text"
      /\ b = "rec" <=> d.e = "rec"
  BY <1>1, NamedIs DEF Solid
<1>3. /\ k \in {0, 1, 2} /\ k \in Nat
      /\ k > 0 <=> d.kind = "param" /\ (d.ref \/ d.array)
      /\ k = 2 <=> d.kind = "param" /\ d.ref /\ d.array
  BY <1>1, OnesAre DEF Refs
<1>4. Slot(d) = slot
  <2>1. k + s \in Nat /\ p + (k + s) = p + k + s
    BY <1>1, <1>2, <1>3
  <2>2. Add(T(b, p), k + s) = T(b, p + (k + s))
    BY <1>2, <2>1, AddIs
  <2> QED BY <1>2, <2>1, <2>2 DEF Slot
<1>5. VariableLHS(d) = lhs
  BY <1>1, <1>2, <1>3, <1>4, TypeParts DEF VariableLHS
<1>6. d.kind # "other" => Variable(d) = n
  BY <1>4, <1>5 DEF Variable
<1>7. /\ slot \in Types /\ lhs \in Types /\ val \in Types /\ how \in Hows /\ gap \in Gaps
      /\ ~Fails(slot) /\ ~Fails(lhs) /\ slot.base = b /\ lhs.base = b
      /\ Load(lhs) = T(b, p + s)
  BY <1>1, <1>2, <1>3, TypesAre, FailsIs, TypeParts, LoadIs, LoadType DEF Hows, Gaps
<1>8. Means(d) \in {"none", d.e} /\ (Means(d) = d.e => s = 0 /\ (d.ref => d.e \notin LikeChars)) /\ d.e # "none"
  BY <1>1 DEF Means, AllNamed, Numeric, Integral
<1>9. IsAddressed(slot) <=> p + k + s > 0 \/ d.e \in {"text", "rec"}
  <2>1. p + k + s \in Nat /\ slot.ptr = p + k + s
    BY <1>1, <1>2, <1>3, TypeParts
  <2>2. slot \in {Text, Rec} <=> p + k + s = 0 /\ b \in {"text", "rec"}
    BY SameType DEF Text, Rec
  <2> HIDE DEF slot, b, p, k, s
  <2> QED BY <1>2, <2>1, <2>2 DEF IsAddressed
<1>10. val = IF IsAddressed(slot) THEN T(b, p + s + 1) ELSE T(b, p + s)
  BY <1>7
<1> HIDE DEF b, p, k, s
<1>a. CASE d.kind = "other"
  <2>1. Means(d) = d.e
    BY <1>1, <1>a DEF Means, s
  <2> QED BY <1>1, <1>a, <2>1, OtherGood DEF Variable
<1>b. CASE d.kind # "other" /\ Means(d) = "none"
  <2>1. ASSUME slot = I8Ptr => val = I8Ptr PROVE Announces(n)
    <3>1. n.gap = gap /\ n.type = slot /\ n.val = val
      BY <2>1, <1>b DEF Node
    <3>2. CASE k = 0
      <4>1. slot = T(b, p + s) /\ (val = slot \/ (IsAddressed(slot) /\ val = Ptr(slot)))
        BY <1>1, <1>2, <1>10, <3>2, PtrIs
      <4>2. gap = "none"
        BY <3>2
      <4> HIDE DEF n, slot, val, gap
      <4> QED BY <3>1, <4>1, <4>2 DEF Announces
    <3>3. CASE k = 1
      <4>1. slot = T(b, p + s + 1) /\ val = slot
        BY <1>1, <1>2, <1>9, <1>10, <3>3
      <4> QED BY <3>1, <3>3, <4>1 DEF Announces
    <3>4. CASE k = 2
      <4>1. val.base = b
        BY <1>10, TypeParts
      <4> QED BY <1>7, <3>1, <3>4, <4>1 DEF Announces
    <3> QED BY <1>3, <3>2, <3>3, <3>4
  <2>2. gap \notin {"bad", "chars"}
    OBVIOUS
  <2>3. n \in Good
    <3> HIDE DEF slot, lhs, val, how, gap
    <3> QED BY <1>1, <1>7, <1>b, <2>1, <2>2, NoneGood
  <2> QED BY <1>6, <1>b, <2>3
<1>c. CASE d.kind # "other" /\ Means(d) = d.e
  <2>1. s = 0 /\ (d.ref => d.e \notin LikeChars)
    BY <1>8, <1>c
  <2>2. /\ slot = T(b, p + k) /\ lhs = Ptr(GetType[d.e]) /\ lhs = T(b, p + 1)
        /\ Ptr(GetType[d.e]) = T(b, p + 1) /\ Ptr(Ptr(GetType[d.e])) = T(b, p + 2)
    BY <1>2, <1>3, <2>1, PtrIs
  <2>3. slot = I8Ptr => val = I8Ptr \/ d.e = "raw"
    <3>1. ASSUME slot = I8Ptr, d.e # "raw" PROVE val = I8Ptr
      <4>1. b = "i8" /\ p + k = 1 /\ p = 0
        BY <1>2, <2>2, <3>1, SameType DEF I8Ptr
      <4>2. val = T(b, p + 1)
        BY <1>9, <1>10, <2>1, <4>1
      <4> QED BY <4>1, <4>2 DEF I8Ptr
    <3> QED BY <3>1
  <2>4. n \in Nodes
    <3> HIDE DEF slot, lhs, val, how, gap
    <3> QED BY <1>1, <1>7, <1>c, NodeType
  <2>5. /\ n.e = d.e /\ (n.array <=> d.array) /\ n.place /\ n.how = how /\ n.gap = gap
        /\ n.type = slot /\ n.lhs = lhs /\ n.val = val
    <3> HIDE DEF slot, lhs, val, how, gap
    <3> QED BY <1>8, <1>c, <2>3 DEF Node
  <2>6. d.array /\ k = 0 => d.kind # "param"
    BY <1>3
  <2> HIDE DEF n
  <2>7. CASE k = 0
    <3>1. slot = GetType[d.e] /\ gap = "none" /\ how \in {"value", "place"}
      BY <1>2, <2>2, <2>7
    <3>2. how = "place" => val = lhs /\ d.e \notin LikeChars
      BY <1>1, <1>2, <1>9, <2>1, <2>7 DEF LikeChars
    <3>3. how = "value" => val = GetType[d.e]
      BY <1>2, <1>10, <2>1, <2>7
    <3>4. val = slot \/ (IsAddressed(slot) /\ val = Ptr(slot))
      BY <2>2, <2>7, <3>1, <3>2, <3>3
    <3>5. ~Fails(val)
      BY <1>2, <1>10, FailsIs
    <3> HIDE DEF slot, lhs, val, how, gap
    <3>6. Formed(n) /\ Located(n) /\ Arrayed(n)
      BY <1>1, <1>7, <2>2, <2>5, <3>1, <3>2, <3>3, <3>5 DEF Formed, Located, Arrayed
    <3>7. Told(n) /\ Announces(n)
      BY <1>7, <2>2, <2>5, <3>1, <3>4 DEF Told, Announces
    <3>8. Agrees(n)
      BY <1>7, <2>3, <2>5, <3>1, <3>6, <3>7 DEF Agrees
    <3> QED BY <1>6, <1>c, <2>4, <3>8 DEF Good
  <2>8. CASE k = 1
    <3>1. slot = Ptr(GetType[d.e]) /\ gap = "none" /\ how = "ref" /\ val = lhs /\ lhs = slot
      BY <1>2, <1>9, <1>10, <2>1, <2>2, <2>8
    <3>2. d.array \/ d.e \notin LikeChars
      BY <1>3, <2>1, <2>8
    <3> HIDE DEF slot, lhs, val, how, gap
    <3>6. Formed(n) /\ Located(n) /\ Arrayed(n)
      BY <1>1, <1>7, <2>2, <2>5, <3>1, <3>2 DEF Formed, Located, Arrayed
    <3>7. Told(n) /\ Announces(n)
      BY <1>7, <2>2, <2>5, <3>1 DEF Told, Announces
    <3>8. Agrees(n)
      BY <1>7, <2>3, <2>5, <3>1, <3>6, <3>7 DEF Agrees
    <3> QED BY <1>6, <1>c, <2>4, <3>8 DEF Good
  <2>9. CASE k = 2
    <3>1. /\ slot = Ptr(Ptr(GetType[d.e])) /\ gap = "depth" /\ how = "ref" /\ val = lhs
          /\ slot.base = val.base
      BY <1>2, <1>7, <1>9, <1>10, <2>1, <2>2, <2>9
    <3>2. d.array /\ d.e \notin LikeChars
      BY <1>3, <2>1, <2>9
    <3> HIDE DEF slot, lhs, val, how, gap
    <3>6. Formed(n) /\ Located(n) /\ Arrayed(n)
      BY <1>1, <1>7, <2>2, <2>5, <3>1, <3>2 DEF Formed, Located, Arrayed
    <3>7. Told(n) /\ Announces(n)
      BY <1>7, <2>2, <2>5, <3>1, <3>2 DEF Told, Announces
    <3>8. Agrees(n)
      BY <1>7, <2>3, <2>5, <3>1, <3>6, <3>7 DEF Agrees
    <3> QED BY <1>6, <1>c, <2>4, <3>8 DEF Good
  <2> QED BY <1>3, <2>7, <2>8, <2>9
<1> QED BY <1>8, <1>a, <1>b, <1>c

LEMMA MemberGood ==
  ASSUME NEW base \in Good, NEW m \in AllNamed, base.place PROVE Member(base, m) \in Good
<1> DEFINE e == IF base.e = "rec" /\ ~base.array THEN m ELSE "none"
           how == IF base.how = "broken" THEN "broken" ELSE "value"
           type == GetType[m]
           lhs == IF base.lhs = Ptr(Rec) THEN Ptr(type) ELSE Bad
           val == Load(lhs)
           n == Node(e, FALSE, TRUE, how, "none", type, lhs, val)
<1>1. Member(base, m) = n
  BY DEF Member, Postfix
<1>2. /\ type \in Types /\ ~Fails(type) /\ Ptr(type) \in Types /\ Load(Ptr(type)) = type
      /\ Ptr(type).base = type.base
      /\ type = I8Ptr <=> m = "raw"
  <2>1. /\ type = T(BaseOf[m], One(m = "raw")) /\ One(m = "raw") \in Nat
        /\ Ptr(type) = T(BaseOf[m], One(m = "raw") + 1)
        /\ One(m = "raw") = IF m = "raw" THEN 1 ELSE 0
        /\ BaseOf[m] = "i8" <=> m \in {"byte", "bool", "raw"}
    BY NamedIs, PtrIs
  <2>2. Load(Ptr(type)) = type
    BY <2>1, LoadIs
  <2>3. Ptr(type).base = type.base
    BY <2>1, TypeParts
  <2>4. type = I8Ptr <=> m = "raw"
    BY <2>1, SameType DEF I8Ptr
  <2> QED BY <2>2, <2>3, <2>4, NamedTypes, PtrType, Solids
<1>3. Bad \in Types /\ Fails(Bad) /\ Load(Bad) = Bad /\ Bad # I8Ptr
  BY NamedTypes, LoadIs, SameType DEF Bad, Fails, I8Ptr
<1>4. /\ base.lhs = Ptr(Rec) => lhs = Ptr(type) /\ val = type
      /\ base.lhs # Ptr(Rec) => lhs = Bad /\ val = Bad
  <2>1. CASE base.lhs = Ptr(Rec)
    <3>1. lhs = Ptr(type)
      BY <2>1
    <3> QED BY <1>2, <2>1, <3>1
  <2>2. CASE base.lhs # Ptr(Rec)
    <3>1. lhs = Bad
      BY <2>2
    <3> QED BY <1>3, <2>2, <3>1
  <2> QED BY <2>1, <2>2
<1>5. lhs \in Types /\ val \in Types /\ (lhs.base = type.base \/ Fails(lhs))
  BY <1>2, <1>3, <1>4
<1>6. /\ m # "none" /\ m \in AllNamed
      /\ "rec" \in AllNamed /\ how \in Hows /\ "none" \in Gaps
      /\ base.e = "rec" => base.e # "none"
  BY DEF AllNamed, Numeric, Integral, Hows, Gaps
<1>7. CASE base.e = "rec" /\ ~base.array
  <2>1. e = m
    BY <1>7
  <2>2. IF base.how = "broken" THEN Fails(base.lhs) ELSE base.lhs = Ptr(Rec)
    <3>1. GetType["rec"] = Rec
      BY DEF GetType
    <3> QED BY <1>6, <1>7, <3>1, GoodIs DEF Agrees, Located
  <2>3. ~Fails(Ptr(Rec))
    BY PtrIs, FailsIs DEF Rec
  <2>4. /\ how = "broken" => lhs = Bad /\ val = Bad
        /\ how # "broken" => how = "value" /\ lhs = Ptr(type) /\ val = type
    <3>1. CASE base.how = "broken"
      <4>1. base.lhs # Ptr(Rec) /\ how = "broken"
        BY <2>2, <2>3, <3>1
      <4> QED BY <1>4, <4>1
    <3>2. CASE base.how # "broken"
      <4>1. base.lhs = Ptr(Rec) /\ how = "value"
        BY <2>2, <3>2
      <4> QED BY <1>4, <4>1
    <3> QED BY <3>1, <3>2
  <2>5. n \in Nodes
    <3> HIDE DEF how, type, lhs, val, e
    <3> QED BY <1>2, <1>5, <1>6, <2>1, NodeType
  <2>6. /\ n.e = m /\ ~n.array /\ n.place /\ n.how = how /\ n.gap = "none" /\ n.type = type
        /\ n.lhs = lhs /\ n.val = val
    <3> HIDE DEF how, type, lhs, val, e
    <3> QED BY <1>2, <1>6, <2>1 DEF Node
  <2>7. type = GetType[m] /\ how \in {"broken", "value"}
    OBVIOUS
  <2> HIDE DEF how, type, lhs, val, e, n
  <2>8. Formed(n) /\ Located(n) /\ Arrayed(n)
    BY <1>2, <1>3, <1>5, <1>6, <2>4, <2>6, <2>7 DEF Formed, Located, Arrayed
  <2>9. (n.how # "broken" => Told(n)) /\ (~Fails(n.val) => Announces(n))
    BY <1>2, <1>3, <2>4, <2>6, <2>7 DEF Told, Announces
  <2>10. Agrees(n)
    BY <1>2, <2>6, <2>8, <2>9 DEF Agrees
  <2> QED BY <1>1, <2>5, <2>10 DEF Good
<1>8. CASE ~(base.e = "rec" /\ ~base.array)
  <2>1. e = "none"
    BY <1>8
  <2>2. ASSUME ~Fails(val), type = I8Ptr => val = I8Ptr PROVE Announces(n)
    <3>1. val = type
      BY <1>3, <1>4, <2>2
    <3> HIDE DEF how, type, lhs, val, e
    <3>2. n.gap = "none" /\ n.type = type /\ n.val = val
      BY <2>1, <3>1 DEF Node
    <3> HIDE DEF n
    <3> QED BY <3>1, <3>2 DEF Announces
  <2> HIDE DEF how, type, lhs, val, e
  <2>3. n = Node("none", FALSE, TRUE, how, "none", type, lhs, val)
    BY <2>1
  <2>4. Node("none", FALSE, TRUE, how, "none", type, lhs, val) \in Good
    <3> HIDE DEF n
    <3> QED BY <1>2, <1>5, <1>6, <2>2, <2>3, NoneGood
  <2> QED BY <1>1, <2>3, <2>4
<1> QED BY <1>7, <1>8

LEMMA SubscriptGood ==
  ASSUME NEW base \in Good, NEW index \in Good, base.place PROVE Subscript(base, index) \in Good
<1> DEFINE typed == base.e # "none" /\ base.array /\ index.e \in Integral /\ ~index.array
           e == IF typed THEN base.e ELSE "none"
           how == IF base.how # "broken" /\ index.how = "value" THEN "value" ELSE "broken"
           gap == IF typed THEN ElementGap(base) ELSE "depth"
           type == Load(base.type)
           lhs == IF base.lhs.ptr > 0 /\ IsInt(index.val) THEN base.lhs ELSE Bad
           val == Load(lhs)
           n == Node(e, FALSE, TRUE, how, gap, type, lhs, val)
           g == GetType[base.e]
<1>1. Subscript(base, index) = n
  BY DEF Subscript, Postfix
<1>2. Bad = T("bad", 0) /\ Bad \in Types /\ Fails(Bad) /\ Load(Bad) = Bad /\ Bad # I8Ptr /\ Bad.ptr = 0
  BY NamedTypes, LoadIs, SameType, TypeParts DEF Bad, Fails, I8Ptr
<1>3. base.type \in Types /\ base.lhs \in Types /\ base.gap \in Gaps /\ type \in Types
  BY GoodIs, LoadType
<1>4. /\ \A t \in Types : t.ptr > 0 => Load(t) = T(t.base, t.ptr - 1) /\ Load(t).base = t.base /\ ~Fails(t)
      /\ \A t \in Types : t.ptr \in Nat /\ (t.ptr = 0 => Load(t) = Bad) /\ (Fails(t) => t.ptr = 0)
  BY TypeParts, TypesAre, FailsIs DEF Load
<1>5. lhs \in Types /\ val \in Types
  BY <1>2, <1>3, LoadType
<1>6. /\ lhs = Bad => val = Bad
      /\ lhs # Bad => lhs = base.lhs /\ base.lhs.ptr > 0
  BY <1>2, <1>3, <1>4
<1>7. lhs.base = type.base \/ Fails(lhs) \/ Fails(type)
  <2>1. base.lhs.base = base.type.base \/ Fails(base.lhs) \/ Fails(base.type)
    BY GoodIs DEF Agrees, Located
  <2>2. CASE lhs = Bad
    BY <1>2, <2>2
  <2>3. CASE type = Bad
    BY <1>2, <2>3
  <2>4. CASE lhs # Bad /\ type # Bad
    <3>1. base.type.ptr > 0
      BY <1>3, <1>4, <2>4
    <3>2. ~Fails(base.lhs) /\ ~Fails(base.type) /\ type.base = base.type.base /\ lhs = base.lhs
      BY <1>3, <1>4, <1>6, <2>4, <3>1
    <3> QED BY <2>1, <3>2
  <2> QED BY <2>2, <2>3, <2>4
<1>8. ~Fails(val) => lhs # Bad /\ val.base = lhs.base /\ ~Fails(lhs)
  <2>1. ASSUME ~Fails(val) PROVE lhs # Bad /\ val.base = lhs.base /\ ~Fails(lhs)
    <3>1. lhs # Bad
      BY <1>2, <1>6, <2>1
    <3>2. lhs = base.lhs /\ val = Load(base.lhs)
      BY <1>6, <3>1
    <3> QED BY <1>3, <1>4, <1>6, <3>1, <3>2
  <2> QED BY <2>1
<1>9. how \in Hows /\ "depth" \in Gaps /\ how \in {"value", "broken"}
  BY DEF Hows, Gaps
<1>a. CASE ~typed
  <2>1. e = "none" /\ gap = "depth"
    BY <1>a
  <2>2. ASSUME ~Fails(type), ~Fails(val), type = I8Ptr => val = I8Ptr PROVE Announces(n)
    <3>1. val.base = type.base
      BY <1>7, <1>8, <2>2
    <3> HIDE DEF how, type, lhs, val, e, gap
    <3>2. n.gap = "depth" /\ n.type = type /\ n.val = val
      BY <2>1, <2>2 DEF Node
    <3> HIDE DEF n
    <3> QED BY <3>1, <3>2 DEF Announces
  <2> HIDE DEF how, type, lhs, val, e, gap, typed
  <2>3. n = Node("none", FALSE, TRUE, how, "depth", type, lhs, val)
    BY <2>1
  <2>4. Node("none", FALSE, TRUE, how, "depth", type, lhs, val) \in Good
    <3> HIDE DEF n
    <3> QED BY <1>3, <1>5, <1>7, <1>9, <2>2, <2>3, NoneGood
  <2> QED BY <1>1, <2>3, <2>4
<1>b. CASE typed
  <2>1. /\ base.e \in AllNamed /\ base.e # "none" /\ base.array
        /\ base.how = "broken" => base.type = Bad
        /\ base.how # "broken" => Told(base)
        /\ base.how # "broken" => base.how = "ref" \/ (base.how \in {"value", "place"} /\ base.gap = "none")
        /\ IF base.how = "broken" THEN Fails(base.lhs) ELSE base.lhs = Ptr(g)
    BY <1>b, GoodIs DEF Agrees, Arrayed, Located
  <2>2. e = base.e /\ gap = ElementGap(base)
    BY <1>b
  <2> DEFINE b == BaseOf[base.e] p == One(base.e = "raw")
  <2>3. /\ g = T(b, p) /\ p = (IF base.e = "raw" THEN 1 ELSE 0) /\ p \in Nat /\ ~Fails(g)
        /\ Ptr(g) = T(b, p + 1) /\ Ptr(Ptr(g)) = T(b, p + 2)
        /\ Load(Ptr(g)) = g /\ Load(Ptr(Ptr(g))) = Ptr(g) /\ Ptr(g).ptr = p + 1
        /\ Load(g) = (IF p > 0 THEN T(b, 0) ELSE Bad)
        /\ ~Fails(Ptr(g)) /\ Ptr(g).base = g.base
    <3>1. g = T(b, p) /\ p = (IF base.e = "raw" THEN 1 ELSE 0) /\ p \in Nat /\ b \in Solid
      BY <2>1, NamedIs
    <3> HIDE DEF b, p, g
    <3>2. Ptr(g) = T(b, p + 1) /\ Ptr(Ptr(g)) = T(b, p + 2)
      BY <3>1, PtrIs
    <3>3. Load(Ptr(g)) = g /\ Load(Ptr(Ptr(g))) = Ptr(g) /\ Load(g) = (IF p > 0 THEN T(b, 0) ELSE Bad)
      BY <3>1, <3>2, LoadIs
    <3> QED BY <3>1, <3>2, <3>3, TypeParts, FailsIs DEF Solid
  <2>4. /\ b = "i8" <=> base.e \in {"byte", "bool", "raw"}
        /\ I8Ptr = T("i8", 1) /\ I8 = T("i8", 0)
    BY <2>1, NamedIs DEF I8Ptr, I8
  <2>5. IsInt(index.val) <=> index.how = "value"
    <3>1. index.e \in AllNamed /\ index.e \notin {"raw", "text", "double", "date", "bool"} /\ index.how \in Hows
      BY <1>b, GoodIs DEF AllNamed, Numeric, Integral
    <3>2. BaseOf[index.e] \in IntBases
      BY <1>b, <3>1, NamedIs
    <3>3. CASE index.how \in {"value", "place", "ref"}
      BY <3>1, <3>2, <3>3, ValIs, IsIntIs
    <3>4. CASE index.how = "broken"
      <4>1. index.val \in {T("bad", 0), T("null", 0)}
        BY <3>1, <3>4, ValIs DEF Fails, Bad, Null
      <4> QED BY <3>4, <4>1, IsIntIs DEF IntBases
    <3> QED BY <3>1, <3>3, <3>4, ValIs DEF Hows
  <2> HIDE DEF b, p
  <2>6. /\ how = "value" => lhs = Ptr(g) /\ val = g /\ base.how # "broken"
        /\ how = "broken" => lhs = Bad /\ val = Bad
    <3>1. base.lhs.ptr > 0 <=> base.how # "broken"
      BY <1>3, <1>4, <2>1, <2>3
    <3>2. CASE base.how # "broken" /\ index.how = "value"
      <4>1. lhs = base.lhs /\ base.lhs = Ptr(g) /\ how = "value"
        BY <2>1, <2>5, <3>1, <3>2
      <4> QED BY <2>3, <3>2, <4>1
    <3>3. CASE ~(base.how # "broken" /\ index.how = "value")
      <4>1. lhs = Bad /\ how = "broken"
        BY <2>5, <3>1, <3>3
      <4> QED BY <1>6, <4>1
    <3> QED BY <3>2, <3>3
  <2>7. /\ gap \in {"none", "depth", "bad"}
        /\ gap = "none" => type = g
        /\ gap = "bad" => type = Bad
        /\ gap = "depth" /\ base.how # "broken" => type = Ptr(g) \/ (base.e = "raw" /\ type = I8)
        /\ base.e # "raw" => type # I8Ptr
    <3>1. CASE base.how = "ref" /\ base.gap = "none"
      <4>1. gap = "none" /\ type = g
        BY <2>1, <2>2, <2>3, <3>1 DEF ElementGap, Told
      <4>2. base.e # "raw" => g # I8Ptr
        BY <2>3, <2>4, SameType
      <4> HIDE DEF gap, type
      <4> QED BY <4>1, <4>2
    <3>2. CASE base.how = "ref" /\ base.gap # "none"
      <4>1. gap = "depth" /\ type = Ptr(g) /\ base.e \notin LikeChars
        BY <2>1, <2>2, <2>3, <3>2 DEF ElementGap, Told
      <4>2. base.e # "raw" => Ptr(g) # I8Ptr
        BY <2>3, <2>4, <4>1, SameType DEF LikeChars
      <4> HIDE DEF gap, type
      <4> QED BY <4>1, <4>2
    <3>3. CASE base.how \in {"value", "place"} /\ base.e = "raw"
      <4>1. gap = "depth"
        BY <2>2, <3>3 DEF ElementGap
      <4>2. base.type = g
        BY <2>1, <3>3 DEF Told
      <4>3. type = I8
        BY <2>3, <2>4, <3>3, <4>2
      <4> HIDE DEF gap, type
      <4> QED BY <3>3, <4>1, <4>3
    <3>4. CASE base.how \in {"value", "place"} /\ base.e # "raw"
      <4>1. gap = "bad"
        BY <2>2, <3>4 DEF ElementGap
      <4>2. base.type = g
        BY <2>1, <3>4 DEF Told
      <4>3. type = Bad
        BY <2>3, <3>4, <4>2
      <4> HIDE DEF gap, type
      <4> QED BY <1>2, <3>4, <4>1, <4>3
    <3>5. CASE base.how = "broken"
      <4>1. gap \in {"depth", "bad"}
        BY <2>2, <3>5 DEF ElementGap
      <4>2. type = Bad
        BY <1>2, <2>1, <3>5
      <4> HIDE DEF gap, type
      <4> QED BY <1>2, <3>5, <4>1, <4>2
    <3> QED BY <2>1, <3>1, <3>2, <3>3, <3>4, <3>5
  <2>8. /\ n \in Nodes
        /\ n.e = base.e /\ ~n.array /\ n.place /\ n.how = how /\ n.gap = gap
        /\ n.type = type /\ n.lhs = lhs /\ n.val = val
    <3> HIDE DEF how, type, lhs, val, e, gap
    <3>1. n \in Nodes
      BY <1>3, <1>5, <1>9, <2>1, <2>2, <2>7, NodeType DEF Gaps
    <3>2. /\ n.e = base.e /\ ~n.array /\ n.place /\ n.how = how /\ n.gap = gap
          /\ n.type = type /\ n.lhs = lhs /\ n.val = val
      BY <2>1, <2>2, <2>7 DEF Node
    <3> QED BY <3>1, <3>2
  <2> HIDE DEF how, type, lhs, val, e, gap, n
  <2>9. Formed(n) /\ Located(n) /\ Arrayed(n)
    <3>1. Formed(n)
      BY <1>2, <1>9, <2>1, <2>3, <2>6, <2>8 DEF Formed
    <3>2. Located(n)
      BY <1>2, <1>7, <1>9, <2>1, <2>6, <2>7, <2>8 DEF Located
    <3>3. Arrayed(n)
      BY <2>8 DEF Arrayed
    <3> QED BY <3>1, <3>2, <3>3
  <2>10. ASSUME how = "value" PROVE Told(n)
    <3>1. type # Bad => ~Fails(type)
      BY <2>3, <2>4, <2>6, <2>7, <2>10, FailsIs
    <3>2. gap # "bad" => ~Fails(type)
      BY <2>3, <2>4, <2>6, <2>7, <2>10, FailsIs
    <3> QED BY <2>6, <2>7, <2>8, <2>10, <3>1, <3>2 DEF Told
  <2>11. ~Fails(type) /\ ~Fails(val) => Announces(n)
    <3>1. ASSUME ~Fails(type), ~Fails(val) PROVE Announces(n)
      <4>1. how = "value" /\ val = g
        BY <1>2, <1>9, <2>6, <3>1
      <4>2. val.base = type.base
        BY <1>7, <1>8, <3>1
      <4>3. gap \in {"none", "depth"} /\ (gap = "none" => type = g)
        BY <1>2, <2>7, <3>1
      <4> QED BY <2>8, <4>1, <4>2, <4>3 DEF Announces
    <3> QED BY <3>1
  <2>12. Agrees(n)
    BY <1>9, <2>7, <2>8, <2>9, <2>10, <2>11 DEF Agrees
  <2> QED BY <1>1, <2>8, <2>12 DEF Good
<1> QED BY <1>a, <1>b

(* What operands are, and what is made of two of them.                     *)
LEMMA OperandIs ==
  ASSUME NEW n \in Good
  PROVE  /\ Operand(n) \in Types
         /\ n.type # I8Ptr /\ Operand(n) # Bad => Operand(n) = n.val
  BY GoodIs, NamedTypes, CastType DEF Operand

LEMMA BinOpIs ==
  ASSUME NEW op, NEW l, NEW r
  PROVE  /\ BinOp(op, l, r) \in {Bad, l} /\ BinOp(op, l, r) # I8Ptr
         /\ BinOp(op, l, r) # Bad <=>
              \/ l = TextPtr /\ r = TextPtr
              \/ l = r /\ (IsInt(l) \/ (l = Float /\ op = "sum"))
<1>1. /\ TextPtr # Bad /\ TextPtr # I8Ptr /\ Bad # I8Ptr /\ Float # Bad /\ Float # I8Ptr
      /\ ~IsInt(TextPtr) /\ Float # TextPtr /\ ~IsInt(I8Ptr) /\ ~IsInt(Bad)
  BY SameType DEF TextPtr, I8Ptr, Bad, Float, IsInt, I1, I8, I16, I32, I64
<1>2. CASE r = TextPtr
  BY <1>1, <1>2 DEF BinOp, StringAdd, PushFree
<1>3. CASE r # TextPtr
  BY <1>1, <1>3 DEF BinOp
<1> QED BY <1>2, <1>3

LEMMA TextOperand ==
  ASSUME NEW n \in Good, n.e = "text"
  PROVE  IF n.how \in {"place", "ref", "chars"} THEN Operand(n) = TextPtr ELSE Operand(n) \in {Text, Bad}
<1>1. /\ n.e \in AllNamed /\ BaseOf[n.e] = "text" /\ One(n.e = "raw") = 0 /\ n.how \in Hows
      /\ n.e # "raw" /\ n.e # "bool" /\ n.e \notin {"double", "date"}
  <2>1. n.e \in AllNamed
    BY DEF AllNamed
  <2> QED BY <2>1, NamedIs, GoodIs
<1>2. /\ n.how = "value" => n.val = Text
      /\ n.how \in {"place", "ref"} => n.val = TextPtr
      /\ n.how = "chars" => n.val = I8Ptr
      /\ n.how = "broken" <=> Fails(n.val)
      /\ n.how \notin {"number", "bit"}
  BY <1>1, ValIs DEF Text, TextPtr, I8Ptr
<1>3. /\ TypeCast(TextPtr, TextPtr) = TextPtr /\ TypeCast(I8Ptr, TextPtr) = TextPtr
      /\ TypeCast(Text, TextPtr) = Bad /\ ~Fails(TextPtr) /\ ~Fails(Text) /\ ~Fails(I8Ptr)
  <2>1. /\ Casts("text", 1, "text", 1) /\ Casts("i8", 1, "text", 1) /\ ~Casts("text", 0, "text", 1)
        /\ "text" \in Solid /\ "i8" \in Solid
    BY DEF Casts, Solid, Bases, IntBases
  <2> QED BY <2>1, CastIs, FailsIs DEF TextPtr, I8Ptr, Text
<1>4. ASSUME n.how \in {"place", "ref", "chars"} PROVE n.type # Bad
  <2>1. Told(n)
    BY <1>1, <1>4, GoodIs DEF Agrees
  <2>2. n.gap # "bad"
    BY <1>4, <2>1 DEF Told
  <2> QED BY <2>1, <2>2 DEF Told, Fails
<1>5. n.how = "chars" => n.type = I8Ptr
  BY <1>1, GoodIs DEF Agrees, Told
<1>6. CASE n.how = "broken"
  BY <1>2, <1>6 DEF Operand
<1>7. CASE n.how = "value"
  BY <1>2, <1>3, <1>7 DEF Operand
<1>8. CASE n.how \in {"place", "ref"}
  BY <1>2, <1>3, <1>4, <1>8 DEF Operand
<1>9. CASE n.how = "chars"
  BY <1>2, <1>3, <1>4, <1>5, <1>9 DEF Operand
<1> QED BY <1>1, <1>2, <1>6, <1>7, <1>8, <1>9 DEF Hows

LEMMA NumberOperand ==
  ASSUME NEW n \in Good, n.e \in Numeric, ~n.array
  PROVE  /\ Operand(n) # Bad <=> n.how # "broken" /\ n.gap \notin {"chars", "bad"}
         /\ Operand(n) # Bad => Operand(n) = n.val /\ n.type # I8Ptr
         /\ n.how = "value" => n.val = T(BaseOf[n.e], 0)
         /\ n.how \in {"place", "ref"} => n.val = T(BaseOf[n.e], 1)
         /\ n.how = "number" => n.val = I32 /\ n.e = "double"
         /\ n.how \in {"value", "place", "ref", "number", "broken"}
<1>1. /\ n.e \in AllNamed /\ n.e \notin {"raw", "text", "bool", "date"} /\ n.how \in Hows
      /\ One(n.e = "raw") = 0 /\ BaseOf[n.e] \in Solid /\ BaseOf[n.e] # "text"
      /\ BaseOf[n.e] = "i8" <=> n.e = "byte"
  <2>1. n.e \in AllNamed /\ n.e \notin {"raw", "text", "bool", "date"}
    BY DEF AllNamed, Numeric, Integral
  <2> QED BY <2>1, NamedIs, GoodIs
<1>2. /\ n.how = "value" => n.val = T(BaseOf[n.e], 0)
      /\ n.how \in {"place", "ref"} => n.val = T(BaseOf[n.e], 1) /\ n.e # "byte"
      /\ n.how = "number" => n.val = T("i32", 0) /\ n.e = "double"
      /\ n.how = "broken" <=> Fails(n.val)
      /\ n.how \in {"value", "place", "ref", "number", "broken"}
  BY <1>1, ValIs DEF Hows, LikeChars
<1>3. ASSUME n.how # "broken" PROVE TypeCast(n.val, TextPtr) = Bad /\ n.val # I8Ptr /\ n.val # Bad
  <2>1. PICK b \in Solid, p \in {0, 1} : n.val = T(b, p) /\ b # "text" /\ (b = "i8" => p = 0)
    <3>1. "i32" \in Solid
      BY DEF Solid, Bases
    <3> QED BY <1>1, <1>2, <1>3, <3>1
  <2>2. ~Casts(b, p, "text", 1) /\ "text" \in Solid
    BY <2>1 DEF Casts, Solid, Bases
  <2>3. TypeCast(n.val, TextPtr) = Bad
    BY <2>1, <2>2, CastIs DEF TextPtr
  <2>4. n.val # I8Ptr /\ n.val # Bad
    BY <2>1, SameType DEF I8Ptr, Bad, Solid
  <2> QED BY <2>3, <2>4
<1>4. /\ n.how # "broken" => (n.gap = "chars" <=> n.type = I8Ptr)
      /\ n.how # "broken" => (n.gap = "bad" <=> n.type = Bad)
  <2>1. n.how # "broken" => (n.gap = "chars" <=> n.type = I8Ptr)
    BY <1>1, <1>3, GoodIs DEF Agrees
  <2>2. n.how # "broken" => (n.gap = "bad" => n.type = Bad)
    BY <1>2, GoodIs DEF Agrees
  <2>3. n.how # "broken" => (n.type = Bad => n.gap = "bad")
    BY <1>1, GoodIs DEF Agrees, Told, Fails
  <2> QED BY <2>1, <2>2, <2>3
<1>5. CASE n.how = "broken"
  BY <1>2, <1>5 DEF Operand, I32
<1>6. CASE n.how # "broken"
  <2>1. ~Fails(n.val) /\ I8Ptr # Bad
    BY <1>2, <1>6, SameType DEF I8Ptr, Bad
  <2> QED BY <1>2, <1>3, <1>4, <1>6, <2>1 DEF Operand, I32
<1> QED BY <1>5, <1>6

(* Which operations LLVM takes.                                            *)
LEMMA AddableIs ==
  ASSUME NEW op \in Ops, NEW l \in Good, NEW r \in Good, Sum(op, l, r)
  PROVE  /\ BinOp(op, Operand(l), Operand(r)) # Bad <=> Addable(op, l, r)
         /\ Addable(op, l, r) => BinOp(op, Operand(l), Operand(r)) = Operand(l)
<1>1. BinOp(op, Operand(l), Operand(r)) # Bad <=>
        \/ Operand(l) = TextPtr /\ Operand(r) = TextPtr
        \/ Operand(l) = Operand(r) /\ (IsInt(Operand(l)) \/ (Operand(l) = Float /\ op = "sum"))
  BY BinOpIs
<1>2. CASE l.e = "text"
  <2>1. r.e = "text"
    BY <1>2 DEF Sum, Integral
  <2>2. ~IsInt(Text) /\ Text # Float /\ ~IsInt(Bad) /\ Bad # Float /\ TextPtr # Text /\ TextPtr # Bad
        /\ ~IsInt(TextPtr) /\ TextPtr # Float
    BY SameType DEF IsInt, I1, I8, I16, I32, I64, Float, Text, TextPtr, Bad
  <2> QED BY <1>1, <1>2, <2>1, <2>2, TextOperand, BinOpIs DEF Addable
<1>3. CASE l.e # "text"
  <2>1. /\ l.e \in Numeric /\ r.e \in Numeric /\ ~l.array /\ ~r.array
        /\ l.e = r.e \/ (l.e \in Integral /\ r.e \in Integral)
    BY <1>3 DEF Sum, Numeric
  <2> DEFINE x == Operand(l) y == Operand(r)
  <2>2. /\ x # Bad => x # TextPtr
        /\ x # Bad /\ l.how \in {"place", "ref"} => ~IsInt(x) /\ x # Float
        /\ ~IsInt(Bad) /\ Bad # Float /\ IsInt(I32) /\ I32 # Bad /\ I32 # Float
    <3>1. BaseOf[l.e] # "text"
      BY <2>1, NamedIs DEF AllNamed, Numeric, Integral
    <3>2. ~IsInt(Bad) /\ Bad # Float /\ IsInt(I32) /\ I32 # Bad /\ I32 # TextPtr /\ I32 # Float
      BY SameType DEF IsInt, I1, I8, I16, I32, I64, Float, Bad, TextPtr
    <3>3. \A b : ~IsInt(T(b, 1)) /\ T(b, 1) # Float
      BY IsIntIs, SameType DEF Float
    <3>4. \A b, p : b # "text" => T(b, p) # TextPtr
      BY SameType DEF TextPtr
    <3> HIDE DEF x, y
    <3>5. x # Bad => x = l.val /\ l.how # "broken"
      BY <2>1, NumberOperand DEF x
    <3> QED BY <2>1, <3>1, <3>2, <3>3, <3>4, <3>5, NumberOperand
  <2>3. /\ T(BaseOf[l.e], 0) = T(BaseOf[r.e], 0) <=> l.e = r.e
        /\ T(BaseOf[l.e], 0) = I32 <=> l.e = "int"
        /\ T(BaseOf[r.e], 0) = I32 <=> r.e = "int"
        /\ IsInt(T(BaseOf[l.e], 0)) <=> l.e \in Integral
        /\ T(BaseOf[l.e], 0) = Float <=> l.e = "float"
        /\ l.e \in Integral => l.e \notin {"float", "double"}
        /\ r.e \in Integral => r.e \notin {"float", "double"}
    <3>1. l.e \in AllNamed /\ r.e \in AllNamed /\ l.e \notin {"raw", "bool"}
      BY <2>1 DEF AllNamed, Numeric, Integral
    <3>2. BaseOf[l.e] = BaseOf[r.e] <=> l.e = r.e
      BY <2>1, NumbersDiffer
    <3>3. \A e \in Integral : e \notin {"float", "double"}
      BY DEF Integral
    <3> QED BY <3>1, <3>2, <3>3, NamedIs, IsIntIs, SameType DEF I32, Float
  <2>4. ASSUME Addable(op, l, r) PROVE x = y /\ (IsInt(x) \/ (x = Float /\ op = "sum")) /\ x # Bad
    <3>1. l.e = r.e /\ {l.gap, r.gap} \cap {"chars", "bad"} = {}
      BY <1>3, <2>4 DEF Addable
    <3>2. l.how \in {"value", "number"} /\ l.how = r.how
      BY <1>3, <2>4 DEF Addable
    <3>3. l.how = "value" => l.e \in Integral \/ (op = "sum" /\ l.e = "float")
      BY <1>3, <2>4 DEF Addable
    <3>4. x # Bad /\ y # Bad
      BY <2>1, <3>1, <3>2, NumberOperand
    <3>5. x = l.val /\ y = r.val
      BY <2>1, <3>4, NumberOperand
    <3> HIDE DEF x, y
    <3> QED BY <2>1, <2>2, <2>3, <3>1, <3>2, <3>3, <3>4, <3>5, NumberOperand
  <2>5. ASSUME x = y, IsInt(x) \/ (x = Float /\ op = "sum") PROVE Addable(op, l, r)
    <3>1. x # Bad /\ y # Bad
      BY <2>2, <2>5
    <3>2. /\ x = l.val /\ y = r.val
          /\ {l.gap, r.gap} \cap {"chars", "bad"} = {} /\ l.how # "broken" /\ r.how # "broken"
      BY <2>1, <3>1, NumberOperand
    <3>3. l.how \in {"value", "number"}
      BY <2>1, <2>2, <2>5, <3>1, <3>2, NumberOperand
    <3>4. r.how \in {"value", "number"}
      <4>1. \A b : ~IsInt(T(b, 1)) /\ T(b, 1) # Float
        BY IsIntIs, SameType DEF Float
      <4> QED BY <2>1, <2>5, <3>2, <4>1, NumberOperand
    <3> HIDE DEF x, y
    <3>5. CASE l.how = "value" /\ r.how = "value"
      <4>1. x = T(BaseOf[l.e], 0) /\ y = T(BaseOf[r.e], 0)
        BY <2>1, <3>2, <3>5, NumberOperand
      <4>2. l.e = r.e /\ (l.e \in Integral \/ (l.e = "float" /\ op = "sum"))
        BY <2>3, <2>5, <4>1
      <4> QED BY <1>3, <3>2, <3>5, <4>2 DEF Addable
    <3>6. CASE l.how = "number" /\ r.how = "number"
      <4>1. l.e = r.e
        BY <2>1, <3>6, NumberOperand
      <4> QED BY <1>3, <3>2, <3>6, <4>1 DEF Addable
    <3>7. CASE l.how # r.how
      <4>1. \/ l.how = "value" /\ l.e = "int" /\ r.e = "double"
            \/ r.how = "value" /\ r.e = "int" /\ l.e = "double"
        BY <2>1, <2>3, <2>5, <3>2, <3>3, <3>4, <3>7, NumberOperand
      <4> QED BY <2>1, <4>1 DEF Integral
    <3> QED BY <3>3, <3>4, <3>5, <3>6, <3>7
  <2>6. BinOp(op, x, y) # Bad <=> Addable(op, l, r)
    BY <1>1, <2>2, <2>4, <2>5, SameType DEF TextPtr, Bad
  <2>7. BinOp(op, x, y) \in {Bad, x}
    BY BinOpIs
  <2> QED BY <2>6, <2>7
<1> QED BY <1>2, <1>3

(* What a table announces is addressed by its base alone, or characters.   *)
LEMMA AnnouncedIs ==
  ASSUME NEW table \in Tables, NEW first \in Types
  PROVE  /\ Announced(table, first) \in Types
         /\ table = "none" => Announced(table, first) = first
         /\ table # "none" => /\ ~Fails(Announced(table, first))
                              /\ Announced(table, first) # TextPtr
                              /\ \/ \E b \in Solid : Announced(table, first) = T(b, 0)
                                 \/ Announced(table, first) = I8Ptr
<1>1. CASE table = "none"
  BY <1>1 DEF Announced
<1>2. CASE table # "none"
  <2>1. PICK e \in AllNamed \cup {"void"} : Announced(table, first) = GetType[e]
    <3>1. GetType["void"] = Void
      BY DEF GetType
    <3> QED BY <1>2, <3>1, NamedAssumption DEF Announced, Tables
  <2>2. /\ GetType[e] = T(BaseOf[e], One(e = "raw")) /\ BaseOf[e] \in Solid
        /\ One(e = "raw") = IF e = "raw" THEN 1 ELSE 0
        /\ BaseOf[e] = "i8" <=> e \in {"byte", "bool", "raw"}
        /\ BaseOf[e] = "text" <=> e = "text"
    BY NamedIs
  <2>3. GetType[e] \in Types /\ ~Fails(GetType[e])
    BY NamedTypes, Solids
  <2>4. GetType[e] # TextPtr
    BY <2>2, SameType DEF TextPtr
  <2>5. GetType[e] = I8Ptr \/ \E b \in Solid : GetType[e] = T(b, 0)
    BY <2>2 DEF I8Ptr
  <2> QED BY <1>2, <2>1, <2>3, <2>4, <2>5
<1> QED BY <1>1, <1>2

LEMMA ArithmeticGood ==
  ASSUME NEW op \in Ops, NEW l \in Good, NEW r \in Good, NEW table \in Tables
  PROVE  Arithmetic(op, l, r, table) \in Good
<1> DEFINE type == Announced(table, l.type)
           val == BinOp(op, Operand(l), Operand(r))
           e == IF Sum(op, l, r) THEN l.e ELSE "none"
           how == SumHow(op, l, r, table)
           gap == IF table = "none" THEN IF type = I8Ptr THEN "chars" ELSE l.gap
                  ELSE IF val = PushFree(type) THEN "none" ELSE "table"
           n == Node(e, FALSE, FALSE, how, gap, type, Null, val)
<1>1. Arithmetic(op, l, r, table) = n
  BY DEF Arithmetic, Value
<1>2. /\ Bad \in Types /\ Null \in Types /\ Fails(Bad) /\ Fails(Null) /\ ~Fails(I8Ptr) /\ ~Fails(TextPtr)
      /\ ~Fails(I32) /\ TextPtr = Ptr(Text) /\ TextPtr # I8Ptr /\ Text # TextPtr /\ Text # I8Ptr
      /\ I32 # TextPtr /\ I32 # Text /\ Bad # I8Ptr
  BY NamedTypes, FailsIs, PtrIs, SameType DEF Bad, Null, I8Ptr, TextPtr, Text, I32, Fails
<1>3. /\ l \in Nodes /\ Agrees(l) /\ l.e \in AllNamed \cup {"none", "void"} /\ l.gap \in Gaps
      /\ l.how \in Hows /\ l.type \in Types /\ l.val \in Types /\ r.e \in AllNamed \cup {"none", "void"}
  BY GoodIs
<1>4. /\ type \in Types
      /\ table = "none" => type = l.type
      /\ table # "none" => ~Fails(type) /\ type # TextPtr
  BY <1>3, AnnouncedIs
<1>5. val \in {Bad, Operand(l)} /\ val # I8Ptr /\ val \in Types
  BY <1>2, BinOpIs, OperandIs
<1>6. l.type # I8Ptr /\ val # Bad => val = l.val
  BY <1>5, OperandIs
<1>7. how \in Hows
  BY <1>3 DEF SumHow, Hows
<1>8. gap \in Gaps
  BY <1>3 DEF Gaps
<1>9. /\ table = "none" /\ type = I8Ptr => gap = "chars"
      /\ table = "none" /\ type # I8Ptr => gap = l.gap
      /\ table # "none" => gap \in {"none", "table"} /\ (gap = "none" <=> val = PushFree(type))
  OBVIOUS
<1>10. gap = "chars" => type = I8Ptr
  BY <1>3, <1>4, <1>9 DEF Agrees
<1>11. gap = "bad" => type = Bad \/ (type = Null /\ Fails(val))
  <2>1. ASSUME gap = "bad" PROVE type = Bad \/ (type = Null /\ Fails(val))
    <3>1. table = "none" /\ type # I8Ptr /\ l.gap = "bad" /\ type = l.type
      BY <1>4, <1>9, <2>1
    <3>2. type = Bad \/ (type = Null /\ Fails(l.val))
      BY <1>3, <3>1 DEF Agrees
    <3>3. type = Null => val = Bad \/ val = l.val
      BY <1>6, <3>1
    <3> HIDE DEF type, val
    <3> QED BY <1>2, <3>2, <3>3
  <2> QED BY <2>1
<1>12. ASSUME ~Fails(type), ~Fails(val), type # I8Ptr, n.type = type, n.val = val, n.gap = gap
       PROVE  Announces(n)
  <2>1. CASE table = "none"
    <3>1. gap = l.gap /\ type = l.type /\ val = l.val
      BY <1>2, <1>4, <1>6, <1>9, <1>12, <2>1
    <3>2. Announces(l)
      BY <1>3, <1>12, <3>1 DEF Agrees
    <3> HIDE DEF n, type, val, gap
    <3> QED BY <1>3, <1>12, <3>1, <3>2 DEF Announces, Gaps
  <2>2. CASE table # "none"
    <3>1. gap = "none" => val = type \/ (IsAddressed(type) /\ val = Ptr(type))
      BY <1>2, <1>9, <2>2 DEF PushFree, IsAddressed
    <3>2. gap \in {"none", "table"}
      BY <1>9, <2>2
    <3> HIDE DEF n, type, val, gap
    <3> QED BY <1>12, <3>1, <3>2 DEF Announces
  <2> QED BY <2>1, <2>2
<1>a. CASE ~Sum(op, l, r)
  <2>1. e = "none"
    BY <1>a
  <2> HIDE DEF e, how, gap, type, val
  <2>2. n = Node("none", FALSE, FALSE, how, gap, type, Null, val)
    BY <2>1
  <2>3. ASSUME ~Fails(type), ~Fails(val), type = I8Ptr => val = I8Ptr PROVE Announces(n)
    <3>1. type # I8Ptr
      BY <1>5, <2>3
    <3>2. n.type = type /\ n.val = val /\ n.gap = gap
      BY <3>1 DEF Node
    <3> HIDE DEF n
    <3> QED BY <1>12, <2>3, <3>1, <3>2
  <2> HIDE DEF n
  <2>4. Node("none", FALSE, FALSE, how, gap, type, Null, val) \in Good
    BY <1>2, <1>4, <1>5, <1>7, <1>8, <1>10, <1>11, <2>2, <2>3, NoneGood
  <2> QED BY <1>1, <2>2, <2>4
<1>b. CASE Sum(op, l, r)
  <2>1. /\ e = l.e /\ l.e \in AllNamed /\ l.e # "none" /\ l.e # "raw" /\ ~l.array /\ ~r.array
        /\ l.e \in Numeric \/ l.e = "text"
    BY <1>b DEF Sum, AllNamed, Numeric, Integral
  <2>2. (val # Bad <=> Addable(op, l, r)) /\ (Addable(op, l, r) => val = Operand(l))
    BY <1>b, AddableIs
  <2>3. /\ n \in Nodes
        /\ n.e = l.e /\ ~n.array /\ ~n.place /\ n.lhs = Null /\ n.how = how
        /\ n.gap = (IF type = I8Ptr THEN "chars" ELSE gap) /\ n.type = type /\ n.val = val
    <3> HIDE DEF e, how, gap, type, val
    <3>1. n \in Nodes
      BY <1>2, <1>4, <1>5, <1>7, <1>8, <2>1, NodeType
    <3>2. /\ n.e = l.e /\ ~n.array /\ ~n.place /\ n.lhs = Null /\ n.how = how
          /\ n.gap = (IF type = I8Ptr THEN "chars" ELSE gap) /\ n.type = type /\ n.val = val
      BY <1>5, <2>1 DEF Node
    <3> QED BY <3>1, <3>2
  <2> HIDE DEF n
  <2>4. Located(n) /\ Arrayed(n)
    BY <2>3 DEF Located, Arrayed
  <2>5. /\ n.gap = "bad" => n.type = Bad \/ (n.type = Null /\ Fails(n.val))
        /\ n.gap = "chars" => n.type = I8Ptr /\ n.val # I8Ptr /\ n.e # "raw"
        /\ n.type = I8Ptr => n.gap = "chars"
    <3> HIDE DEF type, val, gap
    <3> QED BY <1>5, <1>10, <1>11, <2>1, <2>3
  <2>6. ~Fails(n.type) /\ ~Fails(n.val) => Announces(n)
    <3>1. ASSUME ~Fails(n.type), ~Fails(n.val) PROVE Announces(n)
      <4>1. CASE type = I8Ptr
        <5>1. n.gap = "chars" /\ n.type = I8Ptr
          BY <2>3, <4>1
        <5> QED BY <5>1 DEF Announces
      <4>2. CASE type # I8Ptr
        <5>1. n.gap = gap /\ n.type = type /\ n.val = val /\ ~Fails(type) /\ ~Fails(val)
          BY <2>3, <3>1, <4>2
        <5> QED BY <1>12, <4>2, <5>1
      <4> QED BY <4>1, <4>2
    <3> QED BY <3>1
  <2>7. Formed(n) /\ (n.how # "broken" => Told(n))
    <3>1. CASE ~Addable(op, l, r)
      <4>1. n.how = "broken" /\ n.val = Bad
        BY <2>2, <2>3, <3>1 DEF SumHow
      <4> QED BY <1>2, <4>1 DEF Formed
    <3>2. CASE Addable(op, l, r) /\ l.e = "text"
      <4>1. val = TextPtr /\ l.how \in {"place", "ref", "chars"}
        <5>1. l.how \in {"place", "ref", "chars"}
          BY <3>2 DEF Addable
        <5> QED BY <2>2, <3>2, <5>1, TextOperand
      <4>2. how = (IF l.how = "ref" /\ table = "none" THEN "ref" ELSE "place")
        BY <3>2 DEF SumHow
      <4>3. GetType["text"] = Text
        BY DEF GetType
      <4>4. Formed(n)
        BY <1>2, <2>3, <3>2, <4>1, <4>2, <4>3 DEF Formed, LikeChars
      <4>5. Told(l)
        BY <1>3, <2>1, <4>1 DEF Agrees
      <4>6. CASE table # "none"
        <5>1. n.how = "place" /\ n.val = TextPtr /\ n.type = type /\ n.e = "text"
          BY <2>3, <3>2, <4>1, <4>2, <4>6
        <5>2. n.gap \in {"chars", "none", "table"} /\ (n.gap = "none" => TextPtr = PushFree(type))
          BY <1>9, <2>3, <4>1, <4>6
        <5>3. n.gap = "none" => type = Text
          BY <1>4, <4>6, <5>2 DEF PushFree
        <5>4. ~Fails(type) /\ type # TextPtr
          BY <1>4, <4>6
        <5> HIDE DEF type, val
        <5> QED BY <4>3, <4>4, <5>1, <5>2, <5>3, <5>4 DEF Told
      <4>7. CASE table = "none" /\ l.how = "ref"
        <5>1. l.gap = "none" /\ l.type = TextPtr
          BY <1>2, <2>1, <3>2, <4>3, <4>5, <4>7 DEF Told
        <5>2. n.how = "ref" /\ n.gap = "none" /\ n.type = TextPtr /\ n.e = "text"
          BY <1>2, <1>4, <1>9, <2>3, <3>2, <4>2, <4>7, <5>1
        <5> QED BY <1>2, <4>3, <4>4, <5>2 DEF Told
      <4>8. CASE table = "none" /\ l.how = "chars"
        <5>1. l.type = I8Ptr
          BY <4>5, <4>8 DEF Told
        <5>2. n.how = "place" /\ n.gap = "chars" /\ n.type = I8Ptr
          BY <1>4, <2>3, <4>2, <4>8, <5>1
        <5> QED BY <1>2, <4>4, <5>2 DEF Told
      <4>9. CASE table = "none" /\ l.how = "place"
        <5>1. CASE l.type = I8Ptr
          <6>1. n.how = "place" /\ n.gap = "chars" /\ n.type = I8Ptr
            BY <1>4, <2>3, <4>2, <4>9, <5>1
          <6> QED BY <1>2, <4>4, <6>1 DEF Told
        <5>2. CASE l.type # I8Ptr
          <6>1. n.how = "place" /\ n.gap = l.gap /\ n.type = l.type /\ n.val = TextPtr /\ n.e = "text"
            BY <1>4, <1>9, <2>3, <3>2, <4>1, <4>2, <4>9, <5>2
          <6>2. l.val = TextPtr
            BY <1>2, <1>6, <4>1, <5>2, SameType DEF Bad, TextPtr
          <6> QED BY <2>1, <3>2, <4>4, <4>5, <4>9, <6>1, <6>2 DEF Told
        <5> QED BY <5>1, <5>2
      <4> QED BY <4>1, <4>4, <4>6, <4>7, <4>8, <4>9
    <3>3. CASE Addable(op, l, r) /\ l.e # "text"
      <4>1. /\ l.how \in {"value", "number"} /\ l.gap \notin {"chars", "bad"}
        BY <3>3 DEF Addable
      <4>2. how = l.how
        BY <3>3 DEF SumHow
      <4>3. l.e \in Numeric
        BY <2>1, <3>3
      <4>4. val = l.val /\ l.type # I8Ptr
        BY <2>1, <2>2, <3>3, <4>3, NumberOperand
      <4>5. Formed(l) /\ Told(l)
        BY <1>3, <2>1, <4>1 DEF Agrees
      <4>6. Formed(n)
        BY <2>1, <2>3, <4>1, <4>2, <4>4, <4>5 DEF Formed
      <4>7. CASE table = "none"
        <5>1. n.gap = l.gap /\ n.type = l.type /\ n.val = l.val /\ n.how = l.how /\ n.e = l.e
          BY <1>4, <1>9, <2>3, <4>2, <4>4, <4>7
        <5> QED BY <2>1, <2>3, <4>1, <4>5, <4>6, <5>1 DEF Told
      <4>8. CASE table # "none"
        <5>1. /\ l.how = "value" => val = GetType[l.e]
              /\ l.how = "number" => val = I32
          BY <2>1, <4>4, <4>5 DEF Formed
        <5>2. val # TextPtr /\ val # Text
          <6>1. BaseOf[l.e] # "text"
            BY <4>3, <2>1, <3>3, NamedIs
          <6>2. GetType[l.e] = T(BaseOf[l.e], One(l.e = "raw"))
            BY <2>1, NamedIs
          <6>3. GetType[l.e] # TextPtr /\ GetType[l.e] # Text
            BY <6>1, <6>2, SameType DEF TextPtr, Text
          <6> HIDE DEF val
          <6> QED BY <1>2, <4>1, <5>1, <6>3
        <5>3. val = PushFree(type) <=> val = type
          BY <5>2 DEF PushFree
        <5>4. n.gap \in {"chars", "none", "table"} /\ (type # I8Ptr => (n.gap = "none" <=> val = type))
          BY <1>9, <2>3, <4>8, <5>3
        <5>5. ~Fails(type) /\ (n.gap = "chars" <=> type = I8Ptr)
          BY <1>4, <1>9, <2>3, <4>8
        <5> HIDE DEF val, type
        <5> QED BY <2>1, <2>3, <4>1, <4>2, <4>6, <5>1, <5>4, <5>5 DEF Told
      <4> QED BY <4>7, <4>8, <4>6
    <3> QED BY <3>1, <3>2, <3>3
  <2>8. Agrees(n)
    BY <2>4, <2>5, <2>6, <2>7 DEF Agrees
  <2> QED BY <1>1, <2>3, <2>8 DEF Good
<1> QED BY <1>a, <1>b

(* Which comparisons LLVM takes.                                           *)
LEMMA ComparableIs ==
  ASSUME NEW l \in Good, NEW r \in Good, ~l.array, ~r.array,
         {l.e, r.e} \subseteq Integral \/ (l.e = r.e /\ l.e \notin {"none", "void", "rec", "raw"})
  PROVE  LET right == Compared(l, r) IN
         ~Fails(l.val) /\ l.val = right /\ (IsInt(right) \/ right.ptr > 0) <=> Comparable(l, r)
<1> DEFINE right == Compared(l, r)
           g == GetType[l.e]
<1>1. /\ l.e \in AllNamed /\ r.e \in AllNamed /\ l.e \notin {"rec", "raw"}
      /\ l.how \in Hows /\ r.how \in Hows /\ l.gap \in Gaps
      /\ l.e = r.e \/ (l.e \in Numeric /\ r.e \in Numeric)
      /\ Fits(l.e, r)
  BY GoodIs DEF AllNamed, Numeric, Integral, Fits
<1>2. right \in {l.type, Bad} /\ right = TypeCast(r.val, l.type)
  BY CastGives DEF Compared
<1>3. Fails(Bad) /\ ~IsInt(Bad) /\ Bad.ptr = 0
  BY IsIntIs, TypeParts DEF Bad, Fails, IntBases
<1>4. /\ l.how = "broken" <=> Fails(l.val)
      /\ l.how = "value" => l.val = g
      /\ l.how \in {"place", "ref"} => l.val = Ptr(g)
      /\ l.how = "chars" => l.val = I8Ptr /\ l.e = "text"
      /\ l.how = "number" => l.val = I32 /\ l.e \in {"double", "date"}
      /\ l.how = "bit" => l.val = I1 /\ l.e = "bool"
  BY <1>1, GoodIs DEF Agrees, Formed, AllNamed, Numeric, Integral
<1>5. /\ g = T(BaseOf[l.e], 0) /\ Ptr(g) = T(BaseOf[l.e], 1) /\ g # Ptr(g) /\ Ptr(g).ptr = 1 /\ g.ptr = 0
      /\ IsInt(g) <=> l.e \in Integral \cup {"bool"}
  <2>1. g = T(BaseOf[l.e], 0) /\ (BaseOf[l.e] \in IntBases <=> l.e \in Integral \cup {"bool"})
    BY <1>1, NamedIs
  <2>2. Ptr(g) = T(BaseOf[l.e], 1)
    BY <2>1, PtrIs
  <2> HIDE DEF g
  <2> QED BY <2>1, <2>2, SameType, TypeParts, IsIntIs
<1>6. I8Ptr.ptr = 1 /\ IsInt(I32) /\ ~Fails(I32) /\ I8 # I1 /\ I32 # I1
  BY TypeParts, IsIntIs, FailsIs, SameType DEF I8Ptr, I32, I8, I1, IntBases
<1>7. /\ l.how # "broken" => Told(l)
      /\ l.gap = "bad" => l.type = Bad \/ Fails(l.val)
      /\ l.gap = "chars" => l.type = I8Ptr /\ l.val # I8Ptr
  BY <1>1, GoodIs DEF Agrees
<1> HIDE DEF right, g
<1>a. CASE l.how = "broken"
  BY <1>4, <1>a DEF Comparable
<1>b. CASE l.how # "broken" /\ l.gap # "none"
  <2>1. l.type # l.val \/ l.type = Bad
    <3>1. CASE l.gap \in {"bad", "chars"}
      BY <1>4, <1>7, <1>b, <3>1
    <3>2. CASE l.gap \in {"flag", "star", "table", "depth"}
      BY <1>1, <1>4, <1>5, <1>6, <1>7, <1>b, <3>2 DEF Told, g
    <3> QED BY <1>1, <1>b, <3>1, <3>2 DEF Gaps
  <2>2. ~(~Fails(l.val) /\ l.val = right)
    BY <1>2, <1>3, <2>1
  <2> QED BY <1>b, <2>2 DEF Comparable, right
<1>c. CASE l.how = "value" /\ l.gap = "none"
  <2>1. l.type = g /\ l.val = g /\ ~Fails(g) /\ g # Bad
    BY <1>4, <1>7, <1>c DEF Told, g, Fails
  <2>2. right = IF Castable(l.e, r) THEN g ELSE Bad
    BY <1>1, <1>2, <2>1, CastFits DEF g
  <2>3. Comparable(l, r) <=> l.e \in Integral \cup {"bool"} /\ Castable(l.e, r)
    BY <1>c DEF Comparable
  <2> QED BY <1>3, <1>5, <2>1, <2>2, <2>3 DEF right
<1>d. CASE l.how = "place" /\ l.gap = "none"
  <2>1. l.type = g /\ l.val = Ptr(g)
    BY <1>4, <1>7, <1>d DEF Told, g
  <2>2. ~(~Fails(l.val) /\ l.val = right)
    BY <1>2, <1>3, <1>5, <2>1
  <2> QED BY <1>d, <2>2 DEF Comparable, right
<1>e. CASE l.how = "ref" /\ l.gap = "none"
  <2>1. l.type = Ptr(g) /\ l.val = Ptr(g) /\ ~Fails(Ptr(g)) /\ Ptr(g) # Bad
    BY <1>4, <1>7, <1>e DEF Told, g, Fails
  <2>2. right = IF l.e = r.e /\ r.how \in {"place", "ref", "chars"} THEN Ptr(g) ELSE Bad
    <3>1. TypeCast(r.val, Add(GetType[l.e], 1)) =
            IF 1 = 1 /\ r.e = l.e /\ r.how \in {"place", "ref", "chars"} THEN Add(GetType[l.e], 1) ELSE Bad
      BY <1>1, CastRef
    <3> QED BY <1>2, <2>1, <3>1, PtrIsAdd DEF g
  <2>3. Comparable(l, r) <=> l.e = r.e /\ r.how \in {"place", "ref", "chars"}
    BY <1>e DEF Comparable
  <2> QED BY <1>3, <1>5, <2>1, <2>2, <2>3 DEF right
<1>f. CASE l.how = "chars" /\ l.gap = "none"
  <2>1. l.type = I8Ptr /\ l.val = I8Ptr /\ l.e = "text" /\ r.e = "text"
    <3>1. "text" \notin Numeric
      BY DEF Numeric, Integral
    <3> QED BY <1>1, <1>4, <1>7, <1>f, <3>1 DEF Told
  <2>2. Comparable(l, r) <=> r.how \in {"place", "ref", "chars"}
    BY <1>f DEF Comparable
  <2>3. /\ r.how = "value" => r.val = T("text", 0)
        /\ r.how \in {"place", "ref"} => r.val = T("text", 1)
        /\ r.how = "chars" => r.val = T("i8", 1)
        /\ r.how = "broken" <=> Fails(r.val)
        /\ r.how \notin {"number", "bit"}
    <3>1. BaseOf[r.e] = "text" /\ One(r.e = "raw") = 0
      BY <1>1, <2>1, NamedIs
    <3> QED BY <1>1, <2>1, <3>1, ValIs
  <2>4. /\ Casts("text", 1, "i8", 1) /\ Casts("i8", 1, "i8", 1) /\ ~Casts("text", 0, "i8", 1)
        /\ "text" \in Solid /\ "i8" \in Solid /\ I8Ptr = T("i8", 1)
    BY DEF Casts, Solid, Bases, IntBases, I8Ptr
  <2>5. right = I8Ptr <=> r.how \in {"place", "ref", "chars"}
    <3>1. CASE r.how \in {"place", "ref", "chars"}
      BY <1>2, <2>1, <2>3, <2>4, <3>1, CastIs
    <3>2. CASE r.how = "value"
      <4>1. right = Bad
        BY <1>2, <2>1, <2>3, <2>4, <3>2, CastIs
      <4> QED BY <1>3, <1>6, <3>2, <4>1
    <3>3. CASE r.how = "broken"
      <4>1. right = Bad
        BY <1>2, <2>3, <3>3, FailedCast
      <4> QED BY <1>3, <1>6, <3>3, <4>1
    <3> QED BY <1>1, <2>3, <3>1, <3>2, <3>3 DEF Hows
  <2> QED BY <1>4, <1>6, <1>f, <2>1, <2>2, <2>5 DEF right
<1>g. CASE l.how = "number" /\ l.gap = "none"
  <2>1. l.type = I32 /\ l.val = I32 /\ l.e \in {"double", "date"} /\ r.e = l.e
    <3>1. l.e \notin Integral
      BY <1>4, <1>g DEF Integral
    <3> QED BY <1>4, <1>7, <1>g, <3>1 DEF Told
  <2>2. Comparable(l, r) <=> r.how = "number"
    BY <1>g DEF Comparable
  <2>3. /\ r.how = "value" => r.val = T("double", 0)
        /\ r.how \in {"place", "ref"} => r.val = T("double", 1)
        /\ r.how = "number" => r.val = T("i32", 0)
        /\ r.how = "broken" <=> Fails(r.val)
        /\ r.how \notin {"chars", "bit"}
    <3>1. BaseOf[r.e] = "double" /\ One(r.e = "raw") = 0
      BY <1>1, <2>1, NamedIs
    <3> QED BY <1>1, <2>1, <3>1, ValIs
  <2>4. /\ Casts("i32", 0, "i32", 0) /\ ~Casts("double", 0, "i32", 0) /\ ~Casts("double", 1, "i32", 0)
        /\ "double" \in Solid /\ "i32" \in Solid /\ I32 = T("i32", 0)
    BY DEF Casts, Solid, Bases, IntBases, I32
  <2>5. right = I32 <=> r.how = "number"
    <3>1. CASE r.how = "number"
      BY <1>2, <2>1, <2>3, <2>4, <3>1, CastIs
    <3>2. CASE r.how \in {"value", "place", "ref"}
      <4>1. right = Bad
        BY <1>2, <2>1, <2>3, <2>4, <3>2, CastIs
      <4> QED BY <1>3, <1>6, <3>2, <4>1
    <3>3. CASE r.how = "broken"
      <4>1. right = Bad
        BY <1>2, <2>3, <3>3, FailedCast
      <4> QED BY <1>3, <1>6, <3>3, <4>1
    <3> QED BY <1>1, <2>3, <3>1, <3>2, <3>3 DEF Hows
  <2> QED BY <1>6, <2>1, <2>2, <2>5 DEF right
<1>h. CASE l.how = "bit" /\ l.gap = "none"
  BY <1>7, <1>h DEF Told
<1> QED BY <1>1, <1>a, <1>b, <1>c, <1>d, <1>e, <1>f, <1>g, <1>h DEF Hows

LEMMA ComparisonGood ==
  ASSUME NEW l \in Good, NEW r \in Good PROVE Comparison(l, r) \in Good
<1> DEFINE right == Compared(l, r)
           typed == /\ ~l.array /\ ~r.array
                    /\ {l.e, r.e} \subseteq Integral \/ (l.e = r.e /\ l.e \notin {"none", "void", "rec", "raw"})
           e == IF typed THEN "bool" ELSE "none"
           how == IF Comparable(l, r) THEN "bit" ELSE "broken"
           val == IF ~Fails(l.val) /\ l.val = right /\ (IsInt(right) \/ right.ptr > 0) THEN I1 ELSE Bad
           n == Node(e, FALSE, FALSE, how, "flag", I8, Null, val)
<1>1. Comparison(l, r) = n
  BY DEF Comparison, Value
<1>2. /\ I8 \in Types /\ I1 \in Types /\ Null \in Types /\ Bad \in Types
      /\ I8 # I8Ptr /\ ~Fails(I8) /\ ~Fails(I1) /\ Fails(Bad)
  BY NamedTypes, FailsIs, SameType DEF I8, I1, I8Ptr, Bad, Fails
<1>3. val \in {I1, Bad} /\ how \in {"bit", "broken"} /\ how \in Hows /\ "flag" \in Gaps
  BY DEF Hows, Gaps
<1>4. val \in Types
  BY <1>2, <1>3
<1>a. CASE typed
  <2>1. val = I1 <=> how = "bit"
    <3>1. (~Fails(l.val) /\ l.val = right /\ (IsInt(right) \/ right.ptr > 0)) <=> Comparable(l, r)
      BY <1>a, ComparableIs
    <3>2. I1 # Bad
      BY <1>2
    <3> HIDE DEF right
    <3> QED BY <3>1, <3>2
  <2>2. e = "bool" /\ "bool" \in AllNamed
    BY <1>a DEF AllNamed
  <2> HIDE DEF e, how, val, right
  <2>3. n \in Nodes
    BY <1>2, <1>3, <1>4, <2>2, NodeType
  <2>4. /\ n.e = "bool" /\ ~n.array /\ ~n.place /\ n.lhs = Null /\ n.how = how
        /\ n.gap = "flag" /\ n.type = I8 /\ n.val = val
    BY <1>2, <2>2 DEF Node
  <2> HIDE DEF n
  <2>5. Agrees(n)
    <3>1. Formed(n) /\ Located(n) /\ Arrayed(n)
      BY <1>2, <1>3, <2>1, <2>4 DEF Formed, Located, Arrayed
    <3>2. how = "bit" => Told(n)
      BY <1>2, <2>4 DEF Told
    <3>3. ~Fails(n.val) => Announces(n)
      BY <1>2, <1>3, <2>4 DEF Announces
    <3> QED BY <1>2, <1>3, <2>4, <3>1, <3>2, <3>3 DEF Agrees
  <2> QED BY <1>1, <2>3, <2>5 DEF Good
<1>b. CASE ~typed
  <2>1. e = "none"
    BY <1>b
  <2> HIDE DEF e, how, val
  <2>2. n = Node("none", FALSE, FALSE, how, "flag", I8, Null, val)
    BY <2>1
  <2>3. ASSUME ~Fails(val) PROVE Announces(n)
    <3>1. n.type = I8 /\ n.val = I1 /\ n.gap = "flag"
      BY <1>2, <1>3, <2>3 DEF Node
    <3> HIDE DEF n
    <3> QED BY <3>1 DEF Announces
  <2>4. Node("none", FALSE, FALSE, how, "flag", I8, Null, val) \in Good
    <3> HIDE DEF n
    <3> QED BY <1>2, <1>3, <1>4, <2>2, <2>3, NoneGood
  <2> QED BY <1>1, <2>2, <2>4
<1> QED BY <1>a, <1>b

LEMMA ResultGood ==
  ASSUME NEW ret \in Named \cup {"void"}, NEW stars \in Nat, NEW dll \in BOOLEAN,
         NEW table \in Tables \cup {"own"},
         call.typed \in BOOLEAN, call.works \in BOOLEAN, call.taken \in BOOLEAN, call.first \in Types,
         call.typed => (call.works <=> call.taken)
  PROVE  Result(ret, stars, dll, table) \in Good
<1> DEFINE g == GetType[ret]
           b == BaseOf[ret]
           p == One(ret = "raw")
           made == Add(g, stars)
           type == IF table # "own" THEN Announced(table, call.first) ELSE IF dll THEN g ELSE made
           e == CASE ~call.typed \/ stars > 1 \/ (stars = 1 /\ ret \in LikeChars \cup {"void"}) -> "none"
                  [] OTHER -> IF table = "none" THEN "void" ELSE ret
           how == CASE ~call.works -> "broken"
                    [] call.works /\ stars > 0 -> IF table = "own" /\ ~dll THEN "ref" ELSE "place"
                    [] OTHER -> IF ret = "text" THEN "place" ELSE "value"
           gap == IF table = "none" THEN "table" ELSE CallGap(type, ret, stars)
           val == IF call.taken THEN PushFree(made) ELSE Bad
           n == Node(e, FALSE, FALSE, how, gap, type, Null, val)
<1>1. Result(ret, stars, dll, table) = n
  BY DEF Result, Value
<1>2. /\ ret \in AllNamed \cup {"void"} /\ ret # "none"
      /\ \/ ~call.typed \/ stars > 1 \/ (stars = 1 /\ ret \in LikeChars \cup {"void"})
         \/ call.typed /\ stars \in {0, 1} /\ (stars = 1 => ret \in AllNamed /\ ret \notin LikeChars)
  BY NamedAssumption DEF AllNamed, Numeric, Integral
<1>3. /\ g = T(b, p) /\ p = (IF ret = "raw" THEN 1 ELSE 0) /\ p \in Nat /\ b \in Solid
      /\ made = T(b, p + stars) /\ made \in Types /\ ~Fails(made) /\ made # Bad
      /\ g \in Types /\ ~Fails(g) /\ g # Bad
      /\ b = "i8" <=> ret \in {"byte", "bool", "raw"}
      /\ b = "text" <=> ret = "text"
  <2>1. /\ g = T(b, p) /\ p = (IF ret = "raw" THEN 1 ELSE 0) /\ p \in Nat /\ b \in Solid
        /\ b = "i8" <=> ret \in {"byte", "bool", "raw"}
        /\ b = "text" <=> ret = "text"
    BY <1>2, NamedIs
  <2>2. made = T(b, p + stars)
    BY <2>1, AddIs
  <2>3. made \in Types /\ ~Fails(made) /\ made # Bad /\ g \in Types /\ ~Fails(g) /\ g # Bad
    BY <1>2, Solids, NamedTypes
  <2> QED BY <2>1, <2>2, <2>3
<1>4. /\ Text = T("text", 0) /\ TextPtr = T("text", 1) /\ I8Ptr = T("i8", 1) /\ TextPtr = Ptr(Text)
      /\ TextPtr \in Types /\ ~Fails(TextPtr) /\ Fails(Bad) /\ Bad # I8Ptr /\ Bad \in Types /\ Null \in Types
      /\ TextPtr # I8Ptr
  BY PtrIs, NamedTypes, FailsIs, SameType DEF Text, TextPtr, I8Ptr, Bad, Fails
<1>5. /\ type \in Types /\ (table # "none" => ~Fails(type))
      /\ table \notin {"none", "own"} =>
           type # TextPtr /\ ((\E c \in Solid : type = T(c, 0)) \/ type = I8Ptr)
      /\ table = "own" => type = IF dll THEN g ELSE made
  BY <1>3, AnnouncedIs
<1>6. /\ made = Text => stars = 0 /\ ret = "text"
      /\ stars = 0 => made = g
      /\ ret = "text" /\ stars = 0 => made = Text
  BY <1>3, <1>4, SameType
<1>7. /\ call.taken => ~Fails(val) /\ val = PushFree(made)
      /\ ~call.taken => val = Bad
      /\ val \in Types
  BY <1>3, <1>4 DEF PushFree
<1>8. /\ gap \in {"none", "star", "table"}
      /\ gap = "none" => type = made
      /\ gap = "star" => type # made /\ type = g
      /\ gap = "table" => table = "none" \/ (type # made /\ type # g)
      /\ table # "none" => (gap = "none" <=> type = made)
      /\ table # "none" => (gap = "star" <=> type # made /\ type = g)
  <2>1. CallGap(type, ret, stars) =
          CASE type = made -> "none" [] type # made /\ type = g -> "star" [] OTHER -> "table"
    BY DEF CallGap
  <2> HIDE DEF type, made, g
  <2> QED BY <2>1
<1>9. how \in {"broken", "ref", "place", "value"} /\ how \in Hows /\ gap \in Gaps
      /\ (how = "broken" <=> ~call.works)
      /\ (call.works /\ stars > 0 => how = IF table = "own" /\ ~dll THEN "ref" ELSE "place")
      /\ (call.works /\ stars = 0 => how = IF ret = "text" THEN "place" ELSE "value")
  <2> HIDE DEF gap
  <2> QED BY <1>8 DEF Hows, Gaps
<1>10. e \in {"none", "void", ret} /\ e \in AllNamed \cup {"none", "void"}
       /\ (e # "none" => call.typed /\ stars \in {0, 1} /\ (stars = 1 => ret \in AllNamed /\ ret \notin LikeChars))
       /\ (e \in AllNamed => e = ret /\ table # "none" /\ ret \in AllNamed)
  BY <1>2 DEF AllNamed, Numeric, Integral
<1> HIDE DEF g, b, p, made, type, e, how, gap, val
<1>11. ASSUME ~Fails(val), n.gap = gap, n.type = type, n.val = val PROVE Announces(n)
  <2>1. val = PushFree(made)
    BY <1>4, <1>7, <1>11
  <2>2. gap = "none" => val = type \/ (IsAddressed(type) /\ val = Ptr(type))
    BY <1>4, <1>8, <2>1 DEF PushFree, IsAddressed
  <2>3. gap = "star" => val.base = type.base /\ val.ptr > type.ptr
    <3>1. ASSUME gap = "star" PROVE val.base = type.base /\ val.ptr > type.ptr
      <4>1. type = T(b, p) /\ stars > 0 /\ made # Text
        BY <1>3, <1>6, <1>8, <3>1
      <4>2. val = T(b, p + stars)
        BY <1>3, <2>1, <4>1 DEF PushFree
      <4> QED BY <1>3, <4>1, <4>2, TypeParts
    <3> QED BY <3>1
  <2> HIDE DEF n
  <2> QED BY <1>8, <1>11, <2>2, <2>3 DEF Announces
<1>a. CASE e = "none"
  <2>1. n = Node("none", FALSE, FALSE, how, gap, type, Null, val)
    BY <1>a
  <2>2. ASSUME ~Fails(val), type = I8Ptr => val = I8Ptr PROVE Announces(n)
    <3>1. n.gap = gap /\ n.type = type /\ n.val = val
      BY <1>a, <2>2 DEF Node
    <3> HIDE DEF n
    <3> QED BY <1>11, <2>2, <3>1
  <2>3. Node("none", FALSE, FALSE, how, gap, type, Null, val) \in Good
    <3>1. gap # "bad" /\ gap # "chars"
      BY <1>8
    <3> HIDE DEF n
    <3> QED BY <1>4, <1>5, <1>7, <1>9, <2>1, <2>2, <3>1, NoneGood
  <2> QED BY <1>1, <2>1, <2>3
<1>b. CASE e # "none"
  <2>1. n \in Nodes
    BY <1>4, <1>5, <1>7, <1>9, <1>10, NodeType
  <2>2. /\ n.e = e /\ ~n.array /\ ~n.place /\ n.lhs = Null /\ n.how = how
        /\ n.gap = (IF e # "raw" /\ type = I8Ptr /\ val # I8Ptr THEN "chars" ELSE gap)
        /\ n.type = type /\ n.val = val
    BY <1>b DEF Node
  <2> HIDE DEF n
  <2>3. /\ n.gap # "bad"
        /\ n.gap = "chars" => n.type = I8Ptr /\ n.val # I8Ptr /\ n.e # "raw"
        /\ n.type = I8Ptr => n.gap = "chars" \/ n.e = "raw" \/ n.val = I8Ptr
    BY <1>8, <2>2
  <2>4. ~Fails(n.val) => Announces(n)
    <3>1. ASSUME ~Fails(n.val) PROVE Announces(n)
      <4>1. CASE n.gap = "chars"
        BY <2>3, <4>1 DEF Announces
      <4>2. CASE n.gap # "chars"
        <5>1. n.gap = gap
          BY <2>2, <4>2
        <5> QED BY <1>11, <2>2, <3>1, <5>1
      <4> QED BY <4>1, <4>2
    <3> QED BY <3>1
  <2>5. call.works <=> call.taken
    BY <1>b, <1>10
  <2>6. n.how = "broken" <=> Fails(n.val)
    BY <1>4, <1>7, <1>9, <2>2, <2>5
  <2>7. Located(n) /\ Arrayed(n)
    BY <2>2 DEF Located, Arrayed
  <2>8. CASE n.e \notin AllNamed \/ n.how = "broken"
    <3>1. Formed(n)
      BY <2>6, <2>8 DEF Formed
    <3>2. Agrees(n)
      BY <2>3, <2>4, <2>7, <2>8, <3>1 DEF Agrees
    <3> QED BY <1>1, <2>1, <3>2 DEF Good
  <2>9. CASE n.e \in AllNamed /\ n.how # "broken"
    <3>1. /\ call.works /\ val = PushFree(made) /\ table # "none" /\ e = ret /\ ret \in AllNamed
          /\ stars \in {0, 1} /\ (stars = 1 => ret \notin LikeChars) /\ ~Fails(type)
      <4>1. /\ e = ret /\ ret \in AllNamed /\ table # "none" /\ stars \in {0, 1}
            /\ (stars = 1 => ret \notin LikeChars)
        BY <1>b, <1>10, <2>2, <2>9
      <4>2. call.works
        BY <1>9, <2>2, <2>9
      <4> QED BY <1>5, <1>7, <2>5, <4>1, <4>2
    <3>2. CASE stars = 1
      <4>1. val = Ptr(g) /\ made = Ptr(g) /\ g # Ptr(g) /\ Ptr(g) # I8Ptr
        <5>1. Ptr(g) = T(b, p + 1)
          BY <1>3, PtrIs
        <5>2. val = made
          BY <1>6, <3>1, <3>2 DEF PushFree
        <5> QED BY <1>3, <1>4, <3>1, <3>2, <5>1, <5>2, SameType DEF LikeChars
      <4>2. how = IF table = "own" /\ ~dll THEN "ref" ELSE "place"
        BY <1>9, <3>1, <3>2
      <4>3. Formed(n)
        BY <2>2, <2>6, <3>1, <3>2, <4>1, <4>2 DEF Formed, g
      <4>4. CASE table = "own" /\ ~dll
        <5>1. n.how = "ref" /\ n.type = Ptr(g) /\ n.gap = "none"
          BY <1>5, <1>8, <2>2, <4>1, <4>2, <4>4
        <5>2. Told(n)
          BY <2>2, <3>1, <5>1 DEF Told, g
        <5>3. Agrees(n)
          BY <2>3, <2>4, <2>7, <4>3, <5>2 DEF Agrees
        <5> QED BY <1>1, <2>1, <5>3 DEF Good
      <4>5. CASE ~(table = "own" /\ ~dll)
        <5>1. type # made
          <6>1. CASE table = "own"
            BY <1>5, <4>1, <4>5, <6>1
          <6>2. CASE table # "own"
            <7>1. (\E c \in Solid : type = T(c, 0)) \/ type = I8Ptr
              BY <1>5, <3>1, <6>2
            <7> QED BY <1>3, <3>2, <4>1, <7>1, SameType
          <6> QED BY <6>1, <6>2
        <5>2. n.how = "place" /\ n.val = Ptr(g) /\ n.type # n.val /\ n.type = type /\ n.e = ret
          BY <2>2, <3>1, <4>1, <4>2, <4>5, <5>1
        <5>3. n.gap \in {"chars", "star", "table"} /\ (n.gap = "star" => type = g) /\ (n.gap = "table" => type # g)
          BY <1>8, <2>2, <3>1, <5>1
        <5>4. ret = "raw" => g = I8Ptr
          BY <1>3, <1>4
        <5>5. Told(n)
          BY <2>2, <3>1, <5>2, <5>3, <5>4 DEF Told, g
        <5>6. Agrees(n)
          BY <2>3, <2>4, <2>7, <4>3, <5>5 DEF Agrees
        <5> QED BY <1>1, <2>1, <5>6 DEF Good
      <4> QED BY <4>4, <4>5
    <3>3. CASE stars = 0
      <4>1. made = g /\ (table = "own" => type = g) /\ type # TextPtr
        <5>1. g # TextPtr
          BY <1>3, <1>4, SameType
        <5> QED BY <1>5, <1>6, <3>1, <3>3, <5>1
      <4>2. IF ret = "text" THEN how = "place" /\ g = Text /\ val = TextPtr
            ELSE how = "value" /\ val = g
        <5>1. CASE ret = "text"
          BY <1>6, <1>9, <3>1, <3>3, <4>1, <5>1 DEF PushFree
        <5>2. CASE ret # "text"
          BY <1>6, <1>9, <3>1, <3>3, <4>1, <5>2 DEF PushFree
        <5> QED BY <5>1, <5>2
      <4>3. Formed(n)
        BY <1>4, <2>2, <2>6, <3>1, <4>2 DEF Formed, g, LikeChars
      <4>4. /\ n.gap \in {"chars", "none", "table"} /\ (n.gap = "none" => type = g)
            /\ (n.gap = "table" => type # g)
        BY <1>8, <2>2, <3>1, <4>1
      <4>5. n.gap = "table" => n.type # n.val
        BY <2>2, <4>1, <4>2, <4>4
      <4>6. ret = "raw" => g = I8Ptr
        BY <1>3, <1>4
      <4>7. Told(n)
        BY <2>2, <3>1, <4>2, <4>4, <4>5, <4>6 DEF Told, g
      <4>8. Agrees(n)
        BY <2>3, <2>4, <2>7, <4>3, <4>7 DEF Agrees
      <4> QED BY <1>1, <2>1, <4>8 DEF Good
    <3> QED BY <3>1, <3>2, <3>3
  <2> QED BY <2>8, <2>9
<1> QED BY <1>a, <1>b

-----------------------------------------------------------------------------
(* The steps.                                                              *)
LEMMA PeekGood ==
  ASSUME GoodStack, NEW k \in {1, 2}, Len(stack) >= k
  PROVE  Peek(k) \in Good
  BY DEF GoodStack, Peek

LEMMA DropGood ==
  ASSUME GoodStack, NEW n \in {0, 1, 2}, Len(stack) >= n
  PROVE  Drop(n) \in Seq(Good)
  BY DEF GoodStack, Drop

LEMMA MakeKeeps ==
  ASSUME GoodStack, NEW n \in {0, 1, 2}, Len(stack) >= n, NEW node \in Good, Make(n, node)
  PROVE  GoodStack'
<1>1. Append(Drop(n), node) \in Seq(Good)
  BY DropGood
<1> QED BY <1>1 DEF Make, GoodStack, WellTypedCompiles

LEMMA CompileKeeps ==
  ASSUME GoodStack, NEW n, NEW typed \in BOOLEAN, NEW works \in BOOLEAN, NEW ok \in BOOLEAN,
         typed => (ok <=> works), Compile(n, typed, works, ok)
  PROVE  GoodStack'
<1>1. stack' = <<>> /\ call' = call /\ outcome' = [typed |-> typed, works |-> works, ok |-> ok]
  BY DEF Compile
<1>2. <<>> \in Seq(Good)
  OBVIOUS
<1>3. /\ outcome' \in [typed : BOOLEAN, works : BOOLEAN, ok : BOOLEAN]
      /\ outcome'.typed => (outcome'.ok <=> outcome'.works)
  BY <1>1
<1> QED BY <1>1, <1>2, <1>3 DEF GoodStack, WellTypedCompiles

LEMMA PassKeeps ==
  ASSUME GoodStack, NEW dll \in BOOLEAN, Len(stack) >= 1,
         NEW typed \in BOOLEAN, NEW works \in BOOLEAN, NEW taken \in BOOLEAN,
         typed => (works <=> taken), Pass(dll, Peek(1), typed, works, taken),
         stack' = Drop(1), UNCHANGED outcome
  PROVE  GoodStack'
<1>1. stack' \in Seq(Good)
  BY DropGood
<1>2. Peek(1).type \in Types
  BY PeekGood, GoodIs
<1>3. call' = [on |-> TRUE, dll |-> dll, typed |-> call.typed /\ typed,
               works |-> call.works /\ works, taken |-> call.taken /\ taken, first |-> Peek(1).type]
  BY DEF Pass
<1>4. /\ call' \in [on : BOOLEAN, dll : BOOLEAN, typed : BOOLEAN, works : BOOLEAN,
                    taken : BOOLEAN, first : Types]
      /\ call'.typed => (call'.works <=> call'.taken)
  BY <1>2, <1>3 DEF GoodStack
<1> QED BY <1>1, <1>4 DEF GoodStack, WellTypedCompiles

LEMMA GoodInit == Init => GoodStack
<1> SUFFICES ASSUME Init PROVE GoodStack
  OBVIOUS
<1>1. Bad \in Types
  BY NamedTypes
<1>2. /\ call \in [on : BOOLEAN, dll : BOOLEAN, typed : BOOLEAN, works : BOOLEAN,
                   taken : BOOLEAN, first : Types]
      /\ call.typed => (call.works <=> call.taken)
  BY <1>1 DEF Init, NoCall
<1>3. stack \in Seq(Good)
  BY DEF Init
<1>4. outcome \in [typed : BOOLEAN, works : BOOLEAN, ok : BOOLEAN] /\ WellTypedCompiles
  BY DEF Init, WellTypedCompiles
<1> QED BY <1>2, <1>3, <1>4 DEF GoodStack

LEMMA NodesKeep ==
  ASSUME GoodStack, MakeVariable \/ MakeConstant \/ MakeUnhandled \/ MakeMember \/ MakeSubscript
                    \/ MakeArithmetic \/ MakeComparison \/ MakeUntranslated
  PROVE  GoodStack'
<1>0. Len(stack) >= 0 /\ Len(stack) \in Nat
  BY DEF GoodStack
<1>1. CASE MakeVariable
  BY <1>0, <1>1, VariableGood, MakeKeeps DEF MakeVariable
<1>2. CASE MakeConstant
  BY <1>0, <1>2, ConstantGood, MakeKeeps DEF MakeConstant
<1>3. CASE MakeUnhandled
  BY <1>0, <1>3, UnhandledGood, MakeKeeps DEF MakeUnhandled
<1>4. CASE MakeMember
  <2>1. PICK m \in Named : Len(stack) >= 1 /\ Peek(1).place /\ Make(1, Member(Peek(1), m))
    BY <1>4 DEF MakeMember
  <2>2. Member(Peek(1), m) \in Good
    BY <2>1, PeekGood, MemberGood, NamedAssumption
  <2> QED BY <2>1, <2>2, MakeKeeps
<1>5. CASE MakeSubscript
  <2>1. Len(stack) >= 2 /\ Len(stack) >= 1 /\ Peek(2).place /\ Make(2, Subscript(Peek(2), Peek(1)))
    BY <1>0, <1>5 DEF MakeSubscript
  <2>2. Peek(2) \in Good /\ Peek(1) \in Good
    BY <2>1, PeekGood
  <2> QED BY <2>1, <2>2, SubscriptGood, MakeKeeps
<1>6. CASE MakeArithmetic
  <2>1. PICK op \in Ops, table \in Tables :
          Len(stack) >= 2 /\ Make(2, Arithmetic(op, Peek(2), Peek(1), table))
    BY <1>6 DEF MakeArithmetic
  <2>2. Len(stack) >= 1
    BY <1>0, <2>1
  <2>3. Peek(2) \in Good /\ Peek(1) \in Good
    BY <2>1, <2>2, PeekGood
  <2> QED BY <2>1, <2>3, ArithmeticGood, MakeKeeps
<1>7. CASE MakeComparison
  <2>1. Len(stack) >= 2 /\ Len(stack) >= 1 /\ Make(2, Comparison(Peek(2), Peek(1)))
    BY <1>0, <1>7 DEF MakeComparison
  <2>2. Peek(2) \in Good /\ Peek(1) \in Good
    BY <2>1, PeekGood
  <2> QED BY <2>1, <2>2, ComparisonGood, MakeKeeps
<1>8. CASE MakeUntranslated
  <2>1. PICK table \in Tables :
          \/ Make(0, Untranslated(Bad, table))
          \/ Len(stack) >= 1 /\ Make(1, Untranslated(Peek(1).type, table))
    BY <1>8 DEF MakeUntranslated
  <2>2. CASE Make(0, Untranslated(Bad, table))
    <3>1. Bad \in Types
      BY NamedTypes
    <3> QED BY <1>0, <2>2, <3>1, UntranslatedGood, MakeKeeps
  <2>3. CASE Len(stack) >= 1 /\ Make(1, Untranslated(Peek(1).type, table))
    <3>1. Peek(1).type \in Types
      BY <2>3, PeekGood, GoodIs
    <3> QED BY <2>3, <3>1, UntranslatedGood, MakeKeeps
  <2> QED BY <2>1, <2>2, <2>3
<1> QED BY <1>1, <1>2, <1>3, <1>4, <1>5, <1>6, <1>7, <1>8

LEMMA CallsKeep ==
  ASSUME GoodStack, PassArgument \/ PassExtra \/ EndCall PROVE GoodStack'
<1>0. Functions \subseteq BOOLEAN
  BY DEF Functions, GoodStack
<1>1. CASE PassArgument
  <2>1. Len(stack) >= 1 /\ stack' = Drop(1) /\ UNCHANGED outcome
    BY <1>1 DEF PassArgument
  <2> DEFINE n == Peek(1)
  <2>2. PICK p \in Params, dll \in Functions :
          LET t == Passed(p, dll, n.val) IN
          Pass(dll, n, FitsParam(p, n), Passable(p, dll, n), ~Fails(t) /\ t = ParamType(p, dll))
    BY <1>1 DEF PassArgument
  <2>3. n \in Good /\ dll \in BOOLEAN
    BY <1>0, <2>1, PeekGood
  <2>4. FitsParam(p, n) => (Passable(p, dll, n) <=>
          ~Fails(Passed(p, dll, n.val)) /\ Passed(p, dll, n.val) = ParamType(p, dll))
    BY <2>3, ArgumentFits
  <2>5. FitsParam(p, n) \in BOOLEAN /\ Passable(p, dll, n) \in BOOLEAN
    BY DEF FitsParam, Fits, Passable, Castable
  <2> HIDE DEF n
  <2> QED BY <2>1, <2>2, <2>3, <2>4, <2>5, PassKeeps DEF n
<1>2. CASE PassExtra
  <2>1. Len(stack) >= 1 /\ stack' = Drop(1) /\ UNCHANGED outcome
    BY <1>2 DEF PassExtra
  <2> DEFINE n == Peek(1)
  <2>2. PICK dll \in Functions :
          Pass(dll, n, n.e \notin {"none", "void"}, n.how # "broken", ~Fails(Characters(n.val, dll)))
    BY <1>2 DEF PassExtra
  <2>3. n \in Good /\ dll \in BOOLEAN
    BY <1>0, <2>1, PeekGood
  <2>4. n.e \notin {"none", "void"} => (n.how # "broken" <=> ~Fails(Characters(n.val, dll)))
    BY <2>3, ExtraFits
  <2> QED BY <2>1, <2>2, <2>3, <2>4, PassKeeps
<1>3. CASE EndCall
  <2>1. PICK ret \in Named \cup {"void"}, stars \in 0..MaxStars, dll \in Functions,
             table \in Tables \cup {"own"} : stack' = Append(stack, Result(ret, stars, dll, table))
    BY <1>3 DEF EndCall
  <2>2. stars \in Nat /\ dll \in BOOLEAN
    BY <1>0, BoundsAssumption
  <2>3. Result(ret, stars, dll, table) \in Good
    BY <2>2, ResultGood DEF GoodStack
  <2>4. stack' \in Seq(Good)
    BY <2>1, <2>3 DEF GoodStack
  <2>5. call' = NoCall /\ UNCHANGED outcome /\ Bad \in Types
    BY <1>3, NamedTypes DEF EndCall
  <2>6. /\ call' \in [on : BOOLEAN, dll : BOOLEAN, typed : BOOLEAN, works : BOOLEAN,
                      taken : BOOLEAN, first : Types]
        /\ call'.typed => (call'.works <=> call'.taken)
    BY <2>5 DEF NoCall
  <2> QED BY <2>4, <2>5, <2>6 DEF GoodStack, WellTypedCompiles
<1> QED BY <1>1, <1>2, <1>3

LEMMA StatementsKeep == ASSUME GoodStack, CompileStatement PROVE GoodStack'
<1>1. CASE If
  <2>1. Compile(1, Peek(1).e = "bool" /\ ~Peek(1).array, Peek(1).how = "bit", Peek(1).val = I1)
    BY <1>1 DEF If
  <2>2. Peek(1) \in Good
    BY <2>1, PeekGood DEF Compile
  <2>3. Peek(1).e = "bool" /\ ~Peek(1).array => (Peek(1).val = I1 <=> Peek(1).how = "bit")
    BY <2>2, IfFits
  <2> QED BY <2>1, <2>3, CompileKeeps
<1>2. CASE Times
  <2> DEFINE n == Peek(2) counter == Peek(1)
             typed == /\ counter.place /\ counter.e \in Integral /\ ~counter.array
                      /\ n.e \in Numeric /\ ~n.array
             works == /\ counter.e = "int" /\ counter.how # "broken"
                      /\ n.how = "number" \/ (n.e = "int" /\ n.how = "value")
             ok == counter.lhs = Ptr(I32) /\ n.val = I32
  <2>1. Compile(2, typed, works, ok)
    BY <1>2 DEF Times
  <2>2. n \in Good /\ counter \in Good
    BY <2>1, PeekGood DEF Compile
  <2>3. typed => (ok <=> works)
    BY <2>2, TimesFits
  <2>4. typed \in BOOLEAN /\ works \in BOOLEAN /\ ok \in BOOLEAN
    BY <2>2, GoodIs
  <2> HIDE DEF typed, works, ok
  <2> QED BY <2>1, <2>3, <2>4, CompileKeeps
<1>3. CASE Evaluate
  <2>1. Compile(1, Peek(1).e # "none", Peek(1).how # "broken", ~Fails(Peek(1).val))
    BY <1>3 DEF Evaluate
  <2>2. Peek(1) \in Good
    BY <2>1, PeekGood DEF Compile
  <2>3. Peek(1).e # "none" => (Peek(1).how # "broken" <=> ~Fails(Peek(1).val))
    BY <2>2, GoodIs DEF Agrees, Formed
  <2> QED BY <2>1, <2>3, CompileKeeps
<1>4. CASE Return
  <2> DEFINE n == Peek(1)
             works(ret, stars) ==
               CASE stars = 0 -> Castable(ret, n)
                 [] stars = 1 -> n.e = ret /\ n.how \in {"place", "ref", "chars"}
                 [] OTHER -> FALSE
             ok(ret, stars) == TypeCast(n.val, Add(GetType[ret], stars)) # Bad
  <2>1. PICK ret \in Named, stars \in 0..MaxStars :
          Compile(1, Fits(ret, n), works(ret, stars), ok(ret, stars))
    BY <1>4 DEF Return
  <2>2. n \in Good
    BY <2>1, PeekGood DEF Compile
  <2>3. ret \in AllNamed /\ stars \in Nat
    BY NamedAssumption, BoundsAssumption
  <2>4. Fits(ret, n) => (ok(ret, stars) <=> works(ret, stars))
    BY <2>2, <2>3, ReturnFits
  <2>5. Fits(ret, n) \in BOOLEAN /\ ok(ret, stars) \in BOOLEAN
    BY DEF Fits
  <2>6. works(ret, stars) \in BOOLEAN
    <3>1. CASE stars = 0
      BY <3>1 DEF Castable
    <3>2. CASE stars = 1
      BY <3>2
    <3>3. CASE stars > 1
      <4>1. stars # 0 /\ stars # 1
        BY <2>3, <3>3
      <4> QED BY <4>1
    <3> QED BY <2>3, <3>1, <3>2, <3>3
  <2> HIDE DEF works, ok, n
  <2> QED BY <2>1, <2>4, <2>5, <2>6, CompileKeeps
<1>5. CASE Assign
  <2> DEFINE l == Peek(2) r == Peek(1)
             typed == l.place /\ l.e # "none" /\ ~l.array /\ Fits(l.e, r)
  <2>1. Compile(2, typed, Assignable(l, r), Assigned(l, r))
    BY <1>5 DEF Assign
  <2>2. l \in Good /\ r \in Good
    BY <2>1, PeekGood DEF Compile
  <2>3. typed => (Assigned(l, r) <=> Assignable(l, r))
    BY <2>2, AssignFits
  <2>4. typed \in BOOLEAN
    BY <2>2, GoodIs DEF Fits
  <2>5. Assigned(l, r) \in BOOLEAN
    BY DEF Assigned, StringCopy, Store
  <2>6. Assignable(l, r) \in BOOLEAN
    BY DEF Assignable, Castable
  <2> HIDE DEF typed, l, r
  <2> QED BY <2>1, <2>3, <2>4, <2>5, <2>6, CompileKeeps
<1> QED BY <1>1, <1>2, <1>3, <1>4, <1>5 DEF CompileStatement

LEMMA GoodNext == GoodStack /\ [Next]_vars => GoodStack'
<1> SUFFICES ASSUME GoodStack, [Next]_vars PROVE GoodStack'
  OBVIOUS
<1>1. CASE UNCHANGED vars
  BY <1>1 DEF vars, GoodStack, WellTypedCompiles
<1>2. CASE MakeNode
  BY <1>2, NodesKeep, CallsKeep DEF MakeNode
<1>3. CASE CompileStatement
  BY <1>3, StatementsKeep
<1> QED BY <1>1, <1>2, <1>3 DEF Next

LEMMA GoodAlways == Spec => []GoodStack
  BY GoodInit, GoodNext, PTL DEF Spec

(* Whatever the size of an expression and the number of arguments, the     *)
(* three methods return types of the module, and what cannot be assigned   *)
(* to has no address.                                                      *)
THEOREM CodegenTypeCorrect == Spec => []CodegenTypeOK
<1>1. ASSUME GoodStack PROVE CodegenTypeOK
  <2>1. stack \in Seq(Nodes)
    BY <1>1 DEF GoodStack, Good
  <2>2. \A k \in DOMAIN stack : ~stack[k].place => stack[k].lhs = Null
    BY <1>1, GoodIs DEF GoodStack, Agrees, Located
  <2> QED BY <1>1, <2>1, <2>2 DEF GoodStack, CodegenTypeOK
<1> QED BY <1>1, GoodAlways, PTL

(* For every expression, what type announces is what codegen makes, or     *)
(* differs from it in one of the ways that the source text gives.          *)
THEOREM AnnouncedCorrect == Spec => []AnnouncedIsGenerated
<1>1. ASSUME GoodStack PROVE AnnouncedIsGenerated
  BY <1>1, GoodIs DEF GoodStack, Agrees, AnnouncedIsGenerated
<1> QED BY <1>1, GoodAlways, PTL

(* A well-typed statement of any size compiles if and only if the forms of *)
(* its values go together.                                                 *)
THEOREM WellTypedCorrect == Spec => []WellTypedCompiles
<1>1. GoodStack => WellTypedCompiles
  BY DEF GoodStack
<1> QED BY <1>1, GoodAlways, PTL
=============================================================================
