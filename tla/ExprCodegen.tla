----------------------------- MODULE ExprCodegen -----------------------------
(***************************************************************************)
(* type, codegenLHS and codegen of ECompiler (src/src/compiler.h) and the  *)
(* statements that use them.  What the three methods return for a node is  *)
(* decided by what they return for its children, so a node is the record   *)
(* of the LLVM types of the three, and the stack holds the nodes that have *)
(* no parent yet: whatever the size of an expression, its root comes up.   *)
(*                                                                         *)
(* Every name resolves, the module declares the struct "@String", and the  *)
(* String_ functions of the runtime library have the types their callers   *)
(* expect.  Operations have two operands: of more, the code makes a chain. *)
(***************************************************************************)
EXTENDS Integers, Sequences

CONSTANTS
  Named,      (* the types a program names                                 *)
  MaxStars,   (* bound on the stars in a comment                           *)
  MaxNodes    (* bound on the nodes without a parent                       *)

Integral == {"byte", "short", "int", "int64"}
Numeric == Integral \cup {"float", "double"}
AllNamed == Numeric \cup {"bool", "date", "text", "rec", "raw"}
ASSUME NamedAssumption == Named \subseteq AllNamed
ASSUME BoundsAssumption == MaxStars \in Nat /\ MaxNodes \in Nat

VARIABLES
  stack,    (* the nodes without a parent, the last one made on top        *)
  call,     (* the call whose arguments are being passed                   *)
  outcome   (* of the last statement: was it well typed, should the code   *)
            (* this compiler makes of it work, did it compile              *)

vars == <<stack, call, outcome>>

-----------------------------------------------------------------------------
(* LLVM types: a base and the pointers to it.  Bad stands for an assertion *)
(* of LLVM that fails, Null for a method that returns nullptr.             *)
(* (LoadAny: mutated form of Load, of what is no pointer, too.)            *)
T(base, ptr) == [base |-> base, ptr |-> ptr]
I1 == T("i1", 0)
I8 == T("i8", 0)
I16 == T("i16", 0)
I32 == T("i32", 0)
I64 == T("i64", 0)
Float == T("float", 0)
Double == T("double", 0)
Text == T("text", 0)
Rec == T("rec", 0)
Void == T("void", 0)
I8Ptr == T("i8", 1)
TextPtr == T("text", 1)
Bad == T("bad", 0)
Null == T("null", 0)
Fails(t) == t \in {Bad, Null}

IsInt(t) == t \in {I1, I8, I16, I32, I64}
Add(t, n) == T(t.base, t.ptr + n)
Ptr(t) == Add(t, 1)
LoadAny(t) == T(t.base, t.ptr - 1)
Load(t) == IF t.ptr > 0 THEN T(t.base, t.ptr - 1) ELSE Bad
IsAddressed(t) == t.ptr > 0 \/ t \in {Text, Rec}

(* EContext::getType of the types a program names; "raw" is bin, sub       *)
(* pointer and statement.                                                  *)
GetType == [byte |-> I8, short |-> I16, int |-> I32, int64 |-> I64,
            float |-> Float, double |-> Double, bool |-> I8, date |-> Double,
            text |-> Text, rec |-> Rec, raw |-> I8Ptr, void |-> Void]

(* The type of a call's result.  A text is put in an alloca, which is the  *)
(* value from then on.                                                     *)
PushFree(t) == IF t = Text THEN TextPtr ELSE t

(* CallFunction of a String_ function: its arguments are not cast.         *)
StringCreate(ptr) == IF ptr = I8Ptr THEN PushFree(Text) ELSE Bad
StringAdd(l, r) == IF l = TextPtr /\ r = TextPtr THEN PushFree(Text) ELSE Bad

TypeCast(t, to) ==
  IF Fails(t) \/ Fails(to) THEN Bad ELSE
  CASE t = to -> t
    [] t = Ptr(to) -> to
    [] t = TextPtr /\ to = I8Ptr -> I8Ptr
    [] t = I8Ptr /\ to = Text -> Load(StringCreate(t))
    [] t = I8Ptr /\ to = TextPtr -> StringCreate(t)
    [] OTHER -> IF IsInt(t) /\ IsInt(to) THEN to ELSE Bad

-----------------------------------------------------------------------------
(* Nodes.  type, lhs and val are what the three methods return.  The rest  *)
(* is what the source text says: e is the type the expression has in the   *)
(* language ("none" where this model makes no promise), of arrays that of  *)
(* the elements; place says that it can be assigned to.  how is the form   *)
(* in which the value of an e is handed on:                                *)
(*   "value"   the value itself             "chars"   a constant text      *)
(*   "place"   the address it is left at    "number"  a real made an int   *)
(*   "ref"     such an address that type    "bit"     a bool made an i1    *)
(*             announces as an address      "broken"  nothing LLVM accepts *)
(* and gap is why type announces another type than the one made:           *)
(*   "none"    it does not                  "table"   a library's table    *)
(*   "flag"    a bool made an i1            "star"    stars of a dll       *)
(*   "chars"   as characters                "depth"   other references     *)
(*   "bad"     type itself fails                                           *)
Node(e, array, place, how, gap, type, lhs, val) ==
  [e |-> e, array |-> e # "none" /\ array, place |-> place,
   how |-> IF e = "none" THEN "broken" ELSE how,
   gap |-> IF e # "raw" /\ type = I8Ptr /\ val # I8Ptr THEN "chars" ELSE gap,
   type |-> type, lhs |-> lhs, val |-> val]
Value(e, how, gap, type, val) == Node(e, FALSE, FALSE, how, gap, type, Null, val)

(* Variables: parameters have the type of their sub's parameter, locals    *)
(* the declared type with a pointer for each star in their comment.  What  *)
(* is left ("other": variables of modules, globals, locals without a name) *)
(* is not given a value by anything.                                       *)
Decls == {d \in [e : Named, kind : {"param", "local", "other"}, ref : BOOLEAN,
                 array : BOOLEAN, stars : 0..MaxStars] :
            /\ d.ref => d.kind = "param"
            /\ d.stars > 0 => d.kind = "local"}
One(b) == IF b THEN 1 ELSE 0
Refs(d) == IF d.kind = "param" THEN One(d.ref) + One(d.array) ELSE 0
Slot(d) == Add(GetType[d.e], Refs(d) + d.stars)

(* No promise is made of locals with stars, which stand for pointers, and  *)
(* of references to bytes and bools, which are like characters.            *)
LikeChars == {"byte", "bool"}
Means(d) == IF d.stars > 0 \/ (d.ref /\ d.e \in LikeChars) THEN "none" ELSE d.e

(* The address is loaded once per reference; a struct and a pointer are    *)
(* left where they are.  (Mutated form: it is loaded once more for each.)  *)
VariableLHSOften(d) == T(Slot(d).base, Slot(d).ptr + 1 - 2 * Refs(d))
VariableLHS(d) == T(Slot(d).base, Slot(d).ptr + 1 - Refs(d))
Variable(d) ==
  IF d.kind = "other" THEN Node(Means(d), d.array, TRUE, "broken", "bad", Bad, Null, Bad)
  ELSE LET lhs == VariableLHS(d) IN
       Node(Means(d), d.array, TRUE,
            IF Refs(d) > 0 THEN "ref" ELSE IF IsAddressed(Slot(d)) THEN "place" ELSE "value",
            IF Refs(d) = 2 THEN "depth" ELSE "none",
            Slot(d), lhs, IF IsAddressed(Slot(d)) THEN lhs ELSE Load(lhs))

(* LoadConst, for literals, constants and constants of libraries, and what *)
(* type says of them: a double and a date become ints.                     *)
Constant(e) ==
  CASE e = "text" -> Value(e, "chars", "none", I8Ptr, I8Ptr)
    [] e = "bool" -> Value(e, "bit", "flag", I32, I1)
    [] e = "int" -> Value(e, "value", "none", I32, I32)
    [] e \in {"double", "date"} -> Value(e, "number", "none", I32, I32)

(* ASTPostfix.  Its value is always loaded, a text or struct as a whole.   *)
Postfix(e, how, gap, type, lhs) == Node(e, FALSE, TRUE, how, gap, type, lhs, Load(lhs))
Member(base, m) ==
  Postfix(IF base.e = "rec" /\ ~base.array THEN m ELSE "none",
          IF base.how = "broken" THEN "broken" ELSE "value", "none",
          GetType[m], IF base.lhs = Ptr(Rec) THEN Ptr(GetType[m]) ELSE Bad)

(* The elements of a parameter are one reference less far away.  Those of  *)
(* a local array have the address of the array, but type looks for a       *)
(* pointer the array is not.                                               *)
ElementGap(base) ==
  CASE base.how = "ref" -> base.gap
    [] base.how # "ref" /\ base.e = "raw" -> "depth"
    [] OTHER -> "bad"
Subscript(base, index) ==
  LET typed == base.e # "none" /\ base.array /\ index.e \in Integral /\ ~index.array IN
  Postfix(IF typed THEN base.e ELSE "none",
          IF base.how # "broken" /\ index.how = "value" THEN "value" ELSE "broken",
          IF typed THEN ElementGap(base) ELSE "depth",
          Load(base.type), IF base.lhs.ptr > 0 /\ IsInt(index.val) THEN base.lhs ELSE Bad)

(* Nodes without a method of their own: addresses of subs, enums, braces.  *)
Unhandled(e) == Value(e, "broken", "bad", Null, Null)

-----------------------------------------------------------------------------
(* Commands.  table is the return type in the library's table of commands: *)
(* none, one the program can name or one that getType does not know.       *)
Tables == Named \cup {"none", "unknown"}
Announced(table, first) ==
  CASE table = "none" -> first
    [] table = "unknown" -> Void
    [] OTHER -> GetType[table]

Operand(n) == IF Fails(n.val) THEN Bad
              ELSE IF n.type = I8Ptr THEN TypeCast(n.val, TextPtr)
              ELSE IF n.type = Bad THEN Bad ELSE n.val

(* The float operation of "bits" is an integer one, too.                   *)
Ops == {"sum", "bits"}
BinOp(op, l, r) ==
  IF r = TextPtr THEN StringAdd(l, r)
  ELSE IF l = r /\ (IsInt(l) \/ (l = Float /\ op = "sum")) THEN l ELSE Bad

(* What works: ints of one width, floats but for bits, two constant reals, *)
(* and texts that are somewhere.                                           *)
Addable(op, l, r) ==
  IF l.e = "text" THEN {l.how, r.how} \subseteq {"place", "ref", "chars"}
  ELSE /\ l.e = r.e /\ {l.gap, r.gap} \cap {"chars", "bad"} = {}
       /\ \/ l.how = "value" /\ r.how = "value"
             /\ l.e \in Integral \cup (IF op = "sum" THEN {"float"} ELSE {})
          \/ l.how = "number" /\ r.how = "number"
Sum(op, l, r) ==
  /\ ~l.array /\ ~r.array
  /\ {l.e, r.e} \subseteq Integral \/ (l.e = r.e /\ l.e \in {"float", "double", "text"})
SumHow(op, l, r, table) ==
  CASE ~Addable(op, l, r) -> "broken"
    [] Addable(op, l, r) /\ l.e = "text" -> IF l.how = "ref" /\ table = "none" THEN "ref" ELSE "place"
    [] OTHER -> l.how
Arithmetic(op, l, r, table) ==
  LET type == Announced(table, l.type)
      val == BinOp(op, Operand(l), Operand(r))
  IN  Value(IF Sum(op, l, r) THEN l.e ELSE "none", SumHow(op, l, r, table),
            IF table = "none" THEN IF type = I8Ptr THEN "chars" ELSE l.gap
            ELSE IF val = PushFree(type) THEN "none" ELSE "table",
            type, val)

(* A cast to an e finds a value it takes.                                  *)
Castable(e, n) ==
  \/ n.e = e /\ n.how \in {"value", "place", "ref"}
  \/ e \in Integral \cup {"bool"} /\ n.e \in Integral \cup {"bool"} /\ n.how \in {"value", "bit"}
  \/ e \in Integral /\ n.how = "number"
  \/ e = "text" /\ n.how = "chars"

(* The right operand is cast to what the left one is announced to be,      *)
(* which has to be what it is: an int, an address, characters.             *)
(* (Mutated form: it is not cast.)                                         *)
ComparedPlain(l, r) == r.val
Compared(l, r) == TypeCast(r.val, l.type)
Comparable(l, r) ==
  /\ l.gap = "none"
  /\ \/ l.how = "value" /\ l.e \in Integral \cup {"bool"} /\ Castable(l.e, r)
     \/ l.how = "number" /\ r.how = "number"
     \/ l.how = "ref" /\ l.e = r.e /\ r.how \in {"place", "ref", "chars"}
     \/ l.how = "chars" /\ r.how \in {"place", "ref", "chars"}
Comparison(l, r) ==
  LET right == Compared(l, r)
      typed == /\ ~l.array /\ ~r.array
               /\ {l.e, r.e} \subseteq Integral \/ (l.e = r.e /\ l.e \notin {"none", "void", "rec", "raw"})
  IN  Value(IF typed THEN "bool" ELSE "none", IF Comparable(l, r) THEN "bit" ELSE "broken", "flag",
            I8, IF ~Fails(l.val) /\ l.val = right /\ (IsInt(right) \/ right.ptr > 0) THEN I1 ELSE Bad)

(* A command nobody translates and an operation with one operand are 0.    *)
Untranslated(first, table) ==
  Value("none", "value", "table", Announced(table, first), I32)

-----------------------------------------------------------------------------
(* Calls of subs and dll functions.  A text parameter of a dll is a byte,  *)
(* and characters if it is by reference.  Behind the last parameter come   *)
(* arguments nobody casts, if the function takes them.                     *)
Params == [e : Named, ref : BOOLEAN, array : BOOLEAN]
ParamType(p, dll) ==
  Add(IF dll /\ p.e = "text" THEN I8 ELSE GetType[p.e], One(p.ref) + One(p.array))

Fits(e, n) == ~n.array /\ (n.e = e \/ {n.e, e} \subseteq Numeric)
FitsParam(p, n) ==
  IF p.ref \/ p.array THEN n.e = p.e /\ n.array = p.array ELSE Fits(p.e, n)
Passable(p, dll, n) ==
  IF p.ref \/ p.array THEN p.ref # p.array /\ n.how \in {"place", "ref", "chars"}
  ELSE IF dll /\ p.e = "text" THEN n.how = "chars" ELSE Castable(p.e, n)

Characters(t, dll) == IF dll /\ t = TextPtr THEN TypeCast(t, I8Ptr) ELSE t
Passed(p, dll, t) == Characters(TypeCast(t, ParamType(p, dll)), dll)

(* What becomes of one argument does not depend on the others.             *)
NoCall == [on |-> FALSE, dll |-> FALSE, typed |-> TRUE, works |-> TRUE, taken |-> TRUE, first |-> Bad]
Functions == IF call.on THEN {call.dll} ELSE BOOLEAN
Pass(dll, n, typed, works, taken) ==
  call' = [on |-> TRUE, dll |-> dll, typed |-> call.typed /\ typed,
           works |-> call.works /\ works, taken |-> call.taken /\ taken, first |-> n.type]

(* The function has its parameters, so a call that has passed all of them  *)
(* is one.  A command that a comment translates is announced by the table. *)
CallGap(type, e, stars) ==
  CASE type = Add(GetType[e], stars) -> "none"
    [] type # Add(GetType[e], stars) /\ type = GetType[e] -> "star"
    [] OTHER -> "table"
Result(ret, stars, dll, table) ==
  LET made == Add(GetType[ret], stars)
      type == IF table # "own" THEN Announced(table, call.first)
              ELSE IF dll THEN GetType[ret] ELSE made
  IN  Value(CASE ~call.typed \/ stars > 1 \/ (stars = 1 /\ ret \in LikeChars \cup {"void"}) -> "none"
              [] OTHER -> IF table = "none" THEN "void" ELSE ret,
            CASE ~call.works -> "broken"
              [] call.works /\ stars > 0 -> IF table = "own" /\ ~dll THEN "ref" ELSE "place"
              [] OTHER -> IF ret = "text" THEN "place" ELSE "value",
            IF table = "none" THEN "table" ELSE CallGap(type, ret, stars),
            type, IF call.taken THEN PushFree(made) ELSE Bad)

-----------------------------------------------------------------------------
Init == /\ stack = <<>> /\ call = NoCall
        /\ outcome = [typed |-> TRUE, works |-> TRUE, ok |-> TRUE]

Peek(k) == stack[Len(stack) + 1 - k]
Drop(n) == SubSeq(stack, 1, Len(stack) - n)
Make(n, node) ==
  /\ ~call.on
  /\ Len(stack) + 1 - n <= MaxNodes
  /\ stack' = Append(Drop(n), node)
  /\ UNCHANGED <<call, outcome>>

MakeVariable == \E d \in Decls : Make(0, Variable(d))
MakeConstant == \E e \in {"text", "bool", "int", "double", "date"} : Make(0, Constant(e))
MakeUnhandled == \E e \in {"raw", "int", "none"} : Make(0, Unhandled(e))
MakeMember == \E m \in Named : Len(stack) >= 1 /\ Peek(1).place /\ Make(1, Member(Peek(1), m))
MakeSubscript == Len(stack) >= 2 /\ Peek(2).place /\ Make(2, Subscript(Peek(2), Peek(1)))
MakeArithmetic ==
  \E op \in Ops, table \in Tables :
    Len(stack) >= 2 /\ Make(2, Arithmetic(op, Peek(2), Peek(1), table))
MakeComparison == Len(stack) >= 2 /\ Make(2, Comparison(Peek(2), Peek(1)))
MakeUntranslated ==
  \E table \in Tables :
    \/ Make(0, Untranslated(Bad, table))
    \/ Len(stack) >= 1 /\ Make(1, Untranslated(Peek(1).type, table))

(* CreateCall: the turns of its loop over the arguments, last one first.   *)
PassArgument ==
  /\ Len(stack) >= 1
  /\ \E p \in Params, dll \in Functions :
       LET n == Peek(1)
           t == Passed(p, dll, n.val)
       IN  Pass(dll, n, FitsParam(p, n), Passable(p, dll, n), ~Fails(t) /\ t = ParamType(p, dll))
  /\ stack' = Drop(1) /\ UNCHANGED outcome
PassExtra ==
  /\ Len(stack) >= 1
  /\ \E dll \in Functions :
       LET n == Peek(1) IN
       Pass(dll, n, n.e \notin {"none", "void"}, n.how # "broken", ~Fails(Characters(n.val, dll)))
  /\ stack' = Drop(1) /\ UNCHANGED outcome
EndCall ==
  /\ Len(stack) < MaxNodes
  /\ \E ret \in Named \cup {"void"}, stars \in 0..MaxStars, dll \in Functions,
        table \in Tables \cup {"own"} : stack' = Append(stack, Result(ret, stars, dll, table))
  /\ call' = NoCall /\ UNCHANGED outcome

MakeNode ==
  \/ MakeVariable \/ MakeConstant \/ MakeUnhandled
  \/ MakeMember \/ MakeSubscript
  \/ MakeArithmetic \/ MakeComparison \/ MakeUntranslated
  \/ PassArgument \/ PassExtra \/ EndCall

(* A statement is compiled; the next one starts anew.                      *)
Compile(n, typed, works, ok) ==
  /\ ~call.on /\ Len(stack) = n
  /\ outcome' = [typed |-> typed, works |-> works, ok |-> ok]
  /\ stack' = <<>> /\ UNCHANGED call

(* CreateCondBr takes an i1 only.                                          *)
If == LET n == Peek(1) IN
      Compile(1, n.e = "bool" /\ ~n.array, n.how = "bit", n.val = I1)

(* The counter of a times loop is stored to, and compared, as an i32.      *)
Times ==
  LET n == Peek(2)
      counter == Peek(1)
  IN  Compile(2, /\ counter.place /\ counter.e \in Integral /\ ~counter.array
                 /\ n.e \in Numeric /\ ~n.array,
              /\ counter.e = "int" /\ counter.how # "broken"
              /\ n.how = "number" \/ (n.e = "int" /\ n.how = "value"),
              counter.lhs = Ptr(I32) /\ n.val = I32)

Evaluate == LET n == Peek(1) IN Compile(1, n.e # "none", n.how # "broken", ~Fails(n.val))

Return ==
  \E ret \in Named, stars \in 0..MaxStars :
    LET n == Peek(1) IN
    Compile(1, Fits(ret, n),
            CASE stars = 0 -> Castable(ret, n)
              [] stars = 1 -> n.e = ret /\ n.how \in {"place", "ref", "chars"}
              [] OTHER -> FALSE,
            TypeCast(n.val, Add(GetType[ret], stars)) # Bad)

(* A text is copied by the runtime library, characters are first made one; *)
(* two that are announced as characters are stored as pointers, the second *)
(* one by its address.                                                     *)
StringCopy(l, r) ==
  l = TextPtr /\ (IF r = I8Ptr THEN StringCreate(r) ELSE r) = TextPtr
Store(value, address) == ~Fails(value) /\ address = Ptr(value)
Assigned(l, r) ==
  IF l.type = Bad \/ r.type = Bad THEN FALSE
  ELSE IF l.type = I8Ptr /\ r.type = I8Ptr THEN Store(IF r.lhs = Null THEN r.val ELSE r.lhs, l.lhs)
  ELSE IF l.type = Text THEN StringCopy(l.lhs, r.val)
  ELSE Store(TypeCast(r.val, l.type), l.lhs)

(* What can be assigned: what is announced as it is, to what is no         *)
(* reference; a text that is somewhere; a pointer that is not to be taken  *)
(* from where it is.                                                       *)
Assignable(l, r) ==
  /\ l.how \in {"value", "place"} /\ l.gap = "none" /\ r.gap # "bad"
  /\ CASE l.e = "text" -> r.how \in {"place", "ref", "chars"}
       [] l.e = "raw" -> \/ r.how = "value" /\ (r.gap = "none" => ~r.place)
                         \/ r.how = "ref" \/ (r.how = "place" /\ r.gap = "table")
       [] OTHER -> Castable(l.e, r)
Assign ==
  LET l == Peek(2)
      r == Peek(1)
  IN  Compile(2, l.place /\ l.e # "none" /\ ~l.array /\ Fits(l.e, r), Assignable(l, r), Assigned(l, r))

CompileStatement == If \/ Times \/ Evaluate \/ Return \/ Assign

Next == MakeNode \/ CompileStatement
Spec == Init /\ [][Next]_vars

-----------------------------------------------------------------------------
(* Properties.                                                             *)

Types == [base : {"i1", "i8", "i16", "i32", "i64", "float", "double", "text", "rec", "void",
                  "bad", "null"}, ptr : Nat]
Hows == {"value", "place", "ref", "chars", "number", "bit", "broken"}
Gaps == {"none", "flag", "chars", "bad", "table", "star", "depth"}
Nodes == [e : AllNamed \cup {"none", "void"}, array : BOOLEAN, place : BOOLEAN,
          how : Hows, gap : Gaps, type : Types, lhs : Types, val : Types]

(* The three methods return types of the module; what cannot be assigned   *)
(* to has no address.                                                      *)
CodegenTypeOK ==
  /\ stack \in Seq(Nodes)
  /\ \A k \in DOMAIN stack : ~stack[k].place => stack[k].lhs = Null
  /\ call \in [on : BOOLEAN, dll : BOOLEAN, typed : BOOLEAN, works : BOOLEAN,
               taken : BOOLEAN, first : Types]
  /\ outcome \in [typed : BOOLEAN, works : BOOLEAN, ok : BOOLEAN]

(* Of every node, well typed or not, of which both exist: what type        *)
(* announces is what codegen makes, or what is at the address that codegen *)
(* makes (compiler.h 570, 596 and 471 decide by the one and go on with the *)
(* other).  The exceptions, all of them: a comparison or a bool constant   *)
(* is an i1; type says characters and something else is made; a            *)
(* library's table names another type; the result of a dll has stars;      *)
(* references to arrays and what is subscripted differ in depth only.      *)
Announces(n) ==
  CASE n.gap = "none" -> n.val = n.type \/ (IsAddressed(n.type) /\ n.val = Ptr(n.type))
    [] n.gap = "flag" -> n.val = I1 /\ n.type \in {I8, I32}
    [] n.gap = "chars" -> n.type = I8Ptr
    [] n.gap = "star" -> n.val.base = n.type.base /\ n.val.ptr > n.type.ptr
    [] n.gap = "depth" -> n.val.base = n.type.base
    [] n.gap = "table" -> TRUE
    [] n.gap = "bad" -> FALSE
AnnouncedIsGenerated ==
  \A k \in DOMAIN stack :
    ~Fails(stack[k].type) /\ ~Fails(stack[k].val) => Announces(stack[k])

(* A well-typed statement over expressions of any size compiles if and     *)
(* only if the forms of its values go together in each part: Addable,      *)
(* Castable, Comparable, Passable and Assignable say which do, and are all *)
(* there is to know.  No cast, call, store, operation or branch fails an   *)
(* assertion of LLVM otherwise, and none that should fail goes through.    *)
WellTypedCompiles == outcome.typed => (outcome.ok <=> outcome.works)
=============================================================================
