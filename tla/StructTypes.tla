----------------------------- MODULE StructTypes -----------------------------
(***************************************************************************)
(* EContext::CreateStruct and getType (src/src/compiler.h): the LLVM types *)
(* of the structs a program declares.  A struct is named by its place in   *)
(* ECode::structs.  calls is the C++ stack of CreateStruct.                *)
(*                                                                         *)
(* A member is an int, a text or a struct; that it is a reference, which   *)
(* only makes a pointer of its type, is left out.  Members name structs    *)
(* that exist, and no struct contains itself.                              *)
(***************************************************************************)
EXTENDS Integers, Sequences, FiniteSets

CONSTANTS
  Structs,      (* number of structs declared                              *)
  MaxMembers    (* bound on the members of a struct                        *)

ASSUME StructsAssumption == Structs \in Nat
ASSUME MembersAssumption == MaxMembers \in Nat

VARIABLES
  members,   (* the type each member of each struct names                  *)
  textual,   (* the struct whose comment is "@String", 0 for none          *)
  next,      (* the struct the loop of the constructor is at               *)
  calls,     (* CreateStruct in progress, outermost first                  *)
  type,      (* estruct->type as its element types, NoType for nullptr     *)
  order,     (* the structs in the order of StructType::create             *)
  text       (* types[SDT_TEXT]                                            *)

svars == <<members, textual, next, calls, type, order, text>>

(* Types.  A struct type is the number of its struct; Text is what a       *)
(* member may name, I8Ptr what it stands for at first.                     *)
I32 == -1
Text == -2
I8Ptr == -3
NoType == -4

Struct == 1..Structs
Lists == UNION {[1..n -> {I32, Text} \cup Struct] : n \in 0..MaxMembers}

Uses(s) == {members[s][i] : i \in DOMAIN members[s]}
Acyclic == \A S \in SUBSET Struct \ {{}} : \E s \in S : Uses(s) \cap S = {}

Null == <<NoType>>
Done(s) == type[s] # Null

Init ==
  /\ members \in [Struct -> Lists]
  /\ Acyclic
  /\ textual \in {0} \cup Struct
  /\ next = 1
  /\ calls = <<>>
  /\ type = [s \in Struct |-> Null]
  /\ order = <<>>
  /\ text = I8Ptr

-----------------------------------------------------------------------------
Top == calls[Len(calls)]
Pop == SubSeq(calls, 1, Len(calls) - 1)
Call(s) == Append(calls, [struct |-> s, elements |-> <<>>])

(* The next member of the struct on top.                                   *)
AtMember == calls # <<>> /\ Len(Top.elements) < Len(members[Top.struct])
Member == members[Top.struct][Len(Top.elements) + 1]

(* getType: types first, then the struct's type, which may be null.        *)
(* (Mutated forms: the table is not asked; its first entry is used.)       *)
GetTypeRaw(t) == IF t \in Struct /\ ~Done(t) THEN NoType ELSE t
GetTypeFixed(t) == IF t = Text THEN I8Ptr
                   ELSE IF t \in Struct /\ ~Done(t) THEN NoType ELSE t
GetType(t) == IF t = Text THEN text
              ELSE IF t \in Struct /\ ~Done(t) THEN NoType ELSE t

(* The loop of EContext::EContext; CreateStruct returns at once for a      *)
(* struct that has its type.  (Mutated forms: it does not; the loop does   *)
(* not move on.)                                                           *)
DeclareAgain(s) == next' = s + 1 /\ calls' = Call(s)
DeclareStay(s) == next' = s /\ calls' = IF Done(s) THEN calls ELSE Call(s)
Declare(s) == next' = s + 1 /\ calls' = IF Done(s) THEN calls ELSE Call(s)

DeclareNext ==
  /\ calls = <<>>
  /\ next \in Struct
  /\ Declare(next)
  /\ UNCHANGED <<members, textual, type, order, text>>

AddElement ==
  /\ AtMember
  /\ GetType(Member) # NoType
  /\ calls' = [calls EXCEPT ![Len(calls)].elements = Append(@, GetType(Member))]
  /\ UNCHANGED <<members, textual, next, type, order, text>>

(* The member's struct has no type yet: CreateStruct calls itself.         *)
CreateMember ==
  /\ AtMember
  /\ GetType(Member) = NoType
  /\ calls' = Call(Member)
  /\ UNCHANGED <<members, textual, next, type, order, text>>

(* StructType::create; the comment "@String" replaces the type of texts.   *)
CreateStruct ==
  /\ calls # <<>>
  /\ ~AtMember
  /\ type' = [type EXCEPT ![Top.struct] = Top.elements]
  /\ order' = Append(order, Top.struct)
  /\ text' = IF Top.struct = textual THEN Top.struct ELSE text
  /\ calls' = Pop
  /\ UNCHANGED <<members, textual, next>>

StructStep == DeclareNext \/ AddElement \/ CreateMember \/ CreateStruct
Declared == calls = <<>> /\ next = Structs + 1

-----------------------------------------------------------------------------
(* Properties.                                                             *)

StructTypeOK ==
  /\ members \in [Struct -> Seq({I32, Text} \cup Struct)]
  /\ textual \in {0} \cup Struct
  /\ next \in 1..(Structs + 1)
  /\ calls \in Seq([struct : Struct, elements : Seq({I32, I8Ptr} \cup Struct)])
  /\ type \in [Struct -> Seq({I32, I8Ptr} \cup Struct) \cup {Null}]
  /\ order \in Seq(Struct)
  /\ text \in {I8Ptr} \cup Struct

(* However the structs refer to each other, one LLVM type is made for each *)
(* and it is made behind those of its members.                             *)
LaidOutOnce ==
  /\ \A i, j \in DOMAIN order : order[i] = order[j] => i = j
  /\ \A i \in DOMAIN order : Uses(order[i]) \cap Struct \subseteq {order[j] : j \in 1..(i - 1)}

(* The elements of a struct are the types its members name.  A text is     *)
(* what types[SDT_TEXT] is in the end, provided the struct "@String" is    *)
(* the first declared and neither it nor what it contains has a text.      *)
Behind(s) == {u \in Struct : \E i, j \in DOMAIN order :
                               order[i] = u /\ order[j] = s /\ i <= j}
TextLeads == textual = 0 \/ (textual = 1 /\ \A u \in Behind(1) : Text \notin Uses(u))
LaidOutAsDeclared ==
  Declared => \A s \in Struct :
    /\ Len(type[s]) = Len(members[s])
    /\ \A i \in DOMAIN members[s] :
         /\ members[s][i] # Text => type[s][i] = members[s][i]
         /\ members[s][i] = Text => type[s][i] \in {I8Ptr, text} /\ (TextLeads => type[s][i] = text)

(* The recursion ends and the constructor comes to its next loop.          *)
AllDeclared == <>Declared
=============================================================================
