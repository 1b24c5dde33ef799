-------------------------- MODULE DeclarationProofs --------------------------
(***************************************************************************)
(* Proofs about StructTypes and Declarations, for any number of structs,   *)
(* members, subs and modules.                                              *)
(*                                                                         *)
(* CreateStruct recurses, so nothing but the structs' not containing       *)
(* themselves keeps it from being called for a struct it is busy with: the *)
(* calls in progress are a chain of uses, and a struct that came up twice  *)
(* in it would close a cycle.                                              *)
(***************************************************************************)
EXTENDS Declarations, FiniteSetTheorems, TLAPS

Element == {I32, I8Ptr} \cup Struct
CallRecord == [struct : Struct, elements : Seq(Element)]

(* The calls in progress are for different structs without a type, each    *)
(* used by the one below it; the structs of the members they have passed   *)
(* have types.                                                             *)
CallsAreChain ==
  /\ \A d \in DOMAIN calls : ~Done(calls[d].struct)
  /\ \A d, e \in DOMAIN calls : d # e => calls[d].struct # calls[e].struct
  /\ \A d \in DOMAIN calls : d + 1 \in DOMAIN calls =>
       calls[d + 1].struct \in Uses(calls[d].struct)
  /\ \A d \in DOMAIN calls :
       /\ Len(calls[d].elements) <= Len(members[calls[d].struct])
       /\ \A i \in DOMAIN calls[d].elements :
            members[calls[d].struct][i] \in Struct => Done(members[calls[d].struct][i])

(* order lists the structs that have a type, and the constructor's loop    *)
(* has left behind those that have one or are being created.               *)
OrderIsDone ==
  /\ \A s \in Struct : Done(s) <=> \E i \in DOMAIN order : order[i] = s
  /\ \A s \in 1..(next - 1) : Done(s) \/ (calls # <<>> /\ calls[1].struct = s)

StructInv == StructTypeOK /\ Acyclic /\ CallsAreChain /\ OrderIsDone /\ LaidOutOnce

-----------------------------------------------------------------------------
LEMMA CodesApart ==
  /\ I32 = -1 /\ Text = -2 /\ I8Ptr = -3 /\ NoType = -4
  /\ Struct \subseteq Nat /\ 0 \notin Struct
  BY StructsAssumption DEF I32, Text, I8Ptr, NoType, Struct

(* No list of elements is taken for a null type.                           *)
LEMMA ElementsNotNull == \A q \in Seq(Element) : q # Null
  BY CodesApart DEF Null, Element

LEMMA ExceptInSeq ==
  ASSUME NEW S, NEW q \in Seq(S), NEW i \in DOMAIN q, NEW r \in S
  PROVE  [q EXCEPT ![i] = r] \in Seq(S)
  OBVIOUS

LEMMA FrontOfSeq ==
  ASSUME NEW S, NEW q \in Seq(S), q # <<>>
  PROVE  /\ SubSeq(q, 1, Len(q) - 1) \in Seq(S)
         /\ DOMAIN SubSeq(q, 1, Len(q) - 1) = 1..(Len(q) - 1)
         /\ \A i \in 1..(Len(q) - 1) : i \in DOMAIN q /\ i # Len(q) /\ SubSeq(q, 1, Len(q) - 1)[i] = q[i]
<1> DEFINE n == Len(q) - 1
<1>1. Len(q) \in Nat /\ Len(q) # 0 /\ DOMAIN q = 1..Len(q)
  OBVIOUS
<1>2. n \in Nat /\ Len(q) = n + 1 /\ DOMAIN q = 1..(n + 1)
  BY <1>1
<1> HIDE DEF n
<1>3. \A i \in 1..n : i \in 1..(n + 1) /\ i # n + 1 /\ q[i] \in S
  BY <1>2
<1>4. SubSeq(q, 1, n) = [i \in 1..n |-> q[i]]
  BY <1>2
<1>5. [i \in 1..n |-> q[i]] \in Seq(S)
  BY <1>2, <1>3
<1>6. n = Len(q) - 1
  BY DEF n
<1> QED BY <1>2, <1>3, <1>4, <1>5, <1>6

(* A chain of uses that leads back to where it has been would be a cycle.  *)
LEMMA NoCycle ==
  ASSUME StructInv, calls # <<>>, NEW s \in Struct, s \in Uses(Top.struct), NEW e \in DOMAIN calls
  PROVE  calls[e].struct # s
<1> SUFFICES ASSUME calls[e].struct = s PROVE FALSE
  OBVIOUS
<1>1. calls \in Seq(CallRecord)
  BY DEF StructInv, StructTypeOK, Element, CallRecord
<1>2. PICK n \in Nat, f \in Nat : n = Len(calls) /\ f = e /\ f \in 1..n /\ DOMAIN calls = 1..n
  BY <1>1
<1> DEFINE S == {calls[d].struct : d \in f..n}
<1>3. \A d \in f..n : d \in 1..n /\ calls[d].struct \in Struct
  <2>1. \A d \in f..n : d \in 1..n
    BY <1>2
  <2>2. \A d \in DOMAIN calls : calls[d] \in CallRecord
    BY <1>1
  <2> QED BY <1>2, <2>1, <2>2 DEF CallRecord
<1>4. f \in f..n /\ n \in f..n
  BY <1>2
<1> HIDE DEF S
<1>5. S \in SUBSET Struct /\ s \in S
  BY <1>2, <1>3, <1>4 DEF S
<1>6. PICK u \in S : Uses(u) \cap S = {}
  BY <1>5 DEF StructInv, Acyclic
<1>7. PICK d \in f..n : u = calls[d].struct
  BY <1>6 DEF S
<1>8. CASE d = n
  BY <1>2, <1>5, <1>6, <1>7, <1>8 DEF Top
<1>9. CASE d # n
  <2>1. d \in 1..n /\ d + 1 \in 1..n /\ d + 1 \in f..n
    BY <1>2, <1>9
  <2>2. calls[d + 1].struct \in Uses(u) /\ calls[d + 1].struct \in S
    BY <1>2, <1>7, <2>1 DEF StructInv, CallsAreChain, S
  <2> QED BY <1>6, <2>2
<1> QED BY <1>8, <1>9

(* calls grows by a call of a struct that has no type and is not in it.    *)
LEMMA CallKeeps ==
  ASSUME StructInv, NEW s \in Struct, ~Done(s), calls' = Call(s),
         \A d \in DOMAIN calls : calls[d].struct # s,
         calls # <<>> => s \in Uses(Top.struct),
         UNCHANGED <<members, type, order>>
  PROVE  calls' \in Seq(CallRecord) /\ CallsAreChain'
<1>1. calls \in Seq(CallRecord)
  BY DEF StructInv, StructTypeOK, Element, CallRecord
<1>2. /\ calls' \in Seq(CallRecord)
      /\ Len(calls') = Len(calls) + 1
      /\ \A d \in DOMAIN calls : calls'[d] = calls[d]
      /\ calls'[Len(calls) + 1] = [struct |-> s, elements |-> <<>>]
  BY <1>1 DEF Call, CallRecord
<1>3. DOMAIN calls' = 1..(Len(calls) + 1) /\ DOMAIN calls = 1..Len(calls) /\ Len(calls) \in Nat
  BY <1>1, <1>2
<1>5. \A d \in DOMAIN calls' : d \in DOMAIN calls \/ d = Len(calls) + 1
  BY <1>3
<1>6. \A d \in DOMAIN calls' : ~Done(calls'[d].struct)
  BY <1>2, <1>5 DEF StructInv, CallsAreChain, Done
<1>7. \A d, e \in DOMAIN calls' : d # e => calls'[d].struct # calls'[e].struct
  BY <1>2, <1>5 DEF StructInv, CallsAreChain
<1>8. ASSUME NEW d \in DOMAIN calls', d + 1 \in DOMAIN calls'
      PROVE  calls'[d + 1].struct \in Uses(calls'[d].struct)
  <2>1. CASE d + 1 \in DOMAIN calls
    <3>1. d \in DOMAIN calls
      BY <1>3, <1>8, <2>1
    <3>2. calls'[d] = calls[d] /\ calls'[d + 1] = calls[d + 1]
      BY <1>2, <2>1, <3>1
    <3> QED BY <2>1, <3>1, <3>2 DEF StructInv, CallsAreChain
  <2>2. CASE d = Len(calls)
    BY <1>2, <1>3, <1>8, <2>2 DEF Top
  <2> QED BY <1>3, <1>8, <2>1, <2>2
<1>9. ASSUME NEW d \in DOMAIN calls'
      PROVE  /\ Len(calls'[d].elements) <= Len(members[calls'[d].struct])
             /\ \A i \in DOMAIN calls'[d].elements :
                  members[calls'[d].struct][i] \in Struct => Done(members[calls'[d].struct][i])
  <2>1. CASE d \in DOMAIN calls
    BY <1>2, <2>1 DEF StructInv, CallsAreChain
  <2>2. CASE d = Len(calls) + 1
    <3>1. members[s] \in Seq({I32, Text} \cup Struct)
      BY DEF StructInv, StructTypeOK
    <3> QED BY <1>2, <2>2, <3>1
  <2> QED BY <1>5, <2>1, <2>2
<1>10. members' = members /\ type' = type
  OBVIOUS
<1> QED BY <1>2, <1>6, <1>7, <1>8, <1>9, <1>10 DEF CallsAreChain, Done, Uses

LEMMA TypesOf ==
  ASSUME StructInv
  PROVE  /\ calls \in Seq(CallRecord) /\ Len(calls) \in Nat /\ DOMAIN calls = 1..Len(calls)
         /\ next \in Nat /\ next \in 1..(Structs + 1)
         /\ order \in Seq(Struct)
         /\ \A s \in Struct : members[s] \in Seq({I32, Text} \cup Struct)
         /\ \A s \in Struct : Uses(s) \subseteq {I32, Text} \cup Struct
  BY DEF StructInv, StructTypeOK, Uses, CallRecord, Element

LEMMA TopIs ==
  ASSUME StructInv, calls # <<>>
  PROVE  /\ Len(calls) \in DOMAIN calls /\ Top \in CallRecord
         /\ Top.struct \in Struct /\ Top.elements \in Seq(Element)
<1>1. Len(calls) \in DOMAIN calls /\ Top \in CallRecord
  BY TypesOf DEF Top
<1> QED BY <1>1 DEF CallRecord

LEMMA MemberIs ==
  ASSUME StructInv, AtMember
  PROVE  Member \in {I32, Text} \cup Struct /\ Member \in Uses(Top.struct)
<1>1. /\ calls # <<>> /\ Len(Top.elements) \in Nat
      /\ Len(Top.elements) + 1 \in DOMAIN members[Top.struct]
  BY TypesOf, TopIs DEF AtMember
<1> QED BY <1>1, TypesOf, TopIs DEF Member, Uses

LEMMA StructInit == Init => StructInv
<1> SUFFICES ASSUME Init PROVE StructInv
  OBVIOUS
<1>1. \A n \in Nat : [1..n -> {I32, Text} \cup Struct] \subseteq Seq({I32, Text} \cup Struct)
  OBVIOUS
<1>2. members \in [Struct -> Seq({I32, Text} \cup Struct)]
  BY <1>1, MembersAssumption DEF Init, Lists
<1>3. StructTypeOK
  BY <1>2, StructsAssumption DEF Init, StructTypeOK
<1>4. \A s \in Struct : ~Done(s)
  BY DEF Init, Done
<1> QED BY <1>3, <1>4 DEF Init, StructInv, CallsAreChain, OrderIsDone, LaidOutOnce

LEMMA DeclareKeeps == ASSUME StructInv, DeclareNext PROVE StructInv'
<1>1. /\ calls = <<>> /\ next \in Struct /\ next' = next + 1
      /\ UNCHANGED <<members, textual, type, order, text>>
      /\ calls' = IF Done(next) THEN calls ELSE Call(next)
  BY DEF DeclareNext, Declare
<1>2. next' \in 1..(Structs + 1)
  BY <1>1, StructsAssumption DEF Struct
<1>3. calls' \in Seq(CallRecord) /\ CallsAreChain'
  <2>1. CASE Done(next)
    BY <1>1, <2>1 DEF CallsAreChain
  <2>2. CASE ~Done(next)
    BY <1>1, <2>2, CallKeeps
  <2> QED BY <2>1, <2>2
<1>4. StructTypeOK'
  BY <1>1, <1>2, <1>3 DEF StructInv, StructTypeOK, CallRecord, Element
<1>5. Done(next) \/ (calls' # <<>> /\ calls'[1].struct = next)
  BY <1>1 DEF Call
<1>6. \A s \in 1..(next' - 1) : s \in 1..(next - 1) \/ s = next
  BY <1>1, TypesOf
<1>7. OrderIsDone'
  BY <1>1, <1>5, <1>6 DEF StructInv, OrderIsDone, Done
<1> QED BY <1>1, <1>3, <1>4, <1>7 DEF StructInv, Acyclic, LaidOutOnce, Uses

LEMMA CreateMemberKeeps == ASSUME StructInv, CreateMember PROVE StructInv'
<1>1. /\ AtMember /\ calls # <<>> /\ GetType(Member) = NoType /\ calls' = Call(Member)
      /\ UNCHANGED <<members, textual, next, type, order, text>>
  BY DEF CreateMember, AtMember
<1>2. Member \in Struct /\ ~Done(Member)
  BY <1>1, MemberIs, CodesApart, SMTT(60) DEF GetType, StructInv, StructTypeOK
<1>3. calls' \in Seq(CallRecord) /\ CallsAreChain'
  BY <1>1, <1>2, MemberIs, NoCycle, CallKeeps
<1>4. StructTypeOK'
  BY <1>1, <1>3 DEF StructInv, StructTypeOK, CallRecord, Element
<1>5. calls' # <<>> /\ calls'[1] = calls[1]
  BY <1>1, TypesOf DEF Call
<1>6. OrderIsDone'
  BY <1>1, <1>5 DEF StructInv, OrderIsDone, Done
<1> QED BY <1>1, <1>3, <1>4, <1>6 DEF StructInv, Acyclic, LaidOutOnce, Uses

LEMMA AddElementKeeps == ASSUME StructInv, AddElement PROVE StructInv'
<1> DEFINE n == Len(calls)
           x == GetType(Member)
<1>1. /\ AtMember /\ calls # <<>> /\ x # NoType
      /\ calls' = [calls EXCEPT ![n].elements = Append(@, x)]
      /\ UNCHANGED <<members, textual, next, type, order, text>>
  BY DEF AddElement, AtMember
<1>2. x \in Element /\ (Member \in Struct => Done(Member))
  <2>1. text \in {I8Ptr} \cup Struct
    BY DEF StructInv, StructTypeOK
  <2>2. CASE Member = Text
    BY <2>1, <2>2, CodesApart DEF GetType, Element
  <2>3. CASE Member = I32
    BY <2>3, CodesApart DEF GetType, Element
  <2>4. CASE Member \in Struct
    BY <1>1, <2>4, CodesApart DEF GetType, Element
  <2> QED BY <1>1, <2>2, <2>3, <2>4, MemberIs
<1>3. /\ n \in DOMAIN calls /\ Top = calls[n] /\ Top \in CallRecord
      /\ Top.struct \in Struct /\ Top.elements \in Seq(Element)
  BY <1>1, TopIs DEF Top
<1>4. /\ DOMAIN calls' = DOMAIN calls
      /\ \A d \in DOMAIN calls : d # n => calls'[d] = calls[d]
      /\ calls'[n] = [Top EXCEPT !.elements = Append(@, x)]
  BY <1>1, <1>3, TypesOf
<1>5. /\ calls'[n].struct = Top.struct /\ calls'[n].elements = Append(Top.elements, x)
      /\ calls'[n] \in CallRecord
  BY <1>2, <1>3, <1>4 DEF CallRecord
<1>6. calls' \in Seq(CallRecord)
  <2> DEFINE r == [Top EXCEPT !.elements = Append(@, x)]
  <2>1. calls' = [calls EXCEPT ![n] = r]
    BY <1>1, <1>3
  <2>2. r \in CallRecord
    BY <1>4, <1>5
  <2> HIDE DEF r, n, x
  <2> QED BY <1>3, <2>1, <2>2, TypesOf, ExceptInSeq
<1>7. \A d \in DOMAIN calls : calls'[d].struct = calls[d].struct
  BY <1>3, <1>4, <1>5
<1>8. \A d \in DOMAIN calls' : d + 1 \in DOMAIN calls' => calls'[d + 1].struct \in Uses(calls'[d].struct)
  BY <1>4, <1>7 DEF StructInv, CallsAreChain
<1>9. /\ \A d \in DOMAIN calls' : ~Done(calls'[d].struct)
      /\ \A d, e \in DOMAIN calls' : d # e => calls'[d].struct # calls'[e].struct
  BY <1>4, <1>7 DEF StructInv, CallsAreChain
<1>10. ASSUME NEW d \in DOMAIN calls'
       PROVE  /\ Len(calls'[d].elements) <= Len(members[calls'[d].struct])
              /\ \A i \in DOMAIN calls'[d].elements :
                   members[calls'[d].struct][i] \in Struct => Done(members[calls'[d].struct][i])
  <2>1. CASE d # n
    BY <1>4, <2>1 DEF StructInv, CallsAreChain
  <2>2. CASE d = n
    <3>1. Len(Top.elements) < Len(members[Top.struct]) /\ Len(members[Top.struct]) \in Nat
      BY <1>1, <1>3, TypesOf DEF AtMember
    <3>2. /\ Len(calls'[d].elements) = Len(Top.elements) + 1 /\ Len(Top.elements) \in Nat
          /\ \A i \in DOMAIN calls'[d].elements : i \in DOMAIN Top.elements \/ i = Len(Top.elements) + 1
      BY <1>2, <1>3, <1>5, <2>2
    <3>3. members[Top.struct][Len(Top.elements) + 1] = Member
      BY DEF Member
    <3>4. \A i \in DOMAIN Top.elements : members[Top.struct][i] \in Struct => Done(members[Top.struct][i])
      BY <1>3 DEF StructInv, CallsAreChain
    <3> QED BY <1>2, <1>5, <2>2, <3>1, <3>2, <3>3, <3>4
  <2> QED BY <2>1, <2>2
<1>11. members' = members /\ type' = type
  BY <1>1
<1>12. CallsAreChain'
  BY <1>8, <1>9, <1>10, <1>11 DEF CallsAreChain, Done, Uses
<1>13. StructTypeOK'
  BY <1>1, <1>6 DEF StructInv, StructTypeOK, CallRecord, Element
<1>14. calls' # <<>> /\ (1 \in DOMAIN calls => calls'[1].struct = calls[1].struct) /\ 1 \in DOMAIN calls
  BY <1>1, <1>4, <1>6, <1>7, TypesOf
<1>15. OrderIsDone'
  BY <1>1, <1>14 DEF StructInv, OrderIsDone, Done
<1> QED BY <1>1, <1>12, <1>13, <1>15 DEF StructInv, Acyclic, LaidOutOnce, Uses

LEMMA CreateStructKeeps == ASSUME StructInv, CreateStruct PROVE StructInv'
<1> DEFINE n == Len(calls)
           t == Top.struct
<1>1. /\ calls # <<>> /\ ~AtMember
      /\ type' = [type EXCEPT ![t] = Top.elements] /\ order' = Append(order, t)
      /\ text' = IF t = textual THEN t ELSE text
      /\ calls' = Pop /\ UNCHANGED <<members, textual, next>>
  BY DEF CreateStruct
<1>2. /\ n \in DOMAIN calls /\ Top = calls[n] /\ t \in Struct /\ Top.elements \in Seq(Element)
  BY <1>1, TopIs DEF Top
<1>3. /\ calls' \in Seq(CallRecord) /\ DOMAIN calls' = 1..(n - 1)
      /\ \A d \in 1..(n - 1) : d \in DOMAIN calls /\ d # n /\ calls'[d] = calls[d]
  BY <1>1, TypesOf, FrontOfSeq DEF Pop
<1>4. type \in [Struct -> Seq(Element) \cup {Null}]
  BY DEF StructInv, StructTypeOK, Element
<1>5. /\ \A s \in Struct : s # t => type'[s] = type[s]
      /\ type'[t] = Top.elements /\ Top.elements # Null
  BY <1>1, <1>2, <1>4, ElementsNotNull
<1>6. /\ type' \in [Struct -> Seq(Element) \cup {Null}] /\ order' \in Seq(Struct)
  BY <1>1, <1>2, <1>4, TypesOf
<1>7. StructTypeOK'
  BY <1>1, <1>2, <1>3, <1>6 DEF StructInv, StructTypeOK, CallRecord, Element
<1>8. /\ ~Done(t) /\ \A s \in Struct : type'[s] # Null <=> Done(s) \/ s = t
  BY <1>2, <1>5 DEF StructInv, CallsAreChain, Done
<1>9. CallsAreChain'
  <2>1. \A d \in DOMAIN calls' : d \in DOMAIN calls /\ calls'[d] = calls[d] /\ calls[d].struct # t
    BY <1>2, <1>3 DEF StructInv, CallsAreChain
  <2>2. \A d \in DOMAIN calls' : calls[d].struct \in Struct /\ type'[calls[d].struct] = Null
    <3>1. \A d \in DOMAIN calls : calls[d] \in CallRecord
      BY TypesOf
    <3>2. \A d \in DOMAIN calls : calls[d].struct \in Struct
      BY <3>1 DEF CallRecord
    <3>3. \A d \in DOMAIN calls : ~Done(calls[d].struct)
      BY DEF StructInv, CallsAreChain
    <3> QED BY <1>8, <2>1, <3>2, <3>3
  <2>3. \A d \in DOMAIN calls' : d + 1 \in DOMAIN calls' => calls'[d + 1].struct \in Uses(calls'[d].struct)
    BY <2>1 DEF StructInv, CallsAreChain
  <2>4. \A d \in DOMAIN calls' : \A i \in DOMAIN calls'[d].elements :
          members[calls'[d].struct][i] \in Struct => type'[members[calls'[d].struct][i]] # Null
    BY <1>8, <2>1 DEF StructInv, CallsAreChain
  <2>5. /\ \A d, e \in DOMAIN calls' : d # e => calls'[d].struct # calls'[e].struct
        /\ \A d \in DOMAIN calls' : Len(calls'[d].elements) <= Len(members[calls'[d].struct])
    BY <2>1 DEF StructInv, CallsAreChain
  <2>6. members' = members
    BY <1>1
  <2> QED BY <2>1, <2>2, <2>3, <2>4, <2>5, <2>6 DEF CallsAreChain, Done, Uses
<1>10. /\ DOMAIN order' = 1..(Len(order) + 1) /\ DOMAIN order = 1..Len(order) /\ Len(order) \in Nat
       /\ order'[Len(order) + 1] = t /\ \A i \in DOMAIN order : order'[i] = order[i]
  BY <1>1, <1>2, TypesOf
<1>11. \A i \in DOMAIN order' : i \in DOMAIN order \/ i = Len(order) + 1
  BY <1>10
<1>12. /\ \A s \in Struct : Done(s) <=> \E i \in DOMAIN order : order[i] = s
       /\ \A i \in DOMAIN order : order[i] # t
  BY <1>2, <1>8 DEF StructInv, OrderIsDone
<1>13. OrderIsDone'
  <2>1. ASSUME NEW s \in Struct PROVE type'[s] # Null <=> \E i \in DOMAIN order' : order'[i] = s
    BY <1>8, <1>10, <1>11, <1>12
  <2>2. ASSUME NEW s \in 1..(next - 1)
        PROVE  type'[s] # Null \/ (calls' # <<>> /\ calls'[1].struct = s)
    <3>1. s \in Struct
      BY TypesOf, StructsAssumption DEF Struct
    <3>2. CASE Done(s)
      BY <1>8, <3>1, <3>2
    <3>3. CASE calls[1].struct = s /\ n = 1
      BY <1>2, <1>8, <3>1, <3>3
    <3>4. CASE calls[1].struct = s /\ n # 1
      <4>1. n \in Nat /\ n >= 1 /\ 1 \in 1..(n - 1)
        BY <1>2, <3>4, TypesOf
      <4>2. calls'[1] = calls[1] /\ 1 \in DOMAIN calls'
        BY <1>3, <4>1
      <4>3. calls' # <<>>
        BY <4>2
      <4> QED BY <3>4, <4>2, <4>3
    <3> QED BY <3>2, <3>3, <3>4 DEF StructInv, OrderIsDone
  <2> QED BY <1>1, <2>1, <2>2 DEF OrderIsDone, Done
<1>14. Uses(t) \cap Struct \subseteq {order[j] : j \in DOMAIN order}
  <2>1. Len(Top.elements) = Len(members[t])
    <3>1. Len(Top.elements) <= Len(members[t])
      BY <1>2 DEF StructInv, CallsAreChain
    <3> QED BY <1>1, <1>2, <3>1, TypesOf DEF AtMember
  <2>2. DOMAIN Top.elements = DOMAIN members[t]
    BY <1>2, <2>1, TypesOf
  <2>3. \A i \in DOMAIN members[t] : members[t][i] \in Struct => Done(members[t][i])
    BY <1>2, <2>2 DEF StructInv, CallsAreChain
  <2> QED BY <1>12, <2>3 DEF Uses
<1>15. LaidOutOnce'
  <2>1. \A i, j \in DOMAIN order' : order'[i] = order'[j] => i = j
    BY <1>10, <1>11, <1>12 DEF StructInv, LaidOutOnce
  <2>2. ASSUME NEW i \in DOMAIN order'
        PROVE  Uses(order'[i]) \cap Struct \subseteq {order'[j] : j \in 1..(i - 1)}
    <3>1. CASE i \in DOMAIN order
      <4>1. \A j \in 1..(i - 1) : j \in DOMAIN order /\ order'[j] = order[j]
        BY <1>10, <3>1
      <4> QED BY <1>10, <3>1, <4>1 DEF StructInv, LaidOutOnce
    <3>2. CASE i = Len(order) + 1
      <4>1. 1..(i - 1) = DOMAIN order
        BY <1>10, <3>2
      <4> QED BY <1>10, <1>14, <3>2, <4>1
    <3> QED BY <1>11, <3>1, <3>2
  <2>3. members' = members
    BY <1>1
  <2> QED BY <2>1, <2>2, <2>3 DEF LaidOutOnce, Uses
<1> QED BY <1>1, <1>7, <1>9, <1>13, <1>15 DEF StructInv, Acyclic, Uses

LEMMA StructStepKeeps == StructInv /\ [StructStep]_svars => StructInv'
<1>1. ASSUME StructInv, UNCHANGED svars PROVE StructInv'
  BY <1>1 DEF svars, StructInv, StructTypeOK, Acyclic, CallsAreChain, OrderIsDone, LaidOutOnce, Done, Uses
<1> QED BY <1>1, DeclareKeeps, AddElementKeeps, CreateMemberKeeps, CreateStructKeeps DEF StructStep

LEMMA StructsStay == [NextAll]_allvars => [StructStep]_svars
  BY DEF NextAll, allvars, DeclareStructs, CreateDll, ModuleEnd, CreateFunction, ContextDone,
         CompileSub, ExternSub, Output, Terminated

LEMMA StructAlways == SpecAll => []StructInv
<1>1. InitAll => StructInv
  BY StructInit DEF InitAll
<1>2. StructInv /\ [NextAll]_allvars => StructInv'
  BY StructsStay, StructStepKeeps
<1> QED BY <1>1, <1>2, PTL DEF SpecAll

(* Whatever the structs and subs of a program, the constructor's state     *)
(* stays within its types: no null type gets into a struct.                *)
THEOREM StructTypesCorrect == SpecAll => []StructTypeOK
<1>1. StructInv => StructTypeOK
  BY DEF StructInv
<1> QED BY <1>1, StructAlways, PTL

(* One LLVM type is made for each struct, behind those of its members,     *)
(* for any number of structs that do not contain themselves.               *)
THEOREM LaidOutOnceCorrect == SpecAll => []LaidOutOnce
<1>1. StructInv => LaidOutOnce
  BY DEF StructInv
<1> QED BY <1>1, StructAlways, PTL

LEMMA DeclaredDone == ASSUME StructInv, Declared PROVE \A s \in Struct : Done(s)
<1>1. Struct = 1..(next - 1)
  BY StructsAssumption DEF Declared, Struct
<1> QED BY <1>1 DEF Declared, StructInv, OrderIsDone

-----------------------------------------------------------------------------
(* What structs are made of.  An element that was a text when it was added *)
(* keeps the type texts had then, so how it compares with the one they     *)
(* have in the end depends on when the struct "@String" was laid out.      *)
AsNamed(s, e) ==
  \A i \in DOMAIN e : /\ members[s][i] # Text => e[i] = members[s][i]
                      /\ members[s][i] = Text => e[i] \in {I8Ptr, text}
TextsAgree(s, e) == \A i \in DOMAIN e : members[s][i] = Text => e[i] = text

ElementInv ==
  /\ text = IF textual # 0 /\ type[textual] # Null THEN textual ELSE I8Ptr
  /\ next = 1 => calls = <<>>
  /\ \A s \in Struct : type[s] # Null => Len(type[s]) = Len(members[s]) /\ AsNamed(s, type[s])
  /\ \A d \in DOMAIN calls : AsNamed(calls[d].struct, calls[d].elements)

(* If the struct "@String" is the first declared nothing is in progress    *)
(* behind it when it is laid out.                                          *)
LeadInv ==
  textual \in {0, 1} =>
    /\ \A s \in Struct : type[s] # Null => TextsAgree(s, type[s]) \/ (textual = 1 /\ s \in Behind(1))
    /\ \A d \in DOMAIN calls : TextsAgree(calls[d].struct, calls[d].elements)

LEMMA ElementInit == InitAll => ElementInv /\ LeadInv
  BY DEF InitAll, Init, ElementInv, LeadInv

LEMMA CallElements ==
  ASSUME StructInv, ElementInv, LeadInv, NEW s \in Struct, calls' = Call(s), next' # 1,
         UNCHANGED <<members, textual, type, order, text>>
  PROVE  ElementInv' /\ LeadInv'
<1>1. calls \in Seq(CallRecord)
  BY DEF StructInv, StructTypeOK, Element, CallRecord
<1>2. /\ Len(calls') = Len(calls) + 1 /\ calls' \in Seq(CallRecord)
      /\ \A d \in DOMAIN calls : calls'[d] = calls[d]
      /\ calls'[Len(calls) + 1] = [struct |-> s, elements |-> <<>>]
  BY <1>1 DEF Call, CallRecord
<1>3. \A d \in DOMAIN calls' : d \in DOMAIN calls \/ d = Len(calls) + 1
  BY <1>1, <1>2
<1>4. \A d \in DOMAIN calls' : (d \in DOMAIN calls /\ calls'[d] = calls[d]) \/ calls'[d].elements = <<>>
  BY <1>2, <1>3
<1>5. /\ \A d \in DOMAIN calls' : AsNamed(calls'[d].struct, calls'[d].elements)
      /\ textual \in {0, 1} => \A d \in DOMAIN calls' : TextsAgree(calls'[d].struct, calls'[d].elements)
  BY <1>4 DEF ElementInv, LeadInv, AsNamed, TextsAgree
<1> QED BY <1>5 DEF ElementInv, LeadInv, AsNamed, TextsAgree, Behind

LEMMA AddElementElements ==
  ASSUME StructInv, ElementInv, LeadInv, AddElement
  PROVE  ElementInv' /\ LeadInv'
<1> DEFINE n == Len(calls)
           x == GetType(Member)
<1>1. /\ AtMember /\ calls # <<>> /\ x # NoType
      /\ calls' = [calls EXCEPT ![n].elements = Append(@, x)]
      /\ UNCHANGED <<members, textual, next, type, order, text>>
  BY DEF AddElement, AtMember
<1>2. /\ n \in DOMAIN calls /\ Top = calls[n] /\ Top \in CallRecord /\ Top.elements \in Seq(Element)
  BY <1>1, TopIs DEF Top
<1>3. /\ DOMAIN calls' = DOMAIN calls
      /\ \A d \in DOMAIN calls : d # n => calls'[d] = calls[d]
      /\ calls'[n] = [Top EXCEPT !.elements = Append(@, x)]
  BY <1>1, <1>2, TypesOf
<1>4. calls'[n].struct = Top.struct /\ calls'[n].elements = Append(Top.elements, x)
  BY <1>2, <1>3 DEF CallRecord
<1>5. Member = members[Top.struct][Len(Top.elements) + 1]
  BY DEF Member
<1>6. (Member = Text => x = text) /\ (Member # Text => x = Member)
  BY <1>1 DEF GetType
<1>7. \A i \in DOMAIN calls'[n].elements :
        (i \in DOMAIN Top.elements /\ calls'[n].elements[i] = Top.elements[i])
        \/ (i = Len(Top.elements) + 1 /\ calls'[n].elements[i] = x)
  BY <1>2, <1>4
<1> HIDE DEF x
<1>8. ASSUME NEW d \in DOMAIN calls PROVE AsNamed(calls'[d].struct, calls'[d].elements)
  <2>1. d # n => AsNamed(calls'[d].struct, calls'[d].elements)
    BY <1>3 DEF ElementInv
  <2>2. AsNamed(Top.struct, Top.elements)
    BY <1>2 DEF ElementInv
  <2>3. AsNamed(calls'[n].struct, calls'[n].elements)
    BY <1>4, <1>5, <1>6, <1>7, <2>2 DEF AsNamed
  <2> QED BY <2>1, <2>3
<1>9. ASSUME NEW d \in DOMAIN calls, textual \in {0, 1} PROVE TextsAgree(calls'[d].struct, calls'[d].elements)
  <2>1. d # n => TextsAgree(calls'[d].struct, calls'[d].elements)
    BY <1>3, <1>9 DEF LeadInv
  <2>2. TextsAgree(Top.struct, Top.elements)
    BY <1>2, <1>9 DEF LeadInv
  <2>3. TextsAgree(calls'[n].struct, calls'[n].elements)
    BY <1>4, <1>5, <1>6, <1>7, <2>2 DEF TextsAgree
  <2> QED BY <2>1, <2>3
<1>10. next' = 1 => FALSE
  BY <1>1 DEF ElementInv
<1> QED BY <1>1, <1>3, <1>8, <1>9, <1>10 DEF ElementInv, LeadInv, AsNamed, TextsAgree, Behind

(* The struct "@String", if it is the first, is at the bottom of the calls *)
(* and is nowhere else in them.                                            *)
LEMMA FirstIsLast ==
  ASSUME StructInv, ElementInv, calls # <<>>, Top.struct = 1
  PROVE  Len(calls) = 1
<1>1. Len(calls) \in DOMAIN calls /\ Top = calls[Len(calls)] /\ 1 \in Struct /\ 1 \in DOMAIN calls
  BY TopIs, TypesOf DEF Top
<1>2. ~Done(1)
  BY <1>1 DEF StructInv, CallsAreChain
<1>3. 1 \in 1..(next - 1)
  BY DEF StructInv, StructTypeOK, ElementInv
<1>4. calls[1].struct = 1
  BY <1>2, <1>3 DEF StructInv, OrderIsDone
<1> QED BY <1>1, <1>4 DEF StructInv, CallsAreChain

LEMMA CreateStructElements ==
  ASSUME StructInv, StructInv', ElementInv, LeadInv, CreateStruct
  PROVE  ElementInv' /\ LeadInv'
<1> DEFINE n == Len(calls)
           t == Top.struct
<1>1. /\ calls # <<>> /\ ~AtMember
      /\ type' = [type EXCEPT ![t] = Top.elements] /\ order' = Append(order, t)
      /\ text' = IF t = textual THEN t ELSE text
      /\ calls' = Pop /\ UNCHANGED <<members, textual, next>>
  BY DEF CreateStruct
<1>2. /\ n \in DOMAIN calls /\ Top = calls[n] /\ t \in Struct /\ Top.elements \in Seq(Element)
  BY <1>1, TopIs DEF Top
<1>3. /\ DOMAIN calls' = 1..(n - 1)
      /\ \A d \in 1..(n - 1) : d \in DOMAIN calls /\ d # n /\ calls'[d] = calls[d]
  BY <1>1, TypesOf, FrontOfSeq DEF Pop
<1>4. type \in [Struct -> Seq(Element) \cup {Null}]
  BY DEF StructInv, StructTypeOK, Element
<1>5. /\ \A s \in Struct : s # t => type'[s] = type[s]
      /\ type'[t] = Top.elements /\ Top.elements # Null /\ type[t] = Null
  BY <1>1, <1>2, <1>4, ElementsNotNull DEF StructInv, CallsAreChain, Done
<1>6. Len(Top.elements) = Len(members[t])
  <2>1. Len(Top.elements) <= Len(members[t])
    BY <1>2 DEF StructInv, CallsAreChain
  <2> QED BY <1>1, <1>2, <2>1, TypesOf DEF AtMember
<1>7. /\ t = textual => text = I8Ptr /\ text' = textual
      /\ t # textual => text' = text
  BY <1>1, <1>2, <1>5 DEF ElementInv
<1>8. AsNamed(t, Top.elements) /\ (textual \in {0, 1} => TextsAgree(t, Top.elements))
  BY <1>2 DEF ElementInv, LeadInv
<1>9. textual \in {0} \cup Struct /\ 0 \notin Struct
  BY CodesApart DEF StructInv, StructTypeOK
<1>10. text' = IF textual # 0 /\ type'[textual] # Null THEN textual ELSE I8Ptr
  <2>1. CASE t = textual
    BY <1>2, <1>5, <1>7, <1>9, <2>1
  <2>2. CASE t # textual
    <3>1. textual # 0 => type'[textual] = type[textual]
      BY <1>5, <1>9, <2>2
    <3> QED BY <1>7, <2>2, <3>1 DEF ElementInv
  <2> QED BY <2>1, <2>2
<1>12. ASSUME NEW s \in Struct, type'[s] # Null
       PROVE  Len(type'[s]) = Len(members[s])
              /\ \A i \in DOMAIN type'[s] : /\ members[s][i] # Text => type'[s][i] = members[s][i]
                                            /\ members[s][i] = Text => type'[s][i] \in {I8Ptr, text'}
  <2>1. CASE s = t
    BY <1>5, <1>6, <1>7, <1>8, <2>1 DEF AsNamed
  <2>2. CASE s # t
    BY <1>5, <1>7, <1>12, <2>2 DEF ElementInv, AsNamed
  <2> QED BY <2>1, <2>2
<1>13. ASSUME NEW d \in DOMAIN calls'
       PROVE  \A i \in DOMAIN calls'[d].elements :
                /\ members[calls'[d].struct][i] # Text => calls'[d].elements[i] = members[calls'[d].struct][i]
                /\ members[calls'[d].struct][i] = Text => calls'[d].elements[i] \in {I8Ptr, text'}
  <2>1. AsNamed(calls[d].struct, calls[d].elements) /\ calls'[d] = calls[d]
    BY <1>3 DEF ElementInv
  <2> QED BY <1>7, <2>1 DEF AsNamed
<1>14. next' # 1
  BY <1>1 DEF ElementInv
<1>15. ElementInv'
  BY <1>1, <1>10, <1>12, <1>13, <1>14 DEF ElementInv, AsNamed
<1>16. /\ DOMAIN order' = 1..(Len(order) + 1) /\ DOMAIN order = 1..Len(order) /\ Len(order) \in Nat
       /\ order'[Len(order) + 1] = t /\ \A i \in DOMAIN order : order'[i] = order[i]
  BY <1>1, <1>2, TypesOf
<1>17. ASSUME t = textual, textual \in {0, 1} PROVE LeadInv'
  <2>1. t = 1
    BY <1>2, <1>9, <1>17
  <2>2. DOMAIN calls' = {}
    BY <1>1, <1>3, <2>1, FirstIsLast
  <2>3. ASSUME NEW s \in Struct, type'[s] # Null PROVE s \in Behind(1)'
    <3>1. PICK i \in DOMAIN order' : order'[i] = s
      BY <2>3 DEF StructInv, OrderIsDone, Done
    <3>2. i <= Len(order) + 1 /\ Len(order) + 1 \in DOMAIN order'
      BY <1>16
    <3> QED BY <1>16, <2>1, <3>1, <3>2 DEF Behind
  <2> QED BY <1>1, <1>17, <2>1, <2>2, <2>3 DEF LeadInv
<1>18. ASSUME t # textual, textual \in {0, 1} PROVE LeadInv'
  <2>1. text' = text
    BY <1>7, <1>18
  <2>2. \A s : s \in Behind(1) => s \in Behind(1)'
    BY <1>16 DEF Behind
  <2>3. ASSUME NEW s \in Struct, type'[s] # Null
        PROVE  (\A i \in DOMAIN type'[s] : members[s][i] = Text => type'[s][i] = text)
               \/ (textual = 1 /\ s \in Behind(1)')
    BY <1>5, <1>8, <1>18, <2>2, <2>3 DEF LeadInv, TextsAgree
  <2>4. ASSUME NEW d \in DOMAIN calls'
        PROVE  \A i \in DOMAIN calls'[d].elements :
                 members[calls'[d].struct][i] = Text => calls'[d].elements[i] = text
    BY <1>3, <1>18 DEF LeadInv, TextsAgree
  <2> QED BY <1>1, <2>1, <2>3, <2>4 DEF LeadInv, TextsAgree
<1> QED BY <1>1, <1>15, <1>17, <1>18 DEF LeadInv

LEMMA ElementStepKeeps ==
  ASSUME StructInv, StructInv', ElementInv, LeadInv, [StructStep]_svars
  PROVE  ElementInv' /\ LeadInv'
<1>1. CASE DeclareNext
  <2>1. /\ next \in Struct /\ next' = next + 1 /\ calls' = IF Done(next) THEN calls ELSE Call(next)
        /\ UNCHANGED <<members, textual, type, order, text>>
    BY <1>1 DEF DeclareNext, Declare
  <2>2. next' # 1
    BY <2>1 DEF Struct
  <2>3. CASE Done(next)
    BY <2>1, <2>2, <2>3 DEF ElementInv, LeadInv, AsNamed, TextsAgree, Behind
  <2>4. CASE ~Done(next)
    BY <2>1, <2>2, <2>4, CallElements
  <2> QED BY <2>3, <2>4
<1>2. CASE AddElement
  BY <1>2, AddElementElements
<1>3. CASE CreateMember
  <2>1. /\ AtMember /\ calls # <<>> /\ GetType(Member) = NoType /\ calls' = Call(Member)
        /\ UNCHANGED <<members, textual, next, type, order, text>>
    BY <1>3 DEF CreateMember, AtMember
  <2>2. Member \in Struct
    <3>1. text # NoType
      BY CodesApart DEF StructInv, StructTypeOK
    <3> QED BY <2>1, <3>1, MemberIs, CodesApart DEF GetType
  <2>3. next' # 1
    BY <2>1 DEF ElementInv
  <2> QED BY <2>1, <2>2, <2>3, CallElements
<1>4. CASE CreateStruct
  BY <1>4, CreateStructElements
<1>5. CASE UNCHANGED svars
  BY <1>5 DEF svars, ElementInv, LeadInv, AsNamed, TextsAgree, Behind
<1> QED BY <1>1, <1>2, <1>3, <1>4, <1>5 DEF StructStep

(* For any structs: each has one element for each member, of the type the  *)
(* member names; texts have the type they have everywhere if the struct    *)
(* "@String" is the first and is made of no texts.                         *)
THEOREM LaidOutAsDeclaredCorrect == SpecAll => []LaidOutAsDeclared
<1>2. StructInv /\ StructInv' /\ ElementInv /\ LeadInv /\ [NextAll]_allvars => ElementInv' /\ LeadInv'
  BY StructsStay, ElementStepKeeps
<1>3. StructInv /\ ElementInv /\ LeadInv => LaidOutAsDeclared
  <2> SUFFICES ASSUME StructInv, ElementInv, LeadInv, Declared, NEW s \in Struct
               PROVE  /\ Len(type[s]) = Len(members[s])
                      /\ \A i \in DOMAIN members[s] :
                           /\ members[s][i] # Text => type[s][i] = members[s][i]
                           /\ members[s][i] = Text => type[s][i] \in {I8Ptr, text} /\ (TextLeads => type[s][i] = text)
    BY DEF LaidOutAsDeclared
  <2>1. type[s] # Null /\ type[s] \in Seq(Element)
    BY DeclaredDone DEF Done, StructInv, StructTypeOK, Element
  <2>2. Len(type[s]) = Len(members[s]) /\ AsNamed(s, type[s])
    BY <2>1 DEF ElementInv
  <2>3. DOMAIN members[s] = DOMAIN type[s]
    BY <2>1, <2>2 DEF StructInv, StructTypeOK
  <2>4. TextLeads => TextsAgree(s, type[s])
    <3>1. TextLeads => TextsAgree(s, type[s]) \/ Text \notin Uses(s)
      BY <2>1 DEF TextLeads, LeadInv
    <3>2. Text \notin Uses(s) => TextsAgree(s, type[s])
      BY <2>3 DEF Uses, TextsAgree
    <3> QED BY <3>1, <3>2
  <2> QED BY <2>2, <2>3, <2>4 DEF AsNamed, TextsAgree
<1> QED BY <1>2, <1>3, ElementInit, StructAlways, PTL DEF SpecAll

-----------------------------------------------------------------------------
(* Subs: the loops stay within the modules, and no function is created     *)
(* before the structs are declared, so none has a type that changes later. *)
DeclInv ==
  /\ include \in [1..Modules -> Seq(Sub)]
  /\ param \in [Sub -> {Text} \cup Struct]
  /\ mod \in 1..(Modules + 1) /\ inc \in Nat \ {0}
  /\ phase = "structs" => functions = <<>>
  /\ phase # "structs" => Declared
  /\ functions \in Seq([sub : Sub, param : {I8Ptr} \cup Struct])
  /\ ParamsTyped

LEMMA DeclInit == InitAll => DeclInv
<1> SUFFICES ASSUME InitAll PROVE DeclInv
  OBVIOUS
<1>1. include \in [1..Modules -> Seq(Sub)]
  <2>1. \A n \in Nat : [1..n -> Sub] \subseteq Seq(Sub)
    OBVIOUS
  <2> QED BY <2>1, SubsAssumption DEF InitAll, InitDeclarations
<1> QED BY <1>1, SubsAssumption DEF InitAll, InitDeclarations, DeclInv, ParamsTyped

(* Where functions are not created nothing they depend on changes.         *)
LEMMA FunctionsKept ==
  ASSUME DeclInv, UNCHANGED <<svars, inputs, functions>>,
         mod' \in 1..(Modules + 1), inc' \in Nat \ {0},
         phase' # phase => phase' # "structs" /\ Declared
  PROVE  DeclInv'
  BY DEF DeclInv, ParamsTyped, Declared, svars, inputs

LEMMA CreateFunctionKeeps == ASSUME StructInv, DeclInv, CreateFunction PROVE DeclInv'
<1> DEFINE f == [sub |-> Here, param |-> GetType(param[Here])]
<1>1. /\ phase = "subs" /\ InModule /\ functions' = Append(functions, f)
      /\ inc' = inc + 1 /\ UNCHANGED <<svars, inputs, phase, mod>>
  BY DEF CreateFunction, Advance
<1>2. Here \in Sub
  <2>1. mod \in 1..Modules /\ inc \in Nat \ {0} /\ inc <= Len(include[mod])
    BY <1>1, SubsAssumption DEF DeclInv, InModule
  <2>2. include[mod] \in Seq(Sub)
    BY <2>1 DEF DeclInv
  <2> QED BY <2>1, <2>2 DEF Here
<1>3. param[Here] \in {Text} \cup Struct
  BY <1>2 DEF DeclInv
<1>4. Declared
  BY <1>1 DEF DeclInv
<1>5. f.param = IF param[f.sub] = Text THEN text ELSE param[f.sub]
  BY <1>3, <1>4, DeclaredDone DEF GetType
<1>6. text \in {I8Ptr} \cup Struct
  BY DEF StructInv, StructTypeOK
<1>7. f \in [sub : Sub, param : {I8Ptr} \cup Struct]
  BY <1>2, <1>3, <1>5, <1>6
<1> HIDE DEF f
<1>8. functions' \in Seq([sub : Sub, param : {I8Ptr} \cup Struct])
  BY <1>1, <1>7 DEF DeclInv
<1>9. \A k \in DOMAIN functions' :
        (k \in DOMAIN functions /\ functions'[k] = functions[k]) \/ functions'[k] = f
  BY <1>1, <1>7 DEF DeclInv
<1>10. \A k \in DOMAIN functions' :
         functions'[k].param = IF param[functions'[k].sub] = Text THEN text ELSE param[functions'[k].sub]
  BY <1>5, <1>9 DEF DeclInv, ParamsTyped
<1> QED BY <1>1, <1>8, <1>10 DEF DeclInv, ParamsTyped, Declared, svars, inputs

LEMMA DeclStepKeeps == ASSUME StructInv, DeclInv, [NextAll]_allvars PROVE DeclInv'
<1>1. CASE DeclareStructs
  <2>1. phase = "structs" /\ functions = <<>> /\ UNCHANGED dvars
    BY <1>1 DEF DeclareStructs, DeclInv
  <2> QED BY <2>1 DEF DeclInv, ParamsTyped, dvars, inputs
<1>2. CASE CreateDll
  BY <1>2, FunctionsKept DEF CreateDll, StructsDone, DeclInv
<1>3. CASE ModuleEnd
  <2>1. mod' \in 1..(Modules + 1) /\ inc' = 1
    BY <1>3, SubsAssumption DEF ModuleEnd, NextModule, DeclInv
  <2> QED BY <1>3, <2>1, FunctionsKept DEF ModuleEnd
<1>4. CASE CreateFunction
  BY <1>4, CreateFunctionKeeps
<1>5. CASE ContextDone
  <2>1. phase # "structs" /\ mod' \in 1..(Modules + 1) /\ inc' = 1
    BY <1>5, SubsAssumption DEF ContextDone
  <2> QED BY <1>5, <2>1, FunctionsKept DEF ContextDone, DeclInv
<1>6. ASSUME NEW c \in Sub \cup {Command}, CompileSub(c) PROVE DeclInv'
  <2>1. inc' \in Nat \ {0} /\ mod' = mod
    BY <1>6 DEF CompileSub, Advance, DeclInv
  <2> QED BY <1>6, <2>1, FunctionsKept DEF CompileSub, DeclInv
<1>7. CASE ExternSub
  <2>1. mod' \in 1..(Modules + 1) /\ inc' = 1
    BY <1>7, SubsAssumption DEF ExternSub, InModule, LeaveLoop, DeclInv
  <2> QED BY <1>7, <2>1, FunctionsKept DEF ExternSub
<1>8. CASE Output
  <2>1. phase # "structs" /\ phase' # "structs" /\ UNCHANGED <<svars, inputs, functions, mod, inc>>
    BY <1>8 DEF Output
  <2> QED BY <2>1, FunctionsKept DEF DeclInv
<1>9. CASE UNCHANGED allvars
  BY <1>9, FunctionsKept DEF allvars, dvars, DeclInv
<1> QED BY <1>1, <1>2, <1>3, <1>4, <1>5, <1>6, <1>7, <1>8, <1>9 DEF NextAll, Terminated

(* However subs are spread over modules and included, and in whatever      *)
(* order structs come, the type a function is created with for its         *)
(* parameter is the one that stands for the declared type in the end.      *)
THEOREM ParamsTypedCorrect == SpecAll => []ParamsTyped
<1>1. DeclInv => ParamsTyped
  BY DEF DeclInv
<1>2. StructInv /\ DeclInv /\ [NextAll]_allvars => DeclInv'
  BY DeclStepKeeps
<1> QED BY <1>1, <1>2, DeclInit, StructAlways, PTL DEF SpecAll

-----------------------------------------------------------------------------
(* Calls and bodies.  Once the second loop over the subs begins, every sub *)
(* that is included has the function that was created for it last, and     *)
(* neither that nor what the command is translated to changes any more.    *)
Compiling == phase \in {"bodies", "done"}
Passed(m, i) == m < mod \/ (m = mod /\ i < inc)

InputsFit ==
  /\ include \in [1..Modules -> Seq(Sub)]
  /\ \A m \in 1..Modules : Len(include[m]) <= MaxIncludes
  /\ extern \subseteq Sub
  /\ commented \subseteq (Sub \ extern) \cup {Dll}

(* Where the loops are in each phase.                                      *)
LoopsFit ==
  /\ phase = "structs" => mod = 1 /\ inc = 1 /\ translator = Nothing
  /\ phase = "done" => mod = Modules + 1
  /\ phase # "structs" /\ Dll \in commented => translator = Dll
  /\ ~Compiling => emitted = {} /\ bodies = <<>>

ValuesFit ==
  /\ \A s \in Sub : value[s] # NoFunction => functions[value[s]].sub = s
  /\ phase = "subs" \/ Compiling =>
       \A m \in 1..Modules : \A i \in DOMAIN include[m] :
         Passed(m, i) \/ Compiling => value[include[m][i]] # NoFunction
  /\ \A e \in emitted : e.to = Target(e.callee)

CallInv == DeclTypeOK /\ InputsFit /\ LoopsFit /\ ValuesFit

(* A sub that is included at one place only has no body before the loop    *)
(* has passed the place, and one behind it unless an extern sub of the     *)
(* module came first.                                                      *)
BodiesOf(s) == {k \in DOMAIN bodies : bodies[k] = value[s]}
Reachable(m, i) == \A j \in 1..i : include[m][j] \notin extern
BodyInv ==
  /\ \A k \in DOMAIN bodies : \E s \in Sub \ extern : bodies[k] = value[s]
  /\ Compiling =>
       \A s \in Sub : \A m \in 1..Modules : \A i \in DOMAIN include[m] :
         Places(s) = {<<m, i>>} =>
           /\ ~Passed(m, i) => BodiesOf(s) = {}
           /\ Passed(m, i) /\ Reachable(m, i) => \E k \in DOMAIN bodies : BodiesOf(s) = {k}

LEMMA CallInit == InitAll => CallInv /\ BodyInv
<1> SUFFICES ASSUME InitAll PROVE CallInv /\ BodyInv
  OBVIOUS
<1>1. PICK L \in SUBSET (UNION {[1..n -> Sub] : n \in 0..MaxIncludes}) : include \in [1..Modules -> L]
  BY DEF InitAll, InitDeclarations
<1>2. ASSUME NEW m \in 1..Modules PROVE include[m] \in Seq(Sub) /\ Len(include[m]) <= MaxIncludes
  <2>1. PICK n \in 0..MaxIncludes : include[m] \in [1..n -> Sub]
    BY <1>1
  <2> QED BY <2>1, SubsAssumption
<1>3. InputsFit
  BY <1>1, <1>2 DEF InitAll, InitDeclarations, InputsFit
<1>4. /\ phase = "structs" /\ mod = 1 /\ inc = 1 /\ translator = Nothing /\ functions = <<>>
      /\ value = [s \in Sub |-> NoFunction] /\ bodies = <<>> /\ emitted = {}
  BY DEF InitAll, InitDeclarations
<1>5. DeclTypeOK
  BY <1>4, SubsAssumption DEF DeclTypeOK, Phases
<1> QED BY <1>3, <1>4, <1>5 DEF CallInv, LoopsFit, ValuesFit, BodyInv, Compiling

LEMMA HereIs ==
  ASSUME CallInv, InModule
  PROVE  /\ mod \in 1..Modules /\ inc \in Nat /\ inc \in DOMAIN include[mod] /\ inc \in 1..MaxIncludes
         /\ Here = include[mod][inc] /\ Here \in Sub
<1>1. mod \in 1..Modules /\ inc \in Nat \ {0} /\ inc <= Len(include[mod])
  BY SubsAssumption DEF CallInv, DeclTypeOK, InModule
<1>2. include[mod] \in Seq(Sub) /\ Len(include[mod]) <= MaxIncludes
  BY <1>1 DEF CallInv, InputsFit
<1> QED BY <1>1, <1>2, SubsAssumption DEF Here

(* The loops move: to the next sub, or to the next module.                 *)
LEMMA PassedAdvance ==
  ASSUME CallInv, Advance, NEW m \in 1..Modules, NEW i \in Nat
  PROVE  Passed(m, i)' <=> Passed(m, i) \/ (m = mod /\ i = inc)
  BY SubsAssumption DEF CallInv, DeclTypeOK, Advance, Passed

LEMMA PassedNext ==
  ASSUME CallInv, NextModule, NEW m \in 1..Modules, NEW i \in Nat \ {0}
  PROVE  Passed(m, i)' <=> Passed(m, i) \/ (m = mod /\ i >= inc)
  BY SubsAssumption DEF CallInv, DeclTypeOK, NextModule, Passed

LEMMA IncludedIs ==
  ASSUME CallInv, NEW m \in 1..Modules, NEW i \in DOMAIN include[m]
  PROVE  i \in Nat \ {0} /\ i <= Len(include[m]) /\ i \in 1..MaxIncludes /\ include[m][i] \in Sub
  BY SubsAssumption DEF CallInv, InputsFit

LEMMA TargetIs ==
  ASSUME CallInv, NEW c \in Sub \cup {Command}
  PROVE  Target(c) \in {NoFunction, Dll} \cup DOMAIN functions
  BY DEF CallInv, DeclTypeOK, InputsFit, Target, Nothing, NoFunction, Dll, Sub

LEMMA CreateFunctionCalls == ASSUME CallInv, DeclInv', CreateFunction PROVE CallInv'
<1> DEFINE f == [sub |-> Here, param |-> GetType(param[Here])]
           n == Len(functions) + 1
<1>1. /\ phase = "subs" /\ InModule /\ functions' = Append(functions, f)
      /\ value' = [value EXCEPT ![Here] = n] /\ translator' = Emplace(Here)
      /\ Advance /\ UNCHANGED <<include, extern, commented, phase, bodies, emitted>>
  BY DEF CreateFunction, inputs
<1>2. Here \in Sub /\ inc \in 1..MaxIncludes /\ mod \in 1..Modules /\ Here = include[mod][inc]
  BY <1>1, HereIs
<1>3. functions' \in Seq([sub : Sub, param : {I8Ptr} \cup Struct])
  BY DEF DeclInv
<1>4. functions \in Seq([sub : Sub, param : {I8Ptr} \cup Struct]) /\ value \in [Sub -> {NoFunction} \cup DOMAIN functions]
  BY DEF CallInv, DeclTypeOK
<1>5. /\ n \in Nat /\ DOMAIN functions = 1..(n - 1) /\ DOMAIN functions' = 1..n /\ functions'[n].sub = Here
      /\ \A k \in DOMAIN functions : functions'[k] = functions[k]
  <2> HIDE DEF f
  <2>1. DOMAIN functions = 1..(n - 1) /\ n \in Nat
    BY <1>4
  <2>2. Len(functions') = n /\ functions'[n] = f /\ \A k \in 1..(n - 1) : functions'[k] = functions[k]
    BY <1>1, <1>4
  <2>3. DOMAIN functions' = 1..n
    BY <1>3, <2>2
  <2> QED BY <2>1, <2>2, <2>3 DEF f
<1>6. DOMAIN functions \subseteq DOMAIN functions' /\ n \in DOMAIN functions' /\ n # NoFunction
  BY <1>5 DEF NoFunction
<1> HIDE DEF f, n
<1>7. /\ value'[Here] = n /\ \A s \in Sub : s # Here => value'[s] = value[s]
      /\ value' \in [Sub -> {NoFunction} \cup DOMAIN functions']
  BY <1>1, <1>2, <1>4, <1>6
<1>8. ~Compiling /\ emitted = {} /\ bodies = <<>>
  BY <1>1 DEF CallInv, LoopsFit, Compiling
<1>9. translator' \in {Nothing, Dll} \cup (Sub \ extern) /\ (translator = Dll => translator' = Dll)
  BY <1>1, <1>2 DEF CallInv, DeclTypeOK, InputsFit, Emplace, Nothing, Dll
<1>10. inc' \in 1..(MaxIncludes + 1) /\ mod' = mod
  BY <1>1, <1>2, SubsAssumption DEF Advance
<1>11. DeclTypeOK'
  <2>1. phase' \in Phases /\ mod' \in 1..(Modules + 1)
    BY <1>1, <1>10 DEF CallInv, DeclTypeOK
  <2>2. bodies' = <<>> /\ emitted' = {}
    BY <1>1, <1>8
  <2> QED BY <1>1, <1>3, <1>7, <1>9, <1>10, <2>1, <2>2 DEF DeclTypeOK
<1>12. InputsFit' /\ LoopsFit'
  BY <1>1, <1>9 DEF CallInv, InputsFit, LoopsFit, Compiling
<1>13. ValuesFit'
  <2>1. ASSUME NEW s \in Sub, value'[s] # NoFunction PROVE functions'[value'[s]].sub = s
    BY <1>4, <1>5, <1>7, <2>1 DEF CallInv, ValuesFit
  <2>2. ASSUME NEW m \in 1..Modules, NEW i \in DOMAIN include[m], Passed(m, i)'
        PROVE  value'[include[m][i]] # NoFunction
    <3>1. i \in Nat /\ include[m][i] \in Sub
      BY IncludedIs
    <3>2. Passed(m, i) \/ include[m][i] = Here
      BY <1>1, <1>2, <2>2, <3>1, PassedAdvance
    <3>3. Passed(m, i) => value[include[m][i]] # NoFunction
      BY <1>1 DEF CallInv, ValuesFit
    <3> QED BY <1>6, <1>7, <3>1, <3>2, <3>3
  <2>3. emitted' = {} /\ include' = include /\ phase' = "subs"
    BY <1>1, <1>8
  <2> QED BY <2>1, <2>2, <2>3 DEF ValuesFit, Compiling
<1> QED BY <1>11, <1>12, <1>13 DEF CallInv

LEMMA CompileSubCalls ==
  ASSUME CallInv, NEW c \in Sub \cup {Command}, CompileSub(c)
  PROVE  CallInv'
<1>1. /\ phase = "bodies" /\ InModule /\ bodies' = Append(bodies, value[Here])
      /\ emitted' = emitted \cup {[callee |-> c, to |-> Target(c)]}
      /\ Advance /\ UNCHANGED <<include, extern, commented, phase, translator, functions, value>>
  BY DEF CompileSub, inputs
<1>2. Here \in Sub /\ inc \in 1..MaxIncludes /\ mod \in 1..Modules /\ inc \in DOMAIN include[mod] /\ Here = include[mod][inc]
  BY <1>1, HereIs
<1>3. value[Here] # NoFunction
  BY <1>1, <1>2 DEF CallInv, ValuesFit, Compiling
<1>4. value[Here] \in DOMAIN functions
  BY <1>2, <1>3 DEF CallInv, DeclTypeOK
<1>5. bodies' \in Seq(DOMAIN functions)
  BY <1>1, <1>4 DEF CallInv, DeclTypeOK
<1>6. emitted' \in SUBSET [callee : Sub \cup {Command}, to : {NoFunction, Dll} \cup DOMAIN functions]
  <2>1. [callee |-> c, to |-> Target(c)] \in [callee : Sub \cup {Command}, to : {NoFunction, Dll} \cup DOMAIN functions]
    BY TargetIs
  <2> QED BY <1>1, <2>1 DEF CallInv, DeclTypeOK
<1>7. inc' \in 1..(MaxIncludes + 1) /\ mod' = mod
  BY <1>1, <1>2, SubsAssumption DEF Advance
<1>8. DeclTypeOK'
  BY <1>1, <1>5, <1>6, <1>7 DEF CallInv, DeclTypeOK
<1>9. InputsFit' /\ LoopsFit'
  BY <1>1, <1>7 DEF CallInv, InputsFit, LoopsFit, Compiling
<1>10. \A e \in emitted' : e.to = Target(e.callee)
  BY <1>1 DEF CallInv, ValuesFit
<1>11. ValuesFit'
  BY <1>1, <1>10 DEF CallInv, ValuesFit, Compiling, Target
<1> QED BY <1>8, <1>9, <1>11 DEF CallInv

LEMMA CallStepKeeps == ASSUME DeclInv', CallInv, [NextAll]_allvars PROVE CallInv'
<1>1. CASE DeclareStructs \/ UNCHANGED allvars
  <2>1. UNCHANGED dvars
    BY <1>1 DEF DeclareStructs, allvars
  <2> QED BY <2>1 DEF dvars, inputs, CallInv, DeclTypeOK, InputsFit, LoopsFit, ValuesFit, Compiling, Passed, Target
<1>2. CASE CreateDll
  <2>1. /\ phase = "structs" /\ phase' = "subs" /\ translator' = Emplace(Dll)
        /\ UNCHANGED <<include, extern, commented, mod, inc, functions, value, bodies, emitted>>
    BY <1>2 DEF CreateDll, StructsDone, inputs
  <2>2. translator' \in {Nothing, Dll} /\ (Dll \in commented => translator' = Dll)
    BY <2>1 DEF CallInv, LoopsFit, Emplace
  <2>3. mod = 1 /\ inc = 1 /\ emitted = {}
    BY <2>1 DEF CallInv, LoopsFit, Compiling
  <2>4. DeclTypeOK' /\ InputsFit' /\ LoopsFit'
    BY <2>1, <2>2, <2>3 DEF CallInv, DeclTypeOK, InputsFit, LoopsFit, Compiling, Phases
  <2>5. \A m \in 1..Modules : \A i \in DOMAIN include[m] : ~Passed(m, i)
    BY <2>3, IncludedIs DEF Passed
  <2>6. ValuesFit'
    BY <2>1, <2>3, <2>5 DEF CallInv, ValuesFit, Compiling, Passed
  <2> QED BY <2>4, <2>6 DEF CallInv
<1>3. CASE ModuleEnd
  <2>1. /\ phase \in {"subs", "bodies"} /\ mod <= Modules /\ ~InModule /\ NextModule
        /\ UNCHANGED <<include, extern, commented, phase, translator, functions, value, bodies, emitted>>
    BY <1>3 DEF ModuleEnd, inputs
  <2>2. mod' \in 1..(Modules + 1) /\ inc' \in 1..(MaxIncludes + 1)
    BY <2>1, SubsAssumption DEF CallInv, DeclTypeOK, NextModule
  <2>3. DeclTypeOK' /\ InputsFit' /\ LoopsFit'
    BY <2>1, <2>2 DEF CallInv, DeclTypeOK, InputsFit, LoopsFit, Compiling
  <2>4. ASSUME NEW m \in 1..Modules, NEW i \in DOMAIN include[m], Passed(m, i)'
        PROVE  Passed(m, i)
    <3>1. i \in Nat \ {0} /\ i <= Len(include[m])
      BY IncludedIs
    <3>2. m = mod => i < inc
      BY <2>1, <3>1 DEF InModule, CallInv, DeclTypeOK, InputsFit
    <3>3. Passed(m, i) \/ (m = mod /\ i >= inc)
      BY <2>1, <2>4, <3>1, PassedNext
    <3> QED BY <3>1, <3>2, <3>3 DEF CallInv, DeclTypeOK
  <2>5. ValuesFit'
    BY <2>1, <2>4 DEF CallInv, ValuesFit, Compiling, Target
  <2> QED BY <2>3, <2>5 DEF CallInv
<1>4. CASE CreateFunction
  BY <1>4, CreateFunctionCalls
<1>5. CASE ContextDone
  <2>1. /\ phase = "subs" /\ mod > Modules /\ phase' = "bodies" /\ mod' = 1 /\ inc' = 1
        /\ UNCHANGED <<include, extern, commented, translator, functions, value, bodies, emitted>>
    BY <1>5 DEF ContextDone, inputs
  <2>2. DeclTypeOK' /\ InputsFit' /\ LoopsFit'
    BY <2>1, SubsAssumption DEF CallInv, DeclTypeOK, InputsFit, LoopsFit, Compiling, Phases
  <2>3. \A m \in 1..Modules : \A i \in DOMAIN include[m] : Passed(m, i)
    BY <2>1, SubsAssumption DEF CallInv, DeclTypeOK, Passed
  <2>4. ValuesFit'
    BY <2>1, <2>3 DEF CallInv, ValuesFit, Compiling, Target
  <2> QED BY <2>2, <2>4 DEF CallInv
<1>6. ASSUME NEW c \in Sub \cup {Command}, CompileSub(c) PROVE CallInv'
  BY <1>6, CompileSubCalls
<1>7. CASE ExternSub
  <2>1. /\ phase = "bodies" /\ InModule /\ mod' = mod + 1 /\ inc' = 1
        /\ UNCHANGED <<include, extern, commented, phase, translator, functions, value, bodies, emitted>>
    BY <1>7 DEF ExternSub, LeaveLoop, inputs
  <2>2. mod' \in 1..(Modules + 1) /\ inc' \in 1..(MaxIncludes + 1)
    BY <2>1, HereIs, SubsAssumption
  <2>3. DeclTypeOK' /\ InputsFit' /\ LoopsFit'
    BY <2>1, <2>2 DEF CallInv, DeclTypeOK, InputsFit, LoopsFit, Compiling
  <2>4. ValuesFit'
    BY <2>1 DEF CallInv, ValuesFit, Compiling, Target
  <2> QED BY <2>3, <2>4 DEF CallInv
<1>8. CASE Output
  <2>1. /\ phase = "bodies" /\ mod > Modules /\ phase' = "done"
        /\ UNCHANGED <<include, extern, commented, mod, inc, translator, functions, value, bodies, emitted>>
    BY <1>8 DEF Output, inputs
  <2>2. mod = Modules + 1
    BY <2>1, SubsAssumption DEF CallInv, DeclTypeOK
  <2> QED BY <2>1, <2>2 DEF CallInv, DeclTypeOK, InputsFit, LoopsFit, ValuesFit, Compiling, Phases, Target
<1> QED BY <1>1, <1>2, <1>3, <1>4, <1>5, <1>6, <1>7, <1>8 DEF NextAll, Terminated

-----------------------------------------------------------------------------
LEMMA PlaceIs ==
  ASSUME CallInv, NEW m \in 1..Modules, NEW i \in DOMAIN include[m]
  PROVE  <<m, i>> \in Places(include[m][i])
  BY IncludedIs DEF Places

(* Different subs have different functions.                                *)
LEMMA ValuesDiffer ==
  ASSUME CallInv, NEW s \in Sub, NEW u \in Sub, value[s] = value[u], value[s] # NoFunction
  PROVE  s = u
  BY DEF CallInv, ValuesFit

(* Where no function gets a body, it is enough that what the loops pass is *)
(* cut off by an extern sub or has been passed before.                     *)
LEMMA BodiesKept ==
  ASSUME CallInv, BodyInv, UNCHANGED <<include, extern, value, bodies>>, Compiling' => Compiling,
         Compiling => \A m \in 1..Modules : \A i \in DOMAIN include[m] :
           /\ Passed(m, i) => Passed(m, i)'
           /\ Passed(m, i)' /\ Reachable(m, i) => Passed(m, i)
  PROVE  BodyInv'
<1>1. \A s : Places(s)' = Places(s) /\ BodiesOf(s)' = BodiesOf(s)
  BY DEF Places, BodiesOf
<1>2. \A m, i : Reachable(m, i)' <=> Reachable(m, i)
  BY DEF Reachable
<1>3. \A k \in DOMAIN bodies' : \E s \in Sub \ extern' : bodies'[k] = value'[s]
  BY DEF BodyInv
<1>4. ASSUME Compiling, NEW s \in Sub, NEW m \in 1..Modules, NEW i \in DOMAIN include[m], Places(s) = {<<m, i>>}
      PROVE  /\ ~Passed(m, i)' => BodiesOf(s) = {}
             /\ Passed(m, i)' /\ Reachable(m, i) => \E k \in DOMAIN bodies : BodiesOf(s) = {k}
  BY <1>4 DEF BodyInv
<1> QED BY <1>1, <1>2, <1>3, <1>4 DEF BodyInv

LEMMA CompileSubBodies ==
  ASSUME CallInv, BodyInv, NEW c \in Sub \cup {Command}, CompileSub(c)
  PROVE  BodyInv'
<1> DEFINE n == Len(bodies) + 1
<1>1. /\ phase = "bodies" /\ InModule /\ Here \notin extern /\ bodies' = Append(bodies, value[Here])
      /\ Advance /\ UNCHANGED <<include, extern, phase, value>>
  BY DEF CompileSub, inputs
<1>2. Here \in Sub /\ inc \in Nat /\ mod \in 1..Modules /\ inc \in DOMAIN include[mod] /\ Here = include[mod][inc]
  BY <1>1, HereIs
<1>3. value[Here] # NoFunction
  BY <1>1, <1>2 DEF CallInv, ValuesFit, Compiling
<1>4. bodies \in Seq(DOMAIN functions) /\ value[Here] \in DOMAIN functions
  BY <1>2, <1>3 DEF CallInv, DeclTypeOK
<1>5. /\ DOMAIN bodies' = DOMAIN bodies \cup {n} /\ n \notin DOMAIN bodies /\ bodies'[n] = value[Here]
      /\ \A k \in DOMAIN bodies : bodies'[k] = bodies[k]
  BY <1>1, <1>4
<1> HIDE DEF n
<1>6. \A k \in DOMAIN bodies' : \E s \in Sub \ extern : bodies'[k] = value[s]
  BY <1>1, <1>2, <1>5 DEF BodyInv
<1>7. ASSUME NEW s \in Sub
      PROVE  /\ s = Here => BodiesOf(s)' = BodiesOf(s) \cup {n}
             /\ s # Here => BodiesOf(s)' = BodiesOf(s)
  <2>1. s # Here => value[s] # value[Here]
    BY <1>2, <1>3, ValuesDiffer
  <2>2. BodiesOf(s)' = {k \in DOMAIN bodies' : bodies'[k] = value[s]}
    BY <1>1 DEF BodiesOf
  <2> QED BY <1>5, <2>1, <2>2 DEF BodiesOf
<1>8. ASSUME NEW s \in Sub, NEW m \in 1..Modules, NEW i \in DOMAIN include[m], Places(s) = {<<m, i>>}
      PROVE  /\ ~Passed(m, i)' => BodiesOf(s)' = {}
             /\ Passed(m, i)' /\ Reachable(m, i) => \E k \in DOMAIN bodies' : BodiesOf(s)' = {k}
  <2>1. i \in Nat
    BY IncludedIs
  <2>2. Passed(m, i)' <=> Passed(m, i) \/ (m = mod /\ i = inc)
    BY <1>1, <2>1, PassedAdvance
  <2>3. /\ ~Passed(m, i) => BodiesOf(s) = {}
        /\ Passed(m, i) /\ Reachable(m, i) => \E k \in DOMAIN bodies : BodiesOf(s) = {k}
    BY <1>1, <1>8 DEF BodyInv, Compiling
  <2>4. s = Here <=> m = mod /\ i = inc
    <3>1. ASSUME s = Here PROVE m = mod /\ i = inc
      <4>1. <<mod, inc>> \in Places(s)
        BY <1>2, <3>1, PlaceIs
      <4> QED BY <1>8, <4>1
    <3>2. ASSUME m = mod, i = inc PROVE s = Here
      <4>1. <<m, i>> \in Places(s)
        BY <1>8
      <4> QED BY <1>2, <3>2, <4>1 DEF Places
    <3> QED BY <3>1, <3>2
  <2>5. m = mod /\ i = inc => ~Passed(m, i)
    BY <1>2 DEF Passed
  <2>6. CASE s = Here
    BY <1>5, <1>7, <2>2, <2>3, <2>4, <2>5, <2>6
  <2>7. CASE s # Here
    BY <1>5, <1>7, <2>2, <2>3, <2>4, <2>7
  <2> QED BY <2>6, <2>7
<1>9. /\ \A s : Places(s)' = Places(s)
      /\ \A m, i : Reachable(m, i)' <=> Reachable(m, i)
  BY <1>1 DEF Places, Reachable
<1> QED BY <1>1, <1>6, <1>8, <1>9 DEF BodyInv

LEMMA BodyStepKeeps == ASSUME CallInv, CallInv', BodyInv, [NextAll]_allvars PROVE BodyInv'
<1>1. CASE DeclareStructs \/ UNCHANGED allvars
  <2>1. UNCHANGED <<include, extern, value, bodies, phase, mod, inc>>
    BY <1>1 DEF DeclareStructs, allvars, dvars, inputs
  <2> QED BY <2>1, BodiesKept DEF Compiling, Passed
<1>2. CASE CreateDll
  BY <1>2, BodiesKept DEF CreateDll, StructsDone, inputs, Compiling
<1>3. CASE ModuleEnd
  <2>1. ~InModule /\ mod <= Modules /\ NextModule /\ UNCHANGED <<include, extern, value, bodies, phase>>
    BY <1>3 DEF ModuleEnd, inputs
  <2>2. ASSUME NEW m \in 1..Modules, NEW i \in DOMAIN include[m]
        PROVE  Passed(m, i)' <=> Passed(m, i)
    <3>1. i \in Nat \ {0} /\ i <= Len(include[m]) /\ Len(include[m]) \in Nat /\ inc \in Nat
      BY IncludedIs DEF CallInv, InputsFit, DeclTypeOK
    <3>2. m = mod => i < inc
      BY <2>1, <3>1 DEF InModule
    <3>3. m = mod /\ i >= inc => Passed(m, i)
      BY <3>1, <3>2
    <3> QED BY <2>1, <3>1, <3>3, PassedNext
  <2> QED BY <2>1, <2>2, BodiesKept DEF Compiling
<1>4. CASE CreateFunction
  <2>1. phase = "subs" /\ UNCHANGED <<extern, phase, bodies>> /\ bodies = <<>>
    BY <1>4 DEF CreateFunction, inputs, CallInv, LoopsFit, Compiling
  <2> QED BY <2>1 DEF BodyInv, Compiling
<1>5. CASE ContextDone
  <2>1. /\ phase = "subs" /\ mod' = 1 /\ inc' = 1 /\ UNCHANGED <<include, extern, value, bodies>>
    BY <1>5 DEF ContextDone, inputs
  <2>2. bodies = <<>>
    BY <2>1 DEF CallInv, LoopsFit, Compiling
  <2>3. \A m \in 1..Modules : \A i \in DOMAIN include[m] : ~Passed(m, i)'
    BY <2>1, IncludedIs DEF Passed
  <2>4. \A s : BodiesOf(s)' = {}
    BY <2>1, <2>2 DEF BodiesOf
  <2> QED BY <2>1, <2>2, <2>3, <2>4 DEF BodyInv
<1>6. ASSUME NEW c \in Sub \cup {Command}, CompileSub(c) PROVE BodyInv'
  BY <1>6, CompileSubBodies
<1>7. CASE ExternSub
  <2>1. InModule /\ Here \in extern /\ NextModule /\ UNCHANGED <<include, extern, value, bodies, phase>>
    BY <1>7 DEF ExternSub, LeaveLoop, NextModule, inputs
  <2>2. Here = include[mod][inc] /\ inc \in Nat \ {0}
    BY <2>1, HereIs
  <2>3. ASSUME NEW m \in 1..Modules, NEW i \in DOMAIN include[m]
        PROVE  /\ Passed(m, i) => Passed(m, i)'
               /\ Passed(m, i)' /\ Reachable(m, i) => Passed(m, i)
    <3>1. i \in Nat \ {0}
      BY IncludedIs
    <3>2. m = mod /\ i >= inc => ~Reachable(m, i)
      BY <2>1, <2>2, <3>1 DEF Reachable
    <3> QED BY <2>1, <3>1, <3>2, PassedNext
  <2> QED BY <2>1, <2>3, BodiesKept DEF Compiling
<1>8. CASE Output
  BY <1>8, BodiesKept DEF Output, inputs, Compiling, Passed
<1> QED BY <1>1, <1>2, <1>3, <1>4, <1>5, <1>6, <1>7, <1>8 DEF NextAll, Terminated

LEMMA CallsAlways == SpecAll => [](CallInv /\ BodyInv)
<1>1. StructInv /\ DeclInv /\ [NextAll]_allvars => DeclInv'
  BY DeclStepKeeps
<1>2. DeclInv' /\ CallInv /\ [NextAll]_allvars => CallInv'
  BY CallStepKeeps
<1>3. CallInv /\ CallInv' /\ BodyInv /\ [NextAll]_allvars => BodyInv'
  BY BodyStepKeeps
<1> QED BY <1>1, <1>2, <1>3, DeclInit, CallInit, StructAlways, PTL DEF SpecAll

(* The values the two loops leave in subs, functions and calls stay within *)
(* their types: a body is only ever given to a function that exists.       *)
THEOREM DeclTypesCorrect == SpecAll => []DeclTypeOK
<1>1. CallInv => DeclTypeOK
  BY DEF CallInv
<1> QED BY <1>1, CallsAlways, PTL

(* A sub may be called before its module is compiled: however subs are     *)
(* spread over modules, a call is compiled to the function that holds the  *)
(* callee's body in the end, and commands go to one function.              *)
THEOREM CallsResolveCorrect == SpecAll => []CallsResolve
<1>1. CallInv => CallsResolve
  <2> SUFFICES ASSUME CallInv PROVE CallsResolve
    OBVIOUS
  <2>1. \A e \in emitted : e.to = Target(e.callee) /\ Compiling
    BY DEF CallInv, ValuesFit, LoopsFit
  <2>2. ASSUME NEW e \in emitted, e.callee \in Sub, Places(e.callee) # {}
        PROVE  e.to = value[e.callee] /\ functions[e.to].sub = e.callee
    <3>1. e.to = value[e.callee]
      BY <2>1, <2>2 DEF Target
    <3>2. PICK p \in (1..Modules) \X (1..MaxIncludes) : p[2] \in DOMAIN include[p[1]] /\ include[p[1]][p[2]] = e.callee
      BY <2>2 DEF Places
    <3>3. value[e.callee] # NoFunction
      BY <2>1, <3>2 DEF CallInv, ValuesFit
    <3> QED BY <2>2, <3>1, <3>3 DEF CallInv, ValuesFit
  <2>3. Command \notin Sub /\ Dll \notin Sub
    BY DEF Command, Sub, Dll
  <2>4. \A e, f \in emitted : e.callee = Command /\ f.callee = Command => e.to = f.to
    BY <2>1
  <2>5. Dll \in commented => \A e \in emitted : e.callee = Command => e.to = Dll
    <3>1. Dll \in commented /\ Compiling => translator = Dll
      BY DEF CallInv, LoopsFit, Compiling
    <3> QED BY <2>1, <2>3, <3>1 DEF Target
  <2> QED BY <2>2, <2>4, <2>5 DEF CallsResolve
<1> QED BY <1>1, CallsAlways, PTL

(* For any modules and any subs they include: the break at an extern sub   *)
(* costs the subs behind it their bodies and no others, and nothing makes  *)
(* a second body for a sub that is included once.                          *)
THEOREM BodiesOnceCorrect == SpecAll => []BodiesOnce
<1>1. CallInv /\ BodyInv => BodiesOnce
  <2> SUFFICES ASSUME CallInv, BodyInv, phase = "done", NEW s \in Sub, NEW p \in Places(s), Places(s) = {p}
               PROVE  /\ s \in extern => Cardinality(BodiesOf(s)) = 0
                      /\ (\A j \in 1..p[2] : include[p[1]][j] \notin extern) => Cardinality(BodiesOf(s)) = 1
    BY DEF BodiesOnce, BodiesOf
  <2>1. PICK m \in 1..Modules, i \in 1..MaxIncludes : p = <<m, i>> /\ i \in DOMAIN include[m] /\ include[m][i] = s
    BY DEF Places
  <2>2. Compiling /\ Passed(m, i)
    BY SubsAssumption DEF CallInv, LoopsFit, Compiling, Passed
  <2>3. value[s] # NoFunction
    BY <2>1, <2>2 DEF CallInv, ValuesFit
  <2>4. s \in extern => BodiesOf(s) = {}
    BY <2>3, ValuesDiffer DEF BodyInv, BodiesOf
  <2>5. Reachable(m, i) => \E k : BodiesOf(s) = {k}
    BY <2>1, <2>2 DEF BodyInv
  <2>6. Cardinality({}) = 0 /\ \A k : Cardinality({k}) = 1
    BY FS_EmptySet, FS_Singleton
  <2> QED BY <2>1, <2>4, <2>5, <2>6 DEF Reachable
<1> QED BY <1>1, CallsAlways, PTL
=============================================================================
