------------------------------ MODULE ExprParser ------------------------------
(***************************************************************************)
(* ParseFunCall, ParseArgs and ParseNode of ECodeParser                    *)
(* (src/src/ECodeParser.cpp): the arguments of the call of one statement.  *)
(*                                                                         *)
(* A method in progress is a frame; the part of it between two calls of    *)
(* ReadByte or ParseNode is an action.  An opcode with the fixed data that *)
(* follows it is one token, and a token's number names the node made for   *)
(* it.  The chain of ASTPostfix nodes over the ASTVariable of an object    *)
(* is the sequence of their fields.                                        *)
(***************************************************************************)
EXTENDS Integers, Sequences, FiniteSets

CONSTANTS
  Irregular,   (* "unknown": opcodes ParseNode does not know;              *)
               (* "noEnd": the code may end behind any argument            *)
  MaxLen       (* bound: no node starts past this length of stream         *)

ASSUME IrregularAssumption == Irregular \subseteq {"unknown", "noEnd"}
ASSUME MaxLenAssumption == MaxLen \in Nat

VARIABLES
  stream,   (* the tokens read so far                                      *)
  frames,   (* the methods in progress, outermost first                    *)
  fresh,    (* ParseArgs has just been called and does Match(54) next      *)
  result,   (* the node ParseNode returns, Reading if it does not          *)
  kids,     (* args of calls and braces, fields of objects, value of a     *)
            (* subscript                                                   *)
  good      (* buf.Good()                                                  *)

vars == <<stream, frames, fresh, result, kids, good>>

Statement == 0
Reading == -2
Null == -1

-----------------------------------------------------------------------------
(* The stream as the e editor writes it.                                   *)

Atoms == {"value", "unknown"}                  (* 22-28, 30, 35, 57, 59    *)
Lists == {"call", "brace"}                     (* 33, 31                   *)
Openers == Lists \cup {"object"}               (* 56                       *)
End == [call |-> "end", brace |-> "endBrace",  (* 1 or 0, 32               *)
        object |-> "endObject"]                (* 55                       *)
Enders == {End[k] : k \in Openers}
PrefixOps == {"var", "paren", "subscript"}      (* 29, 54, 58               *)
Nodes == Atoms \cup Openers \cup {"subscript"}
Tokens == Nodes \cup PrefixOps \cup Enders

Here == Len(stream) + 1
Kind(i) == IF i = Statement THEN "call" ELSE stream[i]

(* The 54 behind the head of a call or a brace opens its list; any other   *)
(* stands in front of a node.                                              *)
Prefixed(i) == /\ i > 0 /\ stream[i] \in PrefixOps
               /\ ~(stream[i] = "paren" /\ Kind(i - 1) \in Lists)

Depth(i) == Cardinality({k \in 1..(i - 1) : stream[k] \in Openers})
              - Cardinality({k \in 1..(i - 1) : stream[k] \in Enders})
Latest(S) == CHOOSE k \in S \cup {Statement} : \A j \in S : j <= k
Owner(i) ==
  Latest({k \in 1..(i - 1) : stream[k] \in Openers /\ Depth(k) = Depth(i) - 1})

(* Fields of an object are members (57) and subscripts, which stand        *)
(* nowhere else.                                                           *)
Following ==
  LET last == Len(stream)
      kind == Kind(Owner(Here))
      field == ~Prefixed(last) /\ kind = "object"
  IN
  {t \in Tokens :
     /\ t = "unknown" => t \in Irregular
     /\ t \in Nodes \cup PrefixOps =>
          last < MaxLen \/ (Prefixed(last) /\ t = "value")
                        \/ (t = "paren" /\ Kind(last) \in Lists)
     /\ IF field THEN t \in {"value", "subscript"} \cup {End[kind]}
        ELSE /\ t # "subscript"
             /\ t \in Enders => ~Prefixed(last) /\ t = End[kind]}

-----------------------------------------------------------------------------
Top == frames[Len(frames)]
Pop == SubSeq(frames, 1, Len(frames) - 1)
Push(kind) == Append(frames, [kind |-> kind, node |-> Here])

(* f with the node x, just made.                                           *)
Added(f, x, v) == [y \in DOMAIN f \cup {x} |-> IF y = x THEN v ELSE f[y]]

Init ==
  /\ stream = <<>>
  /\ frames = <<[kind |-> "args", node |-> Statement]>>
  /\ fresh = TRUE
  /\ result = Reading
  /\ kids = [n \in {Statement} |-> <<>>]
  /\ good = TRUE

(* args.push_back.  (Mutated form: the argument goes to the front.)        *)
AddArgFront(node) == [kids EXCEPT ![Top.node] = <<node>> \o @]
AddArg(node) == [kids EXCEPT ![Top.node] = Append(@, node)]

(* What the loop of the method on top looks for itself: ParseArgs ends at  *)
(* 1, 0 and 32 alike.  (Mutated form: every 54 is skipped.)                *)
AwaitedAny(t) == \/ t = "paren"
                 \/ Top.kind = "args" /\ t \in {"end", "endBrace"}
                 \/ Top.kind = "object" /\ t = "endObject"
Awaited(t) == \/ fresh /\ t = "paren"
              \/ Top.kind = "args" /\ t \in {"end", "endBrace"}
              \/ Top.kind = "object" /\ t = "endObject"

MatchOpen(t) ==
  /\ Awaited(t) /\ t = "paren"
  /\ fresh' = FALSE
  /\ UNCHANGED <<frames, result, kids>>

(* ParseArgs returns to ParseFunCall, and that to ParseNode or, for the    *)
(* call of the statement, to ParseLineNode.  (Mutated form: it returns to  *)
(* ParseNode always.)                                                      *)
ReturnListUp == frames' = Pop /\ result' = Top.node
ReturnList == /\ frames' = Pop
              /\ result' = IF Top.node = Statement THEN Reading ELSE Top.node

EndArgs(t) ==
  /\ Awaited(t) /\ t \in {"end", "endBrace"}
  /\ ReturnList
  /\ fresh' = FALSE
  /\ UNCHANGED kids

EndObject(t) ==
  /\ Awaited(t) /\ t = "endObject"
  /\ frames' = Pop
  /\ result' = Top.node
  /\ UNCHANGED <<fresh, kids>>

(* The cases of ParseNode.                                                 *)
ParseAtom(t) ==
  /\ ~Awaited(t) /\ t \in Atoms
  /\ result' = IF t = "unknown" THEN Null ELSE Here
  /\ fresh' = FALSE
  /\ UNCHANGED <<frames, kids>>

ParsePrefix(t) ==
  /\ ~Awaited(t) /\ t \in {"var", "paren"}
  /\ frames' = Push("through")
  /\ fresh' = FALSE
  /\ UNCHANGED <<result, kids>>

ParseArgs(t) ==
  /\ ~Awaited(t) /\ t \in Lists
  /\ frames' = Push("args")
  /\ fresh' = TRUE
  /\ kids' = Added(kids, Here, <<>>)
  /\ UNCHANGED result

ParseObject(t) ==
  /\ ~Awaited(t) /\ t \in {"object", "subscript"}
  /\ frames' = Push(t)
  /\ fresh' = FALSE
  /\ kids' = Added(kids, Here, <<>>)
  /\ UNCHANGED result

Read(t) ==
  \/ MatchOpen(t)
  \/ EndArgs(t)
  \/ EndObject(t)
  \/ ParseAtom(t)
  \/ ParsePrefix(t)
  \/ ParseArgs(t)
  \/ ParseObject(t)

ReadByte == /\ result = Reading /\ frames # <<>>
            /\ \E t \in Following : Read(t) /\ stream' = Append(stream, t)
            /\ UNCHANGED good

-----------------------------------------------------------------------------
(* ParseNode returns to the method on top.                                 *)
Returning(kind) == result # Reading /\ Top.kind = kind

(* case 29 and 54.                                                         *)
ReturnThrough ==
  /\ Returning("through")
  /\ frames' = Pop
  /\ UNCHANGED <<stream, fresh, result, kids, good>>

ReturnSubscript ==
  /\ Returning("subscript")
  /\ kids' = AddArg(result)
  /\ frames' = Pop
  /\ result' = Top.node
  /\ UNCHANGED <<stream, fresh, good>>

ReturnField ==
  /\ Returning("object")
  /\ kids' = AddArg(result)
  /\ result' = Reading
  /\ UNCHANGED <<stream, frames, fresh, good>>

(* The code may end here, though not inside an object, whose loop does not *)
(* ask Good.  Behind the end every list that is open returns.              *)
MayEnd == "noEnd" \in Irregular
            /\ \A d \in DOMAIN frames : frames[d].kind \notin {"object", "subscript"}

ReturnArg ==
  /\ Returning("args")
  /\ kids' = AddArg(result)
  /\ good' \in {good} \cup (IF MayEnd THEN {FALSE} ELSE {})
  /\ IF good' THEN result' = Reading /\ UNCHANGED frames ELSE ReturnList
  /\ UNCHANGED <<stream, fresh>>

Finished == frames = <<>> /\ UNCHANGED vars

Next ==
  \/ ReadByte
  \/ ReturnThrough
  \/ ReturnSubscript
  \/ ReturnField
  \/ ReturnArg
  \/ Finished

Spec == Init /\ [][Next]_vars

-----------------------------------------------------------------------------
(* Properties.                                                             *)

(* Nodes refer to what has been read, and a method in progress belongs to  *)
(* a token behind that of the method that called it.                       *)
ExprTypeOK ==
  /\ stream \in Seq(Tokens)
  /\ frames \in Seq([kind : {"args", "through", "object", "subscript"},
                     node : 0..Len(stream)])
  /\ \A d \in 1..(Len(frames) - 1) : frames[d].node < frames[d + 1].node
  /\ fresh \in BOOLEAN /\ good \in BOOLEAN
  /\ result \in {Reading, Null} \cup 1..Len(stream)
  /\ kids \in [DOMAIN kids -> Seq({Null} \cup 1..Len(stream))]

Closed(i) == \E k \in (i + 1)..Len(stream) : stream[k] \in Enders /\ Owner(k) = i

(* The node that token i starts is complete.  That of a prefix is that of  *)
(* the first token behind it that is none.                                 *)
Whole(i) ==
  LET head == {k \in i..Len(stream) :
                 ~Prefixed(k) /\ \A j \in i..(k - 1) : Prefixed(j)}
  IN  \E k \in head : ~good \/ stream[k] \in Atoms \/ Closed(k)

(* Whenever a byte is read, a method is in progress for the statement, for *)
(* every list and object that is open and for every prefix whose node is   *)
(* not complete, and no other: a closing opcode ends its own construct,    *)
(* and the last one ends the statement.                                    *)
FramesAreOpen ==
  result = Reading /\ good =>
    /\ {frames[d].node : d \in DOMAIN frames} \ {Statement} =
         {i \in 1..Len(stream) : /\ stream[i] \in Openers \/ Prefixed(i)
                                /\ ~Whole(i)}
    /\ frames = <<>> <=> Closed(Statement)

(* The node that token i starts belongs to the construct it stands in, or  *)
(* to the subscript in front of it.                                        *)
Parent(i) ==
  LET S == {k \in 1..(i - 1) : /\ stream[k] = "subscript"
                               /\ \A j \in k..(i - 1) : Prefixed(j)}
  IN  IF S = {} THEN Owner(i) ELSE Latest(S)

(* The numbers of S in ascending order.                                    *)
InOrder(S) == [k \in 1..Cardinality(S) |->
                 CHOOSE i \in S : Cardinality({j \in S : j <= i}) = k]

(* Every argument list, object and subscript holds the nodes written in    *)
(* it, in their order and no others, however calls, braces and objects     *)
(* nest and whether or not the lists have their 54.                        *)
ArgsAsWritten ==
  LET whole == {i \in 1..Len(stream) : stream[i] \in Nodes /\ Whole(i)}
      parent == [i \in whole |-> Parent(i)]
      written(n) == InOrder({i \in whole : parent[i] = n})
      node(i) == IF stream[i] = "unknown" THEN Null ELSE i
  IN  result = Reading =>
        \A n \in DOMAIN kids :
          kids[n] = [k \in DOMAIN written(n) |-> node(written(n)[k])]
=============================================================================
