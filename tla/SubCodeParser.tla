---------------------------- MODULE SubCodeParser ----------------------------
(***************************************************************************)
(* ECodeParser (src/src/ECodeParser.cpp): the recursive descent parser     *)
(* that turns the code of one sub into the tree the visitors walk.         *)
(*                                                                         *)
(* The code is read one opcode at a time.  The part of the parser that     *)
(* consumes an opcode is an action; a ParseXxx call in progress is a frame *)
(* of frames.  An opcode together with the call that follows it            *)
(* (ParseFunCall) is one token, so a token's number in the stream names    *)
(* the node or the block that the parser makes when it reads the token.    *)
(*                                                                         *)
(* Blocks are objects shared by pointer, as in the code: the default block *)
(* of a judge can be in its list of blocks as well.                        *)
(***************************************************************************)
EXTENDS Integers, Sequences, FiniteSets

CONSTANTS
  Liberties,   (* irregular tokens the stream may hold, see AllLiberties   *)
  MaxLen       (* bound: no statement starts past this length of stream    *)

(* "skip": opcode 1 in front of a statement; "other": an opcode that       *)
(* ParseLineNode does not know; "bareCase": a case without arguments;      *)
(* "noMatch": the last closing opcode of a construct may be missing.       *)
AllLiberties == {"skip", "other", "bareCase", "noMatch"}

ASSUME LibertiesAssumption == Liberties \subseteq AllLiberties
ASSUME LengthAssumption == MaxLen \in Nat

VARIABLES
  stream,    (* the tokens read so far                                     *)
  frames,    (* ParseXxx calls in progress, ParseSubCode first             *)
  line,      (* ParseLineNode has read opcode 1 and reads on               *)
  pending,   (* the construct that has just ended; its Match comes next    *)
  blocks,    (* the contents of each block                                 *)
  judges,    (* the fields of each ASTJudge                                *)
  elses,     (* else_block of each ASTIfStmt, NoNode for nullptr           *)
  tails      (* tail of each ASTLoop, NoNode for nullptr                   *)

vars == <<stream, frames, line, pending, blocks, judges, elses, tails>>

Program == 0
NoNode == -1

-----------------------------------------------------------------------------
(* The stream as the e editor writes it.                                   *)

Openers == {"if", "ifTrue", "judge", "loop"}
End == [if |-> "endif", ifTrue |-> "endtrue", judge |-> "endjudge",
        loop |-> "endloop"]
Match == [if |-> "ifend", ifTrue |-> "trueend", judge |-> "judgeend",
          loop |-> "tail"]
Enders == {End[k] : k \in Openers}
Matches == {Match[k] : k \in Openers}
Cases == {"case", "bareCase"}
Sections == Openers \cup Cases \cup {"else", "default"}
Statements == {"line"} \cup Openers
Tokens == Statements \cup Enders \cup Matches \cup Sections
            \cup {"endcase", "skip", "other"}

Here == Len(stream) + 1

(* How many constructs are open in front of token i.                       *)
Depth(i) == Cardinality({k \in 1..(i - 1) : stream[k] \in Openers})
              - Cardinality({k \in 1..(i - 1) : stream[k] \in Enders})

Latest(S) == CHOOSE k \in S \cup {0} : \A j \in S : j <= k

(* The construct that token i stands in, and the token that starts the     *)
(* section of it i stands in: its opener, its else, a case, its default.   *)
Owner(i) ==
  Latest({k \in 1..(i - 1) : stream[k] \in Openers /\ Depth(k) = Depth(i) - 1})
Section(i) ==
  Latest({Owner(i)} \cup {k \in (Owner(i) + 1)..(i - 1) :
                          stream[k] \in Sections \ Openers /\ Depth(k) = Depth(i)})

Ended(s) == \E k \in (s + 1)..Len(stream) :
              stream[k] = "endcase" /\ Section(k) = s

Previous == IF stream = <<>> THEN "line" ELSE stream[Len(stream)]
Kind(i) == IF i = 0 THEN "program" ELSE stream[i]

(* Bound: a stream with an opcode between statements is one token shorter. *)
Irregular == {"skip", "other"}
Length(t) == IF t \in Irregular \/ \E k \in 1..Len(stream) : stream[k] \in Irregular
             THEN MaxLen - 1 ELSE MaxLen

(* The next token may be a statement, a separator, or what closes the      *)
(* construct the stream is in.  s is the section it stands in.             *)
StatementFits(t, s) ==
  /\ Len(stream) < Length(t) \/ (Previous = "skip" /\ t = "line")
  /\ Kind(s) # "judge"
  /\ ~Ended(s)

ClosingFits(t, s) ==
  /\ Previous # "skip"
  /\ CASE t = "else" -> Kind(s) = "if"
       [] t \in Cases -> \/ Kind(s) = "judge"
                         \/ Kind(s) \in Cases /\ Ended(s) /\ Len(stream) < Length(t)
       [] t = "default" -> Kind(s) \in Cases /\ Ended(s)
       [] t = "endcase" -> Kind(s) \in Cases \cup {"default"} /\ ~Ended(s)
       [] t = "endjudge" -> Kind(s) = "default" \/ (Kind(s) \in Cases /\ Ended(s))
       [] t \in Enders \ {"endjudge"} -> Owner(Here) # 0 /\ t = End[Kind(Owner(Here))]
       [] OTHER -> \E k \in Openers : t = Match[k] /\ Previous = End[k]

Following ==
  LET s == Section(Here) IN
  {t \in Tokens :
     /\ t \in AllLiberties => t \in Liberties
     /\ Previous \in Enders /\ "noMatch" \notin Liberties => t \in Matches
     /\ IF t \in Statements \cup {"skip", "other"} THEN StatementFits(t, s)
                                                   ELSE ClosingFits(t, s)}

-----------------------------------------------------------------------------
(* The parser.  kind is the ParseXxx method of a frame ("else" for the     *)
(* second loop of ParseIf), node what it will return, block the block it   *)
(* adds statements to, NoNode for nullptr.                                 *)

Frame(kind, node, block) == [kind |-> kind, node |-> node, block |-> block]
Top == frames[Len(frames)]
Pop == SubSeq(frames, 1, Len(frames) - 1)
SetTop(kind, block) ==
  [frames EXCEPT ![Len(frames)].kind = kind, ![Len(frames)].block = block]

(* f with the node x, just made.                                           *)
Added(f, x, v) == [y \in DOMAIN f \cup {x} |-> IF y = x THEN v ELSE f[y]]

NewJudge == [conditions |-> <<>>, blocks |-> <<>>, default_block |-> NoNode]

(* The opcodes that the loop of a method looks for itself.                 *)
Awaited(kind) ==
  CASE kind = "if" -> {"else", "endif"}
    [] kind = "else" -> {"endif"}
    [] kind = "judge" -> Cases \cup {"default", "endcase", "endjudge"}
    [] kind \in {"ifTrue", "loop"} -> {End[kind]}
    [] OTHER -> {}

Init ==
  /\ stream = <<>>
  /\ frames = <<Frame("program", Program, Program)>>
  /\ line = FALSE
  /\ pending = NoNode
  /\ blocks = [s \in {Program} |-> <<>>]
  /\ judges = <<>>
  /\ elses = <<>>
  /\ tails = <<>>

AddStmt(block, node) == [blocks EXCEPT ![block] = Append(@, node)]

(* What ReadByte has returned goes to ParseLineNode unless the loop of the *)
(* method on top awaits it.                                                *)
Matched(t) == pending # NoNode /\ t = Match[stream[pending]]
InLine(t) == ~Matched(t) /\ (line \/ t \notin Awaited(Top.kind))
InLoop(t) == ~Matched(t) /\ ~line /\ t \in Awaited(Top.kind)

-----------------------------------------------------------------------------
(* ParseLineNode.                                                          *)

ParseLine(t) ==
  /\ InLine(t) /\ t = "line"
  /\ blocks' = AddStmt(Top.block, Here)
  /\ line' = FALSE /\ pending' = NoNode
  /\ UNCHANGED <<frames, judges, elses, tails>>

ParseSkip(t) ==
  /\ InLine(t) /\ t = "skip"
  /\ line' = TRUE /\ pending' = NoNode
  /\ UNCHANGED <<frames, blocks, judges, elses, tails>>

(* The default of the switch: a null statement is added.                   *)
ParseUnknown(t) ==
  /\ InLine(t) /\ t \notin Statements \cup {"skip"}
  /\ blocks' = AddStmt(Top.block, NoNode)
  /\ line' = FALSE /\ pending' = NoNode
  /\ UNCHANGED <<frames, judges, elses, tails>>

(* ParseIf, ParseIfTrue and ParseLoop up to the first ReadByte of their    *)
(* loop.                                                                   *)
Enter(kind) ==
  /\ frames' = Append(frames, Frame(kind, Here, Here))
  /\ blocks' = Added(blocks, Here, <<>>)
  /\ line' = FALSE /\ pending' = NoNode
  /\ UNCHANGED judges

ParseIf(t) ==
  /\ InLine(t) /\ t = "if"
  /\ Enter("if")
  /\ elses' = Added(elses, Here, NoNode)
  /\ UNCHANGED tails

ParseIfTrue(t) ==
  /\ InLine(t) /\ t = "ifTrue"
  /\ Enter("ifTrue")
  /\ elses' = Added(elses, Here, NoNode)
  /\ UNCHANGED tails

ParseLoop(t) ==
  /\ InLine(t) /\ t = "loop"
  /\ Enter("loop")
  /\ tails' = Added(tails, Here, NoNode)
  /\ UNCHANGED elses

(* block is null until the first case.  The stream goes on with a case, so *)
(* no statement is ever added while it is, and the return that guards      *)
(* against that is not taken.                                              *)
ParseJudge(t) ==
  /\ InLine(t) /\ t = "judge"
  /\ frames' = Append(frames, Frame("judge", Here, NoNode))
  /\ judges' = Added(judges, Here, NewJudge)
  /\ line' = FALSE /\ pending' = NoNode
  /\ UNCHANGED <<blocks, elses, tails>>

-----------------------------------------------------------------------------
(* The opcodes a loop awaits.                                              *)

ReadElse(t) ==
  /\ InLoop(t) /\ t = "else"
  /\ frames' = SetTop("else", Here)
  /\ blocks' = Added(blocks, Here, <<>>)
  /\ elses' = [elses EXCEPT ![Top.node] = Here]
  /\ pending' = NoNode
  /\ UNCHANGED <<line, judges, tails>>

(* A case without arguments adds no condition.  (Mutated form: no block is *)
(* made for the case.)                                                     *)
ReadCaseBlockless(t) ==
  /\ InLoop(t) /\ t \in Cases
  /\ judges' = [judges EXCEPT ![Top.node].conditions = Append(@, Here)]
  /\ pending' = NoNode
  /\ UNCHANGED <<frames, line, blocks, elses, tails>>
ReadCase(t) ==
  /\ InLoop(t) /\ t \in Cases
  /\ judges' = IF t = "bareCase" THEN judges
               ELSE [judges EXCEPT ![Top.node].conditions = Append(@, Here)]
  /\ frames' = SetTop("judge", Here)
  /\ blocks' = Added(blocks, Here, <<>>)
  /\ pending' = NoNode
  /\ UNCHANGED <<line, elses, tails>>

(* blocks.push_back(block).  (Mutated form: the block goes to the front.)  *)
PushFront(judge) == <<Top.block>> \o judges[judge].blocks
PushBack(judge) == Append(judges[judge].blocks, Top.block)

(* The block in front of the default is pushed a second time.              *)
ReadDefault(t) ==
  /\ InLoop(t) /\ t = "default"
  /\ judges' = [judges EXCEPT ![Top.node] =
                  [@ EXCEPT !.blocks = PushBack(Top.node), !.default_block = Here]]
  /\ blocks' = Added(blocks, Here, <<>>)
  /\ frames' = SetTop("judge", Here)
  /\ pending' = NoNode
  /\ UNCHANGED <<line, elses, tails>>

ReadEndCase(t) ==
  /\ InLoop(t) /\ t = "endcase"
  /\ judges' = [judges EXCEPT ![Top.node].blocks = PushBack(Top.node)]
  /\ pending' = NoNode
  /\ UNCHANGED <<frames, line, blocks, elses, tails>>

(* The end of a method: its node becomes a statement of the block that the *)
(* method below adds to, once Match has looked at the next token.          *)
(* (Mutated forms: the node is added to the method's own block; the method *)
(* does not return.)                                                       *)
ReturnInside == frames' = Pop /\ blocks' = AddStmt(Top.block, Top.node)
ReturnNever == UNCHANGED <<frames, blocks>>
Return == frames' = Pop /\ blocks' = AddStmt(frames[Len(frames) - 1].block, Top.node)

ReadEnd(t) ==
  /\ InLoop(t) /\ t \in Enders
  /\ pending' = Top.node
  /\ Return
  /\ UNCHANGED <<line, judges, elses, tails>>

(* buf.Match: for a loop the call behind it is its tail.                   *)
ReadMatch(t) ==
  /\ Matched(t)
  /\ tails' = IF stream[pending] = "loop" THEN [tails EXCEPT ![pending] = Here] ELSE tails
  /\ pending' = NoNode
  /\ UNCHANGED <<frames, line, blocks, judges, elses>>

ReadByte(t) ==
  \/ ParseLine(t)
  \/ ParseSkip(t)
  \/ ParseUnknown(t)
  \/ ParseIf(t)
  \/ ParseIfTrue(t)
  \/ ParseLoop(t)
  \/ ParseJudge(t)
  \/ ReadElse(t)
  \/ ReadCase(t)
  \/ ReadDefault(t)
  \/ ReadEndCase(t)
  \/ ReadEnd(t)
  \/ ReadMatch(t)

(* ParseSubCode returns at the end of the stream.                          *)
AtEnd == /\ frames = <<Top>>
         /\ Previous # "skip"
         /\ "noMatch" \in Liberties \/ Previous \notin Enders
Finished == AtEnd /\ UNCHANGED vars

Next ==
  \/ \E t \in Following : ReadByte(t) /\ stream' = Append(stream, t)
  \/ Finished

Spec == Init /\ [][Next]_vars

-----------------------------------------------------------------------------
(* Properties.                                                             *)

(* The calls in progress are nested constructs of the stream, and only     *)
(* what has been read so far is referred to.                               *)
TypeOK ==
  /\ stream \in Seq(Tokens)
  /\ frames \in Seq([kind : Openers \cup {"program", "else"}, node : 0..Len(stream),
                     block : (0..Len(stream)) \cup {NoNode}])
  /\ \A d \in 1..(Len(frames) - 1) : frames[d].node < frames[d + 1].node
  /\ line \in BOOLEAN
  /\ pending \in (1..Len(stream)) \cup {NoNode}
  /\ blocks \in [DOMAIN blocks -> Seq((1..Len(stream)) \cup {NoNode})]
  /\ judges \in [DOMAIN judges -> [conditions : Seq(1..Len(stream)),
                                   blocks : Seq(DOMAIN blocks),
                                   default_block : DOMAIN blocks \cup {NoNode}]]
  /\ elses \in [DOMAIN elses -> DOMAIN blocks \cup {NoNode}]
  /\ tails \in [DOMAIN tails -> (1..Len(stream)) \cup {NoNode}]

(* The C++ stack follows the nesting of the stream: a method is in progress *)
(* for each construct that is open and for no other, and the one on top    *)
(* adds to the block of the section that the stream is in.                 *)
StackIsNest ==
  /\ Len(frames) = Depth(Here) + 1
  /\ Top.node = Owner(Here)
  /\ Top.block = IF Kind(Section(Here)) = "judge" THEN NoNode ELSE Section(Here)
  /\ \A d \in 1..(Len(frames) - 1) : frames[d].node = Owner(frames[d + 1].node)

(* But for null statements, s lists the elements of S, each once, in the   *)
(* order of the stream.                                                    *)
Lists(s, S) ==
  /\ {s[k] : k \in DOMAIN s} \ {NoNode} = S
  /\ \A k, l \in DOMAIN s : k < l /\ s[k] # NoNode /\ s[l] # NoNode => s[k] < s[l]

Complete(i) ==
  \/ stream[i] = "line"
  \/ \E k \in (i + 1)..Len(stream) : stream[k] = End[stream[i]] /\ Owner(k) = i

(* The tree nests as the stream does, whichever closing opcodes are there  *)
(* and whichever opcodes are unknown: the block made for a section holds   *)
(* the complete statements of that section, in order, and nothing else.    *)
ParsedAsNested ==
  LET whole == {i \in 1..Len(stream) : stream[i] \in Statements /\ Complete(i)}
      home  == [i \in whole |-> Section(i)]
  IN
  /\ DOMAIN blocks = {Program} \cup {i \in 1..Len(stream) :
                                      stream[i] \in Sections \ {"judge"}}
  /\ \A s \in DOMAIN blocks : Lists(blocks[s], {i \in whole : home[i] = s})

(* The visitors take blocks[i] of a judge for the block of conditions[i].  *)
(* That is so although the block in front of a default is pushed twice,    *)
(* and every condition of a complete judge has its block.                  *)
JudgePaired ==
  \A j \in DOMAIN judges :
    LET judge == judges[j] IN
    /\ \A k \in DOMAIN judge.conditions \cap DOMAIN judge.blocks :
         judge.blocks[k] = judge.conditions[k]
    /\ Complete(j) => Len(judge.conditions) <= Len(judge.blocks)
=============================================================================
