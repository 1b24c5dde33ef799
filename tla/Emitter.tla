------------------------------- MODULE Emitter -------------------------------
(***************************************************************************)
(* ECompiler (src/src/compiler.h): the visitor that lowers the statements  *)
(* of one sub to LLVM basic blocks.                                        *)
(*                                                                         *)
(* The statements arrive one node at a time in the order the visitor       *)
(* meets them, so a behaviour of this module is one program together with  *)
(* its compilation.  prog records the nodes as the linear token stream the *)
(* e file stores them in; frames is the C++ call stack of visit methods.   *)
(*                                                                         *)
(* Data is abstracted to what control flow and text ownership can tell     *)
(* apart: an expression evaluates to at most one text temporary, and a     *)
(* statement that only computes is one "op" instruction.                   *)
(***************************************************************************)
EXTENDS Integers, Sequences, FiniteSets

CONSTANTS
  LoopKinds,   (* loop commands the program may use                        *)
  Shapes,      (* liberties the program may take, see AllShapes            *)
  RetTypes,    (* result types the sub may declare                         *)
  RetValues,   (* kinds of value a text sub may return                     *)
  TextLocals,  (* number of locals of type SDT_TEXT                        *)
  MaxLen       (* bound: no statement is opened past this length of prog   *)

(* "while" and "times" test before the body, "doWhile" after it; "other"   *)
(* is any library loop command the visitor does not know by name.          *)
AllLoopKinds == {"while", "times", "doWhile", "other"}

(* "branchReturn": a return inside an if or a loop.  "deadCode": other     *)
(* statements behind a return at the top level.  "fallOff": a sub with a   *)
(* result type whose body has no return at the top level.                  *)
AllShapes == {"branchReturn", "deadCode", "fallOff"}

AllRetValues == {"temp", "local", "literal"}

ASSUME LoopKindsAssumption == LoopKinds \subseteq AllLoopKinds
ASSUME ShapesAssumption == Shapes \subseteq AllShapes
ASSUME RetAssumption == /\ RetTypes \subseteq {"void", "int", "text"}
                        /\ RetValues \subseteq AllRetValues
ASSUME TextLocalsAssumption == TextLocals \in Nat
ASSUME MaxLenAssumption == MaxLen \in Nat

VARIABLES
  retType,    (* sub->type                                                 *)
  prog,       (* the nodes visited so far                                  *)
  frames,     (* visit methods in progress, outermost first                *)
  code,       (* instructions of each basic block                          *)
  created,    (* basic blocks created; a block is named by its number      *)
  placed,     (* blocks in the function's block list                       *)
  insert,     (* the builder's insertion block                             *)
  current,    (* ECompiler::current, NoBlock for nullptr                   *)
  hasReturn,  (* ECompiler::hasReturn                                      *)
  frees,      (* ECompiler::frees, the slots of the text temporaries       *)
  phase       (* "visit" until visit(ASTProgram) returns, then "done"      *)

vars == <<retType, prog, frames, code, created, placed, insert, current,
          hasReturn, frees, phase>>

(* A program of MaxLen opening nodes creates at most this many blocks.     *)
MaxBlocks == 1 + 3 * MaxLen
Blocks == 1..MaxBlocks
Entry == 1
NoBlock == 0

-----------------------------------------------------------------------------
(* Instructions.  id is the node an instruction was emitted for, slot the  *)
(* text it touches (a temporary is named by its node, text local l by -l,  *)
(* 0 is no text), yes and no the successors of a branch.                   *)

Instrs == [op : {"op", "new", "free", "br", "condbr", "ret"}, id : Nat,
           slot : Int, yes : Blocks \cup {NoBlock}, no : Blocks \cup {NoBlock}]

Instr(op, i, s) == [op |-> op, id |-> i, slot |-> s,
                    yes |-> NoBlock, no |-> NoBlock]
Op(i) == Instr("op", i, 0)
New(i, s) == Instr("new", i, s)
Free(i, s) == Instr("free", i, s)
Ret(i, s) == Instr("ret", i, s)
(* (Mutated forms of CondBr: the edges swapped; both edges alike.)         *)
CondBrSwapped(i, b, c) ==
  [op |-> "condbr", id |-> i, slot |-> 0, yes |-> c, no |-> b]
CondBrAlike(i, b, c) ==
  [op |-> "condbr", id |-> i, slot |-> 0, yes |-> b, no |-> b]
CondBr(i, b, c) == [op |-> "condbr", id |-> i, slot |-> 0, yes |-> b, no |-> c]
Br(i, b) == [op |-> "br", id |-> i, slot |-> 0, yes |-> b, no |-> b]

IsTerminator(ins) == ins.op \in {"br", "condbr", "ret"}

(* The number of the node being visited.                                   *)
Here == Len(prog) + 1

(* c with the instructions s at the end of block b.                        *)
Emit(c, b, s) == [c EXCEPT ![b] = @ \o s]

(* Branching from the insertion point to b.  (Mutated form: no branch.)    *)
JumpToMissing(b) == code
JumpTo(b) == Emit(code, insert, <<Br(Here, b)>>)

(* PushFree: a call that returns a text stores it in a fresh alloca at the *)
(* insertion point and queues the alloca in frees.  m is the number of     *)
(* such calls in the expression being evaluated, 0 or 1.  (Mutated forms:  *)
(* the expression is evaluated twice; the alloca is queued twice.)         *)
EvalTwice(i, m) == IF m = 1 THEN <<New(i, i), New(i, i)>> ELSE <<>>
PushFreeTwice(i, m) == IF m = 1 THEN frees \o <<i, i>> ELSE frees
Eval(i, m) == IF m = 1 THEN <<New(i, i)>> ELSE <<>>
PushFree(i, m) == IF m = 1 THEN Append(frees, i) ELSE frees

-----------------------------------------------------------------------------
(* Frames and tokens.                                                      *)

FrameKinds == {"then", "else"} \cup AllLoopKinds

Frame == [kind : FrameKinds, at : Nat, cond : Blocks \cup {NoBlock},
          body : Blocks, els : Blocks \cup {NoBlock}, leave : Blocks,
          before : Blocks \cup {NoBlock}]

Top == frames[Len(frames)]
Pop == SubSeq(frames, 1, Len(frames) - 1)

Token == [tok : {"op", "if", "else", "endif", "ret", "endloop"} \cup AllLoopKinds,
          at : Nat]

Visited(tok, at) == Append(prog, [tok |-> tok, at |-> at])

(* The end of an if or loop: the builder goes on in leave, which is placed  *)
(* together with the blocks more, and current is what it was before.       *)
(* (Mutated forms: leave is not placed; more is not placed; current is not *)
(* restored.)                                                              *)
RejoinUnplaced(more) ==
  /\ placed' = placed \cup more
  /\ insert' = Top.leave
  /\ current' = Top.before
  /\ frames' = Pop
RejoinAlone(more) ==
  /\ placed' = placed \cup {Top.leave}
  /\ insert' = Top.leave
  /\ current' = Top.before
  /\ frames' = Pop
RejoinInside(more) ==
  /\ placed' = placed \cup more \cup {Top.leave}
  /\ insert' = Top.leave
  /\ current' = current
  /\ frames' = Pop
Rejoin(more) ==
  /\ placed' = placed \cup more \cup {Top.leave}
  /\ insert' = Top.leave
  /\ current' = Top.before
  /\ frames' = Pop

-----------------------------------------------------------------------------
(* The constructor: the entry block allocates the locals, and              *)
(* LocalValueInit calls String_Init on each text local.                    *)
InitLocals == [l \in 1..TextLocals |-> New(0, -l)]

Init ==
  /\ retType \in RetTypes
  /\ prog = <<>>
  /\ frames = <<>>
  /\ code = [b \in Blocks |-> IF b = Entry THEN InitLocals ELSE <<>>]
  /\ created = 1
  /\ placed = {Entry}
  /\ insert = Entry
  /\ current = NoBlock
  /\ hasReturn = FALSE
  /\ frees = <<>>
  /\ phase = "visit"

(* The programs admitted: which nodes may follow in the token stream.      *)
MayOpen ==
  /\ phase = "visit"
  /\ Len(prog) < MaxLen
  /\ hasReturn => "deadCode" \in Shapes

MayReturn ==
  /\ phase = "visit"
  /\ frames # <<>> => "branchReturn" \in Shapes
  /\ hasReturn => "deadCode" \in Shapes
  /\ Len(prog) < MaxLen \/ (frames = <<>> /\ ~hasReturn)

-----------------------------------------------------------------------------
(* visit(ASTFunCall) for an assignment or a call: code at the insertion    *)
(* point.                                                                  *)
Statement(m) ==
  /\ MayOpen
  /\ code' = Emit(code, insert, Eval(Here, m) \o <<Op(Here)>>)
  /\ frees' = PushFree(Here, m)
  /\ prog' = Visited("op", Here)
  /\ UNCHANGED <<retType, frames, created, placed, insert, current, hasReturn,
                 phase>>

(* visit(ASTIfStmt) up to the visit of then_block.  Without an else the    *)
(* false edge goes straight to leave.                                      *)
EnterIf(hasElse, m) ==
  LET leave == created + 1
      then  == created + 2
      els   == IF hasElse THEN created + 3 ELSE leave
  IN
  /\ MayOpen
  /\ code' = Emit(code, insert, Eval(Here, m) \o <<CondBr(Here, then, els)>>)
  /\ frees' = PushFree(Here, m)
  /\ created' = IF hasElse THEN created + 3 ELSE created + 2
  /\ placed' = placed \cup {then}
  /\ insert' = then
  /\ current' = then
  /\ frames' = Append(frames, [kind |-> "then", at |-> Here, cond |-> NoBlock,
                               body |-> then, els |-> els, leave |-> leave,
                               before |-> current])
  /\ prog' = Visited("if", Here)
  /\ UNCHANGED <<retType, hasReturn, phase>>

(* visit(ASTIfStmt) between the visits of then_block and else_block.       *)
EnterElse ==
  /\ phase = "visit"
  /\ frames # <<>>
  /\ Top.kind = "then"
  /\ Top.els # Top.leave
  /\ code' = JumpTo(Top.leave)
  /\ placed' = placed \cup {Top.els}
  /\ insert' = Top.els
  /\ current' = Top.els
  /\ frames' = [frames EXCEPT ![Len(frames)].kind = "else"]
  /\ prog' = Visited("else", Top.at)
  /\ UNCHANGED <<retType, created, hasReturn, frees, phase>>

(* visit(ASTIfStmt) from the last branch to leave to its end.              *)
EndIf ==
  /\ phase = "visit"
  /\ frames # <<>>
  /\ Top.kind = "else" \/ (Top.kind = "then" /\ Top.els = Top.leave)
  /\ code' = JumpTo(Top.leave)
  /\ Rejoin({})
  /\ prog' = Visited("endif", Top.at)
  /\ UNCHANGED <<retType, created, hasReturn, frees, phase>>

(* visit(ASTLoop) up to the visit of the body, for a loop that tests       *)
(* first: the insertion block branches to cond, which evaluates the        *)
(* condition.                                                              *)
EnterTestedLoop(kind, m) ==
  LET cond  == created + 1
      loop  == created + 2
      leave == created + 3
  IN
  /\ MayOpen
  /\ kind \in LoopKinds \cap {"while", "times"}
  /\ code' = Emit(JumpTo(cond), cond,
                  Eval(Here, m) \o <<CondBr(Here, loop, leave)>>)
  /\ frees' = PushFree(Here, m)
  /\ created' = created + 3
  /\ placed' = placed \cup {cond, loop}
  /\ insert' = loop
  /\ current' = leave
  /\ frames' = Append(frames, [kind |-> kind, at |-> Here, cond |-> cond,
                               body |-> loop, els |-> NoBlock, leave |-> leave,
                               before |-> current])
  /\ prog' = Visited(kind, Here)
  /\ UNCHANGED <<retType, hasReturn, phase>>

(* The same for a loop that tests last, or whose command has another name: *)
(* no branch of the switch emits anything, so nothing ends the insertion   *)
(* block before the builder moves on to loop.                              *)
EnterOtherLoop(kind) ==
  LET cond  == created + 1
      loop  == created + 2
      leave == created + 3
  IN
  /\ MayOpen
  /\ kind \in LoopKinds \cap {"doWhile", "other"}
  /\ created' = created + 3
  /\ placed' = placed \cup {loop}
  /\ insert' = loop
  /\ current' = leave
  /\ frames' = Append(frames, [kind |-> kind, at |-> Here, cond |-> cond,
                               body |-> loop, els |-> NoBlock, leave |-> leave,
                               before |-> current])
  /\ prog' = Visited(kind, Here)
  /\ UNCHANGED <<retType, code, hasReturn, frees, phase>>

(* visit(ASTLoop) from the branch back to cond to its end.  Only for       *)
(* "doWhile" is cond placed here, with the condition of the loop's tail.   *)
EndLoop(m) ==
  /\ phase = "visit"
  /\ frames # <<>>
  /\ Top.kind \in AllLoopKinds
  /\ IF Top.kind = "doWhile"
     THEN /\ code' = Emit(JumpTo(Top.cond), Top.cond,
                          Eval(Here, m) \o <<CondBr(Here, Top.body, Top.leave)>>)
          /\ Rejoin({Top.cond})
     ELSE /\ m = 0
          /\ code' = JumpTo(Top.cond)
          /\ Rejoin({})
  /\ frees' = PushFree(Here, m)
  /\ prog' = Visited("endloop", Top.at)
  /\ UNCHANGED <<retType, created, hasReturn, phase>>

-----------------------------------------------------------------------------
(* Return(value).  value is "none" (the default argument), "scalar", or    *)
(* for a text sub the temporary the argument evaluated to, its first text  *)
(* local, or a literal (TypeCast then creates one more temporary, after    *)
(* the loop over frees).                                                   *)

ValueSlot(v) == CASE v \in {"temp", "literal"} -> Here
                  [] v = "local" -> -1
                  [] OTHER -> 0

(* String_Free for each text in queue and for each text local.             *)
FreeTexts(queue) == [k \in 1..Len(queue) |-> Free(Here, queue[k])]
                      \o [l \in 1..TextLocals |-> Free(Here, -l)]

(* Without a value only a sub without result type gets its ret.            *)
RetInstr(v) ==
  CASE v = "none"    -> IF retType = "void" THEN <<Ret(Here, 0)>> ELSE <<>>
    [] v = "literal" -> <<New(Here, Here), Ret(Here, Here)>>
    [] OTHER         -> <<Ret(Here, ValueSlot(v))>>

(* The loop over frees skips the returned temporary, which is its newest    *)
(* entry: the texts released are those queued before it.  (Mutated forms:  *)
(* the returned temporary is released too; the value is loaded, and the    *)
(* sub left, before the texts are released.)                               *)
ReturnCodeAll(v) ==
  Eval(Here, IF v = "temp" THEN 1 ELSE 0)
    \o FreeTexts(PushFree(Here, IF v = "temp" THEN 1 ELSE 0)) \o RetInstr(v)
ReturnCodeFirst(v) ==
  Eval(Here, IF v = "temp" THEN 1 ELSE 0) \o RetInstr(v)
ReturnCode(v) ==
  Eval(Here, IF v = "temp" THEN 1 ELSE 0) \o FreeTexts(frees) \o RetInstr(v)

(* (Mutated forms: hasReturn is never set; a return anywhere sets it.)     *)
ReturnUnseen(v) ==
  /\ code' = Emit(code, insert, ReturnCode(v))
  /\ frees' = PushFree(Here, IF v \in {"temp", "literal"} THEN 1 ELSE 0)
  /\ hasReturn' = hasReturn
ReturnAnywhere(v) ==
  /\ code' = Emit(code, insert, ReturnCode(v))
  /\ frees' = PushFree(Here, IF v \in {"temp", "literal"} THEN 1 ELSE 0)
  /\ hasReturn' = TRUE
Return(v) ==
  /\ code' = Emit(code, insert, ReturnCode(v))
  /\ frees' = PushFree(Here, IF v \in {"temp", "literal"} THEN 1 ELSE 0)
  /\ hasReturn' = (hasReturn \/ current = NoBlock)

ValuesOf == CASE retType = "void" -> {"none"}
              [] retType = "int"  -> {"scalar"}
              [] OTHER            -> RetValues \ (IF TextLocals = 0 THEN {"local"} ELSE {})

(* visit(ASTFunCall) for the return command.                               *)
ReturnStatement(v) ==
  /\ MayReturn
  /\ v \in ValuesOf
  /\ Return(v)
  /\ prog' = Visited("ret", Here)
  /\ UNCHANGED <<retType, frames, created, placed, insert, current, phase>>

(* The end of visit(ASTProgram): a sub that has not returned at the top    *)
(* level returns without a value.                                          *)
Finish ==
  /\ phase = "visit"
  /\ frames = <<>>
  /\ retType = "void" \/ hasReturn \/ "fallOff" \in Shapes
  /\ IF hasReturn THEN UNCHANGED <<code, frees, hasReturn>> ELSE Return("none")
  /\ phase' = "done"
  /\ UNCHANGED <<retType, prog, frames, created, placed, insert, current>>

(* The compiler goes on to the next sub.                                   *)
Terminated == phase = "done" /\ UNCHANGED vars

Step ==
  \/ \E m \in 0..1 : Statement(m)
  \/ \E hasElse \in BOOLEAN, m \in 0..1 : EnterIf(hasElse, m)
  \/ EnterElse
  \/ EndIf
  \/ \E kind \in LoopKinds, m \in 0..1 : EnterTestedLoop(kind, m)
  \/ \E kind \in LoopKinds : EnterOtherLoop(kind)
  \/ \E m \in 0..1 : EndLoop(m)
  \/ \E v \in {"none", "scalar"} \cup RetValues : ReturnStatement(v)
  \/ Finish

Next == Step \/ Terminated

Spec == Init /\ [][Next]_vars

-----------------------------------------------------------------------------
(* Properties.                                                             *)

(* The builder always inserts into a block of the function, and every      *)
(* block is created before it is placed: nothing is emitted into a block   *)
(* that LLVM will drop.                                                    *)
TypeOK ==
  /\ retType \in RetTypes
  /\ prog \in Seq(Token)
  /\ frames \in Seq(Frame)
  /\ code \in [Blocks -> Seq(Instrs)]
  /\ created \in Blocks
  /\ created <= 1 + 3 * Len(prog)
  /\ placed \subseteq 1..created
  /\ insert \in placed
  /\ current \in Blocks \cup {NoBlock}
  /\ hasReturn \in BOOLEAN
  /\ frees \in Seq(Nat)
  /\ phase \in {"visit", "done"}

(* visit(ASTIfStmt) and visit(ASTLoop) save current in a C++ local and put *)
(* it back: whatever was compiled in between, current is the block of the  *)
(* innermost if or loop in progress, and is null exactly at the top level, *)
(* which is what Return tests before it sets hasReturn.                    *)
BlockOf(f) == CASE f.kind = "then" -> f.body
                [] f.kind = "else" -> f.els
                [] OTHER           -> f.leave

CurrentIsInnermost ==
  current = IF frames = <<>> THEN NoBlock ELSE BlockOf(Top)

(* How many ifs and loops enclose position i of the token stream.          *)
Depth(i) ==
  LET Opens(k)  == prog[k].tok \in {"if"} \cup AllLoopKinds
      Closes(k) == prog[k].tok \in {"endif", "endloop"}
  IN  Cardinality({k \in 1..(i - 1) : Opens(k)})
        - Cardinality({k \in 1..(i - 1) : Closes(k)})

(* hasReturn tells visit(ASTProgram) whether the body can fall off its end *)
(* without a return, so it may be set only by a return that no if or loop  *)
(* encloses, and by every such return, however the others are nested.      *)
ReturnSeen ==
  phase = "visit" =>
    (hasReturn <=> \E i \in 1..Len(prog) : prog[i].tok = "ret" /\ Depth(i) = 0)

(* Where the IR is put together.  A block is closed when its last          *)
(* instruction, and no other, is a terminator.                             *)
EndsInTerminator(b) == code[b] # <<>> /\ IsTerminator(code[b][Len(code[b])])

(* The builder never moves on from a block it has not ended with a branch, *)
(* whatever returns the program makes on the way: only the insertion block *)
(* may lack its terminator.                                                *)
ClosedBehind == \A b \in placed \ {insert} : EndsInTerminator(b)

(* No block has code behind a terminator, so no statement and no release   *)
(* of a text is emitted where it cannot run.                               *)
OneTerminator ==
  \A b \in 1..created : \A i \in 1..(Len(code[b]) - 1) : ~IsTerminator(code[b][i])

Targets(b) ==
  {c \in Blocks : \E i \in 1..Len(code[b]) : c \in {code[b][i].yes, code[b][i].no}}

(* When the sub is compiled every branch leads to a block of the function, *)
(* and none back to its entry block.                                       *)
TargetsPlaced ==
  phase = "done" => \A b \in placed : Targets(b) \subseteq placed \ {Entry}

(* What verifyModule asks of the control flow of a compiled sub: every     *)
(* block ends in its only terminator and branches stay in the function.    *)
WellFormed ==
  /\ phase = "done" => \A b \in placed : EndsInTerminator(b)
  /\ phase = "done" => OneTerminator
  /\ TargetsPlaced
=============================================================================
