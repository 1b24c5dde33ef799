---------------------------- MODULE EmitterProofs ----------------------------
(***************************************************************************)
(* Theorems about Emitter, for subs of any length: every program that      *)
(* Emitter admits, any number of text locals, any bound MaxLen: types, and *)
(* the control flow that is emitted, which is the block saved in current,  *)
(* the ends of blocks, the targets of branches, and that the blocks are    *)
(* well formed when the sub is compiled.                                   *)
(***************************************************************************)
EXTENDS Emitter, SequenceTheorems, FiniteSetTheorems, TLAPS

-----------------------------------------------------------------------------
(* Sequences of instructions and frames.                                   *)

(* A prefix of a sequence.                                                 *)
LEMMA Prefix ==
  ASSUME NEW S, NEW s \in Seq(S), NEW k \in Nat, k <= Len(s)
  PROVE  /\ SubSeq(s, 1, k) \in Seq(S)
         /\ Len(SubSeq(s, 1, k)) = k
         /\ \A i \in 1..k : SubSeq(s, 1, k)[i] = s[i]
OBVIOUS

(* The frames that remain when the top one is popped.                      *)
LEMMA PopFrames ==
  ASSUME frames \in Seq(Frame), frames # <<>>
  PROVE  /\ Top \in Frame
         /\ Len(frames) \in 1..Len(frames)
         /\ Pop \in Seq(Frame)
         /\ Len(Pop) = Len(frames) - 1
         /\ \A i \in 1..(Len(frames) - 1) : Pop[i] = frames[i]
<1> DEFINE n == Len(frames)
<1>1. n \in Nat \ {0} /\ \A i \in 1..n : frames[i] \in Frame
  BY EmptySeq, ElementOfSeq
<1> HIDE DEF n
<1>2. n \in 1..n /\ \A i \in 1..(n - 1) : frames[i] \in Frame
  BY <1>1
<1>3. n - 1 \in Nat /\ n - 1 <= Len(frames)
  BY <1>1 DEF n
<1>4. /\ SubSeq(frames, 1, n - 1) \in Seq(Frame)
      /\ Len(SubSeq(frames, 1, n - 1)) = n - 1
      /\ \A i \in 1..(n - 1) : SubSeq(frames, 1, n - 1)[i] = frames[i]
  BY <1>3, Prefix
<1> QED
  BY <1>1, <1>2, <1>4 DEF Top, Pop, n

(* What visit(ASTIfStmt) changes in its frame when it enters the else.     *)
LEMMA ElseFrames ==
  ASSUME frames \in Seq(Frame), frames # <<>>,
         NEW fs, fs = [frames EXCEPT ![Len(frames)].kind = "else"]
  PROVE  /\ fs \in Seq(Frame)
         /\ Len(fs) = Len(frames)
         /\ \A i \in 1..(Len(frames) - 1) : fs[i] = frames[i]
         /\ fs[Len(frames)] = [Top EXCEPT !.kind = "else"]
         /\ Top \in Frame
<1>1. Len(frames) \in 1..Len(frames) /\ Top \in Frame
  BY DEF Top
<1>2. [Top EXCEPT !.kind = "else"] \in Frame
  BY <1>1 DEF Frame, FrameKinds
<1>3. fs = [frames EXCEPT ![Len(frames)] = [Top EXCEPT !.kind = "else"]]
  BY DEF Top
<1> QED
  BY <1>1, <1>2, <1>3

(* Every instruction the visitor builds is an instruction.                 *)
LEMMA InstrTypes ==
  ASSUME NEW i \in Nat, NEW s \in Int
  PROVE  /\ New(i, s) \in Instrs
         /\ Free(i, s) \in Instrs /\ Ret(i, s) \in Instrs
BY DEF Instrs, Instr, New, Free, Ret, NoBlock

LEMMA OpTypes == ASSUME NEW i \in Nat PROVE Op(i) \in Instrs
BY DEF Instrs, Instr, Op, NoBlock

LEMMA BranchTypes ==
  ASSUME NEW i \in Nat,
         NEW b \in Blocks \cup {NoBlock}, NEW c \in Blocks \cup {NoBlock}
  PROVE  CondBr(i, b, c) \in Instrs /\ Br(i, b) \in Instrs
BY DEF Instrs, CondBr, Br

LEMMA EvalTypes ==
  ASSUME TypeOK, NEW i \in Nat, NEW m \in 0..1
  PROVE  Eval(i, m) \in Seq(Instrs) /\ PushFree(i, m) \in Seq(Nat)
<1>1. New(i, i) \in Instrs
  BY InstrTypes
<1> QED
  BY <1>1 DEF Eval, PushFree, TypeOK

(* Where the visitor is.                                                   *)
LEMMA HereTypes ==
  ASSUME TypeOK
  PROVE  /\ Here \in Nat /\ insert \in Blocks /\ insert \in placed
         /\ created \in Nat \ {0} /\ placed \subseteq 1..created
         /\ Len(prog) \in Nat /\ placed \subseteq Blocks
<1>1. MaxBlocks \in Nat /\ Len(prog) \in Nat
  BY MaxLenAssumption DEF TypeOK, MaxBlocks
<1>2. created \in 1..MaxBlocks /\ placed \subseteq 1..created /\ insert \in placed
  BY DEF TypeOK, Blocks
<1>3. placed \subseteq Blocks /\ insert \in Blocks
  BY <1>1, <1>2 DEF Blocks
<1> QED
  BY <1>1, <1>2, <1>3 DEF Here

LEMMA BlocksFacts ==
  /\ MaxBlocks \in Nat /\ Blocks \subseteq Nat \ {0}
  /\ Entry \in Blocks /\ NoBlock \notin Blocks
BY MaxLenAssumption DEF MaxBlocks, Blocks, Entry, NoBlock

(* Emitting keeps the shape of code and touches one block.                 *)
LEMMA EmitTypes ==
  ASSUME NEW c \in [Blocks -> Seq(Instrs)], NEW b \in Blocks,
         NEW s \in Seq(Instrs)
  PROVE  /\ Emit(c, b, s) \in [Blocks -> Seq(Instrs)]
         /\ Emit(c, b, s)[b] = c[b] \o s
         /\ \A d \in Blocks \ {b} : Emit(c, b, s)[d] = c[d]
BY DEF Emit

-----------------------------------------------------------------------------
(* Types.  TypeOK is not inductive: an if or loop that ends places the     *)
(* blocks its frame names and restores the current it saved.  FrameOK says *)
(* what a frame f promises of them when the blocks P are placed and c      *)
(* blocks have been created.                                               *)
FrameOK(f, P, c) ==
  /\ f.kind \in {"then", "else"} \cup LoopKinds
  /\ f.leave \in 2..c
  /\ f.body \in P \ {Entry}
  /\ f.kind \in {"then", "else"} => f.els \in 2..c
  /\ f.kind \in AllLoopKinds => f.cond \in 2..c
  /\ f.kind \in {"while", "times"} => f.cond \in P

FramesOK == \A i \in 1..Len(frames) : FrameOK(frames[i], placed, created)

TypeInv == TypeOK /\ FramesOK

(* A frame stays good when more blocks are created and placed.             *)
LEMMA FrameGrows ==
  ASSUME NEW f, NEW P, NEW Q, NEW c \in Nat, NEW d \in Nat,
         FrameOK(f, P, c), P \subseteq Q, c <= d
  PROVE  FrameOK(f, Q, d)
BY DEF FrameOK

(* One more if or loop in progress.                                        *)
LEMMA PushedFrames ==
  ASSUME NEW fs \in Seq(Frame), NEW f \in Frame, NEW P, NEW Q,
         NEW c \in Nat, NEW d \in Nat, P \subseteq Q, c <= d,
         \A i \in 1..Len(fs) : FrameOK(fs[i], P, c), FrameOK(f, Q, d)
  PROVE  /\ Append(fs, f) \in Seq(Frame)
         /\ \A i \in 1..Len(Append(fs, f)) : FrameOK(Append(fs, f)[i], Q, d)
<1>1. /\ Append(fs, f) \in Seq(Frame)
      /\ Len(Append(fs, f)) = Len(fs) + 1
      /\ \A i \in 1..Len(fs) : Append(fs, f)[i] = fs[i]
      /\ Append(fs, f)[Len(fs) + 1] = f
  BY AppendProperties
<1>2. \A i \in 1..Len(fs) : FrameOK(fs[i], Q, d)
  BY FrameGrows
<1> QED
  BY <1>1, <1>2, LenProperties

(* The instructions of a statement, of a return.                           *)
LEMMA ReturnTypes ==
  ASSUME TypeOK, NEW v \in {"none", "scalar"} \cup AllRetValues
  PROVE  /\ ReturnCode(v) \in Seq(Instrs)
         /\ PushFree(Here, IF v \in {"temp", "literal"} THEN 1 ELSE 0) \in Seq(Nat)
<1>1. Here \in Nat /\ frees \in Seq(Nat)
  BY DEF TypeOK, Here
<1>2. FreeTexts(frees) \in Seq(Instrs)
  <2>1. \A k \in 1..Len(frees) : Free(Here, frees[k]) \in Instrs
    <3> SUFFICES ASSUME NEW k \in 1..Len(frees)
                 PROVE  Free(Here, frees[k]) \in Instrs
      OBVIOUS
    <3>1. frees[k] \in Int
      BY <1>1, ElementOfSeq
    <3> QED
      BY <1>1, <3>1, InstrTypes
  <2>2. \A l \in 1..TextLocals : Free(Here, -l) \in Instrs
    BY <1>1, TextLocalsAssumption, InstrTypes
  <2>3. [k \in 1..Len(frees) |-> Free(Here, frees[k])] \in Seq(Instrs)
    BY <1>1, <2>1, LenProperties
  <2>4. [l \in 1..TextLocals |-> Free(Here, -l)] \in Seq(Instrs)
    BY <2>2, TextLocalsAssumption
  <2> QED
    BY <2>3, <2>4, ConcatProperties DEF FreeTexts
<1>3. RetInstr(v) \in Seq(Instrs)
  <2>1. ValueSlot(v) \in Int
    BY <1>1 DEF ValueSlot
  <2>2. /\ Ret(Here, 0) \in Instrs /\ New(Here, Here) \in Instrs
        /\ Ret(Here, Here) \in Instrs /\ Ret(Here, ValueSlot(v)) \in Instrs
    BY <1>1, <2>1, InstrTypes
  <2> QED
    BY <2>2 DEF RetInstr, AllRetValues
<1>4. Eval(Here, IF v = "temp" THEN 1 ELSE 0) \in Seq(Instrs)
  <2>1. (IF v = "temp" THEN 1 ELSE 0) \in 0..1
    OBVIOUS
  <2> QED
    BY <1>1, <2>1, EvalTypes
<1>5. ReturnCode(v) \in Seq(Instrs)
  BY <1>2, <1>3, <1>4, ConcatProperties DEF ReturnCode
<1>6. PushFree(Here, IF v \in {"temp", "literal"} THEN 1 ELSE 0) \in Seq(Nat)
  <2>1. (IF v \in {"temp", "literal"} THEN 1 ELSE 0) \in 0..1
    OBVIOUS
  <2> QED
    BY <1>1, <2>1, EvalTypes
<1> QED
  BY <1>5, <1>6

(* The token a visit appends.                                              *)
LEMMA VisitedTypes ==
  ASSUME TypeOK, NEW t, NEW i \in Nat,
         t \in {"op", "if", "else", "endif", "ret", "endloop"} \cup AllLoopKinds
  PROVE  Visited(t, i) \in Seq(Token) /\ Len(Visited(t, i)) = Len(prog) + 1
<1>1. [tok |-> t, at |-> i] \in Token
  BY DEF Token
<1> QED
  BY <1>1, AppendProperties DEF Visited, TypeOK

(* A program still short enough to open a node leaves room for its blocks. *)
LEMMA RoomForBlocks ==
  ASSUME TypeOK, MayOpen
  PROVE  /\ created + 1 \in Blocks /\ created + 2 \in Blocks
         /\ created + 3 \in Blocks
         /\ created + 3 <= 1 + 3 * (Len(prog) + 1)
<1>1. Len(prog) \in Nat /\ Len(prog) + 1 <= MaxLen
  BY HereTypes, MaxLenAssumption DEF MayOpen
<1>2. created \in Nat /\ created >= 1 /\ created <= 1 + 3 * Len(prog)
  BY HereTypes DEF TypeOK
<1> QED
  BY <1>1, <1>2, MaxLenAssumption DEF Blocks, MaxBlocks

LEMMA TypeInit == Init => TypeInv
<1> SUFFICES ASSUME Init PROVE TypeInv
  OBVIOUS
<1>1. InitLocals \in Seq(Instrs)
  <2>1. \A l \in 1..TextLocals : New(0, -l) \in Instrs
    BY TextLocalsAssumption, InstrTypes
  <2> QED
    BY <2>1, TextLocalsAssumption DEF InitLocals
<1>2. code \in [Blocks -> Seq(Instrs)]
  BY <1>1, EmptySeq DEF Init
<1>3. frames = <<>> /\ prog = <<>> /\ frees = <<>>
  BY DEF Init
<1>4. /\ prog \in Seq(Token) /\ frames \in Seq(Frame) /\ frees \in Seq(Nat)
      /\ Len(prog) = 0 /\ Len(frames) = 0
  BY <1>3, EmptySeq
<1>5. created \in Blocks /\ created <= 1 + 3 * Len(prog) /\ placed \subseteq 1..created
  BY <1>4, BlocksFacts DEF Init, Entry
<1>6. FramesOK
  BY <1>4 DEF FramesOK
<1> QED
  BY <1>2, <1>4, <1>5, <1>6 DEF Init, TypeInv, TypeOK

(* One lemma per action.                                                   *)
LEMMA TypeStatement ==
  ASSUME TypeInv, NEW m \in 0..1, Statement(m)
  PROVE  TypeInv'
<1>1. TypeOK /\ Here \in Nat /\ insert \in Blocks
  BY HereTypes DEF TypeInv
<1>2. Eval(Here, m) \o <<Op(Here)>> \in Seq(Instrs)
  <2>1. Op(Here) \in Instrs /\ Eval(Here, m) \in Seq(Instrs)
    BY <1>1, OpTypes, EvalTypes
  <2> QED
    BY <2>1
<1>3. code' \in [Blocks -> Seq(Instrs)] /\ frees' \in Seq(Nat)
  BY <1>1, <1>2, EmitTypes, EvalTypes DEF Statement, TypeOK
<1>4. prog' \in Seq(Token) /\ Len(prog') = Len(prog) + 1
  BY <1>1, VisitedTypes DEF Statement
<1>5. created' <= 1 + 3 * Len(prog')
  BY <1>1, <1>4, HereTypes DEF Statement, TypeOK
<1> QED
  BY <1>3, <1>4, <1>5 DEF Statement, TypeInv, TypeOK, FramesOK

LEMMA TypeEnterIf ==
  ASSUME TypeInv, NEW hasElse \in BOOLEAN, NEW m \in 0..1, EnterIf(hasElse, m)
  PROVE  TypeInv'
<1> DEFINE leave == created + 1
           then  == created + 2
           els   == IF hasElse THEN created + 3 ELSE leave
           f == [kind |-> "then", at |-> Here, cond |-> NoBlock, body |-> then,
                 els |-> els, leave |-> leave, before |-> current]
           s == Eval(Here, m) \o <<CondBr(Here, then, els)>>
<1>1. /\ TypeOK /\ MayOpen /\ Here \in Nat /\ insert \in Blocks
      /\ created \in Nat \ {0} /\ placed \subseteq 1..created
  BY HereTypes DEF TypeInv, EnterIf
<1>2. /\ created' \in Blocks /\ created <= created'
      /\ leave \in Blocks /\ then \in Blocks /\ els \in Blocks
      /\ then \in 2..created' /\ leave \in 2..created' /\ els \in 2..created'
      /\ created' <= created + 3
  BY <1>1, RoomForBlocks DEF EnterIf
<1>3. s \in Seq(Instrs)
  <2>1. CondBr(Here, then, els) \in Instrs /\ Eval(Here, m) \in Seq(Instrs)
    BY <1>1, <1>2, BranchTypes, EvalTypes
  <2> QED
    BY <2>1
<1>4. code' \in [Blocks -> Seq(Instrs)] /\ frees' \in Seq(Nat)
  BY <1>1, <1>3, EmitTypes, EvalTypes DEF EnterIf, TypeOK
<1>5. /\ prog' \in Seq(Token) /\ Len(prog') = Len(prog) + 1
      /\ created' <= 1 + 3 * Len(prog')
  BY <1>1, <1>2, VisitedTypes, RoomForBlocks, HereTypes DEF EnterIf
<1>6. f \in Frame /\ FrameOK(f, placed', created')
  BY <1>1, <1>2 DEF TypeOK, EnterIf, Frame, FrameKinds, FrameOK, AllLoopKinds, Entry
<1>7. frames' \in Seq(Frame) /\ FramesOK'
  <2>1. frames' = Append(frames, f) /\ placed \subseteq placed'
    BY DEF EnterIf
  <2>2. created \in Nat /\ created' \in Nat
    BY <1>1, <1>2, BlocksFacts
  <2> HIDE DEF f
  <2> QED
    BY <1>1, <1>2, <1>6, <2>1, <2>2, PushedFrames DEF TypeInv, TypeOK, FramesOK
<1>8. placed' \subseteq 1..created' /\ insert' \in placed' /\ current' \in Blocks
  BY <1>1, <1>2 DEF EnterIf
<1> QED
  BY <1>1, <1>2, <1>4, <1>5, <1>7, <1>8 DEF EnterIf, TypeInv, TypeOK

(* Branching from the insertion block.                                     *)
LEMMA JumpTypes ==
  ASSUME TypeOK, NEW b \in Blocks
  PROVE  JumpTo(b) \in [Blocks -> Seq(Instrs)]
<1>1. Br(Here, b) \in Instrs
  BY HereTypes, BranchTypes
<1>2. <<Br(Here, b)>> \in Seq(Instrs)
  BY <1>1
<1> QED
  BY <1>2, HereTypes, EmitTypes DEF JumpTo, TypeOK

(* The if or loop in progress and those around it.                         *)
LEMMA TopTypes ==
  ASSUME TypeInv, frames # <<>>
  PROVE  /\ Top \in Frame /\ FrameOK(Top, placed, created)
         /\ Pop \in Seq(Frame) /\ Len(Pop) = Len(frames) - 1
         /\ Len(frames) \in Nat \ {0}
         /\ \A i \in 1..Len(Pop) : Pop[i] = frames[i] /\ FrameOK(Pop[i], placed, created)
         /\ Top.leave \in Blocks /\ Top.body \in Blocks
         /\ Top.kind \in {"then", "else"} => Top.els \in Blocks
         /\ Top.kind \in AllLoopKinds => Top.cond \in Blocks
<1>1. frames \in Seq(Frame)
  BY DEF TypeInv, TypeOK
<1>2. /\ Top \in Frame /\ Len(frames) \in 1..Len(frames)
      /\ Pop \in Seq(Frame) /\ Len(Pop) = Len(frames) - 1
      /\ \A i \in 1..(Len(frames) - 1) : Pop[i] = frames[i]
  BY <1>1, PopFrames
<1>3. FrameOK(Top, placed, created)
  BY <1>2 DEF TypeInv, FramesOK, Top
<1>4. \A i \in 1..Len(Pop) : Pop[i] = frames[i] /\ FrameOK(Pop[i], placed, created)
  BY <1>1, <1>2 DEF TypeInv, FramesOK
<1>5. \A b \in 2..created : b \in Blocks
  BY MaxLenAssumption DEF TypeInv, TypeOK, Blocks, MaxBlocks
<1>6. Top.body \in Blocks
  BY <1>2 DEF Frame
<1> QED
  BY <1>1, <1>2, <1>3, <1>4, <1>5, <1>6 DEF FrameOK

LEMMA RejoinTypes ==
  ASSUME TypeInv, frames # <<>>, created' = created,
         NEW more, more \subseteq 1..created, Rejoin(more)
  PROVE  /\ frames' \in Seq(Frame) /\ FramesOK'
         /\ placed' \subseteq 1..created' /\ insert' \in placed'
         /\ current' \in Blocks \cup {NoBlock}
<1>1. /\ frames' = Pop /\ placed' = placed \cup more \cup {Top.leave}
      /\ insert' = Top.leave /\ current' = Top.before
  BY DEF Rejoin
<1>2. created \in Nat /\ placed \subseteq 1..created
  BY HereTypes DEF TypeInv
<1>3. \A i \in 1..Len(Pop) : FrameOK(Pop[i], placed', created')
  BY <1>1, <1>2, TopTypes, FrameGrows
<1>4. Top.leave \in 1..created /\ Top.before \in Blocks \cup {NoBlock}
  BY <1>2, TopTypes DEF FrameOK, Frame
<1> QED
  BY <1>1, <1>2, <1>3, <1>4, TopTypes DEF FramesOK

LEMMA TypeEnterElse ==
  ASSUME TypeInv, EnterElse
  PROVE  TypeInv'
<1>1. TypeOK /\ Here \in Nat /\ Top.at \in Nat /\ frames # <<>>
  BY HereTypes, TopTypes DEF TypeInv, EnterElse, Frame
<1>2. /\ Top.leave \in Blocks /\ Top.els \in Blocks /\ Top.els \in 2..created
      /\ Top.kind = "then" /\ FrameOK(Top, placed, created)
      /\ created \in Nat /\ placed \subseteq 1..created
  BY <1>1, TopTypes, HereTypes DEF EnterElse, FrameOK
<1>3. code' \in [Blocks -> Seq(Instrs)]
  BY <1>1, <1>2, JumpTypes DEF EnterElse
<1>4. prog' \in Seq(Token) /\ Len(prog') = Len(prog) + 1
  BY <1>1, VisitedTypes DEF EnterElse
<1>5. /\ frames' \in Seq(Frame) /\ Len(frames') = Len(frames)
      /\ \A i \in 1..(Len(frames) - 1) : frames'[i] = frames[i]
      /\ frames'[Len(frames)] = [Top EXCEPT !.kind = "else"]
  BY <1>1, ElseFrames DEF EnterElse, TypeOK
<1>6. FramesOK'
  <2>1. placed \subseteq placed' /\ created' = created
    BY DEF EnterElse
  <2>2. \A i \in 1..(Len(frames) - 1) : FrameOK(frames'[i], placed', created')
    BY <1>1, <1>2, <1>5, <2>1, FrameGrows, HereTypes DEF TypeInv, FramesOK
  <2>3. FrameOK([Top EXCEPT !.kind = "else"], placed', created')
    BY <1>1, <1>2, <2>1, TopTypes DEF FrameOK, Frame, AllLoopKinds
  <2> QED
    BY <1>1, <1>5, <2>2, <2>3, TopTypes DEF FramesOK
<1>7. created' <= 1 + 3 * Len(prog')
  BY <1>1, <1>4, HereTypes DEF EnterElse, TypeOK
<1>8. placed' \subseteq 1..created' /\ insert' \in placed' /\ current' \in Blocks
  BY <1>1, <1>2 DEF EnterElse
<1> QED
  BY <1>3, <1>4, <1>5, <1>6, <1>7, <1>8 DEF EnterElse, TypeInv, TypeOK

LEMMA TypeEndIf ==
  ASSUME TypeInv, EndIf
  PROVE  TypeInv'
<1>1. TypeOK /\ Here \in Nat /\ frames # <<>> /\ Top.at \in Nat /\ Top.leave \in Blocks
  BY HereTypes, TopTypes DEF TypeInv, EndIf, Frame
<1>2. code' \in [Blocks -> Seq(Instrs)]
  BY <1>1, JumpTypes DEF EndIf
<1>3. prog' \in Seq(Token) /\ Len(prog') = Len(prog) + 1
  BY <1>1, VisitedTypes DEF EndIf
<1>4. /\ frames' \in Seq(Frame) /\ FramesOK'
      /\ placed' \subseteq 1..created' /\ insert' \in placed'
      /\ current' \in Blocks \cup {NoBlock}
  BY <1>1, RejoinTypes DEF EndIf
<1>5. created' <= 1 + 3 * Len(prog')
  BY <1>1, <1>3, HereTypes DEF EndIf, TypeOK
<1> QED
  BY <1>2, <1>3, <1>4, <1>5 DEF EndIf, TypeInv, TypeOK

(* The frame and the blocks of a loop that starts.                         *)
LEMMA LoopFrame ==
  ASSUME TypeInv, MayOpen, NEW kind \in LoopKinds, NEW Q,
         placed \cup {created + 2} \subseteq Q,
         kind \in {"while", "times"} => created + 1 \in Q,
         frames' = Append(frames, [kind |-> kind, at |-> Here, cond |-> created + 1,
                                   body |-> created + 2, els |-> NoBlock,
                                   leave |-> created + 3, before |-> current]),
         placed' = Q, created' = created + 3
  PROVE  frames' \in Seq(Frame) /\ FramesOK'
<1> DEFINE f == [kind |-> kind, at |-> Here, cond |-> created + 1,
                 body |-> created + 2, els |-> NoBlock,
                 leave |-> created + 3, before |-> current]
<1>1. TypeOK /\ Here \in Nat /\ created \in Nat \ {0} /\ kind \in AllLoopKinds
  BY HereTypes, LoopKindsAssumption DEF TypeInv
<1>2. f \in Frame
  BY <1>1, RoomForBlocks DEF TypeOK, Frame, FrameKinds
<1>3. FrameOK(f, Q, created + 3)
  BY <1>1 DEF FrameOK, Entry, AllLoopKinds
<1>4. created + 3 \in Nat /\ created <= created + 3 /\ placed \subseteq Q
  BY <1>1
<1> HIDE DEF f
<1>5. frames' = Append(frames, f)
  BY DEF f
<1>6. Append(frames, f) \in Seq(Frame)
      /\ \A i \in 1..Len(Append(frames, f)) :
           FrameOK(Append(frames, f)[i], Q, created + 3)
  BY <1>1, <1>2, <1>3, <1>4, PushedFrames DEF TypeInv, TypeOK, FramesOK
<1> QED
  BY <1>5, <1>6 DEF FramesOK

LEMMA TypeEnterTestedLoop ==
  ASSUME TypeInv, NEW kind \in LoopKinds, NEW m \in 0..1, EnterTestedLoop(kind, m)
  PROVE  TypeInv'
<1>1. /\ TypeOK /\ MayOpen /\ Here \in Nat /\ insert \in Blocks
      /\ created \in Nat \ {0} /\ placed \subseteq 1..created
      /\ kind \in AllLoopKinds
  BY HereTypes, LoopKindsAssumption DEF TypeInv, EnterTestedLoop
<1>2. /\ created + 1 \in Blocks /\ created + 2 \in Blocks /\ created + 3 \in Blocks
      /\ created' = created + 3 /\ placed' = placed \cup {created + 1, created + 2}
  BY <1>1, RoomForBlocks DEF EnterTestedLoop
<1>3. code' \in [Blocks -> Seq(Instrs)]
  <2> DEFINE t == Eval(Here, m) \o <<CondBr(Here, created + 2, created + 3)>>
  <2>1. t \in Seq(Instrs)
    <3>1. /\ CondBr(Here, created + 2, created + 3) \in Instrs
          /\ Eval(Here, m) \in Seq(Instrs)
      BY <1>1, <1>2, BranchTypes, EvalTypes
    <3> QED
      BY <3>1
  <2>2. code' = Emit(JumpTo(created + 1), created + 1, t)
    BY DEF EnterTestedLoop
  <2> HIDE DEF t
  <2> QED
    BY <1>1, <1>2, <2>1, <2>2, JumpTypes, EmitTypes
<1>4. frees' \in Seq(Nat)
  BY <1>1, EvalTypes DEF EnterTestedLoop
<1>5. /\ prog' \in Seq(Token) /\ Len(prog') = Len(prog) + 1
      /\ created' <= 1 + 3 * Len(prog')
  BY <1>1, <1>2, VisitedTypes, RoomForBlocks, HereTypes DEF EnterTestedLoop
<1>6. frames' \in Seq(Frame) /\ FramesOK'
  BY <1>1, <1>2, LoopFrame DEF EnterTestedLoop
<1>7. placed' \subseteq 1..created' /\ insert' \in placed' /\ current' \in Blocks
  BY <1>1, <1>2 DEF EnterTestedLoop
<1> QED
  BY <1>2, <1>3, <1>4, <1>5, <1>6, <1>7 DEF EnterTestedLoop, TypeInv, TypeOK

LEMMA TypeEnterOtherLoop ==
  ASSUME TypeInv, NEW kind \in LoopKinds, EnterOtherLoop(kind)
  PROVE  TypeInv'
<1>1. /\ TypeOK /\ MayOpen /\ Here \in Nat /\ kind \in AllLoopKinds
      /\ created \in Nat \ {0} /\ placed \subseteq 1..created
      /\ kind \notin {"while", "times"}
  BY HereTypes, LoopKindsAssumption DEF TypeInv, EnterOtherLoop
<1>2. /\ created + 3 \in Blocks
      /\ created' = created + 3 /\ placed' = placed \cup {created + 2}
  BY <1>1, RoomForBlocks DEF EnterOtherLoop
<1>3. /\ prog' \in Seq(Token) /\ Len(prog') = Len(prog) + 1
      /\ created' <= 1 + 3 * Len(prog')
  BY <1>1, <1>2, VisitedTypes, RoomForBlocks, HereTypes DEF EnterOtherLoop
<1>4. frames' \in Seq(Frame) /\ FramesOK'
  BY <1>1, <1>2, LoopFrame DEF EnterOtherLoop
<1>5. placed' \subseteq 1..created' /\ insert' \in placed' /\ current' \in Blocks
  BY <1>1, <1>2 DEF EnterOtherLoop
<1> QED
  BY <1>2, <1>3, <1>4, <1>5 DEF EnterOtherLoop, TypeInv, TypeOK

LEMMA TypeEndLoop ==
  ASSUME TypeInv, NEW m \in 0..1, EndLoop(m)
  PROVE  TypeInv'
<1>1. /\ TypeOK /\ Here \in Nat /\ frames # <<>> /\ Top.at \in Nat
      /\ Top.cond \in Blocks /\ Top.body \in Blocks /\ Top.leave \in Blocks
      /\ insert \in Blocks /\ Top.cond \in 1..created
  BY HereTypes, TopTypes DEF TypeInv, EndLoop, Frame, FrameOK
<1>2. code' \in [Blocks -> Seq(Instrs)]
  <2>1. CASE Top.kind # "doWhile"
    BY <1>1, <2>1, JumpTypes DEF EndLoop
  <2>2. CASE Top.kind = "doWhile"
    <3> DEFINE t == Eval(Here, m) \o <<CondBr(Here, Top.body, Top.leave)>>
    <3>1. t \in Seq(Instrs)
      <4>1. /\ CondBr(Here, Top.body, Top.leave) \in Instrs
            /\ Eval(Here, m) \in Seq(Instrs)
        BY <1>1, BranchTypes, EvalTypes
      <4> QED
        BY <4>1
    <3>2. code' = Emit(JumpTo(Top.cond), Top.cond, t)
      BY <2>2 DEF EndLoop
    <3> HIDE DEF t
    <3> QED
      BY <1>1, <3>1, <3>2, JumpTypes, EmitTypes
  <2> QED
    BY <2>1, <2>2
<1>3. prog' \in Seq(Token) /\ Len(prog') = Len(prog) + 1
  BY <1>1, VisitedTypes DEF EndLoop
<1>4. /\ frames' \in Seq(Frame) /\ FramesOK'
      /\ placed' \subseteq 1..created' /\ insert' \in placed'
      /\ current' \in Blocks \cup {NoBlock}
  <2>1. CASE Top.kind # "doWhile"
    BY <1>1, <2>1, RejoinTypes DEF EndLoop
  <2>2. CASE Top.kind = "doWhile"
    BY <1>1, <2>2, RejoinTypes DEF EndLoop
  <2> QED
    BY <2>1, <2>2
<1>5. created' <= 1 + 3 * Len(prog') /\ frees' \in Seq(Nat)
  <2>1. created' <= 1 + 3 * Len(prog')
    BY <1>1, <1>3, HereTypes DEF EndLoop, TypeOK
  <2>2. frees' = PushFree(Here, m)
    BY DEF EndLoop
  <2> QED
    BY <1>1, <2>1, <2>2, EvalTypes
<1> QED
  BY <1>2, <1>3, <1>4, <1>5 DEF EndLoop, TypeInv, TypeOK

LEMMA TypeReturn ==
  ASSUME TypeOK, NEW v \in {"none", "scalar"} \cup AllRetValues, Return(v)
  PROVE  /\ code' \in [Blocks -> Seq(Instrs)] /\ frees' \in Seq(Nat)
         /\ hasReturn' \in BOOLEAN
<1>1. insert \in Blocks
  BY HereTypes
<1> QED
  BY <1>1, ReturnTypes, EmitTypes DEF Return, TypeOK

LEMMA TypeReturnStatement ==
  ASSUME TypeInv, NEW v \in {"none", "scalar"} \cup RetValues, ReturnStatement(v)
  PROVE  TypeInv'
<1>1. TypeOK /\ Here \in Nat /\ v \in {"none", "scalar"} \cup AllRetValues
  BY HereTypes, RetAssumption DEF TypeInv
<1>2. /\ code' \in [Blocks -> Seq(Instrs)] /\ frees' \in Seq(Nat)
      /\ hasReturn' \in BOOLEAN
  BY <1>1, TypeReturn DEF ReturnStatement
<1>3. prog' \in Seq(Token) /\ Len(prog') = Len(prog) + 1
  BY <1>1, VisitedTypes DEF ReturnStatement
<1>4. created' <= 1 + 3 * Len(prog')
  BY <1>1, <1>3, HereTypes DEF ReturnStatement, TypeOK
<1> QED
  BY <1>2, <1>3, <1>4 DEF ReturnStatement, TypeInv, TypeOK, FramesOK

LEMMA TypeFinish ==
  ASSUME TypeInv, Finish
  PROVE  TypeInv'
<1>1. TypeOK
  BY DEF TypeInv
<1>2. /\ code' \in [Blocks -> Seq(Instrs)] /\ frees' \in Seq(Nat)
      /\ hasReturn' \in BOOLEAN
  <2>1. CASE hasReturn
    BY <1>1, <2>1 DEF Finish, TypeOK
  <2>2. CASE ~hasReturn
    BY <1>1, <2>2, TypeReturn DEF Finish
  <2> QED
    BY <2>1, <2>2
<1> QED
  BY <1>2 DEF Finish, TypeInv, TypeOK, FramesOK

LEMMA TypeStep == TypeInv /\ [Next]_vars => TypeInv'
<1> SUFFICES ASSUME TypeInv, [Next]_vars PROVE TypeInv'
  OBVIOUS
<1>1. CASE UNCHANGED vars
  BY <1>1 DEF vars, TypeInv, TypeOK, FramesOK
<1>2. CASE Next
  BY <1>1, <1>2, TypeStatement, TypeEnterIf, TypeEnterElse, TypeEndIf,
     TypeEnterTestedLoop, TypeEnterOtherLoop, TypeEndLoop, TypeReturnStatement,
     TypeFinish
     DEF Next, Step, Terminated
<1> QED
  BY <1>1, <1>2

LEMMA TypeInvHolds == Spec => []TypeInv
BY TypeInit, TypeStep, PTL DEF Spec

(* Whatever the sub contains, the visitor only ever emits into a block it  *)
(* has placed in the function, and never runs out of blocks.               *)
THEOREM TypeCorrect == Spec => []TypeOK
<1>1. TypeInv => TypeOK
  BY DEF TypeInv
<1> QED
  BY <1>1, TypeInvHolds, PTL

-----------------------------------------------------------------------------
(* The ends of instruction sequences.                                      *)
Open(s) == \A i \in 1..Len(s) : ~IsTerminator(s[i])
Closed(s) == s # <<>> /\ IsTerminator(s[Len(s)])
Single(s) == \A i \in 1..(Len(s) - 1) : ~IsTerminator(s[i])

LEMMA OpenConcat ==
  ASSUME NEW s \in Seq(Instrs), NEW t \in Seq(Instrs), Open(s), Open(t)
  PROVE  Open(s \o t)
<1>1. /\ Len(s \o t) = Len(s) + Len(t)
      /\ \A i \in 1..(Len(s) + Len(t)) :
           (s \o t)[i] = IF i <= Len(s) THEN s[i] ELSE t[i - Len(s)]
  BY ConcatProperties
<1>2. Len(s) \in Nat /\ Len(t) \in Nat
  OBVIOUS
<1>3. \A i \in 1..(Len(s) + Len(t)) :
        (i <= Len(s) => i \in 1..Len(s)) /\ (i > Len(s) => i - Len(s) \in 1..Len(t))
  BY <1>2
<1> QED
  BY <1>1, <1>2, <1>3 DEF Open

LEMMA ClosedConcat ==
  ASSUME NEW s \in Seq(Instrs), NEW t \in Seq(Instrs), Closed(t)
  PROVE  Closed(s \o t)
<1>1. Len(s) \in Nat /\ Len(t) \in Nat \ {0}
  BY EmptySeq DEF Closed
<1>2. /\ s \o t \in Seq(Instrs) /\ Len(s \o t) = Len(s) + Len(t)
      /\ (s \o t)[Len(s) + Len(t)] = t[Len(t)]
  BY <1>1, ConcatProperties
<1> QED
  BY <1>1, <1>2, EmptySeq DEF Closed

LEMMA SingleConcat ==
  ASSUME NEW s \in Seq(Instrs), NEW t \in Seq(Instrs), Open(s), Single(t)
  PROVE  Single(s \o t)
<1>1. /\ Len(s \o t) = Len(s) + Len(t)
      /\ \A i \in 1..(Len(s) + Len(t)) :
           (s \o t)[i] = IF i <= Len(s) THEN s[i] ELSE t[i - Len(s)]
  BY ConcatProperties
<1>2. Len(s) \in Nat /\ Len(t) \in Nat
  OBVIOUS
<1>3. \A i \in 1..(Len(s) + Len(t) - 1) :
        /\ i \in 1..(Len(s) + Len(t))
        /\ i <= Len(s) => i \in 1..Len(s)
        /\ i > Len(s) => i - Len(s) \in 1..(Len(t) - 1)
  BY <1>2
<1> QED
  BY <1>1, <1>2, <1>3 DEF Open, Single

LEMMA OpenIsSingle ==
  ASSUME NEW s \in Seq(Instrs), Open(s)
  PROVE  Single(s)
BY DEF Open, Single

(* What an expression, a branch and a statement put in a block.            *)
LEMMA EvalOpen ==
  ASSUME NEW i \in Nat, NEW m \in 0..1
  PROVE  Open(Eval(i, m))
BY DEF Open, Eval, New, Instr, IsTerminator

LEMMA BranchCloses ==
  ASSUME NEW i, NEW b, NEW c
  PROVE  /\ Closed(<<Br(i, b)>>) /\ Single(<<Br(i, b)>>)
         /\ Closed(<<CondBr(i, b, c)>>) /\ Single(<<CondBr(i, b, c)>>)
BY DEF Closed, Single, Br, CondBr, IsTerminator

LEMMA TestCloses ==
  ASSUME TypeOK, NEW i \in Nat, NEW m \in 0..1,
         NEW b \in Blocks \cup {NoBlock}, NEW c \in Blocks \cup {NoBlock}
  PROVE  /\ Eval(i, m) \o <<CondBr(i, b, c)>> \in Seq(Instrs)
         /\ Closed(Eval(i, m) \o <<CondBr(i, b, c)>>)
         /\ Single(Eval(i, m) \o <<CondBr(i, b, c)>>)
<1>1. Eval(i, m) \in Seq(Instrs) /\ CondBr(i, b, c) \in Instrs
  BY EvalTypes, BranchTypes
<1>2. <<CondBr(i, b, c)>> \in Seq(Instrs)
  BY <1>1
<1> QED
  BY <1>1, <1>2, EvalOpen, BranchCloses, ConcatProperties, ClosedConcat, SingleConcat

LEMMA StatementOpen ==
  ASSUME TypeOK, NEW i \in Nat, NEW m \in 0..1
  PROVE  /\ Eval(i, m) \o <<Op(i)>> \in Seq(Instrs)
         /\ Open(Eval(i, m) \o <<Op(i)>>)
<1>1. Eval(i, m) \in Seq(Instrs) /\ <<Op(i)>> \in Seq(Instrs)
  <2>1. Op(i) \in Instrs /\ Eval(i, m) \in Seq(Instrs)
    BY EvalTypes, OpTypes
  <2> QED
    BY <2>1
<1>2. Open(<<Op(i)>>)
  BY DEF Open, Op, Instr, IsTerminator
<1> QED
  BY <1>1, <1>2, EvalOpen, OpenConcat, ConcatProperties

LEMMA JumpCode ==
  ASSUME TypeOK, NEW b \in Blocks
  PROVE  /\ JumpTo(b) \in [Blocks -> Seq(Instrs)]
         /\ JumpTo(b)[insert] = code[insert] \o <<Br(Here, b)>>
         /\ <<Br(Here, b)>> \in Seq(Instrs)
         /\ Closed(JumpTo(b)[insert])
         /\ \A d \in Blocks \ {insert} : JumpTo(b)[d] = code[d]
<1>1. code \in [Blocks -> Seq(Instrs)] /\ insert \in Blocks /\ Here \in Nat
  BY HereTypes DEF TypeOK
<1>2. <<Br(Here, b)>> \in Seq(Instrs)
  BY <1>1, BranchTypes
<1>3. /\ JumpTo(b)[insert] = code[insert] \o <<Br(Here, b)>>
      /\ \A d \in Blocks \ {insert} : JumpTo(b)[d] = code[d]
  BY <1>1, <1>2, EmitTypes DEF JumpTo
<1>4. Closed(code[insert] \o <<Br(Here, b)>>)
  <2>1. code[insert] \in Seq(Instrs)
    BY <1>1
  <2> QED
    BY <1>2, <2>1, BranchCloses, ClosedConcat
<1> QED
  BY <1>2, <1>3, <1>4, JumpTypes

-----------------------------------------------------------------------------
(* current.  Each frame saved the block of the frame around it.            *)
SavedIsOuter ==
  \A i \in 1..Len(frames) :
    frames[i].before = IF i = 1 THEN NoBlock ELSE BlockOf(frames[i - 1])

CurrentInv == CurrentIsInnermost /\ SavedIsOuter

(* An if or loop that starts makes its block current and saves the last.   *)
LEMMA CurrentPush ==
  ASSUME TypeInv, TypeInv', CurrentInv, NEW f \in Frame,
         frames' = Append(frames, f), f.before = current, current' = BlockOf(f)
  PROVE  CurrentInv'
<1>1. /\ frames \in Seq(Frame) /\ Len(frames) \in Nat
      /\ frames' # <<>> /\ Len(frames') = Len(frames) + 1
      /\ \A i \in 1..Len(frames) : frames'[i] = frames[i]
      /\ frames'[Len(frames) + 1] = f
  <2>1. frames \in Seq(Frame)
    BY DEF TypeInv, TypeOK
  <2> QED
    BY <2>1, AppendProperties, LenProperties
<1>2. CurrentIsInnermost'
  BY <1>1 DEF CurrentIsInnermost, Top
<1>3. f.before = IF Len(frames) = 0 THEN NoBlock ELSE BlockOf(frames[Len(frames)])
  BY <1>1, EmptySeq DEF CurrentInv, CurrentIsInnermost, Top
<1>4. SavedIsOuter'
  <2> SUFFICES ASSUME NEW i \in 1..Len(frames')
               PROVE  frames'[i].before =
                        IF i = 1 THEN NoBlock ELSE BlockOf(frames'[i - 1])
    BY DEF SavedIsOuter, BlockOf
  <2>1. CASE i = Len(frames) + 1
    BY <1>1, <1>3, <2>1
  <2>2. CASE i # Len(frames) + 1
    <3>1. i \in 1..Len(frames) /\ (i # 1 => i - 1 \in 1..Len(frames))
      BY <1>1, <2>2
    <3> QED
      BY <1>1, <3>1 DEF CurrentInv, SavedIsOuter
  <2> QED
    BY <2>1, <2>2
<1> QED
  BY <1>2, <1>4 DEF CurrentInv

(* One that ends gives current back to the frame around it.                *)
LEMMA CurrentPop ==
  ASSUME TypeInv, CurrentInv, frames # <<>>, frames' = Pop, current' = Top.before
  PROVE  CurrentInv'
<1>1. /\ frames \in Seq(Frame) /\ Len(frames) \in Nat \ {0}
      /\ frames' \in Seq(Frame) /\ Len(frames') = Len(frames) - 1
      /\ \A i \in 1..(Len(frames) - 1) : frames'[i] = frames[i]
  BY TopTypes, PopFrames DEF TypeInv, TypeOK
<1>2. SavedIsOuter'
  <2> SUFFICES ASSUME NEW i \in 1..Len(frames')
               PROVE  frames'[i].before =
                        IF i = 1 THEN NoBlock ELSE BlockOf(frames'[i - 1])
    BY DEF SavedIsOuter, BlockOf
  <2>1. i \in 1..(Len(frames) - 1) /\ (i # 1 => i - 1 \in 1..(Len(frames) - 1))
    BY <1>1
  <2> QED
    BY <1>1, <2>1 DEF CurrentInv, SavedIsOuter
<1>3. current' = IF Len(frames) = 1 THEN NoBlock ELSE BlockOf(frames[Len(frames) - 1])
  BY <1>1 DEF CurrentInv, SavedIsOuter, Top
<1>4. CurrentIsInnermost'
  <2>1. frames' = <<>> <=> Len(frames) = 1
    BY <1>1, EmptySeq
  <2> QED
    BY <1>1, <1>3, <2>1 DEF CurrentIsInnermost, Top
<1> QED
  BY <1>2, <1>4 DEF CurrentInv

LEMMA CurrentEnterElse ==
  ASSUME TypeInv, CurrentInv, EnterElse
  PROVE  CurrentInv'
<1>1. /\ frames # <<>> /\ frames \in Seq(Frame) /\ Len(frames) \in Nat \ {0}
      /\ frames' \in Seq(Frame) /\ Len(frames') = Len(frames)
      /\ \A i \in 1..(Len(frames) - 1) : frames'[i] = frames[i]
      /\ frames'[Len(frames)] = [Top EXCEPT !.kind = "else"]
      /\ Top \in Frame /\ Top = frames[Len(frames)]
  BY TopTypes, ElseFrames DEF TypeInv, TypeOK, EnterElse, Top
<1>2. /\ frames'[Len(frames)].before = frames[Len(frames)].before
      /\ BlockOf(frames'[Len(frames)]) = Top.els
  BY <1>1 DEF BlockOf, Frame
<1>3. CurrentIsInnermost'
  <2>1. frames' # <<>> /\ current' = Top.els
    BY <1>1, EmptySeq DEF EnterElse
  <2> QED
    BY <1>1, <1>2, <2>1 DEF CurrentIsInnermost, Top
<1>4. SavedIsOuter'
  <2> SUFFICES ASSUME NEW i \in 1..Len(frames')
               PROVE  frames'[i].before =
                        IF i = 1 THEN NoBlock ELSE BlockOf(frames'[i - 1])
    BY DEF SavedIsOuter, BlockOf
  <2>1. i \in 1..Len(frames) /\ (i # 1 => i - 1 \in 1..(Len(frames) - 1))
    BY <1>1
  <2>2. frames'[i].before = frames[i].before
    <3>1. i \in 1..(Len(frames) - 1) \/ i = Len(frames)
      BY <1>1, <2>1
    <3> QED
      BY <1>1, <1>2, <3>1
  <2>3. i # 1 => frames'[i - 1] = frames[i - 1]
    BY <1>1, <2>1
  <2> QED
    BY <2>1, <2>2, <2>3 DEF CurrentInv, SavedIsOuter
<1> QED
  BY <1>3, <1>4 DEF CurrentInv

LEMMA CurrentStep ==
  ASSUME TypeInv, TypeInv', CurrentInv, [Next]_vars
  PROVE  CurrentInv'
<1>1. CASE UNCHANGED <<frames, current>>
  BY <1>1 DEF CurrentInv, CurrentIsInnermost, SavedIsOuter, Top
<1>2. ASSUME NEW hasElse \in BOOLEAN, NEW m \in 0..1, EnterIf(hasElse, m)
      PROVE  CurrentInv'
  <2> DEFINE f == frames'[Len(frames) + 1]
  <2>1. /\ f.before = current /\ current' = BlockOf(f)
        /\ frames' = Append(frames, f) /\ f \in Frame
    <3>1. PICK g : /\ frames' = Append(frames, g) /\ g.kind = "then"
                   /\ g.body = created + 2 /\ g.before = current
                   /\ current' = created + 2
      BY <1>2 DEF EnterIf
    <3>2. f = g
      BY <3>1 DEF TypeInv, TypeOK
    <3>3. Len(frames') = Len(frames) + 1 /\ Len(frames) \in Nat
      BY <3>1 DEF TypeInv, TypeOK
    <3>4. f \in Frame
      BY <3>3, ElementOfSeq DEF TypeInv, TypeOK
    <3> QED
      BY <3>1, <3>2, <3>4 DEF BlockOf
  <2> HIDE DEF f
  <2> QED
    BY <2>1, CurrentPush
<1>3. CASE EnterElse
  BY <1>3, CurrentEnterElse
<1>4. CASE EndIf
  BY <1>4, CurrentPop DEF EndIf, Rejoin
<1>5. ASSUME NEW kind \in LoopKinds, NEW m \in 0..1,
             EnterTestedLoop(kind, m) \/ EnterOtherLoop(kind)
      PROVE  CurrentInv'
  <2> DEFINE f == frames'[Len(frames) + 1]
  <2>1. /\ f.before = current /\ current' = BlockOf(f)
        /\ frames' = Append(frames, f) /\ f \in Frame
    <3>1. PICK g : /\ frames' = Append(frames, g) /\ g.kind = kind
                   /\ g.leave = created + 3 /\ g.before = current
                   /\ current' = created + 3
      BY <1>5 DEF EnterTestedLoop, EnterOtherLoop
    <3>2. f = g
      BY <3>1 DEF TypeInv, TypeOK
    <3>3. Len(frames') = Len(frames) + 1 /\ Len(frames) \in Nat
      BY <3>1 DEF TypeInv, TypeOK
    <3>4. f \in Frame
      BY <3>3, ElementOfSeq DEF TypeInv, TypeOK
    <3> QED
      BY <3>1, <3>2, <3>4, LoopKindsAssumption DEF BlockOf, AllLoopKinds
  <2> HIDE DEF f
  <2> QED
    BY <2>1, CurrentPush
<1>6. ASSUME NEW m \in 0..1, EndLoop(m)
      PROVE  CurrentInv'
  BY <1>6, CurrentPop DEF EndLoop, Rejoin
<1>7. CASE \/ \E m \in 0..1 : Statement(m)
           \/ \E v \in {"none", "scalar"} \cup RetValues : ReturnStatement(v)
           \/ Finish \/ Terminated \/ UNCHANGED vars
  BY <1>1, <1>7 DEF Statement, ReturnStatement, Finish, Terminated, vars
<1> QED
  BY <1>2, <1>3, <1>4, <1>5, <1>6, <1>7 DEF Next, Step

LEMMA CurrentInvHolds == Spec => []CurrentInv
<1>1. Init => CurrentInv
  BY EmptySeq DEF Init, CurrentInv, CurrentIsInnermost, SavedIsOuter
<1>2. TypeInv /\ TypeInv' /\ CurrentInv /\ [Next]_vars => CurrentInv'
  BY CurrentStep
<1> QED
  BY <1>1, <1>2, TypeInvHolds, PTL DEF Spec

(* Whatever the nesting, current is the block of the innermost if or loop  *)
(* in progress and null exactly at the top level, so Return can tell a     *)
(* return that ends the sub from one that does not.                        *)
THEOREM CurrentCorrect == Spec => []CurrentIsInnermost
<1>1. CurrentInv => CurrentIsInnermost
  BY DEF CurrentInv
<1> QED
  BY <1>1, CurrentInvHolds, PTL

-----------------------------------------------------------------------------
(* What each action does to code, block by block.                          *)

(* A statement, the implicit return: only the insertion block grows.       *)
LEMMA GrowsInsert ==
  ASSUME TypeOK, NEW s \in Seq(Instrs), code' = Emit(code, insert, s)
  PROVE  /\ code'[insert] = code[insert] \o s
         /\ \A d \in Blocks \ {insert} : code'[d] = code[d]
         /\ code[insert] \in Seq(Instrs)
<1>1. code \in [Blocks -> Seq(Instrs)] /\ insert \in Blocks
  BY HereTypes DEF TypeOK
<1>2. /\ Emit(code, insert, s)[insert] = code[insert] \o s
      /\ \A d \in Blocks \ {insert} : Emit(code, insert, s)[d] = code[d]
  BY <1>1, EmitTypes
<1> QED
  BY <1>1, <1>2

(* An if: the insertion block ends in a test.                              *)
LEMMA EnterIfCode ==
  ASSUME TypeOK, NEW hasElse \in BOOLEAN, NEW m \in 0..1, EnterIf(hasElse, m)
  PROVE  \E t \in Seq(Instrs), els \in {created + 1, created + 3} :
           /\ Closed(t) /\ Single(t)
           /\ t = Eval(Here, m) \o <<CondBr(Here, created + 2, els)>>
           /\ els = IF hasElse THEN created + 3 ELSE created + 1
           /\ code'[insert] = code[insert] \o t
           /\ \A d \in Blocks \ {insert} : code'[d] = code[d]
           /\ code[insert] \in Seq(Instrs)
<1> DEFINE els == IF hasElse THEN created + 3 ELSE created + 1
           t == Eval(Here, m) \o <<CondBr(Here, created + 2, els)>>
<1>1. created + 2 \in Blocks /\ els \in Blocks /\ Here \in Nat
  BY RoomForBlocks, HereTypes DEF EnterIf
<1>2. t \in Seq(Instrs) /\ Closed(t) /\ Single(t)
  BY <1>1, TestCloses
<1>3. code' = Emit(code, insert, t)
  BY DEF EnterIf
<1>4. els \in {created + 1, created + 3}
  OBVIOUS
<1> HIDE DEF t
<1>5. /\ code'[insert] = code[insert] \o t
      /\ \A d \in Blocks \ {insert} : code'[d] = code[d]
      /\ code[insert] \in Seq(Instrs)
  BY <1>2, <1>3, GrowsInsert
<1> QED
  BY <1>2, <1>4, <1>5 DEF t

(* A loop that tests first: the insertion block branches to cond, which    *)
(* ends in the test.                                                       *)
LEMMA EnterLoopCode ==
  ASSUME TypeOK, NEW kind \in LoopKinds, NEW m \in 0..1, EnterTestedLoop(kind, m)
  PROVE  \E t \in Seq(Instrs) :
           /\ Closed(t) /\ Single(t)
           /\ t = Eval(Here, m) \o <<CondBr(Here, created + 2, created + 3)>>
           /\ code'[insert] = code[insert] \o <<Br(Here, created + 1)>>
           /\ Closed(code'[insert])
           /\ code'[created + 1] = code[created + 1] \o t
           /\ \A d \in Blocks \ {insert, created + 1} : code'[d] = code[d]
           /\ code[insert] \in Seq(Instrs) /\ code[created + 1] \in Seq(Instrs)
<1> DEFINE t == Eval(Here, m) \o <<CondBr(Here, created + 2, created + 3)>>
<1>1. /\ created + 1 \in Blocks /\ created + 2 \in Blocks /\ created + 3 \in Blocks
      /\ Here \in Nat /\ insert \in Blocks /\ created + 1 # insert
  BY RoomForBlocks, HereTypes DEF EnterTestedLoop
<1>2. t \in Seq(Instrs) /\ Closed(t) /\ Single(t)
  BY <1>1, TestCloses
<1>3. code' = Emit(JumpTo(created + 1), created + 1, t)
  BY DEF EnterTestedLoop
<1> HIDE DEF t
<1>4. /\ JumpTo(created + 1) \in [Blocks -> Seq(Instrs)]
      /\ JumpTo(created + 1)[insert] = code[insert] \o <<Br(Here, created + 1)>>
      /\ Closed(JumpTo(created + 1)[insert])
      /\ \A d \in Blocks \ {insert} : JumpTo(created + 1)[d] = code[d]
  BY <1>1, JumpCode
<1>5. /\ code'[created + 1] = JumpTo(created + 1)[created + 1] \o t
      /\ \A d \in Blocks \ {created + 1} : code'[d] = JumpTo(created + 1)[d]
  <2> DEFINE c == JumpTo(created + 1)
             d == Emit(c, created + 1, t)
  <2>1. /\ d[created + 1] = c[created + 1] \o t
        /\ \A e \in Blocks \ {created + 1} : d[e] = c[e]
    BY <1>1, <1>2, <1>4, EmitTypes
  <2> QED
    BY <1>3, <2>1
<1>6. code[insert] \in Seq(Instrs) /\ code[created + 1] \in Seq(Instrs)
  BY <1>1 DEF TypeOK
<1>7. /\ code'[insert] = code[insert] \o <<Br(Here, created + 1)>>
      /\ Closed(code'[insert])
      /\ code'[created + 1] = code[created + 1] \o t
      /\ \A d \in Blocks \ {insert, created + 1} : code'[d] = code[d]
  BY <1>1, <1>4, <1>5
<1> QED
  BY <1>2, <1>6, <1>7 DEF t

(* The code of a return, with or without its ret.                          *)
LEMMA ReturnCodeEnds ==
  ASSUME TypeOK, NEW v \in {"none", "scalar"} \cup AllRetValues
  PROVE  /\ ReturnCode(v) \in Seq(Instrs) /\ Single(ReturnCode(v))
         /\ (v # "none" \/ retType = "void") => Closed(ReturnCode(v))
<1> DEFINE e == Eval(Here, IF v = "temp" THEN 1 ELSE 0)
           r == RetInstr(v)
<1>1. Here \in Nat /\ frees \in Seq(Nat) /\ (IF v = "temp" THEN 1 ELSE 0) \in 0..1
  BY HereTypes DEF TypeOK
<1>2. e \in Seq(Instrs) /\ Open(e)
  BY <1>1, EvalTypes, EvalOpen
<1>3. FreeTexts(frees) \in Seq(Instrs) /\ Open(FreeTexts(frees))
  <2> DEFINE p == [k \in 1..Len(frees) |-> Free(Here, frees[k])]
             q == [l \in 1..TextLocals |-> Free(Here, -l)]
  <2>1. \A k \in 1..Len(frees) :
          Free(Here, frees[k]) \in Instrs /\ ~IsTerminator(Free(Here, frees[k]))
    <3> SUFFICES ASSUME NEW k \in 1..Len(frees)
                 PROVE  /\ Free(Here, frees[k]) \in Instrs
                        /\ ~IsTerminator(Free(Here, frees[k]))
      OBVIOUS
    <3>1. frees[k] \in Int
      BY <1>1, ElementOfSeq
    <3> QED
      BY <1>1, <3>1, InstrTypes DEF IsTerminator, Free, Instr
  <2>2. \A l \in 1..TextLocals :
          Free(Here, -l) \in Instrs /\ ~IsTerminator(Free(Here, -l))
    BY <1>1, TextLocalsAssumption, InstrTypes DEF IsTerminator, Free, Instr
  <2>3. p \in Seq(Instrs) /\ Len(p) = Len(frees) /\ Open(p)
    BY <1>1, <2>1, LenProperties DEF Open
  <2>4. q \in Seq(Instrs) /\ Len(q) = TextLocals /\ Open(q)
    BY <2>2, TextLocalsAssumption DEF Open
  <2> HIDE DEF p, q
  <2>5. p \o q \in Seq(Instrs) /\ Open(p \o q)
    BY <2>3, <2>4, ConcatProperties, OpenConcat
  <2> QED
    BY <2>5 DEF FreeTexts, p, q
<1>4. /\ r \in Seq(Instrs) /\ Single(r)
      /\ (v # "none" \/ retType = "void") => Closed(r)
  <2>1. ValueSlot(v) \in Int
    BY <1>1 DEF ValueSlot
  <2>2. CASE v = "none" /\ retType # "void"
    BY <2>2 DEF RetInstr, Single
  <2>3. CASE v = "literal"
    <3>1. r = <<New(Here, Here), Ret(Here, Here)>>
      BY <2>3 DEF RetInstr
    <3>2. New(Here, Here) \in Instrs /\ Ret(Here, Here) \in Instrs
      BY <1>1, InstrTypes
    <3>3. ~IsTerminator(New(Here, Here)) /\ IsTerminator(Ret(Here, Here))
      BY DEF IsTerminator, New, Ret, Instr
    <3> HIDE DEF r
    <3> QED
      BY <3>1, <3>2, <3>3 DEF Single, Closed
  <2>4. CASE v # "literal" /\ (v # "none" \/ retType = "void")
    <3>1. PICK x \in Int : r = <<Ret(Here, x)>>
      BY <2>1, <2>4 DEF RetInstr
    <3>2. Ret(Here, x) \in Instrs /\ IsTerminator(Ret(Here, x))
      BY <1>1, InstrTypes DEF IsTerminator, Ret, Instr
    <3> HIDE DEF r
    <3> QED
      BY <3>1, <3>2 DEF Single, Closed
  <2> QED
    BY <2>2, <2>3, <2>4
<1>5. ReturnCode(v) = (e \o FreeTexts(frees)) \o r
  BY DEF ReturnCode
<1> HIDE DEF e, r
<1>6. e \o FreeTexts(frees) \in Seq(Instrs) /\ Open(e \o FreeTexts(frees))
  BY <1>2, <1>3, ConcatProperties, OpenConcat
<1> QED
  BY <1>4, <1>5, <1>6, ConcatProperties, SingleConcat, ClosedConcat

-----------------------------------------------------------------------------
(* Blocks left behind.                                                     *)
LEMMA ClosedStep ==
  ASSUME TypeInv, TypeInv', ClosedBehind, LoopKinds \subseteq {"while", "times"},
         [Next]_vars
  PROVE  ClosedBehind'
<1> USE DEF ClosedBehind, EndsInTerminator
<1>1. TypeOK /\ placed \subseteq Blocks /\ insert \in Blocks
  BY HereTypes DEF TypeInv
<1>2. ASSUME NEW s \in Seq(Instrs), code' = Emit(code, insert, s),
             UNCHANGED <<placed, insert>>
      PROVE  ClosedBehind'
  BY <1>1, <1>2, GrowsInsert
<1>3. ASSUME NEW b \in Blocks, code' = JumpTo(b), NEW c \in Blocks,
             placed' = placed \cup {c}, insert' = c
      PROVE  ClosedBehind'
  BY <1>1, <1>3, JumpCode, ZenonT(60) DEF Closed
<1>4. ASSUME NEW m \in 0..1, Statement(m)
      PROVE  ClosedBehind'
  <2>1. Here \in Nat
    BY <1>1, HereTypes
  <2> QED
    BY <1>1, <1>2, <1>4, <2>1, StatementOpen DEF Statement
<1>5. ASSUME NEW hasElse \in BOOLEAN, NEW m \in 0..1, EnterIf(hasElse, m)
      PROVE  ClosedBehind'
  <2>1. PICK t \in Seq(Instrs) :
          /\ Closed(t)
          /\ code'[insert] = code[insert] \o t /\ code[insert] \in Seq(Instrs)
          /\ \A d \in Blocks \ {insert} : code'[d] = code[d]
    BY <1>1, <1>5, EnterIfCode
  <2>2. Closed(code'[insert])
    BY <2>1, ClosedConcat
  <2>3. placed' = placed \cup {created + 2} /\ insert' = created + 2
    BY <1>5 DEF EnterIf
  <2> QED
    BY <1>1, <2>1, <2>2, <2>3 DEF Closed
<1>6. CASE EnterElse
  <2>1. frames # <<>> /\ Top.leave \in Blocks /\ Top.els \in Blocks
    BY <1>6, TopTypes DEF EnterElse
  <2> QED
    BY <1>3, <1>6, <2>1 DEF EnterElse
<1>7. CASE EndIf
  <2>1. frames # <<>> /\ Top.leave \in Blocks
    BY <1>7, TopTypes DEF EndIf
  <2>2. placed' = placed \cup {Top.leave}
    BY <1>7 DEF EndIf, Rejoin
  <2> QED
    BY <1>3, <1>7, <2>1, <2>2 DEF EndIf, Rejoin
<1>8. ASSUME NEW kind \in LoopKinds, NEW m \in 0..1, EnterTestedLoop(kind, m)
      PROVE  ClosedBehind'
  <2>1. PICK t \in Seq(Instrs) :
          /\ Closed(t) /\ Closed(code'[insert])
          /\ code'[created + 1] = code[created + 1] \o t
          /\ code[created + 1] \in Seq(Instrs)
          /\ \A d \in Blocks \ {insert, created + 1} : code'[d] = code[d]
    BY <1>1, <1>8, EnterLoopCode
  <2>2. Closed(code'[created + 1])
    BY <2>1, ClosedConcat
  <2>3. placed' = placed \cup {created + 1, created + 2} /\ insert' = created + 2
    BY <1>8 DEF EnterTestedLoop
  <2> QED
    BY <1>1, <2>1, <2>2, <2>3 DEF Closed
<1>9. ASSUME NEW kind \in LoopKinds, EnterOtherLoop(kind)
      PROVE  ClosedBehind'
  BY <1>9 DEF EnterOtherLoop
<1>10. ASSUME NEW m \in 0..1, EndLoop(m)
       PROVE  ClosedBehind'
  <2>1. frames # <<>> /\ Top.leave \in Blocks /\ Top.cond \in Blocks
    BY <1>10, TopTypes DEF EndLoop
  <2>2. Top.kind # "doWhile"
    BY <2>1, TopTypes DEF FrameOK
  <2>3. placed' = placed \cup {Top.leave} /\ insert' = Top.leave
    BY <1>10, <2>2 DEF EndLoop, Rejoin
  <2> QED
    BY <1>3, <1>10, <2>1, <2>2, <2>3 DEF EndLoop
<1>11. ASSUME NEW v \in {"none", "scalar"} \cup RetValues, ReturnStatement(v)
       PROVE  ClosedBehind'
  <2>1. v \in {"none", "scalar"} \cup AllRetValues
    BY RetAssumption
  <2> QED
    BY <1>1, <1>2, <1>11, <2>1, ReturnCodeEnds DEF ReturnStatement, Return
<1>12. CASE Finish
  <2>1. CASE hasReturn
    BY <1>12, <2>1 DEF Finish
  <2>2. CASE ~hasReturn
    BY <1>1, <1>2, <1>12, <2>2, ReturnCodeEnds DEF Finish, Return
  <2> QED
    BY <2>1, <2>2
<1>13. CASE Terminated \/ UNCHANGED vars
  BY <1>13 DEF Terminated, vars
<1> QED
  BY <1>4, <1>5, <1>6, <1>7, <1>8, <1>9, <1>10, <1>11, <1>12, <1>13 DEF Next, Step

(* When every loop tests before its body, the visitor never moves on from  *)
(* a block without a branch out of it, wherever the program returns.       *)
THEOREM ClosedCorrect ==
  ASSUME LoopKinds \subseteq {"while", "times"}
  PROVE  Spec => []ClosedBehind
<1>1. Init => ClosedBehind
  BY DEF Init, ClosedBehind
<1>2. TypeInv /\ TypeInv' /\ ClosedBehind /\ [Next]_vars => ClosedBehind'
  BY ClosedStep
<1> QED
  BY <1>1, <1>2, TypeInvHolds, PTL DEF Spec

-----------------------------------------------------------------------------
(* Blocks still to be placed.  The visit methods in progress hold blocks   *)
(* that they will place later: leave, the else not yet begun, the test of  *)
(* a loop that tests last.                                                 *)
Pending(f) ==
  {f.leave} \cup (IF f.kind = "then" THEN {f.els} ELSE {})
            \cup (IF f.kind = "doWhile" THEN {f.cond} ELSE {})

(* They are outside the function, no two visits hold the same block, and   *)
(* nothing has been emitted outside the function.                          *)
FreshInv ==
  /\ \A b \in Blocks \ placed : code[b] = <<>>
  /\ \A i \in 1..Len(frames) : Pending(frames[i]) \cap placed = {}
  /\ \A i, j \in 1..Len(frames) :
       i # j => Pending(frames[i]) \cap Pending(frames[j]) = {}

LEMMA PendingCreated ==
  ASSUME TypeInv
  PROVE  \A i \in 1..Len(frames) : Pending(frames[i]) \subseteq 2..created
BY DEF TypeInv, FramesOK, FrameOK, Pending, AllLoopKinds

(* A new frame holds new blocks, none of which is placed.                  *)
LEMMA FreshPush ==
  ASSUME TypeInv, FreshInv, NEW f \in Frame, frames' = Append(frames, f),
         placed' \subseteq placed \cup {created + 1, created + 2},
         Pending(f) \subseteq {created + 1, created + 3} \ placed',
         \A b \in Blocks \ placed' : code'[b] = code[b],
         placed \subseteq placed'
  PROVE  FreshInv'
<1>1. /\ frames \in Seq(Frame) /\ Len(frames) \in Nat
      /\ Len(frames') = Len(frames) + 1
      /\ \A i \in 1..Len(frames) : frames'[i] = frames[i]
      /\ frames'[Len(frames) + 1] = f
  <2>1. frames \in Seq(Frame)
    BY DEF TypeInv, TypeOK
  <2> QED
    BY <2>1, AppendProperties, LenProperties
<1>2. /\ created \in Nat
      /\ \A i \in 1..Len(frames) : Pending(frames[i]) \subseteq 2..created
  BY PendingCreated, HereTypes DEF TypeInv
<1>3. \A i \in 1..Len(frames) : Pending(frames'[i]) = Pending(frames[i])
  BY <1>1
<1>4. Pending(frames'[Len(frames) + 1]) = Pending(f)
  BY <1>1
<1>5. \A i \in 1..Len(frames') : i \in 1..Len(frames) \/ i = Len(frames) + 1
  BY <1>1
<1>6. \A b \in Blocks \ placed' : code'[b] = <<>>
  BY DEF FreshInv
<1>7. \A i \in 1..Len(frames) :
        /\ Pending(frames[i]) \cap placed' = {}
        /\ Pending(frames[i]) \cap Pending(f) = {}
  <2> SUFFICES ASSUME NEW i \in 1..Len(frames), NEW b \in Pending(frames[i])
               PROVE  b \notin placed' /\ b \notin Pending(f)
    OBVIOUS
  <2>1. b \in 2..created /\ b \notin placed
    BY <1>2 DEF FreshInv
  <2>2. b # created + 1 /\ b # created + 2 /\ b # created + 3
    BY <1>2, <2>1
  <2> QED
    BY <2>1, <2>2
<1>8. \A i \in 1..Len(frames') : Pending(frames'[i]) \cap placed' = {}
  BY <1>3, <1>4, <1>5, <1>7
<1>9. \A i, j \in 1..Len(frames') :
        i # j => Pending(frames'[i]) \cap Pending(frames'[j]) = {}
  BY <1>3, <1>4, <1>5, <1>7, ZenonT(60) DEF FreshInv
<1> QED
  BY <1>6, <1>8, <1>9 DEF FreshInv, Pending

(* What the top frame places is no longer pending, and nobody else's.      *)
LEMMA FreshPop ==
  ASSUME TypeInv, FreshInv, frames # <<>>, frames' = Pop,
         placed \subseteq placed', placed' \subseteq placed \cup Pending(Top),
         \A b \in Blocks \ placed' : code'[b] = code[b]
  PROVE  FreshInv'
<1>1. /\ Len(frames) \in Nat \ {0} /\ Len(frames') = Len(frames) - 1
      /\ \A i \in 1..Len(frames') : frames'[i] = frames[i]
  BY TopTypes
<1>2. \A i \in 1..Len(frames') : i \in 1..Len(frames) /\ i # Len(frames)
  BY <1>1
<1>3. \A i \in 1..Len(frames') : Pending(frames'[i]) = Pending(frames[i])
  BY <1>1
<1>4. \A i \in 1..Len(frames') : Pending(frames[i]) \cap Pending(Top) = {}
  BY <1>1, <1>2, SMTT(60) DEF FreshInv, Top
<1>5. \A i \in 1..Len(frames') : Pending(frames'[i]) \cap placed' = {}
  BY <1>2, <1>3, <1>4 DEF FreshInv
<1>6. \A i, j \in 1..Len(frames') :
        i # j => Pending(frames'[i]) \cap Pending(frames'[j]) = {}
  BY <1>2, <1>3 DEF FreshInv
<1> QED
  BY <1>5, <1>6 DEF FreshInv, Pending

LEMMA FreshEnterElse ==
  ASSUME TypeInv, FreshInv, EnterElse
  PROVE  FreshInv'
<1>1. /\ frames # <<>> /\ Len(frames) \in Nat \ {0} /\ Len(frames') = Len(frames)
      /\ \A i \in 1..(Len(frames) - 1) : frames'[i] = frames[i]
      /\ frames'[Len(frames)] = [Top EXCEPT !.kind = "else"]
      /\ Top \in Frame /\ Top = frames[Len(frames)]
  BY TopTypes, ElseFrames DEF TypeInv, TypeOK, EnterElse, Top
<1>2. /\ Pending(frames'[Len(frames)]) = {Top.leave}
      /\ Pending(Top) = {Top.leave, Top.els} /\ Top.leave # Top.els
  BY <1>1 DEF EnterElse, Pending, Frame
<1>3. \A i \in 1..Len(frames) : i # Len(frames) =>
        Pending(frames'[i]) = Pending(frames[i])
  <2>1. \A i \in 1..Len(frames) : i # Len(frames) => i \in 1..(Len(frames) - 1)
    BY <1>1
  <2> QED
    BY <1>1, <2>1
<1>4. placed' = placed \cup {Top.els} /\ TypeOK /\ Top.leave \in Blocks
      /\ code' = JumpTo(Top.leave) /\ insert \in placed
  BY <1>1, TopTypes, HereTypes DEF EnterElse, TypeInv
<1>5. \A b \in Blocks \ placed' : code'[b] = <<>>
  BY <1>4, JumpCode DEF FreshInv
<1>6. Len(frames) \in 1..Len(frames)
  BY <1>1
<1>7. \A i \in 1..Len(frames) : i # Len(frames) =>
        /\ Pending(frames[i]) \cap {Top.leave, Top.els} = {}
        /\ Pending(frames[i]) \cap placed = {}
  BY <1>1, <1>2, <1>6 DEF FreshInv
<1>8. {Top.leave, Top.els} \cap placed = {}
  BY <1>1, <1>2, <1>6 DEF FreshInv
<1>9. \A i \in 1..Len(frames') : Pending(frames'[i]) \cap placed' = {}
  BY <1>1, <1>2, <1>3, <1>4, <1>7, <1>8, SMTT(60)
<1>10. \A i, j \in 1..Len(frames') :
         i # j => Pending(frames'[i]) \cap Pending(frames'[j]) = {}
  <2> SUFFICES ASSUME NEW i \in 1..Len(frames), NEW j \in 1..Len(frames), i # j
               PROVE  Pending(frames'[i]) \cap Pending(frames'[j]) = {}
    BY <1>1 DEF Pending
  <2>1. CASE i = Len(frames)
    BY <1>2, <1>3, <1>7, <2>1
  <2>2. CASE j = Len(frames)
    BY <1>2, <1>3, <1>7, <2>2
  <2>3. CASE i # Len(frames) /\ j # Len(frames)
    BY <1>3, <2>3 DEF FreshInv
  <2> QED
    BY <2>1, <2>2, <2>3
<1> QED
  BY <1>5, <1>9, <1>10 DEF FreshInv, Pending

LEMMA FreshStep ==
  ASSUME TypeInv, TypeInv', FreshInv, [Next]_vars
  PROVE  FreshInv'
<1>1. TypeOK /\ insert \in placed /\ placed \subseteq Blocks /\ Here \in Nat
      /\ created \in Nat /\ insert \in Blocks /\ placed \subseteq 1..created
  BY HereTypes DEF TypeInv
<1>2. ASSUME NEW s \in Seq(Instrs), code' = Emit(code, insert, s),
             UNCHANGED <<placed, frames>>
      PROVE  FreshInv'
  <2>1. \A d \in Blocks \ {insert} : code'[d] = code[d]
    BY <1>1, <1>2, GrowsInsert
  <2>2. \A b \in Blocks \ placed' : code'[b] = <<>>
    BY <1>1, <1>2, <2>1 DEF FreshInv
  <2>3. placed' = placed /\ frames' = frames
    BY <1>2
  <2>4. \A i \in 1..Len(frames') : Pending(frames'[i]) \cap placed' = {}
    BY <2>3 DEF FreshInv
  <2>5. \A i, j \in 1..Len(frames') :
          i # j => Pending(frames'[i]) \cap Pending(frames'[j]) = {}
    BY <2>3 DEF FreshInv
  <2> QED
    BY <2>2, <2>4, <2>5 DEF FreshInv, Pending
<1>3. ASSUME NEW m \in 0..1, Statement(m)
      PROVE  FreshInv'
  <2>1. Eval(Here, m) \o <<Op(Here)>> \in Seq(Instrs)
    BY <1>1, StatementOpen
  <2> QED
    BY <1>2, <1>3, <2>1 DEF Statement
<1>4. ASSUME NEW hasElse \in BOOLEAN, NEW m \in 0..1, EnterIf(hasElse, m)
      PROVE  FreshInv'
  <2> DEFINE els == IF hasElse THEN created + 3 ELSE created + 1
             f == [kind |-> "then", at |-> Here, cond |-> NoBlock,
                   body |-> created + 2, els |-> els, leave |-> created + 1,
                   before |-> current]
  <2>1. frames' = Append(frames, f) /\ placed' = placed \cup {created + 2}
    BY <1>4 DEF EnterIf
  <2>2. f \in Frame
    BY <1>1, <1>4, RoomForBlocks DEF EnterIf, TypeOK, Frame, FrameKinds
  <2>3. Pending(f) \subseteq {created + 1, created + 3}
    BY DEF Pending
  <2>4. \A b \in Blocks \ placed' : code'[b] = code[b]
    BY <1>1, <1>4, <2>1, EnterIfCode
  <2> HIDE DEF f, els
  <2>5. Pending(f) \subseteq {created + 1, created + 3} \ placed'
    BY <1>1, <2>1, <2>3
  <2> QED
    BY <2>1, <2>2, <2>4, <2>5, FreshPush
<1>5. CASE EnterElse
  BY <1>5, FreshEnterElse
<1>6. CASE EndIf
  <2>1. frames # <<>> /\ Top.leave \in Blocks
    BY <1>6, TopTypes DEF EndIf
  <2>2. /\ frames' = Pop /\ placed' = placed \cup {Top.leave}
        /\ code' = JumpTo(Top.leave)
    BY <1>6 DEF EndIf, Rejoin
  <2>3. \A b \in Blocks \ placed' : code'[b] = code[b]
    BY <1>1, <2>1, <2>2, JumpCode
  <2>4. Top.leave \in Pending(Top)
    BY DEF Pending
  <2> QED
    BY <2>1, <2>2, <2>3, <2>4, FreshPop
<1>7. ASSUME NEW kind \in LoopKinds, NEW m \in 0..1,
             EnterTestedLoop(kind, m) \/ EnterOtherLoop(kind)
      PROVE  FreshInv'
  <2> DEFINE f == [kind |-> kind, at |-> Here, cond |-> created + 1,
                   body |-> created + 2, els |-> NoBlock, leave |-> created + 3,
                   before |-> current]
  <2>1. /\ frames' = Append(frames, f) /\ placed \subseteq placed'
        /\ placed' = IF kind \in {"while", "times"}
                     THEN placed \cup {created + 1, created + 2}
                     ELSE placed \cup {created + 2}
    BY <1>7 DEF EnterTestedLoop, EnterOtherLoop
  <2>2. f \in Frame
    BY <1>1, <1>7, RoomForBlocks, LoopKindsAssumption
       DEF EnterTestedLoop, EnterOtherLoop, TypeOK, Frame, FrameKinds
  <2>3. /\ Pending(f) \subseteq {created + 1, created + 3}
        /\ kind \in {"while", "times"} => Pending(f) = {created + 3}
    BY LoopKindsAssumption DEF Pending, AllLoopKinds
  <2>4. \A b \in Blocks \ placed' : code'[b] = code[b]
    <3>1. CASE EnterTestedLoop(kind, m)
      BY <1>1, <2>1, <3>1, EnterLoopCode DEF EnterTestedLoop
    <3>2. CASE EnterOtherLoop(kind)
      BY <3>2 DEF EnterOtherLoop
    <3> QED
      BY <1>7, <3>1, <3>2
  <2> HIDE DEF f
  <2>5. Pending(f) \subseteq {created + 1, created + 3} \ placed'
    BY <1>1, <2>1, <2>3
  <2>6. placed' \subseteq placed \cup {created + 1, created + 2}
    BY <2>1
  <2> QED
    BY <2>1, <2>2, <2>4, <2>5, <2>6, FreshPush
<1>8. ASSUME NEW m \in 0..1, EndLoop(m)
      PROVE  FreshInv'
  <2>1. frames # <<>> /\ Top.leave \in Blocks /\ Top.body \in Blocks /\ Top.cond \in Blocks
    BY <1>8, TopTypes DEF EndLoop
  <2>2. /\ frames' = Pop
        /\ placed' = placed \cup {Top.leave}
                       \cup (IF Top.kind = "doWhile" THEN {Top.cond} ELSE {})
    BY <1>8 DEF EndLoop, Rejoin
  <2>3. \A b \in Blocks \ placed' : code'[b] = code[b]
    <3>1. CASE Top.kind # "doWhile"
      <4>1. code' = JumpTo(Top.cond)
        BY <1>8, <3>1 DEF EndLoop
      <4>2. \A d \in Blocks \ {insert} : JumpTo(Top.cond)[d] = code[d]
        BY <1>1, <2>1, JumpCode
      <4>3. \A b \in Blocks \ placed' : b \in Blocks \ {insert}
        BY <1>1, <2>2
      <4> QED
        BY <4>1, <4>2, <4>3
    <3>2. CASE Top.kind = "doWhile"
      <4> DEFINE c == JumpTo(Top.cond)
                 t == Eval(Here, m) \o <<CondBr(Here, Top.body, Top.leave)>>
      <4>1. /\ c \in [Blocks -> Seq(Instrs)]
            /\ \A d \in Blocks \ {insert} : c[d] = code[d]
        BY <1>1, <2>1, JumpCode
      <4>2. t \in Seq(Instrs)
        BY <1>1, <2>1, TestCloses
      <4>3. code' = Emit(c, Top.cond, t)
        BY <1>8, <3>2 DEF EndLoop
      <4> HIDE DEF c, t
      <4>4. \A d \in Blocks \ {Top.cond} : Emit(c, Top.cond, t)[d] = c[d]
        BY <2>1, <4>1, <4>2, EmitTypes
      <4>5. \A d \in Blocks \ {insert, Top.cond} : code'[d] = code[d]
        BY <4>1, <4>3, <4>4
      <4>6. insert \in placed' /\ Top.cond \in placed'
        BY <1>1, <2>2, <3>2
      <4>7. \A b \in Blocks \ placed' : b \in Blocks \ {insert, Top.cond}
        BY <4>6
      <4> QED
        BY <4>5, <4>7
    <3> QED
      BY <3>1, <3>2
  <2>4. placed \subseteq placed' /\ placed' \subseteq placed \cup Pending(Top)
    BY <2>2 DEF Pending
  <2> QED
    BY <2>1, <2>2, <2>3, <2>4, FreshPop
<1>9. ASSUME NEW v \in {"none", "scalar"} \cup RetValues, ReturnStatement(v)
      PROVE  FreshInv'
  <2>1. v \in {"none", "scalar"} \cup AllRetValues
    BY RetAssumption
  <2> QED
    BY <1>1, <1>2, <1>9, <2>1, ReturnCodeEnds DEF ReturnStatement, Return
<1>10. CASE Finish
  <2>1. CASE hasReturn
    <3>1. code' = code /\ placed' = placed /\ frames' = frames
      BY <1>10, <2>1 DEF Finish
    <3> QED
      BY <3>1 DEF FreshInv
  <2>2. CASE ~hasReturn
    BY <1>1, <1>2, <1>10, <2>2, ReturnCodeEnds DEF Finish, Return
  <2> QED
    BY <2>1, <2>2
<1>11. CASE Terminated \/ UNCHANGED vars
  <2>1. code' = code /\ placed' = placed /\ frames' = frames
    BY <1>11 DEF Terminated, vars
  <2> QED
    BY <2>1 DEF FreshInv
<1> QED
  BY <1>3, <1>4, <1>5, <1>6, <1>7, <1>8, <1>9, <1>10, <1>11 DEF Next, Step

LEMMA FreshHolds == Spec => []FreshInv
<1>1. Init => FreshInv
  BY EmptySeq DEF Init, FreshInv
<1>2. TypeInv /\ TypeInv' /\ FreshInv /\ [Next]_vars => FreshInv'
  BY FreshStep
<1> QED
  BY <1>1, <1>2, TypeInvHolds, PTL DEF Spec

-----------------------------------------------------------------------------
(* hasReturn.  How deep a position of a token stream p is nested.          *)
OpenToks == {"if"} \cup AllLoopKinds
CloseToks == {"endif", "endloop"}
Earlier(p, T, i) == {k \in 1..(i - 1) : p[k].tok \in T}
Nesting(p, i) ==
  Cardinality(Earlier(p, OpenToks, i)) - Cardinality(Earlier(p, CloseToks, i))

LEMMA EarlierAppend ==
  ASSUME NEW p \in Seq(Token), NEW t \in Token, NEW T
  PROVE  /\ \A i \in 1..(Len(p) + 1) :
              /\ Earlier(Append(p, t), T, i) = Earlier(p, T, i)
              /\ Cardinality(Earlier(p, T, i)) \in Nat
         /\ Cardinality(Earlier(Append(p, t), T, Len(p) + 2)) =
              Cardinality(Earlier(p, T, Len(p) + 1)) + IF t.tok \in T THEN 1 ELSE 0
<1> DEFINE q == Append(p, t)
           n == Len(p)
<1>1. /\ n \in Nat /\ q[n + 1] = t
      /\ \A k \in 1..n : q[k] = p[k]
  BY AppendProperties, LenProperties
<1> HIDE DEF q, n
<1>2. ASSUME NEW i \in 1..(n + 1)
      PROVE  /\ Earlier(q, T, i) = Earlier(p, T, i)
             /\ IsFiniteSet(Earlier(p, T, i)) /\ Cardinality(Earlier(p, T, i)) \in Nat
  <2>1. i - 1 \in Int /\ \A k \in 1..(i - 1) : k \in 1..n
    BY <1>1, <1>2
  <2>2. Earlier(q, T, i) = Earlier(p, T, i)
    BY <1>1, <2>1 DEF Earlier
  <2>3. IsFiniteSet(1..(i - 1))
    BY <2>1, FS_Interval
  <2>4. Earlier(p, T, i) \subseteq 1..(i - 1)
    BY DEF Earlier
  <2>5. IsFiniteSet(Earlier(p, T, i))
    BY <2>3, <2>4, FS_Subset
  <2> QED
    BY <2>2, <2>5, FS_CardinalityType
<1>3. n + 1 \in 1..(n + 1) /\ (n + 2) - 1 = n + 1 /\ (n + 1) - 1 = n
  BY <1>1
<1> DEFINE E == Earlier(p, T, n + 1)
<1>4. Earlier(q, T, n + 2) = E \cup (IF t.tok \in T THEN {n + 1} ELSE {})
  <2>1. \A k : k \in 1..(n + 1) <=> k \in 1..n \/ k = n + 1
    BY <1>1
  <2> QED
    BY <1>1, <1>3, <2>1 DEF Earlier
<1>5. n + 1 \notin E /\ IsFiniteSet(E) /\ Cardinality(E) \in Nat
  <2>1. n + 1 \notin 1..n
    BY <1>1
  <2> QED
    BY <1>2, <1>3, <2>1 DEF Earlier
<1> HIDE DEF E
<1>6. Cardinality(Earlier(q, T, n + 2)) = Cardinality(E) + IF t.tok \in T THEN 1 ELSE 0
  <2>1. CASE t.tok \in T
    BY <1>4, <1>5, <2>1, FS_AddElement
  <2>2. CASE t.tok \notin T
    <3>1. Earlier(q, T, n + 2) = E
      BY <1>4, <2>2
    <3> QED
      BY <1>5, <2>2, <3>1
  <2> QED
    BY <2>1, <2>2
<1> QED
  BY <1>2, <1>6 DEF E, q, n

(* What one more token does to the depth.                                  *)
LEMMA NestingAppend ==
  ASSUME NEW p \in Seq(Token), NEW t \in Token
  PROVE  /\ \A i \in 1..(Len(p) + 1) :
              Nesting(Append(p, t), i) = Nesting(p, i) /\ Nesting(p, i) \in Int
         /\ t.tok \in OpenToks =>
              Nesting(Append(p, t), Len(p) + 2) = Nesting(p, Len(p) + 1) + 1
         /\ t.tok \in CloseToks =>
              Nesting(Append(p, t), Len(p) + 2) = Nesting(p, Len(p) + 1) - 1
         /\ t.tok \notin OpenToks \cup CloseToks =>
              Nesting(Append(p, t), Len(p) + 2) = Nesting(p, Len(p) + 1)
<1> DEFINE q == Append(p, t)
           n == Len(p)
           O(r, i) == Cardinality(Earlier(r, OpenToks, i))
           C(r, i) == Cardinality(Earlier(r, CloseToks, i))
<1>1. /\ \A i \in 1..(n + 1) : O(q, i) = O(p, i) /\ O(p, i) \in Nat
      /\ O(q, n + 2) = O(p, n + 1) + IF t.tok \in OpenToks THEN 1 ELSE 0
  <2> DEFINE T == OpenToks
             c == IF t.tok \in T THEN 1 ELSE 0
  <2>1. /\ \A i \in 1..(n + 1) :
             Earlier(q, T, i) = Earlier(p, T, i) /\ Cardinality(Earlier(p, T, i)) \in Nat
        /\ Cardinality(Earlier(q, T, n + 2)) = Cardinality(Earlier(p, T, n + 1)) + c
    <3> HIDE DEF T
    <3> QED
      BY EarlierAppend
  <2> HIDE DEF q, n, c, T
  <2>2. \A i \in 1..(n + 1) : O(q, i) = O(p, i) /\ O(p, i) \in Nat
    BY <2>1 DEF T
  <2>3. O(q, n + 2) = O(p, n + 1) + c
    BY <2>1 DEF T
  <2> QED
    BY <2>2, <2>3 DEF c, T
<1>2. /\ \A i \in 1..(n + 1) : C(q, i) = C(p, i) /\ C(p, i) \in Nat
      /\ C(q, n + 2) = C(p, n + 1) + IF t.tok \in CloseToks THEN 1 ELSE 0
  <2> DEFINE T == CloseToks
             c == IF t.tok \in T THEN 1 ELSE 0
  <2>1. /\ \A i \in 1..(n + 1) :
             Earlier(q, T, i) = Earlier(p, T, i) /\ Cardinality(Earlier(p, T, i)) \in Nat
        /\ Cardinality(Earlier(q, T, n + 2)) = Cardinality(Earlier(p, T, n + 1)) + c
    <3> HIDE DEF T
    <3> QED
      BY EarlierAppend
  <2> HIDE DEF q, n, c, T
  <2>2. \A i \in 1..(n + 1) : C(q, i) = C(p, i) /\ C(p, i) \in Nat
    BY <2>1 DEF T
  <2>3. C(q, n + 2) = C(p, n + 1) + c
    BY <2>1 DEF T
  <2> QED
    BY <2>2, <2>3 DEF c, T
<1>3. n + 1 \in 1..(n + 1)
  BY LenProperties
<1>4. \A r, i : Nesting(r, i) = O(r, i) - C(r, i)
  BY DEF Nesting
<1>5. OpenToks \cap CloseToks = {}
  BY DEF OpenToks, CloseToks, AllLoopKinds
<1> HIDE DEF q, n, O, C
<1>6. /\ \A i \in 1..(n + 1) : Nesting(q, i) = Nesting(p, i) /\ Nesting(p, i) \in Int
      /\ t.tok \in OpenToks => Nesting(q, n + 2) = Nesting(p, n + 1) + 1
      /\ t.tok \in CloseToks => Nesting(q, n + 2) = Nesting(p, n + 1) - 1
      /\ t.tok \notin OpenToks \cup CloseToks => Nesting(q, n + 2) = Nesting(p, n + 1)
  BY <1>1, <1>2, <1>3, <1>4, <1>5, SMTT(60)
<1> QED
  BY <1>6 DEF q, n

LEMMA DepthIsNesting ==
  /\ \A i : Depth(i) = Nesting(prog, i)
  /\ \A i : Depth(i)' = Nesting(prog', i)
BY DEF Depth, Nesting, Earlier, OpenToks, CloseToks

(* There is a frame for each if or loop that encloses the next token.      *)
DepthInv == Nesting(prog, Len(prog) + 1) = Len(frames)

LEMMA DepthStep ==
  ASSUME TypeInv, TypeInv', DepthInv, [Next]_vars
  PROVE  DepthInv'
<1>1. /\ prog \in Seq(Token) /\ frames \in Seq(Frame)
      /\ Len(prog) \in Nat /\ Len(frames) \in Nat /\ Here \in Nat
  BY HereTypes DEF TypeInv, TypeOK
<1>2. ASSUME NEW t \in Token, prog' = Append(prog, t),
             \/ t.tok \in OpenToks /\ Len(frames') = Len(frames) + 1
             \/ t.tok \in CloseToks /\ Len(frames') = Len(frames) - 1
             \/ t.tok \notin OpenToks \cup CloseToks /\ Len(frames') = Len(frames)
      PROVE  DepthInv'
  <2>1. Len(prog') = Len(prog) + 1
    BY <1>1, <1>2, AppendProperties
  <2>2. Len(prog') + 1 = Len(prog) + 2
    BY <1>1, <2>1
  <2> QED
    BY <1>1, <1>2, <2>2, NestingAppend DEF DepthInv
<1>3. ASSUME NEW tok, NEW at \in Nat, prog' = Visited(tok, at),
             tok \in {"op", "if", "else", "endif", "ret", "endloop"} \cup AllLoopKinds,
             \/ tok \in OpenToks /\ Len(frames') = Len(frames) + 1
             \/ tok \in CloseToks /\ Len(frames') = Len(frames) - 1
             \/ tok \notin OpenToks \cup CloseToks /\ Len(frames') = Len(frames)
      PROVE  DepthInv'
  <2> DEFINE t == [tok |-> tok, at |-> at]
  <2>1. t \in Token /\ prog' = Append(prog, t) /\ t.tok = tok
    BY <1>3 DEF Token, Visited
  <2> HIDE DEF t
  <2> QED
    BY <1>2, <1>3, <2>1
<1> USE DEF OpenToks, CloseToks, AllLoopKinds
<1>4. frames # <<>> => /\ Len(Pop) = Len(frames) - 1 /\ Top.at \in Nat
  BY TopTypes DEF TypeInv, Frame
<1>5. ASSUME NEW m \in 0..1, Statement(m)
      PROVE  DepthInv'
  BY <1>1, <1>3, <1>5 DEF Statement
<1>6. ASSUME NEW hasElse \in BOOLEAN, NEW m \in 0..1, EnterIf(hasElse, m)
      PROVE  DepthInv'
  <2>1. Len(frames') = Len(frames) + 1
    BY <1>1, <1>6, AppendProperties DEF EnterIf, TypeInv, TypeOK
  <2> QED
    BY <1>1, <1>3, <1>6, <2>1 DEF EnterIf
<1>7. CASE EnterElse
  <2>1. Len(frames') = Len(frames)
    BY <1>1, <1>7, ElseFrames DEF EnterElse
  <2> QED
    BY <1>1, <1>3, <1>4, <1>7, <2>1 DEF EnterElse
<1>8. CASE EndIf
  BY <1>1, <1>3, <1>4, <1>8 DEF EndIf, Rejoin
<1>9. ASSUME NEW kind \in LoopKinds, NEW m \in 0..1,
             EnterTestedLoop(kind, m) \/ EnterOtherLoop(kind)
      PROVE  DepthInv'
  <2>1. Len(frames') = Len(frames) + 1
    BY <1>1, <1>9, AppendProperties DEF EnterTestedLoop, EnterOtherLoop
  <2>2. prog' = Visited(kind, Here) /\ kind \in AllLoopKinds
    BY <1>9, LoopKindsAssumption DEF EnterTestedLoop, EnterOtherLoop
  <2> QED
    BY <1>1, <1>3, <2>1, <2>2
<1>10. ASSUME NEW m \in 0..1, EndLoop(m)
      PROVE  DepthInv'
  <2>1. /\ prog' = Visited("endloop", Top.at) /\ Len(frames') = Len(frames) - 1
        /\ Top.at \in Nat
    BY <1>4, <1>10 DEF EndLoop, Rejoin
  <2> QED
    BY <1>3, <2>1
<1>11. ASSUME NEW v, ReturnStatement(v)
       PROVE  DepthInv'
  BY <1>1, <1>3, <1>11 DEF ReturnStatement
<1>12. CASE Finish \/ Terminated \/ UNCHANGED vars
  BY <1>12 DEF Finish, Terminated, vars, DepthInv, Nesting, Earlier
<1> QED
  BY <1>5, <1>6, <1>7, <1>8, <1>9, <1>10, <1>11, <1>12 DEF Next, Step

LEMMA DepthHolds == Spec => []DepthInv
<1>1. Init => DepthInv
  <2> SUFFICES ASSUME Init PROVE DepthInv
    OBVIOUS
  <2>1. Len(prog) = 0 /\ Len(frames) = 0
    BY EmptySeq DEF Init
  <2>2. \A T : Earlier(prog, T, 1) = {}
    BY DEF Earlier
  <2>3. Nesting(prog, 1) = 0
    BY <2>2, FS_EmptySet DEF Nesting
  <2> QED
    BY <2>1, <2>3 DEF DepthInv
<1>2. TypeInv /\ TypeInv' /\ DepthInv /\ [Next]_vars => DepthInv'
  BY DepthStep
<1> QED
  BY <1>1, <1>2, TypeInvHolds, PTL DEF Spec

(* A return sets hasReturn exactly when no frame is there.                 *)
LEMMA TopLevel ==
  ASSUME TypeInv, CurrentInv
  PROVE  current = NoBlock <=> Len(frames) = 0
<1>1. frames \in Seq(Frame) /\ (frames = <<>> <=> Len(frames) = 0)
  BY EmptySeq DEF TypeInv, TypeOK
<1>2. ASSUME frames # <<>> PROVE BlockOf(Top) # NoBlock
  <2>1. /\ Top.leave \in Blocks /\ Top.body \in Blocks
        /\ Top.kind \in {"then", "else"} => Top.els \in Blocks
    BY <1>2, TopTypes
  <2> QED
    BY <2>1, BlocksFacts DEF BlockOf
<1> QED
  BY <1>1, <1>2 DEF CurrentInv, CurrentIsInnermost

Returned(p) == \E i \in 1..Len(p) : p[i].tok = "ret" /\ Nesting(p, i) = 0
SeenInv == phase = "visit" => (hasReturn <=> Returned(prog))

LEMMA ReturnedAppend ==
  ASSUME NEW p \in Seq(Token), NEW t \in Token
  PROVE  Returned(Append(p, t)) <=>
           Returned(p) \/ (t.tok = "ret" /\ Nesting(p, Len(p) + 1) = 0)
<1> DEFINE q == Append(p, t)
           n == Len(p)
<1>1. /\ n \in Nat /\ Len(q) = n + 1 /\ q[n + 1] = t
      /\ \A k \in 1..n : q[k] = p[k]
  BY AppendProperties, LenProperties
<1>2. \A i \in 1..(n + 1) : Nesting(q, i) = Nesting(p, i)
  BY NestingAppend
<1> HIDE DEF q, n
<1>3. \A k : k \in 1..(n + 1) <=> k \in 1..n \/ k = n + 1
  BY <1>1
<1>4. Returned(q) <=> Returned(p) \/ (t.tok = "ret" /\ Nesting(p, n + 1) = 0)
  BY <1>1, <1>2, <1>3 DEF Returned, n
<1> QED
  BY <1>4 DEF q, n

LEMMA SeenStep ==
  ASSUME TypeInv, TypeInv', CurrentInv, DepthInv, SeenInv, [Next]_vars
  PROVE  SeenInv'
<1>1. prog \in Seq(Token) /\ Here \in Nat
  BY HereTypes DEF TypeInv, TypeOK
<1>2. ASSUME NEW tok, NEW at \in Nat, prog' = Visited(tok, at), phase = "visit",
             tok \in {"op", "if", "else", "endif", "endloop"} \cup AllLoopKinds,
             hasReturn' = hasReturn
      PROVE  SeenInv'
  <2> DEFINE t == [tok |-> tok, at |-> at]
  <2>1. t \in Token /\ prog' = Append(prog, t) /\ t.tok # "ret"
    BY <1>2 DEF Token, Visited, AllLoopKinds
  <2> HIDE DEF t
  <2>2. Returned(prog') <=> Returned(prog)
    BY <1>1, <2>1, ReturnedAppend
  <2> QED
    BY <1>2, <2>2 DEF SeenInv
<1>3. frames # <<>> => Top.at \in Nat
  BY TopTypes DEF Frame
<1>4. ASSUME NEW v, ReturnStatement(v)
      PROVE  SeenInv'
  <2> DEFINE t == [tok |-> "ret", at |-> Here]
  <2>1. t \in Token /\ prog' = Append(prog, t) /\ t.tok = "ret"
    BY <1>1, <1>4 DEF ReturnStatement, Token, Visited
  <2> HIDE DEF t
  <2>2. /\ hasReturn' = (hasReturn \/ current = NoBlock) /\ phase = "visit"
        /\ hasReturn \in BOOLEAN
    BY <1>4 DEF ReturnStatement, Return, MayReturn, TypeInv, TypeOK
  <2>3. Returned(prog') <=> Returned(prog) \/ Nesting(prog, Len(prog) + 1) = 0
    BY <1>1, <2>1, ReturnedAppend
  <2>4. current = NoBlock <=> Nesting(prog, Len(prog) + 1) = 0
    BY TopLevel DEF DepthInv
  <2> QED
    BY <2>2, <2>3, <2>4 DEF SeenInv
<1>5. ASSUME \/ \E m \in 0..1 : Statement(m)
             \/ \E hasElse \in BOOLEAN, m \in 0..1 : EnterIf(hasElse, m)
             \/ \E kind \in LoopKinds, m \in 0..1 : EnterTestedLoop(kind, m)
             \/ \E kind \in LoopKinds : EnterOtherLoop(kind)
      PROVE  SeenInv'
  <2>1. PICK tok \in {"op", "if"} \cup AllLoopKinds :
          prog' = Visited(tok, Here) /\ phase = "visit" /\ hasReturn' = hasReturn
    BY <1>5, LoopKindsAssumption
       DEF Statement, EnterIf, EnterTestedLoop, EnterOtherLoop, MayOpen
  <2> QED
    BY <1>1, <1>2, <2>1
<1>6. ASSUME EnterElse \/ EndIf \/ \E m \in 0..1 : EndLoop(m)
      PROVE  SeenInv'
  <2>1. PICK tok \in {"else", "endif", "endloop"} :
          /\ prog' = Visited(tok, Top.at) /\ phase = "visit" /\ hasReturn' = hasReturn
          /\ frames # <<>>
    BY <1>6 DEF EnterElse, EndIf, EndLoop
  <2> QED
    BY <1>2, <1>3, <2>1
<1>7. CASE Finish \/ Terminated \/ UNCHANGED vars
  BY <1>7 DEF Finish, Terminated, vars, SeenInv, Returned, Nesting, Earlier
<1> QED
  BY <1>4, <1>5, <1>6, <1>7 DEF Next, Step

(* However returns are spread over ifs and loops, hasReturn is set by those *)
(* that no if or loop encloses and by no other.                            *)
THEOREM ReturnSeenCorrect == Spec => []ReturnSeen
<1>1. Init => SeenInv
  <2> SUFFICES ASSUME Init PROVE SeenInv
    OBVIOUS
  <2>1. Len(prog) = 0 /\ hasReturn = FALSE
    BY EmptySeq DEF Init
  <2> QED
    BY <2>1 DEF SeenInv, Returned
<1>2. TypeInv /\ TypeInv' /\ CurrentInv /\ DepthInv /\ SeenInv /\ [Next]_vars
        => SeenInv'
  BY SeenStep
<1>3. SeenInv => ReturnSeen
  BY DepthIsNesting DEF SeenInv, ReturnSeen, Returned
<1> QED
  BY <1>1, <1>2, <1>3, TypeInvHolds, CurrentInvHolds, DepthHolds, PTL DEF Spec


-----------------------------------------------------------------------------
(* Targets.  Every branch in s leads into X.                               *)
Leads(s, X) ==
  \A i \in 1..Len(s) : s[i].yes \in X \cup {NoBlock} /\ s[i].no \in X \cup {NoBlock}

LEMMA LeadsConcat ==
  ASSUME NEW s \in Seq(Instrs), NEW t \in Seq(Instrs), NEW X,
         Leads(s, X), Leads(t, X)
  PROVE  Leads(s \o t, X)
<1>1. /\ Len(s \o t) = Len(s) + Len(t)
      /\ \A i \in 1..(Len(s) + Len(t)) :
           (s \o t)[i] = IF i <= Len(s) THEN s[i] ELSE t[i - Len(s)]
  BY ConcatProperties
<1>2. Len(s) \in Nat /\ Len(t) \in Nat
  OBVIOUS
<1>3. \A i \in 1..(Len(s) + Len(t)) :
        (i <= Len(s) => i \in 1..Len(s)) /\ (i > Len(s) => i - Len(s) \in 1..Len(t))
  BY <1>2
<1> QED
  BY <1>1, <1>2, <1>3 DEF Leads

LEMMA LeadsMore ==
  ASSUME NEW s, NEW X, NEW Y, Leads(s, X), X \subseteq Y
  PROVE  Leads(s, Y)
BY DEF Leads

LEMMA EmitLeads ==
  ASSUME NEW c \in [Blocks -> Seq(Instrs)], NEW b \in Blocks, NEW X,
         \A d \in Blocks : Leads(c[d], X), NEW s \in Seq(Instrs), Leads(s, X)
  PROVE  \A d \in Blocks : Leads(Emit(c, b, s)[d], X)
<1>1. /\ Emit(c, b, s)[b] = c[b] \o s
      /\ \A d \in Blocks \ {b} : Emit(c, b, s)[d] = c[d]
  BY EmitTypes
<1>2. Leads(c[b] \o s, X)
  BY LeadsConcat
<1> QED
  BY <1>1, <1>2

(* The instructions of expressions, statements and returns do not branch.  *)
LEMMA EvalLeads ==
  ASSUME NEW X, NEW i \in Nat, NEW m \in 0..1
  PROVE  Leads(Eval(i, m), X)
BY DEF Leads, Eval, New, Instr

LEMMA StatementLeads ==
  ASSUME TypeOK, NEW X, NEW i \in Nat, NEW m \in 0..1
  PROVE  Leads(Eval(i, m) \o <<Op(i)>>, X)
<1>1. Op(i) \in Instrs /\ Eval(i, m) \in Seq(Instrs)
  BY OpTypes, EvalTypes
<1>2. <<Op(i)>> \in Seq(Instrs) /\ Leads(<<Op(i)>>, X)
  BY <1>1 DEF Leads, Op, Instr
<1> QED
  BY <1>1, <1>2, EvalLeads, LeadsConcat

LEMMA TestLeads ==
  ASSUME TypeOK, NEW X, NEW i \in Nat, NEW m \in 0..1,
         NEW b \in Blocks, NEW c \in Blocks, b \in X, c \in X
  PROVE  Leads(Eval(i, m) \o <<CondBr(i, b, c)>>, X)
<1>1. CondBr(i, b, c) \in Instrs /\ Eval(i, m) \in Seq(Instrs)
  BY BranchTypes, EvalTypes
<1>2. <<CondBr(i, b, c)>> \in Seq(Instrs) /\ Leads(<<CondBr(i, b, c)>>, X)
  BY <1>1 DEF Leads, CondBr
<1> QED
  BY <1>1, <1>2, EvalLeads, LeadsConcat

LEMMA ReturnLeads ==
  ASSUME TypeOK, NEW X, NEW v \in {"none", "scalar"} \cup AllRetValues
  PROVE  Leads(ReturnCode(v), X)
<1> DEFINE e == Eval(Here, IF v = "temp" THEN 1 ELSE 0)
           r == RetInstr(v)
           p == [k \in 1..Len(frees) |-> Free(Here, frees[k])]
           q == [l \in 1..TextLocals |-> Free(Here, -l)]
<1>1. Here \in Nat /\ frees \in Seq(Nat) /\ (IF v = "temp" THEN 1 ELSE 0) \in 0..1
  BY HereTypes DEF TypeOK
<1>2. e \in Seq(Instrs) /\ Leads(e, X)
  BY <1>1, EvalTypes, EvalLeads
<1>3. p \in Seq(Instrs) /\ Leads(p, X)
  <2>1. \A k \in 1..Len(frees) : Free(Here, frees[k]) \in Instrs
    <3> SUFFICES ASSUME NEW k \in 1..Len(frees)
                 PROVE  Free(Here, frees[k]) \in Instrs
      OBVIOUS
    <3>1. frees[k] \in Int
      BY <1>1, ElementOfSeq
    <3> QED
      BY <1>1, <3>1, InstrTypes
  <2>2. \A k \in 1..Len(frees) :
          Free(Here, frees[k]).yes = NoBlock /\ Free(Here, frees[k]).no = NoBlock
    BY DEF Free, Instr
  <2> QED
    BY <1>1, <2>1, <2>2, LenProperties DEF Leads
<1>4. q \in Seq(Instrs) /\ Leads(q, X)
  <2>1. \A l \in 1..TextLocals : Free(Here, -l) \in Instrs
    BY <1>1, TextLocalsAssumption, InstrTypes
  <2>2. \A l \in 1..TextLocals : Free(Here, -l).yes = NoBlock /\ Free(Here, -l).no = NoBlock
    BY DEF Free, Instr
  <2> QED
    BY <2>1, <2>2, TextLocalsAssumption DEF Leads
<1>5. r \in Seq(Instrs) /\ Leads(r, X)
  <2>1. ValueSlot(v) \in Int
    BY <1>1 DEF ValueSlot
  <2>2. /\ Ret(Here, 0) \in Instrs /\ New(Here, Here) \in Instrs
        /\ Ret(Here, Here) \in Instrs /\ Ret(Here, ValueSlot(v)) \in Instrs
    BY <1>1, <2>1, InstrTypes
  <2>3. r \in Seq(Instrs)
    BY <2>2 DEF RetInstr, AllRetValues
  <2> QED
    BY <2>3 DEF RetInstr, Leads, Ret, New, Instr
<1>6. ReturnCode(v) = (e \o (p \o q)) \o r
  BY DEF ReturnCode, FreeTexts
<1> HIDE DEF e, r, p, q
<1>7. p \o q \in Seq(Instrs) /\ Leads(p \o q, X)
  BY <1>3, <1>4, ConcatProperties, LeadsConcat
<1>8. e \o (p \o q) \in Seq(Instrs) /\ Leads(e \o (p \o q), X)
  BY <1>2, <1>7, ConcatProperties, LeadsConcat
<1> QED
  BY <1>5, <1>6, <1>8, LeadsConcat

(* Where a branch may lead while the sub is compiled: to a block of the    *)
(* function, or to one that a visit in progress will place.                *)
Destinations ==
  (placed \cup UNION {Pending(frames[i]) : i \in 1..Len(frames)}) \ {Entry}

TargetInv == \A b \in Blocks : Leads(code[b], Destinations)

LEMMA DestinationsPush ==
  ASSUME TypeInv, NEW f \in Frame, frames' = Append(frames, f),
         placed \subseteq placed', Pending(f) \subseteq 2..created'
  PROVE  /\ Destinations \subseteq Destinations'
         /\ placed' \ {Entry} \subseteq Destinations'
         /\ Pending(f) \subseteq Destinations'
<1>1. /\ frames \in Seq(Frame) /\ Len(frames) \in Nat
      /\ Len(frames') = Len(frames) + 1
      /\ \A i \in 1..Len(frames) : frames'[i] = frames[i]
      /\ frames'[Len(frames) + 1] = f
  <2>1. frames \in Seq(Frame)
    BY DEF TypeInv, TypeOK
  <2> QED
    BY <2>1, AppendProperties, LenProperties
<1>2. \A i \in 1..Len(frames) : i \in 1..Len(frames') /\ frames'[i] = frames[i]
  BY <1>1
<1>3. Len(frames) + 1 \in 1..Len(frames') /\ Entry \notin Pending(f)
  BY <1>1 DEF Entry
<1>4. Destinations' = (placed' \cup UNION {Pending(frames'[i]) : i \in 1..Len(frames')})
                        \ {Entry}
  BY DEF Destinations, Pending
<1> QED
  BY <1>1, <1>2, <1>3, <1>4 DEF Destinations

LEMMA DestinationsPop ==
  ASSUME TypeInv, frames # <<>>, frames' = Pop,
         placed \subseteq placed', Pending(Top) \subseteq placed'
  PROVE  /\ Destinations \subseteq Destinations'
         /\ placed' \ {Entry} \subseteq Destinations'
<1>1. /\ Len(frames) \in Nat \ {0} /\ Len(frames') = Len(frames) - 1
      /\ \A i \in 1..Len(frames') : frames'[i] = frames[i]
  BY TopTypes
<1>2. \A i \in 1..Len(frames) : i \in 1..Len(frames') \/ i = Len(frames)
  BY <1>1
<1>3. Destinations' = (placed' \cup UNION {Pending(frames'[i]) : i \in 1..Len(frames')})
                        \ {Entry}
  BY DEF Destinations, Pending
<1>4. \A i \in 1..Len(frames) :
        Pending(frames[i]) \subseteq placed' \cup
          UNION {Pending(frames'[j]) : j \in 1..Len(frames')}
  <2> SUFFICES ASSUME NEW i \in 1..Len(frames)
               PROVE  Pending(frames[i]) \subseteq placed' \cup
                        UNION {Pending(frames'[j]) : j \in 1..Len(frames')}
    OBVIOUS
  <2>1. CASE i = Len(frames)
    BY <2>1 DEF Top
  <2>2. CASE i \in 1..Len(frames')
    BY <1>1, <2>2
  <2> QED
    BY <1>2, <2>1, <2>2
<1> QED
  BY <1>3, <1>4 DEF Destinations

LEMMA DestinationsElse ==
  ASSUME TypeInv, EnterElse
  PROVE  Destinations \subseteq Destinations' /\ Top.leave \in Destinations'
<1>1. /\ frames # <<>> /\ Len(frames) \in Nat \ {0} /\ Len(frames') = Len(frames)
      /\ \A i \in 1..(Len(frames) - 1) : frames'[i] = frames[i]
      /\ frames'[Len(frames)] = [Top EXCEPT !.kind = "else"]
      /\ Top \in Frame /\ Top = frames[Len(frames)]
  BY TopTypes, ElseFrames DEF TypeInv, TypeOK, EnterElse, Top
<1>2. /\ Pending(frames'[Len(frames)]) = {Top.leave}
      /\ Pending(Top) = {Top.leave, Top.els} /\ placed' = placed \cup {Top.els}
  BY <1>1 DEF EnterElse, Pending, Frame
<1>3. Top.leave # Entry
  BY <1>1, TopTypes DEF FrameOK, Entry
<1>4. Destinations' = (placed' \cup UNION {Pending(frames'[i]) : i \in 1..Len(frames')})
                        \ {Entry}
  BY DEF Destinations, Pending
<1>5. Len(frames) \in 1..Len(frames')
  BY <1>1
<1>6. \A i \in 1..Len(frames) :
        Pending(frames[i]) \subseteq placed' \cup
          UNION {Pending(frames'[j]) : j \in 1..Len(frames')}
  <2> SUFFICES ASSUME NEW i \in 1..Len(frames)
               PROVE  Pending(frames[i]) \subseteq placed' \cup
                        UNION {Pending(frames'[j]) : j \in 1..Len(frames')}
    OBVIOUS
  <2>1. CASE i = Len(frames)
    BY <1>1, <1>2, <1>5, <2>1
  <2>2. CASE i # Len(frames)
    <3>1. i \in 1..(Len(frames) - 1) /\ i \in 1..Len(frames')
      BY <1>1, <2>2
    <3> QED
      BY <1>1, <3>1
  <2> QED
    BY <2>1, <2>2
<1> QED
  BY <1>2, <1>3, <1>4, <1>5, <1>6 DEF Destinations

LEMMA TargetStep ==
  ASSUME TypeInv, TypeInv', TargetInv, [Next]_vars,
         LoopKinds \subseteq {"while", "times", "doWhile"}
  PROVE  TargetInv'
<1>1. TypeOK /\ insert \in Blocks /\ Here \in Nat /\ created \in Nat \ {0}
      /\ code \in [Blocks -> Seq(Instrs)] /\ Blocks \subseteq Nat \ {0}
  BY HereTypes, BlocksFacts DEF TypeInv, TypeOK
<1>2. ASSUME Destinations \subseteq Destinations'
      PROVE  \A b \in Blocks : Leads(code[b], Destinations')
  BY <1>2, LeadsMore DEF TargetInv
<1>3. ASSUME UNCHANGED <<placed, frames>>
      PROVE  Destinations' = Destinations
  BY <1>3 DEF Destinations, Pending
<1>4. ASSUME NEW s \in Seq(Instrs), code' = Emit(code, insert, s),
             Leads(s, Destinations), UNCHANGED <<placed, frames>>
      PROVE  TargetInv'
  BY <1>1, <1>3, <1>4, EmitLeads DEF TargetInv
<1>5. ASSUME NEW b \in Blocks, Destinations \subseteq Destinations', b \in Destinations'
      PROVE  /\ JumpTo(b) \in [Blocks -> Seq(Instrs)]
             /\ \A d \in Blocks : Leads(JumpTo(b)[d], Destinations')
  <2>1. <<Br(Here, b)>> \in Seq(Instrs) /\ Leads(<<Br(Here, b)>>, Destinations')
    BY <1>1, <1>5, JumpCode DEF Leads, Br
  <2> QED
    BY <1>1, <1>2, <1>5, <2>1, EmitLeads, JumpTypes DEF JumpTo
<1>6. ASSUME NEW m \in 0..1, Statement(m)
      PROVE  TargetInv'
  <2>1. /\ Eval(Here, m) \o <<Op(Here)>> \in Seq(Instrs)
        /\ Leads(Eval(Here, m) \o <<Op(Here)>>, Destinations)
    BY <1>1, StatementOpen, StatementLeads
  <2> QED
    BY <1>4, <1>6, <2>1 DEF Statement
<1>7. ASSUME NEW hasElse \in BOOLEAN, NEW m \in 0..1, EnterIf(hasElse, m)
      PROVE  TargetInv'
  <2> DEFINE els == IF hasElse THEN created + 3 ELSE created + 1
             f == [kind |-> "then", at |-> Here, cond |-> NoBlock,
                   body |-> created + 2, els |-> els, leave |-> created + 1,
                   before |-> current]
             t == Eval(Here, m) \o <<CondBr(Here, created + 2, els)>>
  <2>1. /\ frames' = Append(frames, f) /\ placed' = placed \cup {created + 2}
        /\ code' = Emit(code, insert, t)
        /\ created' = IF hasElse THEN created + 3 ELSE created + 2
    BY <1>7 DEF EnterIf
  <2>2. /\ created + 1 \in Blocks /\ created + 2 \in Blocks /\ els \in Blocks
        /\ f \in Frame
    BY <1>1, <1>7, RoomForBlocks DEF EnterIf, TypeOK, Frame, FrameKinds
  <2>3. Pending(f) = {created + 1, els} /\ Pending(f) \subseteq 2..created'
    BY <1>1, <2>1 DEF Pending
  <2>4. created + 2 \in placed' \ {Entry}
    BY <1>1, <2>1 DEF Entry
  <2> HIDE DEF f, els
  <2>5. /\ Destinations \subseteq Destinations'
        /\ created + 2 \in Destinations' /\ els \in Destinations'
    BY <2>1, <2>2, <2>3, <2>4, DestinationsPush
  <2>6. t \in Seq(Instrs) /\ Leads(t, Destinations')
    BY <1>1, <2>2, <2>5, TestCloses, TestLeads
  <2> HIDE DEF t
  <2> QED
    BY <1>1, <1>2, <2>1, <2>5, <2>6, EmitLeads DEF TargetInv
<1>8. CASE EnterElse
  <2>1. /\ frames # <<>> /\ Top.leave \in Blocks /\ code' = JumpTo(Top.leave)
        /\ Destinations \subseteq Destinations' /\ Top.leave \in Destinations'
    BY <1>8, TopTypes, DestinationsElse DEF EnterElse
  <2> QED
    BY <1>5, <2>1 DEF TargetInv
<1>9. CASE EndIf
  <2>1. /\ frames # <<>> /\ Top.leave \in Blocks /\ Top.leave # Entry
        /\ Top.kind = "else" \/ (Top.kind = "then" /\ Top.els = Top.leave)
    BY <1>9, TopTypes DEF EndIf, FrameOK, Entry
  <2>2. /\ frames' = Pop /\ placed' = placed \cup {Top.leave}
        /\ code' = JumpTo(Top.leave)
    BY <1>9 DEF EndIf, Rejoin
  <2>3. Pending(Top) \subseteq placed'
    BY <2>1, <2>2 DEF Pending
  <2>4. Destinations \subseteq Destinations' /\ Top.leave \in Destinations'
    BY <2>1, <2>2, <2>3, DestinationsPop
  <2> QED
    BY <1>5, <2>1, <2>2, <2>4 DEF TargetInv
<1>10. ASSUME NEW kind \in LoopKinds, NEW m \in 0..1,
              EnterTestedLoop(kind, m) \/ EnterOtherLoop(kind)
       PROVE  TargetInv'
  <2> DEFINE f == [kind |-> kind, at |-> Here, cond |-> created + 1,
                   body |-> created + 2, els |-> NoBlock, leave |-> created + 3,
                   before |-> current]
             t == Eval(Here, m) \o <<CondBr(Here, created + 2, created + 3)>>
  <2>1. /\ frames' = Append(frames, f) /\ created' = created + 3
        /\ placed \subseteq placed' /\ created + 2 \in placed'
    BY <1>10 DEF EnterTestedLoop, EnterOtherLoop
  <2>2. /\ created + 1 \in Blocks /\ created + 2 \in Blocks /\ created + 3 \in Blocks
        /\ f \in Frame
    BY <1>1, <1>10, RoomForBlocks, LoopKindsAssumption
       DEF EnterTestedLoop, EnterOtherLoop, TypeOK, Frame, FrameKinds
  <2>3. Pending(f) \subseteq 2..created' /\ created + 3 \in Pending(f)
    BY <1>1, <2>1 DEF Pending
  <2>4. created + 2 \in placed' \ {Entry} /\ created + 1 # Entry
    BY <1>1, <2>1 DEF Entry
  <2> HIDE DEF f
  <2>5. /\ Destinations \subseteq Destinations'
        /\ created + 2 \in Destinations' /\ created + 3 \in Destinations'
    BY <2>1, <2>2, <2>3, <2>4, DestinationsPush
  <2>6. CASE EnterTestedLoop(kind, m)
    <3>1. created + 1 \in placed' \ {Entry}
      BY <2>4, <2>6 DEF EnterTestedLoop
    <3>2. created + 1 \in Destinations'
      BY <2>1, <2>2, <2>3, <3>1, DestinationsPush
    <3>3. code' = Emit(JumpTo(created + 1), created + 1, t)
      BY <2>6 DEF EnterTestedLoop
    <3>4. t \in Seq(Instrs) /\ Leads(t, Destinations')
      BY <1>1, <2>2, <2>5, TestCloses, TestLeads
    <3>5. /\ JumpTo(created + 1) \in [Blocks -> Seq(Instrs)]
          /\ \A d \in Blocks : Leads(JumpTo(created + 1)[d], Destinations')
      BY <1>5, <2>2, <2>5, <3>2
    <3> HIDE DEF t
    <3> QED
      BY <2>2, <3>3, <3>4, <3>5, EmitLeads DEF TargetInv
  <2>7. CASE EnterOtherLoop(kind)
    BY <1>2, <2>5, <2>7 DEF EnterOtherLoop, TargetInv
  <2> QED
    BY <1>10, <2>6, <2>7
<1>11. ASSUME NEW m \in 0..1, EndLoop(m)
       PROVE  TargetInv'
  <2>1. /\ frames # <<>> /\ Top.leave \in Blocks /\ Top.body \in Blocks
        /\ Top.cond \in Blocks /\ FrameOK(Top, placed, created)
        /\ Top.kind \in {"while", "times", "doWhile"}
    BY <1>11, TopTypes DEF EndLoop, FrameOK, AllLoopKinds
  <2>2. /\ Top.leave # Entry /\ Top.body \in placed \ {Entry} /\ Top.cond # Entry
        /\ Top.kind # "doWhile" => Top.cond \in placed
    BY <2>1 DEF FrameOK, Entry, AllLoopKinds
  <2>3. /\ frames' = Pop /\ placed \subseteq placed' /\ Top.leave \in placed'
        /\ Top.kind = "doWhile" => Top.cond \in placed'
    BY <1>11 DEF EndLoop, Rejoin
  <2>4. Pending(Top) \subseteq placed'
    BY <2>1, <2>3 DEF Pending
  <2>5. /\ Destinations \subseteq Destinations' /\ Top.leave \in Destinations'
        /\ Top.body \in Destinations' /\ Top.cond \in Destinations'
    BY <2>1, <2>2, <2>3, <2>4, DestinationsPop
  <2>6. /\ JumpTo(Top.cond) \in [Blocks -> Seq(Instrs)]
        /\ \A d \in Blocks : Leads(JumpTo(Top.cond)[d], Destinations')
    BY <1>5, <2>1, <2>5
  <2>7. CASE Top.kind # "doWhile"
    BY <1>11, <2>6, <2>7 DEF EndLoop, TargetInv
  <2>8. CASE Top.kind = "doWhile"
    <3> DEFINE t == Eval(Here, m) \o <<CondBr(Here, Top.body, Top.leave)>>
    <3>1. t \in Seq(Instrs) /\ Leads(t, Destinations')
      BY <1>1, <2>1, <2>5, TestCloses, TestLeads
    <3>2. code' = Emit(JumpTo(Top.cond), Top.cond, t)
      BY <1>11, <2>8 DEF EndLoop
    <3> HIDE DEF t
    <3> QED
      BY <2>1, <2>6, <3>1, <3>2, EmitLeads DEF TargetInv
  <2> QED
    BY <2>7, <2>8
<1>12. ASSUME NEW v \in {"none", "scalar"} \cup RetValues, ReturnStatement(v)
       PROVE  TargetInv'
  <2>1. v \in {"none", "scalar"} \cup AllRetValues
    BY RetAssumption
  <2>2. ReturnCode(v) \in Seq(Instrs) /\ Leads(ReturnCode(v), Destinations)
    BY <1>1, <2>1, ReturnCodeEnds, ReturnLeads
  <2> QED
    BY <1>4, <1>12, <2>2 DEF ReturnStatement, Return
<1>13. CASE Finish
  <2>1. CASE hasReturn
    BY <1>3, <1>13, <2>1 DEF Finish, TargetInv
  <2>2. CASE ~hasReturn
    <3>1. ReturnCode("none") \in Seq(Instrs) /\ Leads(ReturnCode("none"), Destinations)
      BY <1>1, ReturnCodeEnds, ReturnLeads
    <3> QED
      BY <1>4, <1>13, <2>2, <3>1 DEF Finish, Return
  <2> QED
    BY <2>1, <2>2
<1>14. CASE Terminated \/ UNCHANGED vars
  BY <1>3, <1>14 DEF Terminated, vars, TargetInv
<1> QED
  BY <1>6, <1>7, <1>8, <1>9, <1>10, <1>11, <1>12, <1>13, <1>14 DEF Next, Step

(* The visit is over only when no if or loop is in progress.               *)
DoneOutside == phase = "done" => frames = <<>>

LEMMA DoneOutsideHolds == Spec => []DoneOutside
<1>1. Init => DoneOutside
  BY DEF Init, DoneOutside
<1>2. DoneOutside /\ [Next]_vars => DoneOutside'
  BY DEF DoneOutside, Next, Step, Statement, EnterIf, EnterElse, EndIf, EnterTestedLoop,
         EnterOtherLoop, EndLoop, ReturnStatement, Finish, Terminated, MayOpen,
         MayReturn, vars
<1> QED
  BY <1>1, <1>2, PTL DEF Spec

(* When a sub is compiled every branch leads to a block of the function    *)
(* other than its entry, if the visitor knows each of its loop commands.   *)
THEOREM TargetsCorrect ==
  ASSUME LoopKinds \subseteq {"while", "times", "doWhile"}
  PROVE  Spec => []TargetsPlaced
<1>1. Init => TargetInv
  <2> SUFFICES ASSUME Init, NEW b \in Blocks PROVE Leads(code[b], Destinations)
    BY DEF TargetInv
  <2>1. CASE b # Entry
    BY <2>1 DEF Init, Leads
  <2>2. CASE b = Entry
    <3>1. code[b] = InitLocals
      BY <2>2 DEF Init
    <3>2. \A l \in 1..TextLocals : New(0, -l).yes = NoBlock /\ New(0, -l).no = NoBlock
      BY DEF New, Instr
    <3> QED
      BY <3>1, <3>2, TextLocalsAssumption DEF InitLocals, Leads
  <2> QED
    BY <2>1, <2>2
<1>2. TypeInv /\ TypeInv' /\ TargetInv /\ [Next]_vars => TargetInv'
  BY TargetStep
<1>3. TypeInv /\ TargetInv /\ DoneOutside => TargetsPlaced
  <2> SUFFICES ASSUME TypeInv, TargetInv, frames = <<>>, NEW b \in placed
               PROVE  Targets(b) \subseteq placed \ {Entry}
    BY DEF TargetsPlaced, DoneOutside
  <2>1. Destinations = placed \ {Entry}
    BY EmptySeq DEF Destinations
  <2>2. Leads(code[b], placed \ {Entry})
    BY <2>1, HereTypes DEF TargetInv, TypeInv
  <2>3. \A x \in Targets(b) : x # NoBlock /\ \E i \in 1..Len(code[b]) :
          x \in {code[b][i].yes, code[b][i].no}
    BY BlocksFacts DEF Targets
  <2> QED
    BY <2>2, <2>3 DEF Leads
<1> QED
  BY <1>1, <1>2, <1>3, TypeInvHolds, DoneOutsideHolds, PTL DEF Spec

-----------------------------------------------------------------------------
(* Well-formed subs.  Without early returns, and when a sub with a result  *)
(* type has a return at its top level, the insertion block is open until   *)
(* that return closes it, and nothing is visited after it.                 *)
PlainInv ==
  /\ \A b \in Blocks : Single(code[b])
  /\ phase = "visit" /\ ~hasReturn => Open(code[insert])
  /\ phase = "done" \/ hasReturn => Closed(code[insert]) /\ frames = <<>>

(* A visit that closes the insertion block and goes on in an empty one.    *)
LEMMA PlainMove ==
  ASSUME TypeInv, TypeInv', PlainInv, phase = "visit", ~hasReturn,
         phase' = phase, hasReturn' = hasReturn,
         NEW t \in Seq(Instrs), Single(t), code'[insert] = code[insert] \o t,
         \A d \in Blocks \ {insert} : Single(code'[d]), code'[insert'] = <<>>
  PROVE  PlainInv'
<1>1. insert \in Blocks /\ code[insert] \in Seq(Instrs)
  BY HereTypes DEF TypeInv, TypeOK
<1>2. Single(code'[insert])
  BY <1>1, SingleConcat DEF PlainInv
<1>3. \A b \in Blocks : Single(code'[b])
  BY <1>2
<1>4. Open(code'[insert'])
  BY DEF Open
<1> QED
  BY <1>3, <1>4 DEF PlainInv, Single, Open

(* The same by a branch from the insertion block.                          *)
LEMMA PlainJump ==
  ASSUME TypeInv, TypeInv', PlainInv, phase = "visit", ~hasReturn,
         phase' = phase, hasReturn' = hasReturn, NEW b \in Blocks,
         code' = JumpTo(b), insert' \in Blocks, insert' # insert, code[insert'] = <<>>
  PROVE  PlainInv'
<1>1. /\ <<Br(Here, b)>> \in Seq(Instrs) /\ Single(<<Br(Here, b)>>)
      /\ code'[insert] = code[insert] \o <<Br(Here, b)>>
      /\ \A d \in Blocks \ {insert} : code'[d] = code[d]
  BY JumpCode, BranchCloses DEF TypeInv
<1>2. \A d \in Blocks \ {insert} : Single(code'[d])
  BY <1>1 DEF PlainInv
<1>3. code'[insert'] = <<>>
  BY <1>1
<1> QED
  BY <1>1, <1>2, <1>3, PlainMove

LEMMA PlainStep ==
  ASSUME TypeInv, TypeInv', CurrentInv, FreshInv, PlainInv, [Next]_vars,
         LoopKinds \subseteq {"while", "times"}, Shapes = {}
  PROVE  PlainInv'
<1>1. /\ TypeOK /\ insert \in Blocks /\ insert \in placed /\ Here \in Nat
      /\ code \in [Blocks -> Seq(Instrs)] /\ created \in Nat \ {0}
      /\ placed \subseteq 1..created
  BY HereTypes DEF TypeInv, TypeOK
<1>2. MayOpen => phase = "visit" /\ ~hasReturn
  BY DEF MayOpen
<1>3. phase = "visit" /\ frames # <<>> => ~hasReturn
  BY DEF PlainInv
<1>4. ASSUME NEW s \in Seq(Instrs), code' = Emit(code, insert, s), Single(s),
             Open(code[insert])
      PROVE  /\ \A b \in Blocks : Single(code'[b])
             /\ Closed(s) => Closed(code'[insert])
             /\ Open(s) => Open(code'[insert])
  <2>1. /\ code'[insert] = code[insert] \o s
        /\ \A d \in Blocks \ {insert} : code'[d] = code[d]
        /\ code[insert] \in Seq(Instrs)
    BY <1>1, <1>4, GrowsInsert
  <2>2. Single(code[insert] \o s)
    BY <1>4, <2>1, SingleConcat
  <2>3. Closed(s) => Closed(code[insert] \o s)
    BY <2>1, ClosedConcat
  <2>4. Open(s) => Open(code[insert] \o s)
    BY <1>4, <2>1, OpenConcat
  <2> QED
    BY <2>1, <2>2, <2>3, <2>4 DEF PlainInv
<1>5. ASSUME NEW m \in 0..1, Statement(m)
      PROVE  PlainInv'
  <2>1. /\ phase = "visit" /\ ~hasReturn /\ phase' = "visit" /\ ~hasReturn'
        /\ insert' = insert
    BY <1>2, <1>5 DEF Statement
  <2>2. /\ Eval(Here, m) \o <<Op(Here)>> \in Seq(Instrs)
        /\ Open(Eval(Here, m) \o <<Op(Here)>>)
        /\ Single(Eval(Here, m) \o <<Op(Here)>>)
    BY <1>1, StatementOpen, OpenIsSingle
  <2>3. code' = Emit(code, insert, Eval(Here, m) \o <<Op(Here)>>)
    BY <1>5 DEF Statement
  <2> QED
    BY <1>4, <2>1, <2>2, <2>3 DEF PlainInv, Single, Open
<1>6. ASSUME NEW hasElse \in BOOLEAN, NEW m \in 0..1, EnterIf(hasElse, m)
      PROVE  PlainInv'
  <2>1. PICK t \in Seq(Instrs) :
          /\ Single(t) /\ code'[insert] = code[insert] \o t
          /\ \A d \in Blocks \ {insert} : code'[d] = code[d]
    BY <1>1, <1>6, EnterIfCode
  <2>2. /\ phase = "visit" /\ ~hasReturn /\ phase' = phase /\ hasReturn' = hasReturn
        /\ insert' = created + 2 /\ created + 2 \in Blocks \ placed
    BY <1>1, <1>2, <1>6, RoomForBlocks DEF EnterIf
  <2>3. code'[insert'] = <<>> /\ \A d \in Blocks \ {insert} : Single(code'[d])
    BY <1>1, <2>1, <2>2 DEF FreshInv, PlainInv
  <2> QED
    BY <2>1, <2>2, <2>3, PlainMove
<1>7. CASE EnterElse
  <2>1. /\ frames # <<>> /\ Top.leave \in Blocks /\ Top.els \in Blocks
        /\ insert' = Top.els /\ code' = JumpTo(Top.leave) /\ phase = "visit"
        /\ phase' = phase /\ hasReturn' = hasReturn
    BY <1>7, TopTypes DEF EnterElse
  <2>2. Len(frames) \in 1..Len(frames) /\ Top.els \in Pending(Top)
    BY <1>7, <2>1, TopTypes DEF EnterElse, Pending
  <2>3. Top.els \notin placed
    BY <2>2 DEF FreshInv, Top
  <2> QED
    BY <1>1, <1>3, <2>1, <2>3, PlainJump DEF FreshInv
<1>8. CASE EndIf
  <2>1. /\ frames # <<>> /\ Top.leave \in Blocks
        /\ insert' = Top.leave /\ code' = JumpTo(Top.leave) /\ phase = "visit"
        /\ phase' = phase /\ hasReturn' = hasReturn
    BY <1>8, TopTypes DEF EndIf, Rejoin
  <2>2. Len(frames) \in 1..Len(frames) /\ Top.leave \in Pending(Top)
    BY <2>1, TopTypes DEF Pending
  <2>3. Top.leave \notin placed
    BY <2>2 DEF FreshInv, Top
  <2> QED
    BY <1>1, <1>3, <2>1, <2>3, PlainJump DEF FreshInv
<1>9. ASSUME NEW kind \in LoopKinds, NEW m \in 0..1, EnterTestedLoop(kind, m)
      PROVE  PlainInv'
  <2>1. PICK t \in Seq(Instrs) :
          /\ Single(t) /\ code'[insert] = code[insert] \o <<Br(Here, created + 1)>>
          /\ code'[created + 1] = code[created + 1] \o t
          /\ code[created + 1] \in Seq(Instrs)
          /\ \A d \in Blocks \ {insert, created + 1} : code'[d] = code[d]
    BY <1>1, <1>9, EnterLoopCode
  <2>2. /\ phase = "visit" /\ ~hasReturn /\ phase' = phase /\ hasReturn' = hasReturn
        /\ insert' = created + 2
        /\ created + 1 \in Blocks \ placed /\ created + 2 \in Blocks \ placed
    BY <1>1, <1>2, <1>9, RoomForBlocks DEF EnterTestedLoop
  <2>3. code'[insert'] = <<>>
    <3>1. insert' \in Blocks \ {insert, created + 1} /\ insert' \notin placed
      BY <1>1, <2>2
    <3>2. code'[insert'] = code[insert']
      BY <2>1, <3>1
    <3> QED
      BY <3>1, <3>2 DEF FreshInv
  <2>4. code[created + 1] = <<>>
    BY <2>2 DEF FreshInv
  <2>5. Single(code'[created + 1])
    <3>1. Open(code[created + 1])
      BY <2>4 DEF Open
    <3> QED
      BY <2>1, <3>1, SingleConcat
  <2>6. \A d \in Blocks \ {insert} : Single(code'[d])
    BY <2>1, <2>5 DEF PlainInv
  <2>7. <<Br(Here, created + 1)>> \in Seq(Instrs) /\ Single(<<Br(Here, created + 1)>>)
    BY <1>1, <2>2, JumpCode, BranchCloses
  <2> QED
    BY <2>1, <2>2, <2>3, <2>6, <2>7, PlainMove
<1>10. ASSUME NEW kind \in LoopKinds, EnterOtherLoop(kind)
       PROVE  PlainInv'
  BY <1>10 DEF EnterOtherLoop
<1>11. ASSUME NEW m \in 0..1, EndLoop(m)
       PROVE  PlainInv'
  <2>1. frames # <<>> /\ Top.kind # "doWhile" /\ Top.leave \in Blocks /\ Top.cond \in Blocks
    BY <1>11, TopTypes DEF EndLoop, FrameOK
  <2>2. /\ insert' = Top.leave /\ code' = JumpTo(Top.cond) /\ phase = "visit"
        /\ phase' = phase /\ hasReturn' = hasReturn
    BY <1>11, <2>1 DEF EndLoop, Rejoin
  <2>3. Len(frames) \in 1..Len(frames) /\ Top.leave \in Pending(Top)
    BY <2>1, TopTypes DEF Pending
  <2>4. Top.leave \notin placed
    BY <2>3 DEF FreshInv, Top
  <2> QED
    BY <1>1, <1>3, <2>1, <2>2, <2>4, PlainJump DEF FreshInv
<1>12. ASSUME NEW v \in {"none", "scalar"} \cup RetValues, ReturnStatement(v)
       PROVE  PlainInv'
  <2>1. frames = <<>> /\ ~hasReturn /\ phase = "visit"
    BY <1>12 DEF ReturnStatement, MayReturn
  <2>2. v # "none" \/ retType = "void"
    BY <1>12, RetAssumption DEF ReturnStatement, ValuesOf, AllRetValues
  <2>3. v \in {"none", "scalar"} \cup AllRetValues
    BY RetAssumption
  <2>4. /\ ReturnCode(v) \in Seq(Instrs) /\ Single(ReturnCode(v))
        /\ Closed(ReturnCode(v))
    BY <1>1, <2>2, <2>3, ReturnCodeEnds
  <2>5. /\ code' = Emit(code, insert, ReturnCode(v)) /\ insert' = insert
        /\ hasReturn' /\ frames' = frames /\ phase' = phase
    BY <1>12, <2>1 DEF ReturnStatement, Return, CurrentInv, CurrentIsInnermost
  <2> QED
    BY <1>4, <2>1, <2>4, <2>5 DEF PlainInv, Single, Closed
<1>13. CASE Finish
  <2>1. frames = <<>> /\ phase = "visit" /\ (retType = "void" \/ hasReturn)
        /\ phase' = "done" /\ insert' = insert /\ frames' = frames
    BY <1>13 DEF Finish
  <2>2. CASE hasReturn
    BY <1>13, <2>1, <2>2 DEF Finish, PlainInv, Single, Closed
  <2>3. CASE ~hasReturn
    <3>1. /\ ReturnCode("none") \in Seq(Instrs) /\ Single(ReturnCode("none"))
          /\ Closed(ReturnCode("none"))
      BY <1>1, <2>1, <2>3, ReturnCodeEnds
    <3>2. code' = Emit(code, insert, ReturnCode("none"))
      BY <1>13, <2>3 DEF Finish, Return
    <3> QED
      BY <1>4, <2>1, <2>3, <3>1, <3>2 DEF PlainInv, Single, Closed
  <2> QED
    BY <2>2, <2>3
<1>14. CASE Terminated \/ UNCHANGED vars
  BY <1>14 DEF Terminated, vars, PlainInv, Single, Open, Closed
<1> QED
  BY <1>5, <1>6, <1>7, <1>8, <1>9, <1>10, <1>11, <1>12, <1>13, <1>14 DEF Next, Step

(* A sub without early returns, whose loops all test before their bodies   *)
(* and which returns at its top level if it has a result, compiles to a    *)
(* well-formed function, however long it is and however it nests.          *)
THEOREM WellFormedCorrect ==
  ASSUME LoopKinds \subseteq {"while", "times"}, Shapes = {}
  PROVE  Spec => []WellFormed
<1>1. Init => PlainInv
  <2> SUFFICES ASSUME Init PROVE PlainInv
    OBVIOUS
  <2>1. Open(InitLocals) /\ InitLocals \in Seq(Instrs)
    <3>1. \A l \in 1..TextLocals : New(0, -l) \in Instrs /\ ~IsTerminator(New(0, -l))
      BY TextLocalsAssumption, InstrTypes DEF New, Instr, IsTerminator
    <3> QED
      BY <3>1, TextLocalsAssumption DEF InitLocals, Open
  <2>2. \A b \in Blocks : Open(code[b]) /\ code[b] \in Seq(Instrs)
    BY <2>1, EmptySeq DEF Init, Open
  <2> QED
    BY <2>2, OpenIsSingle, BlocksFacts DEF Init, PlainInv
<1>2. /\ TypeInv /\ TypeInv' /\ CurrentInv /\ FreshInv /\ PlainInv /\ [Next]_vars
      => PlainInv'
  BY PlainStep
<1>3. Spec => []CurrentInv
  BY CurrentInvHolds
<1>4. TypeInv /\ ClosedBehind /\ PlainInv /\ TargetsPlaced => WellFormed
  <2> SUFFICES ASSUME TypeInv, ClosedBehind, PlainInv, TargetsPlaced, phase = "done"
               PROVE  (\A b \in placed : EndsInTerminator(b)) /\ OneTerminator
    BY DEF WellFormed
  <2>1. \A b \in placed : EndsInTerminator(b)
    BY DEF ClosedBehind, PlainInv, EndsInTerminator, Closed
  <2>2. 1..created \subseteq Blocks
    BY MaxLenAssumption DEF TypeInv, TypeOK, Blocks, MaxBlocks
  <2> QED
    BY <2>1, <2>2 DEF OneTerminator, PlainInv, Single
<1>5. LoopKinds \subseteq {"while", "times", "doWhile"}
  OBVIOUS
<1> QED
  BY <1>1, <1>2, <1>3, <1>4, <1>5, TypeInvHolds, FreshHolds, ClosedCorrect,
     TargetsCorrect, PTL DEF Spec
=============================================================================
