---------------------------- MODULE TreeVisitors ----------------------------
(***************************************************************************)
(* The order in which DumpVisitor (src/src/test.cpp) and ECompiler         *)
(* (src/src/compiler.h) reach the nodes of the tree that SubCodeParser     *)
(* builds.  A walk is the sequence of the tokens reached.                  *)
(***************************************************************************)
EXTENDS SubCodeParser, SequencesExt

Optional(walk, part) == IF part = NoNode THEN <<>> ELSE walk[part]

(* DumpVisitor.  A judge prints each condition with the block of the same  *)
(* index, then its default.  (Mutated form: the default comes first.)      *)
DumpJudgeBack(walk, judge) ==
  Optional(walk, judge.default_block)
    \o FlattenSeq([k \in DOMAIN judge.conditions |->
                     <<judge.conditions[k]>> \o walk[judge.blocks[k]]])
DumpJudge(walk, judge) ==
  FlattenSeq([k \in DOMAIN judge.conditions |->
                <<judge.conditions[k]>> \o walk[judge.blocks[k]]])
    \o Optional(walk, judge.default_block)

DumpNode(walk, i) ==
  CASE Kind(i) = "judge" -> DumpJudge(walk, judges[i])
    [] Kind(i) = "line" -> <<i>>
    [] Kind(i) \in {"if", "ifTrue"} -> <<i>> \o walk[i] \o Optional(walk, elses[i])
    [] Kind(i) = "loop" -> <<i>> \o walk[i]
                            \o (IF tails[i] = NoNode THEN <<>> ELSE <<tails[i]>>)

Dumped ==
  LET Dump[b \in DOMAIN blocks] ==
        LET stmts == SelectSeq(blocks[b], LAMBDA i : i # NoNode)
        IN  FlattenSeq([k \in DOMAIN stmts |-> DumpNode(Dump, stmts[k])])
  IN  Dump[Program]

(* ECompiler: the nodes it comes to, the else of an if, and for the last   *)
(* stretch of the visit of node i the number -i.  visit(ASTJudge) is the   *)
(* empty method of Visitor.  (Mutated form: the else comes first.)         *)
CompileNodeElse(walk, i) ==
  CASE Kind(i) = "judge" -> <<>>
    [] Kind(i) = "line" -> <<i>>
    [] OTHER -> <<i>> \o (IF Kind(i) = "loop" \/ elses[i] = NoNode THEN <<>>
                         ELSE <<elses[i]>> \o walk[elses[i]])
                \o walk[i] \o <<-i>>
CompileNode(walk, i) ==
  CASE Kind(i) = "judge" -> <<>>
    [] Kind(i) = "line" -> <<i>>
    [] OTHER -> <<i>> \o walk[i]
                \o (IF Kind(i) = "loop" \/ elses[i] = NoNode THEN <<>>
                   ELSE <<elses[i]>> \o walk[elses[i]])
                \o <<-i>>

Compiled ==
  LET Visit[b \in DOMAIN blocks] ==
        FlattenSeq([k \in DOMAIN blocks[b] |-> CompileNode(Visit, blocks[b][k])])
  IN  Visit[Program]

-----------------------------------------------------------------------------
(* A dump shows every statement, every condition and every loop tail of    *)
(* the sub once, in the order of its code.                                 *)
DumpInOrder ==
  AtEnd => Lists(Dumped, {i \in 1..Len(stream) :
                            stream[i] \in (Statements \ {"judge"}) \cup {"case", "tail"}})

InJudge(i) == \E j \in DOMAIN judges : j < i /\ ~\E k \in (j + 1)..(i - 1) :
                 stream[k] = "endjudge" /\ Owner(k) = j

(* The tree is compiled as the sub is written: the statements, elses and   *)
(* ends that no judge encloses are come to in the order of the stream,     *)
(* each node ends before the one around it, and so what the visitor hands  *)
(* to Emitter as prog is the stream.  A tree with a null statement, which  *)
(* the visitor would call, is excepted.                                    *)
NoNulls == \A b \in DOMAIN blocks : \A k \in DOMAIN blocks[b] : blocks[b][k] # NoNode
Visited == (Statements \ {"judge"}) \cup {"else"} \cup (Enders \ {"endjudge"})
CompiledInOrder ==
  AtEnd /\ NoNulls =>
    LET kept == SelectSeq([i \in 1..Len(stream) |-> i],
                          LAMBDA i : stream[i] \in Visited /\ ~InJudge(i))
    IN  Compiled = [k \in DOMAIN kept |->
                      IF stream[kept[k]] \in Enders THEN -Owner(kept[k]) ELSE kept[k]]
=============================================================================
