----------------------------- MODULE IRExecution -----------------------------
(***************************************************************************)
(* A run of the IR that Emitter emits for a sub, with the state of every   *)
(* text the sub owns.  The phase "visit" of Emitter is the compilation;    *)
(* once it is "done" Call enters the entry block and Execute steps through *)
(* the blocks.  A test may come out either way.                            *)
(*                                                                         *)
(* The texts live in the runtime library the sub links with: "new" stands  *)
(* for String_Init on a local and for a call whose text result is stored   *)
(* in a temporary, "free" for String_Free.                                 *)
(***************************************************************************)
EXTENDS Emitter

VARIABLES
  status,   (* "compiling", "running", "halted", or "stuck" behind the end  *)
            (* of a block without a terminator                              *)
  blk, ip,  (* the block and the instruction in it that is next             *)
  taken,    (* how the last conditional branch came out                     *)
  mem       (* text slots: "raw" until stored to, "live", "dead" once freed *)

ivars == <<status, blk, ip, taken, mem>>
allvars == <<vars, ivars>>

Slots == (-TextLocals)..(Len(prog) + 1)

InitRun ==
  /\ Init
  /\ status = "compiling"
  /\ blk = Entry /\ ip = 1
  /\ taken = FALSE
  /\ mem = <<>>

Compile == Step /\ UNCHANGED ivars

Call ==
  /\ status = "compiling"
  /\ phase = "done"
  /\ status' = "running"
  /\ mem' = [s \in Slots |-> "raw"]
  /\ UNCHANGED <<vars, blk, ip, taken>>

(* The instruction about to be executed.                                   *)
AtEnd == ip > Len(code[blk])
Current == code[blk][ip]
Running(op) == status = "running" /\ ~AtEnd /\ Current.op = op

Goto(b) == blk' = b /\ ip' = 1
Advance == blk' = blk /\ ip' = ip + 1

ExecuteOp ==
  /\ Running("op")
  /\ Advance
  /\ UNCHANGED <<vars, status, taken, mem>>

(* A store to the text's alloca.                                           *)
ExecuteNew ==
  /\ Running("new")
  /\ Advance
  /\ mem' = [mem EXCEPT ![Current.slot] = "live"]
  /\ UNCHANGED <<vars, status, taken>>

ExecuteFree ==
  /\ Running("free")
  /\ Advance
  /\ mem' = [mem EXCEPT ![Current.slot] = "dead"]
  /\ UNCHANGED <<vars, status, taken>>

ExecuteBr ==
  /\ Running("br")
  /\ Goto(Current.yes)
  /\ UNCHANGED <<vars, status, taken, mem>>

ExecuteCondBr(outcome) ==
  /\ Running("condbr")
  /\ taken' = outcome
  /\ Goto(IF outcome THEN Current.yes ELSE Current.no)
  /\ UNCHANGED <<vars, status, mem>>

ExecuteRet ==
  /\ Running("ret")
  /\ status' = "halted"
  /\ UNCHANGED <<vars, blk, ip, taken, mem>>

(* The block has no terminator: what runs next is not in the sub.          *)
FallOffBlock ==
  /\ status = "running"
  /\ AtEnd
  /\ status' = "stuck"
  /\ UNCHANGED <<vars, blk, ip, taken, mem>>

Execute ==
  \/ ExecuteOp
  \/ ExecuteNew
  \/ ExecuteFree
  \/ ExecuteBr
  \/ \E outcome \in BOOLEAN : ExecuteCondBr(outcome)
  \/ ExecuteRet
  \/ FallOffBlock

(* The run is over.                                                        *)
Stopped == status \in {"halted", "stuck"} /\ UNCHANGED allvars

NextRun == Compile \/ Call \/ Execute \/ Stopped

SpecRun == InitRun /\ [][NextRun]_allvars

(* The loops of the program end: a loop's test that is reached again and   *)
(* again is false in the end.  Nothing else that runs may stop on its own. *)
LoopTest(b) == blk = b /\ Running("condbr") /\ prog[Current.id].tok # "if"

FairRun ==
  /\ SpecRun
  /\ WF_allvars(Compile \/ Call \/ Execute)
  /\ \A b \in Blocks : SF_allvars(LoopTest(b) /\ ExecuteCondBr(FALSE))

-----------------------------------------------------------------------------
(* The refinement.  Where the run stands in the source: the node of the    *)
(* next instruction behind any unconditional branches.                     *)

Lost == -2

Start[n \in Nat] ==
  [b \in Blocks \cup {NoBlock} |->
     IF n = 0 \/ b \notin placed \/ code[b] = <<>> THEN Lost
     ELSE IF code[b][1].op = "br" THEN Start[n - 1][code[b][1].yes]
     ELSE code[b][1].id]

Position ==
  IF AtEnd THEN Lost
  ELSE IF Current.op = "br" THEN Start[created][Current.yes]
  ELSE Current.id

Src == INSTANCE StructuredProgram WITH
         prog  <- IF status = "compiling" \/ (status = "running" /\ Position = 0)
                  THEN <<>> ELSE prog,
         at    <- CASE status = "compiling" -> 0
                    [] status = "running"   -> Position
                    [] status = "halted"    -> -1
                    [] OTHER                -> Lost,
         taken <- taken

(* The emitted blocks run the statements of the sub in source order: every *)
(* test is followed by the branch it selects, a loop returns to its test,  *)
(* the code behind an if or a loop is reached from every way out of it.    *)
RunsTheSource == Src!Spec

(* Every loop can be left and every path leads to a return.                *)
Halts == <>(status = "halted")

-----------------------------------------------------------------------------
(* Texts.  A slot is unconditional when it is stored to on every path      *)
(* through the sub: a local, or a temporary of a statement that no if or   *)
(* loop encloses (their tests included).                                   *)
Unconditional(s) == s < 0 \/ (s > 0 /\ Depth(s) = 0)

(* Return releases each unconditional text while it holds a live text: no  *)
(* text is released twice, and none before it was stored.                  *)
FreedWhileLive ==
  Running("free") /\ Unconditional(Current.slot) => mem[Current.slot] = "live"

(* The text a sub returns is not released before its caller gets it.       *)
ReturnedAlive ==
  Running("ret") /\ Current.slot # 0 => mem[Current.slot] = "live"

(* When the sub is left, every unconditional text has been released except *)
(* the one the caller now owns.                                            *)
NothingLeaks ==
  status = "halted" =>
    \A s \in DOMAIN mem :
      Unconditional(s) /\ mem[s] = "live" => s = Current.slot

(* Loop l of the token stream p encloses node i, or node i is its test.    *)
Encloses(p, l, i) ==
  /\ l \in 1..Len(p) /\ l <= i /\ p[l].tok \in AllLoopKinds
  /\ \A e \in 1..Len(p) : p[e].tok = "endloop" /\ p[e].at = l => i <= e

(* frees remembers one release per call in the source, not per execution:  *)
(* a live text is overwritten, and so lost, only by a call inside a loop   *)
(* or in its test, never by one behind a loop that is finished.            *)
LostOnlyInLoops ==
  Running("new") /\ mem[Current.slot] = "live" =>
    \E l \in 1..Len(prog) : Encloses(prog, l, Current.id)

(* No text is released that this run has not stored: what the IR verifier  *)
(* asks as "a definition dominates its uses".                              *)
FreesStored == Running("free") => mem[Current.slot] # "raw"
=============================================================================
