-------------------------- MODULE StructuredProgram --------------------------
(***************************************************************************)
(* What a compiled sub promises: its statements run in the order the       *)
(* source gives them.  The specification knows the token stream of the     *)
(* sub and nothing of basic blocks.                                        *)
(*                                                                         *)
(* Only some tokens take part in a run: "op" (an assignment or a call),    *)
(* "if", "while" and "times" (a test before the branches), the "endloop"   *)
(* of a "doWhile" (a test after them), "ret", and the implicit return at   *)
(* Len(prog) + 1.  The others only say where control goes next.            *)
(***************************************************************************)
EXTENDS Integers, Sequences

VARIABLES
  prog,    (* the sub's token stream, empty until it is compiled           *)
  at,      (* the token that is about to run, Loading or Halted            *)
  taken    (* how the last test came out                                   *)

vars == <<prog, at, taken>>

Loading == 0
Halted == -1
Tested == {"while", "times"}

Token == [tok : {"op", "if", "else", "endif", "ret", "endloop", "while",
                 "times", "doWhile", "other"}, at : Nat]

(* The position of the token tok that belongs to the node opened at i.     *)
Partner(p, i, tok) == CHOOSE k \in 1..Len(p) : p[k].tok = tok /\ p[k].at = i
HasElse(p, i) == \E k \in 1..Len(p) : p[k].tok = "else" /\ p[k].at = i

(* The token that runs when control reaches position i.                    *)
Landing(p, i) ==
  LET From[k \in 1..(Len(p) + 1)] ==
        IF k > Len(p) THEN k
        ELSE CASE p[k].tok = "else" -> From[Partner(p, p[k].at, "endif") + 1]
               [] p[k].tok \in {"endif", "doWhile", "other"} -> From[k + 1]
               [] p[k].tok = "endloop" /\ p[p[k].at].tok \in Tested -> p[k].at
               [] OTHER -> k
  IN  From[i]

(* Where a test sends control.                                             *)
WhenTrue(p, i) == IF p[i].tok = "endloop" THEN Landing(p, p[i].at + 1)
                                          ELSE Landing(p, i + 1)
WhenFalse(p, i) ==
  CASE p[i].tok \in Tested -> Landing(p, Partner(p, i, "endloop") + 1)
    [] p[i].tok = "endloop" -> Landing(p, i + 1)
    [] p[i].tok = "if" /\ HasElse(p, i) -> Landing(p, Partner(p, i, "else") + 1)
    [] OTHER -> Landing(p, Partner(p, i, "endif") + 1)

IsTest(p, i) == i <= Len(p) /\ p[i].tok \in Tested \cup {"if", "endloop"}
IsReturn(p, i) == i > Len(p) \/ p[i].tok = "ret"

-----------------------------------------------------------------------------
Init == prog = <<>> /\ at = Loading /\ taken = FALSE

Load ==
  /\ at = Loading
  /\ prog' \in Seq(Token)
  /\ at' = Landing(prog', 1)
  /\ UNCHANGED taken

Statement ==
  /\ at > 0
  /\ ~IsTest(prog, at) /\ ~IsReturn(prog, at)
  /\ at' = Landing(prog, at + 1)
  /\ UNCHANGED <<prog, taken>>

Test ==
  /\ at > 0
  /\ IsTest(prog, at)
  /\ taken' \in BOOLEAN
  /\ at' = IF taken' THEN WhenTrue(prog, at) ELSE WhenFalse(prog, at)
  /\ UNCHANGED prog

Return ==
  /\ at > 0
  /\ IsReturn(prog, at)
  /\ at' = Halted
  /\ UNCHANGED <<prog, taken>>

Next == Load \/ Statement \/ Test \/ Return

Spec == Init /\ [][Next]_vars
=============================================================================
