-------------------------- MODULE IRRefinementProofs --------------------------
(***************************************************************************)
(* The blocks the emitter emits run the statements of the sub in source    *)
(* order: IRExecution implements StructuredProgram.                        *)
(*                                                                         *)
(* The argument.  A function h gives every block the position of the       *)
(* source it begins at; from there its instructions stand one behind the   *)
(* other.  The emitter keeps this true: each branch it emits goes where    *)
(* the source goes from the position it stands at, or to a block that an   *)
(* if or loop in progress will place at the right position.  A run then    *)
(* stands at the position of its next instruction, behind any branches.    *)
(*                                                                         *)
(* With returns in the middle the last block of a sub may have no          *)
(* terminator.  No run gets there: no jump leads over a return outside of  *)
(* all ifs and loops, the fence.                                           *)
(*                                                                         *)
(* Landing and Start are recursive functions.  That they satisfy their     *)
(* equations follows without induction from the fact that a set of numbers *)
(* has a least element.                                                    *)
(***************************************************************************)
EXTENDS IRExecutionProofs, WellFoundedInduction

Tested == {"while", "times"}
Closing == {"endif", "endloop"}

(* The token stream p and the visits F in progress.                        *)
Marks(p, tok, i) == {e \in 1..Len(p) : p[e].tok = tok /\ p[e].at = i}

(* The stream is well nested so far: a mark belongs to an opener in front  *)
(* of it, each opener has at most one mark of a kind, an else waits for    *)
(* its endif, and the frames are the openers whose marks are still to      *)
(* come.                                                                   *)
StreamOK(p, F) ==
  /\ \A d \in 1..Len(F) :
       /\ F[d].at \in 1..Len(p)
       /\ p[F[d].at].tok = IF F[d].kind \in {"then", "else"} THEN "if" ELSE F[d].kind
       /\ \A tok \in Closing : Marks(p, tok, F[d].at) = {}
       /\ F[d].kind # "else" => Marks(p, "else", F[d].at) = {}
       /\ \A e \in 1..Len(F) : d < e => F[d].at < F[e].at
  /\ \A e \in 1..Len(p) :
       /\ p[e].tok \in Closing \cup {"else"} =>
            /\ p[e].at \in 1..Len(p)
            /\ Marks(p, p[e].tok, p[e].at) = {e}
       /\ p[e].tok = "endloop" => p[p[e].at].tok \in LoopKinds
       /\ p[e].tok = "else" =>
            \/ \E g \in Marks(p, "endif", p[e].at) : g > e
            \/ \E d \in 1..Len(F) : F[d].at = p[e].at /\ F[d].kind = "else"

(* Control goes from position q to position r without running anything;    *)
(* the false edge of test i goes to r; i runs.                             *)
Goes(p, q, r) ==
  \/ p[q].tok = "endif" /\ r = q + 1
  \/ p[q].tok = "else" /\ \E e \in Marks(p, "endif", p[q].at) : r = e + 1
  \/ p[q].tok = "endloop" /\ r = p[q].at
  \/ p[q].tok \in Tested /\ r = q

(* The false edge of test i goes to r.                                     *)
Skips(p, i, r) ==
  \/ p[i].tok \in Tested /\ \E e \in Marks(p, "endloop", i) : r = e + 1
  \/ p[i].tok = "if" /\ \E e \in Marks(p, "else", i) : r = e + 1
  \/ /\ p[i].tok = "if" /\ Marks(p, "else", i) = {}
     /\ \E e \in Marks(p, "endif", i) : r = e + 1

(* A run does something at i; ph is the phase of the emitter.              *)
Runs(p, i, ph) ==
  \/ i \in 1..Len(p) /\ p[i].tok \in {"op", "ret", "if"} \cup Tested
  \/ i = Len(p) + 1 /\ ph = "done"

(* The position in front of instruction k of a block that begins at q.     *)
After(x) == CASE x.op \in {"op", "ret"} -> x.id + 1
              [] x.id = 0 -> 1
              [] OTHER -> x.id
At(s, q, k) == IF k = 1 THEN q ELSE After(s[k - 1])

(* The blocks that do not begin with a branch.                             *)
Began(c) == {b \in Blocks : c[b] # <<>> /\ c[b][1].op # "br"}

(* A branch of block b at position q to y.                                 *)
JumpFits(p, F, h, P, C, b, q, y) ==
  /\ q \in 1..Len(p)
  /\ \/ y \in P /\ Goes(p, q, h[y])
     \/ \E d \in 1..Len(F) : /\ F[d].kind = "else" /\ y = F[d].leave
                             /\ p[q].tok = "else" /\ p[q].at = F[d].at
  /\ y < b \/ y \in C

(* The target of the false edge of the test of frame f.                    *)
Other(f) == IF f.kind = "then" THEN f.els ELSE f.leave

(* The conditional branch x of the test at i: yes is what follows the      *)
(* test, no is where its false edge goes, or the block that frame waits to *)
(* place.                                                                  *)
TestFits(p, F, h, P, i, x) ==
  /\ i \in 1..Len(p) /\ p[i].tok \in {"if"} \cup Tested
  /\ x.yes \in P /\ h[x.yes] = i + 1
  /\ \/ x.no \in P /\ Skips(p, i, h[x.no])
     \/ \E d \in 1..Len(F) : F[d].at = i /\ F[d].kind # "else" /\ x.no = Other(F[d])

(* Instruction k of s belongs where it stands: it has the number of its    *)
(* position, what runs there is of its kind, and a branch goes where the   *)
(* source goes.                                                            *)
InstrFits(p, F, h, P, C, ph, b, s, q, k) ==
  LET x == s[k]
      i == At(s, q, k)
  IN
  /\ x.op \in {"op", "condbr", "ret"} => x.id = i /\ Runs(p, i, ph)
  /\ x.op \in {"new", "free"} =>
       \/ x.id = 0 /\ i = 1 /\ b = Entry
       \/ /\ x.id = i /\ Runs(p, i, ph)
          /\ k < Len(s) /\ s[k + 1].id = i /\ s[k + 1].op # "br"
  /\ x.op = "op" => i \in 1..Len(p) /\ p[i].tok = "op"
  /\ x.op = "ret" /\ i \in 1..Len(p) => p[i].tok = "ret"
  /\ x.op = "condbr" => TestFits(p, F, h, P, i, x)
  /\ x.op = "br" => JumpFits(p, F, h, P, C, b, i, x.yes)

BlockFits(p, F, h, P, C, ph, b, s, q) ==
  \A k \in 1..Len(s) : InstrFits(p, F, h, P, C, ph, b, s, q, k)

(* The blocks a visit in progress will place are numbered in the order of  *)
(* the frames, and the block of a loop's test stands at the loop.          *)
FramesFit(F, h, P, C, n) ==
  \A d \in 1..Len(F) :
    /\ F[d].kind \in {"then", "else"} => F[d].leave < n
    /\ F[d].kind = "then" => F[d].leave <= F[d].els
    /\ F[d].kind \in Tested => F[d].cond \in P \cap C /\ h[F[d].cond] = F[d].at
    /\ \A e \in 1..Len(F) : d < e => F[d].leave < F[e].leave

(* h gives every placed block its position in the source, and what has     *)
(* been emitted fits it.                                                   *)
Fitted(h) ==
  /\ h \in [Blocks -> Nat]
  /\ Entry \in placed /\ h[Entry] = 1
  /\ \A b \in placed :
       BlockFits(prog, frames, h, placed, Began(code), phase, b, code[b], h[b])
  /\ FramesFit(frames, h, placed, Began(code), insert)
  /\ phase = "visit" \/ ~Closed(code[insert]) =>
       At(code[insert], h[insert], Len(code[insert]) + 1) = Len(prog) + 1

(* What a visit may change so that what has been emitted still fits.       *)
Moves(p, F, h, P, C, p2, F2, h2, P2, C2) ==
  /\ Len(p) <= Len(p2) /\ \A i \in 1..Len(p) : p2[i] = p[i]
  /\ P \subseteq P2 /\ C \subseteq C2
  /\ \A b \in P : h2[b] = h[b]
  /\ \A i \in 1..Len(p) : \A r : Goes(p, i, r) => Goes(p2, i, r)
  /\ \A i \in 1..Len(p) : \A r : Skips(p, i, r) => Skips(p2, i, r)
  /\ \A d \in 1..Len(F) : F[d].kind = "else" =>
       \/ \E e \in 1..Len(F2) : /\ F2[e].kind = "else" /\ F2[e].leave = F[d].leave
                                /\ F2[e].at = F[d].at
       \/ /\ F[d].leave \in P2
          /\ \A i \in Marks(p, "else", F[d].at) : Goes(p2, i, h2[F[d].leave])
  /\ \A d \in 1..Len(F) : F[d].kind # "else" =>
       \/ \E e \in 1..Len(F2) : /\ F2[e].kind # "else" /\ F2[e].at = F[d].at
                                /\ Other(F2[e]) = Other(F[d])
       \/ Other(F[d]) \in P2 /\ Skips(p2, F[d].at, h2[Other(F[d])])

-----------------------------------------------------------------------------
(* What fits keeps fitting when a visit moves on: branches, tests and      *)
(* blocks.                                                                 *)
LEMMA JumpKeeps ==
  ASSUME NEW p, NEW F, NEW h, NEW P, NEW C, NEW p2, NEW F2, NEW h2, NEW P2, NEW C2,
         Len(p) \in Nat, Len(p2) \in Nat,
         Moves(p, F, h, P, C, p2, F2, h2, P2, C2),
         NEW b, NEW q, NEW y, JumpFits(p, F, h, P, C, b, q, y)
  PROVE  JumpFits(p2, F2, h2, P2, C2, b, q, y)
<1>1. q \in 1..Len(p) /\ q \in 1..Len(p2) /\ p2[q] = p[q] /\ (y < b \/ y \in C2)
  BY DEF Moves, JumpFits
<1>2. CASE y \in P /\ Goes(p, q, h[y])
  <2>1. y \in P2 /\ h2[y] = h[y] /\ Goes(p2, q, h[y])
    BY <1>1, <1>2 DEF Moves
  <2> QED
    BY <1>1, <2>1 DEF JumpFits
<1>3. ASSUME NEW d \in 1..Len(F), F[d].kind = "else", y = F[d].leave,
             p[q].tok = "else", p[q].at = F[d].at
      PROVE  JumpFits(p2, F2, h2, P2, C2, b, q, y)
  <2>1. q \in Marks(p, "else", F[d].at)
    BY <1>1, <1>3 DEF Marks
  <2>2. CASE F[d].leave \in P2
             /\ \A i \in Marks(p, "else", F[d].at) : Goes(p2, i, h2[F[d].leave])
    BY <1>1, <1>3, <2>1, <2>2 DEF JumpFits
  <2>3. CASE \E e \in 1..Len(F2) : /\ F2[e].kind = "else" /\ F2[e].leave = F[d].leave
                                   /\ F2[e].at = F[d].at
    <3>1. \E e \in 1..Len(F2) : /\ F2[e].kind = "else" /\ y = F2[e].leave
                                /\ p2[q].tok = "else" /\ p2[q].at = F2[e].at
      BY <1>1, <1>3, <2>3
    <3> QED
      BY <1>1, <3>1 DEF JumpFits
  <2> QED
    BY <1>3, <2>2, <2>3 DEF Moves
<1> QED
  BY <1>2, <1>3 DEF JumpFits

LEMMA TestKeeps ==
  ASSUME NEW p, NEW F, NEW h, NEW P, NEW C, NEW p2, NEW F2, NEW h2, NEW P2, NEW C2,
         Len(p) \in Nat, Len(p2) \in Nat,
         Moves(p, F, h, P, C, p2, F2, h2, P2, C2),
         NEW i, NEW x, TestFits(p, F, h, P, i, x)
  PROVE  TestFits(p2, F2, h2, P2, i, x)
<1>1. /\ i \in 1..Len(p) /\ i \in 1..Len(p2) /\ p2[i] = p[i]
      /\ p2[i].tok \in {"if"} \cup Tested
      /\ x.yes \in P2 /\ h2[x.yes] = i + 1
  BY DEF Moves, TestFits
<1>2. CASE x.no \in P /\ Skips(p, i, h[x.no])
  <2>1. x.no \in P2 /\ h2[x.no] = h[x.no] /\ Skips(p2, i, h[x.no])
    BY <1>1, <1>2 DEF Moves
  <2> QED
    BY <1>1, <2>1 DEF TestFits
<1>3. ASSUME NEW d \in 1..Len(F), F[d].at = i, F[d].kind # "else", x.no = Other(F[d])
      PROVE  TestFits(p2, F2, h2, P2, i, x)
  <2>1. CASE Other(F[d]) \in P2 /\ Skips(p2, F[d].at, h2[Other(F[d])])
    BY <1>1, <1>3, <2>1 DEF TestFits
  <2>2. CASE \E e \in 1..Len(F2) : /\ F2[e].kind # "else" /\ F2[e].at = F[d].at
                                   /\ Other(F2[e]) = Other(F[d])
    <3>1. \E e \in 1..Len(F2) : F2[e].at = i /\ F2[e].kind # "else" /\ x.no = Other(F2[e])
      BY <1>3, <2>2
    <3> QED
      BY <1>1, <3>1 DEF TestFits
  <2> QED
    BY <1>3, <2>1, <2>2 DEF Moves
<1> QED
  BY <1>2, <1>3 DEF TestFits

LEMMA BlockKeeps ==
  ASSUME NEW p, NEW F, NEW h, NEW P, NEW C, NEW p2, NEW F2, NEW h2, NEW P2, NEW C2,
         Len(p) \in Nat, Len(p2) \in Nat,
         Moves(p, F, h, P, C, p2, F2, h2, P2, C2), NEW ph,
         NEW b, NEW s, NEW q, BlockFits(p, F, h, P, C, "visit", b, s, q)
  PROVE  BlockFits(p2, F2, h2, P2, C2, ph, b, s, q)
<1> SUFFICES ASSUME NEW k \in 1..Len(s)
             PROVE  InstrFits(p2, F2, h2, P2, C2, ph, b, s, q, k)
  BY DEF BlockFits
<1>1. InstrFits(p, F, h, P, C, "visit", b, s, q, k)
  BY DEF BlockFits
<1> DEFINE x == s[k]
           i == At(s, q, k)
<1>2. Runs(p, i, "visit") => /\ i \in 1..Len(p) /\ i \in 1..Len(p2)
                             /\ p2[i] = p[i] /\ Runs(p2, i, ph)
  BY DEF Runs, Moves
<1>3. x.op = "condbr" => TestFits(p2, F2, h2, P2, i, x)
  BY <1>1, TestKeeps DEF InstrFits
<1>4. x.op = "br" => JumpFits(p2, F2, h2, P2, C2, b, i, x.yes)
  BY <1>1, JumpKeeps DEF InstrFits
<1> HIDE DEF i
<1>5. /\ x.op \in {"op", "condbr", "ret"} => x.id = i /\ Runs(p, i, "visit")
      /\ x.op \in {"new", "free"} =>
           \/ x.id = 0 /\ i = 1 /\ b = Entry
           \/ /\ x.id = i /\ Runs(p, i, "visit")
              /\ k < Len(s) /\ s[k + 1].id = i /\ s[k + 1].op # "br"
      /\ x.op = "op" => i \in 1..Len(p) /\ p[i].tok = "op"
      /\ x.op = "ret" /\ i \in 1..Len(p) => p[i].tok = "ret"
  BY <1>1 DEF InstrFits, i
<1> HIDE DEF x
<1>6. /\ x.op \in {"op", "condbr", "ret"} => x.id = i /\ Runs(p2, i, ph)
      /\ x.op \in {"new", "free"} =>
           \/ x.id = 0 /\ i = 1 /\ b = Entry
           \/ /\ x.id = i /\ Runs(p2, i, ph)
              /\ k < Len(s) /\ s[k + 1].id = i /\ s[k + 1].op # "br"
      /\ x.op = "op" => i \in 1..Len(p2) /\ p2[i].tok = "op"
      /\ x.op = "ret" /\ i \in 1..Len(p2) => p2[i].tok = "ret"
  BY <1>2, <1>5
<1> QED
  BY <1>3, <1>4, <1>6 DEF InstrFits, i, x

-----------------------------------------------------------------------------
(* One more token.                                                         *)
LEMMA MarksAppend ==
  ASSUME NEW p \in Seq(Token), NEW t \in Token
  PROVE  /\ \A tok, i : t.tok # tok \/ t.at # i =>
                         Marks(Append(p, t), tok, i) = Marks(p, tok, i)
         /\ Marks(Append(p, t), t.tok, t.at) = Marks(p, t.tok, t.at) \cup {Len(p) + 1}
         /\ \A tok, i : Marks(p, tok, i) \subseteq Marks(Append(p, t), tok, i)
         /\ Len(Append(p, t)) = Len(p) + 1 /\ Len(p) \in Nat
         /\ \A i \in 1..Len(p) : Append(p, t)[i] = p[i]
         /\ Append(p, t)[Len(p) + 1] = t
<1>1. /\ Len(Append(p, t)) = Len(p) + 1 /\ Len(p) \in Nat
      /\ \A i \in 1..Len(p) : Append(p, t)[i] = p[i]
      /\ Append(p, t)[Len(p) + 1] = t
  BY AppendProperties, LenProperties
<1> DEFINE r == Append(p, t)
<1> HIDE DEF r
<1>2. \A e : e \in 1..(Len(p) + 1) <=> e \in 1..Len(p) \/ e = Len(p) + 1
  BY <1>1
<1>3. r[Len(p) + 1] = t /\ Len(r) = Len(p) + 1 /\ \A e \in 1..Len(p) : r[e] = p[e]
  BY <1>1 DEF r
<1>4. ASSUME NEW tok, NEW i, NEW e
      PROVE  e \in Marks(r, tok, i) <=>
               e \in Marks(p, tok, i) \/ (e = Len(p) + 1 /\ t.tok = tok /\ t.at = i)
  BY <1>2, <1>3 DEF Marks
<1>5. ASSUME NEW tok, NEW i, t.tok # tok \/ t.at # i
      PROVE  Marks(r, tok, i) = Marks(p, tok, i)
  <2>1. \A e : e \in Marks(r, tok, i) <=> e \in Marks(p, tok, i)
    BY <1>4, <1>5
  <2> QED
    BY <2>1
<1>6. Marks(r, t.tok, t.at) = Marks(p, t.tok, t.at) \cup {Len(p) + 1}
  BY <1>4
<1>7. ASSUME NEW tok, NEW i PROVE Marks(p, tok, i) \subseteq Marks(r, tok, i)
  BY <1>4
<1> QED
  BY <1>1, <1>5, <1>6, <1>7 DEF r

(* A token appended to the stream changes nothing for the tokens before    *)
(* it.                                                                     *)
LEMMA StreamMoves ==
  ASSUME NEW p \in Seq(Token), NEW t \in Token,
         t.tok = "else" => \A tok \in Closing : Marks(p, tok, t.at) = {}
  PROVE  /\ \A i \in 1..Len(p) : \A r : Goes(p, i, r) => Goes(Append(p, t), i, r)
         /\ \A i \in 1..Len(p) : \A r : Skips(p, i, r) => Skips(Append(p, t), i, r)
<1> DEFINE p2 == Append(p, t)
<1>1. \A i \in 1..Len(p) : p2[i] = p[i]
  BY MarksAppend
<1>2. \A tok, i : Marks(p, tok, i) \subseteq Marks(p2, tok, i)
  BY MarksAppend
<1>3. \A i : Marks(p, "else", i) = {} /\ Marks(p, "endif", i) # {} => Marks(p2, "else", i) = {}
  <2> SUFFICES ASSUME NEW i, Marks(p, "else", i) = {}, Marks(p, "endif", i) # {}
               PROVE  Marks(p2, "else", i) = {}
    OBVIOUS
  <2>1. ~(t.tok = "else" /\ t.at = i)
    BY DEF Closing
  <2>2. Marks(p2, "else", i) = Marks(p, "else", i)
    BY <2>1, MarksAppend
  <2> QED
    BY <2>2
<1> HIDE DEF p2
<1>4. \A i \in 1..Len(p) : \A r : Goes(p, i, r) => Goes(p2, i, r)
  BY <1>1, <1>2 DEF Goes
<1>5. \A i \in 1..Len(p) : \A r : Skips(p, i, r) => Skips(p2, i, r)
  BY <1>1, <1>2, <1>3 DEF Skips
<1> QED
  BY <1>4, <1>5 DEF p2

(* What each kind of token makes of the stream.                            *)
LEMMA OpenStream ==
  ASSUME NEW p \in Seq(Token), NEW F \in Seq(Frame), StreamOK(p, F),
         NEW tok, tok \notin Closing \cup {"else"},
         NEW t \in Token, t.tok = tok, NEW F2 \in Seq(Frame),
         \/ F2 = F
         \/ \E f \in Frame : /\ F2 = Append(F, f) /\ f.at = Len(p) + 1 /\ f.kind # "else"
                             /\ tok = IF f.kind = "then" THEN "if" ELSE f.kind
  PROVE  StreamOK(Append(p, t), F2)
<1> DEFINE p2 == Append(p, t)
<1>0. \A y : y \in Closing \cup {"else"} => t.tok # y
  OBVIOUS
<1>1. /\ \A y, i : y \in Closing \cup {"else"} => Marks(p2, y, i) = Marks(p, y, i)
      /\ Len(p2) = Len(p) + 1 /\ Len(p) \in Nat
      /\ \A i \in 1..Len(p) : p2[i] = p[i]
      /\ p2[Len(p) + 1] = t
  BY <1>0, MarksAppend
<1> HIDE DEF p2
<1>2. ASSUME NEW e \in 1..Len(p2), p2[e].tok \in Closing \cup {"else"}
      PROVE  e \in 1..Len(p) /\ p2[e] = p[e]
  BY <1>1, <1>2
<1>3. \A y \in Closing \cup {"else"} : Marks(p2, y, Len(p) + 1) = {}
  <2> SUFFICES ASSUME NEW y \in Closing \cup {"else"}, NEW e \in Marks(p, y, Len(p) + 1)
               PROVE  FALSE
    BY <1>1
  <2>1. e \in 1..Len(p) /\ p[e].tok = y /\ p[e].at = Len(p) + 1
    BY DEF Marks
  <2>2. p[e].at \in 1..Len(p)
    BY <2>1 DEF StreamOK
  <2> QED
    BY <1>1, <2>1, <2>2
<1>4. \A d \in 1..Len(F) :
        /\ F[d].at \in 1..Len(p2) /\ F[d].at \in 1..Len(p)
        /\ p2[F[d].at].tok = IF F[d].kind \in {"then", "else"} THEN "if" ELSE F[d].kind
        /\ \A y \in Closing : Marks(p2, y, F[d].at) = {}
        /\ F[d].kind # "else" => Marks(p2, "else", F[d].at) = {}
        /\ \A e \in 1..Len(F) : d < e => F[d].at < F[e].at
  <2> SUFFICES ASSUME NEW d \in 1..Len(F)
               PROVE  /\ F[d].at \in 1..Len(p2) /\ F[d].at \in 1..Len(p)
                      /\ p2[F[d].at].tok = IF F[d].kind \in {"then", "else"} THEN "if" ELSE F[d].kind
                      /\ \A y \in Closing : Marks(p2, y, F[d].at) = {}
                      /\ F[d].kind # "else" => Marks(p2, "else", F[d].at) = {}
                      /\ \A e \in 1..Len(F) : d < e => F[d].at < F[e].at
    OBVIOUS
  <2>1. /\ F[d].at \in 1..Len(p)
        /\ p[F[d].at].tok = IF F[d].kind \in {"then", "else"} THEN "if" ELSE F[d].kind
        /\ \A y \in Closing : Marks(p, y, F[d].at) = {}
        /\ F[d].kind # "else" => Marks(p, "else", F[d].at) = {}
        /\ \A e \in 1..Len(F) : d < e => F[d].at < F[e].at
    BY DEF StreamOK
  <2>2. F[d].at \in 1..Len(p2) /\ p2[F[d].at] = p[F[d].at]
    BY <1>1, <2>1
  <2>3. \A y \in Closing \cup {"else"} : Marks(p2, y, F[d].at) = Marks(p, y, F[d].at)
    BY <1>1
  <2> HIDE DEF Closing
  <2> QED
    BY <2>1, <2>2, <2>3
<1>5. \A d \in 1..Len(F) : \E e \in 1..Len(F2) : F2[e] = F[d]
  <2>1. CASE F2 = F
    BY <2>1
  <2>2. ASSUME NEW f \in Frame, F2 = Append(F, f)
        PROVE  \A d \in 1..Len(F) : \E e \in 1..Len(F2) : F2[e] = F[d]
    <3>1. Len(F2) = Len(F) + 1 /\ Len(F) \in Nat /\ \A d \in 1..Len(F) : F2[d] = F[d]
      BY <2>2, AppendProperties, LenProperties
    <3> QED
      BY <3>1
  <2> QED
    BY <2>1, <2>2
<1>6. \A e \in 1..Len(p2) :
       /\ p2[e].tok \in Closing \cup {"else"} =>
            /\ p2[e].at \in 1..Len(p2)
            /\ Marks(p2, p2[e].tok, p2[e].at) = {e}
       /\ p2[e].tok = "endloop" => p2[p2[e].at].tok \in LoopKinds
       /\ p2[e].tok = "else" =>
            \/ \E g \in Marks(p2, "endif", p2[e].at) : g > e
            \/ \E d \in 1..Len(F2) : F2[d].at = p2[e].at /\ F2[d].kind = "else"
  <2> SUFFICES ASSUME NEW e \in 1..Len(p2), p2[e].tok \in Closing \cup {"else"}
               PROVE  /\ p2[e].at \in 1..Len(p2)
                      /\ Marks(p2, p2[e].tok, p2[e].at) = {e}
                      /\ p2[e].tok = "endloop" => p2[p2[e].at].tok \in LoopKinds
                      /\ p2[e].tok = "else" =>
                           \/ \E g \in Marks(p2, "endif", p2[e].at) : g > e
                           \/ \E d \in 1..Len(F2) : F2[d].at = p2[e].at /\ F2[d].kind = "else"
    BY DEF Closing
  <2>1. e \in 1..Len(p) /\ p2[e] = p[e]
    BY <1>2
  <2>2. /\ p[e].at \in 1..Len(p)
        /\ Marks(p, p[e].tok, p[e].at) = {e}
        /\ p[e].tok = "endloop" => p[p[e].at].tok \in LoopKinds
        /\ p[e].tok = "else" =>
             \/ \E g \in Marks(p, "endif", p[e].at) : g > e
             \/ \E d \in 1..Len(F) : F[d].at = p[e].at /\ F[d].kind = "else"
    BY <2>1 DEF StreamOK
  <2>3. p[e].at \in 1..Len(p2) /\ p2[p[e].at] = p[p[e].at]
    BY <1>1, <2>2
  <2>4. p[e].tok = "else" =>
             \/ \E g \in Marks(p2, "endif", p[e].at) : g > e
             \/ \E d \in 1..Len(F2) : F2[d].at = p[e].at /\ F2[d].kind = "else"
    <3>1. Marks(p2, "endif", p[e].at) = Marks(p, "endif", p[e].at)
      BY <1>1 DEF Closing
    <3>2. (\E d \in 1..Len(F) : F[d].at = p[e].at /\ F[d].kind = "else") =>
             \E d \in 1..Len(F2) : F2[d].at = p[e].at /\ F2[d].kind = "else"
      BY <1>5
    <3> QED
      BY <2>2, <3>1, <3>2
  <2> QED
    BY <1>1, <2>1, <2>2, <2>3, <2>4
<1>7. CASE F2 = F
  BY <1>4, <1>6, <1>7 DEF StreamOK, p2
<1>8. ASSUME NEW f \in Frame, F2 = Append(F, f), f.at = Len(p) + 1, f.kind # "else",
             tok = IF f.kind = "then" THEN "if" ELSE f.kind
      PROVE  StreamOK(p2, F2)
  <2>1. /\ Len(F2) = Len(F) + 1 /\ Len(F) \in Nat
        /\ \A d \in 1..Len(F) : F2[d] = F[d]
        /\ F2[Len(F) + 1] = f
    BY <1>8, AppendProperties, LenProperties
  <2>2. \A d \in 1..Len(F2) : d \in 1..Len(F) \/ d = Len(F) + 1
    BY <2>1
  <2>3. ASSUME NEW d \in 1..Len(F2)
        PROVE  /\ F2[d].at \in 1..Len(p2)
               /\ p2[F2[d].at].tok = IF F2[d].kind \in {"then", "else"} THEN "if" ELSE F2[d].kind
               /\ \A y \in Closing : Marks(p2, y, F2[d].at) = {}
               /\ F2[d].kind # "else" => Marks(p2, "else", F2[d].at) = {}
               /\ \A e \in 1..Len(F2) : d < e => F2[d].at < F2[e].at
    <3>1. CASE d \in 1..Len(F)
      <4>1. F2[d] = F[d] /\ F[d].at <= Len(p) /\ F[d].at \in Nat
        BY <1>1, <1>4, <2>1, <3>1
      <4>2. ASSUME NEW e \in 1..Len(F2), d < e PROVE F2[d].at < F2[e].at
        <5>1. CASE e \in 1..Len(F)
          BY <1>4, <2>1, <3>1, <4>2, <5>1
        <5>2. CASE e = Len(F) + 1
          BY <1>1, <1>8, <2>1, <4>1, <5>2
        <5> QED
          BY <2>2, <5>1, <5>2
      <4> QED
        BY <1>4, <3>1, <4>1, <4>2
    <3>2. CASE d = Len(F) + 1
      <4>1. F2[d] = f /\ f.at = Len(p) + 1 /\ Len(p) + 1 \in 1..Len(p2)
        BY <1>1, <1>8, <2>1, <3>2
      <4>2. p2[Len(p) + 1].tok = IF f.kind \in {"then", "else"} THEN "if" ELSE f.kind
        BY <1>1, <1>8
      <4>3. \A e \in 1..Len(F2) : ~(d < e)
        BY <2>1, <3>2
      <4> QED
        BY <1>3, <4>1, <4>2, <4>3
    <3> QED
      BY <2>2, <3>1, <3>2
  <2> QED
    BY <1>6, <2>3 DEF StreamOK
<1> QED
  BY <1>7, <1>8 DEF p2

(* An else belongs to the innermost if, which has had none.                *)
LEMMA ElseStream ==
  ASSUME NEW p \in Seq(Token), NEW F \in Seq(Frame), StreamOK(p, F), F # <<>>,
         NEW n, n = Len(F), F[n].kind = "then",
         NEW t \in Token, t.tok = "else", t.at = F[n].at,
         NEW F2 \in Seq(Frame), Len(F2) = n,
         \A d \in 1..(n - 1) : F2[d] = F[d],
         F2[n].at = F[n].at, F2[n].kind = "else"
  PROVE  StreamOK(Append(p, t), F2)
<1> DEFINE p2 == Append(p, t)
<1>1. /\ \A y, i : t.tok # y \/ t.at # i => Marks(p2, y, i) = Marks(p, y, i)
      /\ Marks(p2, t.tok, t.at) = Marks(p, t.tok, t.at) \cup {Len(p) + 1}
      /\ Len(p2) = Len(p) + 1 /\ Len(p) \in Nat
      /\ \A i \in 1..Len(p) : p2[i] = p[i]
      /\ p2[Len(p) + 1] = t
  BY MarksAppend
<1> HIDE DEF p2
<1>2. n \in Nat \ {0} /\ \A d \in 1..n : d \in 1..(n - 1) \/ d = n
  BY EmptySeq, LenProperties
<1>3. n \in 1..n /\ \A d \in 1..n : F2[d].at = F[d].at
  BY <1>2
<1>4. \A y, i : y # "else" \/ i # F[n].at => Marks(p2, y, i) = Marks(p, y, i)
  <2>1. \A y, i : y # "else" \/ i # F[n].at => t.tok # y \/ t.at # i
    OBVIOUS
  <2> QED
    BY <1>1, <2>1
<1>5. /\ \A d \in 1..n : F[d].at \in 1..Len(p)
      /\ \A d, e \in 1..n : d < e => F[d].at < F[e].at
      /\ \A d \in 1..n : \A tok \in Closing : Marks(p, tok, F[d].at) = {}
      /\ \A d \in 1..n : F[d].kind # "else" => Marks(p, "else", F[d].at) = {}
      /\ \A d \in 1..n : p[F[d].at].tok = IF F[d].kind \in {"then", "else"} THEN "if" ELSE F[d].kind
  BY DEF StreamOK
<1>6. \A d \in 1..(n - 1) : F[d].at < F[n].at /\ F[d].at # F[n].at
  <2> SUFFICES ASSUME NEW d \in 1..(n - 1) PROVE F[d].at < F[n].at /\ F[d].at # F[n].at
    OBVIOUS
  <2>1. d \in 1..n /\ d < n
    BY <1>2
  <2>2. F[d].at \in 1..Len(p) /\ F[n].at \in 1..Len(p) /\ F[d].at < F[n].at
    BY <1>3, <1>5, <2>1
  <2> QED
    BY <1>1, <2>2
<1>7. ASSUME NEW d \in 1..n
      PROVE  /\ F2[d].at \in 1..Len(p2)
             /\ p2[F2[d].at].tok = IF F2[d].kind \in {"then", "else"} THEN "if" ELSE F2[d].kind
             /\ \A y \in Closing : Marks(p2, y, F2[d].at) = {}
             /\ F2[d].kind # "else" => Marks(p2, "else", F2[d].at) = {}
             /\ \A e \in 1..n : d < e => F2[d].at < F2[e].at
  <2>1. F[d].at \in 1..Len(p) /\ F[d].at \in 1..Len(p2) /\ p2[F[d].at] = p[F[d].at]
    BY <1>1, <1>5
  <2>2. \A y \in Closing : Marks(p2, y, F[d].at) = {}
    <3>1. \A y \in Closing : y # "else"
      BY DEF Closing
    <3>2. \A y \in Closing : Marks(p2, y, F[d].at) = Marks(p, y, F[d].at)
      BY <1>4, <3>1
    <3> QED
      BY <1>5, <3>2
  <2>3. CASE d \in 1..(n - 1)
    <3>1. F2[d] = F[d] /\ F[d].at # F[n].at
      BY <1>6, <2>3
    <3>2. Marks(p2, "else", F[d].at) = Marks(p, "else", F[d].at)
      BY <1>4, <3>1
    <3>3. \A e \in 1..n : d < e => F2[d].at < F2[e].at
      BY <1>3, <1>5
    <3>4. /\ p2[F2[d].at].tok = IF F2[d].kind \in {"then", "else"} THEN "if" ELSE F2[d].kind
          /\ F2[d].kind # "else" => Marks(p2, "else", F2[d].at) = {}
      BY <1>5, <2>1, <3>1, <3>2
    <3> QED
      BY <2>1, <2>2, <3>1, <3>3, <3>4
  <2>4. CASE d = n
    <3>1. p[F[n].at].tok = "if"
      BY <1>3, <1>5
    <3> QED
      BY <1>3, <1>5, <2>1, <2>2, <2>4, <3>1
  <2> QED
    BY <1>2, <2>3, <2>4
<1>8. ASSUME NEW e \in 1..Len(p2)
      PROVE  /\ p2[e].tok \in Closing \cup {"else"} =>
                 /\ p2[e].at \in 1..Len(p2)
                 /\ Marks(p2, p2[e].tok, p2[e].at) = {e}
             /\ p2[e].tok = "endloop" => p2[p2[e].at].tok \in LoopKinds
             /\ p2[e].tok = "else" =>
                 \/ \E g \in Marks(p2, "endif", p2[e].at) : g > e
                 \/ \E d \in 1..n : F2[d].at = p2[e].at /\ F2[d].kind = "else"
  <2>1. CASE e \in 1..Len(p)
    <3>1. p2[e] = p[e]
      BY <1>1, <2>1
    <3>2. /\ p[e].tok \in Closing \cup {"else"} =>
               /\ p[e].at \in 1..Len(p)
               /\ Marks(p, p[e].tok, p[e].at) = {e}
          /\ p[e].tok = "endloop" => p[p[e].at].tok \in LoopKinds
          /\ p[e].tok = "else" =>
               \/ \E g \in Marks(p, "endif", p[e].at) : g > e
               \/ \E d \in 1..n : F[d].at = p[e].at /\ F[d].kind = "else"
      BY <2>1 DEF StreamOK
    <3>3. p[e].tok = "else" => p[e].at # F[n].at
      <4>1. p[e].tok = "else" => e \in Marks(p, "else", p[e].at)
        BY <2>1 DEF Marks
      <4> QED
        BY <1>3, <1>5, <4>1
    <3>4. p[e].tok \in Closing \cup {"else"} =>
               /\ p[e].at \in 1..Len(p2) /\ p2[p[e].at] = p[p[e].at]
               /\ Marks(p2, p[e].tok, p[e].at) = {e}
      BY <1>1, <1>4, <3>2, <3>3
    <3>5. p[e].tok = "else" =>
               \/ \E g \in Marks(p2, "endif", p[e].at) : g > e
               \/ \E d \in 1..n : F2[d].at = p[e].at /\ F2[d].kind = "else"
      <4> SUFFICES ASSUME p[e].tok = "else",
                          ~ \E g \in Marks(p2, "endif", p[e].at) : g > e
                   PROVE  \E d \in 1..n : F2[d].at = p[e].at /\ F2[d].kind = "else"
        OBVIOUS
      <4>1. PICK d \in 1..n : F[d].at = p[e].at /\ F[d].kind = "else"
        BY <1>4, <3>2
      <4>2. d \in 1..(n - 1) /\ F2[d] = F[d]
        BY <1>2, <4>1
      <4> QED
        BY <4>1, <4>2
    <3> QED
      BY <3>1, <3>2, <3>4, <3>5 DEF Closing
  <2>2. CASE e = Len(p) + 1
    <3>1. p2[e] = t /\ Marks(p, "else", F[n].at) = {} /\ F[n].at \in 1..Len(p)
      BY <1>1, <1>3, <1>5, <2>2
    <3>2. Marks(p2, "else", F[n].at) = {e}
      BY <1>1, <2>2, <3>1
    <3>3. \E d \in 1..n : F2[d].at = p2[e].at /\ F2[d].kind = "else"
      BY <1>3, <3>1
    <3>4. F[n].at \in 1..Len(p2)
      BY <1>1, <3>1
    <3> QED
      BY <3>1, <3>2, <3>3, <3>4
  <2> QED
    BY <1>1, <2>1, <2>2
<1> QED
  BY <1>7, <1>8 DEF StreamOK, p2

(* An endif or endloop completes the innermost frame.                      *)
LEMMA CloseStream ==
  ASSUME NEW p \in Seq(Token), NEW F \in Seq(Frame), StreamOK(p, F), F # <<>>,
         NEW n, n = Len(F),
         NEW t \in Token, t.tok \in Closing, t.at = F[n].at,
         t.tok = "endif" => F[n].kind \in {"then", "else"},
         t.tok = "endloop" => F[n].kind \in LoopKinds \ {"then", "else"},
         NEW F2 \in Seq(Frame), Len(F2) = n - 1,
         \A d \in 1..(n - 1) : F2[d] = F[d]
  PROVE  StreamOK(Append(p, t), F2)
<1> DEFINE p2 == Append(p, t)
<1>1. /\ \A y, i : t.tok # y \/ t.at # i => Marks(p2, y, i) = Marks(p, y, i)
      /\ Marks(p2, t.tok, t.at) = Marks(p, t.tok, t.at) \cup {Len(p) + 1}
      /\ \A y, i : Marks(p, y, i) \subseteq Marks(p2, y, i)
      /\ Len(p2) = Len(p) + 1 /\ Len(p) \in Nat
      /\ \A i \in 1..Len(p) : p2[i] = p[i]
      /\ p2[Len(p) + 1] = t
  BY MarksAppend
<1> HIDE DEF p2
<1>2. n \in Nat \ {0} /\ n \in 1..n /\ \A d \in 1..(n - 1) : d \in 1..n /\ d < n
  BY EmptySeq, LenProperties
<1>5. /\ \A d \in 1..n : F[d].at \in 1..Len(p)
      /\ \A d, e \in 1..n : d < e => F[d].at < F[e].at
      /\ \A d \in 1..n : \A tok \in Closing : Marks(p, tok, F[d].at) = {}
      /\ \A d \in 1..n : F[d].kind # "else" => Marks(p, "else", F[d].at) = {}
      /\ \A d \in 1..n : p[F[d].at].tok = IF F[d].kind \in {"then", "else"} THEN "if" ELSE F[d].kind
  BY DEF StreamOK
<1>6. \A d \in 1..(n - 1) : F[d].at < F[n].at /\ F[d].at # F[n].at
  <2> SUFFICES ASSUME NEW d \in 1..(n - 1) PROVE F[d].at < F[n].at /\ F[d].at # F[n].at
    OBVIOUS
  <2>2. F[d].at \in 1..Len(p) /\ F[n].at \in 1..Len(p) /\ F[d].at < F[n].at
    BY <1>2, <1>5
  <2> QED
    BY <1>1, <2>2
<1>7. ASSUME NEW d \in 1..(n - 1)
      PROVE  /\ F2[d].at \in 1..Len(p2)
             /\ p2[F2[d].at].tok = IF F2[d].kind \in {"then", "else"} THEN "if" ELSE F2[d].kind
             /\ \A y \in Closing : Marks(p2, y, F2[d].at) = {}
             /\ F2[d].kind # "else" => Marks(p2, "else", F2[d].at) = {}
             /\ \A e \in 1..(n - 1) : d < e => F2[d].at < F2[e].at
  <2>1. /\ F2[d] = F[d] /\ F[d].at \in 1..Len(p) /\ F[d].at \in 1..Len(p2)
        /\ p2[F[d].at] = p[F[d].at]
    BY <1>1, <1>2, <1>5
  <2>2. \A y : Marks(p2, y, F[d].at) = Marks(p, y, F[d].at)
    <3>1. t.at # F[d].at
      BY <1>6
    <3> QED
      BY <1>1, <3>1
  <2>3. \A e \in 1..(n - 1) : d < e => F2[d].at < F2[e].at
    BY <1>2, <1>5
  <2>4. d \in 1..n
    BY <1>2
  <2>5. /\ \A y \in Closing : Marks(p2, y, F[d].at) = {}
        /\ F[d].kind # "else" => Marks(p2, "else", F[d].at) = {}
    BY <1>5, <2>2, <2>4
  <2>6. p[F[d].at].tok = IF F[d].kind \in {"then", "else"} THEN "if" ELSE F[d].kind
    BY <1>5, <2>4
  <2> QED
    BY <2>1, <2>3, <2>5, <2>6
<1>8. ASSUME NEW e \in 1..Len(p2)
      PROVE  /\ p2[e].tok \in Closing \cup {"else"} =>
                 /\ p2[e].at \in 1..Len(p2)
                 /\ Marks(p2, p2[e].tok, p2[e].at) = {e}
             /\ p2[e].tok = "endloop" => p2[p2[e].at].tok \in LoopKinds
             /\ p2[e].tok = "else" =>
                 \/ \E g \in Marks(p2, "endif", p2[e].at) : g > e
                 \/ \E d \in 1..(n - 1) : F2[d].at = p2[e].at /\ F2[d].kind = "else"
  <2>1. CASE e \in 1..Len(p)
    <3>1. p2[e] = p[e]
      BY <1>1, <2>1
    <3>2. /\ p[e].tok \in Closing \cup {"else"} =>
               /\ p[e].at \in 1..Len(p)
               /\ Marks(p, p[e].tok, p[e].at) = {e}
          /\ p[e].tok = "endloop" => p[p[e].at].tok \in LoopKinds
          /\ p[e].tok = "else" =>
               \/ \E g \in Marks(p, "endif", p[e].at) : g > e
               \/ \E d \in 1..n : F[d].at = p[e].at /\ F[d].kind = "else"
      BY <2>1 DEF StreamOK
    <3>3. p[e].tok \in Closing => p[e].at # F[n].at
      <4>1. p[e].tok \in Closing => e \in Marks(p, p[e].tok, p[e].at)
        BY <2>1 DEF Marks
      <4> QED
        BY <1>2, <1>5, <4>1
    <3>4. p[e].tok \in Closing \cup {"else"} =>
               /\ p[e].at \in 1..Len(p2) /\ p2[p[e].at] = p[p[e].at]
               /\ Marks(p2, p[e].tok, p[e].at) = {e}
      <4>1. p[e].tok \in Closing \cup {"else"} => ~(t.tok = p[e].tok /\ t.at = p[e].at)
        BY <3>3 DEF Closing
      <4> QED
        BY <1>1, <3>2, <4>1
    <3>5. p[e].tok = "else" =>
               \/ \E g \in Marks(p2, "endif", p[e].at) : g > e
               \/ \E d \in 1..(n - 1) : F2[d].at = p[e].at /\ F2[d].kind = "else"
      <4> SUFFICES ASSUME p[e].tok = "else",
                          ~ \E g \in Marks(p2, "endif", p[e].at) : g > e
                   PROVE  \E d \in 1..(n - 1) : F2[d].at = p[e].at /\ F2[d].kind = "else"
        OBVIOUS
      <4>1. PICK d \in 1..n : F[d].at = p[e].at /\ F[d].kind = "else"
        BY <1>1, <3>2
      <4>2. d # n
        <5> SUFFICES ASSUME d = n PROVE FALSE
          OBVIOUS
        <5>1. t.tok = "endif"
          <6>1. F[n].kind = "else"
            BY <4>1
          <6> QED
            BY <6>1 DEF Closing
        <5>2. Len(p) + 1 \in Marks(p2, "endif", p[e].at)
          BY <1>1, <4>1, <5>1
        <5> QED
          BY <1>1, <2>1, <5>2
      <4>3. d \in 1..(n - 1)
        BY <1>2, <4>2
      <4>4. F2[d] = F[d]
        BY <4>3
      <4> QED
        BY <4>1, <4>3, <4>4
    <3> QED
      BY <3>1, <3>2, <3>4, <3>5 DEF Closing
  <2>2. CASE e = Len(p) + 1
    <3>1. p2[e] = t /\ Marks(p, t.tok, F[n].at) = {} /\ F[n].at \in 1..Len(p)
      BY <1>1, <1>2, <1>5, <2>2
    <3>2. Marks(p2, t.tok, F[n].at) = {e}
      BY <1>1, <2>2, <3>1
    <3>3. F[n].at \in 1..Len(p2) /\ p2[F[n].at] = p[F[n].at]
      BY <1>1, <3>1
    <3>4. t.tok = "endloop" => p[F[n].at].tok \in LoopKinds
      <4> SUFFICES ASSUME t.tok = "endloop" PROVE p[F[n].at].tok \in LoopKinds
        OBVIOUS
      <4>1. p[F[n].at].tok = IF F[n].kind \in {"then", "else"} THEN "if" ELSE F[n].kind
        BY <1>2, <1>5
      <4>2. F[n].kind \in LoopKinds /\ F[n].kind \notin {"then", "else"}
        OBVIOUS
      <4> QED
        BY <4>1, <4>2
    <3>5. t.tok # "else"
      BY DEF Closing
    <3> QED
      BY <3>1, <3>2, <3>3, <3>4, <3>5
  <2> QED
    BY <1>1, <2>1, <2>2
<1> QED
  BY <1>7, <1>8, ZenonT(60) DEF StreamOK, p2

-----------------------------------------------------------------------------
(* What is emitted.                                                        *)
LEMMA AtLater ==
  ASSUME NEW s, NEW q, NEW j \in Nat \ {0}
  PROVE  At(s, q, j + 1) = After(s[j])
<1>1. j + 1 # 1 /\ j + 1 - 1 = j
  OBVIOUS
<1> QED
  BY <1>1 DEF At

LEMMA AtConcat ==
  ASSUME NEW s \in Seq(Instrs), NEW t \in Seq(Instrs), NEW q,
         NEW e, e = At(s, q, Len(s) + 1)
  PROVE  /\ \A k \in 1..Len(s) : (s \o t)[k] = s[k] /\ At(s \o t, q, k) = At(s, q, k)
         /\ \A j \in 1..Len(t) : (s \o t)[Len(s) + j] = t[j]
         /\ \A j \in 1..(Len(t) + 1) : At(s \o t, q, Len(s) + j) = At(t, e, j)
         /\ Len(s \o t) = Len(s) + Len(t) /\ s \o t \in Seq(Instrs)
         /\ Len(s) \in Nat /\ Len(t) \in Nat
<1> DEFINE u == s \o t
           m == Len(s)
           n == Len(t)
<1>1. /\ u \in Seq(Instrs) /\ Len(u) = m + n /\ m \in Nat /\ n \in Nat
      /\ \A k \in 1..(m + n) : u[k] = IF k <= m THEN s[k] ELSE t[k - m]
  BY ConcatProperties, LenProperties
<1> HIDE DEF u, m, n
<1>2. \A k \in 1..m : u[k] = s[k]
  BY <1>1
<1>3. \A j \in 1..n : u[m + j] = t[j]
  BY <1>1
<1>4. \A k \in 1..m : At(u, q, k) = At(s, q, k)
  <2> SUFFICES ASSUME NEW k \in 1..m PROVE At(u, q, k) = At(s, q, k)
    OBVIOUS
  <2>1. k # 1 => k - 1 \in 1..m
    BY <1>1
  <2> QED
    BY <1>2, <2>1 DEF At
<1>5. \A j \in 1..(n + 1) : At(u, q, m + j) = At(t, e, j)
  <2> SUFFICES ASSUME NEW j \in 1..(n + 1) PROVE At(u, q, m + j) = At(t, e, j)
    OBVIOUS
  <2>1. CASE j = 1
    <3>1. At(t, e, j) = e /\ e = At(s, q, m + 1)
      BY <2>1 DEF At, m
    <3>2. CASE m = 0
      BY <2>1, <3>1, <3>2 DEF At
    <3>3. CASE m # 0
      <4>1. m \in 1..m /\ m + 1 # 1 /\ m + 1 - 1 = m
        BY <1>1, <3>3
      <4>2. At(s, q, m + 1) = After(s[m]) /\ At(u, q, m + 1) = After(u[m])
        BY <4>1, AtLater
      <4>3. u[m] = s[m]
        BY <1>2, <4>1
      <4> QED
        BY <2>1, <3>1, <4>2, <4>3
    <3> QED
      BY <3>2, <3>3
  <2>2. CASE j # 1
    <3>1. /\ j - 1 \in 1..n /\ j - 1 \in Nat \ {0} /\ m + (j - 1) \in Nat \ {0}
          /\ (m + (j - 1)) + 1 = m + j /\ (j - 1) + 1 = j
      BY <1>1, <2>2
    <3>2. u[m + (j - 1)] = t[j - 1]
      BY <1>3, <3>1
    <3>3. /\ At(u, q, (m + (j - 1)) + 1) = After(u[m + (j - 1)])
          /\ At(t, e, (j - 1) + 1) = After(t[j - 1])
      BY <3>1, AtLater
    <3> QED
      BY <3>1, <3>2, <3>3
  <2> QED
    BY <2>1, <2>2
<1> QED
  BY <1>1, <1>2, <1>3, <1>4, <1>5 DEF u, m, n

(* Two pieces of code that fit one behind the other fit as one block.      *)
LEMMA ConcatFits ==
  ASSUME NEW p, NEW F, NEW h, NEW P, NEW C, NEW ph, NEW b,
         NEW s \in Seq(Instrs), NEW t \in Seq(Instrs), NEW q,
         BlockFits(p, F, h, P, C, ph, b, s, q),
         BlockFits(p, F, h, P, C, ph, b, t, At(s, q, Len(s) + 1))
  PROVE  /\ BlockFits(p, F, h, P, C, ph, b, s \o t, q)
         /\ At(s \o t, q, Len(s \o t) + 1) = At(t, At(s, q, Len(s) + 1), Len(t) + 1)
<1> DEFINE u == s \o t
           m == Len(s)
           n == Len(t)
           e == At(s, q, m + 1)
<1>1. /\ \A k \in 1..m : u[k] = s[k] /\ At(u, q, k) = At(s, q, k)
      /\ \A j \in 1..n : u[m + j] = t[j]
      /\ \A j \in 1..(n + 1) : At(u, q, m + j) = At(t, e, j)
      /\ Len(u) = m + n /\ m \in Nat /\ n \in Nat
  BY AtConcat
<1>2. /\ \A k \in 1..m : InstrFits(p, F, h, P, C, ph, b, s, q, k)
      /\ \A j \in 1..n : InstrFits(p, F, h, P, C, ph, b, t, e, j)
  BY DEF BlockFits
<1> HIDE DEF u, m, e, n
<1>3. ASSUME NEW k \in 1..m PROVE InstrFits(p, F, h, P, C, ph, b, u, q, k)
  <2>1. InstrFits(p, F, h, P, C, ph, b, s, q, k) /\ u[k] = s[k] /\ At(u, q, k) = At(s, q, k)
    BY <1>1, <1>2
  <2>2. k < m => k < Len(u) /\ u[k + 1] = s[k + 1]
    <3>1. k < m => k + 1 \in 1..m /\ k < m + n
      BY <1>1
    <3> QED
      BY <1>1, <3>1
  <2> QED
    BY <2>1, <2>2 DEF InstrFits, m
<1>4. ASSUME NEW j \in 1..n PROVE InstrFits(p, F, h, P, C, ph, b, u, q, m + j)
  <2>1. /\ InstrFits(p, F, h, P, C, ph, b, t, e, j) /\ u[m + j] = t[j]
        /\ At(u, q, m + j) = At(t, e, j)
    <3>1. j \in 1..(n + 1)
      BY <1>1
    <3> QED
      BY <1>1, <1>2, <3>1
  <2>2. j < n => m + j < Len(u) /\ u[m + j + 1] = t[j + 1]
    <3>1. j < n => j + 1 \in 1..n /\ m + j < m + n /\ m + j + 1 = m + (j + 1)
      BY <1>1
    <3> QED
      BY <1>1, <3>1
  <2> QED
    BY <2>1, <2>2 DEF InstrFits, n
<1>5. ASSUME NEW k \in 1..Len(u) PROVE InstrFits(p, F, h, P, C, ph, b, u, q, k)
  <2>1. k \in 1..m \/ (k - m \in 1..n /\ k = m + (k - m))
    BY <1>1
  <2> QED
    BY <1>3, <1>4, <2>1
<1>6. At(u, q, Len(u) + 1) = At(t, e, n + 1)
  <2>1. n + 1 \in 1..(n + 1) /\ m + n + 1 = m + (n + 1)
    BY <1>1
  <2> QED
    BY <1>1, <2>1
<1> QED
  BY <1>5, <1>6 DEF BlockFits, u, m, e, n

(* An expression and what is made of it.                                   *)
LEMMA EvalFits ==
  ASSUME NEW p, NEW F, NEW h, NEW P, NEW C, NEW ph, NEW b,
         NEW i \in Nat \ {0}, NEW m \in 0..1, NEW x \in Instrs,
         Runs(p, i, ph), x.id = i, x.op # "br",
         InstrFits(p, F, h, P, C, ph, b, <<x>>, i, 1)
  PROVE  /\ BlockFits(p, F, h, P, C, ph, b, Eval(i, m) \o <<x>>, i)
         /\ At(Eval(i, m) \o <<x>>, i, Len(Eval(i, m) \o <<x>>) + 1) = After(x)
         /\ Eval(i, m) \o <<x>> # <<>> /\ (Eval(i, m) \o <<x>>)[1].op # "br"
         /\ Eval(i, m) \o <<x>> \in Seq(Instrs)
<1> DEFINE one == <<x>>
           two == Eval(i, m) \o <<x>>
<1>1. New(i, i) \in Instrs
  BY InstrTypes
<1>2. CASE m = 0
  <2>1. Eval(i, m) \o <<x>> = one
    BY <1>2 DEF Eval
  <2>2. one \in Seq(Instrs) /\ Len(one) = 1 /\ one[1] = x /\ one # <<>>
    OBVIOUS
  <2>3. InstrFits(p, F, h, P, C, ph, b, one, i, 1)
    OBVIOUS
  <2> HIDE DEF one
  <2>4. BlockFits(p, F, h, P, C, ph, b, one, i)
    BY <2>2, <2>3 DEF BlockFits
  <2>5. At(one, i, Len(one) + 1) = After(x)
    BY <2>2 DEF At
  <2> QED
    BY <2>1, <2>2, <2>4, <2>5
<1>3. CASE m = 1
  <2>1. /\ Eval(i, m) \in Seq(Instrs) /\ Len(Eval(i, m)) = 1 /\ Eval(i, m)[1] = New(i, i)
        /\ <<x>> \in Seq(Instrs) /\ Len(<<x>>) = 1 /\ <<x>>[1] = x
    BY <1>1, <1>3 DEF Eval
  <2>2. /\ two \in Seq(Instrs) /\ Len(two) = 2 /\ two[1] = New(i, i) /\ two[2] = x
        /\ two # <<>>
    <3> DEFINE d == Eval(i, m)
               y == <<x>>
    <3>1. d \in Seq(Instrs) /\ Len(d) = 1 /\ d[1] = New(i, i) /\ y \in Seq(Instrs) /\ Len(y) = 1 /\ y[1] = x
      BY <2>1
    <3> HIDE DEF d, y
    <3>2. d \o y \in Seq(Instrs) /\ Len(d \o y) = 2 /\ (d \o y)[1] = New(i, i) /\ (d \o y)[2] = x
      <4>1. /\ d \o y \in Seq(Instrs) /\ Len(d \o y) = Len(d) + Len(y)
            /\ \A k \in 1..(Len(d) + Len(y)) :
                 (d \o y)[k] = IF k <= Len(d) THEN d[k] ELSE y[k - Len(d)]
        BY <3>1, ConcatProperties
      <4>2. 1 \in 1..(Len(d) + Len(y)) /\ 2 \in 1..(Len(d) + Len(y)) /\ ~(2 <= Len(d)) /\ 2 - Len(d) = 1
        BY <3>1
      <4> QED
        BY <3>1, <4>1, <4>2
    <3>3. d \o y # <<>>
      BY <3>2, EmptySeq
    <3> QED
      BY <3>2, <3>3 DEF d, y
  <2>3. one[1] = x
    OBVIOUS
  <2>4. New(i, i).op = "new" /\ New(i, i).id = i
    BY DEF New, Instr
  <2> HIDE DEF two, one
  <2>5. InstrFits(p, F, h, P, C, ph, b, two, i, 1)
    <3>1. At(two, i, 1) = i /\ 1 < Len(two) /\ 1 + 1 = 2
      BY <2>2 DEF At
    <3> QED
      BY <2>2, <2>4, <3>1 DEF InstrFits
  <2>6. At(two, i, 2) = i /\ At(one, i, 1) = i
    BY <2>2, <2>4 DEF At, After
  <2>7. InstrFits(p, F, h, P, C, ph, b, two, i, 2)
    <3>1. InstrFits(p, F, h, P, C, ph, b, one, i, 1)
      BY DEF one
    <3>2. x.op \in {"new", "free"} => FALSE
      <4>1. Len(one) = 1
        BY DEF one
      <4> QED
        BY <2>3, <2>6, <3>1, <4>1 DEF InstrFits
    <3> QED
      BY <2>2, <2>3, <2>6, <3>1, <3>2 DEF InstrFits
  <2>8. BlockFits(p, F, h, P, C, ph, b, two, i)
    <3>1. \A k \in 1..2 : k = 1 \/ k = 2
      OBVIOUS
    <3> QED
      BY <2>2, <2>5, <2>7, <3>1 DEF BlockFits
  <2>9. At(two, i, Len(two) + 1) = After(x)
    BY <2>2 DEF At
  <2> QED
    BY <2>2, <2>4, <2>8, <2>9 DEF two
<1> QED
  BY <1>2, <1>3

(* The releases and the ret of a return.                                   *)
LEMMA HereFits ==
  ASSUME NEW p, NEW F, NEW h, NEW P, NEW C, NEW ph, NEW b,
         NEW i \in Nat \ {0}, NEW s \in Seq(Instrs), Closed(s), Single(s),
         \A k \in 1..Len(s) : s[k].id = i /\ s[k].op \in {"new", "free", "ret"},
         Runs(p, i, ph), i \in 1..Len(p) => p[i].tok = "ret"
  PROVE  /\ BlockFits(p, F, h, P, C, ph, b, s, i)
         /\ At(s, i, Len(s) + 1) = i + 1
<1> DEFINE n == Len(s)
<1>1. n \in Nat \ {0} /\ n \in 1..n
  BY EmptySeq, LenProperties DEF Closed
<1>2. s[n].op = "ret" /\ \A k \in 1..(n - 1) : s[k].op \in {"new", "free"}
  <2>1. \A k \in 1..(n - 1) : k \in 1..n
    BY <1>1
  <2> QED
    BY <1>1, <2>1 DEF Closed, Single, IsTerminator
<1> HIDE DEF n
<1>3. \A k \in 1..n : At(s, i, k) = i
  <2> SUFFICES ASSUME NEW k \in 1..n, k # 1 PROVE At(s, i, k) = i
    BY DEF At
  <2>1. k - 1 \in 1..(n - 1) /\ k - 1 \in 1..n
    BY <1>1
  <2>2. s[k - 1].op \in {"new", "free"} /\ s[k - 1].id = i
    BY <1>2, <2>1 DEF n
  <2> QED
    BY <2>2 DEF At, After
<1>4. ASSUME NEW k \in 1..n PROVE InstrFits(p, F, h, P, C, ph, b, s, i, k)
  <2>1. At(s, i, k) = i /\ s[k].id = i /\ s[k].op \in {"new", "free", "ret"}
    BY <1>3 DEF n
  <2>2. s[k].op # "ret" => k < n /\ s[k + 1].id = i /\ s[k + 1].op # "br"
    <3> SUFFICES ASSUME s[k].op # "ret" PROVE k < n /\ s[k + 1].id = i /\ s[k + 1].op # "br"
      OBVIOUS
    <3>1. k # n
      BY <1>2
    <3>2. k < n /\ k + 1 \in 1..n
      BY <1>1, <3>1
    <3> QED
      BY <3>2 DEF n
  <2> QED
    BY <2>1, <2>2 DEF InstrFits, n
<1>5. At(s, i, n + 1) = i + 1
  <2>1. n + 1 # 1 /\ s[n].id = i
    BY <1>1 DEF n
  <2>2. At(s, i, n + 1) = After(s[n])
    BY <1>1, AtLater
  <2>3. After(s[n]) = s[n].id + 1
    BY <1>2 DEF After
  <2> QED
    BY <2>1, <2>2, <2>3
<1> QED
  BY <1>4, <1>5 DEF BlockFits, n

(* s is the code of a return at i.                                         *)
Ours(s, i) == \A k \in 1..Len(s) : s[k].id = i /\ s[k].op \in {"new", "free", "ret"}

(* The pieces ReturnCode is made of are of that kind.                      *)
LEMMA OursConcat ==
  ASSUME NEW s \in Seq(Instrs), NEW t \in Seq(Instrs), NEW i, Ours(s, i), Ours(t, i)
  PROVE  Ours(s \o t, i)
<1>1. /\ Len(s \o t) = Len(s) + Len(t)
      /\ \A k \in 1..(Len(s) + Len(t)) :
           (s \o t)[k] = IF k <= Len(s) THEN s[k] ELSE t[k - Len(s)]
      /\ Len(s) \in Nat /\ Len(t) \in Nat
  BY ConcatProperties, LenProperties
<1>2. \A k \in 1..(Len(s) + Len(t)) :
        (k <= Len(s) => k \in 1..Len(s)) /\ (k > Len(s) => k - Len(s) \in 1..Len(t))
  BY <1>1
<1> QED
  BY <1>1, <1>2 DEF Ours

LEMMA ReturnOurs ==
  ASSUME TypeOK, NEW v \in {"none", "scalar"} \cup AllRetValues
  PROVE  Ours(ReturnCode(v), Here)
<1>1. Here \in Nat /\ frees \in Seq(Nat)
  BY DEF TypeOK, Here
<1> DEFINE e == Eval(Here, IF v = "temp" THEN 1 ELSE 0)
           f == [k \in 1..Len(frees) |-> Free(Here, frees[k])]
           g == [l \in 1..TextLocals |-> Free(Here, -l)]
           r == RetInstr(v)
<1>2. e \in Seq(Instrs) /\ Ours(e, Here)
  <2>1. New(Here, Here) \in Instrs
    BY <1>1, InstrTypes
  <2>2. New(Here, Here).id = Here /\ New(Here, Here).op = "new"
    BY DEF New, Instr
  <2>3. e = <<New(Here, Here)>> \/ e = <<>>
    BY DEF Eval
  <2> HIDE DEF e
  <2>4. CASE e = <<>>
    BY <2>4 DEF Ours
  <2>5. CASE e = <<New(Here, Here)>>
    <3>1. Len(e) = 1 /\ e[1] = New(Here, Here) /\ e \in Seq(Instrs)
      BY <2>1, <2>5
    <3> QED
      BY <2>2, <3>1 DEF Ours
  <2> QED
    BY <2>3, <2>4, <2>5
<1>3. f \in Seq(Instrs) /\ Ours(f, Here)
  <2>1. \A k \in 1..Len(frees) : Free(Here, frees[k]) \in Instrs
    <3> SUFFICES ASSUME NEW k \in 1..Len(frees) PROVE Free(Here, frees[k]) \in Instrs
      OBVIOUS
    <3>1. frees[k] \in Int
      BY <1>1, ElementOfSeq
    <3> QED
      BY <1>1, <3>1, InstrTypes
  <2>2. f \in Seq(Instrs) /\ Len(f) = Len(frees)
    BY <1>1, <2>1, LenProperties
  <2>3. \A k \in 1..Len(frees) : f[k].id = Here /\ f[k].op = "free"
    BY DEF Free, Instr
  <2> HIDE DEF f
  <2> QED
    BY <2>2, <2>3 DEF Ours
<1>4. g \in Seq(Instrs) /\ Ours(g, Here)
  <2>1. \A l \in 1..TextLocals : Free(Here, -l) \in Instrs
    BY <1>1, TextLocalsAssumption, InstrTypes
  <2>2. g \in Seq(Instrs) /\ Len(g) = TextLocals
    BY <2>1, TextLocalsAssumption
  <2>3. \A l \in 1..TextLocals : g[l].id = Here /\ g[l].op = "free"
    BY DEF Free, Instr
  <2> HIDE DEF g
  <2> QED
    BY <2>2, <2>3 DEF Ours
<1>5. r \in Seq(Instrs) /\ Ours(r, Here)
  <2>1. ValueSlot(v) \in Int
    BY <1>1 DEF ValueSlot
  <2>2. /\ New(Here, Here) \in Instrs /\ Ret(Here, Here) \in Instrs
        /\ Ret(Here, 0) \in Instrs /\ Ret(Here, ValueSlot(v)) \in Instrs
    BY <1>1, <2>1, InstrTypes
  <2>3. /\ New(Here, Here).id = Here /\ New(Here, Here).op = "new"
        /\ \A t : Ret(Here, t).id = Here /\ Ret(Here, t).op = "ret"
    BY DEF New, Ret, Instr
  <2>4. \/ r = <<>> \/ r = <<Ret(Here, 0)>> \/ r = <<Ret(Here, ValueSlot(v))>>
        \/ r = <<New(Here, Here), Ret(Here, Here)>>
    BY DEF RetInstr, AllRetValues
  <2> HIDE DEF r
  <2>5. CASE r = <<>>
    BY <2>5 DEF Ours
  <2>6. CASE r = <<Ret(Here, 0)>>
    BY <2>2, <2>3, <2>6 DEF Ours
  <2>7. CASE r = <<Ret(Here, ValueSlot(v))>>
    BY <2>2, <2>3, <2>7 DEF Ours
  <2>8. CASE r = <<New(Here, Here), Ret(Here, Here)>>
    <3>1. Len(r) = 2 /\ r[1] = New(Here, Here) /\ r[2] = Ret(Here, Here) /\ r \in Seq(Instrs)
      BY <2>2, <2>8
    <3>2. \A k \in 1..2 : k = 1 \/ k = 2
      OBVIOUS
    <3> QED
      BY <2>3, <3>1, <3>2 DEF Ours
  <2> QED
    BY <2>4, <2>5, <2>6, <2>7, <2>8
<1>6. ReturnCode(v) = e \o (f \o g) \o r
  BY DEF ReturnCode, FreeTexts
<1> HIDE DEF e, f, g, r
<1>7. f \o g \in Seq(Instrs) /\ Ours(f \o g, Here)
  BY <1>3, <1>4, OursConcat, ConcatProperties
<1>8. e \o (f \o g) \in Seq(Instrs) /\ Ours(e \o (f \o g), Here)
  BY <1>2, <1>7, OursConcat, ConcatProperties
<1>9. Ours(e \o (f \o g) \o r, Here)
  BY <1>5, <1>8, OursConcat
<1> QED
  BY <1>6, <1>9

-----------------------------------------------------------------------------
(* What a step of the visitor leaves behind.                               *)

(* The branches that waited for frame f have found their target.           *)
Settles(p, p2, f, h2, P2) ==
  /\ f.kind = "else" => /\ f.leave \in P2
                        /\ \A i \in Marks(p, "else", f.at) : Goes(p2, i, h2[f.leave])
  /\ f.kind # "else" => Other(f) \in P2 /\ Skips(p2, f.at, h2[Other(f)])

(* A visit moves on when the frames it ends are settled.                   *)
LEMMA MovesFrom ==
  ASSUME NEW p \in Seq(Token), NEW t \in Token,
         t.tok = "else" => \A tok \in Closing : Marks(p, tok, t.at) = {},
         NEW F, NEW h, NEW P, NEW C, NEW F2, NEW h2, NEW P2, NEW C2,
         P \subseteq P2, C \subseteq C2, \A b \in P : h2[b] = h[b],
         \A d \in 1..Len(F) : \/ \E e \in 1..Len(F2) : F2[e] = F[d]
                              \/ Settles(p, Append(p, t), F[d], h2, P2)
  PROVE  Moves(p, F, h, P, C, Append(p, t), F2, h2, P2, C2)
<1> DEFINE p2 == Append(p, t)
<1>1. /\ Len(p2) = Len(p) + 1 /\ Len(p) \in Nat
      /\ \A i \in 1..Len(p) : p2[i] = p[i]
  BY MarksAppend
<1>2. /\ \A i \in 1..Len(p) : \A r : Goes(p, i, r) => Goes(p2, i, r)
      /\ \A i \in 1..Len(p) : \A r : Skips(p, i, r) => Skips(p2, i, r)
  BY StreamMoves
<1>3. \A d \in 1..Len(F) : \/ \E e \in 1..Len(F2) : F2[e] = F[d]
                           \/ Settles(p, p2, F[d], h2, P2)
  OBVIOUS
<1> HIDE DEF p2
<1>4. ASSUME NEW d \in 1..Len(F), F[d].kind = "else"
      PROVE  \/ \E e \in 1..Len(F2) : /\ F2[e].kind = "else" /\ F2[e].leave = F[d].leave
                                      /\ F2[e].at = F[d].at
             \/ /\ F[d].leave \in P2
                /\ \A i \in Marks(p, "else", F[d].at) : Goes(p2, i, h2[F[d].leave])
  <2>1. CASE \E e \in 1..Len(F2) : F2[e] = F[d]
    BY <1>4, <2>1
  <2>2. CASE Settles(p, p2, F[d], h2, P2)
    BY <1>4, <2>2 DEF Settles
  <2> QED
    BY <1>3, <2>1, <2>2
<1>5. ASSUME NEW d \in 1..Len(F), F[d].kind # "else"
      PROVE  \/ \E e \in 1..Len(F2) : /\ F2[e].kind # "else" /\ F2[e].at = F[d].at
                                      /\ Other(F2[e]) = Other(F[d])
             \/ Other(F[d]) \in P2 /\ Skips(p2, F[d].at, h2[Other(F[d])])
  <2>1. CASE \E e \in 1..Len(F2) : F2[e] = F[d]
    BY <1>5, <2>1
  <2>2. CASE Settles(p, p2, F[d], h2, P2)
    BY <1>5, <2>2 DEF Settles
  <2> QED
    BY <1>3, <2>1, <2>2
<1>6. Len(p) <= Len(p2)
  BY <1>1
<1> QED
  BY <1>1, <1>2, <1>4, <1>5, <1>6 DEF Moves, p2

(* An else settles the false edge of its if, an end the branches to leave. *)
LEMMA SettleElse ==
  ASSUME NEW p \in Seq(Token), NEW F \in Seq(Frame), StreamOK(p, F),
         NEW n \in 1..Len(F), F[n].kind = "then",
         NEW t \in Token, t.tok = "else", t.at = F[n].at,
         NEW h2, NEW P2, F[n].els \in P2, h2[F[n].els] = Len(p) + 2
  PROVE  Settles(p, Append(p, t), F[n], h2, P2)
<1> DEFINE p2 == Append(p, t)
           i == F[n].at
<1>1. i \in 1..Len(p) /\ p[i].tok = "if"
  BY DEF StreamOK
<1>2. p2[i] = p[i] /\ Len(p) \in Nat /\ Len(p) + 1 \in Marks(p2, "else", i)
  <2>1. /\ Marks(p2, t.tok, t.at) = Marks(p, t.tok, t.at) \cup {Len(p) + 1}
        /\ Len(p) \in Nat /\ \A k \in 1..Len(p) : p2[k] = p[k]
    BY MarksAppend
  <2> QED
    BY <1>1, <2>1
<1>3. Len(p) + 2 = (Len(p) + 1) + 1
  BY <1>2
<1> HIDE DEF p2, i
<1>4. Skips(p2, i, Len(p) + 2)
  BY <1>1, <1>2, <1>3 DEF Skips
<1>5. Other(F[n]) = F[n].els
  BY DEF Other
<1> QED
  BY <1>4, <1>5 DEF Settles, p2, i

LEMMA SettlePop ==
  ASSUME NEW p \in Seq(Token), NEW F \in Seq(Frame), StreamOK(p, F),
         NEW n \in 1..Len(F),
         NEW t \in Token, t.at = F[n].at,
         \/ t.tok = "endif" /\ F[n].kind = "else"
         \/ t.tok = "endif" /\ F[n].kind = "then" /\ F[n].els = F[n].leave
         \/ t.tok = "endloop" /\ F[n].kind \in Tested,
         NEW h2, NEW P2, F[n].leave \in P2, h2[F[n].leave] = Len(p) + 2
  PROVE  Settles(p, Append(p, t), F[n], h2, P2)
<1> DEFINE p2 == Append(p, t)
           i == F[n].at
<1>1. /\ i \in 1..Len(p)
      /\ p[i].tok = IF F[n].kind \in {"then", "else"} THEN "if" ELSE F[n].kind
      /\ F[n].kind # "else" => Marks(p, "else", i) = {}
  BY DEF StreamOK
<1>2. /\ p2[i] = p[i] /\ Len(p) \in Nat /\ Len(p) + 1 \in Marks(p2, t.tok, i)
      /\ t.tok # "else" => Marks(p2, "else", i) = Marks(p, "else", i)
      /\ \A k \in 1..Len(p) : p2[k] = p[k]
  BY <1>1, MarksAppend
<1>3. Len(p) + 2 = (Len(p) + 1) + 1
  BY <1>2
<1> HIDE DEF p2, i
<1>4. CASE t.tok = "endif" /\ F[n].kind = "else"
  <2> SUFFICES ASSUME NEW k \in Marks(p, "else", i) PROVE Goes(p2, k, Len(p) + 2)
    BY <1>4 DEF Settles, i, p2
  <2>1. p2[k].tok = "else" /\ p2[k].at = i
    BY <1>2 DEF Marks
  <2>2. Len(p) + 1 \in Marks(p2, "endif", i)
    BY <1>2, <1>4
  <2> QED
    BY <1>3, <2>1, <2>2 DEF Goes
<1>5. CASE t.tok = "endif" /\ F[n].kind = "then" /\ F[n].els = F[n].leave
  <2>1. Other(F[n]) = F[n].leave
    BY <1>5 DEF Other
  <2>2. p2[i].tok = "if" /\ Marks(p2, "else", i) = {} /\ Len(p) + 1 \in Marks(p2, "endif", i)
    BY <1>1, <1>2, <1>5
  <2>3. Skips(p2, i, Len(p) + 2)
    BY <1>3, <2>2 DEF Skips
  <2> QED
    BY <1>5, <2>1, <2>3 DEF Settles, p2, i
<1>6. CASE t.tok = "endloop" /\ F[n].kind \in Tested
  <2>1. Other(F[n]) = F[n].leave /\ F[n].kind \notin {"then", "else"}
    BY <1>6 DEF Other, Tested
  <2>2. p2[i].tok \in Tested /\ Len(p) + 1 \in Marks(p2, "endloop", i)
    BY <1>1, <1>2, <1>6, <2>1
  <2>3. Skips(p2, i, Len(p) + 2)
    BY <1>3, <2>2 DEF Skips
  <2> QED
    BY <1>6, <2>1, <2>3 DEF Settles, p2, i
<1> QED
  BY <1>4, <1>5, <1>6

(* A block that grows does not change its first instruction.               *)
LEMMA BeganGrows ==
  ASSUME NEW c \in [Blocks -> Seq(Instrs)], NEW c2,
         \A b \in Blocks : c2[b] = c[b] \/ \E s \in Seq(Instrs) : c2[b] = c[b] \o s
  PROVE  Began(c) \subseteq Began(c2)
<1> SUFFICES ASSUME NEW b \in Began(c) PROVE b \in Began(c2)
  OBVIOUS
<1>1. b \in Blocks /\ c[b] # <<>> /\ c[b][1].op # "br" /\ c[b] \in Seq(Instrs)
  BY DEF Began
<1>2. CASE c2[b] = c[b]
  BY <1>1, <1>2 DEF Began
<1>3. ASSUME NEW s \in Seq(Instrs), c2[b] = c[b] \o s PROVE b \in Began(c2)
  <2> DEFINE x == c[b]
  <2>1. x \in Seq(Instrs) /\ x # <<>>
    BY <1>1
  <2> HIDE DEF x
  <2>2. /\ x \o s \in Seq(Instrs) /\ Len(x \o s) = Len(x) + Len(s)
        /\ \A k \in 1..Len(x) : (x \o s)[k] = x[k]
        /\ Len(x) \in Nat \ {0} /\ Len(s) \in Nat
    BY <2>1, AtConcat, EmptySeq
  <2>3. x \o s # <<>> /\ (x \o s)[1] = x[1]
    <3>1. 1 \in 1..Len(x) /\ Len(x) + Len(s) # 0
      BY <2>2
    <3> QED
      BY <2>2, <3>1, EmptySeq
  <2> QED
    BY <1>1, <1>3, <2>3 DEF Began, x
<1> QED
  BY <1>1, <1>2, <1>3

(* A block that grows, or stays.                                           *)
LEMMA FitGrows ==
  ASSUME NEW p \in Seq(Token), NEW p2 \in Seq(Token),
         NEW F, NEW h, NEW P, NEW C, NEW F2, NEW h2, NEW P2, NEW C2,
         Moves(p, F, h, P, C, p2, F2, h2, P2, C2), NEW ph,
         NEW b, NEW u \in Seq(Instrs), NEW s \in Seq(Instrs), NEW q,
         BlockFits(p, F, h, P, C, "visit", b, u, q),
         BlockFits(p2, F2, h2, P2, C2, ph, b, s, At(u, q, Len(u) + 1))
  PROVE  /\ BlockFits(p2, F2, h2, P2, C2, ph, b, u \o s, q)
         /\ At(u \o s, q, Len(u \o s) + 1) = At(s, At(u, q, Len(u) + 1), Len(s) + 1)
<1>1. Len(p) \in Nat /\ Len(p2) \in Nat
  BY LenProperties
<1>2. BlockFits(p2, F2, h2, P2, C2, ph, b, u, q)
  BY <1>1, BlockKeeps
<1> QED
  BY <1>2, ConcatFits

(* No code fits anywhere.                                                  *)
LEMMA EmptyFits ==
  ASSUME NEW p, NEW F, NEW h, NEW P, NEW C, NEW ph, NEW b, NEW q
  PROVE  /\ BlockFits(p, F, h, P, C, ph, b, <<>>, q)
         /\ At(<<>>, q, Len(<<>>) + 1) = q
<1>1. Len(<<>>) = 0 /\ \A k : k \notin 1..0
  BY EmptySeq
<1> QED
  BY <1>1 DEF BlockFits, At

(* The builder emits s at Here and places the blocks in placed' \ placed.  *)
Emits(h, h2, t, s) ==
  /\ phase = "visit" /\ prog' = Append(prog, t) /\ prog' \in Seq(Token)
  /\ t.tok = "else" => \A tok \in Closing : Marks(prog, tok, t.at) = {}
  /\ h2 \in [Blocks -> Nat] /\ \A b \in placed : h2[b] = h[b]
  /\ placed \subseteq placed' /\ placed' \subseteq Blocks
  /\ \A d \in 1..Len(frames) : \/ \E e \in 1..Len(frames') : frames'[e] = frames[d]
                               \/ Settles(prog, prog', frames[d], h2, placed')
  /\ code'[insert] = code[insert] \o s
  /\ \A b \in Blocks \ {insert} :
       \/ code'[b] = code[b]
       \/ b \notin placed /\ \E u \in Seq(Instrs) : code'[b] = code[b] \o u
  /\ BlockFits(prog', frames', h2, placed', Began(code'), phase', insert, s, Here)
  /\ \A b \in placed' \ placed :
       BlockFits(prog', frames', h2, placed', Began(code'), phase', b, code'[b], h2[b])

(* A visit that emits what fits at Here keeps every block fitting.         *)
LEMMA FitStep ==
  ASSUME TypeInv, NEW h, Fitted(h), NEW t \in Token, NEW h2, NEW s \in Seq(Instrs),
         Emits(h, h2, t, s)
  PROVE  /\ \A b \in placed' :
              BlockFits(prog', frames', h2, placed', Began(code'), phase', b, code'[b], h2[b])
         /\ At(code'[insert], h2[insert], Len(code'[insert]) + 1) = At(s, Here, Len(s) + 1)
         /\ h2[Entry] = 1 /\ Began(code) \subseteq Began(code')
<1> DEFINE F2 == frames'
<1>0. /\ phase = "visit" /\ prog' = Append(prog, t) /\ prog' \in Seq(Token)
      /\ t.tok = "else" => \A tok \in Closing : Marks(prog, tok, t.at) = {}
      /\ h2 \in [Blocks -> Nat] /\ \A b \in placed : h2[b] = h[b]
      /\ placed \subseteq placed' /\ placed' \subseteq Blocks
      /\ \A d \in 1..Len(frames) : \/ \E e \in 1..Len(F2) : F2[e] = frames[d]
                                   \/ Settles(prog, prog', frames[d], h2, placed')
      /\ code'[insert] = code[insert] \o s
      /\ \A b \in placed \ {insert} : code'[b] = code[b]
      /\ \A b \in Blocks : code'[b] = code[b] \/ \E u \in Seq(Instrs) : code'[b] = code[b] \o u
      /\ BlockFits(prog', F2, h2, placed', Began(code'), phase', insert, s, Here)
      /\ \A b \in placed' \ placed :
           BlockFits(prog', F2, h2, placed', Began(code'), phase', b, code'[b], h2[b])
  <2>1. placed \subseteq Blocks
    BY HereTypes DEF TypeInv
  <2> QED
    BY <2>1 DEF Emits
<1> HIDE DEF F2
<1>1. /\ code \in [Blocks -> Seq(Instrs)] /\ prog \in Seq(Token) /\ frames \in Seq(Frame)
      /\ insert \in placed /\ insert \in Blocks /\ placed \subseteq Blocks
      /\ Here = Len(prog) + 1 /\ Len(prog) \in Nat /\ Len(prog') \in Nat
  BY <1>0, HereTypes, LenProperties DEF TypeInv, TypeOK, Here
<1>2. Began(code) \subseteq Began(code')
  BY <1>0, <1>1, BeganGrows
<1>3. Moves(prog, frames, h, placed, Began(code), prog', F2, h2, placed', Began(code'))
  BY <1>0, <1>1, <1>2, MovesFrom
<1>4. \A b \in placed :
        BlockFits(prog, frames, h, placed, Began(code), "visit", b, code[b], h[b])
  <2>1. phase = "visit"
    BY <1>0
  <2> QED
    BY <2>1 DEF Fitted
<1>5. At(code[insert], h[insert], Len(code[insert]) + 1) = Here /\ h[Entry] = 1
  <2>1. phase = "visit" /\ Here = Len(prog) + 1
    BY <1>0, <1>1
  <2> QED
    BY <2>1 DEF Fitted
<1>6. ASSUME NEW b \in placed \ {insert}
      PROVE  BlockFits(prog', F2, h2, placed', Began(code'), phase', b, code'[b], h2[b])
  <2>1. BlockFits(prog', F2, h2, placed', Began(code'), phase', b, code[b], h[b])
    BY <1>0, <1>1, <1>3, <1>4, BlockKeeps
  <2> QED
    BY <1>0, <2>1
<1>7. /\ BlockFits(prog', F2, h2, placed', Began(code'), phase', insert, code'[insert], h2[insert])
      /\ At(code'[insert], h2[insert], Len(code'[insert]) + 1) = At(s, Here, Len(s) + 1)
  <2>1. code[insert] \in Seq(Instrs) /\ h2[insert] = h[insert]
    BY <1>0, <1>1
  <2>2. BlockFits(prog, frames, h, placed, Began(code), "visit", insert, code[insert], h[insert])
    BY <1>1, <1>4
  <2> DEFINE u == code[insert]
             q == h[insert]
             P2 == placed'
             C == Began(code)
             C2 == Began(code')
             p2 == prog'
             ph == phase'
             b == insert
  <2>3. /\ u \in Seq(Instrs) /\ prog \in Seq(Token) /\ p2 \in Seq(Token)
        /\ Moves(prog, frames, h, placed, C, p2, F2, h2, P2, C2)
        /\ BlockFits(prog, frames, h, placed, C, "visit", b, u, q)
        /\ At(u, q, Len(u) + 1) = Here
        /\ BlockFits(p2, F2, h2, P2, C2, ph, b, s, Here)
    BY <1>0, <1>1, <1>3, <1>5, <2>1, <2>2
  <2> HIDE DEF u, q, P2, C, C2, p2, ph, b
  <2>4. BlockFits(p2, F2, h2, P2, C2, ph, b, s, At(u, q, Len(u) + 1))
    BY <2>3
  <2>5. /\ BlockFits(p2, F2, h2, P2, C2, ph, b, u \o s, q)
        /\ At(u \o s, q, Len(u \o s) + 1) = At(s, At(u, q, Len(u) + 1), Len(s) + 1)
    BY <2>3, <2>4, FitGrows
  <2>6. /\ BlockFits(p2, F2, h2, P2, C2, ph, b, u \o s, q)
        /\ At(u \o s, q, Len(u \o s) + 1) = At(s, Here, Len(s) + 1)
    BY <2>3, <2>5
  <2> QED
    BY <1>0, <2>1, <2>6 DEF u, q, P2, C, C2, p2, ph, b
<1>8. h2[Entry] = 1
  <2>1. Entry \in placed
    BY DEF Fitted
  <2> QED
    BY <1>0, <1>5, <2>1
<1>9. \A b \in placed' : b \in placed' \ placed \/ b \in placed \ {insert} \/ b = insert
  OBVIOUS
<1> QED
  BY <1>0, <1>2, <1>6, <1>7, <1>8, <1>9 DEF F2

-----------------------------------------------------------------------------
(* Every action of the visitor.                                            *)
FitsNext(h2) ==
  /\ h2 \in [Blocks -> Nat] /\ Entry \in placed' /\ h2[Entry] = 1
  /\ \A b \in placed' :
       BlockFits(prog', frames', h2, placed', Began(code'), phase', b, code'[b], h2[b])
  /\ FramesFit(frames', h2, placed', Began(code'), insert')
  /\ phase' = "visit" \/ ~Closed(code'[insert']) =>
       At(code'[insert'], h2[insert'], Len(code'[insert']) + 1) = Len(prog') + 1

(* The frames F2 are those of F, without the innermost perhaps.            *)
Stays(F, h, P, C, F2, h2, P2, C2, n2) ==
  /\ Len(F) \in Nat /\ Len(F2) \in Nat /\ Len(F2) <= Len(F)
  /\ \A d \in 1..Len(F2) : F2[d] = F[d]
  /\ P \subseteq P2 /\ C \subseteq C2 /\ \A b \in P : h2[b] = h[b]
  /\ \A d \in 1..Len(F2) : F[d].kind \in {"then", "else"} => F[d].leave < n2

(* The frames that stay keep fitting.                                      *)
LEMMA FramesFitKeep ==
  ASSUME NEW F, NEW h, NEW P, NEW C, NEW n, FramesFit(F, h, P, C, n),
         NEW F2, NEW h2, NEW P2, NEW C2, NEW n2,
         Stays(F, h, P, C, F2, h2, P2, C2, n2)
  PROVE  FramesFit(F2, h2, P2, C2, n2)
<1>0. /\ Len(F) \in Nat /\ Len(F2) \in Nat /\ Len(F2) <= Len(F)
      /\ \A d \in 1..Len(F2) : F2[d] = F[d]
      /\ P \subseteq P2 /\ C \subseteq C2 /\ \A b \in P : h2[b] = h[b]
      /\ \A d \in 1..Len(F2) : F[d].kind \in {"then", "else"} => F[d].leave < n2
  BY DEF Stays
<1>1. \A d \in 1..Len(F2) : d \in 1..Len(F)
  BY <1>0
<1> SUFFICES ASSUME NEW d \in 1..Len(F2)
             PROVE  /\ F2[d].kind \in {"then", "else"} => F2[d].leave < n2
                    /\ F2[d].kind = "then" => F2[d].leave <= F2[d].els
                    /\ F2[d].kind \in Tested => F2[d].cond \in P2 \cap C2 /\ h2[F2[d].cond] = F2[d].at
                    /\ \A e \in 1..Len(F2) : d < e => F2[d].leave < F2[e].leave
  BY DEF FramesFit
<1>2. F2[d] = F[d] /\ d \in 1..Len(F)
  BY <1>0, <1>1
<1>3. /\ F[d].kind = "then" => F[d].leave <= F[d].els
      /\ F[d].kind \in Tested => F[d].cond \in P \cap C /\ h[F[d].cond] = F[d].at
      /\ \A e \in 1..Len(F) : d < e => F[d].leave < F[e].leave
  BY <1>2 DEF FramesFit
<1>4. \A e \in 1..Len(F2) : d < e => F2[d].leave < F2[e].leave
  BY <1>0, <1>1, <1>2, <1>3
<1>5. F[d].kind \in Tested => F[d].cond \in P2 \cap C2 /\ h2[F[d].cond] = F[d].at
  BY <1>0, <1>3
<1> QED
  BY <1>0, <1>2, <1>3, <1>4, <1>5

(* Frame f joins the frames F.                                             *)
Joins(F, h, P, C, f, h2, P2, C2, n2) ==
  /\ P \subseteq P2 /\ C \subseteq C2 /\ \A b \in P : h2[b] = h[b]
  /\ \A d \in 1..Len(F) : F[d].leave < f.leave /\ F[d].leave < n2
  /\ f.kind \in {"then", "else"} => f.leave < n2
  /\ f.kind = "then" => f.leave <= f.els
  /\ f.kind \in Tested => f.cond \in P2 \cap C2 /\ h2[f.cond] = f.at

(* A frame that joins with fresh blocks fits.                              *)
LEMMA FramesFitMore ==
  ASSUME NEW F \in Seq(Frame), NEW h, NEW P, NEW C, NEW n, FramesFit(F, h, P, C, n),
         NEW f \in Frame, NEW h2, NEW P2, NEW C2, NEW n2 \in Nat,
         Joins(F, h, P, C, f, h2, P2, C2, n2)
  PROVE  FramesFit(Append(F, f), h2, P2, C2, n2)
<1>0. /\ P \subseteq P2 /\ C \subseteq C2 /\ \A b \in P : h2[b] = h[b]
      /\ \A d \in 1..Len(F) : F[d].leave < f.leave /\ F[d].leave < n2
      /\ f.kind \in {"then", "else"} => f.leave < n2
      /\ f.kind = "then" => f.leave <= f.els
      /\ f.kind \in Tested => f.cond \in P2 \cap C2 /\ h2[f.cond] = f.at
  BY DEF Joins
<1> DEFINE F2 == Append(F, f)
<1>1. /\ Len(F2) = Len(F) + 1 /\ Len(F) \in Nat /\ F2[Len(F) + 1] = f
      /\ \A d \in 1..Len(F) : F2[d] = F[d]
  BY AppendProperties, LenProperties
<1> HIDE DEF F2
<1>2. \A d \in 1..Len(F2) : d = Len(F) + 1 \/ d \in 1..Len(F)
  BY <1>1
<1>3. ASSUME NEW d \in 1..Len(F)
      PROVE  /\ F2[d] = F[d] /\ F[d].leave < f.leave /\ F[d].leave < n2
             /\ F[d].kind = "then" => F[d].leave <= F[d].els
             /\ F[d].kind \in Tested => F[d].cond \in P2 \cap C2 /\ h2[F[d].cond] = F[d].at
             /\ \A e \in 1..Len(F) : d < e => F[d].leave < F[e].leave
  <2>1. /\ F[d].kind = "then" => F[d].leave <= F[d].els
        /\ F[d].kind \in Tested => F[d].cond \in P \cap C /\ h[F[d].cond] = F[d].at
        /\ \A e \in 1..Len(F) : d < e => F[d].leave < F[e].leave
    BY DEF FramesFit
  <2> QED
    BY <1>0, <1>1, <2>1
<1> SUFFICES ASSUME NEW d \in 1..Len(F2)
             PROVE  /\ F2[d].kind \in {"then", "else"} => F2[d].leave < n2
                    /\ F2[d].kind = "then" => F2[d].leave <= F2[d].els
                    /\ F2[d].kind \in Tested => F2[d].cond \in P2 \cap C2 /\ h2[F2[d].cond] = F2[d].at
                    /\ \A e \in 1..Len(F2) : d < e => F2[d].leave < F2[e].leave
  BY DEF FramesFit, F2
<1>4. CASE d = Len(F) + 1
  <2>1. \A e \in 1..Len(F2) : ~(d < e)
    BY <1>1, <1>4
  <2>2. F2[d] = f
    BY <1>1, <1>4
  <2> QED
    BY <1>0, <2>1, <2>2
<1>5. CASE d \in 1..Len(F)
  <2>1. \A e \in 1..Len(F2) : d < e => F2[d].leave < F2[e].leave
    <3> SUFFICES ASSUME NEW e \in 1..Len(F2), d < e PROVE F2[d].leave < F2[e].leave
      OBVIOUS
    <3>1. CASE e = Len(F) + 1
      BY <1>1, <1>3, <1>5, <3>1
    <3>2. CASE e \in 1..Len(F)
      BY <1>1, <1>3, <1>5, <3>2
    <3> QED
      BY <1>2, <3>1, <3>2
  <2> QED
    BY <1>3, <1>5, <2>1
<1> QED
  BY <1>2, <1>4, <1>5

(* The token of a visit.                                                   *)
LEMMA VisitFacts ==
  ASSUME TypeOK, NEW y, NEW i \in Nat,
         y \in {"op", "if", "else", "endif", "ret", "endloop"} \cup AllLoopKinds,
         prog' = Visited(y, i)
  PROVE  /\ [tok |-> y, at |-> i] \in Token /\ prog' = Append(prog, [tok |-> y, at |-> i])
         /\ prog' \in Seq(Token) /\ prog \in Seq(Token)
         /\ Len(prog') = Here /\ Here \in 1..Len(prog') /\ Here \in Nat \ {0}
         /\ Here = Len(prog) + 1 /\ Len(prog) \in Nat
         /\ prog'[Here].tok = y /\ prog'[Here].at = i
         /\ \A k \in 1..Len(prog) : prog'[k] = prog[k]
<1>1. [tok |-> y, at |-> i] \in Token
  BY DEF Token
<1>2. prog \in Seq(Token) /\ Here = Len(prog) + 1
  BY DEF TypeOK, Here
<1> DEFINE t == [tok |-> y, at |-> i]
<1>3. t.tok = y /\ t.at = i /\ t \in Token /\ prog' = Append(prog, t)
  BY <1>1 DEF Visited
<1> HIDE DEF t
<1>4. /\ Len(prog') = Len(prog) + 1 /\ Len(prog) \in Nat /\ prog' \in Seq(Token)
      /\ prog'[Len(prog) + 1] = t /\ \A k \in 1..Len(prog) : prog'[k] = prog[k]
  BY <1>2, <1>3, AppendProperties, LenProperties
<1>5. Here \in 1..Len(prog') /\ Here \in Nat \ {0}
  BY <1>2, <1>4
<1> QED
  BY <1>2, <1>3, <1>4, <1>5 DEF t

(* Facts about the types of the frames.                                    *)
LEMMA FrameLeaves ==
  ASSUME TypeInv
  PROVE  /\ \A d \in 1..Len(frames) : frames[d].leave \in 2..created
         /\ frames \in Seq(Frame) /\ Len(frames) \in Nat
         /\ created \in Nat /\ insert \in Nat
BY BlocksFacts, HereTypes, LenProperties DEF TypeInv, TypeOK, FramesOK, FrameOK

(* A statement.                                                            *)
LEMMA FitStatement ==
  ASSUME TypeInv, NEW h, Fitted(h), StreamOK(prog, frames), NEW m \in 0..1, Statement(m)
  PROVE  FitsNext(h) /\ StreamOK(prog', frames')
<1> DEFINE t == [tok |-> "op", at |-> Here]
           x == Op(Here)
           s == Eval(Here, m) \o <<x>>
           C2 == Began(code')
<1>0. /\ TypeOK /\ phase = "visit" /\ phase' = "visit" /\ frames' = frames /\ placed' = placed
      /\ insert' = insert /\ prog' = Visited("op", Here) /\ code' = Emit(code, insert, s)
  BY DEF Statement, MayOpen, TypeInv
<1>1. /\ t \in Token /\ prog' = Append(prog, t) /\ prog' \in Seq(Token) /\ prog \in Seq(Token)
      /\ Len(prog') = Here /\ Here \in 1..Len(prog') /\ Here \in Nat \ {0}
      /\ prog'[Here].tok = "op" /\ t.tok = "op"
  BY <1>0, HereTypes, VisitFacts
<1>2. h \in [Blocks -> Nat] /\ FramesFit(frames, h, placed, Began(code), insert)
  BY DEF Fitted
<1>3. x \in Instrs /\ x.op = "op" /\ x.id = Here
  BY <1>1, OpTypes DEF Op, Instr
<1> HIDE DEF t, x, C2
<1>4. InstrFits(prog', frames, h, placed, C2, "visit", insert, <<x>>, Here, 1)
  <2>1. <<x>>[1] = x /\ At(<<x>>, Here, 1) = Here
    BY DEF At
  <2>2. Runs(prog', Here, "visit")
    BY <1>1 DEF Runs
  <2> QED
    BY <1>1, <1>3, <2>1, <2>2 DEF InstrFits
<1>5. /\ BlockFits(prog', frames, h, placed, C2, "visit", insert, s, Here)
      /\ At(s, Here, Len(s) + 1) = After(x) /\ s \in Seq(Instrs)
  <2>1. Runs(prog', Here, "visit") /\ x.op # "br"
    BY <1>1, <1>3 DEF Runs
  <2> QED
    BY <1>1, <1>3, <1>4, <2>1, EvalFits
<1> HIDE DEF s
<1>6. /\ code'[insert] = code[insert] \o s
      /\ \A d \in Blocks \ {insert} : code'[d] = code[d]
  BY <1>0, <1>5, GrowsInsert
<1>7. placed \subseteq Blocks /\ insert \in placed
  BY <1>0, HereTypes
<1>8. /\ \A b \in placed' :
           BlockFits(prog', frames', h, placed', C2, phase', b, code'[b], h[b])
      /\ At(code'[insert], h[insert], Len(code'[insert]) + 1) = At(s, Here, Len(s) + 1)
      /\ h[Entry] = 1 /\ Began(code) \subseteq C2
  <2>1. \A d \in 1..Len(frames) : \E e \in 1..Len(frames') : frames'[e] = frames[d]
    BY <1>0
  <2>2. BlockFits(prog', frames', h, placed', Began(code'), phase', insert, s, Here)
    BY <1>0, <1>5 DEF C2
  <2>3. /\ placed' = placed /\ \A b \in placed' \ placed : FALSE
        /\ \A b \in placed : h[b] = h[b]
    BY <1>0
  <2>4. t.tok = "else" => \A tok \in Closing : Marks(prog, tok, t.at) = {}
    BY <1>1
  <2>5. Emits(h, h, t, s)
    BY <1>0, <1>1, <1>2, <1>6, <1>7, <2>1, <2>2, <2>3, <2>4 DEF Emits
  <2> QED
    BY <1>0, <1>1, <1>5, <2>5, FitStep DEF C2
<1>9. FramesFit(frames', h, placed', C2, insert')
  <2>1. Len(frames) \in Nat
    BY FrameLeaves
  <2>2. \A d \in 1..Len(frames) : frames[d].kind \in {"then", "else"} => frames[d].leave < insert
    BY <1>2 DEF FramesFit
  <2>3. Stays(frames, h, placed, Began(code), frames', h, placed', C2, insert')
    BY <1>0, <1>8, <2>1, <2>2 DEF Stays
  <2> QED
    BY <1>2, <2>3, FramesFitKeep
<1>10. After(x) = Len(prog') + 1
  BY <1>1, <1>3 DEF After
<1>11. StreamOK(prog', frames')
  BY <1>0, <1>1, FrameLeaves, OpenStream DEF Closing
<1>12. Entry \in placed'
  BY <1>0 DEF Fitted
<1> QED
  BY <1>0, <1>2, <1>5, <1>8, <1>9, <1>10, <1>11, <1>12 DEF FitsNext, C2

(* A branch alone fits.                                                    *)
LEMMA BrFits ==
  ASSUME NEW p, NEW F, NEW h, NEW P, NEW C, NEW ph, NEW b, NEW i, NEW y,
         JumpFits(p, F, h, P, C, b, i, y)
  PROVE  BlockFits(p, F, h, P, C, ph, b, <<Br(i, y)>>, i)
<1> DEFINE x == Br(i, y)
           s == <<x>>
<1>1. Len(s) = 1 /\ s[1] = x /\ \A k \in 1..1 : k = 1
  OBVIOUS
<1>2. x.op = "br" /\ x.yes = y /\ At(s, i, 1) = i
  BY DEF Br, At
<1> HIDE DEF s, x
<1>3. InstrFits(p, F, h, P, C, ph, b, s, i, 1)
  BY <1>1, <1>2 DEF InstrFits
<1> QED
  BY <1>1, <1>3 DEF BlockFits, s, x

(* A block without code ends where it begins.                              *)
LEMMA EmptyAt ==
  ASSUME NEW s, s = <<>>, NEW q
  PROVE  At(s, q, Len(s) + 1) = q
BY EmptyFits

(* An if: then begins behind the test.                                     *)
LEMMA FitEnterIf ==
  ASSUME TypeInv, FreshInv, NEW h, Fitted(h), StreamOK(prog, frames),
         NEW hasElse \in BOOLEAN, NEW m \in 0..1, EnterIf(hasElse, m),
         NEW h2, h2 = [h EXCEPT ![created + 2] = Here + 1]
  PROVE  FitsNext(h2) /\ StreamOK(prog', frames')
<1> DEFINE leave == created + 1
           then  == created + 2
           els   == IF hasElse THEN created + 3 ELSE created + 1
           t == [tok |-> "if", at |-> Here]
           x == CondBr(Here, then, els)
           s == Eval(Here, m) \o <<x>>
           C2 == Began(code')
           F2 == frames'
           f == [kind |-> "then", at |-> Here, cond |-> NoBlock,
                 body |-> then, els |-> els, leave |-> leave, before |-> current]
<1>0. /\ TypeOK /\ MayOpen /\ phase = "visit" /\ phase' = "visit" /\ frames' = Append(frames, f)
      /\ placed' = placed \cup {then} /\ insert' = then /\ prog' = Visited("if", Here)
      /\ code' = Emit(code, insert, s)
  BY DEF EnterIf, MayOpen, TypeInv
<1>1. /\ t \in Token /\ prog' = Append(prog, t) /\ prog' \in Seq(Token) /\ prog \in Seq(Token)
      /\ Len(prog') = Here /\ Here \in 1..Len(prog') /\ Here \in Nat \ {0}
      /\ Here = Len(prog) + 1 /\ prog'[Here].tok = "if" /\ t.tok = "if"
  BY <1>0, HereTypes, VisitFacts
<1>2. /\ leave \in Blocks /\ then \in Blocks /\ els \in Blocks /\ leave < then /\ leave <= els
      /\ insert \in placed /\ insert \in Blocks /\ placed \subseteq Blocks
      /\ placed \subseteq 1..created /\ then \notin placed /\ then # insert /\ then \in Nat
      /\ created \in Nat
  BY <1>0, HereTypes, RoomForBlocks
<1>3. /\ h \in [Blocks -> Nat] /\ FramesFit(frames, h, placed, Began(code), insert)
      /\ Entry \in placed
  BY DEF Fitted
<1>4. /\ h2 \in [Blocks -> Nat] /\ h2[then] = Here + 1 /\ \A b \in placed : h2[b] = h[b]
  <2>1. Here + 1 \in Nat
    BY <1>1
  <2> QED
    BY <1>2, <1>3, <2>1
<1>5. x \in Instrs /\ x.op = "condbr" /\ x.id = Here /\ x.yes = then /\ x.no = els
  BY <1>1, <1>2, BranchTypes DEF CondBr
<1>6. /\ frames \in Seq(Frame) /\ F2 \in Seq(Frame) /\ Len(F2) = Len(frames) + 1
      /\ Len(frames) \in Nat
      /\ F2[Len(frames) + 1] = f /\ \A d \in 1..Len(frames) : F2[d] = frames[d]
      /\ f \in Frame
  <2>1. TypeInv'
    BY TypeEnterIf
  <2>2. F2 \in Seq(Frame)
    BY <2>1 DEF TypeInv, TypeOK
  <2>3. f \in Frame
    BY <1>1, <1>2 DEF Frame, FrameKinds, TypeInv, TypeOK
  <2> HIDE DEF f
  <2> QED
    BY <1>0, <2>2, <2>3, FrameLeaves, AppendProperties
<1>7. /\ f.kind = "then" /\ f.at = Here /\ f.els = els /\ f.leave = leave
      /\ Other(f) = els
  BY DEF Other
<1>8. code[then] = <<>>
  BY <1>2 DEF FreshInv
<1> HIDE DEF t, x, C2, f, then, els, leave, F2
<1>9. TestFits(prog', F2, h2, placed', Here, x)
  <2>1. then \in placed'
    BY <1>0
  <2>2. Len(frames) + 1 \in 1..Len(F2) /\ F2[Len(frames) + 1].at = Here
        /\ F2[Len(frames) + 1].kind # "else" /\ x.no = Other(F2[Len(frames) + 1])
    BY <1>5, <1>6, <1>7
  <2> QED
    BY <1>1, <1>4, <1>5, <2>1, <2>2 DEF TestFits
<1>10. Runs(prog', Here, "visit")
  BY <1>1 DEF Runs
<1>11. InstrFits(prog', F2, h2, placed', C2, "visit", insert, <<x>>, Here, 1)
  <2>1. <<x>>[1] = x /\ At(<<x>>, Here, 1) = Here
    BY DEF At
  <2> QED
    BY <1>1, <1>5, <1>9, <1>10, <2>1 DEF InstrFits
<1>12. /\ BlockFits(prog', F2, h2, placed', C2, "visit", insert, s, Here)
       /\ At(s, Here, Len(s) + 1) = After(x) /\ s \in Seq(Instrs)
  BY <1>1, <1>5, <1>10, <1>11, EvalFits
<1> HIDE DEF s
<1>13. /\ code'[insert] = code[insert] \o s
       /\ \A d \in Blocks \ {insert} : code'[d] = code[d]
  BY <1>0, <1>12, GrowsInsert
<1>14. code'[then] = <<>>
  BY <1>2, <1>8, <1>13
<1>15. /\ \A b \in placed' :
           BlockFits(prog', F2, h2, placed', C2, phase', b, code'[b], h2[b])
       /\ h2[Entry] = 1 /\ Began(code) \subseteq C2
  <2>1. \A d \in 1..Len(frames) : \E e \in 1..Len(F2) : F2[e] = frames[d]
    <3>1. \A d \in 1..Len(frames) : d \in 1..Len(F2)
      BY <1>6
    <3> QED
      BY <1>6, <3>1
  <2>2. BlockFits(prog', F2, h2, placed', Began(code'), phase', insert, s, Here)
    BY <1>0, <1>12 DEF C2
  <2>4. \A b \in placed' \ placed :
           BlockFits(prog', F2, h2, placed', Began(code'), phase', b, code'[b], h2[b])
    <3> SUFFICES BlockFits(prog', F2, h2, placed', Began(code'), phase', then, code'[then], h2[then])
      BY <1>0
    <3> QED
      BY <1>14, EmptyFits
  <2>5. t.tok = "else" => \A tok \in Closing : Marks(prog, tok, t.at) = {}
    BY <1>1
  <2>6. placed \subseteq placed' /\ placed' \subseteq Blocks
    BY <1>0, <1>2
  <2>7. \A b \in Blocks \ {insert} : code'[b] = code[b]
    BY <1>13
  <2>8. Emits(h, h2, t, s)
    BY <1>0, <1>1, <1>4, <1>13, <2>1, <2>2, <2>4, <2>5, <2>6, <2>7 DEF Emits, F2
  <2> QED
    BY <1>0, <1>1, <1>12, <2>8, FitStep DEF C2, F2
<1>16. FramesFit(F2, h2, placed', C2, insert')
  <2>1. \A d \in 1..Len(frames) : frames[d].leave < f.leave /\ frames[d].leave < insert'
    BY <1>0, <1>7, FrameLeaves DEF leave, then
  <2>2. f.leave < insert' /\ f.leave <= f.els
    BY <1>0, <1>2, <1>7
  <2>3. f.kind \notin Tested /\ placed \subseteq placed'
    BY <1>0, <1>7 DEF Tested
  <2>4. F2 = Append(frames, f)
    BY <1>0 DEF F2
  <2>5. insert' \in Nat /\ Began(code) \subseteq C2 /\ FramesFit(frames, h, placed, Began(code), insert)
    BY <1>0, <1>2, <1>3, <1>15
  <2>6. Joins(frames, h, placed, Began(code), f, h2, placed', C2, insert')
    BY <1>0, <1>4, <2>1, <2>2, <2>3, <2>5 DEF Joins
  <2>7. FramesFit(Append(frames, f), h2, placed', C2, insert')
    BY <1>6, <2>5, <2>6, FramesFitMore
  <2> QED
    BY <2>4, <2>7
<1>17. StreamOK(prog', F2)
  <2>1. "if" \notin Closing \cup {"else"}
    BY DEF Closing
  <2>2. \E g \in Frame : /\ F2 = Append(frames, g) /\ g.at = Len(prog) + 1 /\ g.kind # "else"
                         /\ "if" = IF g.kind = "then" THEN "if" ELSE g.kind
    BY <1>0, <1>1, <1>6, <1>7 DEF F2
  <2> QED
    BY <1>1, <1>6, <2>1, <2>2, OpenStream
<1>18. At(code'[insert'], h2[insert'], Len(code'[insert']) + 1) = Len(prog') + 1
  BY <1>0, <1>1, <1>4, <1>14, EmptyAt, ZenonT(60)
<1>19. Entry \in placed'
  BY <1>0, <1>3
<1> QED
  BY <1>4, <1>15, <1>16, <1>17, <1>18, <1>19 DEF FitsNext, C2, F2

(* A loop that tests first: cond begins at the loop, its body behind it.   *)
LEMMA FitEnterTestedLoop ==
  ASSUME TypeInv, FreshInv, NEW h, Fitted(h), StreamOK(prog, frames),
         NEW kind \in LoopKinds, NEW m \in 0..1, EnterTestedLoop(kind, m),
         NEW h2, h2 = [h EXCEPT ![created + 1] = Here, ![created + 2] = Here + 1]
  PROVE  FitsNext(h2) /\ StreamOK(prog', frames')
<1> DEFINE cond  == created + 1
           loop  == created + 2
           leave == created + 3
           t == [tok |-> kind, at |-> Here]
           x == CondBr(Here, loop, leave)
           s == Eval(Here, m) \o <<x>>
           j == <<Br(Here, cond)>>
           C2 == Began(code')
           F2 == frames'
           f == [kind |-> kind, at |-> Here, cond |-> cond,
                 body |-> loop, els |-> NoBlock, leave |-> leave, before |-> current]
<1>0. /\ TypeOK /\ MayOpen /\ phase = "visit" /\ phase' = "visit" /\ frames' = Append(frames, f)
      /\ placed' = placed \cup {cond, loop} /\ insert' = loop /\ prog' = Visited(kind, Here)
      /\ kind \in Tested /\ kind \in AllLoopKinds
  BY LoopKindsAssumption DEF EnterTestedLoop, MayOpen, TypeInv, Tested
<1>1. /\ t \in Token /\ prog' = Append(prog, t) /\ prog' \in Seq(Token) /\ prog \in Seq(Token)
      /\ Len(prog') = Here /\ Here \in 1..Len(prog') /\ Here \in Nat \ {0}
      /\ Here = Len(prog) + 1 /\ prog'[Here].tok = kind /\ t.tok = kind
  BY <1>0, HereTypes, VisitFacts
<1>2. /\ leave \in Blocks /\ loop \in Blocks /\ cond \in Blocks /\ loop # cond
      /\ insert \in placed /\ insert \in Blocks /\ placed \subseteq Blocks
      /\ placed \subseteq 1..created /\ cond \notin placed /\ loop \notin placed
      /\ loop # insert /\ cond # insert /\ loop \in Nat /\ created \in Nat
  BY <1>0, HereTypes, RoomForBlocks
<1>3. /\ h \in [Blocks -> Nat] /\ FramesFit(frames, h, placed, Began(code), insert)
      /\ Entry \in placed
  BY DEF Fitted
<1>4. /\ h2 \in [Blocks -> Nat] /\ h2[loop] = Here + 1 /\ h2[cond] = Here
      /\ \A b \in placed : h2[b] = h[b]
  <2>1. Here + 1 \in Nat /\ Here \in Nat
    BY <1>1
  <2> QED
    BY <1>2, <1>3, <2>1
<1>5. x \in Instrs /\ x.op = "condbr" /\ x.id = Here /\ x.yes = loop /\ x.no = leave
  BY <1>1, <1>2, BranchTypes DEF CondBr
<1>6. /\ frames \in Seq(Frame) /\ F2 \in Seq(Frame) /\ Len(F2) = Len(frames) + 1
      /\ Len(frames) \in Nat
      /\ F2[Len(frames) + 1] = f /\ \A d \in 1..Len(frames) : F2[d] = frames[d]
      /\ f \in Frame
  <2>1. TypeInv'
    BY TypeEnterTestedLoop
  <2>2. F2 \in Seq(Frame)
    BY <2>1 DEF TypeInv, TypeOK
  <2>3. f \in Frame
    BY <1>0, <1>1, <1>2 DEF Frame, FrameKinds, TypeInv, TypeOK
  <2> HIDE DEF f
  <2> QED
    BY <1>0, <2>2, <2>3, FrameLeaves, AppendProperties
<1>7. /\ f.kind = kind /\ f.at = Here /\ f.cond = cond /\ f.leave = leave
      /\ kind \notin {"then", "else"} /\ Other(f) = leave
  BY <1>0 DEF Other, Tested
<1>8. code[loop] = <<>> /\ code[cond] = <<>>
  BY <1>2 DEF FreshInv
<1>9. /\ s \in Seq(Instrs) /\ j \in Seq(Instrs)
      /\ code'[insert] = code[insert] \o j
      /\ code'[cond] = <<>> \o s
      /\ \A d \in Blocks \ {insert, cond} : code'[d] = code[d]
  <2>1. PICK tt \in Seq(Instrs) :
           /\ tt = Eval(Here, m) \o <<CondBr(Here, created + 2, created + 3)>>
           /\ code'[insert] = code[insert] \o <<Br(Here, created + 1)>>
           /\ code'[created + 1] = code[created + 1] \o tt
           /\ \A d \in Blocks \ {insert, created + 1} : code'[d] = code[d]
    BY <1>0, EnterLoopCode
  <2>2. <<Br(Here, cond)>> \in Seq(Instrs)
    BY <1>0, <1>2, JumpCode
  <2> QED
    BY <1>8, <2>1, <2>2
<1> HIDE DEF t, x, C2, f, loop, cond, leave, F2, j
<1>10. TestFits(prog', F2, h2, placed', Here, x)
  <2>1. loop \in placed'
    BY <1>0
  <2>2. Len(frames) + 1 \in 1..Len(F2) /\ F2[Len(frames) + 1].at = Here
        /\ F2[Len(frames) + 1].kind # "else" /\ x.no = Other(F2[Len(frames) + 1])
    BY <1>5, <1>6, <1>7
  <2> QED
    BY <1>0, <1>1, <1>4, <1>5, <2>1, <2>2 DEF TestFits
<1>11. Runs(prog', Here, "visit")
  BY <1>0, <1>1 DEF Runs
<1>12. InstrFits(prog', F2, h2, placed', C2, "visit", cond, <<x>>, Here, 1)
  <2>1. <<x>>[1] = x /\ At(<<x>>, Here, 1) = Here
    BY DEF At
  <2> QED
    BY <1>1, <1>5, <1>10, <1>11, <2>1 DEF InstrFits
<1>13. /\ BlockFits(prog', F2, h2, placed', C2, "visit", cond, s, Here)
       /\ s # <<>> /\ s[1].op # "br"
  BY <1>1, <1>5, <1>11, <1>12, EvalFits
<1> HIDE DEF s
<1>14. code'[loop] = <<>> /\ code'[cond] = s
  <2>1. code'[loop] = <<>>
    BY <1>2, <1>8, <1>9
  <2>2. <<>> \o s = s
    BY <1>9
  <2> QED
    BY <1>9, <2>1, <2>2
<1>15. cond \in C2
  BY <1>2, <1>13, <1>14 DEF C2, Began
<1>16. BlockFits(prog', F2, h2, placed', C2, "visit", insert, j, Here)
  <2>1. Goes(prog', Here, h2[cond])
    BY <1>0, <1>1, <1>4 DEF Goes
  <2>2. cond \in placed'
    BY <1>0
  <2>3. JumpFits(prog', F2, h2, placed', C2, insert, Here, cond)
    BY <1>1, <1>15, <2>1, <2>2 DEF JumpFits
  <2> QED
    BY <2>3, BrFits DEF j
<1>17. /\ \A b \in placed' :
           BlockFits(prog', F2, h2, placed', C2, phase', b, code'[b], h2[b])
       /\ h2[Entry] = 1 /\ Began(code) \subseteq C2
  <2>1. \A d \in 1..Len(frames) : \E e \in 1..Len(F2) : F2[e] = frames[d]
    <3>1. \A d \in 1..Len(frames) : d \in 1..Len(F2)
      BY <1>6
    <3> QED
      BY <1>6, <3>1
  <2>2. BlockFits(prog', F2, h2, placed', Began(code'), phase', insert, j, Here)
    BY <1>0, <1>16 DEF C2
  <2>4. \A b \in placed' \ placed :
           BlockFits(prog', F2, h2, placed', Began(code'), phase', b, code'[b], h2[b])
    <3>1. BlockFits(prog', F2, h2, placed', Began(code'), phase', loop, code'[loop], h2[loop])
      BY <1>14, EmptyFits
    <3>2. BlockFits(prog', F2, h2, placed', Began(code'), phase', cond, code'[cond], h2[cond])
      BY <1>0, <1>4, <1>13, <1>14 DEF C2
    <3> QED
      BY <1>0, <3>1, <3>2
  <2>5. t.tok = "else" => \A tok \in Closing : Marks(prog, tok, t.at) = {}
    BY <1>0, <1>1 DEF Tested
  <2>6. placed \subseteq placed' /\ placed' \subseteq Blocks
    BY <1>0, <1>2
  <2>7. \A b \in Blocks \ {insert} :
          \/ code'[b] = code[b]
          \/ b \notin placed /\ \E u \in Seq(Instrs) : code'[b] = code[b] \o u
    <3>1. code'[cond] = code[cond] \o s
      BY <1>8, <1>9
    <3> QED
      BY <1>2, <1>9, <3>1
  <2>8. Emits(h, h2, t, j)
    BY <1>0, <1>1, <1>4, <1>9, <2>1, <2>2, <2>4, <2>5, <2>6, <2>7 DEF Emits, F2
  <2> QED
    BY <1>0, <1>1, <1>9, <2>8, FitStep DEF C2, F2
<1>18. FramesFit(F2, h2, placed', C2, insert')
  <2>1. \A d \in 1..Len(frames) : frames[d].leave < f.leave /\ frames[d].leave < insert'
    BY <1>0, <1>7, FrameLeaves DEF leave, loop
  <2>4. F2 = Append(frames, f)
    BY <1>0 DEF F2
  <2>5. insert' \in Nat /\ Began(code) \subseteq C2 /\ FramesFit(frames, h, placed, Began(code), insert)
    BY <1>0, <1>2, <1>3, <1>17
  <2>6. Joins(frames, h, placed, Began(code), f, h2, placed', C2, insert')
    BY <1>0, <1>4, <1>7, <1>15, <2>1, <2>5 DEF Joins
  <2>7. FramesFit(Append(frames, f), h2, placed', C2, insert')
    BY <1>6, <2>5, <2>6, FramesFitMore
  <2> QED
    BY <2>4, <2>7
<1>19. StreamOK(prog', F2)
  <2>1. kind \notin Closing \cup {"else"}
    BY <1>0 DEF Closing, Tested
  <2>2. \E g \in Frame : /\ F2 = Append(frames, g) /\ g.at = Len(prog) + 1 /\ g.kind # "else"
                         /\ kind = IF g.kind = "then" THEN "if" ELSE g.kind
    BY <1>0, <1>1, <1>6, <1>7 DEF F2
  <2> QED
    BY <1>1, <1>6, <2>1, <2>2, OpenStream
<1>20. At(code'[insert'], h2[insert'], Len(code'[insert']) + 1) = Len(prog') + 1
  BY <1>0, <1>1, <1>4, <1>14, EmptyAt, ZenonT(60)
<1>21. Entry \in placed'
  BY <1>0, <1>3
<1> QED
  BY <1>4, <1>17, <1>18, <1>19, <1>20, <1>21 DEF FitsNext, C2, F2

(* What the innermost frame holds is not placed.                           *)
LEMMA TopFresh ==
  ASSUME TypeInv, FreshInv, frames # <<>>
  PROVE  /\ Top.leave \in Blocks \ placed /\ code[Top.leave] = <<>> /\ Top.leave # insert
         /\ Top.kind = "then" => Top.els \in Blocks \ placed /\ code[Top.els] = <<>> /\ Top.els # insert
<1>1. /\ Len(frames) \in 1..Len(frames) /\ Top.leave \in Blocks
      /\ Top.kind \in {"then", "else"} => Top.els \in Blocks
  BY TopTypes
<1>2. Pending(Top) \cap placed = {}
  BY <1>1 DEF FreshInv, Top
<1>3. Top.leave \in Pending(Top) /\ (Top.kind = "then" => Top.els \in Pending(Top))
  BY DEF Pending
<1>4. insert \in placed
  BY HereTypes DEF TypeInv
<1> QED
  BY <1>1, <1>2, <1>3, <1>4 DEF FreshInv

(* The innermost frame turns from then to else.                            *)
Turns(F, h, P, C, n, F2, h2, P2, C2, n2) ==
  /\ n # 0 /\ n = Len(F) /\ F[n].kind = "then"
  /\ Len(F2) = n /\ \A d \in 1..(n - 1) : F2[d] = F[d]
  /\ F2[n].kind = "else" /\ F2[n].leave = F[n].leave
  /\ P \subseteq P2 /\ C \subseteq C2 /\ \A b \in P : h2[b] = h[b]
  /\ F[n].leave < n2

(* The frame that turned fits.                                             *)
LEMMA FramesElse ==
  ASSUME NEW F \in Seq(Frame), NEW h, NEW P, NEW C, NEW k \in Nat, FramesFit(F, h, P, C, k),
         NEW n \in Nat, NEW F2 \in Seq(Frame), NEW h2, NEW P2, NEW C2, NEW n2 \in Nat,
         Turns(F, h, P, C, n, F2, h2, P2, C2, n2)
  PROVE  FramesFit(F2, h2, P2, C2, n2)
<1>0. /\ n # 0 /\ n = Len(F) /\ F[n].kind = "then"
      /\ Len(F2) = n /\ \A d \in 1..(n - 1) : F2[d] = F[d]
      /\ F2[n].kind = "else" /\ F2[n].leave = F[n].leave
      /\ P \subseteq P2 /\ C \subseteq C2 /\ \A b \in P : h2[b] = h[b]
      /\ F[n].leave < n2
  BY DEF Turns
<1>1. \A d \in 1..n : F[d] \in Frame
  BY <1>0, ElementOfSeq
<1>2. \A d \in 1..n : F[d].leave \in Nat
  BY <1>1, BlocksFacts DEF Frame
<1>3. \A d \in 1..n : F2[d].leave = F[d].leave
  <2>1. \A d \in 1..n : d = n \/ d \in 1..(n - 1)
    BY <1>0
  <2> QED
    BY <1>0, <2>1
<1>4. \A d, e \in 1..n : d < e => F[d].leave < F[e].leave
  BY <1>0 DEF FramesFit
<1>5. \A d \in 1..(n - 1) : d \in 1..n /\ n \in 1..n /\ d < n
  BY <1>0
<1> SUFFICES ASSUME NEW d \in 1..n
             PROVE  /\ F2[d].kind \in {"then", "else"} => F2[d].leave < n2
                    /\ F2[d].kind = "then" => F2[d].leave <= F2[d].els
                    /\ F2[d].kind \in Tested => F2[d].cond \in P2 \cap C2 /\ h2[F2[d].cond] = F2[d].at
                    /\ \A e \in 1..n : d < e => F2[d].leave < F2[e].leave
  BY <1>0 DEF FramesFit
<1>6. \A e \in 1..n : d < e => F2[d].leave < F2[e].leave
  BY <1>3, <1>4
<1>7. CASE d = n
  BY <1>0, <1>6, <1>7 DEF Tested
<1>8. CASE d # n
  <2>1. d \in 1..(n - 1)
    BY <1>8
  <2>2. F2[d] = F[d] /\ F[d].leave < F[n].leave
    BY <1>0, <1>4, <1>5, <2>1
  <2>3. F[d].leave < n2
    BY <1>0, <1>2, <1>5, <2>1, <2>2
  <2>4. /\ F[d].kind = "then" => F[d].leave <= F[d].els
        /\ F[d].kind \in Tested => F[d].cond \in P \cap C /\ h[F[d].cond] = F[d].at
    BY <1>0 DEF FramesFit
  <2> QED
    BY <1>0, <1>6, <2>2, <2>3, <2>4
<1> QED
  BY <1>7, <1>8

(* What EnterElse makes of the frames.                                     *)
LEMMA ElseFacts ==
  ASSUME frames \in Seq(Frame), EnterElse
  PROVE  /\ frames' \in Seq(Frame) /\ Len(frames') = Len(frames)
         /\ \A i \in 1..(Len(frames) - 1) : frames'[i] = frames[i]
         /\ frames'[Len(frames)] = [Top EXCEPT !.kind = "else"]
BY ElseFrames DEF EnterElse

(* An else: the block els begins behind it.                                *)
LEMMA FitEnterElse ==
  ASSUME TypeInv, FreshInv, NEW h, Fitted(h), StreamOK(prog, frames), EnterElse,
         NEW h2, h2 = [h EXCEPT ![Top.els] = Here + 1]
  PROVE  FitsNext(h2) /\ StreamOK(prog', frames')
<1> DEFINE n == Len(frames)
           g == frames[n]
           t == [tok |-> "else", at |-> Top.at]
           j == <<Br(Here, Top.leave)>>
           C2 == Began(code')
           F2 == frames'
<1>0. /\ TypeOK /\ phase = "visit" /\ phase' = "visit" /\ frames # <<>> /\ Top = g
      /\ g.kind = "then" /\ g.els # g.leave /\ code' = JumpTo(g.leave)
      /\ placed' = placed \cup {g.els} /\ insert' = g.els /\ prog' = Visited("else", g.at)
      /\ j = <<Br(Here, g.leave)>>
      /\ t.tok = "else" /\ t.at = g.at
  BY DEF EnterElse, Top, TypeInv
<1>b. h2 = [h EXCEPT ![g.els] = Here + 1]
  BY DEF Top
<1>1. /\ n \in Nat /\ n # 0 /\ n \in 1..n /\ frames \in Seq(Frame) /\ g \in Frame
      /\ g.at \in Nat /\ g.leave \in Blocks /\ g.els \in Blocks
      /\ g.els \notin placed /\ code[g.els] = <<>> /\ g.els # insert
  <2>1. g \in Frame /\ n \in Nat \ {0} /\ g.leave \in Blocks /\ g.els \in Blocks
    BY <1>0, TopTypes
  <2>2. frames \in Seq(Frame) /\ g.at \in Nat
    BY <2>1, FrameLeaves DEF Frame
  <2> QED
    BY <1>0, <2>1, <2>2, TopFresh
<1>2. /\ t \in Token /\ prog' = Append(prog, t) /\ prog' \in Seq(Token) /\ prog \in Seq(Token)
      /\ Len(prog') = Here /\ Here \in 1..Len(prog') /\ Here \in Nat \ {0}
      /\ Here = Len(prog) + 1 /\ prog'[Here].tok = "else" /\ prog'[Here].at = g.at
      /\ Len(prog) \in Nat
  BY <1>0, <1>1, VisitFacts
<1>3. /\ h \in [Blocks -> Nat] /\ FramesFit(frames, h, placed, Began(code), insert)
      /\ Entry \in placed
  BY DEF Fitted
<1>4. /\ insert \in placed /\ insert \in Blocks /\ placed \subseteq Blocks
      /\ insert \in Nat /\ g.leave \in Nat /\ g.els \in Nat
  BY <1>0, <1>1, HereTypes, BlocksFacts
<1>5. /\ h2 \in [Blocks -> Nat] /\ h2[g.els] = Here + 1 /\ \A b \in placed : h2[b] = h[b]
  <2>1. Here + 1 \in Nat
    BY <1>2
  <2> QED
    BY <1>b, <1>1, <1>3, <1>4, <2>1
<1>6. /\ F2 \in Seq(Frame) /\ Len(F2) = n /\ \A d \in 1..(n - 1) : F2[d] = frames[d]
      /\ F2[n].kind = "else" /\ F2[n].leave = g.leave /\ F2[n].at = g.at
  <2>1. /\ F2 \in Seq(Frame) /\ Len(F2) = n
        /\ \A d \in 1..(n - 1) : F2[d] = frames[d]
        /\ F2[n] = [Top EXCEPT !.kind = "else"]
    BY <1>1, ElseFacts
  <2>2. F2[n] = [g EXCEPT !.kind = "else"]
    BY <1>0, <2>1
  <2> QED
    BY <1>1, <2>1, <2>2 DEF Frame
<1>7. g.leave < insert /\ g.leave < g.els
  BY <1>0, <1>1, <1>3, <1>4 DEF FramesFit
<1>8. /\ j \in Seq(Instrs) /\ code'[insert] = code[insert] \o j
      /\ \A d \in Blocks \ {insert} : code'[d] = code[d]
  BY <1>0, <1>1, JumpCode
<1> HIDE DEF t, C2, F2, j, g, n
<1>9. code'[g.els] = <<>>
  BY <1>1, <1>8
<1>10. BlockFits(prog', F2, h2, placed', C2, "visit", insert, j, Here)
  <2>1. \E d \in 1..Len(F2) : /\ F2[d].kind = "else" /\ g.leave = F2[d].leave
                              /\ prog'[Here].tok = "else" /\ prog'[Here].at = F2[d].at
    BY <1>1, <1>2, <1>6
  <2>2. JumpFits(prog', F2, h2, placed', C2, insert, Here, g.leave)
    BY <1>2, <1>7, <2>1 DEF JumpFits
  <2> QED
    BY <1>0, <2>2, BrFits
<1>11. /\ \A b \in placed' :
            BlockFits(prog', F2, h2, placed', C2, phase', b, code'[b], h2[b])
       /\ h2[Entry] = 1 /\ Began(code) \subseteq C2
  <2>1. \A d \in 1..n : \/ \E e \in 1..Len(F2) : F2[e] = frames[d]
                        \/ Settles(prog, prog', frames[d], h2, placed')
    <3>1. Settles(prog, Append(prog, t), frames[n], h2, placed')
      <4>1. frames[n].els \in placed' /\ h2[frames[n].els] = Len(prog) + 2
        BY <1>0, <1>2, <1>5 DEF g
      <4>2. n \in 1..Len(frames) /\ frames[n].kind = "then" /\ t.at = frames[n].at
        BY <1>0, <1>1 DEF g, n
      <4> QED
        BY <1>0, <1>1, <1>2, <4>1, <4>2, SettleElse
    <3>2. \A d \in 1..n : d = n \/ (d \in 1..(n - 1) /\ d \in 1..Len(F2))
      BY <1>1, <1>6
    <3> QED
      BY <1>2, <1>6, <3>1, <3>2
  <2>2. BlockFits(prog', F2, h2, placed', C2, phase', insert, j, Here)
    BY <1>0, <1>10
  <2>3. \A b \in placed' \ placed :
           BlockFits(prog', F2, h2, placed', C2, phase', b, code'[b], h2[b])
    <3>1. BlockFits(prog', F2, h2, placed', C2, phase', g.els, code'[g.els], h2[g.els])
      BY <1>9, EmptyFits
    <3> QED
      BY <1>0, <3>1
  <2>4. \A tok \in Closing : Marks(prog, tok, t.at) = {}
    BY <1>0, <1>1 DEF StreamOK, g, n
  <2>5. placed \subseteq placed' /\ placed' \subseteq Blocks
    BY <1>0, <1>1, <1>4
  <2>6. phase = "visit"
    BY <1>0
  <2>7. Emits(h, h2, t, j)
    BY <1>2, <1>5, <1>8, <2>1, <2>2, <2>3, <2>4, <2>5, <2>6 DEF Emits, F2, C2, n
  <2>8. t \in Token /\ j \in Seq(Instrs)
    BY <1>2, <1>8
  <2> QED
    BY <2>7, <2>8, FitStep DEF C2, F2
<1>12. FramesFit(F2, h2, placed', C2, insert')
  <2>1. frames[n].leave < insert' /\ insert' \in Nat /\ placed \subseteq placed'
        /\ frames[n].kind = "then" /\ F2[n].leave = frames[n].leave /\ n = Len(frames)
    BY <1>0, <1>4, <1>6, <1>7 DEF g, n
  <2>2. Turns(frames, h, placed, Began(code), n, F2, h2, placed', C2, insert')
    BY <1>1, <1>5, <1>6, <1>11, <2>1 DEF Turns
  <2>3. frames \in Seq(Frame) /\ insert \in Nat /\ n \in Nat /\ F2 \in Seq(Frame)
    BY <1>1, <1>4, <1>6
  <2> QED
    BY <1>3, <2>1, <2>2, <2>3, FramesElse
<1>13. StreamOK(prog', F2)
  <2>1. frames[n].kind = "then" /\ t.at = frames[n].at /\ n = Len(frames) /\ F2[n].at = frames[n].at
    BY <1>0, <1>6 DEF g, n
  <2>2. t.tok = "else" /\ frames # <<>>
    BY <1>0
  <2>3. StreamOK(Append(prog, t), F2)
    BY <1>1, <1>2, <1>6, <2>1, <2>2, ElseStream
  <2> QED
    BY <1>2, <2>3
<1>14. At(code'[insert'], h2[insert'], Len(code'[insert']) + 1) = Len(prog') + 1
  <2>1. code'[insert'] = <<>> /\ h2[insert'] = Here + 1 /\ Len(prog') = Here
    BY <1>0, <1>2, <1>5, <1>9
  <2> QED
    BY <2>1, EmptyAt
<1>15. Entry \in placed'
  BY <1>0, <1>3
<1> QED
  BY <1>5, <1>11, <1>12, <1>13, <1>14, <1>15 DEF FitsNext, C2, F2

(* The end of an if or of a loop that tests first.                         *)
Ends(tok, y) ==
  \/ /\ tok = "endif" /\ y = Top.leave
     /\ Top.kind = "else" \/ (Top.kind = "then" /\ Top.els = Top.leave)
  \/ /\ tok = "endloop" /\ y = Top.cond
     /\ Top.kind \in Tested /\ Top.kind \in LoopKinds

(* The end of an if or a loop: leave begins behind it.                     *)
LEMMA FitPop ==
  ASSUME TypeInv, FreshInv, NEW h, Fitted(h), StreamOK(prog, frames),
         phase = "visit", phase' = "visit", frames # <<>>,
         NEW tok, NEW y \in Blocks, Ends(tok, y), prog' = Visited(tok, Top.at),
         code' = JumpTo(y), Rejoin({}),
         NEW h2, h2 = [h EXCEPT ![Top.leave] = Here + 1]
  PROVE  FitsNext(h2) /\ StreamOK(prog', frames')
<1> DEFINE n == Len(frames)
           g == frames[n]
           t == [tok |-> tok, at |-> Top.at]
           j == <<Br(Here, y)>>
           C2 == Began(code')
           F2 == frames'
<1>0. /\ TypeOK /\ Top = g
      /\ placed' = placed \cup {g.leave} /\ insert' = g.leave /\ prog' = Visited(tok, g.at)
      /\ F2 = Pop /\ t.tok = tok /\ t.at = g.at /\ tok \in Closing
  BY DEF Top, TypeInv, Rejoin, Ends, Closing
<1>b. h2 = [h EXCEPT ![g.leave] = Here + 1]
  BY DEF Top
<1>1. /\ n \in Nat /\ n # 0 /\ n \in 1..n /\ frames \in Seq(Frame) /\ g \in Frame
      /\ g.at \in Nat /\ g.leave \in Blocks
      /\ g.leave \notin placed /\ code[g.leave] = <<>> /\ g.leave # insert
  <2>1. g \in Frame /\ n \in Nat \ {0} /\ g.leave \in Blocks
    BY <1>0, TopTypes
  <2>2. frames \in Seq(Frame) /\ g.at \in Nat
    BY <2>1, FrameLeaves DEF Frame
  <2> QED
    BY <1>0, <2>1, <2>2, TopFresh
<1>2. /\ t \in Token /\ prog' = Append(prog, t) /\ prog' \in Seq(Token) /\ prog \in Seq(Token)
      /\ Len(prog') = Here /\ Here \in 1..Len(prog') /\ Here \in Nat \ {0}
      /\ Here = Len(prog) + 1 /\ prog'[Here].tok = tok /\ prog'[Here].at = g.at
      /\ Len(prog) \in Nat
  BY <1>0, <1>1, VisitFacts DEF Closing
<1>3. /\ h \in [Blocks -> Nat] /\ FramesFit(frames, h, placed, Began(code), insert)
      /\ Entry \in placed
  BY DEF Fitted
<1>4. /\ insert \in placed /\ insert \in Blocks /\ placed \subseteq Blocks
      /\ insert \in Nat /\ g.leave \in Nat
  BY <1>0, <1>1, HereTypes, BlocksFacts
<1>5. /\ h2 \in [Blocks -> Nat] /\ h2[g.leave] = Here + 1 /\ \A b \in placed : h2[b] = h[b]
  <2>1. Here + 1 \in Nat
    BY <1>2
  <2> QED
    BY <1>b, <1>1, <1>3, <1>4, <2>1
<1>6. /\ F2 \in Seq(Frame) /\ Len(F2) = n - 1 /\ \A d \in 1..(n - 1) : F2[d] = frames[d]
  BY <1>0, <1>1, PopFrames
<1>7. /\ \/ tok = "endif" /\ y = g.leave /\ g.kind = "else"
         \/ tok = "endif" /\ y = g.leave /\ g.kind = "then" /\ g.els = g.leave
         \/ tok = "endloop" /\ y = g.cond /\ g.kind \in Tested /\ g.kind \in LoopKinds
  BY DEF Top, Ends
<1>8. /\ j \in Seq(Instrs) /\ code'[insert] = code[insert] \o j
      /\ \A d \in Blocks \ {insert} : code'[d] = code[d]
  BY <1>0, JumpCode
<1>9. code'[g.leave] = <<>>
  BY <1>1, <1>8
<1>10. Began(code) \subseteq C2
  <2>1. \A b \in Blocks : code'[b] = code[b] \/ \E s \in Seq(Instrs) : code'[b] = code[b] \o s
    BY <1>8
  <2>2. code \in [Blocks -> Seq(Instrs)]
    BY <1>0 DEF TypeOK
  <2> QED
    BY <2>1, <2>2, BeganGrows
<1> HIDE DEF t, C2, F2, j, g, n
<1>11. JumpFits(prog', F2, h2, placed', C2, insert, Here, y)
  <2>1. CASE tok = "endif" /\ y = g.leave /\ g.kind \in {"then", "else"}
    <3>1. g.leave < insert /\ g.leave \in placed'
      BY <1>0, <1>1, <1>3, <2>1 DEF FramesFit, g, n
    <3>2. Goes(prog', Here, h2[g.leave])
      BY <1>2, <1>5, <2>1 DEF Goes
    <3> QED
      BY <1>2, <2>1, <3>1, <3>2 DEF JumpFits
  <2>2. CASE tok = "endloop" /\ y = g.cond /\ g.kind \in Tested
    <3>1. g.cond \in placed \cap Began(code) /\ h[g.cond] = g.at
      BY <1>1, <1>3, <2>2 DEF FramesFit, g, n
    <3>2. g.cond \in placed' /\ h2[g.cond] = g.at /\ g.cond \in C2
      BY <1>0, <1>5, <1>10, <3>1
    <3>3. Goes(prog', Here, h2[g.cond])
      BY <1>2, <2>2, <3>2 DEF Goes
    <3> QED
      BY <1>2, <2>2, <3>2, <3>3 DEF JumpFits
  <2> QED
    BY <1>7, <2>1, <2>2
<1>12. BlockFits(prog', F2, h2, placed', C2, "visit", insert, j, Here)
  BY <1>11, BrFits DEF j
<1>13. /\ \A b \in placed' :
            BlockFits(prog', F2, h2, placed', C2, phase', b, code'[b], h2[b])
       /\ h2[Entry] = 1
  <2>1. \A d \in 1..n : \/ \E e \in 1..Len(F2) : F2[e] = frames[d]
                        \/ Settles(prog, prog', frames[d], h2, placed')
    <3>1. Settles(prog, Append(prog, t), frames[n], h2, placed')
      <4>1. frames[n].leave \in placed' /\ h2[frames[n].leave] = Len(prog) + 2
        BY <1>0, <1>2, <1>5 DEF g
      <4>2. n \in 1..Len(frames) /\ t.at = frames[n].at
        BY <1>0, <1>1 DEF g, n
      <4>3. \/ t.tok = "endif" /\ frames[n].kind = "else"
            \/ t.tok = "endif" /\ frames[n].kind = "then" /\ frames[n].els = frames[n].leave
            \/ t.tok = "endloop" /\ frames[n].kind \in Tested
        BY <1>0, <1>7 DEF g
      <4> QED
        BY <1>1, <1>2, <4>1, <4>2, <4>3, SettlePop
    <3>2. \A d \in 1..n : d = n \/ (d \in 1..(n - 1) /\ d \in 1..Len(F2))
      BY <1>1, <1>6
    <3> QED
      BY <1>2, <1>6, <3>1, <3>2
  <2>2. BlockFits(prog', F2, h2, placed', C2, phase', insert, j, Here)
    BY <1>12
  <2>3. \A b \in placed' \ placed :
           BlockFits(prog', F2, h2, placed', C2, phase', b, code'[b], h2[b])
    <3>1. BlockFits(prog', F2, h2, placed', C2, phase', g.leave, code'[g.leave], h2[g.leave])
      BY <1>9, EmptyFits
    <3> QED
      BY <1>0, <3>1
  <2>4. t.tok # "else"
    BY <1>0 DEF Closing
  <2>5. placed \subseteq placed' /\ placed' \subseteq Blocks
    BY <1>0, <1>1, <1>4
  <2>7. Emits(h, h2, t, j)
    BY <1>2, <1>5, <1>8, <2>1, <2>2, <2>3, <2>4, <2>5 DEF Emits, F2, C2, n
  <2>8. t \in Token /\ j \in Seq(Instrs)
    BY <1>2, <1>8
  <2> QED
    BY <2>7, <2>8, FitStep DEF C2, F2
<1>14. FramesFit(F2, h2, placed', C2, insert')
  <2>1. \A d \in 1..Len(F2) : frames[d].leave < g.leave
    <3>1. \A d \in 1..(n - 1) : d \in 1..n /\ n \in 1..n /\ d < n
      BY <1>1
    <3> QED
      BY <1>3, <1>6, <3>1 DEF FramesFit, g, n
  <2>2. placed \subseteq placed' /\ insert' = g.leave /\ Len(F2) \in Nat /\ Len(frames) \in Nat
        /\ Len(F2) <= Len(frames) /\ \A d \in 1..Len(F2) : F2[d] = frames[d]
    BY <1>0, <1>1, <1>6 DEF n
  <2>3. Stays(frames, h, placed, Began(code), F2, h2, placed', C2, insert')
    BY <1>5, <1>10, <2>1, <2>2 DEF Stays
  <2> QED
    BY <1>3, <2>3, FramesFitKeep
<1>15. StreamOK(prog', F2)
  <2>1. /\ t.tok \in Closing /\ t.at = frames[n].at /\ n = Len(frames)
        /\ t.tok = "endif" => frames[n].kind \in {"then", "else"}
        /\ t.tok = "endloop" => frames[n].kind \in LoopKinds \ {"then", "else"}
    BY <1>0, <1>7 DEF g, n, Closing, Tested
  <2>2. StreamOK(Append(prog, t), F2)
    BY <1>1, <1>2, <1>6, <2>1, CloseStream
  <2> QED
    BY <1>2, <2>2
<1>16. At(code'[insert'], h2[insert'], Len(code'[insert']) + 1) = Len(prog') + 1
  <2>1. code'[insert'] = <<>> /\ h2[insert'] = Here + 1 /\ Len(prog') = Here
    BY <1>0, <1>2, <1>5, <1>9
  <2> QED
    BY <2>1, EmptyAt
<1>17. Entry \in placed'
  BY <1>0, <1>3
<1> QED
  BY <1>5, <1>13, <1>14, <1>15, <1>16, <1>17 DEF FitsNext, C2, F2

(* A return.                                                               *)
LEMMA FitReturn ==
  ASSUME TypeInv, NEW h, Fitted(h), StreamOK(prog, frames),
         NEW v \in {"none", "scalar"} \cup AllRetValues, ReturnStatement(v)
  PROVE  FitsNext(h) /\ StreamOK(prog', frames')
<1> DEFINE t == [tok |-> "ret", at |-> Here]
           s == ReturnCode(v)
           C2 == Began(code')
<1>0. /\ TypeOK /\ phase = "visit" /\ phase' = "visit" /\ frames' = frames /\ placed' = placed
      /\ insert' = insert /\ prog' = Visited("ret", Here) /\ code' = Emit(code, insert, s)
  BY DEF ReturnStatement, MayReturn, TypeInv, Return
<1>a. v # "none" \/ retType = "void"
  BY RetAssumption DEF ReturnStatement, ValuesOf, AllRetValues
<1>1. /\ t \in Token /\ prog' = Append(prog, t) /\ prog' \in Seq(Token) /\ prog \in Seq(Token)
      /\ Len(prog') = Here /\ Here \in 1..Len(prog') /\ Here \in Nat \ {0}
      /\ prog'[Here].tok = "ret" /\ t.tok = "ret"
  BY <1>0, HereTypes, VisitFacts
<1>2. h \in [Blocks -> Nat] /\ FramesFit(frames, h, placed, Began(code), insert)
  BY DEF Fitted
<1>3. s \in Seq(Instrs) /\ Single(s) /\ Closed(s) /\ Ours(s, Here)
  BY <1>0, <1>a, ReturnCodeEnds, ReturnOurs
<1> HIDE DEF t, s, C2
<1>4. Runs(prog', Here, "visit")
  BY <1>1 DEF Runs
<1>5. /\ BlockFits(prog', frames, h, placed, C2, "visit", insert, s, Here)
      /\ At(s, Here, Len(s) + 1) = Here + 1
  <2>1. \A k \in 1..Len(s) : s[k].id = Here /\ s[k].op \in {"new", "free", "ret"}
    BY <1>3 DEF Ours
  <2> QED
    BY <1>1, <1>3, <1>4, <2>1, HereFits
<1>6. /\ code'[insert] = code[insert] \o s
      /\ \A d \in Blocks \ {insert} : code'[d] = code[d]
  BY <1>0, <1>3, GrowsInsert
<1>7. placed \subseteq Blocks /\ insert \in placed
  BY <1>0, HereTypes
<1>8. /\ \A b \in placed' :
           BlockFits(prog', frames', h, placed', C2, phase', b, code'[b], h[b])
      /\ At(code'[insert], h[insert], Len(code'[insert]) + 1) = At(s, Here, Len(s) + 1)
      /\ h[Entry] = 1 /\ Began(code) \subseteq C2
  <2>1. \A d \in 1..Len(frames) : \E e \in 1..Len(frames') : frames'[e] = frames[d]
    BY <1>0
  <2>2. BlockFits(prog', frames', h, placed', Began(code'), phase', insert, s, Here)
    BY <1>0, <1>5 DEF C2
  <2>3. /\ placed' = placed /\ \A b \in placed' \ placed : FALSE
        /\ \A b \in placed : h[b] = h[b]
    BY <1>0
  <2>4. t.tok = "else" => \A tok \in Closing : Marks(prog, tok, t.at) = {}
    BY <1>1
  <2>5. Emits(h, h, t, s)
    BY <1>0, <1>1, <1>2, <1>6, <1>7, <2>1, <2>2, <2>3, <2>4 DEF Emits
  <2> QED
    BY <1>0, <1>1, <1>3, <2>5, FitStep DEF C2
<1>9. FramesFit(frames', h, placed', C2, insert')
  <2>1. Len(frames) \in Nat
    BY FrameLeaves
  <2>2. \A d \in 1..Len(frames) : frames[d].kind \in {"then", "else"} => frames[d].leave < insert
    BY <1>2 DEF FramesFit
  <2>3. Stays(frames, h, placed, Began(code), frames', h, placed', C2, insert')
    BY <1>0, <1>8, <2>1, <2>2 DEF Stays
  <2> QED
    BY <1>2, <2>3, FramesFitKeep
<1>11. StreamOK(prog', frames')
  BY <1>0, <1>1, FrameLeaves, OpenStream DEF Closing
<1>12. Entry \in placed'
  BY <1>0 DEF Fitted
<1> QED
  BY <1>0, <1>1, <1>2, <1>5, <1>8, <1>9, <1>11, <1>12 DEF FitsNext, C2

(* The end of the sub.                                                     *)
LEMMA FitFinish ==
  ASSUME TypeInv, "fallOff" \notin Shapes, NEW h, Fitted(h), Finish
  PROVE  FitsNext(h)
<1> DEFINE s == IF hasReturn THEN <<>> ELSE ReturnCode("none")
           C2 == Began(code')
<1>0. /\ TypeOK /\ phase = "visit" /\ phase' = "done" /\ frames' = frames /\ placed' = placed
      /\ insert' = insert /\ prog' = prog /\ (hasReturn \/ retType = "void")
      /\ hasReturn => code' = code
      /\ ~hasReturn => code' = Emit(code, insert, ReturnCode("none"))
  BY DEF Finish, Return, TypeInv
<1>1. Here = Len(prog) + 1 /\ Len(prog) \in Nat /\ Here \in Nat \ {0} /\ prog \in Seq(Token)
  BY <1>0, HereTypes DEF Here, TypeOK
<1>2. /\ h \in [Blocks -> Nat] /\ FramesFit(frames, h, placed, Began(code), insert)
      /\ Entry \in placed /\ h[Entry] = 1
  BY DEF Fitted
<1>3. /\ At(code[insert], h[insert], Len(code[insert]) + 1) = Here
      /\ \A b \in placed :
           BlockFits(prog, frames, h, placed, Began(code), "visit", b, code[b], h[b])
  BY <1>0, <1>1 DEF Fitted
<1>4. code \in [Blocks -> Seq(Instrs)] /\ insert \in Blocks /\ insert \in placed /\ placed \subseteq Blocks
  BY <1>0, HereTypes DEF TypeOK
<1>5. s \in Seq(Instrs) /\ BlockFits(prog, frames, h, placed, C2, "done", insert, s, Here)
  <2>1. CASE hasReturn
    BY <2>1, EmptyFits, EmptySeq
  <2>2. CASE ~hasReturn
    <3> DEFINE r == ReturnCode("none")
    <3>1. r \in Seq(Instrs) /\ Single(r) /\ Closed(r) /\ Ours(r, Here)
      BY <1>0, <2>2, ReturnCodeEnds, ReturnOurs
    <3> HIDE DEF r
    <3>2. Runs(prog, Here, "done") /\ Here \notin 1..Len(prog)
      BY <1>1 DEF Runs
    <3>3. \A k \in 1..Len(r) : r[k].id = Here /\ r[k].op \in {"new", "free", "ret"}
      BY <3>1 DEF Ours
    <3>4. BlockFits(prog, frames, h, placed, C2, "done", insert, r, Here)
      BY <1>1, <3>1, <3>2, <3>3, HereFits
    <3> QED
      BY <2>2, <3>1, <3>4 DEF r
  <2> QED
    BY <2>1, <2>2
<1>6. code'[insert] = code[insert] \o s /\ \A d \in Blocks \ {insert} : code'[d] = code[d]
  <2>1. CASE hasReturn
    <3>1. code[insert] \o <<>> = code[insert]
      BY <1>4
    <3> QED
      BY <1>0, <2>1, <3>1
  <2>2. CASE ~hasReturn
    BY <1>0, <1>5, <2>2, GrowsInsert
  <2> QED
    BY <2>1, <2>2
<1>14. ~Closed(code'[insert']) =>
         At(code'[insert'], h[insert'], Len(code'[insert']) + 1) = Len(prog') + 1
  <2>0. insert' = insert /\ prog' = prog /\ (hasReturn => code' = code)
    BY DEF Finish
  <2>1. CASE hasReturn
    <3>1. code' = code
      BY <2>0, <2>1
    <3>2. At(code[insert], h[insert], Len(code[insert]) + 1) = Len(prog) + 1
      BY <1>1, <1>3
    <3> HIDE DEF s, C2
    <3> QED
      BY <2>0, <3>1, <3>2
  <2>2. CASE ~hasReturn
    <3>1. s \in Seq(Instrs) /\ Closed(s) /\ code[insert] \in Seq(Instrs)
      BY <1>0, <1>4, <2>2, ReturnCodeEnds
    <3> HIDE DEF s
    <3>2. Closed(code[insert] \o s)
      BY <3>1, ClosedConcat
    <3>3. Closed(code'[insert'])
      BY <1>6, <2>0, <3>2
    <3> QED
      BY <3>3
  <2> QED
    BY <2>1, <2>2
<1> HIDE DEF s, C2
<1>7. Began(code) \subseteq C2
  <2>1. \A b \in Blocks : code'[b] = code[b] \/ \E u \in Seq(Instrs) : code'[b] = code[b] \o u
    BY <1>5, <1>6
  <2> QED
    BY <1>4, <2>1, BeganGrows DEF C2
<1>8. Moves(prog, frames, h, placed, Began(code), prog, frames, h, placed, C2)
  BY <1>1, <1>7 DEF Moves
<1>9. ASSUME NEW b \in placed
      PROVE  BlockFits(prog, frames, h, placed, C2, "done", b, code'[b], h[b])
  <2>1. CASE b # insert
    <3>1. BlockFits(prog, frames, h, placed, C2, "done", b, code[b], h[b])
      BY <1>1, <1>3, <1>8, BlockKeeps
    <3> QED
      BY <1>4, <1>6, <2>1, <3>1
  <2>2. CASE b = insert
    <3> DEFINE u == code[insert]
               q == h[insert]
               C == Began(code)
    <3>1. /\ u \in Seq(Instrs) /\ BlockFits(prog, frames, h, placed, C, "visit", insert, u, q)
          /\ Moves(prog, frames, h, placed, C, prog, frames, h, placed, C2)
          /\ BlockFits(prog, frames, h, placed, C2, "done", insert, s, At(u, q, Len(u) + 1))
      BY <1>3, <1>4, <1>5, <1>8
    <3> HIDE DEF u, q, C
    <3>2. BlockFits(prog, frames, h, placed, C2, "done", insert, u \o s, q)
      BY <1>1, <1>5, <3>1, FitGrows
    <3> QED
      BY <1>6, <2>2, <3>2 DEF u, q
  <2> QED
    BY <2>1, <2>2
<1>10. FramesFit(frames, h, placed, C2, insert)
  <2>1. Len(frames) \in Nat
    BY FrameLeaves
  <2>2. \A d \in 1..Len(frames) : frames[d].kind \in {"then", "else"} => frames[d].leave < insert
    BY <1>2 DEF FramesFit
  <2>3. Stays(frames, h, placed, Began(code), frames, h, placed, C2, insert)
    BY <1>7, <2>1, <2>2 DEF Stays
  <2> QED
    BY <1>2, <2>3, FramesFitKeep
<1>11. /\ phase' = "done" /\ frames' = frames /\ placed' = placed
       /\ insert' = insert /\ prog' = prog
  BY DEF Finish
<1>12. \A b \in placed' :
         BlockFits(prog', frames', h, placed', Began(code'), phase', b, code'[b], h[b])
  BY <1>9, <1>11 DEF C2
<1>13. FramesFit(frames', h, placed', Began(code'), insert')
  BY <1>10, <1>11 DEF C2
<1> QED
  BY <1>2, <1>11, <1>12, <1>13, <1>14 DEF FitsNext

(* Before the first visit.                                                 *)
LEMMA FitInit ==
  ASSUME Init
  PROVE  StreamOK(prog, frames) /\ \E h : Fitted(h)
<1> DEFINE h == [b \in Blocks |-> 1]
<1>0. /\ prog = <<>> /\ frames = <<>> /\ placed = {Entry} /\ insert = Entry /\ phase = "visit"
      /\ code = [b \in Blocks |-> IF b = Entry THEN InitLocals ELSE <<>>]
      /\ Len(prog) = 0 /\ Len(frames) = 0
  BY EmptySeq DEF Init
<1>1. Entry \in Blocks /\ code[Entry] = InitLocals
  BY <1>0, BlocksFacts
<1>2. /\ InitLocals \in Seq(Instrs) /\ Len(InitLocals) = TextLocals
      /\ \A l \in 1..TextLocals : InitLocals[l] = New(0, -l)
  <2>1. \A l \in 1..TextLocals : New(0, -l) \in Instrs
    BY TextLocalsAssumption, InstrTypes
  <2> QED
    BY <2>1, TextLocalsAssumption DEF InitLocals
<1>3. \A l \in 1..TextLocals : InitLocals[l].op = "new" /\ InitLocals[l].id = 0
  BY <1>2 DEF New, Instr
<1>4. \A k \in 1..(TextLocals + 1) : At(InitLocals, 1, k) = 1
  <2> SUFFICES ASSUME NEW k \in 1..(TextLocals + 1), k # 1 PROVE At(InitLocals, 1, k) = 1
    BY DEF At
  <2>1. k - 1 \in 1..TextLocals
    BY TextLocalsAssumption
  <2> QED
    BY <1>3, <2>1 DEF At, After
<1>5. BlockFits(prog, frames, h, placed, Began(code), phase, Entry, InitLocals, 1)
  <2> SUFFICES ASSUME NEW k \in 1..TextLocals
               PROVE  InstrFits(prog, frames, h, placed, Began(code), phase, Entry, InitLocals, 1, k)
    BY <1>2 DEF BlockFits
  <2>1. At(InitLocals, 1, k) = 1 /\ InitLocals[k].op = "new" /\ InitLocals[k].id = 0
    BY <1>3, <1>4, TextLocalsAssumption
  <2> HIDE DEF h
  <2> QED
    BY <2>1 DEF InstrFits
<1>6. h \in [Blocks -> Nat] /\ h[Entry] = 1
  BY <1>1
<1>7. At(code[Entry], h[Entry], Len(code[Entry]) + 1) = 1
  <2>1. TextLocals + 1 \in 1..(TextLocals + 1)
    BY TextLocalsAssumption
  <2> QED
    BY <1>1, <1>2, <1>4, <1>6, <2>1
<1> HIDE DEF h
<1>8. FramesFit(frames, h, placed, Began(code), insert)
  BY <1>0 DEF FramesFit
<1>9. Fitted(h)
  BY <1>0, <1>1, <1>5, <1>6, <1>7, <1>8 DEF Fitted
<1>10. StreamOK(prog, frames)
  BY <1>0 DEF StreamOK
<1> QED
  BY <1>9, <1>10

(* The inductive invariant of the emitter.                                 *)
SourceInv == StreamOK(prog, frames) /\ \E h : Fitted(h)

(* Every visit keeps it.                                                   *)
LEMMA SourceStep ==
  ASSUME LoopKinds \subseteq {"while", "times"}, "fallOff" \notin Shapes,
         TypeInv, FreshInv, SourceInv, [Next]_vars
  PROVE  SourceInv'
<1> PICK h : Fitted(h)
  BY DEF SourceInv
<1>1. StreamOK(prog, frames)
  BY DEF SourceInv
<1>2. ASSUME NEW h2, FitsNext(h2), StreamOK(prog', frames') PROVE SourceInv'
  <2>1. Fitted(h2)'
    BY <1>2 DEF FitsNext, Fitted
  <2> QED
    BY <1>2, <2>1 DEF SourceInv
<1>3. ASSUME NEW m \in 0..1, Statement(m) PROVE SourceInv'
  BY <1>1, <1>2, <1>3, FitStatement
<1>4. ASSUME NEW hasElse \in BOOLEAN, NEW m \in 0..1, EnterIf(hasElse, m) PROVE SourceInv'
  <2> DEFINE h2 == [h EXCEPT ![created + 2] = Here + 1]
  <2>1. FitsNext(h2) /\ StreamOK(prog', frames')
    BY <1>1, <1>4, FitEnterIf
  <2> HIDE DEF h2
  <2> QED
    BY <1>2, <2>1
<1>5. ASSUME EnterElse PROVE SourceInv'
  <2> DEFINE h2 == [h EXCEPT ![Top.els] = Here + 1]
  <2>1. FitsNext(h2) /\ StreamOK(prog', frames')
    BY <1>1, <1>5, FitEnterElse
  <2> HIDE DEF h2
  <2> QED
    BY <1>2, <2>1
<1>6. ASSUME EndIf PROVE SourceInv'
  <2> DEFINE h2 == [h EXCEPT ![Top.leave] = Here + 1]
             y == Top.leave
  <2>0. /\ frames # <<>> /\ phase = "visit" /\ phase' = "visit" /\ prog' = Visited("endif", Top.at)
        /\ code' = JumpTo(y) /\ Rejoin({}) /\ Ends("endif", y)
    BY <1>6 DEF EndIf, Ends
  <2>1. y \in Blocks
    BY <2>0, TopTypes
  <2> HIDE DEF y
  <2>2. FitsNext(h2) /\ StreamOK(prog', frames')
    BY <1>1, <2>0, <2>1, FitPop
  <2> HIDE DEF h2
  <2> QED
    BY <1>2, <2>2
<1>7. ASSUME NEW m \in 0..1, EndLoop(m) PROVE SourceInv'
  <2> DEFINE h2 == [h EXCEPT ![Top.leave] = Here + 1]
             y == Top.cond
  <2>0. frames # <<>> /\ Top.kind \in AllLoopKinds
    BY <1>7 DEF EndLoop
  <2>1. Top.kind \in LoopKinds /\ y \in Blocks /\ Top.kind \in Tested
    BY <2>0, TopTypes DEF FrameOK, AllLoopKinds, Tested
  <2>2. /\ phase = "visit" /\ phase' = "visit" /\ prog' = Visited("endloop", Top.at)
        /\ code' = JumpTo(y) /\ Rejoin({}) /\ Ends("endloop", y)
    BY <1>7, <2>1 DEF EndLoop, Ends, Tested
  <2> HIDE DEF y
  <2>3. FitsNext(h2) /\ StreamOK(prog', frames')
    BY <1>1, <2>0, <2>1, <2>2, FitPop
  <2> HIDE DEF h2
  <2> QED
    BY <1>2, <2>3
<1>8. ASSUME NEW kind \in LoopKinds, NEW m \in 0..1, EnterTestedLoop(kind, m) PROVE SourceInv'
  <2> DEFINE h2 == [h EXCEPT ![created + 1] = Here, ![created + 2] = Here + 1]
  <2>1. FitsNext(h2) /\ StreamOK(prog', frames')
    BY <1>1, <1>8, FitEnterTestedLoop
  <2> HIDE DEF h2
  <2> QED
    BY <1>2, <2>1
<1>9. ASSUME NEW kind \in LoopKinds, EnterOtherLoop(kind) PROVE SourceInv'
  BY <1>9 DEF EnterOtherLoop
<1>10. ASSUME NEW v \in {"none", "scalar"} \cup RetValues, ReturnStatement(v) PROVE SourceInv'
  <2>1. v \in {"none", "scalar"} \cup AllRetValues
    BY RetAssumption
  <2> QED
    BY <1>1, <1>2, <1>10, <2>1, FitReturn
<1>11. ASSUME Finish PROVE SourceInv'
  <2>1. FitsNext(h)
    BY <1>11, FitFinish
  <2>2. StreamOK(prog', frames')
    BY <1>1, <1>11 DEF Finish
  <2> QED
    BY <1>2, <2>1, <2>2
<1>12. CASE UNCHANGED vars
  <2>1. /\ prog' = prog /\ frames' = frames /\ placed' = placed /\ code' = code
        /\ phase' = phase /\ insert' = insert
    BY <1>12 DEF vars
  <2>2. Fitted(h)'
    BY <2>1 DEF Fitted, EndsInTerminator
  <2> QED
    BY <1>1, <2>1, <2>2 DEF SourceInv
<1>13. CASE Terminated
  BY <1>12, <1>13 DEF Terminated
<1> QED
  BY <1>3, <1>4, <1>5, <1>6, <1>7, <1>8, <1>9, <1>10, <1>11, <1>12, <1>13 DEF Next, Step

(* Whatever is compiled, every block that has been placed has a position   *)
(* in the source that all of its code fits, and every branch goes where    *)
(* the source goes.                                                        *)
LEMMA SourceHolds ==
  ASSUME LoopKinds \subseteq {"while", "times"}, "fallOff" \notin Shapes
  PROVE  Spec => []SourceInv
<1>1. Init => SourceInv
  BY FitInit DEF SourceInv
<1>2. TypeInv /\ FreshInv /\ SourceInv /\ [Next]_vars => SourceInv'
  BY SourceStep
<1> QED
  BY <1>1, <1>2, TypeInvHolds, FreshHolds, PTL DEF Spec

-----------------------------------------------------------------------------
(* Recursion without induction: a set of numbers has a least element.      *)
LEMMA LeastOf ==
  ASSUME NEW T, T \subseteq Nat, T # {}
  PROVE  \E x \in T : \A y \in T : x <= y
<1> DEFINE R == {p \in Nat \X Nat : p[1] < p[2]}
<1>1. IsWellFoundedOn(R, Nat)
  BY NatLessThanWellFounded DEF OpToRel
<1>2. \A x, y \in Nat : y < x => <<y, x>> \in R
  OBVIOUS
<1> HIDE DEF R
<1>3. PICK x \in T : \A y \in T : ~(<<y, x>> \in R)
  BY <1>1, WFMin
<1>4. ASSUME NEW y \in T PROVE x <= y
  <2>1. x \in Nat /\ y \in Nat
    OBVIOUS
  <2>2. ~(y < x)
    BY <1>2, <1>3, <2>1
  <2> QED
    BY <2>1, <2>2
<1> QED
  BY <1>4

(* A function on 1..n that asks only for larger arguments.                 *)
Steps(nx, val, f, k) == IF nx[k] # 0 THEN f[nx[k]] ELSE val[k]

(* Such a function exists.                                                 *)
LEMMA DownExists ==
  ASSUME NEW n \in Nat, NEW nx, NEW val, \A k \in 1..n : nx[k] = 0 \/ nx[k] \in (k + 1)..n
  PROVE  \E f : f = [k \in 1..n |-> Steps(nx, val, f, k)]
<1> DEFINE G(m) == \E f : f = [k \in m..n |-> Steps(nx, val, f, k)]
           T == {m \in 1..(n + 1) : G(m)}
<1>1. n + 1 \in T
  <2> DEFINE f == [k \in (n + 1)..n |-> 0]
  <2>1. \A k : k \notin (n + 1)..n
    OBVIOUS
  <2>2. f = [k \in (n + 1)..n |-> Steps(nx, val, f, k)]
    BY <2>1
  <2> QED
    BY <2>2
<1>0. T \subseteq Nat /\ T # {}
  BY <1>1
<1> HIDE DEF T
<1>2. PICK x \in T : \A y \in T : x <= y
  BY <1>0, LeastOf
<1>3. x \in 1..(n + 1) /\ G(x)
  BY DEF T
<1>4. CASE x = 1
  BY <1>3, <1>4
<1>5. CASE x # 1
  <2> DEFINE m == x - 1
  <2>1. m \in 1..n /\ m + 1 = x /\ m \in Nat /\ ~(x <= m)
    BY <1>3, <1>5
  <2>2. PICK f : f = [k \in x..n |-> Steps(nx, val, f, k)]
    BY <1>3
  <2> DEFINE g == [k \in m..n |-> IF k = m THEN Steps(nx, val, f, m) ELSE f[k]]
  <2>3. \A k \in x..n : g[k] = f[k]
    BY <2>1
  <2>4. \A k \in m..n : nx[k] # 0 => nx[k] \in x..n
    BY <2>1
  <2>5. \A k \in m..n : Steps(nx, val, g, k) = Steps(nx, val, f, k)
    BY <2>3, <2>4 DEF Steps
  <2>6. \A k \in m..n : g[k] = Steps(nx, val, g, k)
    <3> SUFFICES ASSUME NEW k \in m..n PROVE g[k] = Steps(nx, val, f, k)
      BY <2>5
    <3>1. CASE k = m
      BY <3>1
    <3>2. CASE k # m
      <4>1. k \in x..n
        BY <2>1, <3>2
      <4> QED
        BY <2>2, <2>3, <4>1
    <3> QED
      BY <3>1, <3>2
  <2>7. g = [k \in m..n |-> Steps(nx, val, g, k)]
    <3>1. g = [k \in m..n |-> g[k]]
      OBVIOUS
    <3> HIDE DEF g
    <3> QED
      BY <2>6, <3>1
  <2> HIDE DEF g
  <2>8. m \in T
    BY <2>1, <2>7 DEF T
  <2> QED
    BY <1>2, <2>1, <2>8
<1> QED
  BY <1>4, <1>5

(* A function on the numbers that starts with a and goes on by G.          *)
Approx(D, a, G, n) ==
  {f \in [0..n -> D] : f[0] = a /\ \A k \in 0..(n - 1) : f[k + 1] = G[f[k]]}

(* The parts of it on 0..m and on 0..n agree, and exist.                   *)
LEMMA ApproxAgree ==
  ASSUME NEW D, NEW a, NEW G, NEW m \in Nat, NEW n \in Nat,
         NEW f \in Approx(D, a, G, m), NEW g \in Approx(D, a, G, n),
         NEW j \in Nat, j <= m, j <= n
  PROVE  f[j] = g[j]
<1> DEFINE T == {k \in Nat : k <= m /\ k <= n /\ f[k] # g[k]}
<1> SUFFICES ASSUME T # {} PROVE FALSE
  OBVIOUS
<1>1. PICK x \in T : \A y \in T : x <= y
  BY LeastOf
<1>2. x \in Nat /\ x <= m /\ x <= n /\ f[x] # g[x]
  OBVIOUS
<1>3. x # 0
  BY <1>2 DEF Approx
<1>4. x - 1 \in Nat /\ x - 1 \in 0..(m - 1) /\ x - 1 \in 0..(n - 1) /\ (x - 1) + 1 = x
      /\ ~(x <= x - 1)
  BY <1>2, <1>3
<1>5. f[x - 1] = g[x - 1]
  BY <1>1, <1>4
<1>6. f[x] = G[f[x - 1]] /\ g[x] = G[g[x - 1]]
  <2>1. \A k \in 0..(m - 1) : f[k + 1] = G[f[k]]
    BY DEF Approx
  <2>2. \A k \in 0..(n - 1) : g[k + 1] = G[g[k]]
    BY DEF Approx
  <2> QED
    BY <1>4, <2>1, <2>2
<1> QED
  BY <1>2, <1>5, <1>6

LEMMA ApproxExists ==
  ASSUME NEW D, NEW a \in D, NEW G \in [D -> D], NEW n \in Nat
  PROVE  Approx(D, a, G, n) # {}
<1> DEFINE T == {k \in Nat : Approx(D, a, G, k) = {}}
<1> SUFFICES ASSUME T # {} PROVE FALSE
  OBVIOUS
<1>1. PICK x \in T : \A y \in T : x <= y
  BY LeastOf
<1>2. x \in Nat /\ Approx(D, a, G, x) = {}
  OBVIOUS
<1>3. CASE x = 0
  <2> DEFINE f == [k \in 0..0 |-> a]
  <2>1. f \in [0..x -> D] /\ f[0] = a /\ \A k : k \notin 0..(x - 1)
    BY <1>3
  <2> QED
    BY <1>2, <2>1 DEF Approx
<1>4. CASE x # 0
  <2> DEFINE m == x - 1
  <2>1. m \in Nat /\ m + 1 = x /\ ~(x <= m)
    BY <1>2, <1>4
  <2>2. PICK f : f \in Approx(D, a, G, m)
    BY <1>1, <2>1
  <2>3. /\ f \in [0..m -> D] /\ f[0] = a
        /\ \A k \in 0..(m - 1) : f[k + 1] = G[f[k]]
    BY <2>2 DEF Approx
  <2> DEFINE g == [k \in 0..x |-> IF k = x THEN G[f[m]] ELSE f[k]]
  <2>4. \A k \in 0..m : g[k] = f[k]
    BY <2>1
  <2>5. g[x] = G[f[m]] /\ m \in 0..m /\ 0 \in 0..m
    BY <2>1
  <2>6. g \in [0..x -> D]
    <3>1. f[m] \in D /\ G[f[m]] \in D
      BY <2>3, <2>5
    <3>2. \A k \in 0..x : k = x \/ k \in 0..m
      BY <2>1
    <3> QED
      BY <2>3, <3>1, <3>2
  <2> HIDE DEF g
  <2>7. \A k \in 0..(x - 1) : g[k + 1] = G[g[k]]
    <3> SUFFICES ASSUME NEW k \in 0..m PROVE g[k + 1] = G[g[k]]
      OBVIOUS
    <3>1. CASE k = m
      BY <2>1, <2>4, <2>5, <3>1
    <3>2. CASE k # m
      <4>1. k \in 0..(m - 1) /\ k + 1 \in 0..m
        BY <2>1, <3>2
      <4> QED
        BY <2>3, <2>4, <4>1
    <3> QED
      BY <3>1, <3>2
  <2>8. g[0] = a
    BY <2>3, <2>4, <2>5
  <2>9. g \in Approx(D, a, G, x)
    BY <2>6, <2>7, <2>8 DEF Approx
  <2> QED
    BY <1>2, <2>9
<1> QED
  BY <1>3, <1>4

(* It exists.                                                              *)
LEMMA Iterates ==
  ASSUME NEW D, NEW a \in D, NEW G \in [D -> D]
  PROVE  \E f \in [Nat -> D] : f[0] = a /\ \A n \in Nat \ {0} : f[n] = G[f[n - 1]]
<1> DEFINE A(n) == CHOOSE f : f \in Approx(D, a, G, n)
           f == [n \in Nat |-> A(n)[n]]
<1>1. \A n \in Nat : A(n) \in Approx(D, a, G, n)
  BY ApproxExists
<1>2. \A n \in Nat : A(n) \in [0..n -> D] /\ A(n)[0] = a
  BY <1>1 DEF Approx
<1>3. \A n \in Nat : n \in 0..n
  OBVIOUS
<1>4. f \in [Nat -> D] /\ f[0] = a
  BY <1>2, <1>3
<1>5. ASSUME NEW n \in Nat \ {0} PROVE f[n] = G[f[n - 1]]
  <2>1. n - 1 \in Nat /\ n - 1 \in 0..(n - 1) /\ (n - 1) + 1 = n /\ n - 1 <= n /\ n - 1 <= n - 1
    OBVIOUS
  <2>2. A(n) \in Approx(D, a, G, n) /\ A(n - 1) \in Approx(D, a, G, n - 1)
    BY <1>1, <2>1
  <2> HIDE DEF A
  <2>3. A(n)[n] = G[A(n)[n - 1]]
    <3>1. \A k \in 0..(n - 1) : A(n)[k + 1] = G[A(n)[k]]
      BY <2>2 DEF Approx
    <3> QED
      BY <2>1, <3>1
  <2>4. A(n)[n - 1] = A(n - 1)[n - 1]
    BY <2>1, <2>2, ApproxAgree
  <2> QED
    BY <2>1, <2>3, <2>4
<1> HIDE DEF f
<1> QED
  BY <1>4, <1>5

-----------------------------------------------------------------------------
(* Landing of StructuredProgram, one step at a time.                       *)
Pass(p, k) ==
  IF k > Len(p) THEN 0
  ELSE CASE p[k].tok = "else" -> Src!Partner(p, p[k].at, "endif") + 1
         [] p[k].tok \in {"endif", "doWhile", "other"} -> k + 1
         [] OTHER -> 0

(* Where control rests at k if it does not pass on.                        *)
Rest(p, k) ==
  IF k <= Len(p) /\ p[k].tok = "endloop" /\ p[p[k].at].tok \in Tested
  THEN p[k].at ELSE k

(* The body of the function Landing defines.                               *)
Hop(p, f, k) ==
  IF k > Len(p) THEN k
  ELSE CASE p[k].tok = "else" -> f[Src!Partner(p, p[k].at, "endif") + 1]
         [] p[k].tok \in {"endif", "doWhile", "other"} -> f[k + 1]
         [] p[k].tok = "endloop" /\ p[p[k].at].tok \in Tested -> p[k].at
         [] OTHER -> k

(* Partner finds the one mark there is.                                    *)
LEMMA PartnerIs ==
  ASSUME NEW p, StreamOK(p, <<>>), NEW tok \in Closing \cup {"else"}, NEW i,
         NEW e \in Marks(p, tok, i)
  PROVE  Src!Partner(p, i, tok) = e /\ e \in 1..Len(p)
<1>1. e \in 1..Len(p) /\ p[e].tok = tok /\ p[e].at = i
  BY DEF Marks
<1>2. Marks(p, tok, i) = {e}
  BY <1>1 DEF StreamOK
<1>3. \A k \in 1..Len(p) : p[k].tok = tok /\ p[k].at = i <=> k = e
  <2>1. \A k \in 1..Len(p) : p[k].tok = tok /\ p[k].at = i <=> k \in Marks(p, tok, i)
    BY DEF Marks
  <2> QED
    BY <1>1, <1>2, <2>1
<1>4. \E k \in 1..Len(p) : p[k].tok = tok /\ p[k].at = i
  BY <1>1
<1> QED
  BY <1>1, <1>3, <1>4 DEF Src!Partner

(* Control passes on to later positions only.                              *)
LEMMA PassForward ==
  ASSUME NEW p \in Seq(Token), StreamOK(p, <<>>), NEW k \in 1..(Len(p) + 1)
  PROVE  Pass(p, k) = 0 \/ Pass(p, k) \in (k + 1)..(Len(p) + 1)
<1>1. Len(p) \in Nat
  OBVIOUS
<1>2. CASE k > Len(p)
  BY <1>2 DEF Pass
<1>3. CASE k \in 1..Len(p) /\ p[k].tok = "else"
  <2>1. \E g \in Marks(p, "endif", p[k].at) : g > k
    <3>1. Len(<<>>) = 0 /\ \A d : d \notin 1..0
      OBVIOUS
    <3> QED
      BY <1>3, <3>1 DEF StreamOK
  <2>2. PICK g \in Marks(p, "endif", p[k].at) : g > k
    BY <2>1
  <2>3. Src!Partner(p, p[k].at, "endif") = g /\ g \in 1..Len(p)
    BY PartnerIs DEF Closing
  <2>4. Pass(p, k) = g + 1
    BY <1>1, <1>3, <2>3 DEF Pass
  <2> QED
    BY <1>1, <2>2, <2>3, <2>4
<1>4. CASE k \in 1..Len(p) /\ p[k].tok # "else"
  BY <1>1, <1>4 DEF Pass
<1> QED
  BY <1>1, <1>2, <1>3, <1>4

(* Landing satisfies its equation: the recursion is well-founded.          *)
LEMMA LandingIs ==
  ASSUME NEW p \in Seq(Token), StreamOK(p, <<>>), NEW k \in 1..(Len(p) + 1)
  PROVE  Src!Landing(p, k) =
           IF Pass(p, k) # 0 THEN Src!Landing(p, Pass(p, k)) ELSE Rest(p, k)
<1> DEFINE n == Len(p) + 1
           nx == [j \in 1..n |-> Pass(p, j)]
           val == [j \in 1..n |-> Rest(p, j)]
           f == CHOOSE g : g = [j \in 1..(Len(p) + 1) |-> Hop(p, g, j)]
<1>1. Len(p) \in Nat /\ n \in Nat
  OBVIOUS
<1>2. \A i : Src!Landing(p, i) = f[i]
  BY DEF Src!Landing, Hop, Src!Tested, Tested
<1>3. \A g : \A j \in 1..n : Hop(p, g, j) = Steps(nx, val, g, j)
  <2> SUFFICES ASSUME NEW g, NEW j \in 1..n PROVE Hop(p, g, j) = Steps(nx, val, g, j)
    OBVIOUS
  <2>1. nx[j] = Pass(p, j) /\ val[j] = Rest(p, j)
    OBVIOUS
  <2>2. Pass(p, j) = 0 \/ Pass(p, j) \in (j + 1)..n
    BY PassForward
  <2> HIDE DEF nx, val
  <2>3. CASE j > Len(p)
    BY <1>1, <2>1, <2>3 DEF Hop, Steps, Pass, Rest
  <2>4. CASE j \in 1..Len(p) /\ p[j].tok = "else"
    <3>1. Pass(p, j) = Src!Partner(p, p[j].at, "endif") + 1
      BY <1>1, <2>4 DEF Pass
    <3>2. Pass(p, j) # 0
      <4>1. \E g2 \in Marks(p, "endif", p[j].at) : g2 > j
        <5>1. Len(<<>>) = 0 /\ \A d : d \notin 1..0
          OBVIOUS
        <5> QED
          BY <2>4, <5>1 DEF StreamOK
      <4>2. Src!Partner(p, p[j].at, "endif") \in 1..Len(p)
        BY <4>1, PartnerIs DEF Closing
      <4> QED
        BY <1>1, <3>1, <4>2
    <3>3. Hop(p, g, j) = g[Src!Partner(p, p[j].at, "endif") + 1]
      BY <1>1, <2>4 DEF Hop
    <3> QED
      BY <2>1, <3>1, <3>2, <3>3 DEF Steps
  <2>5. CASE j \in 1..Len(p) /\ p[j].tok \in {"endif", "doWhile", "other"}
    BY <1>1, <2>1, <2>5 DEF Hop, Steps, Pass
  <2>6. CASE j \in 1..Len(p) /\ p[j].tok \notin {"else", "endif", "doWhile", "other"}
    <3>1. Pass(p, j) = 0
      BY <1>1, <2>6 DEF Pass
    <3>2. Hop(p, g, j) = Rest(p, j)
      BY <1>1, <2>6 DEF Hop, Rest
    <3> QED
      BY <2>1, <3>1, <3>2 DEF Steps
  <2> QED
    BY <1>1, <2>3, <2>4, <2>5, <2>6
<1>4. \A j \in 1..n : nx[j] = 0 \/ nx[j] \in (j + 1)..n
  BY PassForward
<1>5. nx[k] = Pass(p, k) /\ val[k] = Rest(p, k)
  OBVIOUS
<1> HIDE DEF nx, val
<1>6. \E g : g = [j \in 1..n |-> Steps(nx, val, g, j)]
  BY <1>1, <1>4, DownExists
<1>7. \A g : [j \in 1..n |-> Steps(nx, val, g, j)] = [j \in 1..(Len(p) + 1) |-> Hop(p, g, j)]
  BY <1>3
<1>8. \E g : g = [j \in 1..(Len(p) + 1) |-> Hop(p, g, j)]
  BY <1>6, <1>7
<1>9. f = [j \in 1..(Len(p) + 1) |-> Hop(p, f, j)]
  BY <1>8
<1> HIDE DEF f
<1>10. f[k] = Steps(nx, val, f, k)
  BY <1>3, <1>9
<1> QED
  BY <1>2, <1>5, <1>10 DEF Steps

(* Control that reaches a position where something runs has landed.        *)
LEMMA LandingRuns ==
  ASSUME NEW p \in Seq(Token), StreamOK(p, <<>>), NEW i, Runs(p, i, "done")
  PROVE  Src!Landing(p, i) = i /\ i \in 1..(Len(p) + 1)
<1>1. Len(p) \in Nat
  OBVIOUS
<1>2. CASE i = Len(p) + 1
  <2>1. i \in 1..(Len(p) + 1) /\ Pass(p, i) = 0 /\ Rest(p, i) = i
    BY <1>1, <1>2 DEF Pass, Rest
  <2> QED
    BY <2>1, LandingIs
<1>3. CASE i \in 1..Len(p) /\ p[i].tok \in {"op", "ret", "if"} \cup Tested
  <2>1. i \in 1..(Len(p) + 1) /\ Pass(p, i) = 0 /\ Rest(p, i) = i
    BY <1>1, <1>3 DEF Pass, Rest, Tested
  <2> QED
    BY <2>1, LandingIs
<1> QED
  BY <1>2, <1>3 DEF Runs

(* Control lands alike from both ends of a jump.                           *)
LEMMA LandingGoes ==
  ASSUME NEW p \in Seq(Token), StreamOK(p, <<>>), LoopKinds \subseteq {"while", "times"},
         NEW q \in 1..Len(p), NEW r, Goes(p, q, r)
  PROVE  Src!Landing(p, q) = Src!Landing(p, r) /\ r \in 1..(Len(p) + 1)
<1>1. Len(p) \in Nat /\ q \in 1..(Len(p) + 1)
  OBVIOUS
<1>2. CASE p[q].tok = "endif" /\ r = q + 1
  <2>1. Pass(p, q) = r /\ r # 0 /\ r \in 1..(Len(p) + 1)
    BY <1>1, <1>2 DEF Pass
  <2> QED
    BY <1>1, <2>1, LandingIs
<1>3. ASSUME p[q].tok = "else", NEW e \in Marks(p, "endif", p[q].at), r = e + 1
      PROVE  Src!Landing(p, q) = Src!Landing(p, r) /\ r \in 1..(Len(p) + 1)
  <2>1. Src!Partner(p, p[q].at, "endif") = e /\ e \in 1..Len(p)
    BY PartnerIs DEF Closing
  <2>2. Pass(p, q) = r /\ r # 0 /\ r \in 1..(Len(p) + 1)
    BY <1>1, <1>3, <2>1 DEF Pass
  <2> QED
    BY <1>1, <2>2, LandingIs
<1>4. CASE p[q].tok = "endloop" /\ r = p[q].at
  <2>1. r \in 1..Len(p) /\ p[r].tok \in Tested
    BY <1>4 DEF StreamOK, Closing, Tested
  <2>2. Runs(p, r, "done")
    BY <2>1 DEF Runs
  <2>3. Pass(p, q) = 0 /\ Rest(p, q) = r
    BY <1>1, <1>4, <2>1 DEF Pass, Rest
  <2>4. Src!Landing(p, q) = r
    BY <1>1, <2>3, LandingIs
  <2> QED
    BY <2>2, <2>4, LandingRuns
<1>5. CASE p[q].tok \in Tested /\ r = q
  BY <1>1, <1>5
<1> QED
  BY <1>2, <1>3, <1>4, <1>5 DEF Goes

(* The false edge of a test.                                               *)
LEMMA LandingSkips ==
  ASSUME NEW p \in Seq(Token), StreamOK(p, <<>>), NEW i \in 1..Len(p), NEW r, Skips(p, i, r)
  PROVE  Src!WhenFalse(p, i) = Src!Landing(p, r) /\ r \in 1..(Len(p) + 1)
<1>1. Len(p) \in Nat
  OBVIOUS
<1>2. ASSUME p[i].tok \in Tested, NEW e \in Marks(p, "endloop", i), r = e + 1
      PROVE  Src!WhenFalse(p, i) = Src!Landing(p, r) /\ r \in 1..(Len(p) + 1)
  <2>1. Src!Partner(p, i, "endloop") = e /\ e \in 1..Len(p)
    BY PartnerIs DEF Closing
  <2>2. Src!WhenFalse(p, i) = Src!Landing(p, e + 1)
    BY <1>2, <2>1 DEF Src!WhenFalse, Src!Tested, Tested
  <2> QED
    BY <1>1, <1>2, <2>1, <2>2
<1>3. ASSUME p[i].tok = "if", NEW e \in Marks(p, "else", i), r = e + 1
      PROVE  Src!WhenFalse(p, i) = Src!Landing(p, r) /\ r \in 1..(Len(p) + 1)
  <2>1. Src!Partner(p, i, "else") = e /\ e \in 1..Len(p)
    BY PartnerIs
  <2>2. Src!HasElse(p, i)
    BY DEF Marks, Src!HasElse
  <2>3. Src!WhenFalse(p, i) = Src!Landing(p, e + 1)
    BY <1>3, <2>1, <2>2 DEF Src!WhenFalse, Src!Tested
  <2> QED
    BY <1>1, <1>3, <2>1, <2>3
<1>4. ASSUME p[i].tok = "if", Marks(p, "else", i) = {}, NEW e \in Marks(p, "endif", i), r = e + 1
      PROVE  Src!WhenFalse(p, i) = Src!Landing(p, r) /\ r \in 1..(Len(p) + 1)
  <2>1. Src!Partner(p, i, "endif") = e /\ e \in 1..Len(p)
    BY PartnerIs DEF Closing
  <2>2. ~Src!HasElse(p, i)
    BY <1>4 DEF Marks, Src!HasElse
  <2>3. Src!WhenFalse(p, i) = Src!Landing(p, e + 1)
    BY <1>4, <2>1, <2>2 DEF Src!WhenFalse, Src!Tested
  <2> QED
    BY <1>1, <1>4, <2>1, <2>3
<1> QED
  BY <1>2, <1>3, <1>4 DEF Skips

(* Control always lands somewhere.                                         *)
LEMMA LandingIn ==
  ASSUME NEW p \in Seq(Token), StreamOK(p, <<>>), NEW k \in 1..(Len(p) + 1)
  PROVE  Src!Landing(p, k) \in Nat \ {0}
<1> DEFINE n == Len(p) + 1
           T == {j \in Nat : j < n /\ Src!Landing(p, n - j) \notin Nat \ {0}}
<1>1. Len(p) \in Nat /\ n \in Nat
  OBVIOUS
<1> HIDE DEF n
<1> SUFFICES ASSUME T # {} PROVE FALSE
  <2>1. n - k \in Nat /\ n - k < n /\ n - (n - k) = k
    BY <1>1 DEF n
  <2> QED
    BY <2>1
<1>2. PICK x \in T : \A y \in T : x <= y
  BY LeastOf
<1> DEFINE m == n - x
<1>3. x \in Nat /\ m \in 1..n /\ Src!Landing(p, m) \notin Nat \ {0} /\ m \in 1..(Len(p) + 1)
  BY <1>1 DEF n
<1>4. CASE Pass(p, m) = 0
  <2>1. Src!Landing(p, m) = Rest(p, m)
    BY <1>3, <1>4, LandingIs
  <2>2. Rest(p, m) \in Nat \ {0}
    <3>1. CASE m <= Len(p) /\ p[m].tok = "endloop"
      <4>1. m \in 1..Len(p)
        BY <1>1, <1>3, <3>1
      <4>2. p[m].at \in 1..Len(p)
        BY <3>1, <4>1 DEF StreamOK, Closing
      <4> QED
        BY <1>1, <1>3, <4>2 DEF Rest
    <3>2. CASE ~(m <= Len(p) /\ p[m].tok = "endloop")
      BY <1>1, <1>3, <3>2 DEF Rest
    <3> QED
      BY <3>1, <3>2
  <2> QED
    BY <1>3, <2>1, <2>2
<1>5. CASE Pass(p, m) # 0
  <2>1. Src!Landing(p, m) = Src!Landing(p, Pass(p, m))
    BY <1>3, <1>5, LandingIs
  <2>2. Pass(p, m) \in (m + 1)..n
    BY <1>3, <1>5, PassForward DEF n
  <2> DEFINE j == n - Pass(p, m)
  <2>3. j \in Nat /\ j < n /\ n - j = Pass(p, m) /\ ~(x <= j)
    BY <1>1, <1>3, <2>2
  <2>4. j \in T
    BY <1>3, <2>1, <2>3
  <2> QED
    BY <1>2, <2>3, <2>4
<1> QED
  BY <1>4, <1>5

-----------------------------------------------------------------------------
(* Start of IRExecution, one branch at a time.                             *)
Onwards(s) ==
  [b \in Blocks \cup {NoBlock} |->
     IF b \notin placed \/ code[b] = <<>> THEN Lost
     ELSE IF code[b][1].op = "br" THEN s[code[b][1].yes] ELSE code[b][1].id]

(* Start satisfies its equation.                                           *)
LEMMA StartIs ==
  ASSUME TypeOK, NEW n \in Nat, NEW b \in Blocks \cup {NoBlock}
  PROVE  Start[n][b] = IF n = 0 \/ b \notin placed \/ code[b] = <<>> THEN Lost
                       ELSE IF code[b][1].op = "br" THEN Start[n - 1][code[b][1].yes]
                       ELSE code[b][1].id
<1> DEFINE B == Blocks \cup {NoBlock}
           D == [B -> Int]
           a == [c \in B |-> Lost]
           G == [s \in D |-> Onwards(s)]
           Body(g, m) == [c \in B |->
             IF m = 0 \/ c \notin placed \/ code[c] = <<>> THEN Lost
             ELSE IF code[c][1].op = "br" THEN g[m - 1][code[c][1].yes] ELSE code[c][1].id]
<1>1. \A c \in placed : code[c] # <<>> => code[c][1].id \in Int /\ code[c][1].yes \in B
  <2> SUFFICES ASSUME NEW c \in placed, code[c] # <<>>
               PROVE  code[c][1].id \in Int /\ code[c][1].yes \in B
    OBVIOUS
  <2>1. code[c] \in Seq(Instrs)
    <3>1. c \in Blocks
      BY MaxLenAssumption DEF TypeOK, Blocks, MaxBlocks
    <3> QED
      BY <3>1 DEF TypeOK
  <2>2. code[c][1] \in Instrs
    BY <2>1
  <2> QED
    BY <2>2 DEF Instrs
<1>2. a \in D
  BY DEF Lost
<1>3. G \in [D -> D]
  <2> SUFFICES ASSUME NEW s \in D PROVE Onwards(s) \in D
    OBVIOUS
  <2>1. \A c \in B : (IF c \notin placed \/ code[c] = <<>> THEN Lost
                      ELSE IF code[c][1].op = "br" THEN s[code[c][1].yes]
                      ELSE code[c][1].id) \in Int
    BY <1>1 DEF Lost
  <2> QED
    BY <2>1 DEF Onwards
<1> HIDE DEF G
<1>4. PICK f \in [Nat -> D] : f[0] = a /\ \A m \in Nat \ {0} : f[m] = G[f[m - 1]]
  <2> HIDE DEF a, D
  <2> QED
    BY <1>2, <1>3, Iterates
<1>5. \A m \in Nat : f[m] = Body(f, m)
  <2> SUFFICES ASSUME NEW m \in Nat PROVE f[m] = Body(f, m)
    OBVIOUS
  <2>1. CASE m = 0
    BY <1>4, <2>1
  <2>2. CASE m # 0
    <3>1. m \in Nat \ {0} /\ m - 1 \in Nat
      BY <2>2
    <3>2. f[m - 1] \in D /\ f[m] = G[f[m - 1]]
      BY <1>4, <3>1
    <3>3. G[f[m - 1]] = Onwards(f[m - 1])
      BY <3>2 DEF G
    <3>4. Onwards(f[m - 1]) = Body(f, m)
      BY <2>2 DEF Onwards
    <3> QED
      BY <3>2, <3>3, <3>4
  <2> QED
    BY <2>1, <2>2
<1>6. f = [m \in Nat |-> Body(f, m)]
  <2>1. f = [m \in Nat |-> f[m]]
    BY <1>4
  <2> QED
    BY <1>5, <2>1
<1>7. \E g : g = [m \in Nat |-> Body(g, m)]
  BY <1>6
<1> DEFINE S == CHOOSE g : g = [m \in Nat |-> Body(g, m)]
<1>8. Start = S
  BY DEF Start
<1>9. S = [m \in Nat |-> Body(S, m)]
  BY <1>7
<1> HIDE DEF S
<1>10. S[n] = Body(S, n)
  BY <1>9
<1>11. S[n][b] = IF n = 0 \/ b \notin placed \/ code[b] = <<>> THEN Lost
                 ELSE IF code[b][1].op = "br" THEN S[n - 1][code[b][1].yes]
                 ELSE code[b][1].id
  BY <1>10
<1> QED
  BY <1>8, <1>11

-----------------------------------------------------------------------------
(* A return outside of all ifs and loops: no mark behind it belongs to an  *)
(* opener before it, so no jump leads over it.                             *)
Fence(p, F, t) ==
  /\ t \in 1..Len(p) /\ p[t].tok = "ret"
  /\ \A e \in 1..Len(p) :
       p[e].tok \in Closing \cup {"else"} => (e < t <=> p[e].at < t)
  /\ \A d \in 1..Len(F) : F[d].at > t

(* A sub that has returned outside of all ifs and loops has a fence, and   *)
(* one that is compiled has one unless its last block is closed.           *)
FenceInv ==
  (IF phase = "visit" THEN hasReturn ELSE ~Closed(code[insert]))
    => \E t : Fence(prog, frames, t)

(* Later tokens leave a fence standing.                                    *)
LEMMA FenceKeeps ==
  ASSUME NEW p \in Seq(Token), NEW F, NEW t, Fence(p, F, t), NEW x \in Token, NEW F2,
         x.tok \in Closing \cup {"else"} => x.at > t,
         \A d \in 1..Len(F2) : F2[d].at > t
  PROVE  Fence(Append(p, x), F2, t)
<1> DEFINE q == Append(p, x)
           n == Len(p)
<1>1. /\ n \in Nat /\ Len(q) = n + 1 /\ q[n + 1] = x /\ \A e \in 1..n : q[e] = p[e]
  BY AppendProperties
<1>2. t \in 1..n /\ p[t].tok = "ret"
  BY DEF Fence
<1>3. \A e \in 1..n : p[e].tok \in Closing \cup {"else"} => (e < t <=> p[e].at < t)
  BY DEF Fence
<1>4. x.at \in Nat
  BY DEF Token
<1> HIDE DEF q, n
<1>5. t \in 1..Len(q) /\ q[t].tok = "ret"
  BY <1>1, <1>2
<1>6. ASSUME NEW e \in 1..Len(q), q[e].tok \in Closing \cup {"else"}
      PROVE  e < t <=> q[e].at < t
  <2>1. CASE e \in 1..n
    BY <1>1, <1>3, <1>6, <2>1
  <2>2. CASE e = n + 1
    BY <1>1, <1>2, <1>4, <1>6, <2>2
  <2> QED
    BY <1>1, <2>1, <2>2
<1>7. Fence(q, F2, t)
  BY <1>5, <1>6 DEF Fence
<1> QED
  BY <1>7 DEF q

(* The frames of a visit are those of before, or begin here.               *)
LEMMA FrameOrigins ==
  ASSUME TypeInv, Step
  PROVE  /\ \A d \in 1..Len(frames') :
              frames'[d].at = Here \/ \E e \in 1..Len(frames) : frames'[d].at = frames[e].at
         /\ frames # <<>> => Top = frames[Len(frames)] /\ Len(frames) \in 1..Len(frames)
<1>1. frames \in Seq(Frame)
  BY DEF TypeInv, TypeOK
<1>2. CASE frames' = frames
  <2>1. frames # <<>> => Len(frames) \in 1..Len(frames)
    BY TopTypes
  <2> QED
    BY <1>2, <2>1 DEF Top
<1>3. ASSUME NEW f, f.at = Here, frames' = Append(frames, f)
      PROVE  \A d \in 1..Len(frames') :
               frames'[d].at = Here \/ \E e \in 1..Len(frames) : frames'[d].at = frames[e].at
  <2>0. frames \in Seq(Frame \cup {f}) /\ f \in Frame \cup {f}
    BY <1>1
  <2>1. /\ Len(frames) \in Nat /\ Len(frames') = Len(frames) + 1
        /\ frames'[Len(frames) + 1] = f /\ \A d \in 1..Len(frames) : frames'[d] = frames[d]
    BY <1>1, <1>3, <2>0, AppendProperties
  <2>2. \A d \in 1..Len(frames') : d \in 1..Len(frames) \/ d = Len(frames) + 1
    BY <2>1
  <2> QED
    BY <1>3, <2>1, <2>2
<1>4. ASSUME frames # <<>>, frames' = Pop
      PROVE  \A d \in 1..Len(frames') : \E e \in 1..Len(frames) : frames'[d].at = frames[e].at
  <2>1. /\ Len(Pop) = Len(frames) - 1 /\ Len(frames) \in Nat \ {0}
        /\ \A i \in 1..Len(Pop) : Pop[i] = frames[i]
    BY <1>4, TopTypes
  <2>2. \A d \in 1..Len(Pop) : d \in 1..Len(frames)
    BY <2>1
  <2> QED
    BY <1>4, <2>1, <2>2
<1>5. ASSUME EnterElse
      PROVE  \A d \in 1..Len(frames') : \E e \in 1..Len(frames) : frames'[d].at = frames[e].at
  <2>1. /\ Len(frames') = Len(frames) /\ \A i \in 1..(Len(frames) - 1) : frames'[i] = frames[i]
        /\ frames'[Len(frames)] = [Top EXCEPT !.kind = "else"]
    BY <1>1, <1>5, ElseFrames DEF EnterElse
  <2>2. frames # <<>> /\ Len(frames) \in Nat \ {0} /\ Top \in Frame
    BY <1>5, TopTypes DEF EnterElse
  <2>3. frames'[Len(frames)].at = frames[Len(frames)].at
    BY <2>1, <2>2 DEF Frame, Top
  <2>4. \A d \in 1..Len(frames) : d \in 1..(Len(frames) - 1) \/ d = Len(frames)
    BY <2>2
  <2> QED
    BY <2>1, <2>3, <2>4
<1>6. frames # <<>> => Top = frames[Len(frames)] /\ Len(frames) \in 1..Len(frames)
  BY TopTypes DEF Top
<1>7. ASSUME NEW hasElse \in BOOLEAN, NEW m \in 0..1, EnterIf(hasElse, m)
      PROVE  \E f : f.at = Here /\ frames' = Append(frames, f)
  BY <1>7 DEF EnterIf
<1>8. ASSUME NEW kind \in LoopKinds, NEW m \in 0..1, EnterTestedLoop(kind, m)
      PROVE  \E f : f.at = Here /\ frames' = Append(frames, f)
  BY <1>8 DEF EnterTestedLoop
<1>9. ASSUME NEW kind \in LoopKinds, EnterOtherLoop(kind)
      PROVE  \E f : f.at = Here /\ frames' = Append(frames, f)
  BY <1>9 DEF EnterOtherLoop
<1>10. ASSUME NEW m \in 0..1, EndLoop(m) PROVE frames # <<>> /\ frames' = Pop
  BY <1>10 DEF EndLoop, Rejoin
<1>11. ASSUME EndIf PROVE frames # <<>> /\ frames' = Pop
  BY <1>11 DEF EndIf, Rejoin
<1>12. (\E m \in 0..1 : Statement(m)) \/ Finish
         \/ (\E v \in {"none", "scalar"} \cup RetValues : ReturnStatement(v))
       => frames' = frames
  BY DEF Statement, Finish, ReturnStatement
<1> QED
  BY <1>2, <1>3, <1>4, <1>5, <1>6, <1>7, <1>8, <1>9, <1>10, <1>11, <1>12 DEF Step

(* A sub that has not returned gets its ret at the end.                    *)
LEMMA FinishCloses ==
  ASSUME TypeInv, "fallOff" \notin Shapes, Finish
  PROVE  ~hasReturn => Closed(code'[insert'])
<1> SUFFICES ASSUME ~hasReturn PROVE Closed(code'[insert'])
  OBVIOUS
<1> DEFINE s == ReturnCode("none")
<1>1. TypeOK /\ insert' = insert /\ retType = "void" /\ code' = Emit(code, insert, s)
  BY DEF Finish, Return, TypeInv
<1>2. s \in Seq(Instrs) /\ Closed(s)
  BY <1>1, ReturnCodeEnds
<1>3. code[insert] \in Seq(Instrs)
  BY <1>1, HereTypes DEF TypeOK
<1> HIDE DEF s
<1>4. code'[insert] = code[insert] \o s
  BY <1>1, <1>2, GrowsInsert
<1> QED
  BY <1>1, <1>2, <1>3, <1>4, ClosedConcat

(* What a visit appends to the stream.                                     *)
LEMMA Appends ==
  ASSUME TypeInv, Step
  PROVE  \/ Finish
         \/ /\ phase = "visit" /\ phase' = "visit"
            /\ \E x \in Token :
                 /\ prog' = Append(prog, x)
                 /\ x.tok \in Closing \cup {"else"} => frames # <<>> /\ x.at = Top.at
                 /\ hasReturn' = hasReturn \/ (/\ x.tok = "ret" /\ x.at = Here /\ frames' = frames
                                              /\ hasReturn' = (hasReturn \/ current = NoBlock))
<1>0. TypeOK /\ Here \in Nat
  BY HereTypes DEF TypeInv
<1>1. frames # <<>> => Top.at \in Nat
  BY TopTypes DEF Frame
<1> DEFINE A(x) == /\ prog' = Append(prog, x)
                   /\ x.tok \in Closing \cup {"else"} => frames # <<>> /\ x.at = Top.at
                   /\ hasReturn' = hasReturn \/ (/\ x.tok = "ret" /\ x.at = Here /\ frames' = frames
                                                /\ hasReturn' = (hasReturn \/ current = NoBlock))
           V == phase = "visit" /\ phase' = "visit"
<1>2. ASSUME NEW y \in {"op", "if", "else", "endif", "ret", "endloop"} \cup AllLoopKinds,
             NEW i \in Nat, prog' = Visited(y, i),
             y \in Closing \cup {"else"} => frames # <<>> /\ i = Top.at,
             hasReturn' = hasReturn
               \/ (y = "ret" /\ i = Here /\ frames' = frames
                   /\ hasReturn' = (hasReturn \/ current = NoBlock))
      PROVE  \E x \in Token : A(x)
  <2> DEFINE x == [tok |-> y, at |-> i]
  <2>1. x \in Token /\ prog' = Append(prog, x) /\ x.tok = y /\ x.at = i
    BY <1>2 DEF Token, Visited
  <2> HIDE DEF x
  <2> QED
    BY <1>2, <2>1
<1> HIDE DEF A
<1>3. ASSUME NEW m \in 0..1, Statement(m) PROVE V /\ \E x \in Token : A(x)
  BY <1>0, <1>2, <1>3 DEF Statement, MayOpen, Closing
<1>4. ASSUME NEW hasElse \in BOOLEAN, NEW m \in 0..1, EnterIf(hasElse, m)
      PROVE  V /\ \E x \in Token : A(x)
  BY <1>0, <1>2, <1>4 DEF EnterIf, MayOpen, Closing
<1>5. ASSUME EnterElse PROVE V /\ \E x \in Token : A(x)
  BY <1>1, <1>2, <1>5 DEF EnterElse
<1>6. ASSUME EndIf PROVE V /\ \E x \in Token : A(x)
  BY <1>1, <1>2, <1>6 DEF EndIf
<1>7. ASSUME NEW m \in 0..1, EndLoop(m) PROVE V /\ \E x \in Token : A(x)
  <2>1. /\ V /\ frames # <<>> /\ prog' = Visited("endloop", Top.at) /\ hasReturn' = hasReturn
    BY <1>7 DEF EndLoop
  <2> QED
    BY <1>1, <1>2, <2>1
<1>8. ASSUME NEW kind \in LoopKinds, NEW m \in 0..1, EnterTestedLoop(kind, m)
      PROVE  V /\ \E x \in Token : A(x)
  <2>1. /\ V /\ prog' = Visited(kind, Here) /\ hasReturn' = hasReturn
        /\ kind \in {"while", "times"}
    BY <1>8 DEF EnterTestedLoop, MayOpen
  <2> QED
    BY <1>0, <1>2, <2>1 DEF AllLoopKinds, Closing
<1>9. ASSUME NEW kind \in LoopKinds, EnterOtherLoop(kind) PROVE V /\ \E x \in Token : A(x)
  <2>1. /\ V /\ prog' = Visited(kind, Here) /\ hasReturn' = hasReturn
        /\ kind \in {"doWhile", "other"}
    BY <1>9 DEF EnterOtherLoop, MayOpen
  <2> QED
    BY <1>0, <1>2, <2>1 DEF AllLoopKinds, Closing
<1>10. ASSUME NEW v \in {"none", "scalar"} \cup RetValues, ReturnStatement(v)
       PROVE  V /\ \E x \in Token : A(x)
  <2>1. /\ V /\ prog' = Visited("ret", Here) /\ frames' = frames
        /\ hasReturn' = (hasReturn \/ current = NoBlock)
    BY <1>10 DEF ReturnStatement, MayReturn, Return
  <2> QED
    BY <1>0, <1>2, <2>1 DEF Closing
<1> QED
  BY <1>3, <1>4, <1>5, <1>6, <1>7, <1>8, <1>9, <1>10 DEF Step, A

(* Every visit keeps the fences.                                           *)
LEMMA FenceStep ==
  ASSUME "fallOff" \notin Shapes, TypeInv, CurrentInv, StreamOK(prog, frames), FenceInv,
         [Next]_vars
  PROVE  FenceInv'
<1>1. CASE UNCHANGED vars
  BY <1>1 DEF vars, FenceInv
<1>2. CASE Terminated
  BY <1>1, <1>2 DEF Terminated
<1>3. CASE Finish
  <2>1. /\ prog' = prog /\ frames' = frames /\ phase = "visit" /\ phase' = "done"
        /\ hasReturn => code' = code
    BY <1>3 DEF Finish
  <2>2. CASE hasReturn
    <3>1. PICK t : Fence(prog, frames, t)
      BY <2>1, <2>2 DEF FenceInv
    <3> QED
      BY <2>1, <3>1 DEF FenceInv
  <2>3. CASE ~hasReturn
    BY <1>3, <2>1, <2>3, FinishCloses DEF FenceInv
  <2> QED
    BY <2>2, <2>3
<1>4. CASE Step /\ ~Finish
  <2>1. phase = "visit" /\ phase' = "visit"
    BY <1>4, Appends
  <2>2. PICK x \in Token :
          /\ prog' = Append(prog, x)
          /\ x.tok \in Closing \cup {"else"} => frames # <<>> /\ x.at = Top.at
          /\ hasReturn' = hasReturn \/ (/\ x.tok = "ret" /\ x.at = Here /\ frames' = frames
                                       /\ hasReturn' = (hasReturn \/ current = NoBlock))
    BY <1>4, Appends
  <2>3. /\ \A d \in 1..Len(frames') :
             frames'[d].at = Here \/ \E e \in 1..Len(frames) : frames'[d].at = frames[e].at
        /\ frames # <<>> => Top = frames[Len(frames)] /\ Len(frames) \in 1..Len(frames)
    BY <1>4, FrameOrigins
  <2>4. prog \in Seq(Token) /\ Len(prog) \in Nat /\ Here = Len(prog) + 1
    BY HereTypes DEF TypeInv, TypeOK, Here
  <2>5. CASE hasReturn
    <3>1. PICK t : Fence(prog, frames, t)
      BY <2>1, <2>5 DEF FenceInv
    <3>2. t \in 1..Len(prog) /\ \A d \in 1..Len(frames) : frames[d].at > t
      BY <3>1 DEF Fence
    <3>3. x.tok \in Closing \cup {"else"} => x.at > t
      BY <2>2, <2>3, <3>2
    <3>4. Here > t
      BY <2>4, <3>2
    <3>5. \A d \in 1..Len(frames') : frames'[d].at > t
      BY <2>3, <3>2, <3>4
    <3>6. Fence(Append(prog, x), frames', t)
      BY <2>4, <3>1, <3>3, <3>5, FenceKeeps
    <3> QED
      BY <2>1, <2>2, <3>6 DEF FenceInv
  <2>6. CASE ~hasReturn /\ hasReturn'
    <3>1. /\ x.tok = "ret" /\ frames' = frames /\ current = NoBlock
      BY <2>2, <2>6
    <3>2. Len(frames) = 0 /\ \A d : d \notin 1..0
      BY <3>1, TopLevel
    <3> DEFINE q == Append(prog, x)
               n == Len(prog)
    <3>3. /\ Len(q) = n + 1 /\ q[n + 1] = x /\ \A e \in 1..n : q[e] = prog[e]
      BY <2>4, AppendProperties
    <3>4. \A e \in 1..n : prog[e].tok \in Closing \cup {"else"} => prog[e].at \in 1..n
      BY DEF StreamOK
    <3>5. n \in Nat
      BY <2>4
    <3> HIDE DEF q, n
    <3>6. ASSUME NEW e \in 1..Len(q), q[e].tok \in Closing \cup {"else"}
          PROVE  e < n + 1 <=> q[e].at < n + 1
      <4>1. CASE e \in 1..n
        <5>1. q[e] = prog[e] /\ q[e].at \in 1..n
          BY <3>3, <3>4, <3>6, <4>1
        <5> QED
          BY <3>5, <4>1, <5>1
      <4>2. CASE e = n + 1
        BY <3>1, <3>3, <3>6, <4>2 DEF Closing
      <4> QED
        BY <3>3, <3>5, <4>1, <4>2
    <3>7. Fence(q, frames', n + 1)
      BY <3>1, <3>2, <3>3, <3>5, <3>6 DEF Fence
    <3> QED
      BY <2>1, <2>2, <3>7 DEF FenceInv, q
  <2>7. CASE ~hasReturn'
    BY <2>1, <2>7 DEF FenceInv
  <2> QED
    BY <2>5, <2>6, <2>7
<1> QED
  BY <1>1, <1>2, <1>3, <1>4 DEF Next

(* Whatever is compiled, no jump of the source leads over the return that  *)
(* sets hasReturn.                                                         *)
LEMMA FenceHolds ==
  ASSUME LoopKinds \subseteq {"while", "times"}, "fallOff" \notin Shapes
  PROVE  Spec => []FenceInv
<1>1. Init => FenceInv
  BY DEF Init, FenceInv
<1>2. /\ TypeInv /\ CurrentInv /\ SourceInv /\ FenceInv /\ [Next]_vars
      => FenceInv'
  BY FenceStep DEF SourceInv
<1> QED
  BY <1>1, <1>2, TypeInvHolds, CurrentInvHolds, SourceHolds, PTL DEF Spec

-----------------------------------------------------------------------------
(* A compiled sub: where its blocks stand in the source, and the position  *)
(* no run gets past.                                                       *)
Fits(h) ==
  /\ phase = "done" /\ frames = <<>> /\ TypeOK
  /\ StreamOK(prog, frames) /\ Fitted(h)
  /\ ClosedBehind /\ TargetsPlaced

(* No run gets past t: it is the end of the sub, or a fence.               *)
Limit(t) ==
  \/ t = Len(prog) + 1 /\ Closed(code[insert])
  \/ Fence(prog, frames, t)

(* The limit is a position.                                                *)
LEMMA LimitIn ==
  ASSUME TypeOK, NEW t, Limit(t)
  PROVE  t \in Nat \ {0} /\ t \in 1..(Len(prog) + 1) /\ Len(prog) \in Nat
<1>1. Len(prog) \in Nat
  BY HereTypes
<1> QED
  BY <1>1 DEF Limit, Fence

(* What a compiled sub tells about one of its blocks.                      *)
LEMMA FitsAt ==
  ASSUME NEW h, Fits(h), NEW b \in placed
  PROVE  /\ code[b] \in Seq(Instrs) /\ Len(code[b]) \in Nat /\ b \in Blocks
         /\ b \in 1..created /\ created \in Nat /\ h[b] \in Nat
         /\ prog \in Seq(Token) /\ StreamOK(prog, <<>>)
         /\ h[Entry] = 1 /\ Entry \in placed
         /\ \A k \in 1..Len(code[b]) :
              /\ InstrFits(prog, <<>>, h, placed, Began(code), "done", b, code[b], h[b], k)
              /\ code[b][k] \in Instrs
<1>1. b \in Blocks /\ b \in 1..created /\ created \in Nat
  BY HereTypes DEF Fits
<1>2. code[b] \in Seq(Instrs) /\ prog \in Seq(Token)
  BY <1>1 DEF Fits, TypeOK
<1>3. h[b] \in Nat /\ h[Entry] = 1 /\ Entry \in placed
  BY <1>1 DEF Fits, Fitted
<1>4. StreamOK(prog, <<>>)
  BY DEF Fits
<1>5. BlockFits(prog, <<>>, h, placed, Began(code), "done", b, code[b], h[b])
  BY DEF Fits, Fitted
<1>6. \A k \in 1..Len(code[b]) :
        InstrFits(prog, <<>>, h, placed, Began(code), "done", b, code[b], h[b], k)
  BY <1>5 DEF BlockFits
<1> QED
  BY <1>1, <1>2, <1>3, <1>4, <1>6

(* A branch of a compiled sub.                                             *)
LEMMA JumpAt ==
  ASSUME NEW h, Fits(h), NEW b \in placed, NEW k \in 1..Len(code[b]), code[b][k].op = "br"
  PROVE  LET i == At(code[b], h[b], k)
             y == code[b][k].yes
         IN  /\ i \in 1..Len(prog) /\ y \in placed \ {Entry} /\ Goes(prog, i, h[y])
             /\ y < b \/ y \in Began(code)
<1> DEFINE i == At(code[b], h[b], k)
           y == code[b][k].yes
<1>1. JumpFits(prog, <<>>, h, placed, Began(code), b, i, y)
  BY FitsAt DEF InstrFits
<1>2. Len(<<>>) = 0 /\ \A d : d \notin 1..0
  OBVIOUS
<1>3. y \in Blocks /\ y \in Targets(b)
  <2>1. code[b][k] \in Instrs /\ MaxBlocks \in Nat /\ b \in Blocks
    BY FitsAt, MaxLenAssumption DEF MaxBlocks
  <2>2. y \in placed
    <3> HIDE DEF i, y
    <3> QED
      BY <1>1, <1>2 DEF JumpFits
  <2>3. y \in Blocks
    BY <2>2, FitsAt
  <2> QED
    BY <2>3 DEF Targets
<1>4. y # Entry
  BY <1>3 DEF Fits, TargetsPlaced
<1> HIDE DEF i, y
<1>5. i \in 1..Len(prog) /\ y \in placed /\ Goes(prog, i, h[y]) /\ (y < b \/ y \in Began(code))
  BY <1>1, <1>2 DEF JumpFits
<1> QED
  BY <1>4, <1>5 DEF i, y

(* A test of a compiled sub.                                               *)
LEMMA TestAt ==
  ASSUME NEW h, Fits(h), NEW b \in placed, NEW k \in 1..Len(code[b]), code[b][k].op = "condbr"
  PROVE  LET i == At(code[b], h[b], k)
             x == code[b][k]
         IN  /\ i \in 1..Len(prog) /\ prog[i].tok \in {"if"} \cup Tested
             /\ x.yes \in placed \ {Entry} /\ h[x.yes] = i + 1
             /\ x.no \in placed \ {Entry} /\ Skips(prog, i, h[x.no])
<1> DEFINE i == At(code[b], h[b], k)
           x == code[b][k]
<1>1. TestFits(prog, <<>>, h, placed, i, x)
  BY FitsAt DEF InstrFits
<1>2. Len(<<>>) = 0 /\ \A d : d \notin 1..0
  OBVIOUS
<1>3. /\ i \in 1..Len(prog) /\ prog[i].tok \in {"if"} \cup Tested
      /\ x.yes \in placed /\ h[x.yes] = i + 1
      /\ x.no \in placed /\ Skips(prog, i, h[x.no])
  <2> HIDE DEF i, x
  <2> QED
    BY <1>1, <1>2 DEF TestFits
<1>4. x.yes \in Blocks /\ x.no \in Blocks
  BY <1>3, FitsAt
<1>5. x.yes \in Targets(b) /\ x.no \in Targets(b)
  BY <1>4 DEF Targets
<1>6. x.yes # Entry /\ x.no # Entry
  BY <1>5 DEF Fits, TargetsPlaced
<1> QED
  BY <1>3, <1>6

(* Nothing leads past the limit.                                           *)
LEMMA GoesBelow ==
  ASSUME LoopKinds \subseteq {"while", "times"}, NEW h, Fits(h), NEW t, Limit(t),
         NEW q \in 1..Len(prog), q <= t, NEW r, Goes(prog, q, r)
  PROVE  r <= t /\ r \in 1..(Len(prog) + 1)
<1>1. /\ prog \in Seq(Token) /\ StreamOK(prog, <<>>) /\ TypeOK
      /\ Len(prog) \in Nat /\ t \in Nat /\ t \in 1..(Len(prog) + 1)
  BY LimitIn, HereTypes DEF Fits, TypeOK
<1>2. r \in 1..(Len(prog) + 1)
  BY <1>1, LandingGoes
<1>3. CASE t = Len(prog) + 1
  BY <1>1, <1>2, <1>3
<1>4. CASE Fence(prog, frames, t)
  <2>1. /\ t \in 1..Len(prog) /\ prog[t].tok = "ret"
        /\ \A e \in 1..Len(prog) :
             prog[e].tok \in Closing \cup {"else"} => (e < t <=> prog[e].at < t)
    BY <1>4 DEF Fence
  <2>2. prog[q].tok # "ret"
    BY DEF Goes, Tested
  <2>3. q < t
    BY <1>1, <2>1, <2>2
  <2>4. CASE r = q + 1
    BY <1>1, <2>3, <2>4
  <2>5. ASSUME prog[q].tok = "else", NEW e \in Marks(prog, "endif", prog[q].at), r = e + 1
        PROVE  r <= t
    <3>1. e \in 1..Len(prog) /\ prog[e].tok = "endif" /\ prog[e].at = prog[q].at
      BY DEF Marks
    <3>2. e < t
      BY <2>1, <2>3, <2>5, <3>1 DEF Closing
    <3> QED
      BY <1>1, <2>5, <3>1, <3>2
  <2>6. CASE prog[q].tok = "endloop" /\ r = prog[q].at
    <3>1. r < t
      BY <2>1, <2>3, <2>6 DEF Closing
    <3> QED
      BY <1>1, <1>2, <3>1
  <2>7. CASE r = q
    BY <2>7
  <2> QED
    BY <1>2, <2>4, <2>5, <2>6, <2>7 DEF Goes
<1> QED
  BY <1>3, <1>4 DEF Limit

(* Nor does a test lead past it.                                           *)
LEMMA SkipsBelow ==
  ASSUME NEW h, Fits(h), NEW t, Limit(t),
         NEW i \in 1..Len(prog), prog[i].tok \in {"if"} \cup Tested, i <= t,
         NEW r, Skips(prog, i, r)
  PROVE  r <= t /\ i + 1 <= t
<1>1. /\ prog \in Seq(Token) /\ StreamOK(prog, <<>>) /\ TypeOK
      /\ Len(prog) \in Nat /\ t \in Nat /\ t \in 1..(Len(prog) + 1)
  BY LimitIn, HereTypes DEF Fits, TypeOK
<1>2. r \in 1..(Len(prog) + 1)
  BY <1>1, LandingSkips
<1>3. CASE t = Len(prog) + 1
  BY <1>1, <1>2, <1>3
<1>4. CASE Fence(prog, frames, t)
  <2>1. /\ t \in 1..Len(prog) /\ prog[t].tok = "ret"
        /\ \A e \in 1..Len(prog) :
             prog[e].tok \in Closing \cup {"else"} => (e < t <=> prog[e].at < t)
    BY <1>4 DEF Fence
  <2>2. prog[i].tok # "ret"
    BY DEF Tested
  <2>3. i < t
    BY <1>1, <2>1, <2>2
  <2>4. \E tok \in Closing \cup {"else"} : \E e \in Marks(prog, tok, i) : r = e + 1
    BY DEF Skips, Closing
  <2>5. PICK tok \in Closing \cup {"else"} : \E e \in Marks(prog, tok, i) : r = e + 1
    BY <2>4
  <2>6. PICK e \in Marks(prog, tok, i) : r = e + 1
    BY <2>5
  <2>7. e \in 1..Len(prog) /\ prog[e].tok \in Closing \cup {"else"} /\ prog[e].at = i
    BY DEF Marks
  <2>8. e < t
    BY <2>1, <2>3, <2>7
  <2> QED
    BY <1>1, <2>3, <2>6, <2>7, <2>8
<1> QED
  BY <1>3, <1>4 DEF Limit

(* A block no run gets past has code.                                      *)
LEMMA HasCode ==
  ASSUME NEW h, Fits(h), NEW t, Limit(t), NEW b \in placed, NEW k \in 1..Len(code[b]) + 1,
         At(code[b], h[b], k) <= t,
         k = 1 \/ code[b][k - 1].op \notin {"br", "condbr", "ret"}
  PROVE  k \in 1..Len(code[b])
<1>1. code[b] \in Seq(Instrs) /\ Len(code[b]) \in Nat
  BY FitsAt
<1>2. CASE Closed(code[b])
  BY <1>1, <1>2, EmptySeq DEF Closed, IsTerminator
<1>3. CASE ~Closed(code[b])
  <2>1. b = insert
    BY <1>3 DEF Fits, ClosedBehind, EndsInTerminator, Closed
  <2>2. Fence(prog, frames, t)
    BY <1>3, <2>1 DEF Limit
  <2>3. t \in 1..Len(prog) /\ Len(prog) \in Nat
    BY <2>2, HereTypes DEF Fence, Fits
  <2>4. At(code[b], h[b], Len(code[b]) + 1) = Len(prog) + 1
    BY <1>3, <2>1 DEF Fits, Fitted
  <2>5. k # Len(code[b]) + 1
    BY <2>3, <2>4
  <2> QED
    BY <1>1, <2>5
<1> QED
  BY <1>2, <1>3

(* Where a block begins that does not begin with a branch.                 *)
LEMMA StartHere ==
  ASSUME NEW h, Fits(h), NEW t, Limit(t), NEW c \in placed \ {Entry}, h[c] <= t,
         NEW m \in Nat \ {0}
  PROVE  /\ 1 \in 1..Len(code[c]) /\ At(code[c], h[c], 1) = h[c]
         /\ Start[m][c] = IF code[c][1].op = "br" THEN Start[m - 1][code[c][1].yes]
                          ELSE Src!Landing(prog, h[c])
<1> DEFINE x == code[c][1]
<1>0. placed \subseteq Nat \ {0} /\ placed \subseteq Blocks /\ TypeOK
  BY HereTypes DEF Fits
<1>5. c \in Nat \ {0} /\ c # Entry /\ c \in placed /\ c \in Blocks
  BY <1>0
<1>6. /\ code[c] \in Seq(Instrs) /\ Len(code[c]) \in Nat /\ h[c] \in Nat
      /\ prog \in Seq(Token) /\ StreamOK(prog, <<>>)
  BY <1>5, FitsAt
<1>7. At(code[c], h[c], 1) = h[c]
  BY DEF At
<1>8. 1 \in 1..Len(code[c])
  <2>1. 1 \in 1..Len(code[c]) + 1
    BY <1>6
  <2> QED
    BY <1>5, <1>7, <2>1, HasCode
<1>9. code[c] # <<>>
  BY <1>8, EmptySeq
<1>10. InstrFits(prog, <<>>, h, placed, Began(code), "done", c, code[c], h[c], 1) /\ x \in Instrs
  BY <1>5, <1>8, FitsAt
<1>12. Start[m][c] = IF x.op = "br" THEN Start[m - 1][x.yes] ELSE x.id
  <2>1. c \in Blocks \cup {NoBlock}
    BY <1>5
  <2> QED
    BY <1>0, <1>5, <1>9, <2>1, StartIs
<1>13. CASE x.op # "br"
  <2>1. x.op \in {"op", "new", "free", "condbr", "ret"}
    BY <1>10, <1>13 DEF Instrs
  <2>2. x.id = h[c] /\ Runs(prog, h[c], "done")
    BY <1>5, <1>7, <1>10, <2>1 DEF InstrFits
  <2>3. Src!Landing(prog, h[c]) = h[c]
    BY <1>6, <2>2, LandingRuns
  <2> QED
    BY <1>7, <1>8, <1>12, <1>13, <2>2, <2>3
<1> QED
  BY <1>7, <1>8, <1>12, <1>13

(* Where a block begins, behind the branches it begins with.               *)
LEMMA StartAt ==
  ASSUME LoopKinds \subseteq {"while", "times"}, NEW h, Fits(h), NEW t, Limit(t),
         NEW b \in placed \ {Entry}, h[b] <= t,
         NEW n \in Nat, n > b \/ (b \in Began(code) /\ n # 0)
  PROVE  Start[n][b] = Src!Landing(prog, h[b])
<1> DEFINE Good(c, m) == m > c \/ (c \in Began(code) /\ m # 0)
           T == {c \in placed \ {Entry} :
                   h[c] <= t /\ \E m \in Nat : Good(c, m) /\ Start[m][c] # Src!Landing(prog, h[c])}
<1>0. placed \subseteq Nat \ {0} /\ placed \subseteq Blocks /\ TypeOK
  BY HereTypes DEF Fits
<1> SUFFICES ASSUME T # {} PROVE FALSE
  OBVIOUS
<1>1. PICK c \in T : \A d \in T : c <= d
  <2>1. T \subseteq Nat
    BY <1>0
  <2> HIDE DEF T
  <2> QED
    BY <2>1, LeastOf
<1>2. /\ c \in placed \ {Entry} /\ h[c] <= t
      /\ \E m \in Nat : Good(c, m) /\ Start[m][c] # Src!Landing(prog, h[c])
  BY <1>1
<1>3. PICK m \in Nat : Good(c, m) /\ Start[m][c] # Src!Landing(prog, h[c])
  BY <1>2
<1>4. \A d \in placed \ {Entry} : d < c /\ h[d] <= t =>
        \A j \in Nat : Good(d, j) => Start[j][d] = Src!Landing(prog, h[d])
  <2> SUFFICES ASSUME NEW d \in placed \ {Entry}, d < c, h[d] <= t
               PROVE  d \notin T
    OBVIOUS
  <2>1. d \in Nat /\ c \in Nat /\ ~(c <= d)
    BY <1>0, <1>2
  <2> HIDE DEF T
  <2> QED
    BY <1>1, <2>1
<1> HIDE DEF T
<1>5. c \in Nat \ {0} /\ c # Entry /\ c \in placed /\ m # 0 /\ m - 1 \in Nat
  <2>1. c \in Nat \ {0} /\ c # Entry /\ c \in placed
    BY <1>0, <1>2
  <2>2. m > c \/ m # 0
    BY <1>3
  <2>3. m \in Nat
    BY <1>3
  <2> HIDE DEF Good
  <2>4. m # 0
    BY <2>1, <2>2, <2>3
  <2>5. m - 1 \in Nat
    BY <2>3, <2>4
  <2> QED
    BY <2>1, <2>4, <2>5
<1>6. prog \in Seq(Token) /\ StreamOK(prog, <<>>)
  BY <1>5, FitsAt
<1> DEFINE x == code[c][1]
           y == x.yes
<1>7. /\ 1 \in 1..Len(code[c]) /\ At(code[c], h[c], 1) = h[c]
      /\ Start[m][c] = IF x.op = "br" THEN Start[m - 1][y] ELSE Src!Landing(prog, h[c])
  BY <1>2, <1>5, StartHere
<1>8. x.op = "br"
  BY <1>3, <1>7
<1>9. /\ h[c] \in 1..Len(prog) /\ y \in placed \ {Entry} /\ Goes(prog, h[c], h[y])
      /\ y < c \/ y \in Began(code)
  BY <1>5, <1>7, <1>8, JumpAt
<1>10. h[y] <= t
  BY <1>2, <1>9, GoesBelow
<1>11. Src!Landing(prog, h[c]) = Src!Landing(prog, h[y])
  BY <1>6, <1>9, LandingGoes
<1>12. c \notin Began(code)
  BY <1>8 DEF Began
<1> HIDE DEF x, y
<1>13. m > c
  BY <1>3, <1>12
<1>14. m - 1 # 0 /\ y \in Nat
  <2>1. c > 1
    BY <1>5 DEF Entry
  <2> QED
    BY <1>0, <1>5, <1>9, <1>13, <2>1
<1>15. Start[m - 1][y] = Src!Landing(prog, h[y])
  <2>1. CASE y < c
    <3>1. Good(y, m - 1)
      BY <1>5, <1>13, <1>14, <2>1
    <3> HIDE DEF Good
    <3> QED
      BY <1>4, <1>5, <1>9, <1>10, <2>1, <3>1
  <2>2. CASE y \in Began(code)
    <3>1. code[y][1].op # "br"
      BY <2>2 DEF Began
    <3> QED
      BY <1>5, <1>9, <1>10, <1>14, <3>1, StartHere
  <2> QED
    BY <1>9, <2>1, <2>2
<1> QED
  BY <1>3, <1>7, <1>8, <1>11, <1>15

-----------------------------------------------------------------------------
(* The source position of instruction k of block b.                        *)
Where(p, c, h, b, k) ==
  IF c[b][k].op \in {"new", "free"} /\ c[b][k].id = 0 THEN 0
  ELSE Src!Landing(p, At(c[b], h[b], k))

(* An instruction that is no branch stands where its number says.          *)
LEMMA WhereRuns ==
  ASSUME NEW h, Fits(h), NEW b \in placed, NEW k \in 1..Len(code[b]), code[b][k].op # "br"
  PROVE  /\ Where(prog, code, h, b, k) = code[b][k].id
         /\ \/ /\ code[b][k].id = 0 /\ b = Entry /\ At(code[b], h[b], k) = 1
               /\ code[b][k].op \in {"new", "free"}
            \/ /\ code[b][k].id = At(code[b], h[b], k) /\ code[b][k].id \in 1..(Len(prog) + 1)
               /\ Runs(prog, code[b][k].id, "done")
<1> DEFINE i == At(code[b], h[b], k)
           x == code[b][k]
<1>1. x.op \in {"op", "new", "free", "condbr", "ret"}
  <2>1. x \in Instrs
    BY FitsAt
  <2> QED
    BY <2>1 DEF Instrs
<1>2. InstrFits(prog, <<>>, h, placed, Began(code), "done", b, code[b], h[b], k)
  BY FitsAt
<1>3. prog \in Seq(Token) /\ StreamOK(prog, <<>>)
  BY FitsAt
<1>4. \/ x.id = 0 /\ b = Entry /\ i = 1 /\ x.op \in {"new", "free"}
      \/ x.id = i /\ Runs(prog, i, "done")
  <2> HIDE DEF i, x
  <2> QED
    BY <1>1, <1>2 DEF InstrFits, i, x
<1> HIDE DEF i, x
<1>5. CASE x.id = 0 /\ b = Entry /\ i = 1 /\ x.op \in {"new", "free"}
  <2>1. Where(prog, code, h, b, k) = 0
    BY <1>5 DEF Where, x
  <2> QED
    BY <1>5, <2>1 DEF i, x
<1>6. CASE x.id = i /\ Runs(prog, i, "done")
  <2>1. Src!Landing(prog, i) = i /\ i \in 1..(Len(prog) + 1)
    BY <1>3, <1>6, LandingRuns
  <2>2. x.id # 0
    BY <1>3, <1>6, <2>1
  <2>3. Where(prog, code, h, b, k) = i
    BY <2>1, <2>2 DEF Where, x, i
  <2> QED
    BY <1>6, <2>1, <2>3 DEF i, x
<1> QED
  BY <1>4, <1>5, <1>6

(* A branch stands where its target begins.                                *)
LEMMA WhereJumps ==
  ASSUME LoopKinds \subseteq {"while", "times"}, NEW h, Fits(h),
         NEW b \in placed, NEW k \in 1..Len(code[b]), code[b][k].op = "br"
  PROVE  /\ Where(prog, code, h, b, k) = Src!Landing(prog, h[code[b][k].yes])
         /\ Where(prog, code, h, b, k) \in Nat \ {0}
<1> DEFINE i == At(code[b], h[b], k)
           y == code[b][k].yes
<1>1. Where(prog, code, h, b, k) = Src!Landing(prog, i)
  BY DEF Where
<1>2. i \in 1..Len(prog) /\ Goes(prog, i, h[y])
  BY JumpAt
<1>3. prog \in Seq(Token) /\ StreamOK(prog, <<>>)
  BY FitsAt
<1> HIDE DEF i, y
<1>4. Src!Landing(prog, i) = Src!Landing(prog, h[y])
  BY <1>2, <1>3, LandingGoes
<1>5. Src!Landing(prog, i) \in Nat \ {0}
  <2>1. i \in 1..(Len(prog) + 1)
    BY <1>2, <1>3
  <2> QED
    BY <1>3, <2>1, LandingIn
<1> QED
  BY <1>1, <1>4, <1>5 DEF y

(* A block other than the entry begins where it stands in the source.      *)
LEMMA WhereBegins ==
  ASSUME NEW h, Fits(h), NEW b \in placed, 1 \in 1..Len(code[b])
  PROVE  \/ b = Entry /\ Where(prog, code, h, b, 1) = 0
         \/ Where(prog, code, h, b, 1) = Src!Landing(prog, h[b])
<1>1. At(code[b], h[b], 1) = h[b]
  BY DEF At
<1>2. CASE code[b][1].op \in {"new", "free"} /\ code[b][1].id = 0
  <2>1. code[b][1].op # "br" /\ Where(prog, code, h, b, 1) = 0
    BY <1>2 DEF Where
  <2>2. prog \in Seq(Token)
    BY FitsAt
  <2>3. code[b][1].id \notin 1..(Len(prog) + 1)
    BY <1>2, <2>2
  <2> QED
    BY <2>1, <2>3, WhereRuns
<1>3. CASE ~(code[b][1].op \in {"new", "free"} /\ code[b][1].id = 0)
  BY <1>1, <1>3 DEF Where
<1> QED
  BY <1>2, <1>3

(* From one instruction of a block to the next.                            *)
LEMMA WhereNext ==
  ASSUME NEW h, Fits(h), NEW b \in placed, NEW k \in 1..Len(code[b]), k + 1 \in 1..Len(code[b])
  PROVE  LET here == Where(prog, code, h, b, k)
             next == Where(prog, code, h, b, k + 1)
         IN  /\ code[b][k].op = "op" =>
                  /\ here \in 1..Len(prog) /\ prog[here].tok = "op"
                  /\ next = Src!Landing(prog, here + 1)
                  /\ At(code[b], h[b], k + 1) = here + 1 /\ At(code[b], h[b], k) = here
             /\ code[b][k].op \in {"new", "free"} =>
                  /\ next = here \/ (here = 0 /\ next = Src!Landing(prog, 1))
                  /\ At(code[b], h[b], k + 1) \in {1, At(code[b], h[b], k)}
<1> DEFINE x == code[b][k]
           y == code[b][k + 1]
           i == At(code[b], h[b], k)
           j == At(code[b], h[b], k + 1)
           here == Where(prog, code, h, b, k)
           next == Where(prog, code, h, b, k + 1)
<1>0. k \in Nat \ {0} /\ prog \in Seq(Token) /\ Len(prog) \in Nat
  BY FitsAt
<1>1. j = After(x)
  BY <1>0 DEF At
<1>2. InstrFits(prog, <<>>, h, placed, Began(code), "done", b, code[b], h[b], k)
  BY FitsAt
<1>3. next = IF y.op \in {"new", "free"} /\ y.id = 0 THEN 0 ELSE Src!Landing(prog, j)
  BY DEF Where
<1>4. CASE x.op = "op"
  <2>1. i \in 1..Len(prog) /\ prog[i].tok = "op" /\ x.id = i
    BY <1>2, <1>4 DEF InstrFits
  <2>2. here = i
    BY <1>4, <2>1, WhereRuns
  <2>3. j = i + 1
    BY <1>1, <1>4, <2>1 DEF After
  <2>4. ~(y.op \in {"new", "free"} /\ y.id = 0)
    <3> SUFFICES ASSUME y.op \in {"new", "free"}, y.id = 0 PROVE FALSE
      OBVIOUS
    <3>1. y.op # "br"
      OBVIOUS
    <3>2. j = 1 \/ y.id \in 1..(Len(prog) + 1)
      BY <3>1, WhereRuns
    <3> HIDE DEF j, i, y
    <3> QED
      BY <1>0, <2>1, <2>3, <3>2
  <2> HIDE DEF i, j, x, y, here, next
  <2> QED
    BY <1>3, <1>4, <2>1, <2>2, <2>3, <2>4 DEF i, j, x, here, next
<1>5. CASE x.op \in {"new", "free"} /\ x.id = 0
  <2>1. here = 0
    BY <1>5 DEF Where
  <2>2. j = 1
    BY <1>1, <1>5 DEF After
  <2> HIDE DEF i, j, x, y, here, next
  <2> QED
    BY <1>3, <1>5, <2>1, <2>2 DEF i, j, x, here, next
<1>6. CASE x.op \in {"new", "free"} /\ x.id # 0
  <2>1. /\ x.id = i /\ y.id = i /\ y.op # "br"
    BY <1>2, <1>6 DEF InstrFits
  <2>2. x.op # "br" /\ here = x.id
    BY <1>6, WhereRuns
  <2>3. next = y.id
    BY <2>1, WhereRuns
  <2>4. j = i
    BY <1>1, <1>6, <2>1 DEF After
  <2> HIDE DEF i, j, x, y, here, next
  <2> QED
    BY <1>6, <2>1, <2>2, <2>3, <2>4 DEF i, j, x, here, next
<1> QED
  BY <1>4, <1>5, <1>6

(* The edges of a test lead where StructuredProgram sends control.         *)
LEMMA WhereTests ==
  ASSUME NEW h, Fits(h), NEW b \in placed, NEW k \in 1..Len(code[b]), code[b][k].op = "condbr"
  PROVE  LET i == Where(prog, code, h, b, k) IN
         /\ i \in 1..Len(prog) /\ prog[i].tok \in {"if"} \cup Tested
         /\ i = At(code[b], h[b], k)
         /\ Src!WhenTrue(prog, i) = Src!Landing(prog, h[code[b][k].yes])
         /\ Src!WhenFalse(prog, i) = Src!Landing(prog, h[code[b][k].no])
<1> DEFINE i == At(code[b], h[b], k)
           x == code[b][k]
<1>1. /\ i \in 1..Len(prog) /\ prog[i].tok \in {"if"} \cup Tested
      /\ h[x.yes] = i + 1 /\ Skips(prog, i, h[x.no])
  BY TestAt
<1>2. Where(prog, code, h, b, k) = i
  BY WhereRuns
<1>3. prog \in Seq(Token) /\ StreamOK(prog, <<>>)
  BY FitsAt
<1> HIDE DEF i, x
<1>4. Src!WhenFalse(prog, i) = Src!Landing(prog, h[x.no])
  BY <1>1, <1>3, LandingSkips
<1>5. prog[i].tok # "endloop"
  BY <1>1 DEF Tested
<1>6. Src!WhenTrue(prog, i) = Src!Landing(prog, h[x.yes])
  BY <1>1, <1>5 DEF Src!WhenTrue
<1> QED
  BY <1>1, <1>2, <1>4, <1>6 DEF i, x

(* A ret stands at a return of the source or at its end.                   *)
LEMMA WhereReturns ==
  ASSUME NEW h, Fits(h), NEW b \in placed, NEW k \in 1..Len(code[b]), code[b][k].op = "ret"
  PROVE  /\ Where(prog, code, h, b, k) \in 1..(Len(prog) + 1)
         /\ Src!IsReturn(prog, Where(prog, code, h, b, k))
<1> DEFINE i == At(code[b], h[b], k)
<1>1. Where(prog, code, h, b, k) = i /\ i \in 1..(Len(prog) + 1)
  BY WhereRuns
<1>2. i \in 1..Len(prog) => prog[i].tok = "ret"
  BY FitsAt DEF InstrFits
<1>3. Len(prog) \in Nat
  BY FitsAt
<1> HIDE DEF i
<1> QED
  BY <1>1, <1>2, <1>3 DEF Src!IsReturn

-----------------------------------------------------------------------------
(* A run stays in front of the limit.                                      *)
Path(h, t) ==
  blk \in placed /\ ip \in 1..Len(code[blk]) /\ At(code[blk], h[blk], ip) <= t

(* A run of a compiled sub, with the positions of its blocks and the       *)
(* limit.                                                                  *)
OnPath(h, t) == Fits(h) /\ Limit(t) /\ Path(h, t)

(* The inductive invariant of a run.                                       *)
PathInv ==
  /\ status = "running" => \E h, t : OnPath(h, t)
  /\ status # "stuck"

(* Position, which IRExecution computes from the blocks, is where the next *)
(* instruction stands in the source.                                       *)
LEMMA PositionIs ==
  ASSUME LoopKinds \subseteq {"while", "times"}, NEW h, NEW t, OnPath(h, t)
  PROVE  Position = Where(prog, code, h, blk, ip)
<1>1. Fits(h) /\ Limit(t) /\ Path(h, t)
  BY DEF OnPath
<1>2. blk \in placed /\ ip \in 1..Len(code[blk]) /\ At(code[blk], h[blk], ip) <= t
  BY <1>1 DEF Path
<1>3. ~AtEnd
  <2>1. ip <= Len(code[blk])
    BY <1>2
  <2>2. Len(code[blk]) \in Nat
    BY <1>1, <1>2, FitsAt
  <2> QED
    BY <1>2, <2>1, <2>2 DEF AtEnd
<1>4. CASE Current.op # "br"
  <2>1. Position = Current.id
    BY <1>3, <1>4 DEF Position
  <2>2. Where(prog, code, h, blk, ip) = Current.id
    BY <1>1, <1>2, <1>4, WhereRuns DEF Current
  <2> QED
    BY <2>1, <2>2
<1>5. CASE Current.op = "br"
  <2> DEFINE y == Current.yes
             i == At(code[blk], h[blk], ip)
  <2>1. Position = Start[created][y]
    BY <1>3, <1>5 DEF Position
  <2>2. /\ i \in 1..Len(prog) /\ y \in placed \ {Entry} /\ Goes(prog, i, h[y])
        /\ y < blk \/ y \in Began(code)
    BY <1>1, <1>2, <1>5, JumpAt DEF Current
  <2>3. Where(prog, code, h, blk, ip) = Src!Landing(prog, h[y])
    BY <1>1, <1>2, <1>5, WhereJumps DEF Current
  <2>4. blk \in 1..created /\ created \in Nat /\ y \in 1..created
    BY <1>1, <1>2, <2>2, FitsAt
  <2> HIDE DEF y, i
  <2>5. h[y] <= t
    BY <1>1, <1>2, <2>2, GoesBelow DEF i
  <2>6. created > y \/ (y \in Began(code) /\ created # 0)
    BY <2>2, <2>4
  <2>7. Start[created][y] = Src!Landing(prog, h[y])
    BY <1>1, <2>2, <2>4, <2>5, <2>6, StartAt
  <2> QED
    BY <2>1, <2>3, <2>7
<1> QED
  BY <1>4, <1>5

(* Where an instruction may lead.                                          *)
LEMMA PathAdvances ==
  ASSUME NEW h, NEW t, OnPath(h, t), Current.op \in {"op", "new", "free"}
  PROVE  ip + 1 \in 1..Len(code[blk]) /\ At(code[blk], h[blk], ip + 1) <= t
<1> DEFINE s == code[blk]
           i == At(s, h[blk], ip)
           j == At(s, h[blk], ip + 1)
<1>1. Fits(h) /\ Limit(t) /\ blk \in placed /\ ip \in 1..Len(s) /\ i <= t
  BY DEF OnPath, Path
<1>2. Len(s) \in Nat /\ ip \in Nat \ {0} /\ prog \in Seq(Token) /\ TypeOK
  BY <1>1, FitsAt DEF Fits
<1>3. t \in Nat \ {0} /\ t \in 1..(Len(prog) + 1) /\ Len(prog) \in Nat
  BY <1>1, <1>2, LimitIn
<1>4. InstrFits(prog, <<>>, h, placed, Began(code), "done", blk, s, h[blk], ip)
  BY <1>1, FitsAt
<1>5. j = After(s[ip])
  <2>1. ip + 1 # 1 /\ (ip + 1) - 1 = ip
    BY <1>2
  <2> QED
    BY <2>1 DEF At
<1>6. j <= t
  <2>1. CASE s[ip].op = "op"
    <3>1. i \in 1..Len(prog) /\ prog[i].tok = "op" /\ s[ip].id = i
      BY <1>4, <2>1 DEF InstrFits
    <3>2. j = i + 1
      BY <1>5, <2>1, <3>1 DEF After
    <3> HIDE DEF i, j
    <3>3. t # i
      <4>1. CASE t = Len(prog) + 1
        BY <1>3, <3>1, <4>1
      <4>2. CASE Fence(prog, frames, t)
        BY <3>1, <4>2 DEF Fence
      <4> QED
        BY <1>1, <4>1, <4>2 DEF Limit
    <3> QED
      BY <1>1, <1>3, <3>1, <3>2, <3>3
  <2>2. CASE s[ip].op \in {"new", "free"}
    <3>1. s[ip].id = 0 \/ s[ip].id = i
      BY <1>4, <2>2 DEF InstrFits
    <3>2. j = 1 \/ j = i
      BY <1>5, <2>2, <3>1 DEF After
    <3> HIDE DEF i, j
    <3> QED
      BY <1>1, <1>3, <3>2
  <2> QED
    BY <2>1, <2>2 DEF Current
<1>7. ip + 1 \in 1..Len(s) + 1
  BY <1>1, <1>2
<1>8. (ip + 1) - 1 = ip
  BY <1>2
<1>9. s[(ip + 1) - 1].op \notin {"br", "condbr", "ret"}
  BY <1>8 DEF Current
<1> QED
  BY <1>1, <1>6, <1>7, <1>9, HasCode

(* The target of a branch has code in front of the limit.                  *)
LEMMA PathBranches ==
  ASSUME LoopKinds \subseteq {"while", "times"},
         NEW h, NEW t, OnPath(h, t), Current.op \in {"br", "condbr"},
         NEW y \in {Current.yes, Current.no}, Current.op = "br" => y = Current.yes
  PROVE  y \in placed \ {Entry} /\ 1 \in 1..Len(code[y]) /\ At(code[y], h[y], 1) <= t
<1> DEFINE s == code[blk]
           i == At(s, h[blk], ip)
<1>1. Fits(h) /\ Limit(t) /\ blk \in placed /\ ip \in 1..Len(s) /\ i <= t
  BY DEF OnPath, Path
<1>2. y \in placed \ {Entry} /\ h[y] <= t
  <2>1. CASE Current.op = "br"
    <3>1. i \in 1..Len(prog) /\ y \in placed \ {Entry} /\ Goes(prog, i, h[y])
      BY <1>1, <2>1, JumpAt DEF Current
    <3> HIDE DEF i, s
    <3> QED
      BY <1>1, <3>1, GoesBelow
  <2>2. CASE Current.op = "condbr"
    <3> DEFINE x == Current
    <3>1. /\ i \in 1..Len(prog) /\ prog[i].tok \in {"if"} \cup Tested
          /\ x.yes \in placed \ {Entry} /\ h[x.yes] = i + 1
          /\ x.no \in placed \ {Entry} /\ Skips(prog, i, h[x.no])
      BY <1>1, <2>2, TestAt DEF Current
    <3> HIDE DEF i, s, x
    <3>2. h[x.no] <= t /\ i + 1 <= t
      BY <1>1, <3>1, SkipsBelow
    <3> QED
      BY <3>1, <3>2 DEF x
  <2> QED
    BY <2>1, <2>2
<1>3. At(code[y], h[y], 1) = h[y]
  BY DEF At
<1>4. 1 \in 1..Len(code[y]) + 1
  <2>1. Len(code[y]) \in Nat
    BY <1>1, <1>2, FitsAt
  <2> QED
    BY <2>1
<1>5. 1 \in 1..Len(code[y])
  BY <1>1, <1>2, <1>3, <1>4, HasCode
<1> QED
  BY <1>2, <1>3, <1>5

(* The path goes on when the sub does not change.                          *)
LEMMA OnPathStays ==
  ASSUME NEW h, NEW t, OnPath(h, t), UNCHANGED vars,
         blk' \in placed, ip' \in 1..Len(code[blk']), At(code[blk'], h[blk'], ip') <= t
  PROVE  OnPath(h, t)'
<1>1. Fits(h) /\ Limit(t)
  BY DEF OnPath
<1>2. /\ prog' = prog /\ frames' = frames /\ code' = code /\ placed' = placed
      /\ insert' = insert /\ phase' = phase /\ created' = created
      /\ retType' = retType /\ current' = current /\ hasReturn' = hasReturn /\ frees' = frees
  BY DEF vars
<1>3. Fits(h)'
  BY <1>1, <1>2 DEF Fits, Fitted, TypeOK, ClosedBehind, EndsInTerminator, TargetsPlaced, Targets
<1>4. Limit(t)'
  BY <1>1, <1>2 DEF Limit
<1>5. Path(h, t)'
  BY <1>2 DEF Path
<1> QED
  BY <1>3, <1>4, <1>5 DEF OnPath

(* A running step stays on the path, and there is one to take.             *)
LEMMA PathStep ==
  ASSUME LoopKinds \subseteq {"while", "times"}, NEW h, NEW t, OnPath(h, t), Execute
  PROVE  /\ status' = "running" \/ (status' = "halted" /\ ExecuteRet)
         /\ UNCHANGED vars
         /\ status' = "running" => OnPath(h, t)'
<1>1. blk \in placed /\ ip \in 1..Len(code[blk]) /\ ~AtEnd
  <2>1. Fits(h) /\ blk \in placed /\ ip \in 1..Len(code[blk])
    BY DEF OnPath, Path
  <2>2. Len(code[blk]) \in Nat
    BY <2>1, FitsAt
  <2> QED
    BY <2>1, <2>2 DEF AtEnd
<1>2. ASSUME Advance, UNCHANGED vars, Current.op \in {"op", "new", "free"} PROVE OnPath(h, t)'
  <2>1. blk' = blk /\ ip' = ip + 1
    BY <1>2 DEF Advance
  <2>2. ip + 1 \in 1..Len(code[blk]) /\ At(code[blk], h[blk], ip + 1) <= t
    BY <1>2, PathAdvances
  <2> QED
    BY <1>1, <1>2, <2>1, <2>2, OnPathStays
<1>3. ASSUME NEW y \in {Current.yes, Current.no}, Goto(y), UNCHANGED vars,
             Current.op \in {"br", "condbr"}, Current.op = "br" => y = Current.yes
      PROVE  OnPath(h, t)'
  <2>1. blk' = y /\ ip' = 1
    BY <1>3 DEF Goto
  <2>2. y \in placed \ {Entry} /\ 1 \in 1..Len(code[y]) /\ At(code[y], h[y], 1) <= t
    BY <1>3, PathBranches
  <2>3. blk' \in placed /\ ip' \in 1..Len(code[blk']) /\ At(code[blk'], h[blk'], ip') <= t
    BY <2>1, <2>2
  <2> QED
    BY <1>3, <2>3, OnPathStays
<1>4. CASE ExecuteOp
  BY <1>2, <1>4 DEF ExecuteOp, Running
<1>5. CASE ExecuteNew
  BY <1>2, <1>5 DEF ExecuteNew, Running
<1>6. CASE ExecuteFree
  BY <1>2, <1>6 DEF ExecuteFree, Running
<1>7. CASE ExecuteBr
  BY <1>3, <1>7 DEF ExecuteBr, Running
<1>8. ASSUME NEW outcome \in BOOLEAN, ExecuteCondBr(outcome)
      PROVE  status' = "running" /\ UNCHANGED vars /\ OnPath(h, t)'
  <2> DEFINE y == IF outcome THEN Current.yes ELSE Current.no
  <2>1. /\ Goto(y) /\ UNCHANGED vars /\ status' = status /\ status = "running"
        /\ Current.op = "condbr"
    BY <1>8 DEF ExecuteCondBr, Running
  <2>2. y \in {Current.yes, Current.no}
    OBVIOUS
  <2> HIDE DEF y
  <2> QED
    BY <1>3, <2>1, <2>2
<1>9. CASE ExecuteRet
  BY <1>9 DEF ExecuteRet
<1>10. ~FallOffBlock
  BY <1>1 DEF FallOffBlock
<1> QED
  BY <1>4, <1>5, <1>6, <1>7, <1>8, <1>9, <1>10 DEF Execute

-----------------------------------------------------------------------------
(* What is known of the emitter when a run begins.                         *)
CompiledInv ==
  /\ TypeOK /\ SourceInv /\ DoneOutside /\ ClosedBehind /\ TargetsPlaced /\ FenceInv

(* All that holds of what the emitter emits.                               *)
LEMMA CompiledHolds ==
  ASSUME LoopKinds \subseteq {"while", "times"}, "fallOff" \notin Shapes
  PROVE  Spec => []CompiledInv
<1>1. Spec => []SourceInv
  BY SourceHolds
<1>2. Spec => []FenceInv
  BY FenceHolds
<1>3. Spec => []ClosedBehind
  BY ClosedCorrect
<1>4. Spec => []TargetsPlaced
  <2>1. LoopKinds \subseteq {"while", "times", "doWhile"}
    OBVIOUS
  <2> QED
    BY <2>1, TargetsCorrect
<1>5. SourceInv /\ FenceInv /\ ClosedBehind /\ TargetsPlaced /\ TypeInv /\ DoneOutside
      => CompiledInv
  BY DEF CompiledInv, TypeInv
<1> QED
  BY <1>1, <1>2, <1>3, <1>4, <1>5, TypeInvHolds, DoneOutsideHolds, PTL

(* A compiled sub has positions and a limit, and its entry is on the path. *)
LEMMA PathBegins ==
  ASSUME CompiledInv, phase = "done"
  PROVE  \E h, t : /\ Fits(h) /\ Limit(t) /\ Entry \in placed
                   /\ 1 \in 1..Len(code[Entry]) /\ At(code[Entry], h[Entry], 1) <= t
<1>1. PICK h : Fitted(h)
  BY DEF CompiledInv, SourceInv
<1>2. Fits(h)
  BY <1>1 DEF CompiledInv, SourceInv, DoneOutside, Fits
<1>3. \E t : Limit(t)
  BY DEF CompiledInv, FenceInv, Limit
<1>4. PICK t : Limit(t)
  BY <1>3
<1>5. Entry \in placed /\ h[Entry] = 1
  BY <1>2 DEF Fits, Fitted
<1>6. At(code[Entry], h[Entry], 1) <= t
  <2>1. t \in Nat \ {0}
    BY <1>2, <1>4, LimitIn DEF Fits
  <2> QED
    BY <1>5, <2>1 DEF At
<1>7. 1 \in 1..Len(code[Entry])
  <2>1. 1 \in 1..Len(code[Entry]) + 1
    <3>1. Len(code[Entry]) \in Nat
      BY <1>2, <1>5, FitsAt
    <3> QED
      BY <3>1
  <2> QED
    BY <1>2, <1>4, <1>5, <1>6, <2>1, HasCode
<1> QED
  BY <1>2, <1>4, <1>5, <1>6, <1>7

(* A call begins a path.                                                   *)
LEMMA CallPath ==
  ASSUME CompiledInv, CallInv, Call
  PROVE  \E h, t : OnPath(h, t)'
<1>1. phase = "done" /\ UNCHANGED vars /\ blk' = Entry /\ ip' = 1
  BY DEF Call, CallInv
<1>2. PICK h, t : /\ Fits(h) /\ Limit(t) /\ Entry \in placed
                  /\ 1 \in 1..Len(code[Entry]) /\ At(code[Entry], h[Entry], 1) <= t
  BY <1>1, PathBegins
<1>3. /\ prog' = prog /\ frames' = frames /\ code' = code /\ placed' = placed
      /\ insert' = insert /\ phase' = phase /\ created' = created
      /\ retType' = retType /\ current' = current /\ hasReturn' = hasReturn /\ frees' = frees
  BY <1>1 DEF vars
<1>4. Fits(h)'
  BY <1>2, <1>3 DEF Fits, Fitted, TypeOK, ClosedBehind, EndsInTerminator, TargetsPlaced, Targets
<1>5. Limit(t)'
  BY <1>2, <1>3 DEF Limit
<1>6. Path(h, t)'
  BY <1>1, <1>2, <1>3 DEF Path
<1>7. OnPath(h, t)'
  BY <1>4, <1>5, <1>6 DEF OnPath
<1> QED
  BY <1>7

(* Nothing runs while the sub is compiled.                                 *)
LEMMA CompileRuns ==
  ASSUME CallInv, Compile
  PROVE  status = "compiling" /\ UNCHANGED ivars
<1>1. phase = "visit" /\ UNCHANGED ivars
  BY DEF Compile, Step, Statement, EnterIf, EnterElse, EndIf, EnterTestedLoop,
         EnterOtherLoop, EndLoop, ReturnStatement, Finish, MayOpen, MayReturn
<1> QED
  BY <1>1 DEF CallInv

(* Only a running sub executes.                                            *)
LEMMA RunsAre == Execute => status = "running"
BY DEF Execute, ExecuteOp, ExecuteNew, ExecuteFree, ExecuteBr, ExecuteCondBr, ExecuteRet,
       FallOffBlock, Running

(* A step that changes nothing stays on the path.                          *)
LEMMA OnPathSame ==
  ASSUME NEW h, NEW t, OnPath(h, t), UNCHANGED allvars
  PROVE  OnPath(h, t)'
<1>1. UNCHANGED vars /\ blk' = blk /\ ip' = ip
  BY DEF allvars, ivars
<1>2. blk \in placed /\ ip \in 1..Len(code[blk]) /\ At(code[blk], h[blk], ip) <= t
  BY DEF OnPath, Path
<1>3. code' = code
  BY <1>1 DEF vars
<1>4. blk' \in placed /\ ip' \in 1..Len(code[blk']) /\ At(code[blk'], h[blk'], ip') <= t
  BY <1>1, <1>2
<1> QED
  BY <1>1, <1>4, OnPathStays

(* A run never gets past the limit and never falls off the end of a block. *)
LEMMA PathHolds ==
  ASSUME LoopKinds \subseteq {"while", "times"}, "fallOff" \notin Shapes
  PROVE  SpecRun => []PathInv
<1>1. InitRun => PathInv
  BY DEF InitRun, PathInv
<1>2. CompiledInv /\ CallInv /\ PathInv /\ [NextRun]_allvars => PathInv'
  <2> SUFFICES ASSUME CompiledInv, CallInv, PathInv, [NextRun]_allvars PROVE PathInv'
    OBVIOUS
  <2>1. CASE Compile
    <3>1. status' = status /\ status = "compiling"
      BY <2>1, CompileRuns DEF Compile, ivars
    <3> QED
      BY <3>1 DEF PathInv
  <2>2. CASE Call
    <3>1. \E h, t : OnPath(h, t)'
      BY <2>2, CallPath
    <3> QED
      BY <2>2, <3>1 DEF PathInv, Call
  <2>3. CASE Execute
    <3>1. PICK h, t : OnPath(h, t)
      BY <2>3, RunsAre DEF PathInv
    <3> QED
      BY <2>3, <3>1, PathStep DEF PathInv
  <2>4. CASE UNCHANGED allvars
    <3>1. status' = status
      BY <2>4 DEF allvars, ivars
    <3>2. CASE status = "running"
      <4>1. PICK h, t : OnPath(h, t)
        BY <3>2 DEF PathInv
      <4>2. OnPath(h, t)'
        BY <2>4, <4>1, OnPathSame
      <4> QED
        BY <3>1, <4>2, <3>2 DEF PathInv
    <3>3. CASE status # "running"
      BY <3>1, <3>3 DEF PathInv
    <3> QED
      BY <3>2, <3>3
  <2>5. CASE Stopped
    BY <2>4, <2>5 DEF Stopped
  <2> QED
    BY <2>1, <2>2, <2>3, <2>4, <2>5 DEF NextRun
<1>3. SpecRun => []CompiledInv
  <2>1. Spec => []CompiledInv
    BY CompiledHolds
  <2> QED
    BY <2>1, RunIsSpec, PTL
<1> QED
  BY <1>1, <1>2, <1>3, CallHolds, PTL DEF SpecRun

-----------------------------------------------------------------------------
(* The refinement mapping, and the moves of StructuredProgram.             *)
SrcProg == IF status = "compiling" \/ (status = "running" /\ Position = 0)
           THEN <<>> ELSE prog
SrcAt == CASE status = "compiling" -> 0
           [] status = "running"   -> Position
           [] status = "halted"    -> -1
           [] OTHER                -> Lost

(* The moves of StructuredProgram in terms of the mapping.                 *)
LEMMA SrcInit ==
  ASSUME SrcProg = <<>>, SrcAt = 0, taken = FALSE
  PROVE  Src!Init
BY DEF Src!Init, Src!Loading, SrcProg, SrcAt

LEMMA SrcStutter ==
  ASSUME SrcProg' = SrcProg, SrcAt' = SrcAt, taken' = taken
  PROVE  [Src!Next]_(Src!vars)
<1>1. UNCHANGED Src!vars
  BY DEF Src!vars, SrcProg, SrcAt
<1> QED
  BY <1>1

LEMMA SrcLoad ==
  ASSUME SrcAt = 0, SrcProg' \in Seq(Token), SrcAt' = Src!Landing(SrcProg', 1), taken' = taken
  PROVE  [Src!Next]_(Src!vars)
<1>1. Token = Src!Token
  <2>1. {"op", "if", "else", "endif", "ret", "endloop"} \cup AllLoopKinds =
          {"op", "if", "else", "endif", "ret", "endloop", "while", "times", "doWhile", "other"}
    BY DEF AllLoopKinds
  <2> QED
    BY <2>1 DEF Token, Src!Token
<1>2. Src!Load
  BY <1>1 DEF Src!Load, Src!Loading, SrcProg, SrcAt
<1> QED
  BY <1>2 DEF Src!Next

LEMMA SrcStatement ==
  ASSUME SrcAt > 0, ~Src!IsTest(SrcProg, SrcAt), ~Src!IsReturn(SrcProg, SrcAt),
         SrcAt' = Src!Landing(SrcProg, SrcAt + 1), SrcProg' = SrcProg, taken' = taken
  PROVE  [Src!Next]_(Src!vars)
<1>1. Src!Statement
  BY DEF Src!Statement, SrcProg, SrcAt
<1> QED
  BY <1>1 DEF Src!Next

LEMMA SrcTest ==
  ASSUME SrcAt > 0, Src!IsTest(SrcProg, SrcAt), taken' \in BOOLEAN,
         SrcAt' = IF taken' THEN Src!WhenTrue(SrcProg, SrcAt) ELSE Src!WhenFalse(SrcProg, SrcAt),
         SrcProg' = SrcProg
  PROVE  [Src!Next]_(Src!vars)
<1>1. Src!Test
  BY DEF Src!Test, SrcProg, SrcAt
<1> QED
  BY <1>1 DEF Src!Next

LEMMA SrcReturn ==
  ASSUME SrcAt > 0, Src!IsReturn(SrcProg, SrcAt), SrcAt' = -1, SrcProg' = SrcProg, taken' = taken
  PROVE  [Src!Next]_(Src!vars)
<1>1. Src!Return
  BY DEF Src!Return, Src!Halted, SrcProg, SrcAt
<1> QED
  BY <1>1 DEF Src!Next

(* Position is the position of the next instruction in the source.         *)
PosInv == \A h, t : OnPath(h, t) => Position = Where(prog, code, h, blk, ip)

(* The mapping while the sub runs.                                         *)
LEMMA SrcRunning ==
  /\ status = "running" => SrcAt = Position /\ SrcProg = IF Position = 0 THEN <<>> ELSE prog
  /\ status' = "running" =>
       SrcAt' = Position' /\ SrcProg' = IF Position' = 0 THEN <<>> ELSE prog'
BY DEF SrcAt, SrcProg

(* A step that leaves the position alone, or ends the set-up of the        *)
(* locals.                                                                 *)
LEMMA SrcSkips ==
  ASSUME status = "running", status' = "running", prog' = prog, prog \in Seq(Token),
         taken' = taken,
         \/ Position' = Position
         \/ Position = 0 /\ Position' = Src!Landing(prog, 1) /\ Position' # 0
  PROVE  [Src!Next]_(Src!vars)
<1>1. CASE Position' = Position
  <2>1. SrcProg' = SrcProg /\ SrcAt' = SrcAt
    BY <1>1, SrcRunning
  <2> QED
    BY <2>1, SrcStutter
<1>2. CASE Position = 0 /\ Position' = Src!Landing(prog, 1) /\ Position' # 0
  <2>1. SrcAt = 0 /\ SrcProg' = prog /\ SrcAt' = Position'
    BY <1>2, SrcRunning
  <2>2. SrcAt' = Src!Landing(SrcProg', 1)
    BY <1>2, <2>1
  <2> QED
    BY <2>1, <2>2, SrcLoad
<1> QED
  BY <1>1, <1>2

(* Control lands at a position of the stream.                              *)
LEMMA FirstLanding ==
  ASSUME NEW h, Fits(h), NEW k \in 1..(Len(prog) + 1)
  PROVE  Src!Landing(prog, k) \in Nat \ {0}
<1>1. prog \in Seq(Token) /\ StreamOK(prog, <<>>)
  BY DEF Fits, TypeOK
<1> QED
  BY <1>1, LandingIn

(* The instructions that only move control.                                *)
LEMMA RefinesBr ==
  ASSUME LoopKinds \subseteq {"while", "times"}, NEW h, NEW t, OnPath(h, t), OnPath(h, t)',
         UNCHANGED vars, ExecuteBr,
         Position = Where(prog, code, h, blk, ip), Position' = Where(prog, code, h, blk', ip')
  PROVE  [Src!Next]_(Src!vars)
<1> DEFINE y == Current.yes
<1>1. Fits(h) /\ blk \in placed /\ ip \in 1..Len(code[blk])
  BY DEF OnPath, Path
<1>2. /\ status = "running" /\ status' = "running" /\ code[blk][ip].op = "br"
      /\ blk' = y /\ ip' = 1 /\ taken' = taken
  BY DEF ExecuteBr, Running, Goto, Current
<1>3. y \in placed \ {Entry} /\ 1 \in 1..Len(code[y])
  BY <1>2, PathBranches DEF Current
<1>4. Where(prog, code, h, blk, ip) = Src!Landing(prog, h[y])
  BY <1>1, <1>2, WhereJumps DEF Current
<1> HIDE DEF y
<1>5. Where(prog, code, h, y, 1) = Src!Landing(prog, h[y])
  BY <1>1, <1>3, WhereBegins
<1>6. Position' = Position
  BY <1>2, <1>4, <1>5
<1>7. prog' = prog /\ prog \in Seq(Token)
  <2>1. prog' = prog
    BY DEF vars
  <2> QED
    BY <1>1, <2>1, FitsAt
<1> QED
  BY <1>2, <1>6, <1>7, SrcSkips

(* The texts a statement creates and releases.                             *)
LEMMA RefinesText ==
  ASSUME NEW h, NEW t, OnPath(h, t), OnPath(h, t)',
         UNCHANGED vars, ExecuteNew \/ ExecuteFree,
         Position = Where(prog, code, h, blk, ip), Position' = Where(prog, code, h, blk', ip')
  PROVE  [Src!Next]_(Src!vars)
<1>1. Fits(h) /\ blk \in placed /\ ip \in 1..Len(code[blk])
  BY DEF OnPath, Path
<1>2. /\ status = "running" /\ status' = "running" /\ code[blk][ip].op \in {"new", "free"}
      /\ blk' = blk /\ ip' = ip + 1 /\ taken' = taken
  BY DEF ExecuteNew, ExecuteFree, Running, Advance, Current
<1>3. ip + 1 \in 1..Len(code[blk])
  <2>1. Current.op \in {"op", "new", "free"}
    BY <1>2 DEF Current
  <2> QED
    BY <2>1, PathAdvances
<1>4. \/ Position' = Position
      \/ Position = 0 /\ Position' = Src!Landing(prog, 1)
  BY <1>1, <1>2, <1>3, WhereNext
<1>5. prog' = prog /\ prog \in Seq(Token) /\ Len(prog) \in Nat
  <2>1. prog' = prog
    BY DEF vars
  <2> QED
    BY <1>1, <2>1, FitsAt
<1>6. Src!Landing(prog, 1) # 0
  <2>1. 1 \in 1..(Len(prog) + 1)
    BY <1>5
  <2> QED
    BY <1>1, <2>1, FirstLanding
<1> QED
  BY <1>2, <1>4, <1>5, <1>6, SrcSkips

(* A statement runs.                                                       *)
LEMMA RefinesOp ==
  ASSUME NEW h, NEW t, OnPath(h, t), OnPath(h, t)',
         UNCHANGED vars, ExecuteOp,
         Position = Where(prog, code, h, blk, ip), Position' = Where(prog, code, h, blk', ip')
  PROVE  [Src!Next]_(Src!vars)
<1>1. Fits(h) /\ blk \in placed /\ ip \in 1..Len(code[blk])
  BY DEF OnPath, Path
<1>2. /\ status = "running" /\ status' = "running" /\ code[blk][ip].op = "op"
      /\ blk' = blk /\ ip' = ip + 1 /\ taken' = taken
  BY DEF ExecuteOp, Running, Advance, Current
<1>3. ip + 1 \in 1..Len(code[blk])
  <2>1. Current.op \in {"op", "new", "free"}
    BY <1>2 DEF Current
  <2> QED
    BY <2>1, PathAdvances
<1>4. /\ Position \in 1..Len(prog) /\ prog[Position].tok = "op"
      /\ Position' = Src!Landing(prog, Position + 1)
  BY <1>1, <1>2, <1>3, WhereNext
<1>5. prog' = prog /\ prog \in Seq(Token) /\ Len(prog) \in Nat
  <2>1. prog' = prog
    BY DEF vars
  <2> QED
    BY <1>1, <2>1, FitsAt
<1>6. Position' # 0 /\ Position > 0
  <2>1. Position + 1 \in 1..(Len(prog) + 1) /\ Position > 0
    BY <1>4, <1>5
  <2>2. Src!Landing(prog, Position + 1) \in Nat \ {0}
    BY <1>1, <2>1, FirstLanding
  <2> QED
    BY <1>4, <2>1, <2>2
<1>7. SrcAt = Position /\ SrcProg = prog /\ SrcAt' = Position' /\ SrcProg' = prog
  BY <1>2, <1>5, <1>6, SrcRunning
<1>8. ~Src!IsTest(prog, Position) /\ ~Src!IsReturn(prog, Position)
  BY <1>4, <1>5 DEF Src!IsTest, Src!IsReturn, Src!Tested
<1> QED
  BY <1>2, <1>4, <1>6, <1>7, <1>8, SrcStatement

(* Where a test leads is a position of the stream or the one behind it.    *)
LEMMA BranchIn ==
  ASSUME LoopKinds \subseteq {"while", "times"}, NEW h, Fits(h),
         NEW b \in placed, NEW k \in 1..Len(code[b]), code[b][k].op = "condbr"
  PROVE  h[code[b][k].yes] \in 1..(Len(prog) + 1) /\ h[code[b][k].no] \in 1..(Len(prog) + 1)
<1> DEFINE i == At(code[b], h[b], k)
           x == code[b][k]
<1>1. /\ i \in 1..Len(prog) /\ h[x.yes] = i + 1 /\ Skips(prog, i, h[x.no])
  BY TestAt
<1>2. prog \in Seq(Token) /\ StreamOK(prog, <<>>)
  BY FitsAt
<1> HIDE DEF i, x
<1>3. h[x.no] \in 1..(Len(prog) + 1)
  BY <1>1, <1>2, LandingSkips
<1>4. h[x.yes] \in 1..(Len(prog) + 1)
  BY <1>1, <1>2
<1> QED
  BY <1>3, <1>4 DEF x

(* A test comes out either way.                                            *)
LEMMA RefinesTest ==
  ASSUME LoopKinds \subseteq {"while", "times"}, NEW h, NEW t, OnPath(h, t), OnPath(h, t)',
         UNCHANGED vars, NEW outcome \in BOOLEAN, ExecuteCondBr(outcome),
         Position = Where(prog, code, h, blk, ip), Position' = Where(prog, code, h, blk', ip')
  PROVE  [Src!Next]_(Src!vars)
<1> DEFINE y == IF outcome THEN Current.yes ELSE Current.no
<1>1. Fits(h) /\ blk \in placed /\ ip \in 1..Len(code[blk])
  BY DEF OnPath, Path
<1>2. /\ status = "running" /\ status' = "running" /\ code[blk][ip].op = "condbr"
      /\ blk' = y /\ ip' = 1 /\ taken' = outcome
  BY DEF ExecuteCondBr, Running, Goto, Current
<1>3. y \in placed \ {Entry} /\ 1 \in 1..Len(code[y])
  <2>1. Current.op \in {"br", "condbr"} /\ Current.op # "br" /\ y \in {Current.yes, Current.no}
    BY <1>2 DEF Current
  <2> HIDE DEF y
  <2> QED
    BY <2>1, PathBranches
<1>4. /\ Position \in 1..Len(prog) /\ prog[Position].tok \in {"if"} \cup Tested
      /\ Src!Landing(prog, h[y]) = IF outcome THEN Src!WhenTrue(prog, Position)
                                              ELSE Src!WhenFalse(prog, Position)
  BY <1>1, <1>2, WhereTests DEF Current
<1> HIDE DEF y
<1>5. Position' = Src!Landing(prog, h[y])
  BY <1>1, <1>2, <1>3, WhereBegins
<1>6. prog' = prog /\ prog \in Seq(Token) /\ Len(prog) \in Nat
  <2>1. prog' = prog
    BY DEF vars
  <2> QED
    BY <1>1, <2>1, FitsAt
<1>7. Position' # 0 /\ Position > 0
  <2>1. h[y] \in 1..(Len(prog) + 1)
    BY <1>1, <1>2, BranchIn DEF y, Current
  <2>2. Src!Landing(prog, h[y]) \in Nat \ {0}
    BY <1>1, <2>1, FirstLanding
  <2> QED
    BY <1>4, <1>5, <2>2
<1>8. SrcAt = Position /\ SrcProg = prog /\ SrcAt' = Position' /\ SrcProg' = prog
  BY <1>2, <1>6, <1>7, SrcRunning
<1>9. Src!IsTest(prog, Position)
  BY <1>4, <1>6 DEF Src!IsTest, Src!Tested, Tested
<1>10. SrcAt' = IF taken' THEN Src!WhenTrue(SrcProg, SrcAt) ELSE Src!WhenFalse(SrcProg, SrcAt)
  BY <1>2, <1>4, <1>5, <1>8
<1> QED
  BY <1>2, <1>7, <1>8, <1>9, <1>10, SrcTest

(* The sub returns.                                                        *)
LEMMA RefinesRet ==
  ASSUME NEW h, NEW t, OnPath(h, t), ExecuteRet, Position = Where(prog, code, h, blk, ip)
  PROVE  [Src!Next]_(Src!vars)
<1>1. Fits(h) /\ blk \in placed /\ ip \in 1..Len(code[blk])
  BY DEF OnPath, Path
<1>2. /\ status = "running" /\ status' = "halted" /\ code[blk][ip].op = "ret"
      /\ taken' = taken /\ prog' = prog
  BY DEF ExecuteRet, Running, Current, vars
<1>3. Position \in 1..(Len(prog) + 1) /\ Src!IsReturn(prog, Position)
  BY <1>1, <1>2, WhereReturns
<1>4. Position > 0 /\ Position # 0
  <2>1. Len(prog) \in Nat
    BY <1>1, FitsAt
  <2> QED
    BY <1>3, <2>1
<1>5. SrcAt = Position /\ SrcProg = prog
  BY <1>2, <1>4, SrcRunning
<1>6. SrcAt' = -1 /\ SrcProg' = prog
  BY <1>2 DEF SrcAt, SrcProg
<1> QED
  BY <1>2, <1>3, <1>4, <1>5, <1>6, SrcReturn

(* A call loads the sub, unless it first sets up its locals.               *)
LEMMA RefinesCall ==
  ASSUME CompiledInv, CallInv, PosInv', Call
  PROVE  [Src!Next]_(Src!vars)
<1>1. PICK h, t : OnPath(h, t)'
  BY CallPath
<1>2. /\ status = "compiling" /\ status' = "running" /\ taken' = taken
      /\ prog' = prog /\ code' = code /\ placed' = placed /\ blk' = Entry /\ ip' = 1
  BY DEF Call, CallInv, vars
<1>3. Position' = Where(prog, code, h, Entry, 1)
  BY <1>1, <1>2 DEF PosInv
<1>4. /\ Fits(h) /\ Entry \in placed /\ 1 \in 1..Len(code[Entry])
  <2>1. /\ frames' = frames /\ insert' = insert /\ phase' = phase /\ created' = created
        /\ retType' = retType /\ current' = current /\ hasReturn' = hasReturn /\ frees' = frees
    BY DEF Call, vars
  <2>2. Fits(h)
    BY <1>1, <1>2, <2>1 DEF OnPath, Fits, Fitted, TypeOK, ClosedBehind, EndsInTerminator,
                            TargetsPlaced, Targets
  <2>3. blk' \in placed' /\ ip' \in 1..Len(code'[blk'])
    BY <1>1 DEF OnPath, Path
  <2> QED
    BY <1>2, <2>2, <2>3
<1>5. h[Entry] = 1 /\ prog \in Seq(Token) /\ Len(prog) \in Nat
  BY <1>4, FitsAt
<1>6. Position' = 0 \/ Position' = Src!Landing(prog, 1)
  BY <1>3, <1>4, <1>5, WhereBegins
<1>7. Src!Landing(prog, 1) # 0
  <2>1. 1 \in 1..(Len(prog) + 1)
    BY <1>5
  <2> QED
    BY <1>4, <2>1, FirstLanding
<1>8. SrcAt = 0 /\ SrcProg = <<>>
  BY <1>2 DEF SrcAt, SrcProg
<1>9. SrcAt' = Position' /\ SrcProg' = IF Position' = 0 THEN <<>> ELSE prog
  BY <1>2, SrcRunning
<1>10. CASE Position' = 0
  BY <1>2, <1>8, <1>9, <1>10, SrcStutter
<1>11. CASE Position' # 0
  <2>1. SrcProg' = prog /\ SrcAt' = Src!Landing(SrcProg', 1)
    BY <1>6, <1>9, <1>11
  <2> QED
    BY <1>2, <1>5, <1>8, <2>1, SrcLoad
<1> QED
  BY <1>10, <1>11

(* Every step of the run is one of StructuredProgram, or none.             *)
LEMMA RefinesStep ==
  ASSUME LoopKinds \subseteq {"while", "times"},
         CompiledInv, CallInv, PathInv, PosInv, PosInv', [NextRun]_allvars
  PROVE  [Src!Next]_(Src!vars)
<1>1. CASE Compile
  <2>1. status = "compiling" /\ status' = status /\ taken' = taken
    BY <1>1, CompileRuns DEF ivars
  <2>2. SrcAt' = SrcAt /\ SrcProg' = SrcProg
    BY <2>1 DEF SrcAt, SrcProg
  <2> QED
    BY <2>1, <2>2, SrcStutter
<1>2. CASE Call
  BY <1>2, RefinesCall
<1>3. ASSUME NEW h, NEW t, OnPath(h, t), OnPath(h, t)', UNCHANGED vars
      PROVE  /\ Position = Where(prog, code, h, blk, ip)
             /\ Position' = Where(prog, code, h, blk', ip')
  <2>1. prog' = prog /\ code' = code
    BY <1>3 DEF vars
  <2>2. Position = Where(prog, code, h, blk, ip)
    BY <1>3 DEF PosInv
  <2>3. Position' = Where(prog', code', h, blk', ip')
    BY <1>3 DEF PosInv
  <2> QED
    BY <2>1, <2>2, <2>3
<1>4. CASE Execute
  <2>1. PICK h, t : OnPath(h, t)
    BY <1>4, RunsAre DEF PathInv
  <2>2. CASE status' = "running"
    <3>1. OnPath(h, t)' /\ UNCHANGED vars
      BY <1>4, <2>1, <2>2, PathStep
    <3>2. /\ Position = Where(prog, code, h, blk, ip)
          /\ Position' = Where(prog, code, h, blk', ip')
      BY <1>3, <2>1, <3>1
    <3>3. CASE ExecuteOp
      BY <2>1, <3>1, <3>2, <3>3, RefinesOp
    <3>4. CASE ExecuteNew \/ ExecuteFree
      BY <2>1, <3>1, <3>2, <3>4, RefinesText
    <3>5. CASE ExecuteBr
      BY <2>1, <3>1, <3>2, <3>5, RefinesBr
    <3>6. CASE \E outcome \in BOOLEAN : ExecuteCondBr(outcome)
      BY <2>1, <3>1, <3>2, <3>6, RefinesTest
    <3>7. ~ExecuteRet /\ ~FallOffBlock
      BY <2>2 DEF ExecuteRet, FallOffBlock
    <3> QED
      BY <1>4, <3>3, <3>4, <3>5, <3>6, <3>7 DEF Execute
  <2>3. CASE status' # "running"
    <3>1. ExecuteRet
      BY <1>4, <2>1, <2>3, PathStep
    <3>2. Position = Where(prog, code, h, blk, ip)
      BY <2>1 DEF PosInv
    <3> QED
      BY <2>1, <3>1, <3>2, RefinesRet
  <2> QED
    BY <2>2, <2>3
<1>5. CASE UNCHANGED allvars
  <2>1. /\ UNCHANGED vars /\ status' = status /\ taken' = taken /\ prog' = prog
        /\ blk' = blk /\ ip' = ip
    BY <1>5 DEF allvars, ivars, vars
  <2>2. CASE status = "running"
    <3>1. PICK h, t : OnPath(h, t)
      BY <2>2 DEF PathInv
    <3>2. OnPath(h, t)'
      BY <1>5, <3>1, OnPathSame
    <3>3. Position' = Position
      BY <1>3, <2>1, <3>1, <3>2
    <3>4. SrcAt' = SrcAt /\ SrcProg' = SrcProg
      BY <2>1, <2>2, <3>3, SrcRunning
    <3> QED
      BY <2>1, <3>4, SrcStutter
  <2>3. CASE status # "running"
    <3>1. SrcAt' = SrcAt /\ SrcProg' = SrcProg
      BY <2>1, <2>3 DEF SrcAt, SrcProg
    <3> QED
      BY <2>1, <3>1, SrcStutter
  <2> QED
    BY <2>2, <2>3
<1>6. CASE Stopped
  BY <1>5, <1>6 DEF Stopped
<1> QED
  BY <1>1, <1>2, <1>4, <1>5, <1>6 DEF NextRun

(* For every sub whose loops test first and that cannot fall off its end,  *)
(* of any length and nesting and with returns anywhere, a run of the       *)
(* emitted blocks is a run of the source: the statements run in source     *)
(* order, each test is followed by the branch it selects, loops return to  *)
(* their test, and the code behind an if or a loop is reached from every   *)
(* way out of it (visit(ASTIfStmt), visit(ASTLoop), Return).               *)
THEOREM RunsTheSourceCorrect ==
  ASSUME LoopKinds \subseteq {"while", "times"}, "fallOff" \notin Shapes
  PROVE  SpecRun => RunsTheSource
<1>1. InitRun => Src!Init
  <2> SUFFICES ASSUME InitRun PROVE Src!Init
    OBVIOUS
  <2>1. status = "compiling" /\ taken = FALSE
    BY DEF InitRun
  <2>2. SrcProg = <<>> /\ SrcAt = 0
    BY <2>1 DEF SrcProg, SrcAt
  <2> QED
    BY <2>1, <2>2, SrcInit
<1>2. CompiledInv /\ CallInv /\ PathInv /\ PosInv /\ PosInv' /\ [NextRun]_allvars
      => [Src!Next]_(Src!vars)
  BY RefinesStep
<1>3. SpecRun => []CompiledInv
  <2>1. Spec => []CompiledInv
    BY CompiledHolds
  <2> QED
    BY <2>1, RunIsSpec, PTL
<1>4. PosInv
  BY PositionIs DEF PosInv
<1>5. SpecRun => []PathInv
  BY PathHolds
<1>6. SpecRun => Src!Spec
  BY <1>1, <1>2, <1>3, <1>4, <1>5, CallHolds, PTL DEF SpecRun, Src!Spec
<1> QED
  BY <1>6 DEF RunsTheSource
=============================================================================
