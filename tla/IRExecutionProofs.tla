-------------------------- MODULE IRExecutionProofs --------------------------
(***************************************************************************)
(* Theorems about the texts a compiled sub owns, for subs of any length,   *)
(* with any ifs, loops and returns, and for every run of them.             *)
(*                                                                         *)
(* The argument is that of a data flow analysis.  Each block b has a set   *)
(* lo[b] of texts that are live whenever a run enters it and a set hi[b]   *)
(* of the only ones that may be.  The first part shows that the emitter    *)
(* never emits a branch, a release or a return that these sets do not      *)
(* allow; the second that a run stays between them.                        *)
(***************************************************************************)
EXTENDS IRExecution, EmitterProofs

-----------------------------------------------------------------------------
(* The texts of a sub, and those that every path through it creates.       *)
Locals == {-l : l \in 1..TextLocals}
Queued == {frees[k] : k \in 1..Len(frees)}
Texts == Queued \cup Locals
Owned == {s \in Queued : Nesting(prog, s) = 0} \cup Locals

(* The slots that instructions op in front of position k of s name.        *)
SlotsTo(s, op, k) == {s[j].slot : j \in {i \in 1..(k - 1) : s[i].op = op}}
RetFree(s, k) == \A j \in 1..(k - 1) : s[j].op # "ret"

(* Where a branch may go.                                                  *)
Ways(x) == {x.yes} \cup (IF x.op = "condbr" THEN {x.no} ELSE {})

(* What instruction x asks when the texts in live, but not those in freed, *)
(* are live, no others than may are, and freed have been released in its   *)
(* block.  own are the texts that every path creates, n blocks have been   *)
(* created.                                                                *)
InstrOK(x, live, may, freed, own, lo, hi, n) ==
  /\ x.op = "free" => (x.slot \in own => x.slot \in live \ freed)
  /\ x.op = "new" => x.slot \notin freed
  /\ x.op \in {"br", "condbr"} =>
       /\ freed = {}
       /\ \A c \in Ways(x) :
            c \in 1..n /\ lo[c] \subseteq live /\ may \cap own \subseteq hi[c]
  /\ x.op = "ret" =>
       /\ may \cap own \subseteq freed \cup {x.slot}
       /\ x.slot > 0 => x.slot \in live \ freed
       /\ x.slot < 0 => "local" \in RetValues

(* No code behind a return runs.                                           *)
SeqOK(s, live, may, freed, own, lo, hi, n) ==
  \A k \in 1..Len(s) : RetFree(s, k) =>
    InstrOK(s[k], live \cup SlotsTo(s, "new", k), may \cup SlotsTo(s, "new", k),
            freed \cup SlotsTo(s, "free", k), own, lo, hi, n)

Known(s, T) == \A k \in 1..Len(s) : s[k].op \in {"new", "free"} => s[k].slot \in T

(* frees has no text twice, and none of a node that has not been visited.  *)
FreesInv ==
  /\ Queued \subseteq 1..Len(prog)
  /\ \A j, k \in 1..Len(frees) : j # k => frees[j] # frees[k]

(* What the builder adds to: all texts that every path creates have been   *)
(* created, and none has been released unless the sub returns.             *)
Ended(s) == Len(s) + 1
BuilderOK(lo) ==
  LET s == code[insert] IN
  /\ Owned \subseteq lo[insert] \cup SlotsTo(s, "new", Ended(s))
  /\ RetFree(s, Ended(s)) => SlotsTo(s, "free", Ended(s)) = {}

(* The blocks a frame will branch to, place or both.                       *)
Named(f) == {f.leave} \cup (IF f.kind = "then" THEN {f.els} ELSE {})
                      \cup (IF f.kind \in AllLoopKinds THEN {f.cond, f.body} ELSE {})
FramesOwn(lo, hi) ==
  \A d \in 1..Len(frames) :
    /\ \A c \in Named(frames[d]) : Owned \subseteq hi[c]
    /\ \A c \in Pending(frames[d]) : Owned \subseteq lo[c]
    /\ frames[d].kind \in AllLoopKinds => frames[d].cond # frames[d].leave

Emitted(lo, hi) ==
  /\ lo \in [Blocks -> SUBSET Owned] /\ hi \in [Blocks -> SUBSET Owned]
  /\ lo[Entry] = {} /\ hi[Entry] = {}
  /\ \A b \in 1..created : SeqOK(code[b], lo[b], hi[b], {}, Owned, lo, hi, created)
  /\ \A b \in Blocks : Known(code[b], Texts)
  /\ FreesInv
  /\ phase = "visit" => BuilderOK(lo)
  /\ FramesOwn(lo, hi)

(* A run between lo and hi.                                                *)
Between(lo, hi) ==
  status \in {"running", "halted"} =>
    LET s == code[blk]
        freed == SlotsTo(s, "free", ip)
    IN
    /\ blk \in 1..created /\ ip \in 1..Ended(s)
    /\ RetFree(s, ip)
    /\ status = "halted" => ip \in 1..Len(s) /\ s[ip].op = "ret"
    /\ mem \in [Slots -> {"raw", "live", "dead"}]
    /\ \A t \in Slots :
         /\ mem[t] # "raw" => t \in Texts
         /\ t \in (lo[blk] \cup SlotsTo(s, "new", ip)) \ freed => mem[t] = "live"
         /\ mem[t] = "live" /\ t \in Owned
              => t \in (hi[blk] \cup SlotsTo(s, "new", ip)) \ freed

TextInv == \E lo, hi : Emitted(lo, hi) /\ Between(lo, hi)

-----------------------------------------------------------------------------
(* Compiling is what Emitter does; a run changes nothing of it.            *)
LEMMA RunIsSpec == SpecRun => Spec
<1>1. InitRun => Init
  BY DEF InitRun
<1>2. [NextRun]_allvars => [Next]_vars
  BY DEF NextRun, Compile, Next, Call, Execute, ExecuteOp, ExecuteNew, ExecuteFree,
         ExecuteBr, ExecuteCondBr, ExecuteRet, FallOffBlock, Stopped, allvars, vars
<1> QED
  BY <1>1, <1>2, PTL DEF SpecRun, Spec

-----------------------------------------------------------------------------
(* The slots that the front of a sequence names.                           *)
LEMMA SlotsIn ==
  ASSUME NEW s, NEW op, NEW k, NEW j \in 1..(k - 1), s[j].op = op
  PROVE  s[j].slot \in SlotsTo(s, op, k)
BY DEF SlotsTo

LEMMA SlotsPick ==
  ASSUME NEW s, NEW op, NEW k, NEW t \in SlotsTo(s, op, k)
  PROVE  \E j \in 1..(k - 1) : s[j].op = op /\ s[j].slot = t
BY DEF SlotsTo

LEMMA SlotsAtStart ==
  ASSUME NEW s
  PROVE  /\ \A op : SlotsTo(s, op, 1) = {}
         /\ RetFree(s, 1)
<1>1. \A j : j \notin 1..(1 - 1)
  OBVIOUS
<1> QED
  BY <1>1 DEF SlotsTo, RetFree

(* One more instruction.                                                   *)
LEMMA SlotsNext ==
  ASSUME NEW s, NEW k \in Nat \ {0}
  PROVE  /\ s[k].op # "ret" => (RetFree(s, k) => RetFree(s, k + 1))
         /\ \A op : SlotsTo(s, op, k + 1) =
                      SlotsTo(s, op, k) \cup (IF s[k].op = op THEN {s[k].slot} ELSE {})
<1>1. \A j : j \in 1..((k + 1) - 1) <=> j \in 1..(k - 1) \/ j = k
  OBVIOUS
<1>2. s[k].op # "ret" => (RetFree(s, k) => RetFree(s, k + 1))
  BY <1>1 DEF RetFree
<1>3. ASSUME NEW op
      PROVE  SlotsTo(s, op, k + 1) =
               SlotsTo(s, op, k) \cup (IF s[k].op = op THEN {s[k].slot} ELSE {})
  BY <1>1 DEF SlotsTo
<1> QED
  BY <1>2, <1>3

(* A sequence and one behind it.                                           *)
LEMMA ConcatTo ==
  ASSUME NEW s \in Seq(Instrs), NEW t \in Seq(Instrs)
  PROVE  /\ Len(s \o t) = Len(s) + Len(t)
         /\ \A k \in 1..Ended(s) :
              /\ RetFree(s \o t, k) <=> RetFree(s, k)
              /\ \A op : SlotsTo(s \o t, op, k) = SlotsTo(s, op, k)
         /\ \A k \in 1..Ended(t) :
              /\ RetFree(s \o t, Len(s) + k) <=> RetFree(s, Ended(s)) /\ RetFree(t, k)
              /\ \A op : SlotsTo(s \o t, op, Len(s) + k) =
                           SlotsTo(s, op, Ended(s)) \cup SlotsTo(t, op, k)
<1> DEFINE u == s \o t
           n == Len(s)
           m == Len(t)
<1>1. /\ n \in Nat /\ m \in Nat /\ Len(u) = n + m
      /\ \A i \in 1..(n + m) : u[i] = IF i <= n THEN s[i] ELSE t[i - n]
  BY ConcatProperties
<1>2. Ended(s) = n + 1 /\ Ended(t) = m + 1
  BY DEF Ended
<1> HIDE DEF u, n, m
<1>3. \A i \in 1..n : u[i] = s[i]
  BY <1>1
<1>4. \A i \in 1..m : u[n + i] = t[i]
  <2> SUFFICES ASSUME NEW i \in 1..m PROVE u[n + i] = t[i]
    OBVIOUS
  <2>1. n + i \in 1..(n + m) /\ ~(n + i <= n) /\ (n + i) - n = i
    BY <1>1
  <2> QED
    BY <1>1, <2>1
<1>5. ASSUME NEW k \in 1..(n + 1)
      PROVE  /\ RetFree(u, k) <=> RetFree(s, k)
             /\ \A op : SlotsTo(u, op, k) = SlotsTo(s, op, k)
  <2>1. \A j \in 1..(k - 1) : j \in 1..n
    BY <1>1
  <2> QED
    BY <1>3, <2>1 DEF RetFree, SlotsTo
<1>6. ASSUME NEW k \in 1..(m + 1)
      PROVE  /\ RetFree(u, n + k) <=> RetFree(s, n + 1) /\ RetFree(t, k)
             /\ \A op : SlotsTo(u, op, n + k) = SlotsTo(s, op, n + 1) \cup SlotsTo(t, op, k)
  <2>1. \A j \in 1..(k - 1) : j \in 1..m /\ n + j \in 1..((n + k) - 1)
    BY <1>1
  <2>2. \A j \in 1..((n + 1) - 1) : j \in 1..n /\ j \in 1..((n + k) - 1)
    BY <1>1
  <2>3. \A j \in 1..((n + k) - 1) :
          j \in 1..((n + 1) - 1) \/ (j - n \in 1..(k - 1) /\ n + (j - n) = j)
    BY <1>1
  <2>4. RetFree(u, n + k) <=> RetFree(s, n + 1) /\ RetFree(t, k)
    <3>1. ASSUME RetFree(u, n + k) PROVE RetFree(s, n + 1) /\ RetFree(t, k)
      BY <1>3, <1>4, <2>1, <2>2, <3>1 DEF RetFree
    <3>2. ASSUME RetFree(s, n + 1), RetFree(t, k), NEW j \in 1..((n + k) - 1)
          PROVE  u[j].op # "ret"
      <4>1. CASE j \in 1..((n + 1) - 1)
        BY <1>3, <2>2, <3>2, <4>1 DEF RetFree
      <4>2. CASE j - n \in 1..(k - 1) /\ n + (j - n) = j
        <5>1. u[n + (j - n)] = t[j - n]
          BY <1>4, <2>1, <4>2
        <5> QED
          BY <3>2, <4>2, <5>1 DEF RetFree
      <4> QED
        BY <2>3, <4>1, <4>2
    <3> QED
      BY <3>1, <3>2 DEF RetFree
  <2>5. ASSUME NEW op
        PROVE  SlotsTo(u, op, n + k) = SlotsTo(s, op, n + 1) \cup SlotsTo(t, op, k)
    <3>1. ASSUME NEW x \in SlotsTo(u, op, n + k)
          PROVE  x \in SlotsTo(s, op, n + 1) \cup SlotsTo(t, op, k)
      <4>1. PICK j \in 1..((n + k) - 1) : u[j].op = op /\ u[j].slot = x
        BY <3>1, SlotsPick
      <4>2. CASE j \in 1..((n + 1) - 1)
        <5>1. u[j] = s[j]
          BY <1>3, <2>2, <4>2
        <5> QED
          BY <4>1, <4>2, <5>1, SlotsIn
      <4>3. CASE j - n \in 1..(k - 1) /\ n + (j - n) = j
        <5>1. u[n + (j - n)] = t[j - n]
          BY <1>4, <2>1, <4>3
        <5> QED
          BY <4>1, <4>3, <5>1, SlotsIn
      <4> QED
        BY <2>3, <4>2, <4>3
    <3>2. ASSUME NEW x \in SlotsTo(s, op, n + 1) PROVE x \in SlotsTo(u, op, n + k)
      <4>1. PICK j \in 1..((n + 1) - 1) : s[j].op = op /\ s[j].slot = x
        BY <3>2, SlotsPick
      <4>2. u[j] = s[j] /\ j \in 1..((n + k) - 1)
        BY <1>3, <2>2
      <4> QED
        BY <4>1, <4>2, SlotsIn
    <3>3. ASSUME NEW x \in SlotsTo(t, op, k) PROVE x \in SlotsTo(u, op, n + k)
      <4>1. PICK j \in 1..(k - 1) : t[j].op = op /\ t[j].slot = x
        BY <3>3, SlotsPick
      <4>2. u[n + j] = t[j] /\ n + j \in 1..((n + k) - 1)
        BY <1>4, <2>1
      <4> QED
        BY <4>1, <4>2, SlotsIn
    <3> QED
      BY <3>1, <3>2, <3>3
  <2> QED
    BY <2>4, <2>5
<1> QED
  BY <1>1, <1>2, <1>5, <1>6 DEF u, n, m

-----------------------------------------------------------------------------
(* A run stays between lo and hi.                                          *)
LEMMA TextsAreSlots ==
  ASSUME TypeOK, FreesInv
  PROVE  /\ Texts \subseteq Slots /\ Owned \subseteq Texts
         /\ \A t \in Texts : t < 0 \/ t \in 1..Len(prog)
<1>1. Len(prog) \in Nat /\ TextLocals \in Nat
  BY HereTypes, TextLocalsAssumption
<1>2. \A l \in 1..TextLocals : -l \in (-TextLocals)..(Len(prog) + 1) /\ -l < 0
  BY <1>1
<1>3. \A t \in 1..Len(prog) : t \in (-TextLocals)..(Len(prog) + 1)
  BY <1>1
<1> QED
  BY <1>2, <1>3 DEF Texts, Owned, Locals, Slots, FreesInv

LEMMA AtInstr ==
  ASSUME TypeInv, NEW lo, NEW hi, Emitted(lo, hi), Between(lo, hi),
         status = "running", ~AtEnd
  PROVE  LET s == code[blk] IN
         /\ s \in Seq(Instrs) /\ ip \in 1..Len(s) /\ Current \in Instrs /\ Current = s[ip]
         /\ InstrOK(Current, lo[blk] \cup SlotsTo(s, "new", ip),
                    hi[blk] \cup SlotsTo(s, "new", ip), SlotsTo(s, "free", ip),
                    Owned, lo, hi, created)
         /\ Current.op \in {"new", "free"} => Current.slot \in Texts
         /\ blk \in Blocks
<1> DEFINE s == code[blk]
<1>1. blk \in 1..created /\ ip \in 1..Ended(s) /\ RetFree(s, ip)
  BY DEF Between
<1>2. blk \in Blocks
  <2>1. created \in 1..MaxBlocks /\ MaxBlocks \in Nat
    BY BlocksFacts DEF TypeInv, TypeOK, Blocks
  <2> QED
    BY <1>1, <2>1 DEF Blocks
<1>3. s \in Seq(Instrs)
  BY <1>2 DEF TypeInv, TypeOK
<1>4. ip \in 1..Len(s)
  BY <1>1, <1>3 DEF AtEnd, Ended
<1>5. Current = s[ip]
  BY DEF Current
<1>6. SeqOK(s, lo[blk], hi[blk], {}, Owned, lo, hi, created) /\ Known(s, Texts)
  BY <1>1, <1>2 DEF Emitted
<1> HIDE DEF s
<1>7. InstrOK(s[ip], lo[blk] \cup SlotsTo(s, "new", ip),
              hi[blk] \cup SlotsTo(s, "new", ip), {} \cup SlotsTo(s, "free", ip),
              Owned, lo, hi, created)
  BY <1>1, <1>4, <1>6 DEF SeqOK
<1>8. {} \cup SlotsTo(s, "free", ip) = SlotsTo(s, "free", ip)
  OBVIOUS
<1>9. s[ip].op \in {"new", "free"} => s[ip].slot \in Texts
  BY <1>4, <1>6 DEF Known
<1>10. s[ip] \in Instrs
  BY <1>3, <1>4, ElementOfSeq
<1> QED
  BY <1>2, <1>3, <1>4, <1>5, <1>7, <1>8, <1>9, <1>10 DEF s

(* What Between says, in terms that a step of the run moves.               *)
Bounds(m, live, may, freed) ==
  \A t \in Slots :
    /\ m[t] # "raw" => t \in Texts
    /\ t \in live \ freed => m[t] = "live"
    /\ m[t] = "live" /\ t \in Owned => t \in may \ freed

LEMMA BetweenMoves ==
  ASSUME NEW lo, NEW hi, UNCHANGED vars,
         blk' \in 1..created, ip' \in 1..Ended(code[blk']), RetFree(code[blk'], ip'),
         status' = "running", mem' \in [Slots -> {"raw", "live", "dead"}],
         Bounds(mem', lo[blk'] \cup SlotsTo(code[blk'], "new", ip'),
                hi[blk'] \cup SlotsTo(code[blk'], "new", ip'),
                SlotsTo(code[blk'], "free", ip'))
  PROVE  Between(lo, hi)'
<1>1. Slots' = Slots /\ Texts' = Texts /\ Owned' = Owned /\ code' = code
      /\ created' = created
  BY DEF vars, Slots, Texts, Owned, Queued, Locals, Nesting, Earlier
<1> QED
  BY <1>1 DEF Between, Bounds

(* An instruction that is no branch and no return.                         *)
LEMMA BetweenAdvances ==
  ASSUME TypeInv, NEW lo, NEW hi, Emitted(lo, hi), Between(lo, hi),
         NEW op \in {"op", "new", "free"}, Running(op), Advance,
         UNCHANGED <<vars, status>>,
         mem' = CASE op = "op" -> mem
                  [] op = "new" -> [mem EXCEPT ![Current.slot] = "live"]
                  [] op = "free" -> [mem EXCEPT ![Current.slot] = "dead"]
  PROVE  Between(lo, hi)'
<1> DEFINE s == code[blk]
           x == Current
           L == lo[blk]
           H == hi[blk]
           F == SlotsTo(s, "free", ip)
           N == SlotsTo(s, "new", ip)
<1>1. status = "running" /\ ~AtEnd /\ x.op = op
  BY DEF Running
<1>2. /\ s \in Seq(Instrs) /\ ip \in 1..Len(s) /\ x = s[ip]
      /\ InstrOK(x, L \cup N, H \cup N, F, Owned, lo, hi, created)
      /\ op \in {"new", "free"} => x.slot \in Texts
  BY <1>1, AtInstr
<1>3. /\ blk \in 1..created /\ RetFree(s, ip)
      /\ mem \in [Slots -> {"raw", "live", "dead"}]
      /\ Bounds(mem, L \cup N, H \cup N, F)
  BY <1>1 DEF Between, Bounds
<1>4. /\ blk' = blk /\ ip' = ip + 1 /\ ip + 1 \in 1..Ended(s) /\ ip \in Nat \ {0}
      /\ Len(s) \in Nat
  BY <1>2 DEF Advance, Ended
<1>5. Texts \subseteq Slots
  BY TextsAreSlots DEF Emitted, TypeInv
<1> DEFINE N2 == SlotsTo(s, "new", ip + 1)
           F2 == SlotsTo(s, "free", ip + 1)
<1>6. /\ RetFree(s, ip + 1)
      /\ N2 = N \cup (IF op = "new" THEN {x.slot} ELSE {})
      /\ F2 = F \cup (IF op = "free" THEN {x.slot} ELSE {})
  BY <1>1, <1>2, <1>3, <1>4, SlotsNext
<1>7. op = "new" => x.slot \notin F
  BY <1>1, <1>2 DEF InstrOK
<1> HIDE DEF s, x, L, H, F, N, N2, F2
<1>8. mem' \in [Slots -> {"raw", "live", "dead"}]
  BY <1>3
<1>9. Bounds(mem', L \cup N2, H \cup N2, F2)
  <2> SUFFICES ASSUME NEW t \in Slots
               PROVE  /\ mem'[t] # "raw" => t \in Texts
                      /\ t \in (L \cup N2) \ F2 => mem'[t] = "live"
                      /\ mem'[t] = "live" /\ t \in Owned => t \in (H \cup N2) \ F2
    BY DEF Bounds
  <2>1. /\ mem[t] # "raw" => t \in Texts
        /\ t \in (L \cup N) \ F => mem[t] = "live"
        /\ mem[t] = "live" /\ t \in Owned => t \in (H \cup N) \ F
    BY <1>3 DEF Bounds
  <2>2. CASE op = "op"
    <3>1. mem' = mem /\ N2 = N /\ F2 = F
      BY <1>6, <2>2
    <3> QED
      BY <2>1, <3>1
  <2>3. CASE op = "new"
    <3>1. mem' = [mem EXCEPT ![x.slot] = "live"] /\ N2 = N \cup {x.slot} /\ F2 = F
      BY <1>6, <2>3 DEF x
    <3>2. mem'[t] = IF t = x.slot THEN "live" ELSE mem[t]
      BY <1>3, <3>1
    <3> QED
      BY <1>2, <1>7, <2>1, <2>3, <3>1, <3>2
  <2>4. CASE op = "free"
    <3>1. mem' = [mem EXCEPT ![x.slot] = "dead"] /\ N2 = N /\ F2 = F \cup {x.slot}
      BY <1>6, <2>4 DEF x
    <3>2. mem'[t] = IF t = x.slot THEN "dead" ELSE mem[t]
      BY <1>3, <3>1
    <3> QED
      BY <1>2, <2>1, <2>4, <3>1, <3>2
  <2> QED
    BY <2>2, <2>3, <2>4
<1> QED
  <2>1. UNCHANGED vars /\ status' = "running"
    BY <1>1
  <2>2. code[blk'] = s /\ lo[blk'] = L /\ hi[blk'] = H /\ ip' = ip + 1
    BY <1>4 DEF s, L, H
  <2> QED
    BY <1>3, <1>4, <1>6, <1>8, <1>9, <2>1, <2>2, BetweenMoves, ZenonT(60) DEF N2, F2

(* A branch.                                                               *)
LEMMA BetweenBranches ==
  ASSUME TypeInv, NEW lo, NEW hi, Emitted(lo, hi), Between(lo, hi),
         status = "running", ~AtEnd, Current.op \in {"br", "condbr"},
         NEW c \in Ways(Current), Goto(c), UNCHANGED <<vars, status, mem>>
  PROVE  Between(lo, hi)'
<1> DEFINE s == code[blk]
           L == lo[blk] \cup SlotsTo(s, "new", ip)
           H == hi[blk] \cup SlotsTo(s, "new", ip)
           F == SlotsTo(s, "free", ip)
<1>1. InstrOK(Current, L, H, F, Owned, lo, hi, created)
  BY AtInstr
<1>2. F = {} /\ c \in 1..created /\ lo[c] \subseteq L /\ H \cap Owned \subseteq hi[c]
  <2> HIDE DEF F, L, H
  <2> QED
    BY <1>1 DEF InstrOK
<1>3. mem \in [Slots -> {"raw", "live", "dead"}] /\ Bounds(mem, L, H, F)
  BY DEF Between, Bounds
<1> HIDE DEF L, H, F
<1>4. Bounds(mem, lo[c], hi[c], {})
  BY <1>2, <1>3 DEF Bounds
<1>5. c \in Blocks
  <2>1. created \in 1..MaxBlocks /\ MaxBlocks \in Nat
    BY BlocksFacts DEF TypeInv, TypeOK, Blocks
  <2> QED
    BY <1>2, <2>1 DEF Blocks
<1>6. 1 \in 1..Ended(code[c])
  <2>1. code[c] \in Seq(Instrs)
    BY <1>5 DEF TypeInv, TypeOK
  <2>2. Len(code[c]) \in Nat
    BY <2>1
  <2> QED
    BY <2>2 DEF Ended
<1>7. blk' = c /\ ip' = 1 /\ mem' = mem /\ status' = "running" /\ UNCHANGED vars
  BY DEF Goto
<1>8. /\ lo[c] \cup SlotsTo(code[c], "new", 1) = lo[c]
      /\ hi[c] \cup SlotsTo(code[c], "new", 1) = hi[c]
      /\ SlotsTo(code[c], "free", 1) = {} /\ RetFree(code[c], 1)
  BY SlotsAtStart
<1> QED
  BY <1>2, <1>3, <1>4, <1>6, <1>7, <1>8, BetweenMoves, SMTT(60)

(* A sub is called when it has been compiled, and at its entry.            *)
CallInv ==
  /\ status \in {"compiling", "running", "halted", "stuck"}
  /\ status = "compiling" => blk = Entry /\ ip = 1
  /\ status # "compiling" => phase = "done"

LEMMA CallHolds == SpecRun => []CallInv
<1>1. InitRun => CallInv
  BY DEF InitRun, CallInv
<1>2. CallInv /\ [NextRun]_allvars => CallInv'
  <2> SUFFICES ASSUME CallInv, [NextRun]_allvars PROVE CallInv'
    OBVIOUS
  <2>1. CASE Compile
    <3>1. phase = "visit" /\ UNCHANGED ivars
      BY <2>1 DEF Compile, Step, Statement, EnterIf, EnterElse, EndIf, EnterTestedLoop,
                  EnterOtherLoop, EndLoop, ReturnStatement, Finish, MayOpen, MayReturn
    <3> QED
      BY <3>1 DEF CallInv, ivars
  <2>2. CASE Call
    BY <2>2 DEF CallInv, Call, vars
  <2>3. CASE Execute
    <3>1. status = "running" /\ UNCHANGED vars /\ status' \in {"running", "halted", "stuck"}
      BY <2>3 DEF Execute, ExecuteOp, ExecuteNew, ExecuteFree, ExecuteBr, ExecuteCondBr,
                  ExecuteRet, FallOffBlock, Running
    <3> QED
      BY <3>1 DEF CallInv, vars
  <2>4. CASE Stopped \/ UNCHANGED allvars
    BY <2>4 DEF CallInv, Stopped, allvars, ivars, vars
  <2> QED
    BY <2>1, <2>2, <2>3, <2>4 DEF NextRun
<1> QED
  BY <1>1, <1>2, PTL DEF SpecRun

LEMMA EmittedStays ==
  ASSUME NEW lo, NEW hi, Emitted(lo, hi), UNCHANGED vars
  PROVE  Emitted(lo, hi)'
<1>1. Owned' = Owned /\ Texts' = Texts /\ Queued' = Queued
  BY DEF vars, Owned, Texts, Queued, Locals, Nesting, Earlier
<1>2. /\ FreesInv' /\ FramesOwn(lo, hi)' /\ (BuilderOK(lo) => BuilderOK(lo)')
      /\ code' = code /\ created' = created /\ phase' = phase
  BY <1>1 DEF vars, Emitted, FreesInv, FramesOwn, BuilderOK
<1> QED
  BY <1>1, <1>2 DEF Emitted

(* The run begins at the entry, where no text is live.                     *)
LEMMA BetweenCall ==
  ASSUME TypeInv, CallInv, NEW lo, NEW hi, Emitted(lo, hi), Call
  PROVE  Between(lo, hi)'
<1>1. /\ blk' = Entry /\ ip' = 1 /\ status' = "running" /\ UNCHANGED vars
      /\ mem' = [t \in Slots |-> "raw"]
  BY DEF Call, CallInv
<1>2. Entry \in 1..created /\ Entry \in Blocks
  BY HereTypes, BlocksFacts DEF TypeInv, Entry
<1>3. code[Entry] \in Seq(Instrs)
  BY <1>2 DEF TypeInv, TypeOK
<1>4. 1 \in 1..Ended(code[Entry])
  <2>1. Len(code[Entry]) \in Nat
    BY <1>3
  <2> QED
    BY <2>1 DEF Ended
<1>5. /\ lo[Entry] \cup SlotsTo(code[Entry], "new", 1) = {}
      /\ RetFree(code[Entry], 1)
  BY SlotsAtStart DEF Emitted
<1>6. Bounds(mem', {}, hi[Entry] \cup SlotsTo(code[Entry], "new", 1),
             SlotsTo(code[Entry], "free", 1))
  BY <1>1 DEF Bounds
<1> QED
  BY <1>1, <1>2, <1>4, <1>5, <1>6, BetweenMoves

LEMMA BetweenRun ==
  ASSUME TypeInv, CallInv, NEW lo, NEW hi, Emitted(lo, hi), Between(lo, hi),
         Call \/ Execute \/ Stopped
  PROVE  Between(lo, hi)'
<1>1. CASE Call
  BY <1>1, BetweenCall
<1>2. CASE ExecuteOp
  BY <1>2, BetweenAdvances DEF ExecuteOp
<1>3. CASE ExecuteNew
  BY <1>3, BetweenAdvances DEF ExecuteNew
<1>4. CASE ExecuteFree
  BY <1>4, BetweenAdvances DEF ExecuteFree
<1>5. CASE ExecuteBr
  <2>1. status = "running" /\ ~AtEnd /\ Current.op = "br" /\ Goto(Current.yes)
        /\ UNCHANGED <<vars, status, mem>> /\ Current.yes \in Ways(Current)
    BY <1>5 DEF ExecuteBr, Running, Ways
  <2> QED
    BY <2>1, BetweenBranches
<1>6. ASSUME NEW outcome \in BOOLEAN, ExecuteCondBr(outcome)
      PROVE  Between(lo, hi)'
  <2>1. /\ status = "running" /\ ~AtEnd /\ Current.op = "condbr"
        /\ UNCHANGED <<vars, status, mem>>
        /\ \E c \in Ways(Current) : Goto(c)
    BY <1>6 DEF ExecuteCondBr, Running, Ways
  <2> QED
    BY <2>1, BetweenBranches
<1>7. CASE ExecuteRet
  <2>1. status = "running" /\ ~AtEnd /\ Current.op = "ret" /\ Current = code[blk][ip]
        /\ UNCHANGED <<vars, blk, ip, mem>> /\ status' = "halted"
    BY <1>7 DEF ExecuteRet, Running, Current
  <2>2. ip \in 1..Len(code[blk])
    BY <2>1, AtInstr
  <2>3. Slots' = Slots /\ Texts' = Texts /\ Owned' = Owned /\ code' = code
        /\ created' = created
    BY <2>1 DEF vars, Slots, Texts, Owned, Queued, Locals, Nesting, Earlier
  <2> QED
    BY <2>1, <2>2, <2>3 DEF Between
<1>8. CASE FallOffBlock
  BY <1>8 DEF FallOffBlock, Between
<1>9. CASE Stopped
  <2>1. UNCHANGED <<vars, status, blk, ip, mem>>
    BY <1>9 DEF Stopped, allvars, ivars
  <2>2. Slots' = Slots /\ Texts' = Texts /\ Owned' = Owned /\ code' = code
        /\ created' = created
    BY <2>1 DEF vars, Slots, Texts, Owned, Queued, Locals, Nesting, Earlier
  <2> QED
    BY <2>1, <2>2 DEF Between
<1> QED
  BY <1>1, <1>2, <1>3, <1>4, <1>5, <1>6, <1>7, <1>8, <1>9 DEF Execute

(* What lies between lo and hi is what the properties ask for.             *)
LEMMA UnconditionalIsOwned ==
  ASSUME NEW t \in Texts, Unconditional(t), TypeOK, FreesInv
  PROVE  t \in Owned
<1>1. \A q \in Queued : ~(q < 0)
  BY HereTypes DEF FreesInv
<1> QED
  BY <1>1, DepthIsNesting DEF Unconditional, Texts, Owned

LEMMA TextsMeet ==
  ASSUME TypeInv, NEW lo, NEW hi, Emitted(lo, hi), Between(lo, hi)
  PROVE  /\ FreedWhileLive
         /\ NothingLeaks
         /\ "local" \notin RetValues => ReturnedAlive
<1>1. TypeOK /\ FreesInv /\ Texts \subseteq Slots
  BY TextsAreSlots DEF TypeInv, Emitted
<1>2. ASSUME Running("free"), Unconditional(Current.slot)
      PROVE  mem[Current.slot] = "live"
  <2> DEFINE s == code[blk]
             L == lo[blk] \cup SlotsTo(s, "new", ip)
             H == hi[blk] \cup SlotsTo(s, "new", ip)
             F == SlotsTo(s, "free", ip)
  <2>1. status = "running" /\ ~AtEnd /\ Current.op = "free"
    BY <1>2 DEF Running
  <2>2. InstrOK(Current, L, H, F, Owned, lo, hi, created) /\ Current.slot \in Texts
    BY <2>1, AtInstr
  <2>3. Bounds(mem, L, H, F)
    BY <2>1 DEF Between, Bounds
  <2>4. Current.slot \in Owned
    BY <1>1, <1>2, <2>2, UnconditionalIsOwned
  <2> HIDE DEF L, H, F
  <2> QED
    BY <1>1, <2>1, <2>2, <2>3, <2>4 DEF InstrOK, Bounds
<1>3. ASSUME Running("ret"), Current.slot # 0, "local" \notin RetValues
      PROVE  mem[Current.slot] = "live"
  <2> DEFINE s == code[blk]
             L == lo[blk] \cup SlotsTo(s, "new", ip)
             H == hi[blk] \cup SlotsTo(s, "new", ip)
             F == SlotsTo(s, "free", ip)
  <2>1. status = "running" /\ ~AtEnd /\ Current.op = "ret"
    BY <1>3 DEF Running
  <2>2. InstrOK(Current, L, H, F, Owned, lo, hi, created) /\ Current.slot \in Int
    BY <2>1, AtInstr DEF Instrs
  <2>3. Bounds(mem, L, H, F)
    BY <2>1 DEF Between, Bounds
  <2>4. L \subseteq Texts
    <3>1. blk \in Blocks /\ s \in Seq(Instrs) /\ ip \in 1..Len(s) /\ Known(s, Texts)
      BY <2>1, AtInstr DEF Emitted
    <3>2. lo[blk] \subseteq Owned /\ Owned \subseteq Texts
      BY <1>1, <3>1, TextsAreSlots DEF Emitted
    <3>3. ASSUME NEW t \in SlotsTo(s, "new", ip) PROVE t \in Texts
      <4>1. PICK j \in 1..(ip - 1) : s[j].op = "new" /\ s[j].slot = t
        BY <3>3, SlotsPick
      <4>2. j \in 1..Len(s)
        BY <3>1
      <4> QED
        BY <3>1, <4>1, <4>2 DEF Known
    <3> QED
      BY <3>2, <3>3
  <2> HIDE DEF L, H, F
  <2>5. Current.slot > 0
    BY <1>3, <2>1, <2>2 DEF InstrOK
  <2>6. Current.slot \in L \ F
    BY <2>1, <2>2, <2>5 DEF InstrOK
  <2> QED
    BY <1>1, <2>3, <2>4, <2>6 DEF Bounds
<1>4. ASSUME status = "halted", NEW t \in DOMAIN mem, Unconditional(t), mem[t] = "live"
      PROVE  t = Current.slot
  <2> DEFINE s == code[blk]
             L == lo[blk] \cup SlotsTo(s, "new", ip)
             H == hi[blk] \cup SlotsTo(s, "new", ip)
             F == SlotsTo(s, "free", ip)
  <2>1. /\ blk \in 1..created /\ RetFree(s, ip) /\ ip \in 1..Len(s) /\ s[ip].op = "ret"
        /\ mem \in [Slots -> {"raw", "live", "dead"}] /\ Bounds(mem, L, H, F)
    BY <1>4 DEF Between, Bounds
  <2>2. SeqOK(s, lo[blk], hi[blk], {}, Owned, lo, hi, created)
    BY <2>1 DEF Emitted
  <2>3. InstrOK(s[ip], L, H, {} \cup F, Owned, lo, hi, created)
    <3> HIDE DEF s
    <3> QED
      BY <2>1, <2>2 DEF SeqOK
  <2>4. {} \cup F = F /\ s[ip] = Current
    BY DEF Current
  <2> HIDE DEF s, L, H, F
  <2>5. t \in Slots /\ t \in Texts
    BY <1>4, <2>1 DEF Bounds
  <2>6. t \in Owned
    BY <1>1, <1>4, <2>5, UnconditionalIsOwned
  <2>7. t \in H \ F
    BY <1>4, <2>1, <2>5, <2>6 DEF Bounds
  <2> QED
    BY <2>1, <2>3, <2>4, <2>6, <2>7 DEF InstrOK
<1> QED
  BY <1>2, <1>3, <1>4 DEF FreedWhileLive, ReturnedAlive, NothingLeaks

-----------------------------------------------------------------------------
(* What may be put behind a sequence.                                      *)
LEMMA SeqConcat ==
  ASSUME NEW s \in Seq(Instrs), NEW t \in Seq(Instrs), NEW live, NEW may, NEW freed,
         NEW own, NEW lo, NEW hi, NEW n,
         SeqOK(s, live, may, freed, own, lo, hi, n),
         RetFree(s, Ended(s)) =>
           SeqOK(t, live \cup SlotsTo(s, "new", Ended(s)),
                 may \cup SlotsTo(s, "new", Ended(s)),
                 freed \cup SlotsTo(s, "free", Ended(s)), own, lo, hi, n)
  PROVE  SeqOK(s \o t, live, may, freed, own, lo, hi, n)
<1> DEFINE u == s \o t
           N(r, k) == SlotsTo(r, "new", k)
           F(r, k) == SlotsTo(r, "free", k)
           e == Ended(s)
<1>1. Len(s) \in Nat /\ Len(t) \in Nat /\ Len(u) = Len(s) + Len(t) /\ e = Len(s) + 1
  BY ConcatTo DEF Ended
<1>2. \A i \in 1..Len(u) : u[i] = IF i <= Len(s) THEN s[i] ELSE t[i - Len(s)]
  BY <1>1, ConcatProperties
<1> SUFFICES ASSUME NEW k \in 1..Len(u), RetFree(u, k)
             PROVE  InstrOK(u[k], live \cup N(u, k), may \cup N(u, k), freed \cup F(u, k),
                            own, lo, hi, n)
  BY DEF SeqOK
<1>3. CASE k \in 1..Len(s)
  <2>1. k \in 1..Ended(s)
    BY <1>1, <1>3 DEF Ended
  <2>2. /\ RetFree(s, k) /\ N(u, k) = N(s, k) /\ F(u, k) = F(s, k)
    BY <2>1, ConcatTo
  <2>3. u[k] = s[k]
    BY <1>2, <1>3
  <2>4. InstrOK(s[k], live \cup N(s, k), may \cup N(s, k), freed \cup F(s, k),
                own, lo, hi, n)
    BY <1>3, <2>2 DEF SeqOK
  <2> QED
    BY <2>2, <2>3, <2>4
<1>4. CASE k \notin 1..Len(s)
  <2> DEFINE j == k - Len(s)
  <2>1. j \in 1..Len(t) /\ Len(s) + j = k /\ j \in 1..Ended(t) /\ ~(k <= Len(s))
    BY <1>1, <1>4 DEF Ended
  <2>2. u[k] = t[j]
    BY <1>2, <2>1
  <2> HIDE DEF j
  <2>3. /\ RetFree(u, Len(s) + j) <=> RetFree(s, e) /\ RetFree(t, j)
        /\ \A op : SlotsTo(u, op, Len(s) + j) = SlotsTo(s, op, e) \cup SlotsTo(t, op, j)
    BY <2>1, ConcatTo
  <2>4. /\ RetFree(s, e) /\ RetFree(t, j)
        /\ N(u, k) = N(s, e) \cup N(t, j) /\ F(u, k) = F(s, e) \cup F(t, j)
    BY <2>1, <2>3
  <2> DEFINE L == live \cup N(s, e)
             M == may \cup N(s, e)
             R == freed \cup F(s, e)
  <2>5. SeqOK(t, L, M, R, own, lo, hi, n)
    BY <2>4
  <2> HIDE DEF L, M, R
  <2>6. InstrOK(t[j], L \cup N(t, j), M \cup N(t, j), R \cup F(t, j), own, lo, hi, n)
    BY <2>1, <2>4, <2>5 DEF SeqOK
  <2> HIDE DEF N, F, e, u
  <2>7. /\ L \cup N(t, j) = live \cup N(u, k)
        /\ M \cup N(t, j) = may \cup N(u, k)
        /\ R \cup F(t, j) = freed \cup F(u, k)
    BY <2>4 DEF L, M, R
  <2> QED
    BY <2>2, <2>6, <2>7
<1> QED
  BY <1>3, <1>4

(* More texts, more blocks: nothing in the code so far is about them.      *)
LEMMA SeqGrows ==
  ASSUME NEW s, NEW live, NEW may, NEW own, NEW own2, NEW T,
         NEW lo, NEW hi, NEW lo2, NEW hi2, NEW n \in Nat, NEW n2 \in Nat, n <= n2,
         SeqOK(s, live, may, {}, own, lo, hi, n), Known(s, T), Len(s) \in Nat,
         own \subseteq own2, T \cap own2 \subseteq own, may \subseteq own,
         \A c \in 1..n : lo2[c] = lo[c] /\ hi2[c] = hi[c]
  PROVE  SeqOK(s, live, may, {}, own2, lo2, hi2, n2)
<1> SUFFICES ASSUME NEW k \in 1..Len(s), RetFree(s, k)
             PROVE  InstrOK(s[k], live \cup SlotsTo(s, "new", k),
                            may \cup SlotsTo(s, "new", k), {} \cup SlotsTo(s, "free", k),
                            own2, lo2, hi2, n2)
  BY DEF SeqOK
<1> DEFINE L == live \cup SlotsTo(s, "new", k)
           M == may \cup SlotsTo(s, "new", k)
           R == {} \cup SlotsTo(s, "free", k)
<1>1. InstrOK(s[k], L, M, R, own, lo, hi, n)
  BY DEF SeqOK
<1>2. M \cap own2 \subseteq M \cap own
  <2>1. ASSUME NEW x \in SlotsTo(s, "new", k) PROVE x \in T
    <3>1. PICK j \in 1..(k - 1) : s[j].op = "new" /\ s[j].slot = x
      BY <2>1, SlotsPick
    <3>2. j \in 1..Len(s)
      OBVIOUS
    <3> QED
      BY <3>1, <3>2 DEF Known
  <2> QED
    BY <2>1
<1>3. s[k].op \in {"new", "free"} => s[k].slot \in T
  BY DEF Known
<1>4. \A c \in 1..n : c \in 1..n2
  OBVIOUS
<1> HIDE DEF L, M, R
<1>5. InstrOK(s[k], L, M, R, own2, lo2, hi2, n2)
  BY <1>1, <1>2, <1>3, <1>4 DEF InstrOK
<1> QED
  BY <1>5 DEF L, M, R

LEMMA KnownGrows ==
  ASSUME NEW s \in Seq(Instrs), NEW t \in Seq(Instrs), NEW T, NEW T2, T \subseteq T2,
         Known(s, T), Known(t, T2)
  PROVE  Known(s \o t, T2)
<1> DEFINE u == s \o t
<1>1. Len(s) \in Nat /\ Len(t) \in Nat /\ Len(u) = Len(s) + Len(t)
  BY ConcatTo
<1>2. \A i \in 1..Len(u) : u[i] = IF i <= Len(s) THEN s[i] ELSE t[i - Len(s)]
  BY <1>1, ConcatProperties
<1> HIDE DEF u
<1> SUFFICES ASSUME NEW k \in 1..Len(u), u[k].op \in {"new", "free"}
             PROVE  u[k].slot \in T2
  BY DEF Known, u
<1>3. CASE k <= Len(s)
  BY <1>1, <1>2, <1>3 DEF Known
<1>4. CASE ~(k <= Len(s))
  <2>1. k - Len(s) \in 1..Len(t) /\ u[k] = t[k - Len(s)]
    BY <1>1, <1>2, <1>4
  <2> QED
    BY <2>1 DEF Known
<1> QED
  BY <1>3, <1>4

(* One instruction.                                                        *)
LEMMA SingleSeq ==
  ASSUME NEW x \in Instrs, NEW live, NEW may, NEW freed, NEW own, NEW lo, NEW hi, NEW n,
         InstrOK(x, live, may, freed, own, lo, hi, n)
  PROVE  SeqOK(<<x>>, live, may, freed, own, lo, hi, n)
<1> DEFINE s == <<x>>
<1>1. Len(s) = 1 /\ s[1] = x
  OBVIOUS
<1>2. \A op : SlotsTo(s, op, 1) = {}
  BY SlotsAtStart
<1> HIDE DEF s
<1>3. /\ live \cup SlotsTo(s, "new", 1) = live /\ may \cup SlotsTo(s, "new", 1) = may
      /\ freed \cup SlotsTo(s, "free", 1) = freed
  BY <1>2
<1> SUFFICES ASSUME NEW k \in 1..Len(s)
             PROVE  InstrOK(s[k], live \cup SlotsTo(s, "new", k),
                            may \cup SlotsTo(s, "new", k), freed \cup SlotsTo(s, "free", k),
                            own, lo, hi, n)
  BY DEF SeqOK, s
<1>4. k = 1
  BY <1>1
<1> QED
  BY <1>1, <1>3, <1>4

LEMMA SingleSlots ==
  ASSUME NEW x \in Instrs
  PROVE  /\ <<x>> \in Seq(Instrs) /\ Ended(<<x>>) = 2
         /\ RetFree(<<x>>, 2) <=> x.op # "ret"
         /\ \A op : SlotsTo(<<x>>, op, 2) = IF x.op = op THEN {x.slot} ELSE {}
         /\ \A T : (x.op \in {"new", "free"} => x.slot \in T) => Known(<<x>>, T)
<1>1. <<x>> \in Seq(Instrs) /\ Len(<<x>>) = 1 /\ <<x>>[1] = x
  OBVIOUS
<1>2. \A j : j \in 1..(2 - 1) <=> j = 1
  OBVIOUS
<1>3. \A T : (x.op \in {"new", "free"} => x.slot \in T) => Known(<<x>>, T)
  BY DEF Known
<1> QED
  BY <1>1, <1>2, <1>3 DEF Ended, RetFree, SlotsTo

LEMMA ConcatSlots ==
  ASSUME NEW s \in Seq(Instrs), NEW t \in Seq(Instrs)
  PROVE  /\ s \o t \in Seq(Instrs)
         /\ RetFree(s \o t, Ended(s \o t)) <=> RetFree(s, Ended(s)) /\ RetFree(t, Ended(t))
         /\ \A op : SlotsTo(s \o t, op, Ended(s \o t)) =
                      SlotsTo(s, op, Ended(s)) \cup SlotsTo(t, op, Ended(t))
<1>1. Len(s) \in Nat /\ Len(t) \in Nat /\ Len(s \o t) = Len(s) + Len(t)
  BY ConcatTo
<1>2. Ended(t) \in 1..Ended(t) /\ Ended(s \o t) = Len(s) + Ended(t)
  BY <1>1 DEF Ended
<1>3. s \o t \in Seq(Instrs)
  BY ConcatProperties
<1> QED
  BY <1>2, <1>3, ConcatTo

(* What evaluating an expression adds.                                     *)
Made(i, m) == IF m = 1 THEN {i} ELSE {}

LEMMA EmptySeqOK ==
  /\ <<>> \in Seq(Instrs) /\ RetFree(<<>>, Ended(<<>>))
  /\ \A op : SlotsTo(<<>>, op, Ended(<<>>)) = {}
  /\ \A T : Known(<<>>, T)
  /\ \A live, may, freed, own, lo, hi, n : SeqOK(<<>>, live, may, freed, own, lo, hi, n)
<1> DEFINE s == <<>>
<1>1. Len(s) = 0 /\ s \in Seq(Instrs) /\ Ended(s) = 1 /\ 1..0 = {}
  BY DEF Ended
<1> HIDE DEF s
<1>2. RetFree(s, Ended(s)) /\ \A op : SlotsTo(s, op, Ended(s)) = {}
  BY <1>1, SlotsAtStart
<1>3. \A T : Known(s, T)
  BY <1>1 DEF Known
<1>4. \A live, may, freed, own, lo, hi, n : SeqOK(s, live, may, freed, own, lo, hi, n)
  BY <1>1 DEF SeqOK
<1> QED
  BY <1>1, <1>2, <1>3, <1>4 DEF s

LEMMA EvalSeq ==
  ASSUME NEW i \in Nat, NEW m \in 0..1
  PROVE  LET s == Eval(i, m) IN
         /\ s \in Seq(Instrs) /\ RetFree(s, Ended(s))
         /\ SlotsTo(s, "new", Ended(s)) = Made(i, m)
         /\ SlotsTo(s, "free", Ended(s)) = {}
         /\ \A T : Made(i, m) \subseteq T => Known(s, T)
         /\ \A live, may, freed, own, lo, hi, n :
              Made(i, m) \cap freed = {} => SeqOK(s, live, may, freed, own, lo, hi, n)
<1>1. CASE m = 1
  <2>1. New(i, i) \in Instrs /\ New(i, i).op = "new" /\ New(i, i).slot = i
    BY InstrTypes DEF New, Instr
  <2>2. Eval(i, m) = <<New(i, i)>> /\ Made(i, m) = {i}
    BY <1>1 DEF Eval, Made
  <2>3. ASSUME NEW live, NEW may, NEW freed, NEW own, NEW lo, NEW hi, NEW n, i \notin freed
        PROVE  SeqOK(<<New(i, i)>>, live, may, freed, own, lo, hi, n)
    <3>1. InstrOK(New(i, i), live, may, freed, own, lo, hi, n)
      BY <2>1, <2>3 DEF InstrOK
    <3> QED
      BY <2>1, <3>1, SingleSeq
  <2>4. ASSUME NEW T, i \in T PROVE Known(<<New(i, i)>>, T)
    BY <2>1, <2>4, SingleSlots
  <2>5. /\ <<New(i, i)>> \in Seq(Instrs) /\ Ended(<<New(i, i)>>) = 2
        /\ RetFree(<<New(i, i)>>, 2)
        /\ SlotsTo(<<New(i, i)>>, "new", 2) = {i} /\ SlotsTo(<<New(i, i)>>, "free", 2) = {}
    BY <2>1, SingleSlots
  <2> QED
    BY <2>2, <2>3, <2>4, <2>5
<1>2. CASE m = 0
  <2>1. Eval(i, m) = <<>> /\ Made(i, m) = {}
    BY <1>2 DEF Eval, Made
  <2> QED
    BY <2>1, EmptySeqOK
<1>3. m = 0 \/ m = 1
  OBVIOUS
<1> QED
  BY <1>1, <1>2, <1>3

(* An expression and an instruction that uses it.                          *)
LEMMA EvalThen ==
  ASSUME NEW i \in Nat, NEW m \in 0..1, NEW x \in Instrs, x.op \in {"op", "condbr", "br"},
         NEW live, NEW may, NEW own, NEW lo, NEW hi, NEW n,
         InstrOK(x, live \cup Made(i, m), may \cup Made(i, m), {}, own, lo, hi, n)
  PROVE  LET s == Eval(i, m) \o <<x>> IN
         /\ s \in Seq(Instrs) /\ RetFree(s, Ended(s))
         /\ SlotsTo(s, "new", Ended(s)) = Made(i, m)
         /\ SlotsTo(s, "free", Ended(s)) = {}
         /\ \A T : Made(i, m) \subseteq T => Known(s, T)
         /\ SeqOK(s, live, may, {}, own, lo, hi, n)
<1> DEFINE e == Eval(i, m)
           M == Made(i, m)
<1>1. /\ e \in Seq(Instrs) /\ RetFree(e, Ended(e)) /\ SlotsTo(e, "new", Ended(e)) = M
      /\ SlotsTo(e, "free", Ended(e)) = {}
      /\ \A T : M \subseteq T => Known(e, T)
      /\ SeqOK(e, live, may, {}, own, lo, hi, n)
  BY EvalSeq
<1>2. /\ <<x>> \in Seq(Instrs) /\ Ended(<<x>>) = 2 /\ RetFree(<<x>>, 2)
      /\ SlotsTo(<<x>>, "new", 2) = {} /\ SlotsTo(<<x>>, "free", 2) = {}
      /\ \A T : Known(<<x>>, T)
  BY SingleSlots
<1>3. SeqOK(<<x>>, live \cup M, may \cup M, {}, own, lo, hi, n)
  BY SingleSeq
<1> HIDE DEF e, M
<1> DEFINE y == <<x>>
<1>4. y \in Seq(Instrs) /\ SeqOK(y, live \cup M, may \cup M, {}, own, lo, hi, n)
  BY <1>2, <1>3
<1>5. \A T : Known(y, T)
  BY <1>2
<1>6. RetFree(y, Ended(y)) /\ SlotsTo(y, "new", Ended(y)) = {} /\ SlotsTo(y, "free", Ended(y)) = {}
  BY <1>2
<1> HIDE DEF y
<1>7. SeqOK(y, live \cup SlotsTo(e, "new", Ended(e)), may \cup SlotsTo(e, "new", Ended(e)),
            {} \cup SlotsTo(e, "free", Ended(e)), own, lo, hi, n)
  <2>1. {} \cup SlotsTo(e, "free", Ended(e)) = {}
    BY <1>1
  <2> QED
    BY <1>1, <1>4, <2>1
<1>8. SeqOK(e \o y, live, may, {}, own, lo, hi, n)
  BY <1>1, <1>4, <1>7, SeqConcat
<1>9. ASSUME NEW T, M \subseteq T PROVE Known(e \o y, T)
  BY <1>1, <1>4, <1>5, <1>9, KnownGrows
<1>10. /\ e \o y \in Seq(Instrs) /\ RetFree(e \o y, Ended(e \o y))
       /\ SlotsTo(e \o y, "new", Ended(e \o y)) = M
       /\ SlotsTo(e \o y, "free", Ended(e \o y)) = {}
  <2>1. /\ e \o y \in Seq(Instrs)
        /\ RetFree(e \o y, Ended(e \o y)) <=> RetFree(e, Ended(e)) /\ RetFree(y, Ended(y))
        /\ \A op : SlotsTo(e \o y, op, Ended(e \o y)) =
                     SlotsTo(e, op, Ended(e)) \cup SlotsTo(y, op, Ended(y))
    BY <1>1, <1>4, ConcatSlots
  <2>2. /\ SlotsTo(e \o y, "new", Ended(e \o y)) = M \cup {}
        /\ SlotsTo(e \o y, "free", Ended(e \o y)) = {} \cup {}
    BY <1>1, <1>6, <2>1
  <2> QED
    BY <1>1, <1>6, <2>1, <2>2
<1> QED
  BY <1>8, <1>9, <1>10 DEF e, M, y

(* The releases of a return.                                               *)
LEMMA FreesSeq ==
  ASSUME TypeOK, FreesInv, NEW live, NEW may, NEW own, NEW lo, NEW hi, NEW n,
         Texts \cap own \subseteq live
  PROVE  LET s == FreeTexts(frees) IN
         /\ s \in Seq(Instrs) /\ RetFree(s, Ended(s))
         /\ SlotsTo(s, "new", Ended(s)) = {}
         /\ SlotsTo(s, "free", Ended(s)) = Texts
         /\ Known(s, Texts)
         /\ SeqOK(s, live, may, {}, own, lo, hi, n)
<1> DEFINE q == Len(frees)
           p == [k \in 1..q |-> Free(Here, frees[k])]
           r == [l \in 1..TextLocals |-> Free(Here, -l)]
           s == FreeTexts(frees)
           slot(k) == IF k <= q THEN frees[k] ELSE q - k
<1>1. q \in Nat /\ TextLocals \in Nat /\ Here \in Nat /\ frees \in Seq(Nat)
  BY TextLocalsAssumption, HereTypes DEF TypeOK
<1>2. \A k \in 1..q : frees[k] \in Nat /\ frees[k] > 0
  <2>1. \A k \in 1..q : frees[k] \in Queued
    BY DEF Queued
  <2>2. Len(prog) \in Nat /\ Queued \subseteq 1..Len(prog)
    BY HereTypes DEF FreesInv
  <2>3. \A t \in 1..Len(prog) : t \in Nat /\ t > 0
    BY <2>2
  <2> QED
    BY <2>1, <2>2, <2>3
<1>3. /\ p \in Seq(Instrs) /\ Len(p) = q
      /\ r \in Seq(Instrs) /\ Len(r) = TextLocals
  BY <1>1, <1>2, InstrTypes
<1>4. s = p \o r
  BY DEF FreeTexts
<1>5. /\ s \in Seq(Instrs) /\ Len(s) = q + TextLocals
      /\ \A k \in 1..(q + TextLocals) : s[k] = IF k <= q THEN p[k] ELSE r[k - q]
  <2> HIDE DEF p, r, s, q
  <2>1. /\ p \o r \in Seq(Instrs) /\ Len(p \o r) = Len(p) + Len(r)
        /\ \A k \in 1..(Len(p) + Len(r)) :
             (p \o r)[k] = IF k <= Len(p) THEN p[k] ELSE r[k - Len(p)]
    BY <1>3, ConcatProperties
  <2> QED
    BY <1>3, <1>4, <2>1
<1>6. \A k \in 1..(q + TextLocals) : s[k] = Free(Here, slot(k))
  <2> SUFFICES ASSUME NEW k \in 1..(q + TextLocals) PROVE s[k] = Free(Here, slot(k))
    OBVIOUS
  <2>1. CASE k <= q
    <3> HIDE DEF p, r, s, q
    <3>1. k \in 1..q /\ s[k] = p[k]
      BY <1>1, <1>5, <2>1
    <3> USE DEF p
    <3> QED
      BY <2>1, <3>1
  <2>2. CASE ~(k <= q)
    <3>1. k - q \in 1..TextLocals /\ s[k] = r[k - q] /\ -(k - q) = q - k
      BY <1>1, <1>5, <2>2, SMTT(60)
    <3> QED
      BY <2>2, <3>1
  <2> QED
    BY <2>1, <2>2
<1>7. \A k \in 1..(q + TextLocals) : slot(k) \in Texts
  <2> SUFFICES ASSUME NEW k \in 1..(q + TextLocals) PROVE slot(k) \in Texts
    OBVIOUS
  <2>1. CASE k <= q
    <3>1. k \in 1..q
      BY <1>1, <2>1
    <3> QED
      BY <2>1, <3>1 DEF Texts, Queued
  <2>2. CASE ~(k <= q)
    <3>1. k - q \in 1..TextLocals /\ -(k - q) = q - k
      BY <1>1, <2>2
    <3>2. -(k - q) \in Locals
      BY <3>1 DEF Locals
    <3> QED
      BY <2>2, <3>1, <3>2 DEF Texts
  <2> QED
    BY <2>1, <2>2
<1>8. \A t \in Texts : \E k \in 1..(q + TextLocals) : slot(k) = t
  <2> SUFFICES ASSUME NEW t \in Texts PROVE \E k \in 1..(q + TextLocals) : slot(k) = t
    OBVIOUS
  <2>1. CASE t \in Queued
    <3>1. PICK k \in 1..q : t = frees[k]
      BY <2>1 DEF Queued
    <3>2. k \in 1..(q + TextLocals) /\ k <= q
      BY <1>1
    <3> QED
      BY <3>1, <3>2
  <2>2. CASE t \in Locals
    <3>1. PICK l \in 1..TextLocals : t = -l
      BY <2>2 DEF Locals
    <3>2. q + l \in 1..(q + TextLocals) /\ ~(q + l <= q) /\ q - (q + l) = -l
      BY <1>1
    <3>3. slot(q + l) = t
      BY <3>1, <3>2
    <3> QED
      BY <3>2, <3>3
  <2> QED
    BY <2>1, <2>2 DEF Texts
<1>9. \A j, k \in 1..(q + TextLocals) : j < k => slot(j) # slot(k)
  <2> SUFFICES ASSUME NEW j \in 1..(q + TextLocals), NEW k \in 1..(q + TextLocals), j < k
               PROVE  slot(j) # slot(k)
    OBVIOUS
  <2>1. CASE k <= q
    <3>1. j \in 1..q /\ k \in 1..q /\ j # k /\ j <= q
      BY <1>1, <2>1
    <3> QED
      BY <2>1, <3>1 DEF FreesInv
  <2>2. CASE ~(k <= q) /\ j <= q
    <3>1. j \in 1..q /\ q - k < 0
      BY <1>1, <2>2
    <3>2. frees[j] > 0 /\ frees[j] \in Nat
      BY <1>2, <3>1
    <3> QED
      BY <1>1, <2>2, <3>1, <3>2
  <2>3. CASE ~(k <= q) /\ ~(j <= q)
    BY <1>1, <2>3
  <2> QED
    BY <2>1, <2>2, <2>3
<1> HIDE DEF q, p, r, s, slot
<1> DEFINE n2 == q + TextLocals
<1>10. \A x \in Int : Free(Here, x).op = "free" /\ Free(Here, x).slot = x
  BY DEF Free, Instr
<1>11. \A t \in Texts : t \in Int
  BY <1>1, TextsAreSlots DEF Slots
<1>12. \A k \in 1..n2 : s[k].op = "free" /\ s[k].slot = slot(k)
  BY <1>6, <1>7, <1>10, <1>11
<1>13. n2 \in Nat /\ Len(s) = n2 /\ Ended(s) = n2 + 1
  BY <1>1, <1>5 DEF Ended
<1> HIDE DEF n2
<1>14. \A j : j \in 1..((n2 + 1) - 1) <=> j \in 1..n2
  BY <1>13
<1>15. /\ RetFree(s, Ended(s)) /\ SlotsTo(s, "new", Ended(s)) = {}
       /\ SlotsTo(s, "free", Ended(s)) = Texts
  BY <1>7, <1>8, <1>12, <1>13, <1>14 DEF RetFree, SlotsTo, n2
<1>16. Known(s, Texts)
  BY <1>7, <1>12, <1>13 DEF Known, n2
<1>17. SeqOK(s, live, may, {}, own, lo, hi, n)
  <2> SUFFICES ASSUME NEW k \in 1..Len(s)
               PROVE  InstrOK(s[k], live \cup SlotsTo(s, "new", k),
                              may \cup SlotsTo(s, "new", k), {} \cup SlotsTo(s, "free", k),
                              own, lo, hi, n)
    BY DEF SeqOK
  <2>1. k \in 1..n2 /\ \A j \in 1..(k - 1) : j \in 1..n2 /\ j < k
    BY <1>13
  <2>2. slot(k) \notin SlotsTo(s, "free", k)
    <3> SUFFICES ASSUME slot(k) \in SlotsTo(s, "free", k) PROVE FALSE
      OBVIOUS
    <3>1. PICK j \in 1..(k - 1) : s[j].op = "free" /\ s[j].slot = slot(k)
      BY SlotsPick
    <3> QED
      BY <1>9, <1>12, <2>1, <3>1 DEF n2
  <2>3. slot(k) \in Texts /\ s[k].op = "free" /\ s[k].slot = slot(k)
    BY <1>7, <1>12, <2>1 DEF n2
  <2> QED
    BY <2>2, <2>3 DEF InstrOK
<1> QED
  BY <1>5, <1>15, <1>16, <1>17 DEF s

(* The value a return leaves with: m is 1 if its argument was evaluated to *)
(* a temporary.                                                            *)
LEMMA RetSeq ==
  ASSUME TypeOK, FreesInv, NEW v \in {"none", "scalar"} \cup AllRetValues,
         NEW m \in 0..1, m = IF v = "temp" THEN 1 ELSE 0,
         NEW live, NEW may, NEW own, NEW lo, NEW hi, NEW n,
         Made(Here, m) \subseteq live, may \cap own \subseteq Texts \cup Made(Here, m),
         v = "local" => "local" \in RetValues
  PROVE  LET s == RetInstr(v) IN
         /\ s \in Seq(Instrs)
         /\ SlotsTo(s, "new", Ended(s)) = IF v = "literal" THEN {Here} ELSE {}
         /\ SlotsTo(s, "free", Ended(s)) = {}
         /\ RetFree(s, Ended(s)) => v = "none" /\ retType # "void"
         /\ \A T : (v = "literal" => Here \in T) => Known(s, T)
         /\ SeqOK(s, live, may, Texts, own, lo, hi, n)
<1> DEFINE s == RetInstr(v)
<1>1. Here \in Nat \ {0} /\ Here \notin Texts
  <2>1. Len(prog) \in Nat /\ Here = Len(prog) + 1
    BY HereTypes DEF Here
  <2> QED
    BY <2>1, TextsAreSlots
<1>2. \A x : Ret(Here, x).op = "ret" /\ Ret(Here, x).slot = x
  BY DEF Ret, Instr
<1>3. CASE v = "none" /\ retType # "void"
  <2>1. s = <<>>
    BY <1>3 DEF RetInstr
  <2> QED
    BY <1>3, <2>1, EmptySeqOK
<1>4. CASE v = "literal"
  <2> DEFINE x == New(Here, Here)
             y == Ret(Here, Here)
             a == <<x>>
             b == <<y>>
  <2>1. /\ x \in Instrs /\ x.op = "new" /\ x.slot = Here
        /\ y \in Instrs /\ y.op = "ret" /\ y.slot = Here
    BY <1>1, <1>2, InstrTypes DEF New, Instr
  <2>2. s = a \o b
    BY <1>4 DEF RetInstr
  <2> HIDE DEF x, y
  <2>3. /\ a \in Seq(Instrs) /\ RetFree(a, Ended(a)) /\ SlotsTo(a, "new", Ended(a)) = {Here}
        /\ SlotsTo(a, "free", Ended(a)) = {}
        /\ \A T : Here \in T => Known(a, T)
    BY <2>1, SingleSlots, ZenonT(60)
  <2>4. /\ b \in Seq(Instrs) /\ ~RetFree(b, Ended(b)) /\ SlotsTo(b, "new", Ended(b)) = {}
        /\ SlotsTo(b, "free", Ended(b)) = {} /\ \A T : Known(b, T)
    BY <2>1, SingleSlots
  <2>5. SeqOK(a, live, may, Texts, own, lo, hi, n)
    <3>1. InstrOK(x, live, may, Texts, own, lo, hi, n)
      BY <1>1, <2>1 DEF InstrOK
    <3> QED
      BY <2>1, <3>1, SingleSeq
  <2>6. SeqOK(b, live \cup {Here}, may \cup {Here}, Texts, own, lo, hi, n)
    <3>1. Made(Here, m) = {}
      BY <1>4 DEF Made
    <3>2. InstrOK(y, live \cup {Here}, may \cup {Here}, Texts, own, lo, hi, n)
      BY <1>1, <2>1, <3>1 DEF InstrOK
    <3> QED
      BY <2>1, <3>2, SingleSeq
  <2> HIDE DEF a, b, s
  <2>7. SeqOK(b, live \cup SlotsTo(a, "new", Ended(a)), may \cup SlotsTo(a, "new", Ended(a)),
              Texts \cup SlotsTo(a, "free", Ended(a)), own, lo, hi, n)
    <3>1. Texts \cup SlotsTo(a, "free", Ended(a)) = Texts
      BY <2>3
    <3> QED
      BY <2>3, <2>6, <3>1
  <2>8. SeqOK(s, live, may, Texts, own, lo, hi, n)
    BY <2>2, <2>3, <2>4, <2>5, <2>7, SeqConcat
  <2>9. /\ s \in Seq(Instrs)
        /\ RetFree(s, Ended(s)) <=> RetFree(a, Ended(a)) /\ RetFree(b, Ended(b))
        /\ \A op : SlotsTo(s, op, Ended(s)) =
                     SlotsTo(a, op, Ended(a)) \cup SlotsTo(b, op, Ended(b))
    BY <2>2, <2>3, <2>4, ConcatSlots
  <2>10. SlotsTo(s, "new", Ended(s)) = {Here} \cup {} /\ SlotsTo(s, "free", Ended(s)) = {} \cup {}
    BY <2>3, <2>4, <2>9
  <2>11. ASSUME NEW T, Here \in T PROVE Known(s, T)
    BY <2>2, <2>3, <2>4, <2>11, KnownGrows
  <2> QED
    BY <1>4, <2>4, <2>8, <2>9, <2>10, <2>11 DEF s
<1>5. CASE v # "literal" /\ ~(v = "none" /\ retType # "void")
  <2> DEFINE x == IF v = "none" THEN 0 ELSE ValueSlot(v)
             y == Ret(Here, x)
             b == <<y>>
  <2>1. /\ s = b /\ x \in Int
        /\ v = "temp" => x = Here
        /\ v # "temp" => x <= 0
        /\ x < 0 => v = "local"
    BY <1>1, <1>5 DEF RetInstr, ValueSlot, AllRetValues
  <2> HIDE DEF x
  <2>2. y \in Instrs /\ y.op = "ret" /\ y.slot = x
    BY <1>1, <1>2, <2>1, InstrTypes
  <2> HIDE DEF y
  <2>3. /\ b \in Seq(Instrs) /\ ~RetFree(b, Ended(b)) /\ SlotsTo(b, "new", Ended(b)) = {}
        /\ SlotsTo(b, "free", Ended(b)) = {} /\ \A T : Known(b, T)
    BY <2>2, SingleSlots
  <2>4. InstrOK(y, live, may, Texts, own, lo, hi, n)
    <3>1. Made(Here, m) = IF v = "temp" THEN {Here} ELSE {}
      BY DEF Made
    <3>2. may \cap own \subseteq Texts \cup {x}
      BY <2>1, <3>1
    <3>3. x > 0 => v = "temp" /\ x = Here
      BY <2>1
    <3>4. x > 0 => x \in live \ Texts
      BY <1>1, <3>1, <3>3
    <3> QED
      BY <2>1, <2>2, <3>2, <3>4 DEF InstrOK
  <2>5. SeqOK(b, live, may, Texts, own, lo, hi, n)
    BY <2>2, <2>4, SingleSeq
  <2> HIDE DEF b
  <2> QED
    BY <1>5, <2>1, <2>3, <2>5
<1> QED
  BY <1>3, <1>4, <1>5

LEMMA ReturnSeq ==
  ASSUME TypeOK, FreesInv, NEW v \in {"none", "scalar"} \cup AllRetValues,
         NEW live, NEW may, NEW own, NEW lo, NEW hi, NEW n,
         Texts \cap own \subseteq live, may \cap own \subseteq Texts,
         v = "local" => "local" \in RetValues
  PROVE  LET s == ReturnCode(v)
             made == Made(Here, IF v \in {"temp", "literal"} THEN 1 ELSE 0)
         IN
         /\ s \in Seq(Instrs)
         /\ SlotsTo(s, "new", Ended(s)) = made
         /\ SlotsTo(s, "free", Ended(s)) = Texts
         /\ RetFree(s, Ended(s)) => v = "none" /\ retType # "void"
         /\ \A T : Texts \cup made \subseteq T => Known(s, T)
         /\ SeqOK(s, live, may, {}, own, lo, hi, n)
<1> DEFINE m == IF v = "temp" THEN 1 ELSE 0
           M == Made(Here, m)
           made == Made(Here, IF v \in {"temp", "literal"} THEN 1 ELSE 0)
           R == IF v = "literal" THEN {Here} ELSE {}
           e == Eval(Here, m)
           f == FreeTexts(frees)
           r == RetInstr(v)
           L == live \cup M
           H == may \cup M
<1>1. m \in 0..1 /\ Here \in Nat
  BY HereTypes
<1>2. M \cup R = made
  BY DEF Made
<1>3. /\ e \in Seq(Instrs) /\ RetFree(e, Ended(e)) /\ SlotsTo(e, "new", Ended(e)) = M
      /\ SlotsTo(e, "free", Ended(e)) = {}
      /\ \A T : M \subseteq T => Known(e, T)
      /\ SeqOK(e, live, may, {}, own, lo, hi, n)
  <2> HIDE DEF m
  <2> QED
    BY <1>1, EvalSeq
<1>4. /\ f \in Seq(Instrs) /\ RetFree(f, Ended(f)) /\ SlotsTo(f, "new", Ended(f)) = {}
      /\ SlotsTo(f, "free", Ended(f)) = Texts /\ Known(f, Texts)
      /\ SeqOK(f, L, H, {}, own, lo, hi, n)
  <2>1. Texts \cap own \subseteq L
    OBVIOUS
  <2> HIDE DEF L, H
  <2> QED
    BY <2>1, FreesSeq
<1>5. /\ r \in Seq(Instrs) /\ SlotsTo(r, "new", Ended(r)) = R
      /\ SlotsTo(r, "free", Ended(r)) = {}
      /\ RetFree(r, Ended(r)) => v = "none" /\ retType # "void"
      /\ \A T : (v = "literal" => Here \in T) => Known(r, T)
      /\ SeqOK(r, L, H, Texts, own, lo, hi, n)
  <2>1. M \subseteq L /\ H \cap own \subseteq Texts \cup M
    OBVIOUS
  <2>2. m = IF v = "temp" THEN 1 ELSE 0
    OBVIOUS
  <2> HIDE DEF L, H, m
  <2> QED
    BY <1>1, <2>1, <2>2, RetSeq
<1>6. ReturnCode(v) = (e \o f) \o r
  BY DEF ReturnCode
<1> DEFINE g == e \o f
<1> HIDE DEF e, f, r, m, M, made, R
<1>7. SeqOK(g, live, may, {}, own, lo, hi, n)
  <2>1. {} \cup SlotsTo(e, "free", Ended(e)) = {}
    BY <1>3
  <2>2. SeqOK(f, live \cup SlotsTo(e, "new", Ended(e)), may \cup SlotsTo(e, "new", Ended(e)),
              {} \cup SlotsTo(e, "free", Ended(e)), own, lo, hi, n)
    BY <1>3, <1>4, <2>1
  <2> QED
    BY <1>3, <1>4, <2>2, SeqConcat
<1>8. /\ g \in Seq(Instrs) /\ RetFree(g, Ended(g))
      /\ SlotsTo(g, "new", Ended(g)) = M /\ SlotsTo(g, "free", Ended(g)) = Texts
  <2>1. /\ g \in Seq(Instrs)
        /\ RetFree(g, Ended(g)) <=> RetFree(e, Ended(e)) /\ RetFree(f, Ended(f))
        /\ \A op : SlotsTo(g, op, Ended(g)) =
                     SlotsTo(e, op, Ended(e)) \cup SlotsTo(f, op, Ended(f))
    BY <1>3, <1>4, ConcatSlots
  <2>2. /\ SlotsTo(g, "new", Ended(g)) = M \cup {}
        /\ SlotsTo(g, "free", Ended(g)) = {} \cup Texts
    BY <1>3, <1>4, <2>1
  <2> QED
    BY <1>3, <1>4, <2>1, <2>2
<1>9. ASSUME NEW T, Texts \cup M \subseteq T PROVE Known(g, T)
  <2>1. Known(e, T) /\ Known(f, Texts)
    BY <1>3, <1>4, <1>9
  <2>2. Known(f, T)
    BY <1>9, <2>1 DEF Known
  <2> QED
    BY <1>3, <1>4, <2>1, <2>2, KnownGrows
<1> HIDE DEF g
<1> DEFINE s == g \o r
<1>10. SeqOK(s, live, may, {}, own, lo, hi, n)
  <2>1. {} \cup SlotsTo(g, "free", Ended(g)) = Texts
    BY <1>8
  <2>2. SeqOK(r, live \cup SlotsTo(g, "new", Ended(g)), may \cup SlotsTo(g, "new", Ended(g)),
              {} \cup SlotsTo(g, "free", Ended(g)), own, lo, hi, n)
    BY <1>5, <1>8, <2>1
  <2> QED
    BY <1>5, <1>7, <1>8, <2>2, SeqConcat
<1>11. /\ s \in Seq(Instrs)
       /\ RetFree(s, Ended(s)) <=> RetFree(g, Ended(g)) /\ RetFree(r, Ended(r))
       /\ \A op : SlotsTo(s, op, Ended(s)) =
                    SlotsTo(g, op, Ended(g)) \cup SlotsTo(r, op, Ended(r))
  BY <1>5, <1>8, ConcatSlots
<1>12. SlotsTo(s, "new", Ended(s)) = M \cup R /\ SlotsTo(s, "free", Ended(s)) = Texts \cup {}
  BY <1>5, <1>8, <1>11
<1>13. ASSUME NEW T, Texts \cup made \subseteq T PROVE Known(s, T)
  <2>1. Texts \cup M \subseteq T /\ R \subseteq T
    BY <1>2, <1>13
  <2>2. v = "literal" => Here \in T
    BY <2>1 DEF R
  <2> QED
    BY <1>5, <1>8, <1>9, <2>1, <2>2, KnownGrows
<1>14. ReturnCode(v) = s
  BY <1>6 DEF g
<1> HIDE DEF s
<1> QED
  BY <1>2, <1>5, <1>10, <1>11, <1>12, <1>13, <1>14 DEF made

-----------------------------------------------------------------------------
(* The emitter.  What a node adds to the texts: the temporary its          *)
(* expression evaluates to, if there is one.  Only a node that no if or    *)
(* loop encloses adds to those that every path creates.                    *)
LEMMA QueueGrows ==
  ASSUME TypeOK, FreesInv, NEW m \in 0..1, frees' = PushFree(Here, m)
  PROVE  /\ Queued' = Queued \cup Made(Here, m)
         /\ Here \notin Queued
         /\ \A j, k \in 1..Len(frees') : j # k => frees'[j] # frees'[k]
<1>1. frees \in Seq(Nat) /\ Len(frees) \in Nat /\ Here = Len(prog) + 1 /\ Len(prog) \in Nat
  BY HereTypes DEF TypeOK, Here
<1>2. Here \notin Queued
  BY <1>1 DEF FreesInv
<1>3. CASE m = 0
  BY <1>2, <1>3 DEF PushFree, Made, Queued, FreesInv
<1>4. CASE m = 1
  <2>1. frees' = Append(frees, Here) /\ Here \in Nat
    BY <1>1, <1>4 DEF PushFree
  <2>2. /\ Len(frees') = Len(frees) + 1 /\ frees'[Len(frees) + 1] = Here
        /\ \A k \in 1..Len(frees) : frees'[k] = frees[k]
    BY <1>1, <2>1, AppendProperties, SMTT(60)
  <2>3. \A k : k \in 1..Len(frees') <=> k \in 1..Len(frees) \/ k = Len(frees) + 1
    BY <1>1, <2>2
  <2>4. Queued' = Queued \cup {Here}
    BY <2>2, <2>3 DEF Queued
  <2>5. \A k \in 1..Len(frees) : frees[k] # Here
    BY <1>2 DEF Queued
  <2>6. \A j, k \in 1..Len(frees') : j # k => frees'[j] # frees'[k]
    BY <2>2, <2>3, <2>5 DEF FreesInv
  <2> QED
    BY <1>2, <1>4, <2>4, <2>6 DEF Made
<1> QED
  BY <1>3, <1>4

TextsMore(m) ==
  /\ FreesInv'
  /\ Texts \subseteq Texts' /\ Made(Here, m) \subseteq Texts'
  /\ Owned \subseteq Owned' /\ Owned' \subseteq Owned \cup Made(Here, m)
  /\ Texts \cap Owned' \subseteq Owned
  /\ frames # <<>> => Owned' = Owned

LEMMA TextsGrow ==
  ASSUME TypeInv, DepthInv, FreesInv, NEW tok, NEW at \in Nat, NEW m \in 0..1,
         tok \in {"op", "if", "else", "endif", "ret", "endloop"} \cup AllLoopKinds,
         prog' = Visited(tok, at), frees' = PushFree(Here, m)
  PROVE  TextsMore(m)
<1> DEFINE t == [tok |-> tok, at |-> at]
<1>1. /\ TypeOK /\ prog \in Seq(Token) /\ t \in Token /\ prog' = Append(prog, t)
      /\ Here = Len(prog) + 1 /\ Len(prog) \in Nat /\ frames \in Seq(Frame)
  BY HereTypes DEF TypeInv, TypeOK, Token, Visited, Here
<1> HIDE DEF t
<1>2. /\ Queued' = Queued \cup Made(Here, m) /\ Here \notin Queued
      /\ \A j, k \in 1..Len(frees') : j # k => frees'[j] # frees'[k]
  BY <1>1, QueueGrows
<1>3. Len(prog') = Len(prog) + 1
  BY <1>1, AppendProperties
<1>4. Queued \subseteq 1..Len(prog) /\ Made(Here, m) \subseteq {Here}
  BY DEF FreesInv, Made
<1>5. Queued' \subseteq 1..Len(prog')
  <2>1. \A x : x \in 1..Len(prog) \/ x = Here => x \in 1..(Len(prog) + 1)
    BY <1>1
  <2>2. Queued' \subseteq 1..(Len(prog) + 1)
    BY <1>2, <1>4, <2>1
  <2> QED
    BY <1>3, <2>2
<1>6. FreesInv'
  BY <1>2, <1>5 DEF FreesInv
<1>7. /\ \A i \in 1..(Len(prog) + 1) : Nesting(prog', i) = Nesting(prog, i)
      /\ Nesting(prog, Here) = Len(frames)
  BY <1>1, NestingAppend DEF DepthInv
<1>8. \A s \in Queued : Nesting(prog', s) = Nesting(prog, s)
  <2>1. \A s \in 1..Len(prog) : s \in 1..(Len(prog) + 1)
    BY <1>1
  <2> QED
    BY <1>4, <1>7, <2>1
<1>9. Nesting(prog', Here) = Len(frames)
  <2>1. Here \in 1..(Len(prog) + 1)
    BY <1>1
  <2> QED
    BY <1>7, <2>1
<1>10. Locals' = Locals /\ \A s \in Locals : s < 0 /\ s \in Int
  BY TextLocalsAssumption DEF Locals
<1>11. Owned' = {s \in Queued' : Nesting(prog', s) = 0} \cup Locals
  BY <1>10 DEF Owned
<1>12. Owned \subseteq Owned' /\ Owned' \subseteq Owned \cup Made(Here, m)
  BY <1>2, <1>8, <1>11 DEF Owned
<1>13. Texts \cap Owned' \subseteq Owned
  <2>1. Here \notin Texts
    BY <1>1, <1>2, <1>10 DEF Texts
  <2> QED
    BY <1>4, <1>12, <2>1
<1>14. ASSUME frames # <<>> PROVE Owned' = Owned
  <2>1. Nesting(prog', Here) # 0
    BY <1>1, <1>9, <1>14, EmptySeq
  <2>2. \A s \in Made(Here, m) : s \in Owned' => s \in Owned
    BY <1>1, <1>4, <1>10, <1>11, <2>1
  <2> QED
    BY <1>12, <2>2
<1>15. Texts \subseteq Texts' /\ Made(Here, m) \subseteq Texts'
  BY <1>2, <1>10 DEF Texts
<1> QED
  BY <1>6, <1>12, <1>13, <1>14, <1>15 DEF TextsMore

(* t may follow what its block s holds so far; live and may are the        *)
(* block's sets.                                                           *)
Adds(s, t, live, may, T, own, lo, hi, n) ==
  /\ t \in Seq(Instrs) /\ Known(t, T)
  /\ RetFree(s, Ended(s)) =>
       /\ SlotsTo(s, "free", Ended(s)) = {}
       /\ SeqOK(t, live \cup SlotsTo(s, "new", Ended(s)),
                may \cup SlotsTo(s, "new", Ended(s)), {}, own, lo, hi, n)

(* The blocks c of a sub respect the sets; c2 adds to them what it may.    *)
CodeOK(c, T, own, lo, hi, n) ==
  /\ \A b \in 1..n : SeqOK(c[b], lo[b], hi[b], {}, own, lo, hi, n)
  /\ \A b \in Blocks : Known(c[b], T)
CodeAdds(c, c2, T, own, lo, hi, n) ==
  \A b \in Blocks :
    \/ c2[b] = c[b]
    \/ \E t : c2[b] = c[b] \o t /\ Adds(c[b], t, lo[b], hi[b], T, own, lo, hi, n)

(* Code that grows in some blocks while texts and blocks are added.        *)
LEMMA CodeGrows ==
  ASSUME NEW c \in [Blocks -> Seq(Instrs)], NEW c2, NEW n \in Nat, NEW n2 \in Nat,
         n <= n2, 1..n2 \subseteq Blocks, NEW own, NEW own2, NEW T, NEW T2,
         own \subseteq own2, T \subseteq T2, T \cap own2 \subseteq own,
         NEW lo, NEW hi, NEW lo2, NEW hi2,
         \A b \in 1..n : hi[b] \subseteq own /\ lo2[b] = lo[b] /\ hi2[b] = hi[b],
         CodeOK(c, T, own, lo, hi, n), CodeAdds(c, c2, T2, own2, lo2, hi2, n2),
         \A b \in 1..n2 : b > n => c[b] = <<>>
  PROVE  CodeOK(c2, T2, own2, lo2, hi2, n2)
<1>0. /\ \A b \in 1..n : SeqOK(c[b], lo[b], hi[b], {}, own, lo, hi, n)
      /\ \A b \in Blocks : Known(c[b], T)
      /\ \A b \in Blocks :
           \/ c2[b] = c[b]
           \/ \E t : c2[b] = c[b] \o t /\ Adds(c[b], t, lo2[b], hi2[b], T2, own2, lo2, hi2, n2)
  BY DEF CodeOK, CodeAdds
<1>1. ASSUME NEW b \in Blocks PROVE Known(c2[b], T2)
  <2>1. Known(c[b], T) /\ c[b] \in Seq(Instrs)
    BY <1>0
  <2>2. CASE c2[b] = c[b]
    BY <2>1, <2>2 DEF Known
  <2>3. CASE \E t : c2[b] = c[b] \o t /\ Adds(c[b], t, lo2[b], hi2[b], T2, own2, lo2, hi2, n2)
    BY <2>1, <2>3, KnownGrows DEF Adds
  <2> QED
    BY <1>0, <2>2, <2>3
<1>2. ASSUME NEW b \in 1..n2 PROVE SeqOK(c[b], lo2[b], hi2[b], {}, own2, lo2, hi2, n2)
  <2>1. CASE b \in 1..n
    <3> DEFINE s == c[b]
               l == lo[b]
               h == hi[b]
    <3>1. /\ SeqOK(s, l, h, {}, own, lo, hi, n) /\ h \subseteq own
          /\ lo2[b] = l /\ hi2[b] = h
      BY <1>0, <2>1
    <3>2. Known(s, T) /\ Len(s) \in Nat
      BY <1>0, LenProperties
    <3> HIDE DEF s, l, h
    <3>3. SeqOK(s, l, h, {}, own2, lo2, hi2, n2)
      BY <3>1, <3>2, SeqGrows
    <3> QED
      BY <3>1, <3>3 DEF s
  <2>2. CASE b \notin 1..n
    <3>1. c[b] = <<>>
      BY <2>2
    <3> QED
      BY <3>1, EmptySeqOK
  <2> QED
    BY <2>1, <2>2
<1>3. ASSUME NEW b \in 1..n2 PROVE SeqOK(c2[b], lo2[b], hi2[b], {}, own2, lo2, hi2, n2)
  <2>1. CASE c2[b] = c[b]
    BY <1>2, <2>1
  <2>2. CASE \E t : c2[b] = c[b] \o t /\ Adds(c[b], t, lo2[b], hi2[b], T2, own2, lo2, hi2, n2)
    <3> DEFINE s == c[b]
               l == lo2[b]
               h == hi2[b]
    <3>1. PICK t : c2[b] = s \o t /\ Adds(s, t, l, h, T2, own2, lo2, hi2, n2)
      BY <2>2
    <3>2. s \in Seq(Instrs) /\ SeqOK(s, l, h, {}, own2, lo2, hi2, n2)
      BY <1>2
    <3> HIDE DEF s, l, h
    <3>3. t \in Seq(Instrs)
      BY <3>1 DEF Adds
    <3>4. ASSUME RetFree(s, Ended(s))
          PROVE  SeqOK(t, l \cup SlotsTo(s, "new", Ended(s)), h \cup SlotsTo(s, "new", Ended(s)),
                       {} \cup SlotsTo(s, "free", Ended(s)), own2, lo2, hi2, n2)
      <4>1. {} \cup SlotsTo(s, "free", Ended(s)) = {}
        BY <3>1, <3>4 DEF Adds
      <4>2. SeqOK(t, l \cup SlotsTo(s, "new", Ended(s)), h \cup SlotsTo(s, "new", Ended(s)),
                  {}, own2, lo2, hi2, n2)
        BY <3>1, <3>4 DEF Adds
      <4> QED
        BY <4>1, <4>2
    <3>5. SeqOK(s \o t, l, h, {}, own2, lo2, hi2, n2)
      BY <3>2, <3>3, <3>4, SeqConcat
    <3> QED
      BY <3>1, <3>5 DEF l, h
  <2>3. b \in Blocks
    OBVIOUS
  <2> QED
    BY <1>0, <2>1, <2>2, <2>3
<1> QED
  BY <1>1, <1>3 DEF CodeOK

(* The frames in progress keep their blocks' sets; a new one has its own.  *)
LEMMA FramesKeep ==
  ASSUME NEW lo, NEW hi, FramesOwn(lo, hi), Owned' = Owned,
         1..Len(frames') \subseteq 1..Len(frames),
         \A d \in 1..Len(frames') : /\ Named(frames'[d]) \subseteq Named(frames[d])
                                    /\ Pending(frames'[d]) \subseteq Pending(frames[d])
                                    /\ \/ frames'[d].kind \notin AllLoopKinds
                                       \/ frames'[d] = frames[d]
  PROVE  FramesOwn(lo, hi)'
<1> SUFFICES ASSUME NEW d \in 1..Len(frames')
             PROVE  /\ \A c \in Named(frames'[d]) : Owned' \subseteq hi[c]
                    /\ \A c \in Pending(frames'[d]) : Owned' \subseteq lo[c]
                    /\ frames'[d].kind \in AllLoopKinds => frames'[d].cond # frames'[d].leave
  BY DEF FramesOwn, Named, Pending
<1>1. d \in 1..Len(frames)
  OBVIOUS
<1> QED
  BY <1>1 DEF FramesOwn

LEMMA NamedCreated ==
  ASSUME TypeInv
  PROVE  \A d \in 1..Len(frames) : Named(frames[d]) \subseteq 1..created
<1>1. /\ \A d \in 1..Len(frames) : FrameOK(frames[d], placed, created)
      /\ placed \subseteq 1..created /\ created \in Nat
  BY HereTypes DEF TypeInv, FramesOK
<1>2. 2..created \subseteq 1..created
  BY <1>1
<1> QED
  BY <1>1, <1>2 DEF FrameOK, Named, AllLoopKinds

LEMMA FramesMore ==
  ASSUME TypeInv, NEW lo, NEW hi, NEW lo2, NEW hi2, FramesOwn(lo, hi),
         frames # <<>> => Owned' = Owned,
         \A b \in 1..created : lo2[b] = lo[b] /\ hi2[b] = hi[b],
         NEW f \in Frame, frames' = Append(frames, f),
         \A c \in Named(f) : Owned' \subseteq hi2[c],
         \A c \in Pending(f) : Owned' \subseteq lo2[c],
         f.kind \in AllLoopKinds => f.cond # f.leave
  PROVE  FramesOwn(lo2, hi2)'
<1>1. /\ frames \in Seq(Frame) /\ Len(frames) \in Nat
      /\ Len(frames') = Len(frames) + 1
      /\ \A i \in 1..Len(frames) : frames'[i] = frames[i]
      /\ frames'[Len(frames) + 1] = f
  <2>1. frames \in Seq(Frame)
    BY DEF TypeInv, TypeOK
  <2> QED
    BY <2>1, AppendProperties, LenProperties
<1> SUFFICES ASSUME NEW d \in 1..Len(frames')
             PROVE  /\ \A c \in Named(frames'[d]) : Owned' \subseteq hi2[c]
                    /\ \A c \in Pending(frames'[d]) : Owned' \subseteq lo2[c]
                    /\ frames'[d].kind \in AllLoopKinds => frames'[d].cond # frames'[d].leave
  BY DEF FramesOwn, Named, Pending
<1>2. CASE d \in 1..Len(frames)
  <2>1. frames # <<>>
    BY <1>1, <1>2, EmptySeq
  <2>2. frames'[d] = frames[d] /\ Owned' = Owned
    BY <1>1, <1>2, <2>1
  <2>3. Named(frames[d]) \subseteq 1..created /\ Pending(frames[d]) \subseteq Named(frames[d])
    BY <1>2, NamedCreated DEF Pending, Named, AllLoopKinds
  <2> QED
    BY <1>2, <2>2, <2>3 DEF FramesOwn
<1>3. CASE d = Len(frames) + 1
  BY <1>1, <1>3
<1> QED
  BY <1>1, <1>2, <1>3

(* A builder that has moved on to an empty block.                          *)
LEMMA BuilderMoves ==
  ASSUME NEW lo, code'[insert'] = <<>>, Owned' \subseteq lo[insert']
  PROVE  BuilderOK(lo)'
<1>1. \A op : SlotsTo(<<>>, op, Ended(<<>>)) = {}
  BY EmptySeqOK
<1>2. BuilderOK(lo)' <=>
        LET s == code'[insert'] IN
        /\ Owned' \subseteq lo[insert'] \cup SlotsTo(s, "new", Ended(s))
        /\ RetFree(s, Ended(s)) => SlotsTo(s, "free", Ended(s)) = {}
  BY DEF BuilderOK, SlotsTo, RetFree, Ended
<1> QED
  BY <1>1, <1>2

(* One that stays, and adds t to its block.                                *)
LEMMA BuilderStays ==
  ASSUME NEW lo, NEW s \in Seq(Instrs), NEW t \in Seq(Instrs), NEW M,
         s = code[insert], BuilderOK(lo), insert' = insert, code'[insert] = s \o t,
         SlotsTo(t, "new", Ended(t)) = M, Owned' \subseteq Owned \cup M,
         RetFree(t, Ended(t)) => SlotsTo(t, "free", Ended(t)) = {}
  PROVE  BuilderOK(lo)'
<1> DEFINE u == s \o t
<1>1. /\ RetFree(u, Ended(u)) <=> RetFree(s, Ended(s)) /\ RetFree(t, Ended(t))
      /\ \A op : SlotsTo(u, op, Ended(u)) = SlotsTo(s, op, Ended(s)) \cup SlotsTo(t, op, Ended(t))
  BY ConcatSlots
<1>2. /\ Owned \subseteq lo[insert] \cup SlotsTo(s, "new", Ended(s))
      /\ RetFree(s, Ended(s)) => SlotsTo(s, "free", Ended(s)) = {}
  BY DEF BuilderOK
<1>3. code'[insert'] = u
  BY Zenon
<1> HIDE DEF u
<1>4. /\ Owned' \subseteq lo[insert] \cup SlotsTo(u, "new", Ended(u))
      /\ RetFree(u, Ended(u)) => SlotsTo(u, "free", Ended(u)) = {}
  BY <1>1, <1>2
<1>5. BuilderOK(lo)' <=>
        /\ Owned' \subseteq lo[insert'] \cup SlotsTo(code'[insert'], "new", Ended(code'[insert']))
        /\ RetFree(code'[insert'], Ended(code'[insert']))
             => SlotsTo(code'[insert'], "free", Ended(code'[insert'])) = {}
  BY DEF BuilderOK, SlotsTo, RetFree, Ended
<1> QED
  BY <1>3, <1>4, <1>5

(* One node: what has to be shown of the code it emits.                    *)
LEMMA EmittedIs ==
  ASSUME NEW lo, NEW hi
  PROVE  Emitted(lo, hi)' <=>
           /\ lo \in [Blocks -> SUBSET Owned'] /\ hi \in [Blocks -> SUBSET Owned']
           /\ lo[Entry] = {} /\ hi[Entry] = {}
           /\ \A b \in 1..created' :
                SeqOK(code'[b], lo[b], hi[b], {}, Owned', lo, hi, created')
           /\ \A b \in Blocks : Known(code'[b], Texts')
           /\ FreesInv'
           /\ phase' = "visit" => BuilderOK(lo)'
           /\ FramesOwn(lo, hi)'
BY DEF Emitted, SeqOK, InstrOK, Known, SlotsTo, RetFree, Ways

LEMMA EmittedNext ==
  ASSUME TypeInv, TypeInv', FreshInv, NEW lo, NEW hi, Emitted(lo, hi),
         FreesInv', Texts \subseteq Texts', Owned \subseteq Owned',
         Texts \cap Owned' \subseteq Owned, created <= created',
         NEW lo2, lo2 \in [Blocks -> SUBSET Owned'],
         NEW hi2, hi2 \in [Blocks -> SUBSET Owned'],
         \A b \in 1..created : lo2[b] = lo[b] /\ hi2[b] = hi[b],
         CodeAdds(code, code', Texts', Owned', lo2, hi2, created'),
         FramesOwn(lo2, hi2)', phase' = "visit" => BuilderOK(lo2)'
  PROVE  Emitted(lo2, hi2)'
<1> DEFINE c == code
           c2 == code'
           n == created
           n2 == created'
           own == Owned
           own2 == Owned'
           T == Texts
           T2 == Texts'
<1>1. /\ c \in [Blocks -> Seq(Instrs)] /\ n \in Nat \ {0} /\ n2 \in Nat /\ n2 \in Blocks
      /\ placed \subseteq 1..n
  BY HereTypes, BlocksFacts DEF TypeInv, TypeOK
<1>2. 1..n2 \subseteq Blocks
  BY <1>1, BlocksFacts DEF Blocks
<1>3. \A b \in 1..n2 : b > n => c[b] = <<>>
  BY <1>1, <1>2 DEF FreshInv
<1>4. CodeOK(c, T, own, lo, hi, n) /\ lo[Entry] = {} /\ hi[Entry] = {}
  BY DEF Emitted, CodeOK
<1>5. \A b \in 1..n : hi[b] \subseteq own /\ lo2[b] = lo[b] /\ hi2[b] = hi[b]
  <2>1. \A b \in 1..n : b \in Blocks
    BY <1>1, <1>2
  <2>2. hi \in [Blocks -> SUBSET own]
    BY DEF Emitted
  <2> QED
    BY <2>1, <2>2
<1>6. Entry \in 1..n
  BY <1>1 DEF Entry
<1>7. n <= n2 /\ own \subseteq own2 /\ T \subseteq T2 /\ T \cap own2 \subseteq own
  OBVIOUS
<1>8. CodeAdds(c, c2, T2, own2, lo2, hi2, n2)
  OBVIOUS
<1> HIDE DEF c, c2, n, n2, own, own2, T, T2
<1>9. CodeOK(c2, T2, own2, lo2, hi2, n2)
  <2>1. n \in Nat
    BY <1>1
  <2> QED
    BY <1>1, <1>2, <1>3, <1>4, <1>5, <1>7, <1>8, <2>1, CodeGrows
<1> USE DEF c, c2, n, n2, own, own2, T, T2
<1>10. lo2[Entry] = {} /\ hi2[Entry] = {}
  BY <1>4, <1>5, <1>6
<1> QED
  BY <1>9, <1>10, EmittedIs DEF CodeOK

EmitInv == \E lo, hi : Emitted(lo, hi)

LEMMA FramesSame ==
  ASSUME NEW lo, NEW hi, FramesOwn(lo, hi), frames' = frames, TypeInv,
         frames # <<>> => Owned' = Owned
  PROVE  FramesOwn(lo, hi)'
<1>1. CASE frames # <<>>
  BY <1>1, FramesKeep
<1>2. CASE frames = <<>>
  <2>1. Len(frames') = 0
    BY <1>2, EmptySeq
  <2> QED
    BY <2>1 DEF FramesOwn
<1> QED
  BY <1>1, <1>2

(* The sets of the blocks of a sub to which more blocks, those behind n,   *)
(* and more texts are added.  The test of a loop that starts is entered    *)
(* with those that were there before it, the others with all.              *)
NewSet(lo, lo2, A, B, n, X) ==
  /\ lo2 \in [Blocks -> SUBSET B]
  /\ \A b \in 1..n : lo2[b] = lo[b]
  /\ \A b \in Blocks : b > n => lo2[b] = IF b \in X THEN A ELSE B

LEMMA NewSets ==
  ASSUME NEW A, NEW B, A \subseteq B, NEW lo, lo \in [Blocks -> SUBSET A],
         NEW n \in Nat, 1..n \subseteq Blocks, NEW X
  PROVE  \E lo2 : NewSet(lo, lo2, A, B, n, X)
<1> DEFINE lo2 == [b \in Blocks |-> IF b \in 1..n THEN lo[b]
                                    ELSE IF b \in X THEN A ELSE B]
<1>1. lo2 \in [Blocks -> SUBSET B]
  OBVIOUS
<1>2. \A b \in 1..n : lo2[b] = lo[b]
  OBVIOUS
<1>3. \A b \in Blocks : b > n => lo2[b] = IF b \in X THEN A ELSE B
  OBVIOUS
<1> HIDE DEF lo2
<1> QED
  BY <1>1, <1>2, <1>3 DEF NewSet

LEMMA EmitStatement ==
  ASSUME TypeInv, TypeInv', FreshInv, DepthInv, EmitInv, NEW m \in 0..1, Statement(m)
  PROVE  EmitInv'
<1>1. PICK lo, hi : Emitted(lo, hi)
  BY DEF EmitInv
<1>2. /\ phase = "visit" /\ prog' = Visited("op", Here) /\ frees' = PushFree(Here, m)
      /\ created' = created /\ frames' = frames /\ insert' = insert
      /\ code' = Emit(code, insert, Eval(Here, m) \o <<Op(Here)>>)
  BY DEF Statement, MayOpen
<1>3. /\ Here \in Nat /\ insert \in Blocks /\ created \in Nat /\ TypeOK /\ insert \in 1..created
      /\ frames \in Seq(Frame)
  BY HereTypes DEF TypeInv, TypeOK
<1>4. /\ FreesInv' /\ Texts \subseteq Texts' /\ Made(Here, m) \subseteq Texts'
      /\ Owned \subseteq Owned' /\ Owned' \subseteq Owned \cup Made(Here, m)
      /\ Texts \cap Owned' \subseteq Owned
      /\ frames # <<>> => Owned' = Owned
  BY <1>1, <1>2, <1>3, TextsGrow DEF Emitted, TextsMore
<1> DEFINE s == code[insert]
           l == lo[insert]
           h == hi[insert]
           x == Op(Here)
           t == Eval(Here, m) \o <<x>>
           L == l \cup SlotsTo(s, "new", Ended(s))
           H == h \cup SlotsTo(s, "new", Ended(s))
           own == Owned'
           n == created'
<1>5. x \in Instrs /\ x.op = "op"
  BY <1>3, OpTypes DEF Op, Instr
<1>6. InstrOK(x, L \cup Made(Here, m), H \cup Made(Here, m), {}, own, lo, hi, n)
  BY <1>5 DEF InstrOK
<1>7. /\ t \in Seq(Instrs) /\ RetFree(t, Ended(t))
      /\ SlotsTo(t, "new", Ended(t)) = Made(Here, m)
      /\ SlotsTo(t, "free", Ended(t)) = {}
      /\ \A T : Made(Here, m) \subseteq T => Known(t, T)
      /\ SeqOK(t, L, H, {}, own, lo, hi, n)
  <2> HIDE DEF x, L, H, own, n
  <2> QED
    BY <1>3, <1>5, <1>6, EvalThen
<1> HIDE DEF t
<1>8. s \in Seq(Instrs) /\ code'[insert] = s \o t /\ \A d \in Blocks \ {insert} : code'[d] = code[d]
  <2>1. code' = Emit(code, insert, t)
    BY <1>2 DEF t
  <2> QED
    BY <1>3, <1>7, <2>1, GrowsInsert
<1>9. BuilderOK(lo)
  BY <1>1, <1>2 DEF Emitted
<1>10. Adds(s, t, l, h, Texts', Owned', lo, hi, created')
  <2>1. RetFree(s, Ended(s)) => SlotsTo(s, "free", Ended(s)) = {}
    BY <1>9 DEF BuilderOK
  <2>2. Known(t, Texts')
    BY <1>4, <1>7
  <2> QED
    BY <1>7, <2>1, <2>2 DEF Adds
<1>11. CodeAdds(code, code', Texts', Owned', lo, hi, created')
  <2>1. \A b \in Blocks : b = insert \/ code'[b] = code[b]
    BY <1>8
  <2> QED
    BY <1>8, <1>10, <2>1 DEF CodeAdds
<1>12. BuilderOK(lo)'
  BY <1>2, <1>4, <1>7, <1>8, <1>9, BuilderStays
<1>13. FramesOwn(lo, hi)'
  BY <1>1, <1>2, <1>4, FramesSame DEF Emitted
<1>14. lo \in [Blocks -> SUBSET Owned'] /\ hi \in [Blocks -> SUBSET Owned']
  <2>1. lo \in [Blocks -> SUBSET Owned] /\ hi \in [Blocks -> SUBSET Owned]
    BY <1>1 DEF Emitted
  <2> QED
    BY <1>4, <2>1
<1>15. created <= created'
  BY <1>2, <1>3
<1>16. Emitted(lo, hi)'
  BY <1>1, <1>4, <1>11, <1>12, <1>13, <1>14, <1>15, EmittedNext
<1> QED
  BY <1>16 DEF EmitInv

(* The blocks and the texts an if or loop starts with.                     *)
LEMMA OpenSets ==
  ASSUME TypeInv, DepthInv, EmitInv, MayOpen, NEW m \in 0..1, NEW X,
         NEW tok \in {"op", "if"} \cup AllLoopKinds,
         prog' = Visited(tok, Here), frees' = PushFree(Here, m)
  PROVE  /\ TextsMore(m)
         /\ \E lo, hi, lo2, hi2 : /\ Emitted(lo, hi) /\ BuilderOK(lo)
                                  /\ NewSet(lo, lo2, Owned, Owned', created, X)
                                  /\ NewSet(hi, hi2, Owned, Owned', created, {})
<1>1. PICK lo, hi : Emitted(lo, hi)
  BY DEF EmitInv
<1>2. /\ Here \in Nat /\ created \in Nat /\ created \in Blocks
  BY HereTypes DEF TypeInv, TypeOK
<1>3. 1..created \subseteq Blocks
  BY <1>2, BlocksFacts DEF Blocks
<1>4. TextsMore(m)
  BY <1>1, <1>2, TextsGrow DEF Emitted
<1>5. BuilderOK(lo) /\ lo \in [Blocks -> SUBSET Owned] /\ hi \in [Blocks -> SUBSET Owned]
  BY <1>1 DEF Emitted, MayOpen
<1> DEFINE A == Owned
           B == Owned'
           n == created
<1>6. A \subseteq B /\ n \in Nat /\ 1..n \subseteq Blocks
      /\ lo \in [Blocks -> SUBSET A] /\ hi \in [Blocks -> SUBSET A]
  BY <1>2, <1>3, <1>4, <1>5 DEF TextsMore
<1> HIDE DEF A, B, n
<1>7. PICK lo2 : NewSet(lo, lo2, A, B, n, X)
  BY <1>6, NewSets
<1>8. PICK hi2 : NewSet(hi, hi2, A, B, n, {})
  BY <1>6, NewSets
<1> QED
  BY <1>1, <1>4, <1>5, <1>7, <1>8 DEF A, B, n

LEMMA BranchOK ==
  ASSUME NEW x, x.op \in {"br", "condbr"}, NEW live, NEW may, NEW own, NEW lo, NEW hi, NEW n,
         \A c \in Ways(x) : c \in 1..n /\ lo[c] \subseteq live /\ own \subseteq hi[c]
  PROVE  InstrOK(x, live, may, {}, own, lo, hi, n)
BY DEF InstrOK

LEMMA EmitEnterIf ==
  ASSUME TypeInv, TypeInv', FreshInv, DepthInv, EmitInv,
         NEW hasElse \in BOOLEAN, NEW m \in 0..1, EnterIf(hasElse, m)
  PROVE  EmitInv'
<1> DEFINE els == IF hasElse THEN created + 3 ELSE created + 1
           f == [kind |-> "then", at |-> Here, cond |-> NoBlock, body |-> created + 2,
                 els |-> els, leave |-> created + 1, before |-> current]
           x == CondBr(Here, created + 2, els)
           t == Eval(Here, m) \o <<x>>
           M == Made(Here, m)
<1>1. /\ MayOpen /\ prog' = Visited("if", Here) /\ frees' = PushFree(Here, m)
      /\ created' = (IF hasElse THEN created + 3 ELSE created + 2)
      /\ frames' = Append(frames, f) /\ insert' = created + 2
      /\ code' = Emit(code, insert, t)
  BY DEF EnterIf
<1>2. TextsMore(m)
  BY <1>1, OpenSets
<1>3. PICK lo, hi, lo2, hi2 :
           /\ Emitted(lo, hi) /\ BuilderOK(lo)
           /\ NewSet(lo, lo2, Owned, Owned', created, {})
           /\ NewSet(hi, hi2, Owned, Owned', created, {})
  BY <1>1, OpenSets
<1>4. /\ lo2 \in [Blocks -> SUBSET Owned'] /\ hi2 \in [Blocks -> SUBSET Owned']
      /\ \A b \in 1..created : lo2[b] = lo[b] /\ hi2[b] = hi[b]
      /\ \A b \in Blocks : b > created => lo2[b] = Owned' /\ hi2[b] = Owned'
  BY <1>3 DEF NewSet
<1>5. /\ Owned \subseteq Owned' /\ Owned' \subseteq Owned \cup M /\ M \subseteq Texts'
      /\ FreesInv' /\ Texts \subseteq Texts' /\ Texts \cap Owned' \subseteq Owned
      /\ frames # <<>> => Owned' = Owned
  BY <1>2 DEF TextsMore
<1>6. /\ Here \in Nat /\ insert \in Blocks /\ created \in Nat \ {0} /\ TypeOK
      /\ insert \in 1..created /\ placed \subseteq 1..created
  BY HereTypes DEF TypeInv
<1>7. /\ created + 1 \in Blocks /\ created + 2 \in Blocks /\ els \in Blocks
      /\ els \in {created + 1, created + 3}
      /\ els \in 1..created' /\ created + 2 \in 1..created' /\ created <= created'
      /\ els > created /\ created + 1 > created /\ created + 2 > created
  BY <1>1, <1>6, RoomForBlocks
<1>8. \A b \in {created + 1, created + 2, els} : lo2[b] = Owned' /\ hi2[b] = Owned'
  BY <1>4, <1>7
<1>9. x \in Instrs /\ x.op = "condbr" /\ Ways(x) = {created + 2, els}
  BY <1>6, <1>7, BranchTypes DEF CondBr, Ways
<1> DEFINE s == code[insert]
           l == lo2[insert]
           h == hi2[insert]
           L == l \cup SlotsTo(s, "new", Ended(s))
           H == h \cup SlotsTo(s, "new", Ended(s))
           own == Owned'
           n == created'
<1>10. l = lo[insert] /\ Owned \subseteq L
      /\ (RetFree(s, Ended(s)) => SlotsTo(s, "free", Ended(s)) = {})
  BY <1>3, <1>4, <1>6 DEF BuilderOK
<1>11. \A c \in Ways(x) : c \in 1..n /\ lo2[c] \subseteq L \cup M /\ own \subseteq hi2[c]
  <2>1. own \subseteq L \cup M
    BY <1>5, <1>10
  <2> HIDE DEF L, M
  <2> QED
    BY <1>7, <1>8, <1>9, <2>1
<1>12. InstrOK(x, L \cup M, H \cup M, {}, own, lo2, hi2, n)
  <2> HIDE DEF x, L, H, M, own, n
  <2> QED
    BY <1>9, <1>11, BranchOK
<1>13. /\ t \in Seq(Instrs) /\ RetFree(t, Ended(t))
       /\ SlotsTo(t, "new", Ended(t)) = M /\ SlotsTo(t, "free", Ended(t)) = {}
       /\ \A T : M \subseteq T => Known(t, T)
       /\ SeqOK(t, L, H, {}, own, lo2, hi2, n)
  <2> HIDE DEF x, L, H, own, n
  <2> QED
    BY <1>6, <1>9, <1>12, EvalThen
<1> HIDE DEF t, x
<1>14. s \in Seq(Instrs) /\ code'[insert] = s \o t /\ \A d \in Blocks \ {insert} : code'[d] = code[d]
  BY <1>1, <1>6, <1>13, GrowsInsert
<1>15. Adds(s, t, l, h, Texts', Owned', lo2, hi2, created')
  <2>1. Known(t, Texts')
    BY <1>5, <1>13
  <2> QED
    BY <1>10, <1>13, <2>1 DEF Adds
<1>16. CodeAdds(code, code', Texts', Owned', lo2, hi2, created')
  <2>1. \A b \in Blocks : b = insert \/ code'[b] = code[b]
    BY <1>14
  <2> QED
    BY <1>14, <1>15, <2>1 DEF CodeAdds
<1>17. BuilderOK(lo2)'
  <2>1. created + 2 \notin placed /\ created + 2 # insert
    BY <1>6
  <2>2. code'[insert'] = <<>>
    BY <1>1, <1>7, <1>14, <2>1 DEF FreshInv
  <2>3. Owned' \subseteq lo2[insert']
    BY <1>1, <1>8
  <2> QED
    BY <2>2, <2>3, BuilderMoves
<1>18. FramesOwn(lo2, hi2)'
  <2>1. f \in Frame
    BY <1>6, <1>7 DEF TypeOK, Frame, FrameKinds
  <2>2. Named(f) \subseteq {created + 1, els} /\ Pending(f) \subseteq {created + 1, els}
    BY DEF Named, Pending, AllLoopKinds
  <2>3. /\ \A c \in Named(f) : Owned' \subseteq hi2[c]
        /\ \A c \in Pending(f) : Owned' \subseteq lo2[c]
        /\ f.kind \notin AllLoopKinds
    BY <1>8, <2>2 DEF AllLoopKinds
  <2> HIDE DEF f
  <2>4. FramesOwn(lo, hi)
    BY <1>3 DEF Emitted
  <2> QED
    BY <1>1, <1>4, <1>5, <2>1, <2>3, <2>4, FramesMore
<1>19. Emitted(lo2, hi2)'
  BY <1>3, <1>4, <1>5, <1>7, <1>16, <1>17, <1>18, EmittedNext
<1> QED
  BY <1>19 DEF EmitInv

(* A branch out of the insertion block.                                    *)
LEMMA JumpAdds ==
  ASSUME TypeInv, NEW lo, BuilderOK(lo), NEW lo2, NEW hi2, NEW own, NEW T, NEW n,
         lo2[insert] = lo[insert], NEW b \in Blocks, b \in 1..n,
         lo2[b] \subseteq Owned, own \subseteq hi2[b]
  PROVE  Adds(code[insert], <<Br(Here, b)>>, lo2[insert], hi2[insert], T, own, lo2, hi2, n)
<1> DEFINE s == code[insert]
           x == Br(Here, b)
           t == <<x>>
           L == lo2[insert] \cup SlotsTo(s, "new", Ended(s))
           H == hi2[insert] \cup SlotsTo(s, "new", Ended(s))
<1>1. Here \in Nat
  BY HereTypes DEF TypeInv
<1>2. x \in Instrs /\ x.op = "br" /\ Ways(x) = {b}
  BY <1>1, BranchTypes DEF Br, Ways
<1>3. /\ lo2[b] \subseteq L
      /\ RetFree(s, Ended(s)) => SlotsTo(s, "free", Ended(s)) = {}
  BY DEF BuilderOK
<1> HIDE DEF x, L, H
<1>4. InstrOK(x, L, H, {}, own, lo2, hi2, n)
  BY <1>2, <1>3, BranchOK
<1>5. t \in Seq(Instrs) /\ Known(t, T) /\ SeqOK(t, L, H, {}, own, lo2, hi2, n)
  BY <1>2, <1>4, SingleSlots, SingleSeq
<1> HIDE DEF t
<1>6. Adds(s, t, lo2[insert], hi2[insert], T, own, lo2, hi2, n)
  BY <1>3, <1>5 DEF Adds, L, H
<1> QED
  BY <1>6 DEF t, x

(* The test of a loop, in a block of its own.                              *)
LEMMA TestAdds ==
  ASSUME NEW i \in Nat, NEW m \in 0..1, NEW b \in Blocks, NEW c \in Blocks,
         NEW live, NEW may, NEW lo, NEW hi, NEW own, NEW T, NEW n,
         Made(i, m) \subseteq T,
         \A d \in {b, c} : d \in 1..n /\ lo[d] \subseteq live \cup Made(i, m)
                                     /\ own \subseteq hi[d]
  PROVE  LET t == Eval(i, m) \o <<CondBr(i, b, c)>> IN
         /\ Adds(<<>>, t, live, may, T, own, lo, hi, n)
         /\ t \in Seq(Instrs)
<1> DEFINE x == CondBr(i, b, c)
           t == Eval(i, m) \o <<x>>
           M == Made(i, m)
<1>1. x \in Instrs /\ x.op = "condbr" /\ Ways(x) = {b, c}
  BY BranchTypes DEF CondBr, Ways
<1>2. SlotsTo(<<>>, "free", Ended(<<>>)) = {} /\ SlotsTo(<<>>, "new", Ended(<<>>)) = {}
  BY EmptySeqOK
<1> HIDE DEF x
<1>3. InstrOK(x, live \cup M, may \cup M, {}, own, lo, hi, n)
  <2> DEFINE L == live \cup M
             H == may \cup M
  <2>1. \A d \in Ways(x) : d \in 1..n /\ lo[d] \subseteq L /\ own \subseteq hi[d]
    BY <1>1
  <2> HIDE DEF L, H
  <2>2. InstrOK(x, L, H, {}, own, lo, hi, n)
    BY <1>1, <2>1, BranchOK
  <2> QED
    BY <2>2 DEF L, H
<1>4. t \in Seq(Instrs) /\ Known(t, T) /\ SeqOK(t, live, may, {}, own, lo, hi, n)
  BY <1>1, <1>3, EvalThen
<1> HIDE DEF t
<1>5. live \cup SlotsTo(<<>>, "new", Ended(<<>>)) = live
      /\ may \cup SlotsTo(<<>>, "new", Ended(<<>>)) = may
  BY <1>2
<1>6. Adds(<<>>, t, live, may, T, own, lo, hi, n)
  BY <1>2, <1>4, <1>5 DEF Adds
<1> QED
  BY <1>4, <1>6 DEF t, x

(* Below the top level the texts that every path creates stay the same.    *)
LEMMA InnerSame ==
  ASSUME TypeInv, DepthInv, NEW lo, NEW hi, Emitted(lo, hi), frames # <<>>,
         NEW m \in 0..1, NEW tok, NEW at \in Nat,
         tok \in {"op", "if", "else", "endif", "ret", "endloop"} \cup AllLoopKinds,
         prog' = Visited(tok, at), frees' = PushFree(Here, m)
  PROVE  /\ Owned' = Owned /\ FreesInv'
         /\ Texts \subseteq Texts' /\ Made(Here, m) \subseteq Texts'
         /\ Texts \cap Owned' \subseteq Owned
         /\ lo \in [Blocks -> SUBSET Owned'] /\ hi \in [Blocks -> SUBSET Owned']
<1>1. TextsMore(m)
  BY TextsGrow DEF Emitted
<1>2. lo \in [Blocks -> SUBSET Owned] /\ hi \in [Blocks -> SUBSET Owned]
  BY DEF Emitted
<1> QED
  BY <1>1, <1>2 DEF TextsMore

LEMMA EmitEnterElse ==
  ASSUME TypeInv, TypeInv', FreshInv, DepthInv, EmitInv, EnterElse
  PROVE  EmitInv'
<1>1. PICK lo, hi : Emitted(lo, hi)
  BY DEF EmitInv
<1>2. /\ phase = "visit" /\ frames # <<>> /\ Top.kind = "then" /\ Top.els # Top.leave
      /\ code' = Emit(code, insert, <<Br(Here, Top.leave)>>)
      /\ insert' = Top.els /\ prog' = Visited("else", Top.at)
      /\ created' = created /\ frees' = PushFree(Here, 0)
      /\ frames' = [frames EXCEPT ![Len(frames)].kind = "else"]
  BY DEF EnterElse, JumpTo, PushFree
<1>3. /\ Top \in Frame /\ Top.at \in Nat /\ Top.leave \in Blocks /\ Top.els \in Blocks
      /\ Len(frames) \in Nat \ {0} /\ Top = frames[Len(frames)]
      /\ Top.leave \in 1..created /\ insert \in placed /\ insert \in 1..created
      /\ created \in Nat /\ frames \in Seq(Frame) /\ insert \in Blocks
  <2>1. created \in Nat /\ insert \in placed /\ placed \subseteq 1..created /\ insert \in Blocks
    BY HereTypes DEF TypeInv
  <2>2. 2..created \subseteq 1..created
    BY <2>1
  <2> QED
    BY <1>2, <2>1, <2>2, TopTypes DEF Frame, FrameOK, Top, TypeInv, TypeOK
<1>4. /\ Owned' = Owned /\ FreesInv'
      /\ Texts \subseteq Texts' /\ Texts \cap Owned' \subseteq Owned
      /\ lo \in [Blocks -> SUBSET Owned'] /\ hi \in [Blocks -> SUBSET Owned']
  BY <1>1, <1>2, <1>3, InnerSame
<1>5. BuilderOK(lo) /\ FramesOwn(lo, hi)
  BY <1>1, <1>2 DEF Emitted
<1>6. /\ Top.leave \in Named(Top) /\ Top.els \in Pending(Top)
      /\ Owned \subseteq hi[Top.leave] /\ Owned \subseteq lo[Top.els]
      /\ code[Top.els] = <<>> /\ Top.els # insert
  <2>1. Len(frames) \in 1..Len(frames)
    BY <1>3
  <2>2. Top.leave \in Named(Top) /\ Top.els \in Pending(Top)
    BY <1>2 DEF Named, Pending
  <2>3. Owned \subseteq hi[Top.leave] /\ Owned \subseteq lo[Top.els]
    BY <1>3, <1>5, <2>1, <2>2 DEF FramesOwn
  <2>4. Top.els \notin placed
    BY <1>3, <2>1, <2>2 DEF FreshInv
  <2> QED
    BY <1>3, <2>2, <2>3, <2>4 DEF FreshInv
<1> DEFINE t == <<Br(Here, Top.leave)>>
<1>7. Adds(code[insert], t, lo[insert], hi[insert], Texts', Owned', lo, hi, created')
  <2>1. lo[Top.leave] \subseteq Owned
    BY <1>3, <1>4
  <2>2. Top.leave \in 1..created' /\ Owned' \subseteq hi[Top.leave]
    BY <1>2, <1>3, <1>4, <1>6
  <2> DEFINE own == Owned'
             n == created'
             T == Texts'
             b == Top.leave
  <2>3. b \in Blocks /\ b \in 1..n /\ lo[b] \subseteq Owned /\ own \subseteq hi[b]
    BY <1>3, <2>1, <2>2
  <2> HIDE DEF own, n, T, b
  <2>4. Adds(code[insert], <<Br(Here, b)>>, lo[insert], hi[insert], T, own, lo, hi, n)
    BY <1>5, <2>3, JumpAdds
  <2> QED
    BY <2>4 DEF own, n, T, b
<1>8. t \in Seq(Instrs)
  BY <1>7 DEF Adds
<1> HIDE DEF t
<1>9. code'[insert] = code[insert] \o t /\ \A d \in Blocks \ {insert} : code'[d] = code[d]
  <2>1. code' = Emit(code, insert, t)
    BY <1>2 DEF t
  <2> QED
    BY <1>8, <2>1, GrowsInsert DEF TypeInv
<1>10. CodeAdds(code, code', Texts', Owned', lo, hi, created')
  <2>1. \A b \in Blocks : b = insert \/ code'[b] = code[b]
    BY <1>9
  <2> QED
    BY <1>7, <1>9, <2>1 DEF CodeAdds
<1>11. BuilderOK(lo)'
  <2>1. code'[insert'] = <<>> /\ Owned' \subseteq lo[insert']
    BY <1>2, <1>3, <1>4, <1>6, <1>9
  <2> QED
    BY <2>1, BuilderMoves
<1>12. FramesOwn(lo, hi)'
  <2>1. /\ Len(frames') = Len(frames)
        /\ \A i \in 1..(Len(frames) - 1) : frames'[i] = frames[i]
        /\ frames'[Len(frames)] = [Top EXCEPT !.kind = "else"]
    BY <1>2, <1>3, ElseFrames
  <2>2. /\ Named([Top EXCEPT !.kind = "else"]) \subseteq Named(Top)
        /\ Pending([Top EXCEPT !.kind = "else"]) \subseteq Pending(Top)
        /\ [Top EXCEPT !.kind = "else"].kind \notin AllLoopKinds
    BY <1>3 DEF Named, Pending, AllLoopKinds, Frame
  <2>3. \A d \in 1..Len(frames') : d \in 1..(Len(frames) - 1) \/ d = Len(frames)
    BY <1>3, <2>1
  <2> QED
    BY <1>3, <1>4, <1>5, <2>1, <2>2, <2>3, FramesKeep
<1>13. created <= created'
  BY <1>2, <1>3
<1>14. Emitted(lo, hi)'
  BY <1>1, <1>4, <1>10, <1>11, <1>12, <1>13, EmittedNext
<1> QED
  BY <1>14 DEF EmitInv

(* An if or loop that ends with a branch to b and goes on in leave.        *)
LEMMA EmitLeave ==
  ASSUME TypeInv, TypeInv', FreshInv, NEW lo, NEW hi, Emitted(lo, hi), phase = "visit",
         frames # <<>>, Rejoin({}), created' = created,
         NEW b \in Named(Top), b \in Blocks, b \in 1..created,
         code' = Emit(code, insert, <<Br(Here, b)>>),
         Owned' = Owned, FreesInv', Texts \subseteq Texts', Texts \cap Owned' \subseteq Owned,
         lo \in [Blocks -> SUBSET Owned'], hi \in [Blocks -> SUBSET Owned']
  PROVE  Emitted(lo, hi)'
<1>1. insert' = Top.leave /\ frames' = Pop
  BY DEF Rejoin
<1>2. /\ Top \in Frame /\ Top.leave \in Blocks /\ Pop \in Seq(Frame)
      /\ Len(frames) \in Nat \ {0} /\ Top = frames[Len(frames)] /\ Len(Pop) = Len(frames) - 1
      /\ \A i \in 1..Len(Pop) : Pop[i] = frames[i]
      /\ insert \in placed /\ created \in Nat /\ insert \in Blocks
  BY TopTypes, HereTypes DEF Top, TypeInv
<1>3. BuilderOK(lo) /\ FramesOwn(lo, hi)
  BY DEF Emitted
<1>4. /\ Owned \subseteq hi[b] /\ Owned \subseteq lo[Top.leave]
      /\ code[Top.leave] = <<>> /\ Top.leave # insert
  <2>1. Len(frames) \in 1..Len(frames)
    BY <1>2
  <2>2. Top.leave \in Pending(Top)
    BY DEF Pending
  <2>3. Owned \subseteq hi[b] /\ Owned \subseteq lo[Top.leave]
    BY <1>2, <1>3, <2>1, <2>2 DEF FramesOwn
  <2>4. Top.leave \notin placed
    BY <1>2, <2>1, <2>2 DEF FreshInv
  <2> QED
    BY <1>2, <2>3, <2>4 DEF FreshInv
<1> DEFINE t == <<Br(Here, b)>>
<1>5. Adds(code[insert], t, lo[insert], hi[insert], Texts', Owned', lo, hi, created')
  <2> DEFINE own == Owned'
             n == created'
             T == Texts'
  <2>1. b \in 1..n /\ lo[b] \subseteq Owned /\ own \subseteq hi[b]
    BY <1>4
  <2> HIDE DEF own, n, T
  <2>2. Adds(code[insert], <<Br(Here, b)>>, lo[insert], hi[insert], T, own, lo, hi, n)
    BY <1>3, <2>1, JumpAdds
  <2> QED
    BY <2>2 DEF own, n, T
<1>6. t \in Seq(Instrs) /\ code' = Emit(code, insert, t)
  BY <1>5 DEF Adds
<1> HIDE DEF t
<1>7. code'[insert] = code[insert] \o t /\ \A d \in Blocks \ {insert} : code'[d] = code[d]
  BY <1>6, GrowsInsert DEF TypeInv
<1>8. CodeAdds(code, code', Texts', Owned', lo, hi, created')
  <2>1. \A d \in Blocks : d = insert \/ code'[d] = code[d]
    BY <1>7
  <2> QED
    BY <1>5, <1>7, <2>1 DEF CodeAdds
<1>9. BuilderOK(lo)'
  <2>1. code'[insert'] = <<>> /\ Owned' \subseteq lo[insert']
    BY <1>1, <1>2, <1>4, <1>7
  <2> QED
    BY <2>1, BuilderMoves
<1>10. FramesOwn(lo, hi)'
  <2>1. \A d \in 1..Len(frames') : d \in 1..Len(frames) /\ frames'[d] = frames[d]
    BY <1>1, <1>2
  <2> QED
    BY <1>3, <2>1, FramesKeep
<1>11. created <= created' /\ Owned \subseteq Owned'
  BY <1>2
<1> QED
  BY <1>8, <1>9, <1>10, <1>11, EmittedNext

LEMMA EmitEndIf ==
  ASSUME TypeInv, TypeInv', FreshInv, DepthInv, EmitInv, EndIf
  PROVE  EmitInv'
<1>1. PICK lo, hi : Emitted(lo, hi)
  BY DEF EmitInv
<1>2. /\ phase = "visit" /\ frames # <<>> /\ Rejoin({}) /\ created' = created
      /\ code' = Emit(code, insert, <<Br(Here, Top.leave)>>)
      /\ prog' = Visited("endif", Top.at) /\ frees' = PushFree(Here, 0)
  BY DEF EndIf, JumpTo, PushFree
<1>3. /\ Top.at \in Nat /\ Top.leave \in Blocks /\ Top.leave \in 2..created
      /\ created \in Nat
  BY <1>2, TopTypes, HereTypes DEF Frame, FrameOK, TypeInv
<1>4. Top.leave \in Named(Top) /\ Top.leave \in 1..created
  BY <1>3 DEF Named
<1>5. /\ Owned' = Owned /\ FreesInv'
      /\ Texts \subseteq Texts' /\ Texts \cap Owned' \subseteq Owned
      /\ lo \in [Blocks -> SUBSET Owned'] /\ hi \in [Blocks -> SUBSET Owned']
  BY <1>1, <1>2, <1>3, InnerSame
<1>6. Emitted(lo, hi)'
  BY <1>1, <1>2, <1>3, <1>4, <1>5, EmitLeave
<1> QED
  BY <1>6 DEF EmitInv

(* The frame of a loop that starts.                                        *)
LEMMA LoopOwns ==
  ASSUME TypeInv, NEW kind \in LoopKinds, NEW lo, NEW hi, NEW lo2, NEW hi2,
         FramesOwn(lo, hi), frames # <<>> => Owned' = Owned, MayOpen,
         \A b \in 1..created : lo2[b] = lo[b] /\ hi2[b] = hi[b],
         \A b \in {created + 1, created + 2, created + 3} : hi2[b] = Owned',
         lo2[created + 3] = Owned', kind = "doWhile" => lo2[created + 1] = Owned',
         frames' = Append(frames, [kind |-> kind, at |-> Here, cond |-> created + 1,
                                   body |-> created + 2, els |-> NoBlock,
                                   leave |-> created + 3, before |-> current])
  PROVE  FramesOwn(lo2, hi2)'
<1> DEFINE f == [kind |-> kind, at |-> Here, cond |-> created + 1,
                 body |-> created + 2, els |-> NoBlock,
                 leave |-> created + 3, before |-> current]
<1>1. /\ created \in Nat /\ Here \in Nat /\ created + 1 \in Blocks /\ created + 2 \in Blocks
      /\ created + 3 \in Blocks /\ kind \in AllLoopKinds
  BY HereTypes, RoomForBlocks, LoopKindsAssumption DEF TypeInv
<1>2. f \in Frame
  BY <1>1 DEF TypeInv, TypeOK, Frame, FrameKinds
<1>3. /\ Named(f) = {created + 1, created + 2, created + 3}
      /\ Pending(f) = {created + 3} \cup (IF kind = "doWhile" THEN {created + 1} ELSE {})
      /\ f.cond # f.leave
  BY <1>1 DEF Named, Pending, AllLoopKinds
<1>4. /\ \A c \in Named(f) : Owned' \subseteq hi2[c]
      /\ \A c \in Pending(f) : Owned' \subseteq lo2[c]
  BY <1>3
<1> HIDE DEF f
<1>5. frames' = Append(frames, f)
  BY DEF f
<1> QED
  BY <1>2, <1>3, <1>4, <1>5, FramesMore

LEMMA EmitEnterOtherLoop ==
  ASSUME TypeInv, TypeInv', FreshInv, DepthInv, EmitInv,
         NEW kind \in LoopKinds, EnterOtherLoop(kind)
  PROVE  EmitInv'
<1>1. /\ MayOpen /\ prog' = Visited(kind, Here) /\ frees' = PushFree(Here, 0)
      /\ created' = created + 3 /\ code' = code /\ insert' = created + 2
      /\ frames' = Append(frames, [kind |-> kind, at |-> Here, cond |-> created + 1,
                                   body |-> created + 2, els |-> NoBlock,
                                   leave |-> created + 3, before |-> current])
      /\ kind \in {"op", "if"} \cup AllLoopKinds /\ 0 \in 0..1
  BY LoopKindsAssumption DEF EnterOtherLoop, PushFree
<1>2. TextsMore(0)
  BY <1>1, OpenSets
<1>3. PICK lo, hi, lo2, hi2 :
           /\ Emitted(lo, hi) /\ BuilderOK(lo)
           /\ NewSet(lo, lo2, Owned, Owned', created, {})
           /\ NewSet(hi, hi2, Owned, Owned', created, {})
  BY <1>1, OpenSets
<1>4. /\ lo2 \in [Blocks -> SUBSET Owned'] /\ hi2 \in [Blocks -> SUBSET Owned']
      /\ \A b \in 1..created : lo2[b] = lo[b] /\ hi2[b] = hi[b]
      /\ \A b \in Blocks : b > created => lo2[b] = Owned' /\ hi2[b] = Owned'
  BY <1>3 DEF NewSet
<1>5. /\ Owned \subseteq Owned' /\ FreesInv' /\ Texts \subseteq Texts'
      /\ Texts \cap Owned' \subseteq Owned
      /\ frames # <<>> => Owned' = Owned
  BY <1>2 DEF TextsMore
<1>6. /\ created \in Nat /\ placed \subseteq 1..created
      /\ created + 1 \in Blocks /\ created + 2 \in Blocks /\ created + 3 \in Blocks
      /\ created <= created'
  BY <1>1, HereTypes, RoomForBlocks DEF TypeInv
<1>7. \A b \in {created + 1, created + 2, created + 3} : lo2[b] = Owned' /\ hi2[b] = Owned'
  BY <1>4, <1>6
<1>8. CodeAdds(code, code', Texts', Owned', lo2, hi2, created')
  BY <1>1 DEF CodeAdds
<1>9. BuilderOK(lo2)'
  <2>1. created + 2 \notin placed
    BY <1>6
  <2>2. code'[insert'] = <<>> /\ Owned' \subseteq lo2[insert']
    BY <1>1, <1>6, <1>7, <2>1 DEF FreshInv
  <2> QED
    BY <2>2, BuilderMoves
<1>10. FramesOwn(lo2, hi2)'
  <2>1. FramesOwn(lo, hi)
    BY <1>3 DEF Emitted
  <2> QED
    BY <1>1, <1>4, <1>5, <1>7, <2>1, LoopOwns
<1>11. Emitted(lo2, hi2)'
  BY <1>3, <1>4, <1>5, <1>6, <1>8, <1>9, <1>10, EmittedNext
<1> QED
  BY <1>11 DEF EmitInv

LEMMA EmitEnterTestedLoop ==
  ASSUME TypeInv, TypeInv', FreshInv, DepthInv, EmitInv,
         NEW kind \in LoopKinds, NEW m \in 0..1, EnterTestedLoop(kind, m)
  PROVE  EmitInv'
<1> DEFINE M == Made(Here, m)
           cond == created + 1
           t == Eval(Here, m) \o <<CondBr(Here, created + 2, created + 3)>>
           j == <<Br(Here, cond)>>
<1>1. /\ MayOpen /\ prog' = Visited(kind, Here) /\ frees' = PushFree(Here, m)
      /\ created' = created + 3 /\ insert' = created + 2
      /\ frames' = Append(frames, [kind |-> kind, at |-> Here, cond |-> created + 1,
                                   body |-> created + 2, els |-> NoBlock,
                                   leave |-> created + 3, before |-> current])
      /\ kind \in {"op", "if"} \cup AllLoopKinds /\ kind # "doWhile"
  BY LoopKindsAssumption DEF EnterTestedLoop
<1>2. TextsMore(m)
  BY <1>1, OpenSets
<1>3. PICK lo, hi, lo2, hi2 :
           /\ Emitted(lo, hi) /\ BuilderOK(lo)
           /\ NewSet(lo, lo2, Owned, Owned', created, {cond})
           /\ NewSet(hi, hi2, Owned, Owned', created, {})
  BY <1>1, OpenSets
<1>4. /\ lo2 \in [Blocks -> SUBSET Owned'] /\ hi2 \in [Blocks -> SUBSET Owned']
      /\ \A b \in 1..created : lo2[b] = lo[b] /\ hi2[b] = hi[b]
      /\ \A b \in Blocks : b > created =>
           lo2[b] = (IF b \in {cond} THEN Owned ELSE Owned') /\ hi2[b] = Owned'
  BY <1>3 DEF NewSet
<1>5. /\ Owned \subseteq Owned' /\ Owned' \subseteq Owned \cup M /\ M \subseteq Texts'
      /\ FreesInv' /\ Texts \subseteq Texts' /\ Texts \cap Owned' \subseteq Owned
      /\ frames # <<>> => Owned' = Owned
  BY <1>2 DEF TextsMore
<1>6. /\ created \in Nat /\ placed \subseteq 1..created /\ Here \in Nat
      /\ insert \in placed /\ insert \in Blocks
      /\ created + 1 \in Blocks /\ created + 2 \in Blocks /\ created + 3 \in Blocks
      /\ created <= created'
  BY <1>1, HereTypes, RoomForBlocks DEF TypeInv
<1>7. /\ hi2[cond] = Owned' /\ lo2[cond] = Owned
      /\ \A b \in {created + 2, created + 3} : lo2[b] = Owned' /\ hi2[b] = Owned'
  BY <1>4, <1>6
<1>8. /\ code'[insert] = code[insert] \o j
      /\ code'[cond] = code[cond] \o t
      /\ \A d \in Blocks \ {insert, cond} : code'[d] = code[d]
  BY EnterLoopCode DEF TypeInv
<1>9. Adds(code[insert], j, lo2[insert], hi2[insert], Texts', Owned', lo2, hi2, created')
  <2> DEFINE own == Owned'
             n == created'
             T == Texts'
             b == cond
  <2>1. /\ b \in Blocks /\ b \in 1..n /\ lo2[b] \subseteq Owned /\ own \subseteq hi2[b]
        /\ lo2[insert] = lo[insert] /\ BuilderOK(lo)
    BY <1>1, <1>3, <1>4, <1>6, <1>7
  <2> HIDE DEF own, n, T, b
  <2>2. Adds(code[insert], <<Br(Here, b)>>, lo2[insert], hi2[insert], T, own, lo2, hi2, n)
    BY <2>1, JumpAdds
  <2> QED
    BY <2>2 DEF own, n, T, b
<1>10. Adds(code[cond], t, lo2[cond], hi2[cond], Texts', Owned', lo2, hi2, created')
  <2> DEFINE own == Owned'
             n == created'
             T == Texts'
             b == created + 2
             c == created + 3
             live == lo2[cond]
             may == hi2[cond]
             i == Here
  <2>1. b \in Blocks /\ c \in Blocks /\ i \in Nat
    BY <1>6
  <2>2. \A d \in {b, c} : d \in 1..n /\ lo2[d] \subseteq live \cup Made(i, m)
                                    /\ own \subseteq hi2[d]
    BY <1>1, <1>5, <1>6, <1>7
  <2>3. Made(i, m) \subseteq T
    BY <1>5
  <2>4. code[cond] = <<>>
    BY <1>6 DEF FreshInv
  <2> HIDE DEF own, n, T, b, c, live, may, i
  <2>5. Adds(<<>>, Eval(i, m) \o <<CondBr(i, b, c)>>, live, may, T, own, lo2, hi2, n)
    BY <2>1, <2>2, <2>3, TestAdds
  <2> QED
    BY <2>4, <2>5 DEF own, n, T, b, c, live, may, i
<1> HIDE DEF t, j
<1>11. CodeAdds(code, code', Texts', Owned', lo2, hi2, created')
  <2>1. \A b \in Blocks : b = insert \/ b = cond \/ code'[b] = code[b]
    BY <1>8
  <2> HIDE DEF cond
  <2> QED
    BY <1>8, <1>9, <1>10, <2>1 DEF CodeAdds
<1>12. BuilderOK(lo2)'
  <2>1. created + 2 \notin placed /\ created + 2 # cond /\ created + 2 # insert
    BY <1>6
  <2>2. code'[insert'] = <<>> /\ Owned' \subseteq lo2[insert']
    BY <1>1, <1>6, <1>7, <1>8, <2>1 DEF FreshInv
  <2> QED
    BY <2>2, BuilderMoves
<1>13. FramesOwn(lo2, hi2)'
  <2>1. FramesOwn(lo, hi)
    BY <1>3 DEF Emitted
  <2> QED
    BY <1>1, <1>4, <1>5, <1>7, <2>1, LoopOwns
<1>14. Emitted(lo2, hi2)'
  BY <1>3, <1>4, <1>5, <1>6, <1>11, <1>12, <1>13, EmittedNext
<1> QED
  BY <1>14 DEF EmitInv

LEMMA EmitEndLoop ==
  ASSUME TypeInv, TypeInv', FreshInv, DepthInv, EmitInv, NEW m \in 0..1, EndLoop(m)
  PROVE  EmitInv'
<1> DEFINE M == Made(Here, m)
           cond == Top.cond
           t == Eval(Here, m) \o <<CondBr(Here, Top.body, Top.leave)>>
           j == <<Br(Here, cond)>>
<1>1. PICK lo, hi : Emitted(lo, hi)
  BY DEF EmitInv
<1>2. /\ phase = "visit" /\ frames # <<>> /\ created' = created
      /\ prog' = Visited("endloop", Top.at) /\ frees' = PushFree(Here, m)
      /\ Top.kind \in AllLoopKinds /\ insert' = Top.leave /\ frames' = Pop
  BY DEF EndLoop, Rejoin
<1>3. /\ Top \in Frame /\ Top.at \in Nat /\ Top.leave \in Blocks /\ cond \in Blocks
      /\ Top.body \in Blocks
      /\ Top.leave \in 1..created /\ cond \in 1..created /\ Top.body \in 1..created
      /\ created \in Nat /\ Here \in Nat /\ insert \in placed /\ insert \in Blocks
      /\ Len(frames) \in Nat \ {0} /\ Top = frames[Len(frames)] /\ Len(Pop) = Len(frames) - 1
      /\ \A i \in 1..Len(Pop) : Pop[i] = frames[i]
  <2>1. /\ created \in Nat /\ Here \in Nat /\ insert \in placed /\ insert \in Blocks
        /\ placed \subseteq 1..created
    BY HereTypes DEF TypeInv
  <2>2. 2..created \subseteq 1..created
    BY <2>1
  <2> QED
    BY <1>2, <2>1, <2>2, TopTypes DEF Frame, FrameOK, Top
<1>4. /\ Owned' = Owned /\ FreesInv' /\ M \subseteq Texts'
      /\ Texts \subseteq Texts' /\ Texts \cap Owned' \subseteq Owned
      /\ lo \in [Blocks -> SUBSET Owned'] /\ hi \in [Blocks -> SUBSET Owned']
  BY <1>1, <1>2, <1>3, InnerSame
<1>5. BuilderOK(lo) /\ FramesOwn(lo, hi)
  BY <1>1, <1>2 DEF Emitted
<1>6. Named(Top) = {Top.leave, cond, Top.body}
  BY <1>2 DEF Named, AllLoopKinds
<1>7. CASE Top.kind # "doWhile"
  <2>1. Rejoin({}) /\ code' = Emit(code, insert, <<Br(Here, cond)>>)
    BY <1>7 DEF EndLoop, JumpTo
  <2>2. cond \in Named(Top)
    BY <1>6
  <2>3. Emitted(lo, hi)'
    BY <1>1, <1>2, <1>3, <1>4, <2>1, <2>2, EmitLeave
  <2> QED
    BY <2>3 DEF EmitInv
<1>8. CASE Top.kind = "doWhile"
  <2>1. code' = Emit(JumpTo(cond), cond, t)
    BY <1>8 DEF EndLoop
  <2>2. /\ Owned \subseteq hi[cond] /\ Owned \subseteq hi[Top.body] /\ Owned \subseteq hi[Top.leave]
        /\ Owned \subseteq lo[Top.leave] /\ Owned \subseteq lo[cond] /\ cond # Top.leave
        /\ code[cond] = <<>> /\ code[Top.leave] = <<>>
        /\ cond # insert /\ Top.leave # insert
    <3>1. Len(frames) \in 1..Len(frames)
      BY <1>3
    <3>2. Pending(Top) = {Top.leave, cond}
      BY <1>8 DEF Pending
    <3>3. Top.leave \notin placed /\ cond \notin placed
      BY <1>3, <3>1, <3>2 DEF FreshInv
    <3>4. code[cond] = <<>> /\ code[Top.leave] = <<>>
      BY <1>3, <3>3 DEF FreshInv
    <3> QED
      BY <1>2, <1>3, <1>5, <1>6, <3>1, <3>2, <3>3, <3>4 DEF FramesOwn
  <2>3. Adds(code[insert], j, lo[insert], hi[insert], Texts', Owned', lo, hi, created')
    <3> DEFINE own == Owned'
               n == created'
               T == Texts'
               b == cond
    <3>1. /\ b \in Blocks /\ b \in 1..n /\ lo[b] \subseteq Owned /\ own \subseteq hi[b]
          /\ BuilderOK(lo)
      BY <1>2, <1>3, <1>4, <1>5, <2>2
    <3> HIDE DEF own, n, T, b
    <3>2. Adds(code[insert], <<Br(Here, b)>>, lo[insert], hi[insert], T, own, lo, hi, n)
      BY <3>1, JumpAdds
    <3> QED
      BY <3>2 DEF own, n, T, b
  <2>4. Adds(code[cond], t, lo[cond], hi[cond], Texts', Owned', lo, hi, created') /\ t \in Seq(Instrs)
    <3> DEFINE own == Owned'
               n == created'
               T == Texts'
               b == Top.body
               c == Top.leave
               live == lo[cond]
               may == hi[cond]
               i == Here
    <3>1. b \in Blocks /\ c \in Blocks /\ i \in Nat
      BY <1>3
    <3>2. \A d \in {b, c} : d \in 1..n /\ lo[d] \subseteq live \cup Made(i, m)
                                      /\ own \subseteq hi[d]
      BY <1>2, <1>3, <1>4, <2>2
    <3>3. Made(i, m) \subseteq T
      BY <1>4
    <3>4. code[cond] = <<>>
      BY <2>2
    <3> HIDE DEF own, n, T, b, c, live, may, i
    <3>5. Adds(<<>>, Eval(i, m) \o <<CondBr(i, b, c)>>, live, may, T, own, lo, hi, n)
      BY <3>1, <3>2, <3>3, TestAdds
    <3>6. Adds(code[cond], t, lo[cond], hi[cond], Texts', Owned', lo, hi, created')
      BY <3>4, <3>5 DEF own, n, T, b, c, live, may, i
    <3> QED
      BY <3>6 DEF Adds
  <2>5. /\ code'[insert] = code[insert] \o j
        /\ code'[cond] = code[cond] \o t
        /\ \A d \in Blocks \ {insert, cond} : code'[d] = code[d]
    <3>1. /\ JumpTo(cond) \in [Blocks -> Seq(Instrs)]
          /\ JumpTo(cond)[insert] = code[insert] \o j
          /\ \A d \in Blocks \ {insert} : JumpTo(cond)[d] = code[d]
      BY <1>3, JumpCode DEF TypeInv
    <3> DEFINE c1 == JumpTo(cond)
    <3> HIDE DEF t, c1, cond
    <3>2. c1 \in [Blocks -> Seq(Instrs)] /\ code' = Emit(c1, cond, t) /\ cond \in Blocks
      BY <1>3, <2>1, <3>1 DEF c1
    <3>3. /\ Emit(c1, cond, t)[cond] = c1[cond] \o t
          /\ \A d \in Blocks \ {cond} : Emit(c1, cond, t)[d] = c1[d]
      <4>1. t \in Seq(Instrs)
        BY <2>4
      <4> QED
        BY <3>2, <4>1, EmitTypes
    <3> QED
      BY <1>3, <2>2, <3>1, <3>2, <3>3 DEF c1
  <2> HIDE DEF t, j
  <2>6. CodeAdds(code, code', Texts', Owned', lo, hi, created')
    <3>1. \A b \in Blocks : b = insert \/ b = cond \/ code'[b] = code[b]
      BY <2>5
    <3> HIDE DEF cond
    <3> QED
      BY <2>3, <2>4, <2>5, <3>1 DEF CodeAdds
  <2>7. BuilderOK(lo)'
    <3>1. code'[insert'] = <<>> /\ Owned' \subseteq lo[insert']
      BY <1>2, <1>3, <1>4, <2>2, <2>5
    <3> QED
      BY <3>1, BuilderMoves
  <2>8. FramesOwn(lo, hi)'
    <3>1. \A d \in 1..Len(frames') : d \in 1..Len(frames) /\ frames'[d] = frames[d]
      BY <1>2, <1>3
    <3> QED
      BY <1>4, <1>5, <3>1, FramesKeep
  <2>9. created <= created' /\ Owned \subseteq Owned'
    BY <1>2, <1>3, <1>4
  <2>10. Emitted(lo, hi)'
    BY <1>1, <1>4, <2>6, <2>7, <2>8, <2>9, EmittedNext
  <2> QED
    BY <2>10 DEF EmitInv
<1> QED
  BY <1>7, <1>8

(* A return, also the implicit one.                                        *)
LEMMA EmitReturn ==
  ASSUME TypeInv, TypeInv', FreshInv, NEW lo, NEW hi, Emitted(lo, hi), phase = "visit",
         NEW v \in {"none", "scalar"} \cup AllRetValues, Return(v),
         created' = created, insert' = insert, frames' = frames,
         v = "local" => "local" \in RetValues,
         NEW M, M = Made(Here, IF v \in {"temp", "literal"} THEN 1 ELSE 0),
         FreesInv', Texts \subseteq Texts', M \subseteq Texts',
         Owned \subseteq Owned', Owned' \subseteq Owned \cup M,
         Texts \cap Owned' \subseteq Owned, frames # <<>> => Owned' = Owned,
         phase' = "visit" => v # "none" \/ retType = "void"
  PROVE  Emitted(lo, hi)'
<1> DEFINE s == code[insert]
           l == lo[insert]
           h == hi[insert]
           t == ReturnCode(v)
           L == l \cup SlotsTo(s, "new", Ended(s))
           H == h \cup SlotsTo(s, "new", Ended(s))
           own == Owned'
           n == created'
           T == Texts'
<1>1. /\ TypeOK /\ insert \in Blocks /\ created \in Nat /\ insert \in 1..created
      /\ frames \in Seq(Frame) /\ s \in Seq(Instrs)
  BY HereTypes DEF TypeInv, TypeOK
<1>2. /\ BuilderOK(lo) /\ FramesOwn(lo, hi) /\ FreesInv /\ Known(s, Texts)
      /\ lo \in [Blocks -> SUBSET Owned] /\ hi \in [Blocks -> SUBSET Owned]
  BY <1>1 DEF Emitted
<1>3. /\ Owned \subseteq L
      /\ RetFree(s, Ended(s)) => SlotsTo(s, "free", Ended(s)) = {}
  BY <1>2 DEF BuilderOK
<1>4. SlotsTo(s, "new", Ended(s)) \subseteq Texts
  <2> SUFFICES ASSUME NEW x \in SlotsTo(s, "new", Ended(s)) PROVE x \in Texts
    OBVIOUS
  <2>1. PICK k \in 1..(Ended(s) - 1) : s[k].op = "new" /\ s[k].slot = x
    BY SlotsPick
  <2>2. k \in 1..Len(s)
    BY <1>1 DEF Ended
  <2> QED
    BY <1>2, <2>1, <2>2 DEF Known
<1>5. Texts \cap own \subseteq L /\ H \cap own \subseteq Texts
  <2>1. Texts \cap own \subseteq L
    BY <1>3
  <2>2. h \subseteq Texts
    BY <1>1, <1>2, TextsAreSlots
  <2> QED
    BY <1>4, <2>1, <2>2
<1>6. /\ t \in Seq(Instrs)
      /\ SlotsTo(t, "new", Ended(t)) = M
      /\ RetFree(t, Ended(t)) => v = "none" /\ retType # "void"
      /\ \A U : Texts \cup M \subseteq U => Known(t, U)
      /\ SeqOK(t, L, H, {}, own, lo, hi, n)
  <2> HIDE DEF L, H, own, n
  <2> QED
    BY <1>1, <1>2, <1>5, ReturnSeq
<1>7. Adds(s, t, l, h, T, own, lo, hi, n)
  <2>1. Known(t, T)
    BY <1>6
  <2> QED
    BY <1>3, <1>6, <2>1 DEF Adds
<1>8. code' = Emit(code, insert, t)
  BY DEF Return
<1> HIDE DEF t
<1>9. code'[insert] = s \o t /\ \A d \in Blocks \ {insert} : code'[d] = code[d]
  BY <1>1, <1>6, <1>8, GrowsInsert
<1>10. CodeAdds(code, code', T, own, lo, hi, n)
  <2>1. \A b \in Blocks : b = insert \/ code'[b] = code[b]
    BY <1>9
  <2> HIDE DEF T, own, n
  <2> QED
    BY <1>7, <1>9, <2>1 DEF CodeAdds
<1>11. ASSUME phase' = "visit" PROVE BuilderOK(lo)'
  <2>1. RetFree(t, Ended(t)) => SlotsTo(t, "free", Ended(t)) = {}
    BY <1>6, <1>11
  <2> QED
    BY <1>1, <1>2, <1>6, <1>9, <2>1, BuilderStays
<1>12. FramesOwn(lo, hi)'
  BY <1>2, FramesSame
<1>13. lo \in [Blocks -> SUBSET Owned'] /\ hi \in [Blocks -> SUBSET Owned']
  BY <1>2
<1>14. created <= created'
  BY <1>1
<1> QED
  BY <1>10, <1>11, <1>12, <1>13, <1>14, EmittedNext

LEMMA EmitReturnStatement ==
  ASSUME TypeInv, TypeInv', FreshInv, DepthInv, EmitInv,
         NEW v \in {"none", "scalar"} \cup RetValues, ReturnStatement(v)
  PROVE  EmitInv'
<1> DEFINE m == IF v \in {"temp", "literal"} THEN 1 ELSE 0
<1>1. PICK lo, hi : Emitted(lo, hi)
  BY DEF EmitInv
<1>2. /\ phase = "visit" /\ Return(v) /\ prog' = Visited("ret", Here)
      /\ frees' = PushFree(Here, m) /\ created' = created /\ insert' = insert
      /\ frames' = frames /\ v \in ValuesOf
  BY DEF ReturnStatement, MayReturn, Return
<1>3. /\ v \in {"none", "scalar"} \cup AllRetValues /\ m \in 0..1 /\ Here \in Nat
      /\ v = "local" => "local" \in RetValues
      /\ v # "none" \/ retType = "void"
  BY <1>2, RetAssumption, HereTypes DEF TypeInv, ValuesOf, AllRetValues
<1>4. TextsMore(m)
  <2> HIDE DEF m
  <2> QED
    BY <1>1, <1>2, <1>3, TextsGrow DEF Emitted
<1>5. Emitted(lo, hi)'
  <2> DEFINE M == Made(Here, m)
  <2>1. M = Made(Here, IF v \in {"temp", "literal"} THEN 1 ELSE 0)
    OBVIOUS
  <2>2. /\ FreesInv' /\ Texts \subseteq Texts' /\ M \subseteq Texts'
        /\ Owned \subseteq Owned' /\ Owned' \subseteq Owned \cup M
        /\ Texts \cap Owned' \subseteq Owned
        /\ frames # <<>> => Owned' = Owned
    BY <1>4 DEF TextsMore
  <2> HIDE DEF M
  <2> QED
    BY <1>1, <1>2, <1>3, <2>1, <2>2, EmitReturn
<1> QED
  BY <1>5 DEF EmitInv

LEMMA EmitFinish ==
  ASSUME TypeInv, TypeInv', FreshInv, DepthInv, EmitInv, Finish
  PROVE  EmitInv'
<1>1. PICK lo, hi : Emitted(lo, hi)
  BY DEF EmitInv
<1>2. /\ phase = "visit" /\ phase' = "done" /\ prog' = prog /\ created' = created
      /\ insert' = insert /\ frames' = frames /\ frees' = frees
      /\ hasReturn => code' = code
      /\ ~hasReturn => Return("none")
  BY DEF Finish, Return, PushFree
<1>3. Queued' = Queued /\ Locals' = Locals /\ FreesInv'
  BY <1>1, <1>2 DEF Queued, Locals, FreesInv, Emitted
<1>4. Texts' = Texts /\ Owned' = Owned
  BY <1>2, <1>3 DEF Texts, Owned
<1>5. /\ lo \in [Blocks -> SUBSET Owned] /\ hi \in [Blocks -> SUBSET Owned]
      /\ FramesOwn(lo, hi) /\ created \in Nat
  BY <1>1, HereTypes DEF Emitted, TypeInv
<1>6. CASE hasReturn
  <2>1. CodeAdds(code, code', Texts', Owned', lo, hi, created')
    BY <1>2, <1>6 DEF CodeAdds
  <2>2. FramesOwn(lo, hi)'
    BY <1>2, <1>4, <1>5, FramesSame
  <2>3. Emitted(lo, hi)'
    BY <1>1, <1>2, <1>3, <1>4, <1>5, <2>1, <2>2, EmittedNext
  <2> QED
    BY <2>3 DEF EmitInv
<1>7. CASE ~hasReturn
  <2> DEFINE v == "none"
             M == Made(Here, IF v \in {"temp", "literal"} THEN 1 ELSE 0)
  <2>1. M = {} /\ v \in {"none", "scalar"} \cup AllRetValues /\ v # "local"
    BY DEF Made
  <2>2. M = Made(Here, IF v \in {"temp", "literal"} THEN 1 ELSE 0)
    OBVIOUS
  <2>3. /\ Texts \subseteq Texts' /\ M \subseteq Texts'
        /\ Owned \subseteq Owned' /\ Owned' \subseteq Owned \cup M
        /\ Texts \cap Owned' \subseteq Owned
        /\ Return(v) /\ phase' # "visit"
    BY <1>2, <1>4, <1>7, <2>1 DEF Owned, Texts
  <2> HIDE DEF v, M
  <2>4. Emitted(lo, hi)'
    BY <1>1, <1>2, <1>3, <1>4, <2>1, <2>2, <2>3, EmitReturn
  <2> QED
    BY <2>4 DEF EmitInv
<1> QED
  BY <1>6, <1>7

LEMMA EmitInit == Init => EmitInv
<1> SUFFICES ASSUME Init PROVE EmitInv
  OBVIOUS
<1> DEFINE lo == [b \in Blocks |-> IF b = Entry THEN {} ELSE Locals]
           s == InitLocals
<1>1. /\ frees = <<>> /\ Len(frees) = 0 /\ frames = <<>> /\ Len(frames) = 0 /\ created = 1
      /\ insert = Entry /\ phase = "visit" /\ TextLocals \in Nat
      /\ code = [b \in Blocks |-> IF b = Entry THEN s ELSE <<>>] /\ Entry \in Blocks
  BY BlocksFacts, TextLocalsAssumption DEF Init
<1>2. Queued = {} /\ Texts = Locals /\ Owned = Locals /\ FreesInv
  BY <1>1 DEF Queued, Texts, Owned, FreesInv
<1>3. /\ s \in Seq(Instrs) /\ Len(s) = TextLocals
      /\ \A k \in 1..TextLocals : s[k].op = "new" /\ s[k].slot = -k /\ -k \in Locals
  <2>1. \A k \in 1..TextLocals : -k \in Int /\ New(0, -k) \in Instrs /\ -k \in Locals
    BY <1>1, InstrTypes DEF Locals
  <2>2. s \in Seq(Instrs) /\ Len(s) = TextLocals /\ \A k \in 1..TextLocals : s[k] = New(0, -k)
    BY <1>1, <2>1 DEF InitLocals
  <2>3. \A k : New(0, -k).op = "new" /\ New(0, -k).slot = -k
    BY DEF New, Instr
  <2> QED
    BY <2>1, <2>2, <2>3
<1> HIDE DEF s
<1>4. \A k \in 1..Ended(s) : SlotsTo(s, "free", k) = {}
  <2> SUFFICES ASSUME NEW k \in 1..Ended(s), NEW x \in SlotsTo(s, "free", k) PROVE FALSE
    OBVIOUS
  <2>1. PICK j \in 1..(k - 1) : s[j].op = "free" /\ s[j].slot = x
    BY SlotsPick
  <2>2. j \in 1..TextLocals
    BY <1>1, <1>3 DEF Ended
  <2> QED
    BY <1>3, <2>1, <2>2
<1>5. Locals \subseteq SlotsTo(s, "new", Ended(s))
  <2> SUFFICES ASSUME NEW l \in 1..TextLocals PROVE -l \in SlotsTo(s, "new", Ended(s))
    BY DEF Locals
  <2>1. l \in 1..(Ended(s) - 1)
    BY <1>1, <1>3 DEF Ended
  <2> QED
    BY <1>3, <2>1, SlotsIn
<1>6. \A own, n : SeqOK(s, {}, {}, {}, own, lo, lo, n)
  <2> SUFFICES ASSUME NEW own, NEW n, NEW k \in 1..Len(s)
               PROVE  InstrOK(s[k], {} \cup SlotsTo(s, "new", k), {} \cup SlotsTo(s, "new", k),
                              {} \cup SlotsTo(s, "free", k), own, lo, lo, n)
    BY DEF SeqOK
  <2>1. k \in 1..Ended(s)
    BY <1>1, <1>3 DEF Ended
  <2>2. {} \cup SlotsTo(s, "free", k) = {}
    BY <1>4, <2>1
  <2>3. s[k].op = "new"
    BY <1>3
  <2> QED
    BY <2>2, <2>3 DEF InstrOK
<1>7. lo \in [Blocks -> SUBSET Locals] /\ lo[Entry] = {}
  BY <1>1
<1> HIDE DEF lo
<1>8. \A b \in 1..created : SeqOK(code[b], lo[b], lo[b], {}, Owned, lo, lo, created)
  <2> SUFFICES ASSUME NEW b \in 1..1
               PROVE  SeqOK(code[b], lo[b], lo[b], {}, Owned, lo, lo, created)
    BY <1>1
  <2>1. b = Entry
    BY DEF Entry
  <2>2. code[b] = s /\ lo[b] = {}
    BY <1>1, <1>7, <2>1
  <2> QED
    BY <1>6, <2>2
<1>9. \A b \in Blocks : Known(code[b], Texts)
  <2>1. Known(s, Texts)
    BY <1>2, <1>3 DEF Known
  <2> QED
    BY <1>1, <2>1, EmptySeqOK
<1>10. BuilderOK(lo)
  <2>1. code[insert] = s
    BY <1>1
  <2>2. Ended(s) \in 1..Ended(s)
    BY <1>1, <1>3 DEF Ended
  <2> QED
    BY <1>2, <1>4, <1>5, <2>1, <2>2 DEF BuilderOK
<1>11. FramesOwn(lo, lo)
  BY <1>1 DEF FramesOwn
<1>12. Emitted(lo, lo)
  BY <1>2, <1>7, <1>8, <1>9, <1>10, <1>11 DEF Emitted
<1> QED
  BY <1>12 DEF EmitInv

LEMMA EmitStep ==
  ASSUME TypeInv, TypeInv', FreshInv, DepthInv, EmitInv, Step
  PROVE  EmitInv'
BY EmitStatement, EmitEnterIf, EmitEnterElse, EmitEndIf, EmitEnterTestedLoop,
   EmitEnterOtherLoop, EmitEndLoop, EmitReturnStatement, EmitFinish DEF Step

-----------------------------------------------------------------------------
(* Compilation and run together.                                           *)
LEMMA TextInit == InitRun => TextInv
<1> SUFFICES ASSUME InitRun PROVE TextInv
  OBVIOUS
<1>1. PICK lo, hi : Emitted(lo, hi)
  BY EmitInit DEF InitRun, EmitInv
<1>2. Between(lo, hi)
  BY DEF InitRun, Between
<1> QED
  BY <1>1, <1>2 DEF TextInv

LEMMA TextStep ==
  ASSUME TypeInv, TypeInv', FreshInv, DepthInv, CallInv, TextInv, [NextRun]_allvars
  PROVE  TextInv'
<1>1. PICK lo, hi : Emitted(lo, hi) /\ Between(lo, hi)
  BY DEF TextInv
<1>2. CASE Compile
  <2>1. Step /\ phase = "visit" /\ UNCHANGED ivars
    BY <1>2 DEF Compile, Step, Statement, EnterIf, EnterElse, EndIf, EnterTestedLoop,
                EnterOtherLoop, EndLoop, ReturnStatement, Finish, MayOpen, MayReturn
  <2>2. status' = "compiling"
    BY <2>1 DEF CallInv, ivars
  <2>3. EmitInv'
    BY <1>1, <2>1, EmitStep DEF EmitInv
  <2>4. PICK lo2, hi2 : Emitted(lo2, hi2)'
    BY <2>3 DEF EmitInv
  <2>5. Between(lo2, hi2)'
    BY <2>2 DEF Between
  <2> QED
    BY <2>4, <2>5 DEF TextInv
<1>3. CASE Call \/ Execute \/ Stopped
  <2>1. UNCHANGED vars
    BY <1>3 DEF Call, Execute, ExecuteOp, ExecuteNew, ExecuteFree, ExecuteBr, ExecuteCondBr,
                ExecuteRet, FallOffBlock, Stopped, allvars
  <2>2. Emitted(lo, hi)'
    BY <1>1, <2>1, EmittedStays
  <2>3. Between(lo, hi)'
    BY <1>1, <1>3, BetweenRun
  <2> QED
    BY <2>2, <2>3 DEF TextInv
<1>4. CASE UNCHANGED allvars
  <2>1. UNCHANGED vars
    BY <1>4 DEF allvars
  <2>2. UNCHANGED <<status, blk, ip, taken, mem>>
    BY <1>4 DEF allvars, ivars
  <2>3. Emitted(lo, hi)'
    BY <1>1, <2>1, EmittedStays
  <2>4. /\ Slots' = Slots /\ Texts' = Texts /\ Owned' = Owned /\ code' = code
        /\ created' = created
    BY <2>1 DEF vars, Slots, Texts, Owned, Queued, Locals, Nesting, Earlier
  <2>5. Between(lo, hi)'
    BY <1>1, <2>2, <2>4 DEF Between, RetFree, SlotsTo, Ended
  <2> QED
    BY <2>3, <2>5 DEF TextInv
<1> QED
  BY <1>2, <1>3, <1>4 DEF NextRun

LEMMA TextHolds == SpecRun => [](TypeInv /\ CallInv /\ TextInv)
<1>1. SpecRun => []TypeInv /\ []FreshInv /\ []DepthInv
  BY RunIsSpec, TypeInvHolds, FreshHolds, DepthHolds, PTL
<1>2. TypeInv /\ TypeInv' /\ FreshInv /\ DepthInv /\ CallInv /\ TextInv /\ [NextRun]_allvars
        => TextInv'
  BY TextStep
<1> QED
  BY <1>1, <1>2, TextInit, CallHolds, PTL DEF SpecRun

(* Whatever the sub contains and whichever way its tests come out: the     *)
(* texts that Return releases (ECompiler::frees and the text locals), as   *)
(* far as they are created on every path, are live when it releases them.  *)
THEOREM FreedWhileLiveCorrect == SpecRun => []FreedWhileLive
<1>1. TypeInv /\ TextInv => FreedWhileLive
  BY TextsMeet DEF TextInv
<1> QED
  BY <1>1, TextHolds, PTL

(* No such text is left live when the sub is left, but for the one it      *)
(* returns: each return releases all of them, the implicit one at the end  *)
(* as well as an early one below ifs and loops.                            *)
THEOREM NothingLeaksCorrect == SpecRun => []NothingLeaks
<1>1. TypeInv /\ TextInv => NothingLeaks
  BY TextsMeet DEF TextInv
<1> QED
  BY <1>1, TextHolds, PTL

(* A text that is returned is live, for subs that return no text local: a  *)
(* local is released by the return itself, before its value is loaded.     *)
THEOREM ReturnedAliveCorrect ==
  ASSUME "local" \notin RetValues
  PROVE  SpecRun => []ReturnedAlive
<1>1. TypeInv /\ TextInv => ReturnedAlive
  BY TextsMeet DEF TextInv
<1> QED
  BY <1>1, TextHolds, PTL

-----------------------------------------------------------------------------
(* The order of ids.  No instruction runs before one with a smaller id but *)
(* behind a branch back in a loop that encloses both, and no text but a    *)
(* loop's is stored twice.                                                 *)
Together(p, i, j) == \E l \in 1..Len(p) : Encloses(p, l, i) /\ Encloses(p, l, j)

(* Code that is in a loop with node i; code of loop l.                     *)
InLoop(s, p, i) == \A j \in 1..Len(s) : Together(p, i, s[j].id)
OfLoop(s, p, l) == \A j \in 1..Len(s) : Encloses(p, l, s[j].id)
Follows(i, s, p) == \A j \in 1..Len(s) : i < s[j].id \/ Together(p, i, s[j].id)

(* Loops nest: what encloses a loop encloses what that loop encloses.  The *)
(* loops in progress are those of the frames, in the order of the stack.   *)
Nested(p) ==
  \A k, l \in 1..Len(p) : \A i \in Int :
    Encloses(p, k, l) /\ Encloses(p, l, i) => Encloses(p, k, i)

IsLoop(f) == f.kind \in AllLoopKinds

NestInv ==
  /\ \A d \in 1..Len(frames) : frames[d].at \in 1..Len(prog)
  /\ \A d, e \in 1..Len(frames) : d < e => frames[d].at < frames[e].at
  /\ \A d \in 1..Len(frames) : IsLoop(frames[d]) => Encloses(prog, frames[d].at, Here)
  /\ \A l \in 1..Len(prog) : Encloses(prog, l, Here) =>
       \E d \in 1..Len(frames) : IsLoop(frames[d]) /\ frames[d].at = l
  /\ \A e \in 1..Len(prog) : prog[e].tok = "endloop" => prog[e].at < e
  /\ Nested(prog)

SeqInOrder(s) ==
  /\ \A k \in 1..Len(s) : s[k].op = "new" /\ s[k].slot >= 0 => s[k].slot = s[k].id
  /\ \A j, k \in 1..Len(s) : j < k =>
       /\ s[j].id <= s[k].id
       /\ s[j].op = "new" /\ s[k].op = "new" => s[j].slot # s[k].slot

IsBranch(x) == x.op \in {"br", "condbr"}

CodeInOrder(c, p, n) ==
  \A b \in Blocks :
    /\ SeqInOrder(c[b])
    /\ \A k \in 1..Len(c[b]) :
         /\ c[b][k].op = "new" /\ c[b][k].slot < 0 => b = Entry
         /\ IsBranch(c[b][k]) =>
              \A d \in Ways(c[b][k]) : d \in 2..n /\ Follows(c[b][k].id, c[d], p)

IdsUpTo(c, m) == \A b \in Blocks : \A k \in 1..Len(c[b]) : c[b][k].id <= m

LoopFrames(fs, c, p) ==
  \A d \in 1..Len(fs) : fs[d].kind \in AllLoopKinds =>
    OfLoop(c[fs[d].cond], p, fs[d].at) /\ OfLoop(c[fs[d].body], p, fs[d].at)

OrderInv ==
  /\ CodeInOrder(code, prog, created)
  /\ phase = "visit" => IdsUpTo(code, Len(prog))
  /\ LoopFrames(frames, code, prog)

(* What is still to run may not store again what is live.                  *)
RunInOrder ==
  status = "running" =>
    \A t \in Slots : mem[t] = "live" =>
      \A k \in ip..Len(code[blk]) :
        LET x == code[blk][k] IN
        Together(prog, t, x.id) \/ (t <= x.id /\ ~(x.op = "new" /\ x.slot = t))

-----------------------------------------------------------------------------
Kept(p, q, m) ==
  \A i, j \in Nat : i <= m /\ j <= m /\ Together(p, i, j) => Together(q, i, j)

EndsLoop(t, l) == t.tok = "endloop" /\ t.at = l

LEMMA EnclosesBetween ==
  ASSUME NEW p, NEW l \in Int, NEW i \in Int, NEW k \in Int,
         Encloses(p, l, i), l <= k, k <= i
  PROVE  Encloses(p, l, k)
BY DEF Encloses

(* A token more: what it changes is what it ends and what it opens.        *)
LEMMA EnclosesAppend ==
  ASSUME NEW p \in Seq(Token), NEW t \in Token
  PROVE  LET q == Append(p, t)
             m == Len(p)
         IN  /\ m \in Nat /\ Len(q) = m + 1
             /\ \A l, i \in Int : i <= m + 1 /\ Encloses(p, l, i) => Encloses(q, l, i)
             /\ \A l \in 1..m : \A i \in Int : Encloses(q, l, i) => Encloses(p, l, i)
             /\ \A l \in 1..m : \A i \in Int : i > m + 1 =>
                  (Encloses(q, l, i) <=> Encloses(p, l, m + 1) /\ ~EndsLoop(t, l))
             /\ \A i \in Int : Encloses(q, m + 1, i) => t.tok \in AllLoopKinds /\ m + 1 <= i
<1> DEFINE q == Append(p, t)
           m == Len(p)
<1>1. /\ m \in Nat /\ Len(q) = m + 1 /\ q[m + 1] = t
      /\ \A e \in 1..m : q[e] = p[e]
  BY AppendProperties, LenProperties
<1> HIDE DEF q, m
<1> SUFFICES /\ \A l, i \in Int : i <= m + 1 /\ Encloses(p, l, i) => Encloses(q, l, i)
             /\ \A l \in 1..m : \A i \in Int : Encloses(q, l, i) => Encloses(p, l, i)
             /\ \A l \in 1..m : \A i \in Int : i > m + 1 =>
                  (Encloses(q, l, i) <=> Encloses(p, l, m + 1) /\ ~EndsLoop(t, l))
             /\ \A i \in Int : Encloses(q, m + 1, i) => t.tok \in AllLoopKinds /\ m + 1 <= i
  BY <1>1 DEF q, m
<1>2. \A e \in 1..(m + 1) : e \in 1..m \/ (e = m + 1 /\ q[e] = t)
  BY <1>1
<1>3. Len(p) = m
  BY DEF m
<1>4. ASSUME NEW l \in Int, NEW i \in Int, i <= m + 1, Encloses(p, l, i)
      PROVE  Encloses(q, l, i)
  <2>1. l \in 1..Len(q) /\ l <= i /\ q[l].tok \in AllLoopKinds
    BY <1>1, <1>3, <1>4 DEF Encloses
  <2>2. ASSUME NEW e \in 1..Len(q), q[e].tok = "endloop", q[e].at = l PROVE i <= e
    <3>1. CASE e \in 1..m
      BY <1>1, <1>3, <1>4, <2>2, <3>1 DEF Encloses
    <3>2. CASE e = m + 1
      BY <1>4, <3>2
    <3> QED
      BY <1>1, <1>2, <3>1, <3>2
  <2> QED
    BY <2>1, <2>2 DEF Encloses
<1>5. ASSUME NEW l \in 1..m, NEW i \in Int, Encloses(q, l, i)
      PROVE  Encloses(p, l, i)
  BY <1>1, <1>3, <1>5 DEF Encloses
<1>6. ASSUME NEW l \in 1..m, NEW i \in Int, i > m + 1
      PROVE  Encloses(q, l, i) <=> Encloses(p, l, m + 1) /\ ~EndsLoop(t, l)
  <2>1. ASSUME Encloses(q, l, i) PROVE Encloses(p, l, m + 1) /\ ~EndsLoop(t, l)
    <3>1. Encloses(p, l, i)
      BY <1>5, <2>1
    <3>2. Encloses(p, l, m + 1)
      BY <1>1, <1>3, <1>6, <3>1, EnclosesBetween
    <3>3. ~EndsLoop(t, l)
      BY <1>1, <1>6, <2>1 DEF Encloses, EndsLoop
    <3> QED
      BY <3>2, <3>3
  <2>2. ASSUME Encloses(p, l, m + 1), ~EndsLoop(t, l) PROVE Encloses(q, l, i)
    <3>1. l \in 1..Len(q) /\ l <= i /\ q[l].tok \in AllLoopKinds
      BY <1>1, <1>3, <1>6, <2>2 DEF Encloses
    <3>2. ASSUME NEW e \in 1..Len(q), q[e].tok = "endloop", q[e].at = l PROVE FALSE
      <4>1. CASE e \in 1..m
        <5>1. p[e].tok = "endloop" /\ p[e].at = l /\ e \in 1..Len(p)
          BY <1>1, <1>3, <3>2, <4>1
        <5>2. m + 1 <= e
          BY <2>2, <5>1 DEF Encloses
        <5> QED
          BY <1>1, <4>1, <5>2
      <4>2. CASE e = m + 1 /\ q[e] = t
        BY <2>2, <3>2, <4>2 DEF EndsLoop
      <4> QED
        BY <1>1, <1>2, <4>1, <4>2
    <3> QED
      BY <3>1, <3>2 DEF Encloses
  <2> QED
    BY <2>1, <2>2
<1>7. ASSUME NEW i \in Int, Encloses(q, m + 1, i)
      PROVE  t.tok \in AllLoopKinds /\ m + 1 <= i
  BY <1>1, <1>7 DEF Encloses
<1> QED
  BY <1>4, <1>5, <1>6, <1>7

LEMMA TogetherKept ==
  ASSUME NEW p \in Seq(Token), NEW t \in Token
  PROVE  Kept(p, Append(p, t), Len(p))
<1> DEFINE q == Append(p, t)
           m == Len(p)
<1>1. /\ m \in Nat /\ Len(q) = m + 1
      /\ \A l, i \in Int : i <= m + 1 /\ Encloses(p, l, i) => Encloses(q, l, i)
  BY EnclosesAppend
<1> HIDE DEF q
<1>2. ASSUME NEW i \in Nat, NEW j \in Nat, i <= m, j <= m, Together(p, i, j)
      PROVE  Together(q, i, j)
  <2>1. PICK l \in 1..m : Encloses(p, l, i) /\ Encloses(p, l, j)
    BY <1>2 DEF Together
  <2>2. Encloses(q, l, i) /\ Encloses(q, l, j) /\ l \in 1..Len(q)
    BY <1>1, <1>2, <2>1
  <2> QED
    BY <2>2 DEF Together
<1> QED
  BY <1>2 DEF Kept, q, m

(* A loop that has just begun encloses its own test.                       *)
LEMMA EnclosesSelf ==
  ASSUME NestInv, prog \in Seq(Token), NEW t \in Token, t.tok \in AllLoopKinds,
         prog' = Append(prog, t)
  PROVE  Encloses(prog', Here, Here) /\ Encloses(prog', Here, Len(prog') + 1)
<1> DEFINE q == prog'
           m == Len(prog)
<1>1. /\ m \in Nat /\ Len(q) = m + 1 /\ q[m + 1] = t /\ Here = m + 1
      /\ \A e \in 1..m : q[e] = prog[e]
  BY AppendProperties, LenProperties DEF Here
<1>2. \A e \in 1..m : prog[e].tok = "endloop" => prog[e].at < e
  BY DEF NestInv
<1>3. t.tok # "endloop"
  BY DEF AllLoopKinds
<1> HIDE DEF q, m
<1>4. ASSUME NEW e \in 1..Len(q), q[e].tok = "endloop", q[e].at = m + 1 PROVE FALSE
  <2>1. CASE e \in 1..m
    BY <1>1, <1>2, <1>4, <2>1
  <2>2. CASE e = m + 1
    BY <1>1, <1>3, <1>4, <2>2
  <2> QED
    BY <1>1, <2>1, <2>2
<1>5. Encloses(q, m + 1, m + 1) /\ Encloses(q, m + 1, m + 2)
  BY <1>1, <1>4 DEF Encloses
<1> QED
  BY <1>1, <1>5 DEF q

(* The stream after one token more: it stays nested, and it is known which *)
(* loops are in progress.                                                  *)
LEMMA NestAppend ==
  ASSUME NestInv, TypeInv, NEW t \in Token, prog' = Append(prog, t),
         t.tok = "endloop" => frames # <<>> /\ t.at = Top.at
  PROVE  /\ Len(prog') = Here /\ Here' = Here + 1 /\ Here \in Nat \ {0} /\ Len(prog) = Here - 1
         /\ \A e \in 1..Len(prog') : prog'[e].tok = "endloop" => prog'[e].at < e
         /\ Nested(prog')
         /\ \A l \in 1..Len(prog) :
              Encloses(prog', l, Here') <=> Encloses(prog, l, Here) /\ ~EndsLoop(t, l)
         /\ Encloses(prog', Here, Here') <=> t.tok \in AllLoopKinds
<1> DEFINE p == prog
           q == prog'
           m == Len(p)
           n == Len(frames)
<1>1. /\ p \in Seq(Token) /\ m \in Nat /\ Here = m + 1 /\ Len(q) = m + 1 /\ Here' = m + 2
      /\ q[m + 1] = t /\ \A e \in 1..m : q[e] = p[e]
  BY AppendProperties, LenProperties DEF TypeInv, TypeOK, Here
<1>2. /\ \A l, i \in Int : i <= m + 1 /\ Encloses(p, l, i) => Encloses(q, l, i)
      /\ \A l \in 1..m : \A i \in Int : Encloses(q, l, i) => Encloses(p, l, i)
      /\ \A l \in 1..m : \A i \in Int : i > m + 1 =>
           (Encloses(q, l, i) <=> Encloses(p, l, m + 1) /\ ~EndsLoop(t, l))
      /\ \A i \in Int : Encloses(q, m + 1, i) => t.tok \in AllLoopKinds /\ m + 1 <= i
  BY <1>1, EnclosesAppend
<1>3. t.tok \in AllLoopKinds => Encloses(q, m + 1, m + 2)
  BY <1>1, EnclosesSelf
<1>4. frames \in Seq(Frame) /\ n \in Nat
  BY LenProperties DEF TypeInv, TypeOK
<1>5. /\ Nested(p)
      /\ \A e \in 1..m : p[e].tok = "endloop" => p[e].at < e
      /\ \A d \in 1..n : frames[d].at \in 1..m
      /\ \A d, e \in 1..n : d < e => frames[d].at < frames[e].at
      /\ \A l \in 1..m : Encloses(p, l, m + 1) =>
           \E d \in 1..n : IsLoop(frames[d]) /\ frames[d].at = l
  BY <1>1 DEF NestInv
<1>6. EndsLoop(t, t.at) => n \in 1..n /\ t.at = frames[n].at /\ t.at \in 1..m
  <2>1. frames # <<>> => n \in 1..n
    BY <1>4
  <2> QED
    BY <1>5, <2>1 DEF EndsLoop, Top
<1> HIDE DEF p, q, m, n
<1>7. ASSUME NEW e \in 1..(m + 1), q[e].tok = "endloop" PROVE q[e].at < e
  <2>1. CASE e \in 1..m
    BY <1>1, <1>5, <1>7, <2>1
  <2>2. CASE e = m + 1
    BY <1>1, <1>6, <1>7, <2>2 DEF EndsLoop
  <2> QED
    BY <1>1, <2>1, <2>2
<1>8. ASSUME NEW k \in 1..(m + 1), NEW l \in 1..(m + 1), NEW i \in Int,
             Encloses(q, k, l), Encloses(q, l, i)
      PROVE  Encloses(q, k, i)
  <2>1. CASE k = m + 1
    <3>1. k <= l
      BY <1>8 DEF Encloses
    <3>2. k = l
      BY <1>1, <2>1, <3>1
    <3> QED
      BY <1>8, <3>2
  <2>2. CASE k \in 1..m /\ l = m + 1
    <3>1. t.tok \in AllLoopKinds /\ m + 1 <= i /\ Encloses(p, k, m + 1)
      BY <1>1, <1>2, <1>8, <2>2
    <3>2. ~EndsLoop(t, k)
      BY <3>1 DEF EndsLoop, AllLoopKinds
    <3>3. CASE i = m + 1
      BY <1>8, <2>2, <3>3
    <3>4. CASE i > m + 1
      BY <1>2, <2>2, <3>1, <3>2, <3>4
    <3> QED
      BY <1>1, <3>1, <3>3, <3>4
  <2>3. CASE k \in 1..m /\ l \in 1..m
    <3>1. Encloses(p, k, l) /\ Encloses(p, l, i) /\ Encloses(p, k, i)
      <4>1. Encloses(p, k, l) /\ Encloses(p, l, i)
        BY <1>1, <1>2, <1>8, <2>3
      <4>2. Len(p) = m
        BY DEF m
      <4> QED
        BY <1>5, <2>3, <4>1, <4>2 DEF Nested
    <3>2. CASE i <= m + 1
      BY <1>1, <1>2, <2>3, <3>1, <3>2
    <3>3. CASE i > m + 1
      <4>1. Encloses(p, l, m + 1) /\ ~EndsLoop(t, l)
        BY <1>2, <1>8, <2>3, <3>3
      <4>2. Encloses(p, k, m + 1)
        <5>1. Len(p) = m /\ m + 1 \in Int
          BY <1>1 DEF m
        <5> QED
          BY <1>5, <2>3, <3>1, <4>1, <5>1 DEF Nested
      <4>3. ~EndsLoop(t, k)
        <5> SUFFICES ASSUME EndsLoop(t, k) PROVE FALSE
          OBVIOUS
        <5>1. k = frames[n].at /\ n \in 1..n
          BY <1>6 DEF EndsLoop
        <5>2. PICK d \in 1..n : frames[d].at = l
          BY <1>5, <2>3, <4>1
        <5>3. l <= k
          <6>1. CASE d = n
            BY <1>1, <2>3, <5>1, <5>2, <6>1
          <6>2. CASE d < n
            BY <1>1, <1>5, <2>3, <5>1, <5>2, <6>2
          <6> QED
            BY <1>4, <6>1, <6>2
        <5>4. k <= l
          BY <1>8 DEF Encloses
        <5>5. k = l
          BY <1>1, <2>3, <5>3, <5>4
        <5> QED
          BY <4>1, <5>5
      <4> QED
        BY <1>2, <2>3, <3>3, <4>2, <4>3
    <3> QED
      BY <1>1, <3>2, <3>3
  <2> QED
    BY <1>1, <2>1, <2>2, <2>3
<1>9. Nested(q)
  <2>1. Len(q) = m + 1
    BY <1>1
  <2> QED
    BY <1>8, <2>1 DEF Nested
<1>10. ASSUME NEW l \in 1..m
       PROVE  Encloses(q, l, m + 2) <=> Encloses(p, l, m + 1) /\ ~EndsLoop(t, l)
  BY <1>1, <1>2
<1>11. Encloses(q, m + 1, m + 2) <=> t.tok \in AllLoopKinds
  BY <1>1, <1>2, <1>3
<1> QED
  BY <1>1, <1>7, <1>9, <1>10, <1>11 DEF p, q, m

LEMMA NestIs ==
  NestInv' <=>
    /\ \A d \in 1..Len(frames') : frames'[d].at \in 1..Len(prog')
    /\ \A d, e \in 1..Len(frames') : d < e => frames'[d].at < frames'[e].at
    /\ \A d \in 1..Len(frames') : IsLoop(frames'[d]) => Encloses(prog', frames'[d].at, Here')
    /\ \A l \in 1..Len(prog') : Encloses(prog', l, Here') =>
         \E d \in 1..Len(frames') : IsLoop(frames'[d]) /\ frames'[d].at = l
    /\ \A e \in 1..Len(prog') : prog'[e].tok = "endloop" => prog'[e].at < e
    /\ Nested(prog')
BY DEF NestInv, Nested, IsLoop, Encloses

(* The frames after one node more.                                         *)
LEMMA NestPush ==
  ASSUME NestInv, TypeInv, TypeInv', NEW t \in Token, prog' = Append(prog, t), NEW f,
         frames' = Append(frames, f), f.at = Here, t.tok # "endloop",
         t.tok \in AllLoopKinds <=> IsLoop(f)
  PROVE  NestInv'
<1> DEFINE n == Len(frames)
<1>1. /\ Len(prog') = Here /\ Here' = Here + 1 /\ Here \in Nat \ {0} /\ Len(prog) = Here - 1
      /\ \A e \in 1..Len(prog') : prog'[e].tok = "endloop" => prog'[e].at < e
      /\ Nested(prog')
      /\ \A l \in 1..Len(prog) : Encloses(prog', l, Here') <=> Encloses(prog, l, Here)
      /\ Encloses(prog', Here, Here') <=> IsLoop(f)
  BY NestAppend DEF EndsLoop
<1>2. /\ n \in Nat /\ Len(frames') = n + 1 /\ frames'[n + 1] = f
      /\ \A d \in 1..n : frames'[d] = frames[d]
  BY LenProperties, AppendProperties DEF TypeInv, TypeOK
<1>3. \A d \in 1..(n + 1) : d \in 1..n \/ d = n + 1
  BY <1>2
<1>4. /\ \A d \in 1..n : frames[d].at \in 1..Len(prog)
      /\ \A d, e \in 1..n : d < e => frames[d].at < frames[e].at
      /\ \A d \in 1..n : IsLoop(frames[d]) => Encloses(prog, frames[d].at, Here)
      /\ \A l \in 1..Len(prog) : Encloses(prog, l, Here) =>
           \E d \in 1..n : IsLoop(frames[d]) /\ frames[d].at = l
  BY DEF NestInv
<1> HIDE DEF n
<1>5. ASSUME NEW d \in 1..Len(frames') PROVE frames'[d].at \in 1..Len(prog')
  <2>1. CASE d \in 1..n
    <3>1. frames[d].at \in 1..Len(prog)
      BY <1>4, <2>1
    <3> QED
      BY <1>1, <1>2, <2>1, <3>1
  <2>2. CASE d = n + 1
    BY <1>1, <1>2, <2>2
  <2> QED
    BY <1>2, <1>3, <2>1, <2>2
<1>6. ASSUME NEW d \in 1..Len(frames'), NEW e \in 1..Len(frames'), d < e
      PROVE  frames'[d].at < frames'[e].at
  <2>1. CASE e \in 1..n
    BY <1>2, <1>4, <1>6, <2>1
  <2>2. CASE e = n + 1
    <3>1. d \in 1..n
      BY <1>2, <1>6, <2>2
    <3>2. frames[d].at \in 1..Len(prog)
      BY <1>4, <3>1
    <3> QED
      BY <1>1, <1>2, <2>2, <3>1, <3>2
  <2> QED
    BY <1>2, <1>3, <2>1, <2>2
<1>7. ASSUME NEW d \in 1..Len(frames'), IsLoop(frames'[d])
      PROVE  Encloses(prog', frames'[d].at, Here')
  <2>1. CASE d \in 1..n
    <3>1. frames[d].at \in 1..Len(prog) /\ Encloses(prog, frames[d].at, Here)
      BY <1>2, <1>4, <1>7, <2>1
    <3>2. Encloses(prog', frames[d].at, Here')
      BY <1>1, <3>1
    <3> QED
      BY <1>2, <2>1, <3>2
  <2>2. CASE d = n + 1
    BY <1>1, <1>2, <1>7, <2>2
  <2> QED
    BY <1>2, <1>3, <2>1, <2>2
<1>8. ASSUME NEW l \in 1..Len(prog'), Encloses(prog', l, Here')
      PROVE  \E d \in 1..Len(frames') : IsLoop(frames'[d]) /\ frames'[d].at = l
  <2>1. CASE l \in 1..Len(prog)
    <3>1. PICK d \in 1..n : IsLoop(frames[d]) /\ frames[d].at = l
      BY <1>1, <1>4, <1>8, <2>1
    <3>2. d \in 1..Len(frames') /\ frames'[d] = frames[d]
      BY <1>2
    <3> QED
      BY <3>1, <3>2
  <2>2. CASE l = Here
    <3>1. IsLoop(f) /\ n + 1 \in 1..Len(frames')
      BY <1>1, <1>2, <1>8, <2>2
    <3> QED
      BY <1>2, <2>2, <3>1
  <2> QED
    BY <1>1, <2>1, <2>2
<1> QED
  BY <1>1, <1>5, <1>6, <1>7, <1>8, NestIs

LEMMA NestPop ==
  ASSUME NestInv, TypeInv, TypeInv', NEW t \in Token, prog' = Append(prog, t),
         frames # <<>>, frames' = Pop, t.tok \notin AllLoopKinds,
         IF IsLoop(Top) THEN t.tok = "endloop" /\ t.at = Top.at ELSE t.tok # "endloop"
  PROVE  NestInv'
<1> DEFINE n == Len(frames)
<1>1. /\ Len(prog') = Here /\ Here' = Here + 1 /\ Here \in Nat \ {0} /\ Len(prog) = Here - 1
      /\ \A e \in 1..Len(prog') : prog'[e].tok = "endloop" => prog'[e].at < e
      /\ Nested(prog')
      /\ \A l \in 1..Len(prog) :
           Encloses(prog', l, Here') <=> Encloses(prog, l, Here) /\ ~EndsLoop(t, l)
      /\ ~Encloses(prog', Here, Here')
  BY NestAppend
<1>2. /\ n \in Nat \ {0} /\ Len(frames') = n - 1 /\ frames[n] = Top
      /\ \A d \in 1..(n - 1) : frames'[d] = frames[d]
  BY TopTypes DEF Top
<1>3. /\ \A d \in 1..n : frames[d].at \in 1..Len(prog)
      /\ \A d, e \in 1..n : d < e => frames[d].at < frames[e].at
      /\ \A d \in 1..n : IsLoop(frames[d]) => Encloses(prog, frames[d].at, Here)
      /\ \A l \in 1..Len(prog) : Encloses(prog, l, Here) =>
           \E d \in 1..n : IsLoop(frames[d]) /\ frames[d].at = l
  BY DEF NestInv
<1> HIDE DEF n
<1>4. ASSUME NEW d \in 1..Len(frames')
      PROVE  /\ d \in 1..n /\ d < n /\ frames'[d] = frames[d]
             /\ frames[d].at \in 1..Len(prog) /\ frames[d].at < frames[n].at
  <2>1. d \in 1..n /\ n \in 1..n /\ d < n /\ frames'[d] = frames[d]
    BY <1>2
  <2> QED
    BY <1>3, <2>1
<1>5. \A d \in 1..Len(frames') : frames'[d].at \in 1..Len(prog')
  <2>1. 1..Len(prog) \subseteq 1..Len(prog')
    BY <1>1
  <2> QED
    BY <1>4, <2>1
<1>6. \A d, e \in 1..Len(frames') : d < e => frames'[d].at < frames'[e].at
  BY <1>3, <1>4
<1>7. ASSUME NEW d \in 1..Len(frames'), IsLoop(frames'[d])
      PROVE  Encloses(prog', frames'[d].at, Here')
  <2>1. Encloses(prog, frames[d].at, Here)
    BY <1>3, <1>4, <1>7
  <2>2. ~EndsLoop(t, frames[d].at)
    <3>1. frames[d].at # Top.at
      <4>1. n \in 1..n
        BY <1>2
      <4>2. frames[n].at \in 1..Len(prog) /\ frames[d].at \in 1..Len(prog)
        BY <1>3, <1>4, <4>1
      <4>3. frames[d].at < frames[n].at
        BY <1>4
      <4> QED
        BY <1>2, <4>2, <4>3
    <3> QED
      BY <3>1 DEF EndsLoop
  <2>3. Encloses(prog', frames[d].at, Here')
    BY <1>1, <1>4, <2>1, <2>2
  <2> QED
    BY <1>4, <2>3
<1>8. ASSUME NEW l \in 1..Len(prog'), Encloses(prog', l, Here')
      PROVE  \E d \in 1..Len(frames') : IsLoop(frames'[d]) /\ frames'[d].at = l
  <2>1. l \in 1..Len(prog)
    BY <1>1, <1>8
  <2>2. Encloses(prog, l, Here) /\ ~EndsLoop(t, l)
    BY <1>1, <1>8, <2>1
  <2>3. PICK d \in 1..n : IsLoop(frames[d]) /\ frames[d].at = l
    BY <1>3, <2>1, <2>2
  <2>4. d # n
    BY <1>2, <2>2, <2>3 DEF EndsLoop
  <2>5. d \in 1..Len(frames') /\ frames'[d] = frames[d]
    BY <1>2, <2>4
  <2> QED
    BY <2>3, <2>5
<1> QED
  BY <1>1, <1>5, <1>6, <1>7, <1>8, NestIs

LEMMA NestSame ==
  ASSUME NestInv, TypeInv, TypeInv', NEW t \in Token, prog' = Append(prog, t),
         Len(frames') = Len(frames), t.tok \notin AllLoopKinds \cup {"endloop"},
         \A d \in 1..Len(frames) : frames'[d].at = frames[d].at
                                   /\ (IsLoop(frames'[d]) <=> IsLoop(frames[d]))
  PROVE  NestInv'
<1> DEFINE n == Len(frames)
<1>1. /\ Len(prog') = Here /\ Here' = Here + 1 /\ Here \in Nat \ {0} /\ Len(prog) = Here - 1
      /\ \A e \in 1..Len(prog') : prog'[e].tok = "endloop" => prog'[e].at < e
      /\ Nested(prog')
      /\ \A l \in 1..Len(prog) : Encloses(prog', l, Here') <=> Encloses(prog, l, Here)
      /\ ~Encloses(prog', Here, Here')
  BY NestAppend DEF EndsLoop
<1>2. /\ \A d \in 1..n : frames[d].at \in 1..Len(prog)
      /\ \A d, e \in 1..n : d < e => frames[d].at < frames[e].at
      /\ \A d \in 1..n : IsLoop(frames[d]) => Encloses(prog, frames[d].at, Here)
      /\ \A l \in 1..Len(prog) : Encloses(prog, l, Here) =>
           \E d \in 1..n : IsLoop(frames[d]) /\ frames[d].at = l
  BY DEF NestInv
<1>3. Len(frames') = n
  OBVIOUS
<1> HIDE DEF n
<1>4. \A d \in 1..n : frames'[d].at = frames[d].at /\ (IsLoop(frames'[d]) <=> IsLoop(frames[d]))
  BY DEF n
<1>5. \A d \in 1..Len(frames') : frames'[d].at \in 1..Len(prog')
  <2>1. 1..Len(prog) \subseteq 1..Len(prog')
    BY <1>1
  <2> QED
    BY <1>2, <1>3, <1>4, <2>1
<1>6. \A d, e \in 1..Len(frames') : d < e => frames'[d].at < frames'[e].at
  BY <1>2, <1>3, <1>4
<1>7. \A d \in 1..Len(frames') : IsLoop(frames'[d]) => Encloses(prog', frames'[d].at, Here')
  BY <1>1, <1>2, <1>3, <1>4
<1>8. ASSUME NEW l \in 1..Len(prog'), Encloses(prog', l, Here')
      PROVE  \E d \in 1..Len(frames') : IsLoop(frames'[d]) /\ frames'[d].at = l
  <2>1. l \in 1..Len(prog)
    BY <1>1, <1>8
  <2> QED
    BY <1>1, <1>2, <1>3, <1>4, <1>8, <2>1
<1> QED
  BY <1>1, <1>5, <1>6, <1>7, <1>8, NestIs

LEMMA NodeToken ==
  ASSUME NEW tok, NEW at \in Nat, prog' = Visited(tok, at),
         tok \in {"op", "if", "else", "endif", "ret", "endloop"} \cup AllLoopKinds
  PROVE  \E t \in Token : t.tok = tok /\ prog' = Append(prog, t)
BY DEF Visited, Token

LEMMA NestStep ==
  ASSUME TypeInv, TypeInv', NestInv, [Next]_vars
  PROVE  NestInv'
<1> USE DEF IsLoop
<1>0. /\ Here \in Nat /\ prog \in Seq(Token) /\ frames \in Seq(Frame) /\ Len(frames) \in Nat
  BY HereTypes, LenProperties DEF TypeInv, TypeOK
<1>1. ASSUME NEW m \in 0..1, Statement(m) PROVE NestInv'
  <2>1. prog' = Visited("op", Here) /\ frames' = frames
    BY <1>1 DEF Statement
  <2>2. PICK t \in Token : t.tok = "op" /\ prog' = Append(prog, t)
    BY <1>0, <2>1, NodeToken
  <2> QED
    BY <2>1, <2>2, NestSame DEF AllLoopKinds
<1>2. ASSUME NEW v \in {"none", "scalar"} \cup RetValues, ReturnStatement(v) PROVE NestInv'
  <2>1. prog' = Visited("ret", Here) /\ frames' = frames
    BY <1>2 DEF ReturnStatement
  <2>2. PICK t \in Token : t.tok = "ret" /\ prog' = Append(prog, t)
    BY <1>0, <2>1, NodeToken
  <2> QED
    BY <2>1, <2>2, NestSame DEF AllLoopKinds
<1>3. ASSUME EnterElse PROVE NestInv'
  <2>1. /\ prog' = Visited("else", Top.at) /\ frames # <<>> /\ Top.kind = "then"
        /\ frames' = [frames EXCEPT ![Len(frames)].kind = "else"]
    BY <1>3 DEF EnterElse
  <2>2. /\ Len(frames') = Len(frames) /\ Len(frames) \in 1..Len(frames)
        /\ \A i \in 1..(Len(frames) - 1) : frames'[i] = frames[i]
        /\ frames'[Len(frames)] = [Top EXCEPT !.kind = "else"] /\ Top \in Frame
    BY <1>0, <2>1, ElseFrames
  <2>3. Top.at \in Nat /\ frames'[Len(frames)].at = Top.at /\ frames'[Len(frames)].kind = "else"
    BY <2>2 DEF Frame
  <2>4. PICK t \in Token : t.tok = "else" /\ prog' = Append(prog, t)
    BY <2>1, <2>3, NodeToken
  <2>5. \A d \in 1..Len(frames) : frames'[d].at = frames[d].at
                                   /\ (IsLoop(frames'[d]) <=> IsLoop(frames[d]))
    <3> SUFFICES ASSUME NEW d \in 1..Len(frames)
                 PROVE  frames'[d].at = frames[d].at /\ (IsLoop(frames'[d]) <=> IsLoop(frames[d]))
      OBVIOUS
    <3>1. CASE d \in 1..(Len(frames) - 1)
      BY <2>2, <3>1
    <3>2. CASE d = Len(frames)
      BY <2>1, <2>3, <3>2 DEF Top, AllLoopKinds
    <3> QED
      BY <1>0, <3>1, <3>2
  <2> QED
    BY <2>2, <2>4, <2>5, NestSame DEF AllLoopKinds
<1>4. ASSUME EndIf PROVE NestInv'
  <2>1. /\ prog' = Visited("endif", Top.at) /\ frames # <<>> /\ Top.kind \in {"then", "else"}
        /\ frames' = Pop
    BY <1>4 DEF EndIf, Rejoin
  <2>2. Top.at \in Nat
    BY <2>1, TopTypes DEF Frame
  <2>3. PICK t \in Token : t.tok = "endif" /\ prog' = Append(prog, t)
    BY <2>1, <2>2, NodeToken
  <2>4. ~IsLoop(Top) /\ t.tok \notin AllLoopKinds
    BY <2>1, <2>3 DEF AllLoopKinds
  <2> QED
    BY <2>1, <2>3, <2>4, NestPop
<1>5. ASSUME NEW m \in 0..1, EndLoop(m) PROVE NestInv'
  <2>1. /\ prog' = Visited("endloop", Top.at) /\ frames # <<>> /\ Top.kind \in AllLoopKinds
        /\ frames' = Pop
    BY <1>5 DEF EndLoop, Rejoin
  <2>2. Top.at \in Nat
    BY <2>1, TopTypes DEF Frame
  <2> DEFINE t == [tok |-> "endloop", at |-> Top.at]
  <2>3. t \in Token /\ prog' = Append(prog, t) /\ t.tok = "endloop" /\ t.at = Top.at
    BY <2>1, <2>2 DEF Token, Visited
  <2> HIDE DEF t
  <2>4. IsLoop(Top) /\ t.tok \notin AllLoopKinds
    BY <2>1, <2>3 DEF AllLoopKinds
  <2> QED
    BY <2>1, <2>3, <2>4, NestPop
<1>6. ASSUME NEW hasElse \in BOOLEAN, NEW m \in 0..1, EnterIf(hasElse, m) PROVE NestInv'
  <2>1. /\ prog' = Visited("if", Here)
        /\ \E f : frames' = Append(frames, f) /\ f.at = Here /\ f.kind = "then"
    BY <1>6 DEF EnterIf
  <2>2. PICK t \in Token : t.tok = "if" /\ prog' = Append(prog, t)
    BY <1>0, <2>1, NodeToken
  <2>3. PICK f : frames' = Append(frames, f) /\ f.at = Here /\ f.kind = "then"
    BY <2>1
  <2>4. ~IsLoop(f) /\ t.tok \notin AllLoopKinds /\ t.tok # "endloop"
    BY <2>2, <2>3 DEF AllLoopKinds
  <2> QED
    BY <2>2, <2>3, <2>4, NestPush
<1>7. ASSUME NEW kind \in LoopKinds, prog' = Visited(kind, Here),
             \E f : frames' = Append(frames, f) /\ f.at = Here /\ f.kind = kind
      PROVE  NestInv'
  <2>1. kind \in AllLoopKinds
    BY LoopKindsAssumption
  <2>2. PICK t \in Token : t.tok = kind /\ prog' = Append(prog, t)
    BY <1>0, <1>7, <2>1, NodeToken
  <2>3. PICK f : frames' = Append(frames, f) /\ f.at = Here /\ f.kind = kind
    BY <1>7
  <2>4. IsLoop(f) /\ t.tok \in AllLoopKinds /\ t.tok # "endloop"
    BY <2>1, <2>2, <2>3 DEF AllLoopKinds
  <2> QED
    BY <2>2, <2>3, <2>4, NestPush
<1>8. ASSUME NEW kind \in LoopKinds, NEW m \in 0..1, EnterTestedLoop(kind, m) PROVE NestInv'
  BY <1>7, <1>8 DEF EnterTestedLoop
<1>9. ASSUME NEW kind \in LoopKinds, EnterOtherLoop(kind) PROVE NestInv'
  BY <1>7, <1>9 DEF EnterOtherLoop
<1>10. CASE Finish
  <2>1. frames = <<>> /\ frames' = frames /\ prog' = prog
    BY <1>10 DEF Finish
  <2> QED
    BY <2>1, NestIs DEF NestInv, Here
<1>11. CASE UNCHANGED vars
  <2>1. frames' = frames /\ prog' = prog
    BY <1>11 DEF vars
  <2> QED
    BY <2>1, NestIs DEF NestInv, Here
<1> QED
  BY <1>1, <1>2, <1>3, <1>4, <1>5, <1>6, <1>8, <1>9, <1>10, <1>11 DEF Next, Step, Terminated

LEMMA NestHolds == Spec => []NestInv
<1>1. Init => NestInv
  <2> SUFFICES ASSUME Init PROVE NestInv
    OBVIOUS
  <2>1. prog = <<>> /\ frames = <<>> /\ Len(prog) = 0 /\ Len(frames) = 0
    BY DEF Init
  <2> QED
    BY <2>1 DEF NestInv, Nested
<1>2. TypeInv /\ TypeInv' /\ NestInv /\ [Next]_vars => NestInv'
  BY NestStep
<1> QED
  BY <1>1, <1>2, TypeInvHolds, PTL DEF Spec

LEMMA NestRun == SpecRun => []NestInv
BY RunIsSpec, NestHolds, PTL

(* Instructions emitted for node i, at most one of them a text's.          *)
Fresh(t, i) ==
  /\ t \in Seq(Instrs)
  /\ \A k \in 1..Len(t) : t[k].id = i /\ (t[k].op = "new" => t[k].slot = i)
  /\ \A j, k \in 1..Len(t) : j < k => ~(t[j].op = "new" /\ t[k].op = "new")

(* Their branches lead to blocks that hold code of a loop around them, if  *)
(* any.                                                                    *)
Lands(t, c, p, n) ==
  \A k \in 1..Len(t) : IsBranch(t[k]) =>
    \A d \in Ways(t[k]) : d \in 2..n /\ InLoop(c[d], p, t[k].id)

Grows(c, c2, i) ==
  \A b \in Blocks : c2[b] = c[b] \/ \E t : c2[b] = c[b] \o t /\ Fresh(t, i)

Extends(c, c2, i, p, n) ==
  \A b \in Blocks :
    \/ c2[b] = c[b]
    \/ \E t : c2[b] = c[b] \o t /\ Fresh(t, i) /\ Lands(t, c2, p, n)

(* The elements of a sequence and one behind it.                           *)
LEMMA Elements ==
  ASSUME NEW s \in Seq(Instrs), NEW t \in Seq(Instrs)
  PROVE  /\ s \o t \in Seq(Instrs) /\ Len(s \o t) \in Nat
         /\ Len(s) \in Nat /\ Len(s \o t) = Len(s) + Len(t) /\ Len(t) \in Nat
         /\ \A k \in 1..Len(s \o t) :
              \/ k \in 1..Len(s) /\ (s \o t)[k] = s[k]
              \/ k > Len(s) /\ k - Len(s) \in 1..Len(t) /\ (s \o t)[k] = t[k - Len(s)]
<1>1. /\ Len(s) \in Nat /\ Len(t) \in Nat /\ Len(s \o t) = Len(s) + Len(t)
      /\ s \o t \in Seq(Instrs)
      /\ \A i \in 1..(Len(s) + Len(t)) : (s \o t)[i] = IF i <= Len(s) THEN s[i] ELSE t[i - Len(s)]
  BY ConcatProperties, LenProperties
<1> DEFINE u == s \o t
<1> HIDE DEF u
<1>2. ASSUME NEW k \in 1..Len(u)
      PROVE  \/ k \in 1..Len(s) /\ u[k] = s[k]
             \/ k > Len(s) /\ k - Len(s) \in 1..Len(t) /\ u[k] = t[k - Len(s)]
  BY <1>1, <1>2 DEF u
<1> QED
  BY <1>1, <1>2 DEF u

LEMMA SeqInOrderGrows ==
  ASSUME NEW s \in Seq(Instrs), NEW t, NEW m \in Nat, SeqInOrder(s), Fresh(t, m + 1),
         \A k \in 1..Len(s) : s[k].id <= m
  PROVE  SeqInOrder(s \o t) /\ \A k \in 1..Len(s \o t) : (s \o t)[k].id <= m + 1
<1>1. t \in Seq(Instrs)
  BY DEF Fresh
<1> DEFINE u == s \o t
           n == Len(s)
<1>2. /\ n \in Nat /\ Len(u) \in Nat /\ Len(t) \in Nat
      /\ \A k \in 1..Len(u) :
           \/ k \in 1..n /\ u[k] = s[k]
           \/ k > n /\ k - n \in 1..Len(t) /\ u[k] = t[k - n]
  BY <1>1, Elements
<1> HIDE DEF u
<1>3. \A k \in 1..n : s[k] \in Instrs /\ s[k].id \in Nat
  <2> SUFFICES ASSUME NEW k \in 1..n PROVE s[k] \in Instrs /\ s[k].id \in Nat
    OBVIOUS
  <2>1. s[k] \in Instrs
    BY ElementOfSeq
  <2> QED
    BY <2>1 DEF Instrs
<1>4. \A k \in 1..Len(t) : t[k].id = m + 1 /\ (t[k].op = "new" => t[k].slot = m + 1)
  BY DEF Fresh
<1>5. ASSUME NEW k \in 1..Len(u) PROVE u[k].id <= m + 1
  <2>1. CASE k \in 1..n /\ u[k] = s[k]
    BY <1>3, <2>1
  <2>2. CASE k > n /\ k - n \in 1..Len(t) /\ u[k] = t[k - n]
    BY <1>4, <2>2
  <2> QED
    BY <1>2, <2>1, <2>2
<1>6. ASSUME NEW k \in 1..Len(u), u[k].op = "new", u[k].slot >= 0 PROVE u[k].slot = u[k].id
  <2>1. CASE k \in 1..n /\ u[k] = s[k]
    BY <1>6, <2>1 DEF SeqInOrder
  <2>2. CASE k > n /\ k - n \in 1..Len(t) /\ u[k] = t[k - n]
    BY <1>4, <1>6, <2>2
  <2> QED
    BY <1>2, <2>1, <2>2
<1>7. ASSUME NEW j \in 1..Len(u), NEW k \in 1..Len(u), j < k
      PROVE  /\ u[j].id <= u[k].id
             /\ u[j].op = "new" /\ u[k].op = "new" => u[j].slot # u[k].slot
  <2>1. CASE j \in 1..n /\ u[j] = s[j] /\ k \in 1..n /\ u[k] = s[k]
    BY <1>7, <2>1 DEF SeqInOrder
  <2>2. CASE j \in 1..n /\ u[j] = s[j] /\ k > n /\ k - n \in 1..Len(t) /\ u[k] = t[k - n]
    <3>1. s[j].id <= m /\ s[j].id \in Nat /\ s[j].slot \in Int
      BY <1>3, <2>2 DEF Instrs
    <3>2. u[k].id = m + 1 /\ (u[k].op = "new" => u[k].slot = m + 1)
      BY <1>4, <2>2
    <3>3. s[j].op = "new" /\ s[j].slot >= 0 => s[j].slot = s[j].id
      BY <2>2 DEF SeqInOrder
    <3> QED
      BY <2>2, <3>1, <3>2, <3>3
  <2>3. CASE j > n /\ j - n \in 1..Len(t) /\ u[j] = t[j - n]
             /\ k > n /\ k - n \in 1..Len(t) /\ u[k] = t[k - n]
    <3>1. j - n < k - n
      BY <1>2, <1>7
    <3>2. ~(t[j - n].op = "new" /\ t[k - n].op = "new")
      BY <2>3, <3>1 DEF Fresh
    <3>3. u[j].id = m + 1 /\ u[k].id = m + 1
      BY <1>4, <2>3
    <3> QED
      BY <2>3, <3>2, <3>3
  <2>4. ~(j > n /\ k \in 1..n)
    BY <1>2, <1>7
  <2> QED
    BY <1>2, <2>1, <2>2, <2>3, <2>4
<1> QED
  BY <1>5, <1>6, <1>7 DEF SeqInOrder, u

(* Code that grows by instructions for the node that is next.              *)
LEMMA OrderGrows ==
  ASSUME NEW c \in [Blocks -> Seq(Instrs)], NEW c2, NEW p, NEW p2, NEW m \in Nat,
         NEW n \in Nat, NEW n2 \in Nat, n <= n2, 1..n2 \subseteq Blocks,
         CodeInOrder(c, p, n), IdsUpTo(c, m), Kept(p, p2, m),
         Extends(c, c2, m + 1, p2, n2)
  PROVE  CodeInOrder(c2, p2, n2) /\ IdsUpTo(c2, m + 1)
<1>1. ASSUME NEW b \in Blocks
      PROVE  \/ c2[b] = c[b]
             \/ \E t : c2[b] = c[b] \o t /\ Fresh(t, m + 1) /\ Lands(t, c2, p2, n2)
  BY DEF Extends
<1>2. ASSUME NEW b \in Blocks PROVE SeqInOrder(c[b]) /\ \A k \in 1..Len(c[b]) : c[b][k].id <= m
  BY DEF CodeInOrder, IdsUpTo
<1>3. ASSUME NEW b \in Blocks, NEW k \in 1..Len(c[b]) PROVE c[b][k] \in Instrs /\ c[b][k].id \in Nat
  <2>1. c[b][k] \in Instrs
    BY ElementOfSeq
  <2> QED
    BY <2>1 DEF Instrs
<1>4. ASSUME NEW b \in Blocks
      PROVE  SeqInOrder(c2[b]) /\ \A k \in 1..Len(c2[b]) : c2[b][k].id <= m + 1
  <2>1. CASE c2[b] = c[b]
    <3>1. \A k \in 1..Len(c2[b]) : c2[b][k].id <= m + 1
      BY <1>2, <1>3, <2>1
    <3> QED
      BY <1>2, <2>1, <3>1
  <2>2. ASSUME NEW t, c2[b] = c[b] \o t, Fresh(t, m + 1)
        PROVE  SeqInOrder(c2[b]) /\ \A k \in 1..Len(c2[b]) : c2[b][k].id <= m + 1
    <3> DEFINE s == c[b]
    <3>1. s \in Seq(Instrs) /\ SeqInOrder(s) /\ \A k \in 1..Len(s) : s[k].id <= m
      BY <1>2
    <3>2. c2[b] = s \o t
      BY <2>2
    <3> HIDE DEF s
    <3>3. SeqInOrder(s \o t) /\ \A k \in 1..Len(s \o t) : (s \o t)[k].id <= m + 1
      BY <2>2, <3>1, SeqInOrderGrows
    <3> QED
      BY <3>2, <3>3
  <2> QED
    BY <1>1, <2>1, <2>2
(* Every instruction of c2 is one of c or a new one.                       *)
<1>5. ASSUME NEW b \in Blocks, NEW k \in 1..Len(c2[b])
      PROVE  \/ k \in 1..Len(c[b]) /\ c2[b][k] = c[b][k]
             \/ /\ c2[b][k].id = m + 1 /\ (c2[b][k].op = "new" => c2[b][k].slot = m + 1)
                /\ IsBranch(c2[b][k]) =>
                     \A d \in Ways(c2[b][k]) : d \in 2..n2 /\ InLoop(c2[d], p2, m + 1)
  <2>1. CASE c2[b] = c[b]
    BY <2>1
  <2>2. ASSUME NEW t, c2[b] = c[b] \o t, Fresh(t, m + 1), Lands(t, c2, p2, n2),
               ~(k \in 1..Len(c[b]) /\ c2[b][k] = c[b][k])
        PROVE  /\ c2[b][k].id = m + 1 /\ (c2[b][k].op = "new" => c2[b][k].slot = m + 1)
               /\ IsBranch(c2[b][k]) =>
                    \A d \in Ways(c2[b][k]) : d \in 2..n2 /\ InLoop(c2[d], p2, m + 1)
    <3> DEFINE s == c[b]
               x == c2[b][k]
               i == k - Len(s)
    <3>1. s \in Seq(Instrs) /\ t \in Seq(Instrs)
      BY <2>2 DEF Fresh
    <3>2. i \in 1..Len(t) /\ x = t[i]
      <4>1. c2[b] = s \o t /\ k \in 1..Len(s \o t) /\ ~(k \in 1..Len(s) /\ (s \o t)[k] = s[k])
        BY <2>2
      <4> HIDE DEF s
      <4>2. i \in 1..Len(t) /\ (s \o t)[k] = t[i]
        BY <3>1, <4>1, Elements
      <4> QED
        BY <4>1, <4>2
    <3> HIDE DEF x, i
    <3>3. /\ x.id = m + 1 /\ (x.op = "new" => x.slot = m + 1)
          /\ IsBranch(x) => \A d \in Ways(x) : d \in 2..n2 /\ InLoop(c2[d], p2, m + 1)
      BY <2>2, <3>2 DEF Fresh, Lands
    <3> QED
      BY <3>3 DEF x
  <2> QED
    BY <1>1, <2>1, <2>2
<1>6. ASSUME NEW b \in Blocks, NEW k \in 1..Len(c2[b]), c2[b][k].op = "new", c2[b][k].slot < 0
      PROVE  b = Entry
  <2>1. CASE k \in 1..Len(c[b]) /\ c2[b][k] = c[b][k]
    BY <1>6, <2>1 DEF CodeInOrder
  <2>2. CASE c2[b][k].slot = m + 1
    BY <1>6, <2>2
  <2> QED
    BY <1>5, <1>6, <2>1, <2>2
<1>7. ASSUME NEW b \in Blocks, NEW k \in 1..Len(c2[b]), IsBranch(c2[b][k]),
             NEW d \in Ways(c2[b][k])
      PROVE  d \in 2..n2 /\ Follows(c2[b][k].id, c2[d], p2)
  <2>1. CASE k \in 1..Len(c[b]) /\ c2[b][k] = c[b][k]
    <3>1. d \in 2..n /\ Follows(c[b][k].id, c[d], p) /\ c[b][k].id <= m /\ c[b][k].id \in Nat
      BY <1>2, <1>3, <1>7, <2>1 DEF CodeInOrder
    <3>2. d \in Blocks /\ d \in 2..n2
      BY <3>1
    <3>3. ASSUME NEW j \in 1..Len(c2[d])
          PROVE  c[b][k].id < c2[d][j].id \/ Together(p2, c[b][k].id, c2[d][j].id)
      <4>1. CASE j \in 1..Len(c[d]) /\ c2[d][j] = c[d][j]
        <5>1. c[b][k].id < c[d][j].id \/ Together(p, c[b][k].id, c[d][j].id)
          BY <3>1, <4>1 DEF Follows
        <5>2. c[d][j].id \in Nat /\ c[d][j].id <= m
          BY <1>2, <1>3, <3>2, <4>1
        <5> QED
          BY <3>1, <4>1, <5>1, <5>2 DEF Kept
      <4>2. CASE c2[d][j].id = m + 1
        <5>1. c[b][k].id < m + 1
          BY <3>1
        <5> QED
          BY <4>2, <5>1
      <4>3. (j \in 1..Len(c[d]) /\ c2[d][j] = c[d][j]) \/ c2[d][j].id = m + 1
        BY <1>5, <3>2
      <4> QED
        BY <4>1, <4>2, <4>3
    <3> QED
      BY <2>1, <3>2, <3>3 DEF Follows
  <2>2. CASE d \in 2..n2 /\ InLoop(c2[d], p2, m + 1) /\ c2[b][k].id = m + 1
    BY <2>2 DEF InLoop, Follows
  <2> QED
    BY <1>5, <1>7, <2>1, <2>2
<1> QED
  BY <1>4, <1>6, <1>7 DEF CodeInOrder, IdsUpTo

(* A block of a loop in progress stays one.                                *)
LEMMA OfLoopGrows ==
  ASSUME NEW s \in Seq(Instrs), NEW s2, NEW p, NEW p2, NEW m \in Nat, NEW l,
         OfLoop(s, p, l), \A k \in 1..Len(s) : s[k].id <= m,
         \A k \in Nat : k <= m /\ Encloses(p, l, k) => Encloses(p2, l, k),
         Encloses(p2, l, m + 1),
         s2 = s \/ \E t : s2 = s \o t /\ Fresh(t, m + 1)
  PROVE  OfLoop(s2, p2, l)
<1>0. \A k \in 1..Len(s) : Encloses(p2, l, s[k].id)
  <2> SUFFICES ASSUME NEW k \in 1..Len(s) PROVE Encloses(p2, l, s[k].id)
    OBVIOUS
  <2>1. s[k] \in Instrs
    BY ElementOfSeq
  <2> QED
    BY <2>1 DEF Instrs, OfLoop
<1>1. CASE s2 = s
  BY <1>0, <1>1 DEF OfLoop
<1>2. ASSUME NEW t, s2 = s \o t, Fresh(t, m + 1) PROVE OfLoop(s2, p2, l)
  <2>1. t \in Seq(Instrs) /\ \A k \in 1..Len(t) : t[k].id = m + 1
    BY <1>2 DEF Fresh
  <2> DEFINE u == s \o t
  <2>2. \A k \in 1..Len(u) : \/ k \in 1..Len(s) /\ u[k] = s[k]
                             \/ k - Len(s) \in 1..Len(t) /\ u[k] = t[k - Len(s)]
    BY <2>1, Elements
  <2> HIDE DEF u
  <2>3. OfLoop(u, p2, l)
    BY <1>0, <2>1, <2>2 DEF OfLoop
  <2> QED
    BY <1>2, <2>3 DEF u
<1> QED
  BY <1>1, <1>2

LEMMA EmptyInLoop == \A p, i : InLoop(<<>>, p, i) /\ OfLoop(<<>>, p, i)
BY DEF InLoop, OfLoop

(* What the emitter puts together.                                         *)
LEMMA FreshOne ==
  ASSUME NEW i \in Nat, NEW m \in 0..1, NEW x \in Instrs, x.id = i, x.op # "new"
  PROVE  /\ Fresh(<<x>>, i) /\ Fresh(Eval(i, m) \o <<x>>, i)
         /\ \A c, p, n : (IsBranch(x) => \A d \in Ways(x) : d \in 2..n /\ InLoop(c[d], p, i))
              => Lands(<<x>>, c, p, n) /\ Lands(Eval(i, m) \o <<x>>, c, p, n)
<1> DEFINE y == <<x>>
           e == Eval(i, m)
           u == e \o y
<1>1. y \in Seq(Instrs) /\ Len(y) = 1 /\ y[1] = x
  OBVIOUS
<1>2. New(i, i) \in Instrs /\ New(i, i).id = i /\ New(i, i).op = "new" /\ New(i, i).slot = i
  BY InstrTypes DEF New, Instr
<1>3. e \in Seq(Instrs) /\ Len(e) \in 0..1 /\ \A k \in 1..Len(e) : e[k] = New(i, i)
  <2>1. CASE m = 1
    <3>1. e = <<New(i, i)>>
      BY <2>1 DEF Eval
    <3> QED
      BY <1>2, <3>1
  <2>2. CASE m = 0
    BY <2>2 DEF Eval
  <2> QED
    BY <2>1, <2>2
<1> HIDE DEF y, e
<1>4. /\ u \in Seq(Instrs) /\ Len(u) = Len(e) + 1
      /\ \A k \in 1..Len(u) : \/ k \in 1..Len(e) /\ u[k] = e[k]
                              \/ k > Len(e) /\ k - Len(e) \in 1..Len(y) /\ u[k] = y[k - Len(e)]
  BY <1>1, <1>3, Elements
<1> HIDE DEF u
<1>5. \A k \in 1..Len(u) : \/ k = 1 /\ u[k] = New(i, i)
                           \/ k = Len(u) /\ u[k] = x
  <2> SUFFICES ASSUME NEW k \in 1..Len(u)
               PROVE  (k = 1 /\ u[k] = New(i, i)) \/ (k = Len(u) /\ u[k] = x)
    OBVIOUS
  <2>1. CASE k \in 1..Len(e) /\ u[k] = e[k]
    BY <1>3, <2>1
  <2>2. CASE k > Len(e) /\ k - Len(e) \in 1..Len(y) /\ u[k] = y[k - Len(e)]
    <3>1. k - Len(e) = 1
      BY <1>1, <2>2
    <3>2. k = Len(e) + 1
      BY <1>3, <3>1
    <3> QED
      BY <1>1, <1>4, <2>2, <3>1, <3>2
  <2> QED
    BY <1>4, <2>1, <2>2
<1>6. Fresh(u, i)
  <2>1. \A k \in 1..Len(u) : u[k].id = i /\ (u[k].op = "new" => u[k].slot = i)
    BY <1>2, <1>5
  <2>2. \A j, k \in 1..Len(u) : j < k => ~(u[j].op = "new" /\ u[k].op = "new")
    BY <1>5
  <2> QED
    BY <1>4, <2>1, <2>2 DEF Fresh
<1>7. Fresh(y, i)
  <2>1. \A k \in 1..Len(y) : y[k] = x
    BY <1>1
  <2> QED
    BY <1>1, <2>1 DEF Fresh
<1>8. ASSUME NEW c, NEW p, NEW n, IsBranch(x) => \A d \in Ways(x) : d \in 2..n /\ InLoop(c[d], p, i)
      PROVE  Lands(y, c, p, n) /\ Lands(u, c, p, n)
  <2>1. \A k \in 1..Len(y) : y[k] = x
    BY <1>1
  <2>2. ~IsBranch(New(i, i))
    BY <1>2 DEF IsBranch
  <2>3. \A k \in 1..Len(u) : IsBranch(u[k]) => u[k] = x
    BY <1>5, <2>2
  <2> QED
    BY <1>8, <2>1, <2>3 DEF Lands
<1> QED
  BY <1>6, <1>7, <1>8 DEF u, e, y

(* The code of a return stores one text at most, and does not branch.      *)
NoNew(s) == \A k \in 1..Len(s) : s[k].op # "new"
Straight(s) == \A k \in 1..Len(s) : ~IsBranch(s[k])

LEMMA FreshConcat ==
  ASSUME NEW i, NEW s, NEW t, Fresh(s, i), Fresh(t, i), NoNew(s) \/ NoNew(t)
  PROVE  /\ Fresh(s \o t, i)
         /\ NoNew(s) /\ NoNew(t) => NoNew(s \o t)
         /\ Straight(s) /\ Straight(t) => Straight(s \o t)
<1>1. s \in Seq(Instrs) /\ t \in Seq(Instrs)
  BY DEF Fresh
<1> DEFINE u == s \o t
           n == Len(s)
<1>2. /\ u \in Seq(Instrs) /\ Len(u) \in Nat /\ n \in Nat
      /\ \A k \in 1..Len(u) :
           \/ k \in 1..n /\ u[k] = s[k]
           \/ k > n /\ k - n \in 1..Len(t) /\ u[k] = t[k - n]
  BY <1>1, Elements
<1> HIDE DEF u
<1>3. ASSUME NEW k \in 1..Len(u) PROVE u[k].id = i /\ (u[k].op = "new" => u[k].slot = i)
  BY <1>2 DEF Fresh
<1>4. ASSUME NEW j \in 1..Len(u), NEW k \in 1..Len(u), j < k
      PROVE  ~(u[j].op = "new" /\ u[k].op = "new")
  <2>1. CASE j \in 1..n /\ u[j] = s[j] /\ k \in 1..n /\ u[k] = s[k]
    BY <1>4, <2>1 DEF Fresh
  <2>2. CASE j \in 1..n /\ u[j] = s[j] /\ k > n /\ k - n \in 1..Len(t) /\ u[k] = t[k - n]
    BY <2>2 DEF NoNew
  <2>3. CASE j > n /\ j - n \in 1..Len(t) /\ u[j] = t[j - n]
             /\ k > n /\ k - n \in 1..Len(t) /\ u[k] = t[k - n]
    <3>1. j - n < k - n
      BY <1>2, <1>4
    <3>2. ~(t[j - n].op = "new" /\ t[k - n].op = "new")
      BY <2>3, <3>1 DEF Fresh
    <3> QED
      BY <2>3, <3>2
  <2>4. ~(j > n /\ k \in 1..n)
    BY <1>2, <1>4
  <2> QED
    BY <1>2, <2>1, <2>2, <2>3, <2>4
<1>5. NoNew(s) /\ NoNew(t) => NoNew(u)
  BY <1>2 DEF NoNew
<1>6. Straight(s) /\ Straight(t) => Straight(u)
  BY <1>2 DEF Straight
<1> QED
  BY <1>2, <1>3, <1>4, <1>5, <1>6 DEF Fresh, u

LEMMA FreshReturn ==
  ASSUME TypeOK, NEW v \in {"none", "scalar"} \cup AllRetValues
  PROVE  Fresh(ReturnCode(v), Here) /\ Straight(ReturnCode(v))
<1> DEFINE m == IF v = "temp" THEN 1 ELSE 0
           e == Eval(Here, m)
           p == [k \in 1..Len(frees) |-> Free(Here, frees[k])]
           q == [l \in 1..TextLocals |-> Free(Here, -l)]
           f == FreeTexts(frees)
           r == RetInstr(v)
<1>1. Here \in Nat /\ frees \in Seq(Nat) /\ Len(frees) \in Nat /\ TextLocals \in Nat
  BY HereTypes, TextLocalsAssumption DEF TypeOK
<1>2. \A x \in Int : /\ New(Here, x) \in Instrs /\ New(Here, x).id = Here
                     /\ New(Here, x).op = "new" /\ New(Here, x).slot = x
                     /\ Free(Here, x) \in Instrs /\ Free(Here, x).id = Here
                     /\ Free(Here, x).op = "free"
                     /\ Ret(Here, x) \in Instrs /\ Ret(Here, x).id = Here
                     /\ Ret(Here, x).op = "ret"
  BY <1>1, InstrTypes DEF New, Free, Ret, Instr
<1>3. /\ Fresh(<<>>, Here) /\ Straight(<<>>) /\ NoNew(<<>>)
  BY DEF Fresh, Straight, NoNew
<1>4. ASSUME NEW y, y \in Seq(Instrs), \A k \in 1..Len(y) : y[k].id = Here /\ y[k].op \in {"free", "ret"}
      PROVE  Fresh(y, Here) /\ NoNew(y) /\ Straight(y)
  BY <1>4 DEF Fresh, NoNew, Straight, IsBranch
<1>5. Fresh(<<New(Here, Here)>>, Here) /\ Straight(<<New(Here, Here)>>)
  <2> DEFINE y == <<New(Here, Here)>>
  <2>1. y \in Seq(Instrs) /\ Len(y) = 1 /\ \A k \in 1..1 : y[k] = New(Here, Here)
    BY <1>1, <1>2
  <2> HIDE DEF y
  <2>2. Fresh(y, Here) /\ Straight(y)
    BY <1>1, <1>2, <2>1 DEF Fresh, Straight, IsBranch
  <2> QED
    BY <2>2 DEF y
<1>6. Fresh(e, Here) /\ Straight(e) /\ (v # "temp" => NoNew(e))
  <2>1. CASE v = "temp"
    BY <1>5, <2>1 DEF Eval
  <2>2. CASE v # "temp"
    BY <1>3, <2>2 DEF Eval
  <2> QED
    BY <2>1, <2>2
<1>7. Fresh(p, Here) /\ NoNew(p) /\ Straight(p)
  <2>1. \A k \in 1..Len(frees) : frees[k] \in Int
    BY <1>1
  <2>2. p \in Seq(Instrs) /\ Len(p) = Len(frees) /\ \A k \in 1..Len(p) : p[k] = Free(Here, frees[k])
    BY <1>1, <1>2, <2>1
  <2> HIDE DEF p
  <2>3. \A k \in 1..Len(p) : p[k].id = Here /\ p[k].op \in {"free", "ret"}
    BY <1>2, <2>1, <2>2
  <2> QED
    BY <1>4, <2>2, <2>3
<1>8. Fresh(q, Here) /\ NoNew(q) /\ Straight(q)
  <2>1. \A l \in 1..TextLocals : -l \in Int
    BY <1>1
  <2>2. q \in Seq(Instrs) /\ Len(q) = TextLocals /\ \A l \in 1..Len(q) : q[l] = Free(Here, -l)
    BY <1>1, <1>2, <2>1
  <2> HIDE DEF q
  <2>3. \A k \in 1..Len(q) : q[k].id = Here /\ q[k].op \in {"free", "ret"}
    BY <1>2, <2>1, <2>2
  <2> QED
    BY <1>4, <2>2, <2>3
<1>9. Fresh(f, Here) /\ NoNew(f) /\ Straight(f)
  <2>1. f = p \o q
    BY DEF FreeTexts
  <2> HIDE DEF p, q, f
  <2> QED
    BY <1>7, <1>8, <2>1, FreshConcat
<1>10. \A x \in Int : LET y == <<Ret(Here, x)>> IN Fresh(y, Here) /\ NoNew(y) /\ Straight(y)
  <2> SUFFICES ASSUME NEW x \in Int
               PROVE  LET y == <<Ret(Here, x)>> IN Fresh(y, Here) /\ NoNew(y) /\ Straight(y)
    OBVIOUS
  <2> DEFINE y == <<Ret(Here, x)>>
  <2>1. y \in Seq(Instrs) /\ \A k \in 1..Len(y) : y[k] = Ret(Here, x)
    BY <1>2
  <2> HIDE DEF y
  <2>2. Fresh(y, Here) /\ NoNew(y) /\ Straight(y)
    BY <1>2, <1>4, <2>1
  <2> QED
    BY <2>2 DEF y
<1>11. Fresh(r, Here) /\ Straight(r) /\ (v # "literal" => NoNew(r))
  <2>1. CASE v = "none"
    <3>1. r = <<>> \/ r = <<Ret(Here, 0)>>
      BY <2>1 DEF RetInstr
    <3> DEFINE y == <<Ret(Here, 0)>>
    <3>2. Fresh(y, Here) /\ NoNew(y) /\ Straight(y)
      BY <1>10
    <3>3. r = <<>> \/ r = y
      BY <3>1
    <3> HIDE DEF r, y
    <3> QED
      BY <1>3, <3>2, <3>3
  <2>2. CASE v = "literal"
    <3> DEFINE y == <<New(Here, Here)>>
               z == <<Ret(Here, Here)>>
    <3>1. r = y \o z
      BY <2>2 DEF RetInstr
    <3>2. Fresh(y, Here) /\ Straight(y) /\ Fresh(z, Here) /\ NoNew(z) /\ Straight(z)
      BY <1>1, <1>5, <1>10
    <3> HIDE DEF y, z, r
    <3> QED
      BY <2>2, <3>1, <3>2, FreshConcat
  <2>3. CASE v \notin {"none", "literal"}
    <3>1. ValueSlot(v) \in Int /\ r = <<Ret(Here, ValueSlot(v))>>
      BY <1>1, <2>3 DEF ValueSlot, RetInstr
    <3> HIDE DEF r
    <3> QED
      BY <1>10, <3>1
  <2> QED
    BY <2>1, <2>2, <2>3
<1>12. ReturnCode(v) = (e \o f) \o r
  BY DEF ReturnCode
<1> HIDE DEF e, f, r, m
<1>13. Fresh(e \o f, Here) /\ Straight(e \o f) /\ (v # "temp" => NoNew(e \o f))
  BY <1>6, <1>9, FreshConcat
<1> DEFINE g == e \o f
<1> HIDE DEF g
<1>14. Fresh(g, Here) /\ Straight(g) /\ (v # "temp" => NoNew(g)) /\ ReturnCode(v) = g \o r
  BY <1>12, <1>13 DEF g
<1>15. NoNew(g) \/ NoNew(r)
  BY <1>11, <1>14
<1> QED
  BY <1>11, <1>14, <1>15, FreshConcat

(* One node: what has to be shown of its code and its frame.               *)
LoopKnown(f, c, p) == OfLoop(c[f.cond], p, f.at) /\ OfLoop(c[f.body], p, f.at)

LEMMA OldLoops ==
  ASSUME TypeInv, NestInv, OrderInv, phase = "visit", NEW t \in Token, prog' = Append(prog, t),
         Grows(code, code', Here),
         NEW d \in 1..Len(frames), frames[d].kind \in AllLoopKinds
  PROVE  LoopKnown(frames[d], code', prog') /\ Encloses(prog', frames[d].at, Here)
<1> DEFINE f == frames[d]
           p2 == prog'
           l == f.at
           m == Len(prog)
<1>1. /\ prog \in Seq(Token) /\ code \in [Blocks -> Seq(Instrs)] /\ frames \in Seq(Frame)
      /\ FrameOK(f, placed, created) /\ created \in Blocks /\ m \in Nat /\ Here = m + 1
  BY LenProperties DEF TypeInv, TypeOK, FramesOK, Here
<1>2. f.cond \in Blocks /\ f.body \in Blocks
  <2>1. f \in Frame /\ f.cond \in 2..created /\ created \in 1..MaxBlocks /\ MaxBlocks \in Nat
    BY <1>1, ElementOfSeq, BlocksFacts DEF FrameOK, Blocks
  <2> QED
    BY <2>1 DEF Frame, Blocks
<1>3. /\ OfLoop(code[f.cond], prog, l) /\ OfLoop(code[f.body], prog, l) /\ IdsUpTo(code, m)
  BY DEF OrderInv, LoopFrames
<1>4. Encloses(prog, l, m + 1) /\ l \in Int
  BY <1>1 DEF NestInv, IsLoop
<1>5. \A i \in Int : i <= m + 1 /\ Encloses(prog, l, i) => Encloses(p2, l, i)
  BY <1>1, <1>4, EnclosesAppend
<1> HIDE DEF p2, l, m, f
<1>6. Encloses(p2, l, m + 1) /\ \A k \in Nat : k <= m /\ Encloses(prog, l, k) => Encloses(p2, l, k)
  BY <1>1, <1>4, <1>5
<1>7. ASSUME NEW b \in Blocks, OfLoop(code[b], prog, l) PROVE OfLoop(code'[b], p2, l)
  <2>1. code'[b] = code[b] \/ \E s : code'[b] = code[b] \o s /\ Fresh(s, m + 1)
    BY <1>1 DEF Grows
  <2> DEFINE u == code[b]
             v == code'[b]
  <2>2. /\ u \in Seq(Instrs) /\ OfLoop(u, prog, l) /\ (v = u \/ \E s : v = u \o s /\ Fresh(s, m + 1))
        /\ \A k \in 1..Len(u) : u[k].id <= m
    BY <1>1, <1>3, <1>7, <2>1 DEF IdsUpTo
  <2> HIDE DEF u, v
  <2>3. OfLoop(v, p2, l)
    BY <1>1, <1>6, <2>2, OfLoopGrows
  <2> QED
    BY <2>3 DEF v
<1> QED
  BY <1>1, <1>2, <1>3, <1>6, <1>7 DEF LoopKnown, p2, l, f

LEMMA OrderIs ==
  OrderInv' <=> /\ CodeInOrder(code', prog', created')
                /\ phase' = "visit" => IdsUpTo(code', Len(prog'))
                /\ LoopFrames(frames', code', prog')
BY DEF OrderInv, CodeInOrder, SeqInOrder, IsBranch, Ways, Follows, Together, Encloses, IdsUpTo,
       LoopFrames, OfLoop

LEMMA OrderNext ==
  ASSUME TypeInv, TypeInv', NestInv, OrderInv, phase = "visit", created <= created',
         NEW t \in Token, prog' = Append(prog, t),
         Extends(code, code', Here, prog', created'),
         \A d \in 1..Len(frames') : frames'[d].kind \in AllLoopKinds =>
           \/ d \in 1..Len(frames) /\ frames'[d] = frames[d]
           \/ LoopKnown(frames'[d], code', prog')
  PROVE  OrderInv'
<1> DEFINE c == code
           c2 == code'
           p == prog
           p2 == prog'
           n == created
           n2 == created'
           m == Len(prog)
<1>1. /\ c \in [Blocks -> Seq(Instrs)] /\ p \in Seq(Token) /\ m \in Nat /\ Here = m + 1
      /\ n \in Nat /\ n2 \in Nat /\ n2 \in Blocks
  BY HereTypes, BlocksFacts DEF TypeInv, TypeOK, Here
<1>2. 1..n2 \subseteq Blocks /\ n <= n2
  BY <1>1, BlocksFacts DEF Blocks
<1>3. Kept(p, p2, m) /\ Len(p2) = m + 1
  BY <1>1, EnclosesAppend, TogetherKept
<1>4. CodeInOrder(c, p, n) /\ IdsUpTo(c, m) /\ Extends(c, c2, m + 1, p2, n2)
  BY <1>1 DEF OrderInv
<1>5. LoopFrames(frames', c2, p2)
  BY OldLoops DEF LoopFrames, LoopKnown, Extends, Grows
<1> HIDE DEF c, c2, p, p2, n, n2, m
<1>6. CodeInOrder(c2, p2, n2) /\ IdsUpTo(c2, m + 1)
  BY <1>1, <1>2, <1>3, <1>4, OrderGrows
<1> USE DEF c, c2, p, p2, n, n2, m
<1>7. IdsUpTo(code', Len(prog'))
  <2>1. Len(p2) = m + 1
    BY <1>3
  <2>2. IdsUpTo(c2, Len(p2))
    BY <1>6, <2>1, Zenon
  <2> QED
    BY <2>2
<1> QED
  BY <1>5, <1>6, <1>7, OrderIs

(* The code of one block grows.                                            *)
LEMMA ExtendsOne ==
  ASSUME TypeOK, NEW s, Fresh(s, Here), NEW p, NEW n,
         code' = Emit(code, insert, s), Lands(s, code', p, n)
  PROVE  Extends(code, code', Here, p, n)
<1>1. s \in Seq(Instrs)
  BY DEF Fresh
<1>2. code'[insert] = code[insert] \o s /\ \A d \in Blocks \ {insert} : code'[d] = code[d]
  BY <1>1, GrowsInsert
<1>3. \A b \in Blocks : b = insert \/ code'[b] = code[b]
  BY <1>2
<1> QED
  BY <1>2, <1>3 DEF Extends

LEMMA OrderStatement ==
  ASSUME TypeInv, TypeInv', NestInv, OrderInv, NEW m \in 0..1, Statement(m)
  PROVE  OrderInv'
<1> DEFINE x == Op(Here)
           s == Eval(Here, m) \o <<x>>
<1>1. /\ phase = "visit" /\ prog' = Visited("op", Here) /\ created' = created
      /\ frames' = frames /\ code' = Emit(code, insert, s)
  BY DEF Statement, MayOpen
<1>2. Here \in Nat /\ created \in Nat /\ TypeOK
  BY HereTypes DEF TypeInv
<1>3. x \in Instrs /\ x.id = Here /\ x.op = "op"
  BY <1>2, OpTypes DEF Op, Instr
<1>4. PICK t \in Token : prog' = Append(prog, t)
  BY <1>1, <1>2, NodeToken
<1> HIDE DEF x
<1>5. Fresh(s, Here) /\ \A c, p, n : Lands(s, c, p, n)
  BY <1>2, <1>3, FreshOne DEF IsBranch
<1> HIDE DEF s
<1>6. Extends(code, code', Here, prog', created')
  BY <1>1, <1>2, <1>5, ExtendsOne
<1>7. created <= created' /\ \A d \in 1..Len(frames') : d \in 1..Len(frames) /\ frames'[d] = frames[d]
  BY <1>1, <1>2
<1> QED
  BY <1>1, <1>4, <1>6, <1>7, OrderNext

(* The frames with one more on top.                                        *)
LEMMA PushedLoops ==
  ASSUME TypeInv, NEW f, frames' = Append(frames, f)
  PROVE  \A d \in 1..Len(frames') :
           (d \in 1..Len(frames) /\ frames'[d] = frames[d]) \/ frames'[d] = f
<1>1. frames \in Seq(Frame) /\ Len(frames) \in Nat
  BY LenProperties DEF TypeInv, TypeOK
<1> QED
  BY <1>1

LEMMA OrderEnterIf ==
  ASSUME TypeInv, TypeInv', FreshInv, NestInv, OrderInv,
         NEW hasElse \in BOOLEAN, NEW m \in 0..1, EnterIf(hasElse, m)
  PROVE  OrderInv'
<1> DEFINE els == IF hasElse THEN created + 3 ELSE created + 1
           f == [kind |-> "then", at |-> Here, cond |-> NoBlock, body |-> created + 2,
                 els |-> els, leave |-> created + 1, before |-> current]
           x == CondBr(Here, created + 2, els)
           s == Eval(Here, m) \o <<x>>
<1>1. /\ MayOpen /\ phase = "visit" /\ prog' = Visited("if", Here)
      /\ created' = (IF hasElse THEN created + 3 ELSE created + 2)
      /\ frames' = Append(frames, f) /\ code' = Emit(code, insert, s)
  BY DEF EnterIf, MayOpen
<1>2. /\ Here \in Nat /\ created \in Nat \ {0} /\ TypeOK /\ insert \in 1..created
      /\ placed \subseteq 1..created
  BY HereTypes DEF TypeInv
<1>3. /\ created + 2 \in Blocks /\ els \in Blocks
      /\ els > created /\ created + 2 > created /\ created <= created'
      /\ els \in 2..created' /\ created + 2 \in 2..created'
  BY <1>1, <1>2, RoomForBlocks
<1>4. x \in Instrs /\ x.id = Here /\ x.op = "condbr" /\ Ways(x) = {created + 2, els}
  BY <1>2, <1>3, BranchTypes DEF CondBr, Ways
<1>5. PICK t \in Token : prog' = Append(prog, t)
  BY <1>1, <1>2, NodeToken
<1>6. \A d \in {created + 2, els} : d \notin placed /\ d # insert /\ d \in Blocks /\ code[d] = <<>>
  BY <1>2, <1>3 DEF FreshInv
<1> HIDE DEF x, els
<1>7. Fresh(s, Here)
  BY <1>2, <1>4, FreshOne
<1>8. \A d \in Ways(x) : d \in 2..created' /\ InLoop(code'[d], prog', Here)
  <2>1. s \in Seq(Instrs)
    BY <1>7 DEF Fresh
  <2> HIDE DEF s
  <2>2. \A d \in {created + 2, els} : code'[d] = <<>>
    BY <1>1, <1>2, <1>6, <2>1, GrowsInsert
  <2> QED
    BY <1>3, <1>4, <2>2, EmptyInLoop
<1>9. Lands(s, code', prog', created')
  <2> DEFINE c2 == code'
             p2 == prog'
             n2 == created'
  <2>1. \A d \in Ways(x) : d \in 2..n2 /\ InLoop(c2[d], p2, Here)
    BY <1>8
  <2> HIDE DEF c2, p2, n2
  <2>2. Lands(s, c2, p2, n2)
    BY <1>2, <1>4, <2>1, FreshOne
  <2> QED
    BY <2>2 DEF c2, p2, n2
<1> HIDE DEF s, f
<1>10. Extends(code, code', Here, prog', created')
  BY <1>1, <1>2, <1>7, <1>9, ExtendsOne
<1>11. \A d \in 1..Len(frames') : frames'[d].kind \in AllLoopKinds =>
         d \in 1..Len(frames) /\ frames'[d] = frames[d]
  <2>1. f.kind \notin AllLoopKinds
    BY DEF f, AllLoopKinds
  <2> QED
    BY <1>1, <2>1, PushedLoops
<1> QED
  BY <1>1, <1>3, <1>5, <1>10, <1>11, OrderNext

(* A branch to b, and nothing else.                                        *)
LEMMA OrderJump ==
  ASSUME TypeInv, TypeInv', NestInv, OrderInv, phase = "visit", created' = created,
         NEW tok, NEW at \in Nat, prog' = Visited(tok, at),
         tok \in {"op", "if", "else", "endif", "ret", "endloop"} \cup AllLoopKinds,
         NEW b \in Blocks, b \in 2..created, InLoop(code'[b], prog', Here), code' = JumpTo(b),
         \A d \in 1..Len(frames') : frames'[d].kind \in AllLoopKinds =>
           d \in 1..Len(frames) /\ frames'[d] = frames[d]
  PROVE  OrderInv'
<1> DEFINE x == Br(Here, b)
           s == <<x>>
<1>1. Here \in Nat /\ created \in Nat /\ TypeOK /\ prog \in Seq(Token)
  BY HereTypes DEF TypeInv, TypeOK
<1>2. x \in Instrs /\ x.id = Here /\ x.op = "br" /\ Ways(x) = {b}
  BY <1>1, BranchTypes DEF Br, Ways
<1>3. PICK t \in Token : prog' = Append(prog, t)
  <2>1. \E t \in Token : t.tok = tok /\ prog' = Append(prog, t)
    BY NodeToken
  <2> QED
    BY <2>1
<1>4. code' = Emit(code, insert, s)
  BY DEF JumpTo
<1> HIDE DEF x
<1>5. Fresh(s, Here) /\ 0 \in 0..1
  <2>1. 0 \in 0..1
    OBVIOUS
  <2>2. x \in Instrs /\ x.id = Here /\ x.op # "new" /\ Here \in Nat
    BY <1>1, <1>2
  <2>3. Fresh(<<x>>, Here)
    BY <2>1, <2>2, FreshOne
  <2> QED
    BY <2>1, <2>3
<1>6. Lands(s, code', prog', created')
  <2> DEFINE c2 == code'
             p2 == prog'
             n2 == created'
  <2>1. \A d \in Ways(x) : d \in 2..n2 /\ InLoop(c2[d], p2, Here)
    BY <1>2
  <2> HIDE DEF c2, p2, n2
  <2>2. Lands(s, c2, p2, n2)
    BY <1>1, <1>2, <1>5, <2>1, FreshOne
  <2> QED
    BY <2>2 DEF c2, p2, n2
<1> HIDE DEF s
<1>7. Extends(code, code', Here, prog', created')
  BY <1>1, <1>4, <1>5, <1>6, ExtendsOne
<1>8. created <= created'
  BY <1>1
<1> QED
  BY <1>3, <1>7, <1>8, OrderNext

(* The block an if or loop ends in is empty until then.                    *)
LEMMA LeaveEmpty ==
  ASSUME TypeInv, FreshInv, frames # <<>>
  PROVE  /\ Top.leave \in Blocks /\ Top.leave \in 2..created /\ Top.leave # insert
         /\ code[Top.leave] = <<>> /\ Top.at \in Nat
         /\ \A p, i : InLoop(JumpTo(Top.leave)[Top.leave], p, i)
<1>1. /\ Top \in Frame /\ FrameOK(Top, placed, created) /\ Len(frames) \in Nat \ {0}
      /\ Top = frames[Len(frames)] /\ insert \in placed /\ Top.leave \in Blocks
  BY TopTypes, HereTypes DEF Top, TypeInv
<1>2. Top.leave \notin placed
  <2>1. Top.leave \in Pending(Top) /\ Len(frames) \in 1..Len(frames)
    BY <1>1 DEF Pending
  <2> QED
    BY <1>1, <2>1 DEF FreshInv
<1>3. code[Top.leave] = <<>> /\ Top.leave # insert
  BY <1>1, <1>2 DEF FreshInv
<1>4. JumpTo(Top.leave)[Top.leave] = <<>>
  BY <1>1, <1>3, JumpCode DEF TypeInv
<1> QED
  BY <1>1, <1>3, <1>4, EmptyInLoop DEF FrameOK, Frame

LEMMA OrderEnterElse ==
  ASSUME TypeInv, TypeInv', FreshInv, NestInv, OrderInv, EnterElse
  PROVE  OrderInv'
<1>1. /\ phase = "visit" /\ frames # <<>> /\ created' = created /\ code' = JumpTo(Top.leave)
      /\ prog' = Visited("else", Top.at)
      /\ frames' = [frames EXCEPT ![Len(frames)].kind = "else"]
  BY DEF EnterElse
<1>2. \A d \in 1..Len(frames') : frames'[d].kind \in AllLoopKinds =>
        d \in 1..Len(frames) /\ frames'[d] = frames[d]
  <2>1. frames \in Seq(Frame) /\ Len(frames) \in Nat \ {0}
    BY <1>1, TopTypes DEF TypeInv, TypeOK
  <2>2. /\ Len(frames') = Len(frames) /\ \A i \in 1..(Len(frames) - 1) : frames'[i] = frames[i]
        /\ frames'[Len(frames)] = [Top EXCEPT !.kind = "else"] /\ Top \in Frame
    BY <1>1, <2>1, ElseFrames
  <2>3. frames'[Len(frames)].kind = "else"
    BY <2>2 DEF Frame
  <2>4. "else" \notin AllLoopKinds
    BY DEF AllLoopKinds
  <2>5. \A d \in 1..Len(frames) : d \in 1..(Len(frames) - 1) \/ d = Len(frames)
    BY <2>1
  <2> QED
    BY <2>2, <2>3, <2>4, <2>5
<1> QED
  BY <1>1, <1>2, LeaveEmpty, OrderJump

LEMMA OrderEndIf ==
  ASSUME TypeInv, TypeInv', FreshInv, NestInv, OrderInv, EndIf
  PROVE  OrderInv'
<1>1. /\ phase = "visit" /\ frames # <<>> /\ created' = created /\ code' = JumpTo(Top.leave)
      /\ prog' = Visited("endif", Top.at) /\ frames' = Pop
  BY DEF EndIf, Rejoin
<1>2. \A d \in 1..Len(frames') : d \in 1..Len(frames) /\ frames'[d] = frames[d]
  BY <1>1, TopTypes
<1> QED
  BY <1>1, <1>2, LeaveEmpty, OrderJump

LEMMA OrderEnterOtherLoop ==
  ASSUME TypeInv, TypeInv', FreshInv, NestInv, OrderInv, NEW kind \in LoopKinds, EnterOtherLoop(kind)
  PROVE  OrderInv'
<1> DEFINE f == [kind |-> kind, at |-> Here, cond |-> created + 1,
                 body |-> created + 2, els |-> NoBlock,
                 leave |-> created + 3, before |-> current]
<1>1. /\ MayOpen /\ phase = "visit" /\ prog' = Visited(kind, Here) /\ code' = code
      /\ created' = created + 3 /\ frames' = Append(frames, f) /\ kind \in AllLoopKinds
  BY LoopKindsAssumption DEF EnterOtherLoop, MayOpen
<1>2. /\ Here \in Nat /\ created \in Nat /\ placed \subseteq 1..created
      /\ Here = Len(prog) + 1 /\ prog \in Seq(Token) /\ TypeOK
  BY HereTypes DEF TypeInv, TypeOK, Here
<1>3. PICK t \in Token : t.tok = kind /\ prog' = Append(prog, t)
  BY <1>1, <1>2, NodeToken
<1>4. Extends(code, code', Here, prog', created')
  BY <1>1 DEF Extends
<1>6. code'[created + 1] = <<>> /\ code'[created + 2] = <<>>
  <2>1. created + 1 \in Blocks \ placed /\ created + 2 \in Blocks \ placed
    BY <1>1, <1>2, RoomForBlocks
  <2> QED
    BY <1>1, <2>1 DEF FreshInv
<1>7. LoopKnown(f, code', prog')
  BY <1>6, EmptyInLoop DEF LoopKnown
<1> HIDE DEF f
<1>8. \A d \in 1..Len(frames') :
        (d \in 1..Len(frames) /\ frames'[d] = frames[d]) \/ LoopKnown(frames'[d], code', prog')
  BY <1>1, <1>7, PushedLoops
<1>9. created <= created'
  BY <1>1, <1>2
<1> QED
  BY <1>1, <1>3, <1>4, <1>8, <1>9, OrderNext

(* Code whose instructions are for a node in loop l.                       *)
LEMMA FreshInLoop ==
  ASSUME NEW s, NEW i, NEW p, NEW l, Fresh(s, i), Encloses(p, l, i)
  PROVE  OfLoop(s, p, l)
BY DEF Fresh, OfLoop

LEMMA OfLoopInLoop ==
  ASSUME NEW s, NEW i, NEW p, NEW l, OfLoop(s, p, l), Encloses(p, l, i)
  PROVE  InLoop(s, p, i)
BY DEF Encloses, Together, OfLoop, InLoop

LEMMA OrderEnterTestedLoop ==
  ASSUME TypeInv, TypeInv', FreshInv, NestInv, OrderInv,
         NEW kind \in LoopKinds, NEW m \in 0..1, EnterTestedLoop(kind, m)
  PROVE  OrderInv'
<1> DEFINE f == [kind |-> kind, at |-> Here, cond |-> created + 1,
                 body |-> created + 2, els |-> NoBlock,
                 leave |-> created + 3, before |-> current]
           cond == created + 1
           x == CondBr(Here, created + 2, created + 3)
           s == Eval(Here, m) \o <<x>>
           y == Br(Here, cond)
           j == <<y>>
<1>1. /\ MayOpen /\ phase = "visit" /\ prog' = Visited(kind, Here)
      /\ created' = created + 3 /\ frames' = Append(frames, f) /\ kind \in AllLoopKinds
  BY LoopKindsAssumption DEF EnterTestedLoop, MayOpen
<1>2. /\ Here \in Nat /\ created \in Nat \ {0} /\ placed \subseteq 1..created
      /\ Here = Len(prog) + 1 /\ prog \in Seq(Token) /\ TypeOK
      /\ insert \in placed /\ insert \in Blocks
      /\ code \in [Blocks -> Seq(Instrs)]
  BY HereTypes DEF TypeInv, TypeOK, Here
<1>3. PICK t \in Token : t.tok = kind /\ prog' = Append(prog, t)
  BY <1>1, <1>2, NodeToken
<1>4. Encloses(prog', Here, Here)
  BY <1>1, <1>2, <1>3, EnclosesSelf
<1>5. /\ cond \in Blocks \ placed /\ created + 2 \in Blocks \ placed
      /\ created + 3 \in Blocks \ placed /\ cond # insert
      /\ created + 2 \notin {insert, cond} /\ created + 3 \notin {insert, cond}
  BY <1>1, <1>2, RoomForBlocks
<1>6. /\ code'[insert] = code[insert] \o j
      /\ code'[cond] = code[cond] \o s
      /\ \A d \in Blocks \ {insert, cond} : code'[d] = code[d]
  BY <1>2, EnterLoopCode
<1>7. /\ x \in Instrs /\ x.id = Here /\ x.op = "condbr" /\ Ways(x) = {created + 2, created + 3}
      /\ y \in Instrs /\ y.id = Here /\ y.op = "br" /\ Ways(y) = {cond}
  BY <1>2, <1>5, BranchTypes DEF CondBr, Br, Ways
<1> HIDE DEF x, y
<1>8. Fresh(s, Here) /\ Fresh(j, Here)
  BY <1>2, <1>7, FreshOne
<1>9. /\ OfLoop(code'[cond], prog', Here) /\ OfLoop(code'[created + 2], prog', Here)
      /\ InLoop(code'[cond], prog', Here) /\ InLoop(code'[created + 2], prog', Here)
      /\ InLoop(code'[created + 3], prog', Here)
  <2>1. code[cond] = <<>> /\ s \in Seq(Instrs)
    BY <1>5, <1>8 DEF FreshInv, Fresh
  <2> HIDE DEF cond, s
  <2>2. code'[cond] = s
    BY <1>6, <2>1
  <2>3. OfLoop(s, prog', Here) /\ InLoop(s, prog', Here)
    BY <1>4, <1>8, FreshInLoop, OfLoopInLoop
  <2>4. code'[created + 2] = <<>> /\ code'[created + 3] = <<>>
    BY <1>5, <1>6 DEF FreshInv
  <2> QED
    BY <2>2, <2>3, <2>4, EmptyInLoop
<1>10. Lands(s, code', prog', created') /\ Lands(j, code', prog', created')
  <2> DEFINE c2 == code'
             p2 == prog'
             n2 == created'
  <2>1. /\ \A d \in Ways(x) : d \in 2..n2 /\ InLoop(c2[d], p2, Here)
        /\ \A d \in Ways(y) : d \in 2..n2 /\ InLoop(c2[d], p2, Here)
    BY <1>1, <1>2, <1>7, <1>9
  <2> HIDE DEF c2, p2, n2
  <2>2. Lands(s, c2, p2, n2)
    BY <1>2, <1>7, <2>1, FreshOne
  <2>3. Lands(j, c2, p2, n2)
    BY <1>2, <1>7, <2>1, FreshOne
  <2> QED
    BY <2>2, <2>3 DEF c2, p2, n2
<1> HIDE DEF s, j
<1>11. Extends(code, code', Here, prog', created')
  <2>1. \A d \in Blocks : d = insert \/ d = cond \/ code'[d] = code[d]
    BY <1>6
  <2> HIDE DEF cond
  <2> QED
    BY <1>6, <1>8, <1>10, <2>1 DEF Extends
<1>12. LoopKnown(f, code', prog')
  BY <1>4, <1>9 DEF LoopKnown
<1> HIDE DEF f
<1>13. \A d \in 1..Len(frames') :
         (d \in 1..Len(frames) /\ frames'[d] = frames[d]) \/ LoopKnown(frames'[d], code', prog')
  BY <1>1, <1>12, PushedLoops
<1>14. created <= created'
  BY <1>1, <1>2
<1> QED
  BY <1>1, <1>3, <1>11, <1>13, <1>14, OrderNext

LEMMA OrderEndLoop ==
  ASSUME TypeInv, TypeInv', FreshInv, NestInv, OrderInv, NEW m \in 0..1, EndLoop(m)
  PROVE  OrderInv'
<1> DEFINE cond == Top.cond
           x == CondBr(Here, Top.body, Top.leave)
           s == Eval(Here, m) \o <<x>>
           y == Br(Here, cond)
           j == <<y>>
<1>1. /\ phase = "visit" /\ frames # <<>> /\ created' = created
      /\ prog' = Visited("endloop", Top.at) /\ Top.kind \in AllLoopKinds /\ frames' = Pop
  BY DEF EndLoop, Rejoin
<1>2. /\ cond \in Blocks /\ cond \in 2..created /\ Top.leave \in Blocks /\ Top.leave \in 2..created
      /\ Top.body \in Blocks /\ Top.body \in 2..created
      /\ created \in Nat /\ Here \in Nat /\ insert \in placed /\ insert \in Blocks
      /\ code \in [Blocks -> Seq(Instrs)] /\ TypeOK /\ Top.at \in Nat
      /\ Top.leave # insert /\ code[Top.leave] = <<>>
      /\ Len(frames) \in 1..Len(frames) /\ Top = frames[Len(frames)]
  <2>1. /\ created \in Nat /\ Here \in Nat /\ insert \in placed /\ insert \in Blocks
        /\ placed \subseteq 1..created /\ code \in [Blocks -> Seq(Instrs)] /\ TypeOK
    BY HereTypes DEF TypeInv, TypeOK
  <2>2. 1..created \ {Entry} \subseteq 2..created
    BY <2>1 DEF Entry
  <2>3. Top.body \in 2..created
    BY <1>1, <2>1, <2>2, TopTypes DEF FrameOK
  <2> QED
    BY <1>1, <2>1, <2>3, LeaveEmpty, TopTypes DEF FrameOK, Top
<1>3. PICK t \in Token : prog' = Append(prog, t)
  BY <1>1, <1>2, NodeToken
<1>4. \A d \in 1..Len(frames') : d \in 1..Len(frames) /\ frames'[d] = frames[d]
  BY <1>1, TopTypes
<1>5. /\ x \in Instrs /\ x.id = Here /\ x.op = "condbr" /\ Ways(x) = {Top.body, Top.leave}
      /\ y \in Instrs /\ y.id = Here /\ y.op = "br" /\ Ways(y) = {cond}
  BY <1>2, BranchTypes DEF CondBr, Br, Ways
<1> HIDE DEF x
<1>6. Fresh(s, Here) /\ Fresh(j, Here)
  <2> HIDE DEF y
  <2> QED
    BY <1>2, <1>5, FreshOne
<1>7. CASE Top.kind # "doWhile"
  <2>1. code' = JumpTo(cond)
    BY <1>7 DEF EndLoop
  <2>2. Grows(code, code', Here)
    <3>1. /\ code'[insert] = code[insert] \o j
          /\ \A d \in Blocks \ {insert} : code'[d] = code[d]
      BY <1>2, <2>1, JumpCode
    <3>2. \A d \in Blocks : d = insert \/ code'[d] = code[d]
      BY <3>1
    <3> HIDE DEF j
    <3> QED
      BY <1>6, <3>1, <3>2 DEF Grows
  <2>3. InLoop(code'[cond], prog', Here)
    BY <1>1, <1>2, <1>3, <2>2, OldLoops, OfLoopInLoop DEF LoopKnown
  <2> QED
    BY <1>1, <1>2, <1>4, <2>1, <2>3, OrderJump
<1>8. CASE Top.kind = "doWhile"
  <2>1. code' = Emit(JumpTo(cond), cond, s)
    BY <1>8 DEF EndLoop, x
  <2>2. cond \notin placed
    <3>1. cond \in Pending(Top)
      BY <1>8 DEF Pending
    <3> QED
      BY <1>2, <3>1 DEF FreshInv
  <2>3. /\ code'[insert] = code[insert] \o j
        /\ code'[cond] = code[cond] \o s
        /\ \A d \in Blocks \ {insert, cond} : code'[d] = code[d]
    <3> DEFINE c1 == JumpTo(cond)
    <3>1. /\ c1 \in [Blocks -> Seq(Instrs)] /\ c1[insert] = code[insert] \o j
          /\ \A d \in Blocks \ {insert} : c1[d] = code[d]
      BY <1>2, JumpCode
    <3>2. s \in Seq(Instrs)
      BY <1>6 DEF Fresh
    <3> HIDE DEF c1, s, j, cond
    <3>3. /\ Emit(c1, cond, s)[cond] = c1[cond] \o s
          /\ \A d \in Blocks \ {cond} : Emit(c1, cond, s)[d] = c1[d]
      BY <1>2, <3>1, <3>2, EmitTypes, ZenonT(60)
    <3>4. code' = Emit(c1, cond, s)
      BY <2>1 DEF c1
    <3> QED
      BY <1>2, <2>2, <3>1, <3>3, <3>4
  <2>4. \A d \in Blocks : d = insert \/ d = cond \/ code'[d] = code[d]
    BY <2>3
  <2>5. Grows(code, code', Here)
    <3> HIDE DEF s, j, cond
    <3> QED
      BY <1>6, <2>3, <2>4 DEF Grows
  <2>6. InLoop(code'[cond], prog', Here) /\ InLoop(code'[Top.body], prog', Here)
    BY <1>1, <1>2, <1>3, <2>5, OldLoops, OfLoopInLoop DEF LoopKnown
  <2>7. InLoop(code'[Top.leave], prog', Here)
    <3>1. CASE Top.leave = cond
      BY <2>6, <3>1
    <3>2. CASE Top.leave # cond
      <4>1. code'[Top.leave] = <<>>
        BY <1>2, <2>4, <3>2
      <4> QED
        BY <4>1, EmptyInLoop
    <3> QED
      BY <3>1, <3>2
  <2>8. Lands(s, code', prog', created') /\ Lands(j, code', prog', created')
    <3> DEFINE c2 == code'
               p2 == prog'
               n2 == created'
    <3>1. /\ \A d \in Ways(x) : d \in 2..n2 /\ InLoop(c2[d], p2, Here)
          /\ \A d \in Ways(y) : d \in 2..n2 /\ InLoop(c2[d], p2, Here)
      BY <1>1, <1>2, <1>5, <2>6, <2>7
    <3> HIDE DEF c2, p2, n2, y
    <3>2. Lands(s, c2, p2, n2)
      BY <1>2, <1>5, <3>1, FreshOne
    <3>3. Lands(j, c2, p2, n2)
      BY <1>2, <1>5, <3>1, FreshOne
    <3> QED
      BY <3>2, <3>3 DEF c2, p2, n2
  <2> HIDE DEF s, j, cond
  <2>9. Extends(code, code', Here, prog', created')
    BY <1>6, <2>3, <2>4, <2>8 DEF Extends
  <2>10. created <= created'
    BY <1>1, <1>2
  <2> QED
    BY <1>1, <1>3, <1>4, <2>9, <2>10, OrderNext
<1> QED
  BY <1>7, <1>8

LEMMA OrderReturnStatement ==
  ASSUME TypeInv, TypeInv', NestInv, OrderInv,
         NEW v \in {"none", "scalar"} \cup RetValues, ReturnStatement(v)
  PROVE  OrderInv'
<1> DEFINE s == ReturnCode(v)
<1>1. /\ phase = "visit" /\ prog' = Visited("ret", Here) /\ created' = created
      /\ frames' = frames /\ code' = Emit(code, insert, s)
  BY DEF ReturnStatement, MayReturn, Return
<1>2. Here \in Nat /\ created \in Nat /\ TypeOK /\ v \in {"none", "scalar"} \cup AllRetValues
  BY HereTypes, RetAssumption DEF TypeInv
<1>3. PICK t \in Token : prog' = Append(prog, t)
  BY <1>1, <1>2, NodeToken
<1>4. Fresh(s, Here) /\ Straight(s)
  BY <1>2, FreshReturn
<1> HIDE DEF s
<1>5. \A c, p, n : Lands(s, c, p, n)
  BY <1>4 DEF Lands, Straight
<1>6. Extends(code, code', Here, prog', created')
  BY <1>1, <1>2, <1>4, <1>5, ExtendsOne
<1>7. created <= created' /\ \A d \in 1..Len(frames') : d \in 1..Len(frames) /\ frames'[d] = frames[d]
  BY <1>1, <1>2
<1> QED
  BY <1>1, <1>3, <1>6, <1>7, OrderNext

LEMMA OrderFinish ==
  ASSUME TypeInv, TypeInv', NestInv, OrderInv, Finish
  PROVE  OrderInv'
<1> DEFINE c == code
           c2 == code'
           p == prog
           n == created
           m == Len(prog)
<1>1. /\ phase = "visit" /\ phase' = "done" /\ p = prog' /\ n = created' /\ frames' = <<>>
      /\ hasReturn => code' = code
      /\ ~hasReturn => code' = Emit(code, insert, ReturnCode("none"))
  BY DEF Finish, Return
<1>2. /\ c \in [Blocks -> Seq(Instrs)] /\ m \in Nat /\ Here = m + 1
      /\ n \in Nat /\ n \in Blocks /\ TypeOK /\ n <= n
  <2>1. created \in Nat /\ Len(prog) \in Nat /\ TypeOK
    BY HereTypes DEF TypeInv
  <2> QED
    BY <2>1 DEF TypeOK, Here
<1>3. 1..n \subseteq Blocks
  BY <1>2, BlocksFacts DEF Blocks
<1>4. Extends(c, c2, Here, p, n)
  <2>1. CASE hasReturn
    BY <1>1, <2>1 DEF Extends
  <2>2. CASE ~hasReturn
    <3> DEFINE s == ReturnCode("none")
    <3>1. Fresh(s, Here) /\ Straight(s)
      BY <1>2, FreshReturn
    <3>2. code' = Emit(code, insert, s)
      BY <1>1, <2>2
    <3> HIDE DEF s
    <3>3. Lands(s, c2, p, n)
      BY <3>1 DEF Lands, Straight
    <3> QED
      BY <1>2, <3>1, <3>2, <3>3, ExtendsOne
  <2> QED
    BY <2>1, <2>2
<1>5. CodeInOrder(c, p, n) /\ IdsUpTo(c, m) /\ Kept(p, p, m)
  BY <1>1 DEF OrderInv, Kept
<1> HIDE DEF c, c2, p, n, m
<1>6. CodeInOrder(c2, p, n)
  BY <1>2, <1>3, <1>4, <1>5, OrderGrows
<1>7. CodeInOrder(code', prog', created')
  BY <1>1, <1>6 DEF c2
<1>8. Len(frames') = 0
  BY <1>1
<1>9. LoopFrames(frames', code', prog')
  BY <1>8 DEF LoopFrames
<1> QED
  BY <1>1, <1>7, <1>9, OrderIs

LEMMA OrderInit == Init => OrderInv
<1> SUFFICES ASSUME Init PROVE OrderInv
  OBVIOUS
<1> DEFINE s == InitLocals
<1>1. /\ prog = <<>> /\ Len(prog) = 0 /\ frames = <<>> /\ Len(frames) = 0
      /\ code = [b \in Blocks |-> IF b = Entry THEN s ELSE <<>>] /\ TextLocals \in Nat
  BY TextLocalsAssumption DEF Init
<1>2. /\ Len(s) = TextLocals
      /\ \A k \in 1..TextLocals : s[k].op = "new" /\ s[k].slot = -k /\ s[k].id = 0
  <2>1. Len(s) = TextLocals /\ \A k \in 1..TextLocals : s[k] = New(0, -k)
    BY <1>1 DEF InitLocals
  <2>2. \A k : New(0, -k).op = "new" /\ New(0, -k).slot = -k /\ New(0, -k).id = 0
    BY DEF New, Instr
  <2> QED
    BY <2>1, <2>2
<1> HIDE DEF s
<1>3. SeqInOrder(s)
  <2>1. \A k \in 1..TextLocals : ~(-k >= 0)
    BY <1>1
  <2>2. \A j, k \in 1..TextLocals : j < k => -j # -k
    BY <1>1
  <2> QED
    BY <1>1, <1>2, <2>1, <2>2 DEF SeqInOrder
<1>4. SeqInOrder(<<>>) /\ Len(<<>>) = 0
  BY DEF SeqInOrder
<1>5. \A b \in Blocks : SeqInOrder(code[b]) /\ (b # Entry => Len(code[b]) = 0)
                         /\ (b = Entry => code[b] = s)
  BY <1>1, <1>3, <1>4
<1>6. ASSUME NEW b \in Blocks, NEW k \in 1..Len(code[b])
      PROVE  b = Entry /\ code[b][k].op = "new" /\ code[b][k].id = 0
  BY <1>1, <1>2, <1>5
<1>7. CodeInOrder(code, prog, created)
  BY <1>5, <1>6 DEF CodeInOrder, IsBranch
<1>8. IdsUpTo(code, Len(prog))
  BY <1>1, <1>6 DEF IdsUpTo
<1>9. LoopFrames(frames, code, prog)
  BY <1>1 DEF LoopFrames
<1> QED
  BY <1>7, <1>8, <1>9 DEF OrderInv

LEMMA OrderHolds == SpecRun => []OrderInv
<1>1. SpecRun => []TypeInv /\ []FreshInv /\ []NestInv
  BY RunIsSpec, TypeInvHolds, FreshHolds, NestHolds, PTL
<1>2. InitRun => OrderInv
  BY OrderInit DEF InitRun
<1>3. TypeInv /\ TypeInv' /\ FreshInv /\ NestInv /\ OrderInv /\ [NextRun]_allvars => OrderInv'
  <2> SUFFICES ASSUME TypeInv, TypeInv', FreshInv, NestInv, OrderInv, [NextRun]_allvars
               PROVE  OrderInv'
    OBVIOUS
  <2>1. CASE Compile
    <3>1. Step
      BY <2>1 DEF Compile
    <3> QED
      BY <3>1, OrderStatement, OrderEnterIf, OrderEnterElse, OrderEndIf,
         OrderEnterTestedLoop, OrderEnterOtherLoop, OrderEndLoop, OrderReturnStatement,
         OrderFinish DEF Step
  <2>2. CASE Call \/ Execute \/ Stopped \/ UNCHANGED allvars
    <3>1. UNCHANGED vars
      BY <2>2 DEF Call, Execute, ExecuteOp, ExecuteNew, ExecuteFree, ExecuteBr,
                  ExecuteCondBr, ExecuteRet, FallOffBlock, Stopped, allvars
    <3>2. code' = code /\ prog' = prog /\ created' = created /\ frames' = frames /\ phase' = phase
      BY <3>1 DEF vars
    <3> QED
      BY <3>2, OrderIs DEF OrderInv
  <2> QED
    BY <2>1, <2>2 DEF NextRun
<1> QED
  BY <1>1, <1>2, <1>3, PTL DEF SpecRun

(* What is live may stay so as far as x is concerned.                      *)
Spares(x, t, p) == Together(p, t, x.id) \/ (t <= x.id /\ ~(x.op = "new" /\ x.slot = t))

LEMMA SparesAll ==
  RunInOrder <=> (status = "running" =>
    \A t \in Slots : mem[t] = "live" =>
      \A k \in ip..Len(code[blk]) : Spares(code[blk][k], t, prog))
BY DEF RunInOrder, Spares

(* Behind a branch.                                                        *)
LEMMA SparesBranch ==
  ASSUME TypeInv, NestInv, OrderInv, NEW b \in Blocks, NEW i \in 1..Len(code[b]),
         IsBranch(code[b][i]), NEW c \in Ways(code[b][i]),
         NEW t \in Int, Spares(code[b][i], t, prog), NEW k \in 1..Len(code[c])
  PROVE  Spares(code[c][k], t, prog)
<1> DEFINE x == code[b][i]
           y == code[c][k]
<1>1. /\ c \in 2..created /\ Follows(x.id, code[c], prog) /\ created \in Blocks
      /\ code \in [Blocks -> Seq(Instrs)] /\ MaxBlocks \in Nat
  BY BlocksFacts DEF OrderInv, CodeInOrder, TypeInv, TypeOK
<1>2. c \in Blocks /\ c # Entry
  BY <1>1 DEF Blocks, Entry
<1>3. /\ x \in Instrs /\ y \in Instrs
      /\ x.id < y.id \/ Together(prog, x.id, y.id)
      /\ y.op = "new" => y.slot >= 0 /\ y.slot = y.id
  <2>1. code[b] \in Seq(Instrs) /\ code[c] \in Seq(Instrs)
    BY <1>1, <1>2
  <2>2. x \in Instrs /\ y \in Instrs
    BY <2>1, ElementOfSeq
  <2>3. y.op = "new" => ~(y.slot < 0) /\ (y.slot >= 0 => y.slot = y.id)
    BY <1>2 DEF OrderInv, CodeInOrder, SeqInOrder
  <2>4. x.id < y.id \/ Together(prog, x.id, y.id)
    BY <1>1 DEF Follows
  <2> HIDE DEF x, y
  <2>5. y.slot \in Int
    BY <2>2 DEF Instrs
  <2>6. y.op = "new" => y.slot >= 0 /\ y.slot = y.id
    BY <2>3, <2>5
  <2> QED
    BY <2>2, <2>4, <2>6
<1> HIDE DEF x, y
<1>4. x.id \in Int /\ y.id \in Int
  BY <1>3 DEF Instrs
<1>5. Spares(x, t, prog)
  BY DEF x
<1> DEFINE j == y.id
           n == x.id
<1>6. CASE t < j
  BY <1>3, <1>4, <1>6 DEF Spares, y
<1>7. ASSUME j <= t PROVE Together(prog, t, j)
  <2>1. n < j \/ Together(prog, n, j)
    BY <1>3
  <2>2. n < t => Together(prog, t, n)
    BY <1>4, <1>5 DEF Spares
  <2>3. n \in Int /\ j \in Int /\ t \in Int
    BY <1>4
  <2> HIDE DEF n, j
  <2>4. Nested(prog) /\ \A l \in 1..Len(prog) : l \in Int
    BY DEF NestInv
  <2>5. CASE Together(prog, n, j)
    <3>1. PICK l \in 1..Len(prog) : Encloses(prog, l, n) /\ Encloses(prog, l, j)
      BY <2>5 DEF Together
    <3>2. l <= j
      BY <3>1 DEF Encloses
    <3>3. CASE t <= n
      <4>1. Encloses(prog, l, t)
        BY <1>7, <2>3, <2>4, <3>1, <3>2, <3>3, EnclosesBetween
      <4> QED
        BY <3>1, <4>1 DEF Together
    <3>4. CASE n < t
      <4>1. PICK g \in 1..Len(prog) : Encloses(prog, g, t) /\ Encloses(prog, g, n)
        BY <2>2, <3>4 DEF Together
      <4>2. CASE g <= j
        <5>1. Encloses(prog, g, j)
          BY <1>7, <2>3, <2>4, <4>1, <4>2, EnclosesBetween
        <5> QED
          BY <4>1, <5>1 DEF Together
      <4>3. CASE j < g
        <5>1. g <= n /\ l <= g
          BY <2>3, <2>4, <3>2, <4>1, <4>3 DEF Encloses
        <5>2. Encloses(prog, l, g)
          BY <2>3, <2>4, <3>1, <5>1, EnclosesBetween
        <5>3. Encloses(prog, l, t)
          BY <2>3, <2>4, <4>1, <5>2 DEF Nested
        <5> QED
          BY <3>1, <5>3 DEF Together
      <4> QED
        BY <2>3, <2>4, <4>2, <4>3
    <3> QED
      BY <2>3, <3>3, <3>4
  <2>6. CASE n < j
    <3>1. n < t
      BY <1>7, <2>3, <2>6
    <3>2. PICK g \in 1..Len(prog) : Encloses(prog, g, t) /\ Encloses(prog, g, n)
      BY <2>2, <3>1 DEF Together
    <3>3. g <= j
      BY <2>3, <2>4, <2>6, <3>2 DEF Encloses
    <3>4. Encloses(prog, g, j)
      BY <1>7, <2>3, <2>4, <3>2, <3>3, EnclosesBetween
    <3> QED
      BY <3>2, <3>4 DEF Together
  <2> QED
    BY <2>1, <2>5, <2>6
<1> QED
  BY <1>4, <1>6, <1>7 DEF Spares, y

LEMMA RunOrderStep ==
  ASSUME TypeInv, CallInv, NestInv, TextInv, TextInv', OrderInv, RunInOrder, [NextRun]_allvars
  PROVE  RunInOrder'
<1> SUFFICES ASSUME status' = "running", NEW t \in Slots', mem'[t] = "live",
                    NEW k \in ip'..Len(code'[blk'])
             PROVE  Spares(code'[blk'][k], t, prog')
  BY DEF RunInOrder, Spares, Together, Encloses
<1>1. ~Compile
  BY DEF Compile, CallInv, ivars, Step, Statement, EnterIf, EnterElse, EndIf,
         EnterTestedLoop, EnterOtherLoop, EndLoop, ReturnStatement, Finish, MayOpen, MayReturn
<1>2. UNCHANGED vars
  BY <1>1 DEF NextRun, Call, Execute, ExecuteOp, ExecuteNew, ExecuteFree, ExecuteBr,
              ExecuteCondBr, ExecuteRet, FallOffBlock, Stopped, allvars
<1>3. code' = code /\ prog' = prog /\ Slots' = Slots
  BY <1>2 DEF vars, Slots
<1>4. CASE Call
  BY <1>3, <1>4 DEF Call
<1>5. CASE Stopped \/ UNCHANGED allvars
  BY <1>3, <1>5, SparesAll DEF Stopped, allvars, ivars
<1>6. CASE Execute
  <2>1. status = "running"
    BY <1>6 DEF Execute, ExecuteOp, ExecuteNew, ExecuteFree, ExecuteBr, ExecuteCondBr,
                ExecuteRet, FallOffBlock, Running
  <2>2. PICK lo, hi : Emitted(lo, hi) /\ Between(lo, hi)
    BY DEF TextInv
  <2>3. /\ blk \in 1..created /\ ip \in 1..Ended(code[blk])
        /\ mem \in [Slots -> {"raw", "live", "dead"}]
    BY <2>1, <2>2 DEF Between
  <2>4. /\ blk \in Blocks /\ code[blk] \in Seq(Instrs) /\ Len(code[blk]) \in Nat /\ ip \in Nat \ {0}
        /\ t \in Int /\ Slots \subseteq Int
    <3>1. created \in 1..MaxBlocks /\ MaxBlocks \in Nat /\ Len(prog) \in Nat /\ TextLocals \in Nat
      BY BlocksFacts, HereTypes, TextLocalsAssumption DEF TypeInv, TypeOK, Blocks
    <3>2. blk \in Blocks
      BY <2>3, <3>1 DEF Blocks
    <3>3. code[blk] \in Seq(Instrs) /\ Len(code[blk]) \in Nat
      BY <3>2, LenProperties DEF TypeInv, TypeOK
    <3>4. Slots \subseteq Int
      BY <3>1 DEF Slots
    <3> QED
      BY <1>3, <2>3, <3>2, <3>3, <3>4 DEF Ended
  <2>5. \A u \in Slots : mem[u] = "live" => \A i \in ip..Len(code[blk]) : Spares(code[blk][i], u, prog)
    BY <2>1, SparesAll
  <2>6. CASE Advance /\ mem'[t] = mem[t]
    <3>1. k \in ip..Len(code[blk]) /\ blk' = blk
      BY <1>3, <2>4, <2>6 DEF Advance
    <3> QED
      BY <1>3, <2>5, <2>6, <3>1
  <2>7. CASE ExecuteNew /\ mem'[t] # mem[t]
    <3>1. /\ blk' = blk /\ ip' = ip + 1 /\ ~AtEnd /\ Current.op = "new"
          /\ mem' = [mem EXCEPT ![Current.slot] = "live"]
      BY <2>7 DEF ExecuteNew, Advance, Running
    <3>2. t = Current.slot
      BY <1>3, <2>3, <2>7, <3>1
    <3> DEFINE s == code[blk]
    <3>3. /\ ip \in 1..Len(s) /\ k \in 1..Len(s) /\ ip < k /\ Current = s[ip]
      BY <1>3, <2>4, <3>1 DEF AtEnd, Current
    <3>4. SeqInOrder(s) /\ s \in Seq(Instrs)
      BY <2>4 DEF OrderInv, CodeInOrder
    <3>5. blk' = blk /\ code' = code
      BY <1>3, <3>1
    <3> HIDE DEF s
    <3>6. /\ s[ip].id <= s[k].id
          /\ s[k].op = "new" => s[k].slot # s[ip].slot
          /\ s[ip].slot >= 0 => s[ip].slot = s[ip].id
      BY <3>1, <3>3, <3>4 DEF SeqInOrder
    <3>7. s[ip].id \in Nat /\ s[k].id \in Nat /\ s[ip].slot \in Int
      <4>1. s[ip] \in Instrs /\ s[k] \in Instrs
        BY <3>3, <3>4, ElementOfSeq
      <4> QED
        BY <4>1 DEF Instrs
    <3>8. s[ip].slot <= s[k].id
      BY <3>6, <3>7
    <3>9. Spares(s[k], t, prog)
      BY <3>2, <3>3, <3>6, <3>8 DEF Spares
    <3> QED
      BY <1>3, <3>5, <3>9 DEF s
  <2>8. CASE ExecuteBr \/ \E outcome \in BOOLEAN : ExecuteCondBr(outcome)
    <3>1. /\ ~AtEnd /\ IsBranch(Current) /\ blk' \in Ways(Current) /\ ip' = 1 /\ mem' = mem
      BY <2>8 DEF ExecuteBr, ExecuteCondBr, Goto, Running, IsBranch, Ways
    <3>2. ip \in 1..Len(code[blk]) /\ Current = code[blk][ip]
      BY <2>4, <3>1 DEF AtEnd, Current
    <3>3. ip \in ip..Len(code[blk]) /\ k \in 1..Len(code[blk'])
      BY <1>3, <2>4, <3>1, <3>2
    <3>4. Spares(code[blk][ip], t, prog)
      BY <1>3, <2>5, <3>1, <3>3
    <3> QED
      BY <1>3, <2>4, <3>1, <3>2, <3>3, <3>4, SparesBranch
  <2>9. CASE ExecuteOp
    BY <2>6, <2>9 DEF ExecuteOp
  <2>10. CASE ExecuteFree
    <3>1. mem' = [mem EXCEPT ![Current.slot] = "dead"] /\ Advance
      BY <2>10 DEF ExecuteFree
    <3>2. mem'[t] = mem[t]
      BY <1>3, <2>3, <3>1
    <3> QED
      BY <2>6, <3>1, <3>2
  <2>11. CASE ExecuteNew
    <3>1. Advance
      BY <2>11 DEF ExecuteNew
    <3> QED
      BY <2>6, <2>7, <2>11, <3>1
  <2>12. ~ExecuteRet /\ ~FallOffBlock
    BY DEF ExecuteRet, FallOffBlock
  <2> QED
    BY <1>6, <2>8, <2>9, <2>10, <2>11, <2>12 DEF Execute
<1> QED
  BY <1>1, <1>4, <1>5, <1>6 DEF NextRun

LEMMA LostMeets ==
  ASSUME TypeInv, TextInv, RunInOrder
  PROVE  LostOnlyInLoops
<1> SUFFICES ASSUME Running("new"), mem[Current.slot] = "live"
             PROVE  \E l \in 1..Len(prog) : Encloses(prog, l, Current.id)
  BY DEF LostOnlyInLoops
<1>1. PICK lo, hi : Emitted(lo, hi) /\ Between(lo, hi)
  BY DEF TextInv
<1>2. status = "running" /\ ~AtEnd /\ Current.op = "new"
  BY DEF Running
<1>3. ip \in 1..Len(code[blk]) /\ Current = code[blk][ip] /\ Current.slot \in Slots
      /\ Len(code[blk]) \in Nat
  <2>1. /\ code[blk] \in Seq(Instrs) /\ ip \in 1..Len(code[blk]) /\ Current = code[blk][ip]
        /\ Current.slot \in Texts
    BY <1>1, <1>2, AtInstr
  <2>2. Texts \subseteq Slots
    BY <1>1, TextsAreSlots DEF Emitted, TypeInv
  <2> QED
    BY <2>1, <2>2, LenProperties
<1>4. ip \in ip..Len(code[blk])
  BY <1>3
<1>5. Spares(Current, Current.slot, prog)
  BY <1>2, <1>3, <1>4, SparesAll
<1> QED
  BY <1>2, <1>5 DEF Spares, Together

(* A call stores its text once unless it is in a loop or in its test: a    *)
(* text that is overwritten while it is live, and so is never released, is *)
(* one of a call that some loop encloses, or in the test of a loop.        *)
THEOREM LostOnlyInLoopsCorrect == SpecRun => []LostOnlyInLoops
<1>1. InitRun => RunInOrder
  BY DEF InitRun, RunInOrder
<1>2. TypeInv /\ CallInv /\ NestInv /\ TextInv /\ TextInv' /\ OrderInv /\ RunInOrder
        /\ [NextRun]_allvars
        => RunInOrder'
  BY RunOrderStep
<1>3. TypeInv /\ TextInv /\ RunInOrder => LostOnlyInLoops
  BY LostMeets
<1> QED
  BY <1>1, <1>2, <1>3, TextHolds, NestRun, OrderHolds, PTL DEF SpecRun
=============================================================================
