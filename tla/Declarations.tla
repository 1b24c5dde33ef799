---------------------------- MODULE Declarations ----------------------------
(***************************************************************************)
(* EContext's constructor and CompileFile (src/src/compiler.h, main.cpp):  *)
(* structs, dll functions and subs are declared in turn, then the subs of  *)
(* every module are compiled.  mod and inc are the counters of the two     *)
(* nested loops over modules and the subs they include.                    *)
(*                                                                         *)
(* A sub has one parameter and its body makes one call, of a sub or of a   *)
(* command.  There is one command that comments of the form "@name" can    *)
(* translate, and one dll function; names are distinct.  "extern" is an    *)
(* attribute in a comment of the form "#...", so a sub has one or the      *)
(* other.                                                                  *)
(***************************************************************************)
EXTENDS StructTypes

CONSTANTS
  Subs,         (* number of subs                                          *)
  Modules,      (* number of modules                                       *)
  MaxIncludes   (* bound on the subs a module includes                     *)

ASSUME SubsAssumption == Subs \in Nat /\ Modules \in Nat /\ MaxIncludes \in Nat

VARIABLES
  include,      (* the subs each module includes                           *)
  extern,       (* the subs with the attribute "extern"                    *)
  param,        (* what type each sub's parameter names                    *)
  commented,    (* what has a comment "@name": subs, or Dll                *)
  phase,        (* the loop of EContext or CompileFile in progress         *)
  mod, inc,     (* its counters                                            *)
  translator,   (* what the command is translated to, Nothing if not       *)
  functions,    (* LLVM functions created: the sub, its parameter's type   *)
  value,        (* sub->value, the number of a function or NoFunction      *)
  bodies,       (* the functions given a body, in order                    *)
  emitted       (* calls compiled: callee and the function called          *)

inputs == <<include, extern, param, commented>>
dvars == <<inputs, phase, mod, inc, translator, functions, value, bodies, emitted>>
allvars == <<svars, dvars>>

Sub == 1..Subs
Nothing == 0
Dll == -1
Command == -2
NoFunction == 0
Phases == {"structs", "dlls", "subs", "bodies", "done"}

InitDeclarations ==
  /\ include \in [1..Modules -> UNION {[1..n -> Sub] : n \in 0..MaxIncludes}]
  /\ extern \in SUBSET Sub
  /\ param \in [Sub -> {Text} \cup Struct]
  /\ commented \in SUBSET ((Sub \ extern) \cup {Dll})
  /\ phase = "structs"
  /\ mod = 1 /\ inc = 1
  /\ translator = Nothing
  /\ functions = <<>>
  /\ value = [s \in Sub |-> NoFunction]
  /\ bodies = <<>>
  /\ emitted = {}
InitAll == Init /\ InitDeclarations

(* map::emplace keeps what is there.  (Mutated form: the last one stays.)  *)
EmplaceLast(d) == IF d \in commented THEN d ELSE translator
Emplace(d) == IF d \in commented /\ translator = Nothing THEN d ELSE translator

-----------------------------------------------------------------------------
DeclareStructs ==
  /\ phase = "structs"
  /\ StructStep
  /\ UNCHANGED dvars

(* (Mutated form: the structs need not be complete.)                       *)
StructsDoneEarly == phase = "structs"
StructsDone == phase = "structs" /\ Declared

CreateDll ==
  /\ StructsDone
  /\ translator' = Emplace(Dll)
  /\ phase' = "subs"
  /\ UNCHANGED <<svars, inputs, mod, inc, functions, value, bodies, emitted>>

(* The nested loops.                                                       *)
InModule == mod <= Modules /\ inc <= Len(include[mod])
Here == include[mod][inc]
Advance == inc' = inc + 1 /\ UNCHANGED mod
NextModule == mod' = mod + 1 /\ inc' = 1

ModuleEnd ==
  /\ phase \in {"subs", "bodies"}
  /\ mod <= Modules /\ ~InModule
  /\ NextModule
  /\ UNCHANGED <<svars, inputs, phase, translator, functions, value, bodies, emitted>>

(* A sub that is included twice is created twice, the second time under a  *)
(* name that LLVM makes unique.                                            *)
CreateFunction ==
  /\ phase = "subs" /\ InModule
  /\ functions' = Append(functions, [sub |-> Here, param |-> GetType(param[Here])])
  /\ value' = [value EXCEPT ![Here] = Len(functions) + 1]
  /\ translator' = Emplace(Here)
  /\ Advance
  /\ UNCHANGED <<svars, inputs, phase, bodies, emitted>>

ContextDone ==
  /\ phase = "subs" /\ mod > Modules
  /\ phase' = "bodies"
  /\ mod' = 1 /\ inc' = 1
  /\ UNCHANGED <<svars, inputs, translator, functions, value, bodies, emitted>>

-----------------------------------------------------------------------------
(* CreateCall: what a call of c is compiled to; NoFunction stands for the  *)
(* constant 0 that takes the place of a call.                              *)
Target(c) ==
  IF c \in Sub THEN value[c]
  ELSE IF translator \in Sub THEN value[translator]
  ELSE IF translator = Dll THEN Dll ELSE NoFunction

CompileSub(c) ==
  /\ phase = "bodies" /\ InModule
  /\ Here \notin extern
  /\ bodies' = Append(bodies, value[Here])
  /\ emitted' = emitted \cup {[callee |-> c, to |-> Target(c)]}
  /\ Advance
  /\ UNCHANGED <<svars, inputs, phase, translator, functions, value>>

(* The break leaves the loop over the module, not only its turn.  (Mutated *)
(* form: it leaves the loop over the modules.)                             *)
LeaveLoops == mod' = Modules + 1 /\ inc' = 1
LeaveLoop == mod' = mod + 1 /\ inc' = 1
ExternSub ==
  /\ phase = "bodies" /\ InModule
  /\ Here \in extern
  /\ LeaveLoop
  /\ UNCHANGED <<svars, inputs, phase, translator, functions, value, bodies, emitted>>

Output ==
  /\ phase = "bodies" /\ mod > Modules
  /\ phase' = "done"
  /\ UNCHANGED <<svars, inputs, mod, inc, translator, functions, value, bodies, emitted>>

Terminated == phase = "done" /\ UNCHANGED allvars

NextAll ==
  \/ DeclareStructs
  \/ CreateDll
  \/ ModuleEnd
  \/ CreateFunction
  \/ ContextDone
  \/ \E c \in Sub \cup {Command} : CompileSub(c)
  \/ ExternSub
  \/ Output
  \/ Terminated

SpecAll == InitAll /\ [][NextAll]_allvars /\ WF_allvars(DeclareStructs)

-----------------------------------------------------------------------------
(* Properties.                                                             *)

(* A sub's value is a function that was created for it, and the parameters *)
(* of functions have types.                                                *)
DeclTypeOK ==
  /\ phase \in Phases
  /\ mod \in 1..(Modules + 1) /\ inc \in 1..(MaxIncludes + 1)
  /\ translator \in {Nothing, Dll} \cup (Sub \ extern)
  /\ functions \in Seq([sub : Sub, param : {I8Ptr} \cup Struct])
  /\ value \in [Sub -> {NoFunction} \cup DOMAIN functions]
  /\ bodies \in Seq(DOMAIN functions)
  /\ emitted \in SUBSET [callee : Sub \cup {Command},
                         to : {NoFunction, Dll} \cup DOMAIN functions]

(* Every function is created behind the structs: its parameter has the     *)
(* type that stands for the declared one in the whole module, never null.  *)
ParamsTyped ==
  \A k \in DOMAIN functions :
    LET p == param[functions[k].sub] IN
    functions[k].param = IF p = Text THEN text ELSE p

Places(s) == {p \in (1..Modules) \X (1..MaxIncludes) :
                p[2] \in DOMAIN include[p[1]] /\ include[p[1]][p[2]] = s}

(* Subs may be called before they are compiled and from other modules: a   *)
(* call of an included sub is a call of the function that holds, or will   *)
(* hold, its body, and all calls of a command go to one function.          *)
CallsResolve ==
  /\ \A e \in emitted :
       e.callee \in Sub /\ Places(e.callee) # {} =>
         e.to = value[e.callee] /\ functions[e.to].sub = e.callee
  /\ \A e, f \in emitted : e.callee = Command /\ f.callee = Command => e.to = f.to
  /\ Dll \in commented => \A e \in emitted : e.callee = Command => e.to = Dll

(* A sub that one module includes, in front of every extern sub of it, has *)
(* exactly one body in the end, and an extern sub has none.                *)
BodiesOnce ==
  phase = "done" => \A s \in Sub : \A p \in Places(s) :
    Places(s) = {p} =>
      LET n == Cardinality({k \in DOMAIN bodies : bodies[k] = value[s]}) IN
      /\ s \in extern => n = 0
      /\ (\A i \in 1..p[2] : include[p[1]][i] \notin extern) => n = 1
=============================================================================
