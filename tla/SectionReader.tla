---------------------------- MODULE SectionReader ----------------------------
(***************************************************************************)
(* ECodeParser::Parse and the readers of the sections of an e file         *)
(* (src/src/ECodeParser.cpp, ParseLibrary to ParseAST).                    *)
(*                                                                         *)
(* The file is a sequence of fields: a mark, a number, a key, a text or a  *)
(* block that is skipped whole is one field, and pos counts fields.  A     *)
(* field is named by what the editor wrote it for; only numbers that the   *)
(* readers use have a value.  The loop over the keys of a vector is part   *)
(* of the action that opens it; a record is an action of its own.          *)
(*                                                                         *)
(* Orders of evaluation that C++ leaves open are taken as the compiler the *)
(* readers work with takes them: in ReadInt() + _buffer.pos the call comes *)
(* first, and the arguments of FixedData are taken from right to left.     *)
(***************************************************************************)
EXTENDS Integers, Sequences, SequencesExt

VARIABLES
  program,   (* the file the editor wrote: an external description         *)
  file,      (* _buffer.code                                               *)
  pos,       (* _buffer.pos, from 1                                        *)
  phase,     (* what Parse does while it reads no section                  *)
  check,     (* _check                                                     *)
  warned,    (* a check number did not agree                               *)
  segment,   (* type of the segment that was started last                  *)
  todo,      (* sections of the segment to be read, in progress first      *)
  frames,    (* loops over the elements of a vector, outermost first       *)
  elems,     (* the vectors of code                                        *)
  maps       (* code.maps: an address for each key                         *)

vars == <<program, file, pos, phase, check, warned, segment, todo, frames, elems, maps>>
given == <<program, file>>
scanner == <<phase, check, warned, segment>>

(* A vector is named <<section, 0, "">>, or <<section, i, list>> if it     *)
(* belongs to the i-th element of a section.                               *)
Section(s) == <<s, 0, "">>
CodeSections == <<"libraries", "modules", "subs", "globals", "structs", "dlls">>
VarLists == {"vars", "locals", "params", "members"}

-----------------------------------------------------------------------------
(* The file as the e editor writes it.  contents says how many elements    *)
(* each segment has, should it be one with elements: libraries and globals *)
(* are numbers, a module, sub, struct or dll function is the length of its *)
(* list of variables.  Segments of the same type may differ in all this.   *)
(* A file that is cut ends inside the header of its last segment.          *)
IsContents(p) ==
  /\ p.pad \in Nat /\ p.libraries \in Nat /\ p.globals \in Nat
  /\ p.modules \in Seq(Nat) /\ p.subs \in Seq(Nat)
  /\ p.structs \in Seq(Nat) /\ p.dlls \in Seq(Nat)
  /\ p.windows \in Seq(0..7) /\ p.constants \in Seq({0, 59} \cup 22..26)
IsProgram(p) ==
  /\ p.segments \in Seq(0..9) /\ p.cut \in BOOLEAN
  /\ \A k \in DOMAIN p.segments : IsContents(p.contents[k])

Field(is, vec, of, n) == [is |-> is, vec |-> vec, of |-> of, n |-> n]
Plain(is) == Field(is, Section(""), 0, 0)
Number(n) == Field("number", Section(""), 0, n)
Blocks(n) == [k \in 1..n |-> Plain("block")]
Fields(vec, i, names) == [k \in DOMAIN names |-> Field(names[k], vec, i, 0)]
Many(vec, is, n) == [k \in 1..n |-> Field(is, vec, k, 0)]
Keys(vec, n) == Many(vec, "key", n) \o Blocks(n)
Sized(fields) == <<Number(Len(fields))>> \o fields

(* A variable, and a list of them, may end with pad fields nobody reads.   *)
VarWritten(vec, i, pad) ==
  Sized(Fields(vec, i, <<"type", "property">>) \o Sized(Blocks(i - 1))
        \o Fields(vec, i, <<"name", "comment">>) \o Blocks(pad))
VarsWritten(vec, n, pad) ==
  <<Number(n)>>
  \o Sized(Keys(vec, n) \o FlattenSeq([i \in 1..n |-> VarWritten(vec, i, pad)]) \o Blocks(pad))

(* A window: what its property is, 7 for one that ends behind its events;  *)
(* a constant: the type of its value, 0 for an image or a sound.           *)
WindowRest(i, k) ==
  LET Some(test, name) == IF test THEN Fields(Section("windows"), i, <<name>>) ELSE <<>> IN
  Blocks(1) \o IF k = 7 THEN <<>>
               ELSE <<Number(k)>> \o Some(k \in 1..6, "looks") \o Some(k = 6, "className")
                    \o Some(k >= 2, "title") \o Some(TRUE, "helpFileName") \o Blocks(2)
ConstantRest(i, k) ==
  (IF k = 0 THEN <<>> ELSE <<Number(k)>>)
  \o IF k = 22 THEN <<>> ELSE Fields(Section("constants"), i, <<"value">>)

RecordWritten(p, s, i) ==
  LET Start(names) == Fields(Section(s), i, names)
      List(list, n) == VarsWritten(<<s, i, list>>, n, p.pad)
  IN
  CASE s = "modules" -> Start(<<"property", "base", "name", "comment">>)
                        \o <<Number(4 * p.modules[i])>>
                        \o Many(<<s, i, "include">>, "include", p.modules[i])
                        \o List("vars", p.modules[i])
    [] s = "subs" -> Start(<<"skip", "property", "type", "name", "comment">>)
                     \o List("locals", p.subs[i]) \o List("params", 1)
                     \o Many(<<s, i, "code">>, "code", 6)
    [] s = "structs" -> Start(<<"property", "name", "comment">>) \o List("members", p.structs[i])
    [] s = "dlls" -> Start(<<"property", "type", "name", "comment", "lib", "func">>)
                     \o List("params", p.dlls[i])
    [] s = "windows" -> Start(<<"skip", "belong", "name", "comment">>) \o <<Number(i - 1)>>
                        \o Sized(Blocks(i) \o Start(<<"bounds", "skip", "cursor", "mark",
                                                      "skip", "flags", "skip">>)
                                 \o Sized(Blocks(1)) \o WindowRest(i, p.windows[i]))
    [] s = "constants" -> Start(<<"skip", "property", "name", "comment">>)
                          \o ConstantRest(i, p.constants[i])
RecordsWritten(p, s) == FlattenSeq([i \in DOMAIN p[s] |-> RecordWritten(p, s, i)])
SectionWritten(p, s) ==
  <<Number(8 * Len(p[s]))>> \o Keys(Section(s), Len(p[s])) \o RecordsWritten(p, s)

LibrariesWritten(p) ==
  <<Plain("key"), Plain("block"), Number(4 * p.libraries)>> \o Blocks(1 + 2 * p.libraries)
  \o Many(Section("libraries"), "path", p.libraries)
CodeWritten(p) ==
  LibrariesWritten(p)
  \o Blocks(1) \o Sized(Blocks(p.pad)) \o Sized(Blocks(1)) \o SectionWritten(p, "modules")
  \o SectionWritten(p, "subs")
  \o VarsWritten(Section("globals"), p.globals, p.pad)
  \o SectionWritten(p, "structs") \o SectionWritten(p, "dlls")

ConstantKeys(p) ==
  [i \in DOMAIN p.constants |->
     Field("key", Section("constants"), i, IF p.constants[i] = 0 THEN 1 ELSE 0)]
ResourcesWritten(p) ==
  SectionWritten(p, "windows")
  \o <<Number(Len(p.constants)), Plain("block")>> \o ConstantKeys(p) \o Blocks(Len(p.constants))
  \o RecordsWritten(p, "constants")

SegmentWritten(p, k) ==
  LET t == p.segments[k] IN
  <<Plain("junk"), Plain("start"), Number(0), Number(t)>> \o
  IF p.cut /\ k = Len(p.segments) THEN <<>>
  ELSE Blocks(1) \o [m \in 1..k |-> Plain("mark")] \o <<Plain("block"), Number(k), Plain("block")>>
       \o CASE t = 1 -> Fields(Section("info"), 1,
                             <<"name", "description", "author", "code", "address", "telephone", "fox",
                               "email", "host", "copyright", "version", "create">>)
            [] t = 2 -> Blocks(1)
            [] t = 3 -> CodeWritten(p.contents[k])
            [] t = 4 -> ResourcesWritten(p.contents[k])
            [] OTHER -> <<Plain("junk")>>

Init ==
  /\ IsProgram(program)
  /\ file = FlattenSeq([k \in DOMAIN program.segments |-> SegmentWritten(program, k)])
  /\ pos = 1
  /\ phase = "scan"
  /\ check = 0
  /\ warned = FALSE
  /\ segment = 0
  /\ todo = <<>>
  /\ frames = <<>>
  /\ elems = <<>>
  /\ maps = <<>>

-----------------------------------------------------------------------------
(* Parse and SkipSegment.                                                  *)
Good == pos <= Len(file)
At(marks) == Good /\ file[pos].is \in marks
Scanning == phase = "scan" /\ todo = <<>>

(* (Mutated form: the byte is looked at again.)                            *)
SkippedStay == pos
Skipped == pos + 1
Step ==
  /\ Scanning /\ Good /\ ~At({"start"})
  /\ pos' = Skipped
  /\ UNCHANGED <<given, scanner, todo, frames, elems, maps>>

(* _check.  (Mutated form: it counts twice.)                               *)
CountedTwice == check + 2
Counted == check + 1
StartSegment ==
  /\ Scanning /\ At({"start"})
  /\ check' = Counted
  /\ segment' = file[pos + 2].n
  /\ pos' = pos + 3
  /\ phase' = "search"
  /\ UNCHANGED <<given, warned, todo, frames, elems, maps>>

(* Cmp compares the first two bytes of a start mark too.  Behind the end   *)
(* it is never true: pos is not counted further here.                      *)
Search ==
  /\ phase = "search" /\ ~At({"mark", "start"})
  /\ pos' = IF Good THEN pos + 1 ELSE pos
  /\ UNCHANGED <<given, scanner, todo, frames, elems, maps>>

(* Where the loop over the marks ends.  (Mutated form: it is not a loop.)  *)
MarksEndOne == pos + 1
MarksEnd == CHOOSE q \in pos..(Len(file) + 1) :
              /\ \A k \in pos..(q - 1) : file[k].is \in {"mark", "start"}
              /\ q = Len(file) + 1 \/ file[q].is \notin {"mark", "start"}

(* The cases of the switch.                                                *)
Sections(t) ==
  CASE t = 1 -> <<"info">> [] t = 3 -> CodeSections
    [] t = 4 -> <<"windows", "constants">> [] t \in 5..9 -> <<"ast">> [] OTHER -> <<>>

SkipSegment ==
  /\ phase = "search" /\ At({"mark", "start"})
  /\ warned' = (warned \/ file[MarksEnd + 1].n # check)
  /\ pos' = MarksEnd + 3 + IF segment = 2 THEN 1 ELSE 0
  /\ todo' = Sections(segment)
  /\ phase' = "scan"
  /\ UNCHANGED <<given, check, segment, frames, elems, maps>>

Finish ==
  /\ Scanning /\ ~Good
  /\ phase' = "done"
  /\ UNCHANGED <<given, pos, check, warned, segment, todo, frames, elems, maps>>

-----------------------------------------------------------------------------
(* Vectors.  room is the capacity, of which an implementation may take     *)
(* more, and gen tells when the elements got their addresses: a vector is  *)
(* resized once in a segment at most.  (Mutated form: the elements always  *)
(* get new addresses.)                                                     *)
Over(f, g) == [x \in DOMAIN f \cup DOMAIN g |-> IF x \in DOMAIN f THEN f[x] ELSE g[x]]
Only(x, v) == [y \in {x} |-> v]
Vector(vec) == IF vec \in DOMAIN elems THEN elems[vec] ELSE [gen |-> 0, room |-> 0, items |-> <<>>]
GrownNew(v, n) == [gen |-> check, room |-> n]
Grown(v, n) == IF n > v.room THEN [gen |-> check, room |-> n] ELSE [gen |-> v.gen, room |-> v.room]
Resized(vec, n) ==
  LET v == Vector(vec) IN
  [gen |-> Grown(v, n).gen, room |-> Grown(v, n).room,
   items |-> [i \in 1..n |-> IF i <= Len(v.items) THEN v.items[i] ELSE <<>>]]

(* The elements behind the n-th go, and their lists with them; elements    *)
(* that move take their lists along.                                       *)
Kept(vec, n) == {other \in DOMAIN elems : vec[3] # "" \/ other[1] # vec[1] \/ other[2] <= n}

(* What is read of element i: names[k] is assigned the field at p + k - 1. *)
Named(names, p) ==
  [f \in ToSet(names) \ {"skip"} |-> file[p - 1 + CHOOSE k \in DOMAIN names : names[k] = f]]
Assign(vs, vec, i, names, p) ==
  [vs EXCEPT ![vec].items[i] = Over(Named(names, p), @)]
AssignEach(vec, is, n, p) ==
  LET v == Resized(vec, n) IN
  Over(Only(vec, [v EXCEPT !.items = [i \in 1..n |-> Over(Only(is, file[p + i - 1]), @[i])]]),
       [other \in Kept(vec, n) |-> elems[other]])

(* The loops that read the keys and emplace them: an entry that is there   *)
(* stays.                                                                  *)
Emplaced(vec, n, p) ==
  LET at(k) == CHOOSE i \in 1..n : file[p + i - 1] = k IN
  Over(maps, [k \in {file[p + i - 1] : i \in 1..n} |->
                [vec |-> vec, of |-> at(k), gen |-> Grown(Vector(vec), n).gen]])

OpenVector(vec, n, p) ==
  /\ elems' = AssignEach(vec, "key", n, p)
  /\ maps' = IF vec = Section("windows") THEN maps ELSE Emplaced(vec, n, p)
  /\ pos' = p + 2 * n

Top == frames[Len(frames)]
Frame(vec, past) == [vec |-> vec, at |-> 0, lists |-> <<>>, past |-> past]
Reading(s) == todo # <<>> /\ frames = <<>> /\ todo[1] = s

InfoNames == <<"name", "description", "author", "code", "address", "telephone",
               "fox", "email", "host", "copyright", "version", "create">>

ParseInfoSegment ==
  /\ Reading("info")
  /\ elems' = Assign(Over(Only(Section("info"), Resized(Section("info"), 1)), elems),
                     Section("info"), 1, InfoNames, pos)
  /\ pos' = pos + Len(InfoNames)
  /\ todo' = Tail(todo)
  /\ UNCHANGED <<given, scanner, frames, maps>>

(* The library is found or not, and its table of commands with it.         *)
ParseLibrary ==
  /\ Reading("libraries")
  /\ LET n == file[pos + 2].n \div 4 IN
       /\ elems' = AssignEach(Section("libraries"), "path", n, pos + 4 + 2 * n)
       /\ pos' = pos + 4 + 3 * n
  /\ todo' = Tail(todo)
  /\ UNCHANGED <<given, scanner, frames, maps>>

(* The heads of ParseModule, ParseWindow, ParseSub, ParseDataStruct and    *)
(* ParseDll: two blocks of any length in front of the modules.             *)
CountAt(s) == IF s # "modules" THEN pos
              ELSE LET p == pos + 2 + file[pos + 1].n IN p + 1 + file[p].n

OpenSection(s) ==
  /\ Reading(s)
  /\ OpenVector(Section(s), file[CountAt(s)].n \div 8, CountAt(s) + 1)
  /\ frames' = <<Frame(Section(s), 0)>>
  /\ UNCHANGED <<given, scanner, todo>>

(* ParseConstants reads a number, the others the bytes of the keys.        *)
(* (Mutated form: bytes are read here too.)                                *)
ConstantCountBytes == file[pos].n \div 8
ConstantCount == file[pos].n
OpenConstants ==
  /\ Reading("constants")
  /\ OpenVector(Section("constants"), ConstantCount, pos + 2)
  /\ frames' = <<Frame(Section("constants"), 0)>>
  /\ UNCHANGED <<given, scanner, todo>>
-----------------------------------------------------------------------------
(* The loops over the records.  The lists of an element are read behind    *)
(* its head.                                                               *)
SetTop(f) == [frames EXCEPT ![Len(frames)] = f]
InSection(s) == /\ frames # <<>> /\ Top.vec = Section(s)
                /\ Top.lists = <<>> /\ Top.at < Len(elems[Top.vec].items)
NextAt == Top.at + 1
NextList(list) == frames # <<>> /\ Top.lists # <<>> /\ Top.lists[1] = list
ListRead == [Top EXCEPT !.lists = Tail(@)]
ListName(list) == <<Top.vec[1], Top.at, list>>

ReadHead(s, names, lists) ==
  /\ InSection(s)
  /\ elems' = Assign(elems, Top.vec, NextAt, names, pos)
  /\ pos' = pos + Len(names)
  /\ frames' = SetTop([Top EXCEPT !.at = NextAt, !.lists = lists])
  /\ UNCHANGED <<given, scanner, todo, maps>>

ReadModule == ReadHead("modules", <<"property", "base", "name", "comment">>, <<"include", "vars">>)
ReadSub == ReadHead("subs", <<"skip", "property", "type", "name", "comment">>,
                    <<"locals", "params", "code">>)
ReadStruct == ReadHead("structs", <<"property", "name", "comment">>, <<"members">>)
ReadDll == ReadHead("dlls", <<"property", "type", "name", "comment", "lib", "func">>, <<"params">>)

ReadInclude ==
  /\ NextList("include")
  /\ LET n == file[pos].n \div 4 IN
       /\ elems' = AssignEach(ListName("include"), "include", n, pos + 1)
       /\ pos' = pos + 1 + n
  /\ frames' = SetTop(ListRead)
  /\ UNCHANGED <<given, scanner, todo, maps>>

ReadCode ==
  /\ NextList("code")
  /\ elems' = AssignEach(ListName("code"), "code", 6, pos)
  /\ pos' = pos + 6
  /\ frames' = SetTop(ListRead)
  /\ UNCHANGED <<given, scanner, todo, maps>>

(* ParseVariable.                                                          *)
Past == pos + 2 + file[pos + 1].n
OpenVars(list) ==
  /\ NextList(list)
  /\ OpenVector(ListName(list), file[pos].n, pos + 2)
  /\ frames' = Append(SetTop(ListRead), Frame(ListName(list), Past))
  /\ UNCHANGED <<given, scanner, todo>>

OpenGlobals ==
  /\ Reading("globals")
  /\ OpenVector(Section("globals"), file[pos].n, pos + 2)
  /\ frames' = <<Frame(Section("globals"), Past)>>
  /\ UNCHANGED <<given, scanner, todo>>

IsVars(vec) == vec[1] = "globals" \/ vec[3] \in VarLists

(* next_offset is taken in front of the fields.  (Mutated form: the next   *)
(* variable is where the fields end.)                                      *)
NextVarHere(p) == p + 2
NextVar(p) == pos + 1 + file[pos].n
ReadVar ==
  /\ frames # <<>> /\ IsVars(Top.vec) /\ Top.at < Len(elems[Top.vec].items)
  /\ LET dims == file[pos + 3].n
         p == pos + 4 + dims
     IN  /\ elems' = Assign(Assign(elems, Top.vec, NextAt, <<"type", "property">>, pos + 1),
                            Top.vec, NextAt, <<"name", "comment">>, p)
         /\ pos' = NextVar(p)
  /\ frames' = SetTop([Top EXCEPT !.at = NextAt])
  /\ UNCHANGED <<given, scanner, todo, maps>>

(* ParseValue: which types of constants have a value in the file.          *)
HasValue(type) == type \in 23..26 \cup {59}

(* A resource has data, another constant a type and perhaps a value.       *)
ReadConstant ==
  /\ InSection("constants")
  /\ LET head == Assign(elems, Top.vec, NextAt, <<"skip", "property", "name", "comment">>, pos)
         resource == elems[Top.vec].items[NextAt].key.n = 1
         p == pos + IF resource THEN 4 ELSE 5
         empty == ~resource /\ ~HasValue(file[pos + 4].n)
     IN  /\ elems' = IF empty THEN head ELSE Assign(head, Top.vec, NextAt, <<"value">>, p)
         /\ pos' = IF empty THEN p ELSE p + 1
  /\ frames' = SetTop([Top EXCEPT !.at = NextAt])
  /\ UNCHANGED <<given, scanner, todo, maps>>

(* A window whose rest is shorter than 24 bytes, here 4 fields, ends       *)
(* behind its events.  WindowTail is what its property calls for.          *)
WindowTail(k) == (IF k \in 1..6 THEN <<"looks">> ELSE <<>>)
                 \o (IF k = 6 THEN <<"className">> ELSE <<>>)
                 \o (IF k >= 2 THEN <<"title">> ELSE <<>>) \o <<"helpFileName">>
ReadWindow ==
  /\ InSection("windows")
  /\ LET head == Assign(elems, Top.vec, NextAt, <<"skip", "belong", "name", "comment">>, pos)
         offset == pos + 6 + file[pos + 5].n
         p == pos + 7 + file[pos + 4].n
         body == Assign(head, Top.vec, NextAt,
                        <<"bounds", "skip", "cursor", "mark", "skip", "flags", "skip">>, p)
         q == p + 8 + file[p + 7].n
     IN  /\ elems' = IF q + 4 > offset THEN body
                     ELSE Assign(body, Top.vec, NextAt, WindowTail(file[q + 1].n), q + 2)
         /\ pos' = offset
  /\ frames' = SetTop([Top EXCEPT !.at = NextAt])
  /\ UNCHANGED <<given, scanner, todo, maps>>

(* ParseVariable sets pos to the end of the list.                          *)
Leave == IF IsVars(Top.vec) THEN Top.past ELSE pos
CloseVector ==
  /\ frames # <<>> /\ Top.lists = <<>> /\ Top.at = Len(elems[Top.vec].items)
  /\ frames' = Front(frames)
  /\ pos' = Leave
  /\ todo' = IF Len(frames) = 1 THEN Tail(todo) ELSE todo
  /\ UNCHANGED <<given, scanner, elems, maps>>

(* ParseAST parses the last of the six code blocks of each sub; Parse ends *)
(* with it.                                                                *)
CodeBlock == 6
ParseAST ==
  /\ Reading("ast")
  /\ LET subs == Section("subs")
         ast(i) == Only("ast", elems[<<"subs", i, "code">>].items[CodeBlock].code)
     IN  elems' = IF subs \notin DOMAIN elems THEN elems
                  ELSE [elems EXCEPT ![subs].items = [i \in DOMAIN @ |-> Over(ast(i), @[i])]]
  /\ todo' = <<>>
  /\ phase' = "done"
  /\ UNCHANGED <<given, pos, check, warned, segment, frames, maps>>

Parse ==
  \/ Step \/ StartSegment \/ Search \/ SkipSegment \/ Finish
  \/ ParseInfoSegment \/ ParseLibrary
  \/ \E s \in {"modules", "subs", "structs", "dlls", "windows"} : OpenSection(s)
  \/ OpenGlobals \/ OpenConstants
  \/ ReadModule \/ ReadSub \/ ReadStruct \/ ReadDll \/ ReadInclude \/ ReadCode
  \/ \E list \in VarLists : OpenVars(list)
  \/ ReadVar \/ ReadConstant \/ ReadWindow
  \/ CloseVector
  \/ ParseAST

Done == phase = "done" /\ UNCHANGED vars

Next == Parse \/ Done
Spec == Init /\ [][Next]_vars /\ WF_vars(Parse)

-----------------------------------------------------------------------------
(* Properties.                                                             *)

(* Positions and numbers stay in range while sections are read; vectors    *)
(* have room for their elements and elements have fields of a file; an     *)
(* entry of maps is for the element that the editor gave the key to.       *)
IsField(x) == x = Field(x.is, x.vec, x.of, x.n) /\ x.of \in Nat /\ x.n \in Nat
SectionTypeOK ==
  /\ pos \in 1..(Len(file) + 1)
  /\ phase \in {"scan", "search", "done"}
  /\ check \in 0..Len(program.segments) /\ segment \in 0..9
  /\ todo \in Seq({"info", "windows", "constants", "ast"} \cup ToSet(CodeSections))
  /\ \A d \in DOMAIN frames :
       /\ frames[d].vec \in DOMAIN elems
       /\ frames[d].at \in 0..Len(elems[frames[d].vec].items)
  /\ \A vec \in DOMAIN elems :
       LET v == elems[vec] IN
       /\ v.gen \in Nat /\ v.room \in Nat /\ Len(v.items) \in 0..v.room
       /\ \A i \in DOMAIN v.items : \A f \in DOMAIN v.items[i] : IsField(v.items[i][f])
  /\ \A k \in DOMAIN maps :
       /\ IsField(k) /\ maps[k].vec = k.vec /\ maps[k].of = k.of
       /\ maps[k].gen \in Nat

(* Whatever sections, lists and windows a file holds, the scanner is       *)
(* between two segments whenever it looks for the next: no reader stops    *)
(* short of the end of its segment or runs into the next one, and the      *)
(* number behind the marks is the one the scanner counted.                 *)
StaysInStep ==
  /\ Scanning /\ Good => file[pos].is \in {"junk", "start"}
  /\ ~warned

(* What stands in a field of an element is what the editor wrote for that  *)
(* field of that element; sub->ast comes from the sixth code block.        *)
ReadAsWritten ==
  \A vec \in DOMAIN elems : \A i \in DOMAIN elems[vec].items :
    LET item == elems[vec].items[i] IN
    \A f \in DOMAIN item :
      IF f = "ast" THEN item[f] = Field("code", <<"subs", i, "code">>, 6, 0)
      ELSE <<item[f].is, item[f].vec, item[f].of>> = <<f, vec, i>>

(* maps keeps the entry it has for a key.  So once a segment is read, the  *)
(* entry of an element leads to it if no segment since the first with this *)
(* element asked for more elements than one before it, which moves them,   *)
(* or lacked the element whose list this one is in, which ends the list.   *)
(* Every element with a key but a window has an entry.                     *)
Asks(k, vec) ==
  LET has == program.contents[k][vec[1]]
      n == IF vec[1] = "globals" THEN has ELSE Len(has)
  IN  CASE vec[3] = "" -> n
        [] vec[2] > n -> 0
        [] vec[1] = "subs" /\ vec[3] = "params" -> 1
        [] OTHER -> has[vec[2]]
Readers(vec) == {k \in 1..check : vec[1] \in ToSet(Sections(program.segments[k]))}
Stayed(vec, i) ==
  \A k \in Readers(vec) : (\E j \in Readers(vec) : j < k /\ Asks(j, vec) >= i) =>
    /\ \E j \in Readers(vec) : j < k /\ Asks(j, vec) >= Asks(k, vec)
    /\ vec[3] = "" \/ Asks(k, Section(vec[1])) >= vec[2]
MapsPointHome ==
  Scanning =>
    \A vec \in DOMAIN elems \ {Section("windows")} : \A i \in DOMAIN elems[vec].items :
      LET item == elems[vec].items[i] IN
      "key" \in DOMAIN item =>
        /\ item.key \in DOMAIN maps
        /\ Stayed(vec, i) => maps[item.key] = [vec |-> vec, of |-> i, gen |-> elems[vec].gen]

(* Once Parse has ended, every segment in front of the first one of the    *)
(* types 5 to 9 has been read, the vectors have what the last segment of   *)
(* their type had, and every sub has its statements if the segment that    *)
(* ends Parse is behind a program.                                         *)
Types(n) == ToSet(SubSeq(program.segments, 1, n))
Ast == 5..9
EverySegmentRead ==
  phase = "done" =>
    /\ check = Len(program.segments) \/ program.segments[check] \in Ast
    /\ Types(check - 1) \cap Ast = {}
    /\ \A k \in 1..check :
         LET has == program.contents[k]
             last == \A j \in (k + 1)..check : program.segments[j] # program.segments[k]
         IN
         /\ last /\ program.segments[k] = 3 =>
              /\ Len(elems[Section("dlls")].items) = Len(has.dlls)
              /\ \A i \in DOMAIN has.subs :
                   /\ Len(elems[<<"subs", i, "locals">>].items) = has.subs[i]
                   /\ Types(check) \cap Ast # {} => "ast" \in DOMAIN elems[Section("subs")].items[i]
         /\ last /\ program.segments[k] = 4 =>
              Len(elems[Section("constants")].items) = Len(has.constants)

(* Parse ends unless the last segment's header has no mark and is reached: *)
(* the search for the mark is not left then.                               *)
EndsUnlessCut ==
  LET leaves == ~program.cut \/ Types(Len(program.segments) - 1) \cap Ast # {} IN
  /\ leaves => <>(phase = "done")
  /\ ~leaves => [](phase # "done")
=============================================================================
