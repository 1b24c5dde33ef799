# A verification development for compiler4e

compiler4e reads a program of the e language from its binary project file and
writes LLVM IR. This directory holds TLA+ modules that model parts of it, TLC
configurations that check them on small programs, and TLAPS proofs for programs
of any size. Sources are named relative to `src/src/` of the repository.

## 1. The system

| Component | Where | State it keeps | Operations |
|---|---|---|---|
| File buffer | `FileBuffer.h` | `pos` in the file's bytes | `ReadInt`, `ReadByte`, `ReadFixedData`, `Match`, `Skip` |
| Segment scanner, section readers | `ECodeParser.cpp` 42-394 | segment counter `_check`; the vectors of `ECode` | `Parse`, `SkipSegment`, `ParseModule`, `ParseSub`, ... |
| Key table | `ECodeParser.h` 204-222 | `maps`: key to a pointer into the vectors | `emplace`, `find` |
| Sub code parser | `ECodeParser.cpp` 427-555 | the C++ stack of `ParseXxx` calls, the tree | `ParseLineNode`, `ParseIf`, `ParseIfTrue`, `ParseJudge`, `ParseLoop` |
| Expression parser | `ECodeParser.cpp` 396-425, 557-645 | the C++ stack | `ParseFunCall`, `ParseNode`, `ParseArgs`, `ParseValue` |
| Tree, visitors, dump | `ast.h`, `visitor.h`, `test.cpp` | the tree; `indent` | `accept`, `visit` |
| Declaration context `EContext` | `compiler.h` 15-283 | `types`, `names`, `translator`, LLVM types and functions | `CreateStruct`, `CreateFunction`, `CreateDll`, `getType` |
| Statement emitter `ECompiler` | `compiler.h` 284-493, 876-924 | the builder's block, `current`, `hasReturn`, `frees` | `visit(...)`, `Return`, `PushFree` |
| Expression code generation | `compiler.h` 495-875 | - | `codegen`, `codegenLHS`, `type`, `TypeCast` |
| Driver | `main.cpp` | - | `CompileFile` |
| Runtime | `../runtime.c`, and the `String_*` functions, which are not in the repository | the texts | `String_Init`, `String_Free`, ... |

The scanner fills `ECode`; at the last segment `ParseAST` runs the sub code
parser over the code of every sub. `CompileFile` then builds one `EContext`,
which declares structs, dll functions and subs, and for every sub of every
module an `ECompiler`, which walks the sub's tree and appends basic blocks to the
function the context declared. The compiled code calls the runtime to copy and
release texts.

The program is sequential. What makes it hard is state that outlives the code
that set it: the insertion point and `current` across nested constructs, `frees`
across branches and returns, `block` across the cases of a judge, and orders
that are nowhere written down (the block `leave` is created first and placed
last; the closing opcode of one construct decides which one the next opcode
belongs to). A unit test sees one program; the properties below are about all
nestings.

What makes each component correct:

- *Sub code parser*: its tree nests as the stream of opcodes does; conditions
  and blocks of a judge correspond.
- *Visitors*: every statement is reached once and in source order.
- *Emitter*: the blocks are well-formed (each ends in its only terminator,
  branches stay in the function); running them runs the statements in source
  order; the compiled loops can be left; every text is released once, on every
  path, while it is alive.
- *Declaration context*: every struct, function and dll function is declared
  before it is used and with the type its declaration names.
- *Scanner and key table*: every section is read field by field as it was
  written, the scan is between two segments after each and ends, an entry of the
  table leads to the element of its key as long as the vector stays where it is.
- *Expression code generation*: `type` and `codegen` recurse separately and have
  to agree on every node; every instruction gets operands of the types it takes.

## 2. Modules

| Module | Models | How |
|---|---|---|
| `Emitter` | `ECompiler`'s statement visitors | One node of the tree per step, in the order the visitor reaches it; a behaviour chooses a program and compiles it. `frames` is the C++ stack of `visit` calls with the locals they hold (`cond`, `leave`, `before`); `prog` is the list of nodes visited. Blocks are numbers; `created`, `placed` and `code` are the function. `EnterIf`, `EnterElse` and `EndIf` are the three stretches of `visit(ASTIfStmt)` between the visits of its children; likewise for `visit(ASTLoop)`. `Return` is the method of that name with the releases. |
| `StructuredProgram` | the promise of the emitted code | The statements of a token stream run in source order. Knows nothing of blocks. |
| `IRExecution` | a run of the emitted blocks | One instruction per step; a test may come out either way; `mem` is the state of every text slot. Implements `StructuredProgram` (`Src`). |
| `SectionReader` | `Parse`, `SkipSegment`, `ParseLibrary` to `ParseAST` | One record per step. `file` is a sequence of fields, each named by what the editor wrote it for (`IsProgram` and `SegmentWritten` with what it is built from describe the editor), and a reader assigns a field to what it reads it as; `todo` is what is left of the calls of `ParseCodeSegement` or `ParseResourceSegement`, `frames` the loops over records with `ParseVariable` inside an element. `elems` are the vectors of `ECode`, with a capacity and a generation of addresses, `maps` the key table. |
| `SubCodeParser` | the statement part of `ECodeParser` | One opcode per step. `frames` is the C++ stack of `ParseXxx` calls. Blocks are objects named by the token at which they were made, so that sharing by pointer is kept. The stream is any that the grammar of `Following` admits. |
| `TreeVisitors` | `DumpVisitor` and the walk of `ECompiler` | The sequence of tokens a visitor reaches, as a recursive function over the blocks, with the ends of nodes for `ECompiler`: the program it hands to `Emitter`. |
| `ExprParser` | `ParseFunCall`, `ParseArgs`, `ParseNode` | The arguments of one statement's call. One opcode per step, and one step for each return of `ParseNode` to the method that called it. `kids` is what each list, object and subscript has been given. |
| `ExprCodegen` | `type`, `codegenLHS`, `codegen`, `TypeCast`, `CreateCall` and the statements over them | A node is what the three methods return for it (LLVM types), with what it is in the source. `stack` holds the nodes without a parent; a step makes a node from the last ones, passes one as an argument of the call in progress, or compiles a statement. Since a parent looks at nothing else of its children, all expressions of any size are reached with few nodes on the stack. |
| `StructTypes` | `EContext::CreateStruct`, `getType` | One member per step; `calls` is the C++ stack of `CreateStruct`. Any structs that do not contain themselves. |
| `Declarations` | `EContext`'s constructor, `CompileFile` | The loops over structs, dll functions and the subs of modules, one turn per step; EXTENDS `StructTypes`. Which subs modules include, which are extern and which comments translate a command are chosen in `InitAll`. |
| `EmitterProofs` | | Proofs about `Emitter`: types; `current`, `hasReturn` and open blocks; targets and terminators. |
| `IRExecutionProofs`, `IRRefinementProofs` | | Proofs about runs of the emitted blocks: the texts; that they implement `StructuredProgram`. |
| `SubCodeParserProofs`, `ExprParserProofs` | | Proofs about `SubCodeParser`, and about `ExprParser`. |
| `ExprCodegenProofs`, `DeclarationProofs` | | Proofs about `ExprCodegen`, and about `StructTypes` and `Declarations`. |
| `SectionReaderProofs` | | Proofs about `SectionReader`. |
| `MCEmitter`, `MCIRExecution`, `MCSubCodeParser`, `MCDeclarations`, `MCSectionReader` | | The roots of the TLC runs. |

Definitions named "mutated form" in a comment are variants of the definition
behind them as a plausible mistake would leave it. Each property is known to
fail when the mutated form takes the place of the original.

Abstractions. An expression is reduced to whether its evaluation makes a text
temporary (`m`), which is all that control flow and ownership can see; a
statement that computes is one `op`. The counter of a times loop is part of its
test. In the parser a call with its arguments is one token. Statements without
effect on blocks or `frees` (an empty line, `key.value == 0`) are left out, and
so is, in `Emitter`, an assignment's choice among its kinds of store.

`SectionReader` counts fields where the code counts bytes: a mark, a number, a
key, a text or a block that is skipped whole is one field. Only numbers that the
readers use have values. Where C++ leaves the order of evaluation open
(`FileBuffer.h` 96, `ECodeParser.cpp` 151 and 302) the order is the one the readers
work with.

`ExprCodegen` leaves values out: a node is the LLVM types the three methods
return for it and what the source text says of it, `e`. Every name resolves, the
module declares the struct `@String`, and operations have two operands. `e` is
`"none"`, and no promise is made, where the language itself gives the expression
no type (an untranslated command, an operation on a bool, a date or on unlike
things, an array taken as a whole in one), and for three things the language does
not know as this compiler makes them: locals with stars in their comment, which
are pointers; bytes and bools by reference, which are announced as characters; and
results with more than one star. `AnnouncedIsGenerated` is about these nodes too.

What is promised of the others is `how`: the form in which the value is handed on.
It is `"broken"` where LLVM refuses to make it, and which node and which statement
works over which forms is written down in `Addable`, `Castable`, `Comparable`,
`Passable` and `Assignable`. They are the specification, the types that the methods
compute are the code, and `WellTypedCompiles` says that they agree in both
directions. So they are also the list of what this compiler does not compile,
although it is well typed:

- as a condition, a bool that is neither a comparison nor a constant: it is an `i8`,
  and `CreateCondBr` (378, 416) takes an `i1`;
- a comparison whose left operand is a comparison or a bool constant, a real that is
  not a constant, a text that is neither a constant nor by reference, or anything
  that is not announced as what it is (596, 598);
- operations on ints of different widths, on doubles that are not constants and on
  texts that are members or elements (which are loaded as a whole), and the bit
  operations on floats (544, 545);
- arguments, returns and assignments that need a conversion to or from a real, a
  constant real where a real is taken included (it is made an int, 756); what is
  passed by reference but is not left at an address; arrays by reference; and a
  dll's text that is not a constant;
- assignments to parameters by reference and to elements of arrays that are local or
  by reference (719), and of a bin from a variable (471-479 store its address);
- a times loop whose counter is not an int.

In `Emitter` the text that is returned is not put into the releases, because
`tofree != value` skips exactly the newest entry of `frees`; a text literal that
is returned makes its temporary in `TypeCast`, behind the releases. An expression makes one temporary
at most, and the argument of a return of an int none: more would only be more
entries of the same kind in `frees`. Not admitted as statements are a loop whose
head is no library command (`head->lib < 0`, `compiler.h` 408: nothing is emitted
for it and its body is dropped), a test-last loop without a tail (441 follows the
null pointer) and a return without argument in a sub with a result type (912-915,
which emits releases and no ret, as falling off the end does). Text locals without
a name, which get no alloca (315-317) and are released all the same, and text
locals with stars, which are not initialised and are released (904-907), are left
out of `TextLocals`. `SubCodeParser` leaves out the statement in front of the first
case of a judge, at which `ParseJudge` returns (530).

## 3. Runs

Bounds are on the number of opening tokens (`MaxLen`); what closes them is
always allowed, so that every program can be completed. An if in a loop in an if,
both branches of an if holding constructs, and a statement behind each need three
or four tokens.

| Run | Bound | Shows |
|---|---|---|
| `returns_anywhere` | 4 | Returns in branches or missing, test-last loops: `ReturnSeen` (`hasReturn` is what its name says), `CurrentIsInnermost`, `TargetsPlaced`. |
| `ir_runs_source` | 4 | For the programs the emitter was made for (ifs, while and times loops, return last): `TypeOK`, `WellFormed`, and `RunsTheSource`: the run of the blocks implements `StructuredProgram`. |
| `ir_halts` | 2 | With early returns: `ClosedBehind` (no block is left open behind the builder) and, under the fairness below, `Halts`. Liveness is costly, so two constructs: one within the other, or a return within one; `ClosedBehind` is proved for all. |
| `ir_texts` | 3 | With early returns and test-last loops: `FreedWhileLive`, `ReturnedAlive`, `NothingLeaks`, `LostOnlyInLoops`. Two loops, one in or behind the other, or an if in a loop, and a return. |
| `sections` | 4 segments and elements together, at most 2 elements of a kind; segment types 0 to 5 | `StaysInStep`, `ReadAsWritten`, `MapsPointHome`, `EverySegmentRead`, `EndsUnlessCut`. `Spec` admits any file of which `IsProgram` holds; `MCInit` picks the small ones. Each segment has contents of its own. Two sections with elements next to each other, an element with lists of zero to two, a window that ends early, a segment that comes again with more or fewer elements, or one behind the segment that ends `Parse`, all fit; two segments of one type have one part more, so that a vector that has an element can grow. 393,630 states. Types 6 to 9 are cases of 5 (`ParseAST`). |
| `parser` | 5, one less with irregular tokens | `TypeOK`, `StackIsNest`, `ParsedAsNested`, `JudgePaired`, `DumpInOrder`, `CompiledInOrder`. Five tokens hold two cases with a statement or a judge within a case; an irregular token (skipped, unknown, or a last closing opcode left out) adds none. |
| `expressions` | 5 | `ExprTypeOK`, `FramesAreOpen`, `ArgsAsWritten`. Five tokens hold a call in a brace in an object's subscript, or three lists that end in a row. |
| `codegen` | 2 nodes on the stack, 1 star; types bool, int and text | `CodegenTypeOK`, `AnnouncedIsGenerated`, `WellTypedCompiles`. No node takes more than two parts except a call, and a call decides argument by argument, so two nodes show every combination that matters; the stack may be used again without end. Bool, int and text are the three types that are treated apart (a flag, a value, something that is left where it is). 786,378 states; runs with bytes, reals, dates, structs and bins in their place hold as well, and the theorems lift the bounds. |
| `declarations` | 3 structs of 2 members without subs; 1 struct of 1 member (the others empty), 2 modules, 2 subs, 2 includes | `LaidOutOnce`, `LaidOutAsDeclared`, `AllDeclared`, `ParamsTyped`, `CallsResolve`, `BodiesOnce`. Three structs are a chain or a diamond in every order of declaration. A sub can be in both modules or twice in one, in front of or behind an extern one, called before it is compiled, or never included. |

Three runs show where the code does not do what the repository says, each with
the smallest program (README of the repository: "compiler e to llvm IR";
`main.cpp` 28 asks LLVM to verify what it runs):

| Run | What is found |
|---|---|
| `do_while_unclosed` | Nothing ends the block in front of a test-last loop. |
| `early_return_branch` | A return in an if is followed by the branch to `leave`; TLC's sub is an if that holds a return. |
| `branch_text_freed` | A temporary made in a branch is released where the branch was not taken. |

More shows in the same modules with other properties or constants:
`visit(ASTJudge)` is the empty method of `Visitor`, so a judge generates no code
(which is why `CompiledInOrder` speaks of what no judge encloses); with `LoopKinds =
{"other"}` a loop command that is not known by name branches to a block that is
never placed (`TargetsPlaced` fails), which is why the runs have the three known
commands; with `Shapes = {"fallOff"}` a sub with a
result type and no return at its top level ends without a terminator
(`WellFormed` fails); with `Liberties = {"bareCase"}` a case without arguments
shifts the conditions behind it to the wrong blocks (`JudgePaired` fails).

`ClosedBehind` and `TargetsPlaced` are the parts of `WellFormed` that survive
early returns and test-last loops respectively, which is why they are checked on
the wider programs.

**Fairness.** `FairRun` asks that compilation and execution go on (weak fairness
of every step: both are plain sequential code, nothing else can stop them), and
that a loop's test which is evaluated again and again is false in the end (strong
fairness of the false outcome of each test of a loop). The second is an assumption
about the program compiled, not about the compiler: without it no program with a
loop halts. No outcome of an if is assumed. So `Halts` says that the emitter adds
no endless loop of its own.

`AllDeclared` assumes that `CreateStruct` goes on (`WF` of `DeclareStructs`), again
sequential code. It holds for structs that do not contain themselves, not even
through a reference: for one that does, `CreateStruct` recurses for ever, because
`type` is set only at its end.

`EndsUnlessCut` assumes that `Parse` goes on (`WF` of `Parse`). It says exactly
when it ends: unless the header of a segment that is reached has no mark behind it,
because `Cmp` is false behind the end of the file and the search has no other end
(`ECodeParser.cpp` 51).

**Composition.** The tree that `SubCodeParser` builds is what `ECompiler` walks.
`CompiledInOrder` says that the walk, with the ends of its nodes, is the token
stream the sub was written as, judges taken out. That stream is `Emitter`'s
`prog`: so what the emitter runs promise of `prog` holds for the sub in the file.

**What `type` says.** `AnnouncedIsGenerated` asks of every node, well typed or not,
whether what `type` announces is what `codegen` makes, or what is at the address it
makes. The code does not keep that up, and the property lists where (`Announces`):

| `gap` | What is announced, and what is made | Lines |
|---|---|---|
| `flag` | a comparison is announced as `i8`, a bool constant as `i32`; both are an `i1` | 664, 688, 745 |
| `star` | the stars in a dll's comment are missing in what is announced | 233-237, 678 |
| `chars` | characters are announced, something else is made: bytes and bools behind a star or in an array by reference; texts added by a command that has no type in the library's table | 570, 667 |
| `table` | a library's table names another type than the operation, or the sub that translates the command, has | 600, 664 |
| `depth` | the same type behind another number of pointers: arrays by reference, and what is subscripted | 173, 719 |
| `bad` | `type` fails itself: variables without a value, elements of local arrays, nodes without a method; nothing is promised of those | 706, 719 |

What decides by announced types (570, 596, 471) goes wrong for the first five,
and the invariant is what makes `WellTypedCompiles` provable: it fails if a
reference is loaded once too often, the other if a comparison does not cast.

**Keys.** `maps.emplace` leaves a key that is there with the pointer it has
(`ECodeParser.cpp` 324-327). If a second code segment holds more subs than the vector
has room for, the elements move and the entries of the first segment point to
where they were; if it holds fewer, to elements that are gone. `MapsPointHome` says
which entries are good: those of elements for which no segment since the first one
that had them asked for more elements than any before it, or was without the
element whose list they are in. Of the others it says only that there is one. The
room of a vector is taken to be exactly what was asked for; a library may take
more, and then fewer entries are stale.

**Types of texts.** `types[SDT_TEXT]` changes when the struct with the comment
`@String` is laid out. `LaidOutAsDeclared` therefore promises one text type to all
structs only when that struct is declared first and holds no text; otherwise a
member's text is the type of the moment. `ParamsTyped` shows that subs, which come
behind all structs, are not affected.

**Bodies.** `BodiesOnce` is about subs that one module includes once. A sub that is
included twice is created twice; its value is the second function, which gets two
bodies, and the first stays a declaration. A sub behind an extern one stays a
declaration too (`main.cpp` 49 leaves the loop over the module).

**Texts.** `FreedWhileLive` and `NothingLeaks` are about texts that every path
creates: the locals and the temporaries outside all ifs and loops. For temporaries
made in a branch the code does release texts it has not stored (run
`branch_text_freed`), and in a loop it loses all but the last. `LostOnlyInLoops` says
that this is the only way: the call that stores over a live text is inside a loop
or in a loop's test, never behind a loop that is finished.

## 4. Proofs

For every choice of the constants that the statement allows, by the usual three
facts (holds initially, kept by every step, implies the property). What a theorem
assumes of the constants is in parentheses.

### `Emitter`, for every length of program and depth of nesting

- `TypeCorrect` (`TypeOK`; nothing assumed). The invariant adds to the types that
  every block a frame mentions has been created, and that at most three blocks are
  created per node, which is what keeps `created` in `Blocks`.
- `CurrentCorrect` (`CurrentIsInnermost`; nothing assumed). `current` alone is not
  inductive: `Rejoin` restores it from `Top.before`, so the invariant says of every
  frame that its `before` is the block of the frame below it.
- `ReturnSeenCorrect` (`ReturnSeen`; nothing assumed). `Return` decides by the
  number of frames whether it is at the top level, the property by the tokens:
  `DepthInv` says that there are as many frames as enclosing openers.
- `ClosedCorrect` (`ClosedBehind`; `LoopKinds` without the test-last and the
  unknown loops). A block that is created and not yet placed must be known to be
  empty, and the blocks that frames will place must be distinct: this is lemma
  `FreshHolds`. The run `do_while_unclosed` shows why the assumption is needed.
- `TargetsCorrect` (`TargetsPlaced`; `LoopKinds` without the unknown loops). A
  target is placed, or it is the `els`, `leave` or test-last `cond` of a frame
  and will be when the frame ends; when the sub is compiled there is no frame.
- `WellFormedCorrect` (`WellFormed`; while and times loops, no liberties). From the
  two before and from: no block has a terminator before its last instruction, and
  the insertion block has none until the sub has returned.

### `IRExecution`: the emitted blocks run the source

`RunsTheSourceCorrect` (`SpecRun => RunsTheSource`; loops that test first, no sub
that falls off its end). The assumptions leave out the two kinds of program whose
code is known to be wrong; returns in branches and loops are included, which the
run `ir_runs_source` leaves out. The argument, for a sub of any size:

- *Where a block begins.* There is a function h from blocks to positions in the
  source such that the instructions of block b stand one behind the other from
  h[b] on (`Fitted`). It is not in the state, so the invariant says that one
  exists, and each visit that places a block extends it. A branch goes where the
  source goes from its position, or to a block some frame will place there: this
  needs the stream to be nested (`StreamOK`), as the frames say where an endif or
  endloop belongs.
- *Chains of branches.* A block may begin with a branch to another one that does.
  `br` leads to a block with a smaller number or to one that does not begin with
  `br`, so chains end; `Landing` follows the source the same way.
- *The last block* has no terminator when a return at the top level has other
  code behind it. No run gets there: no jump leads over that return (`FenceInv`),
  hence a run stays in front of it (`PathInv`, the invariant of the run).
- *Each step* of a run is then one of `Src!Next` or changes nothing it sees.

`Landing` and `Start` are recursive functions. That they satisfy their defining
equations is shown without an induction theorem: a set of counterexamples would
have a least element.

### `IRExecution`: texts

- `FreedWhileLiveCorrect` and `NothingLeaksCorrect` (nothing assumed). The
  emitter knows nothing of runs, so the invariant (`TextInv`) carries what a data-flow
  analysis would compute: for each block the texts that are live on every way there
  (`lo`) and those that are on some way (`hi`). The code emitted respects them at
  each branch (`Emitted`), and a run stays between them (`Between`). The texts every path creates
  are in `lo` wherever a release stands.
- `ReturnedAliveCorrect` (`ReturnedAlive`; no `"local"` among `RetValues`). `Return`
  releases the locals before the value is loaded. With `RetValues = {"local"}` TLC
  finds a text returned that has been released, in a sub of a single return.
- `LostOnlyInLoopsCorrect` (`LostOnlyInLoops`; nothing assumed). `OrderInv`: the
  instructions of a block ascend in the source, and a branch leads only to code
  behind it, or to code that some loop has in common with it (`Together`); what an
  open loop has emitted into its condition and body belongs to the loop. `NestInv`
  says of the source that loops are nested and that those in progress are the
  ones that enclose the next node. So what is still to run of a block either shares
  a loop with the call that made a live text or is behind that call (`RunInOrder`).

### `SubCodeParser`, for code of any length and any irregular opcodes

- `TypeCorrect` (`TypeOK`) and `StackIsNestCorrect` (`StackIsNest`; nothing
  assumed). The property speaks of the frame on top only. Reading a closing opcode uncovers
  the frame below, so `StackInv` says of every frame which construct and which
  section it is in, and that all that was read since is nested deeper. A closing
  opcode is read by one call and handled by its caller, so the invariant also says
  what a pending one belongs to (`ReadingFits`).
- `ParsedAsNestedCorrect` (`ParsedAsNested`; nothing assumed). A statement is in
  its block when it is complete, thus `OpenFits`: a construct in progress is not
  complete, and nothing behind its opener belongs to an earlier section, so that it
  is the next of its section when it ends.
- `JudgePairedCorrect` (`JudgePaired`; no `"bareCase"`). `JudgesInv` counts the
  conditions and blocks of a judge in every state it can be left in: before a case,
  in one, behind the default (whose predecessor is pushed twice).

`Owner`, `Section` and `Depth` look for the latest of the tokens in front of one;
lemma `Greatest` says that a bounded set of numbers has a greatest element.

### `ExprParser`, for arguments of any length and depth and any irregularities

- `ExprTypeCorrect` (`ExprTypeOK`), `FramesAreOpenCorrect` (`FramesAreOpen`) and
  `ArgsAsWrittenCorrect` (`ArgsAsWritten`); nothing assumed. The two properties speak
  of states in which a byte is about to be read. Between two bytes any number of
  calls return, so the invariant has to say what holds half way.
- `StackInv`, the calls: every frame is of the kind that its token starts
  (`KindFits`); one called for a prefix belongs to the next token, and where its
  node goes is where the prefix stands (`CallOK`, `Under`). Every opener without a
  frame is closed and no other is, by a count of openers and ends (`NestOK`), and
  every prefix without one has a complete node behind it (`PrefixesWhole`). A node
  on its way back is complete and goes to the frame on top (`Returned`). Once the
  code has ended only lists and prefixes are left on the stack, and `NestOK` no
  longer holds: an unclosed list counts as ended.
- `KidsInv`, the nodes: `kids` is what the stream says of the nodes that have been
  put where they belong (`Done`), in ascending order. A node is put in behind all
  that were put in before it. That this is the order of the code needs that nothing
  read behind the start of a node goes to a token in front of it (`Behind`).

What the stream says of a token (where it belongs, whether it is complete) must not
change when the stream grows: the lemmas named `...Grows`.

### `ExprCodegen`, for expressions of any size

- `CodegenTypeCorrect`, `AnnouncedCorrect`, `WellTypedCorrect` (nothing assumed). One
  invariant serves all three (`GoodStack`): every node on the stack is one of `Good`.
  `Formed` says what LLVM type each form has, and that the form is `"broken"` if and
  only if there is no value; `Located` what the address of a place is; `Arrayed` what
  an array is announced as, which is what its elements are found by; `Told` and
  `Announces` what each gap means. There is a lemma for each kind of node (of good
  parts it is a good node) and for each statement (over good nodes it compiles if and
  only if it works); a cast has a lemma of its own, by base and number of pointers.
  For a call the invariant says that it is taken if and only if it works, as long as
  it is typed.

### `StructTypes` and `Declarations`, for any number of structs, members, subs and modules

- `StructTypesCorrect` (`StructTypeOK`) and `LaidOutOnceCorrect` (`LaidOutOnce`).
  The calls of `CreateStruct` in progress are a chain of uses, each struct without a
  type (`CallsAreChain`); since no set of structs is closed under use (`Acyclic`), a
  struct cannot come up twice in the chain, so `CreateStruct` never starts a struct
  it is busy with. `OrderIsDone` ties `order` to the structs that have types.
- `LaidOutAsDeclaredCorrect` (`LaidOutAsDeclared`). The elements collected by a
  call in progress and those of a finished struct are as named (`ElementInv`).
  That texts agree needs `LeadInv`: if the string struct is the first declared and
  holds no text, nothing laid out before it has a text member.
- `ParamsTypedCorrect` (`ParamsTyped`). No function is created before all structs
  have types, and none gets one later, so `types[SDT_TEXT]` is final.
- `DeclTypesCorrect` (`DeclTypeOK`) and `CallsResolveCorrect` (`CallsResolve`).
  `CallInv`: once the loop over the subs has passed an included sub its value is a
  function created for it, and all loops are passed before a call is compiled; so
  a call compiled early and one compiled late go to the same function.
- `BodiesOnceCorrect` (`BodiesOnce`). `BodyInv`: a sub included at one place has no
  body before the loop of `CompileFile` gets there and one afterwards, if that
  place is reached.

### `SectionReader`, for files of any number of segments, elements, variables and pad fields

`SectionTypeCorrect` (`SectionTypeOK`), `StaysInStepCorrect` (`StaysInStep`),
`ReadAsWrittenCorrect` (`ReadAsWritten`) and `EverySegmentReadCorrect`
(`EverySegmentRead`). What is assumed of the file is
`IsProgram`: sections of any number of elements, lists of any length, segments of
the types 0 to 9 in any order and any number of times, each with contents of its
own, the last header cut or not.
Whether a reader is in step depends on everything the readers before it have
consumed, so none of the four is inductive, and one invariant serves them all:

- *What is left of the file* (`PositionInv`). From `pos` on, the file is the
  concatenation of what the editor wrote for the work that is left: the rest of the
  list of variables in progress, the lists of the element behind it, the elements of
  the section behind that one, the sections in `todo` and the segments behind. Each
  action takes the first piece of that off: this is what shows which fields it
  assigns and where it stops, that `past` of a list is its end whatever the pad, and
  that `SkipSegment` finds the header of the next segment and nothing before it.
- *What has been read* (`ElemsFit`, `MapsFit`, parts of `DataInv`). Every field of an
  element is of its own kind and at its own place, whichever segment it comes from;
  an entry of `maps` is for the element its key names.
- *Which vectors there are, and how long* (`LoadedInv`). A vector has the length,
  and its elements the keys, that the last segment wrote for it (`Has`). The
  sections of every segment the scanner has passed and those in front of `todo`
  have their vectors, with all lists of all elements up to the one in progress
  (`Loaded`). A segment that comes again takes this over vector by vector: a shorter
  one ends elements together with their lists, a longer one adds elements without
  any.

A file is a `FlattenSeq` of sequences, which are `FlattenSeq`s again. That it is the
first sequence followed by the rest is shown like the equations of `Landing`, by the
least number for which it would fail.

### Only model-checked

Liveness (`Halts`, `AllDeclared`, `EndsUnlessCut`): fairness and `ENABLED` are out
of the prover's reach. `MapsPointHome` relates an entry to the whole history of
segments of its type; it is checked on files with segments that come again, and
only that entries are for their own element is proved (`SectionTypeOK`). `DumpInOrder` and `CompiledInOrder` compare recursive walks
of two trees, which is an induction over data.

## 5. Not modelled

The path helpers, the loading of libraries and the output of files are I/O.
`lib2.h` is a third-party header; `translator.h` is included nowhere. The
JIT (`initEE`) is never called. A null condition of an if, and null statements in
the walk of `ECompiler`, are excluded by the inputs admitted; so are members and
modules that name what does not exist (`find` returns null), and names that occur
twice. Truncated files are modelled where the scanner meets them (a last segment
without its mark) and where the code of a sub ends behind an argument (`noEnd`); a
section cut in the middle is read past the end of the buffer. Bytes inside a field
and the widths of numbers are not modelled, and so is nothing that depends on a
value when the compiled program runs (zero extension of negative ints). Type names
in `#...` comments and chains of more than two operands are left out. In
`StructTypes` references and arrays are left out, which only make pointers; in
`Declarations` so are the parameters and results of dll functions, which
`ExprCodegen` has (`ParamType`, `Result`).

## 6. Plan

1. (done) `Emitter`, `StructuredProgram`, `IRExecution` and the proofs about the
   emitter; `SubCodeParser`, `TreeVisitors`.
2. (done) `StructTypes`, `Declarations`: the order in which structs, dll functions
   and subs are declared and compiled, with proofs.
3. (done) `SectionReader`: the segments and sections of a file.
4. (done) `ExprParser`: argument lists, objects and subscripts.
5. (done) `ExprCodegen`: `type` against `codegen` and the cases of `TypeCast`, with
   proofs.
6. (done) Composition of the parser's tree with the emitter's program.
7. (done) Proofs about runs: texts, and the refinement of `StructuredProgram`;
   about `SubCodeParser`; the rest of `Declarations`.
8. (done) Proofs about `ExprParser`.
9. (done) Proofs about `SectionReader`.
