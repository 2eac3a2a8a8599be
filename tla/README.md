# A verification of CamllVM in TLA+

CamllVM runs OCaml bytecode: it decodes a bytecode file, compiles it with LLVM
to native functions, and runs them on top of the OCaml runtime. There is one
thread. What makes it hard is not concurrency but three stacks that have to
agree (the OCaml stack, the chain of `setjmp` buffers, the C stack of compiled
functions), passes that recover structure from bytecode by looking at it in
order, and code whose correctness is a calculation on stack offsets or tagged
integers. A wrong offset shows only after a long sequence of legal instructions.

All paths below are relative to the repository.

## The system

| part | source | state it keeps | operations |
|---|---|---|---|
| Decoder | `src/Instructions.cpp`, `include/Instructions.hpp` | the vector of `ZInstruction`, positions of instructions | `readInstructions`, `annotateNodes` |
| Functions and blocks | `src/GenModuleCreator.cpp`, `src/GenFunction.cpp` | queues of instructions, `Module->Functions`, each function's `Blocks` with `NextBlocks`, `PreviousBlocks`, `BrBlock`, `NoBrBlock` | `generate`, `initFunction`, `removeDeadInstructions`, `generateFunction`, `removeUnusedBlocks` |
| Code generation | `src/GenBlock.cpp`, `src/GenFunction.cpp`, `src/GenModule.cpp` | the LLVM module, one `IRBuilder` and its insertion point, `LlvmFunc` of each function, `LlvmBlocks` of each block | `CodeGen`, `GenCodeForInst`, `genTermInst`, `getPtrToFunc`, `generateRestartFunction` |
| Control runtime | `src/StdLib/CStdLib.c` | `StackPointer`, `Accu`, `Env`, `extra_args`, the OCaml stack | `push`, `pop`, `pushRetAddr`, `apply*`, `appterm*`, `handleReturn`, `checkGrab`, `createRestartClosure`, `restart` |
| Exceptions | `src/StdLib/CStdLib.c`, `src/GenBlock.cpp` | `caml_trapsp`, `Buffers`, `CurrentBufferIndex`, `NextExceptionContext`, `caml_external_raise` | `getNewBuffer`, `pushTrap`, `popTrap`, `removeExceptionContext`, `getExceptionValue`, `throwException`, and `caml_raise` of the OCaml runtime |
| C calls | `src/StdLib/CStdLib.c` | `caml_extern_sp` | `c_call1` ... `c_call5`, `c_calln` |
| Integers | `src/StdLib/CStdLib.c`, `src/GenBlock.cpp` | `Accu`, the word on top of the stack | the arithmetic, comparison and branch instructions |
| Closures | `src/StdLib/CStdLib.c` | closure blocks | `closure`, `closureRec`, `setClosureRecNestedClos`, `offsetClosure` |
| Stack growth | `src/StdLib/CStdLib.c` | `StackPointer`, `caml_trapsp`, the links of trap frames, the threshold | `CHECK_STACKS`, and `caml_realloc_stack` and `caml_ensure_stack_capacity` of the OCaml runtime |
| Methods | `src/StdLib/CStdLib.c` | method tables | `getMethod`, `getDynMet`, `getPubMet` |
| Blocks, strings, floats, globals | `src/StdLib/CStdLib.c` | the OCaml heap | `makeBlock*`, `getField`, `setField`, ... |
| Driver | `src/Context.cpp`, `src/main.cpp`, `src/SimpleContext.cpp`, `src/zsi` | the context | load, `generateMod`, `compile`, `exec` |

The parts work in turn: the driver loads the file, the decoder fills the vector
of instructions, `GenModuleCreator` turns it into functions and blocks, code
generation walks them and emits calls of the runtime functions of
`CStdLib.c`, and the compiled main function is called. From then on only
runtime functions change state. Compiled code and runtime share the global
registers and the OCaml stack; handlers are entered by `siglongjmp`, from OCaml
code (`RAISE`) or from inside the OCaml runtime (`caml_raise`), which knows only
`caml_external_raise`.

### What is hard, and what makes each part correct

* **Decoder.** Two cursors over the same words, tables sized by operands just
  read, relative targets with three different bases. Correct: the vector is the
  program that was compiled.
* **Functions and blocks.** Function ends and dead code are found in one pass,
  from the targets seen so far. Correct: no reachable instruction is lost, blocks
  are straight-line code, edges are those of the bytecode.
* **Code generation.** One insertion point shared by functions that are generated
  in the middle of one another, and by handlers whose blocks are not generated
  yet. Correct: each LLVM block has its own code and one terminator, and branches
  enter blocks at the front.
* **Control runtime and exceptions.** Four registers and three chains, changed by
  a dozen functions that each know a part of the frame layout. Correct: whichever
  way control comes back to an activation (return, partial application, raise from
  OCaml, from C, or from the growth of the stack) it finds its own words and
  registers.
* **Allocation and C calls.** Whatever the collector does not find is dead, and
  the collector finds only what was put where it looks. Correct: nothing that is
  read again is dead.
* **Integers.** Arithmetic on tagged words, at both ends of the range. Correct: it
  is OCaml's arithmetic.
* **Closures and blocks.** A function does not know where its block begins: free
  variables and siblings are at distances from the word it was entered through, and
  the instruction that builds the block, `OFFSETCLOSURE`, `ENVACC` and `RESTART` each
  compute them. Correct: the words behave like functions with free variables and
  partial applications, and like objects with items.
* **Stack growth.** Any call may move the stack, with pointers into it in registers, in
  globals and in its own words. Correct: nobody keeps a pointer to the old one, and
  whoever writes has the room it counts on.
* **Methods.** A binary search over words that hold methods and labels in turn.

There is no concurrency, no I/O protocol and no persistent state: nothing here is
about threads, crashes and restarts, or lost messages. Signals are not delivered
(`CHECK_SIGNALS` generates nothing).

## The modules

| module | models | checked by | proved in |
|---|---|---|---|
| `Activations` | what OCaml code may rely on when it calls, returns and raises; no stack | `zam_control` (as `RefinesActivations`) | `ZamControlProofs` |
| `ZamControl` | control instructions, handlers, C calls: the words of the stack | `zam_control`, `wild_raise` | `ZamControlProofs` |
| `GcRoots` (extends `ZamControl`) | allocation, primitives and what the collector scans | `gc_roots`, `gc_stale_word`, `gc_dead_roots` | `ZamControlProofs` |
| `GenModuleCreator` | `annotateNodes`, `generate`, `initFunction`, `removeDeadInstructions`, `generateFunction`, `removeUnusedBlocks` | `compile`, `gen_shared_arm` | `GenModuleCreatorProofs` |
| `CodeGen` (extends `GenModuleCreator`) | LLVM blocks, insertion point, terminators, recursive generation | `compile` | `CodeGenProofs` |
| `OCamlObjects` | objects with items, functions with free variables, applications; no words | `zam_data` (as `RefinesOCamlObjects`) | `ZamDataProofs` |
| `ZamData` | closures, partial applications, blocks, arrays, floats, strings, globals: the words of the heap | `zam_data` | `ZamDataProofs` |
| `StackGrowth` | which calls look for room, what growth moves, and who holds pointers into the stack | `stack_growth` | `StackGrowthProofs` |
| `ReadInstructions` | `readInstructions`, `getSwitchOffset` | `read_instructions` | `ReadInstructionsProofs` |
| `OCamlInts` | integers as the language defines them | `int_ops` (as `RefinesOCamlInts`) | `IntOpsProofs` |
| `IntOps` | integers as tagged words | `int_ops` | `IntOpsProofs` |
| `GetDynMet` | `getDynMet`, `getPubMet` | `get_dyn_met` | `GetDynMetProofs` |

The `MC...` modules give the constants their values. Operators with a name like
`appterm_resets_extra` are mutants: mistakes someone could make in the definition
after which they are named. No specification uses them. Each property of a
passing run is known to fail when one of them takes the definition's place.

### ZamControl and Activations

`stack` is the memory of the OCaml stack, numbered from the bottom; `sp` is the
number of words in use, so `StackPointer[k]` is `stack[sp - k]`, and pushing is
`sp + 1`. Words above `sp` keep what was left there, as they do in memory, and a
handler does read words above `sp`. `Buffers`, `CurrentBufferIndex`,
`NextExceptionContext` and `caml_external_raise` are those of `CStdLib.c`, with
indices for pointers; `WILD` is the address that `&NextExceptionContext->JmpBuf`
is for a null context. `native` counts frames of compiled functions on the C
stack, which `sigsetjmp` records and `siglongjmp` goes back to: `CreateCall` adds
one, `CreateRetVoid` takes one, `setTailCall` leaves it.

`calls`, `traps` and `pends` say where the return frames, the trap frames and the
frames of `PUSH_RETADDR` are. The runtime does not have them; ocamlc does, as the
static layout of the code it emits. Only guards that state ocamlc's discipline
read them (`Owns`, `InTail`, `Base`: an instruction pops its own words, a function
returns with its own handlers gone, `slotsize` is the whole frame). The program is
any sequence of instructions within these guards: every program is a behaviour.
There is one step per instruction, except that a call ends in the state in which
the called function starts (`at = "entry"`), where `GRAB`, `RESTART` or the first
instruction of a unary function follows. `apply` is allowed for any number of
arguments, also the numbers ocamlc has other instructions for. A raise from C
leaves the words of `Setup_for_c_call`, or the frame `apply` had begun, behind it,
as memory.

Values are not told apart: a word is an environment (a closure), a count as a
tagged integer, a link, or 0. `C_CALLN` is not in the model.

`Activations` has suspended activations and handlers as sequences of records, each
with the environment and the count of extra arguments it will get back. It says
what a return, a partial application, a result applied to further arguments and a
raise restore. `RefinesActivations` reads those records off the stack words.

### GcRoots

Beside each word stands its kind: `imm` (the collector leaves it alone), `live` or
`dead`. A collection saves `Env` and `Accu` on the stack, follows everything below,
and makes every other pointer dead; it may happen at every allocation and in every
primitive, and this worst case, in which every block moves, is the only one
modelled. The model stops at the first collection that follows a dead pointer.
`caml_local_roots` is "dead" once a primitive that had registered roots has raised.

The module shows two ways to destroy the heap, so `NothingReadIsDead` speaks of
states before that. It is about code that is right: the order of `Setup_for_gc`,
allocation and reading the fields, and the restoring of `Env` from the stack.

### GenModuleCreator and CodeGen

A step is one turn of a loop of the code. The first pass over the queue decides
where functions end, the second what is dead, the third makes blocks and edges
(`Blocks[b]` has `NextBlocks` in their order, `PreviousBlocks`, `BrBlock`,
`NoBrBlock`, -1 for `nullptr`), the fourth removes blocks without predecessors
until nothing changes. `main` calls `removeUnusedBlocks` a second time on the
main function, which changes nothing then and is no step of its own. The end of
the queue is never reached inside a function, since the last instruction is
`STOP`. `pc = "crash"` is the null pointer the code follows when a jump leads to an
instruction that is in no block.

`CodeGen` runs after it. `text[f][b]` is the sequence of LLVM blocks of a bytecode
block, `insert` the insertion point, `active` the recursion of `GenFunction::CodeGen`
through `getPtrToFunc`. LLVM code is a sequence of items: the code of an
instruction, a terminator with its targets, the entry of a handler, the call of
`init`. What an instruction computes is left out; how it splits the block, where it
puts code and where it branches is all there.

Programs come from `MCGenModuleCreator`, which lays out expressions the way ocamlc
does (if, while, for, match, try, tail calls, raises, nested two deep; unary and
n-ary functions; closures in functions; mutual recursion; two linked units;
functions nobody refers to, alone in their unit included), and `MCCodeGen` adds
functions that close over themselves and handlers in loops. `MCCompiled` also has the
functions whose switch ends in an arm that is not the highest, which `initFunction`
cuts short: `LastEntryHighest` tells them apart where a property needs it, and the
other properties hold of them too, as the compiler crashes rather than go on with a
hole. Two kinds of program that the passes take apart are left out: main code with a
match or a while loop before the target of its first conditional jump, and a function without a
reference in a unit linked after one that has a conditional jump, if it starts with
`GRAB` or comes after another function.

### ZamData and OCamlObjects

`heap` is a sequence of blocks with a tag and words; a word says what it is (an
integer, a pointer to a field, an address of code, a header of an inner function,
a word of a float, a character). `Env` is a pointer to a field, so it may point into the
middle of a closure block. An instruction takes its operand from ocamlc's rule
(`EnvOperand`, `OffsetOperand`, external) and does with it what the runtime function
does. A program is a set of instructions and a length; it runs any sequence of them,
within guards that say what the type checker promises (an item exists, an index is
in range, a callee is a function). There are no return frames here (they are in
`ZamControl`): entering a function leaves its arguments on the stack and nothing else.

`OCamlObjects` has the same program on objects: a recursive definition is one object,
its functions are members of it, a partial application is a function and its
arguments in order. `Objects` reads the objects off the words. `HeapParses` is what
the collector needs: headers of inner functions give the way to the start of their
block, and every pointer leads to the start of a block or to a function in it.

### StackGrowth

The stack is an allocation (`block`) with a size; a pointer into it is the allocation and a
depth, the words between it and the high end, which growth keeps. `acts` are the
activations with the depth of their return frame (`base`), of their first argument
(`entry`) and how far ocamlc lets them push (`limit`), `traps` the handlers; the code
has neither. `caml_realloc_stack` is modelled from the OCaml runtime: it doubles the size until
the request fits, moves `caml_extern_sp`, `caml_trapsp` and the links it reaches from
there, and raises `Stack_overflow` when the size may not be doubled again. `Frame` is
the number of words a function may push without asking; a larger one begins with
`caml_ensure_stack_capacity`. `checked` says that the activation's entry found or made
room, and `status = "overrun"` that a word below `caml_stack_low` was written.

### ReadInstructions

A file is a program, its words, and the word each instruction begins at; `Encoded` says
how ocamlc (`emitcode.ml`, external) gets from one to the others, by a counter it advances with
every word it writes. The shape of an instruction is stated there (`Shaped`) apart from
the tables of the reader (`Arity`, `CodeOffsetArgs`), so that the two can disagree.
`FilesAssumption` is that all files are such files; `MCReadInstructions` builds them, and TLC
evaluates the assumption. The state has the two cursors, the map from positions and
the list of instructions to adjust, and a step is one turn of either loop.
`OrigIdx` and the number each instruction carries are not told apart from its
index. `getSwitchOffset` is here too, since it reads the same operand. No
`CLOSUREREC` has more than 32 functions (`MaxFns`; see below), and the two counts in the
operand of `SWITCH` fit its 16 and 15 bits.

### IntOps and OCamlInts

`Accu` and `Operand` are words of `W` bits and every operation of `CStdLib.c` is
done on words, modulo `2^W`. `OCamlInts` does it on integers of `W - 1` bits. Signed
overflow, undefined in C, wraps in the model, as the code clang generates for it
does. Shift counts outside the word are not generated: OCaml leaves their result
open as well. `BitByBit` is what `&`, `|` and `^` have in common: it is the word whose every bit
comes from the two bits at its place. Words have three bits at least: with two, the
integer 1, which stands for `true`, is not in the range of `int`.

### GetDynMet

A table of methods is the sequence of labels; `Field` says which word of the table
holds what. The bounds of the search are indices of words.

## What is checked

All runs are exhaustive. `CHECK_DEADLOCK FALSE` is set everywhere: programs stop
(`STOP`, an uncaught exception), compilers and searches finish, and `GcRoots` and
`IntOps` stop at a destroyed heap or a trap.

| run | states | what it shows |
|---|---|---|
| `zam_control` | 244,039 | Calls, tail calls, partial and over-application, returns, nested handlers, raises from OCaml code, from primitives and from a full stack: the stack keeps its layout, every link and every saved register is what the layout says, the jump buffers follow the chain of handlers, the C stack has one frame for each suspended activation, no instruction disturbs the words of a suspended one (`FramesUntouched`), and all of it implements `Activations`. |
| `wild_raise` | violated | `RaiseTargetValid`: install a handler, remove it, and a primitive raises. |
| `compile` | 335,071 | From bytecode to LLVM blocks, for every program of `MCCompiled`: no target of a jump is lost, every function has exactly its own instructions, blocks are straight-line code with the edges of the bytecode, the main function has one initialisation, every closure has a function with code; every function is generated once although generation is recursive, the code of an instruction is in a block of its own bytecode block, branches and handlers enter blocks at the front, every block ends in one terminator, and it all ends. |
| `gen_shared_arm` | violated | `TargetsKept`: a switch whose last entry is not its highest arm. |
| `gc_roots` | 551,154 | With a collection at every allocation and in every primitive, no dead pointer is in a register or a word that is read again, and saved words have the kind a return or a raise expects. |
| `gc_stale_word` | violated | `NoStaleWordScanned`: a pointer is popped, a call frame is pushed over it, the blocks move, and the skipped word is scanned. |
| `gc_dead_roots` | violated | `NoDeadRootsScanned`: a primitive with local roots raises, then something allocates. |
| `int_ops` | 15,248 | On all words of five bits results keep their tag, and arithmetic, shifts, comparisons and branches implement `OCamlInts`. |
| `read_instructions` | 65,286 | The cursor over the words and the one over the instructions agree at every step; the vector is the program that was encoded; every entry of a switch, constant or block, selects its own arm. |
| `zam_data` | 986,994 | Closures of several functions in one block, partial applications, blocks, arrays, floats, strings, globals: pointers and inner headers are right, `Env` points to the closure of the code that runs, and all of it implements `OCamlObjects`. |
| `stack_growth` | 829,421 | Only a function `apply` entered overruns the stack; growth in any call leaves no pointer to the old stack and every handler in reach. |
| `get_dyn_met` | 6,296 | In every table of up to eight methods the wanted label stays between the bounds, the bounds get closer, and the method found is the right one. |

### Bounds

* `zam_control`: 12 words of stack, up to 3 arguments to a call, so functions of up to
  four and partial closures of up to 3, 3 handlers at a time, 2 closures.
  `apply1` to `apply3` all occur, with return frames that follow one another, a
  handler in each of two activations, and three handlers in one; two closures
  tell one environment from another. `wild_raise` needs less, with 2 arguments. The `VIEW`
  of `zam_control` identifies states that differ only in words nobody reads before they are
  written: those above `sp`, and code-pointer words.
* `gc_*`: 8 words and one handler, one closure (kinds tell values apart here). A
  collection needs two words above the program's, and a stale word needs a frame
  popped and another pushed over it: both happen within 8 words.
* `compile`, `gen_shared_arm`: programs of up to about 20 instructions, with fragments
  nested two deep. The passes compare indices of targets with the current index, so
  an error needs a few jumps in a particular order, not long code.
* `read_instructions`: up to three instructions and a last one, every shape with
  targets in both directions, tables of up to three entries.
* `int_ops`: words of five bits, all values of both operands, so all carries into
  and out of the tag and sign bits. Every integer is initial, so two steps reach all
  there is to reach.
* `zam_data`: a definition of three functions over two variables, one closed recursive
  function, two plain ones; sequences of up to seven instructions of one kind, so
  that a function is built, entered through an inner function, reaches its siblings
  and its variables, and is applied in parts, twice over; floats of two words, which
  is where a size in words and a size in floats differ.
* `stack_growth`: a stack that doubles once from the smallest legal size, three
  activations and two handlers, so both can be below and above each other when the stack
  moves; each bound is there to be met (the overrun, the overflow). A second growth moves
  the same pointers the same way; that it leaves none behind is proved, for any number.
* `get_dyn_met`: all tables of up to eight methods over labels of both signs.

### Fairness

`CSpec` of `CodeGen`, which has the steps of `GenModuleCreator` too, assumes weak
fairness of its next-state relation for `Compiles`: passes and generation are loops of
one thread that nothing else runs beside, and always able to take the next step. No other module
assumes fairness: an OCaml program may loop for ever.

## What is proved

`ZamControlProofs` proves for every set of closures, every stack size, every
number of arguments and every number of handlers, from `BoundsAssumption` alone
(the closures are integers, the bounds are natural numbers), that `TypeOK`,
`StackLayout`, `TrapChain`, `ContextChain`, `SavedContexts` and `NativeLockstep`
hold in every reachable state (`TypeCorrect`, `LayoutCorrect`, `TrapChainCorrect`,
`ContextChainCorrect`, `SavedContextsCorrect`, `NativeCorrect`).

None of them is inductive alone. A return sets `sp` and `extra_args` from words of
the stack, so where frames are depends on what was saved in them; and a push leaves
saved words alone because of where frames are. `IInv` is their conjunction with
three facts more: return frames do not overlap (`ReturnFramesOrdered`), which makes
a write in one leave the others alone; what a return restores has the type of the
registers (`SavedTyped`); and a function that starts has no handler or half-made
frame of its own (`FreshEntry`), which the guard of a tail call provides and
`GrabPartial` needs to return. Lemmas for kinds of steps do the work: `SameFrames` for steps that leave the frames
alone, `CallStep` and `ReturnStep` for those that add and remove a return frame,
`DropStep` for those that give back handlers, in order or by a raise. Each action has a
lemma that brings it under one of them. `WritesAbove` gives the action property
`FramesUntouched` (`SavedWordsUntouched`): what a step writes is above every frame
that is still there.

It also proves that `ZamControl` implements `Activations` (`ImplementsActivations`:
`Spec => RefinesActivations`), from the same assumption. `AbsCalls` and
`AbsHandlers` are the records the saved words stand for. `RecordsKept` turns
`FramesUntouched` into "a record whose frame stays is the same record"; `CallPushed`,
`HandlerPushed`, `CallsCut` and `HandlerDropped` say what the steps do to the two sequences;
and the lemmas `IsCall` to `IsStop` recognise the actions of `Activations`. `IInv` says
what the topmost words are: `SavedContexts` that the end of a `try` and a raise find the
registers of the activation that installed the handler, `FreshEntry` that
no handler is in the way of a tail call, `ContextChain` that a raise finds no jump
buffer only when `Activations` has no handler. One fact more is needed, that `Env` is a
closure at the entry of a function (`EnteredByClosure`), and is inductive alone.

The last part of `ZamControlProofs` proves `NothingReadIsDead` (`NothingDead`) and `SavedKinds` (`SavedKindsCorrect`)
of `GcRoots`, from `BoundsAssumption` and `ClosuresAssumption`: a closure is not the word 0,
which `Env` holds only until the first call. `GInv` adds to the two properties the
invariant of `ZamControl`, the types of kinds, `EnteredByClosure`, and `PendKinds`, that a
frame of `PUSH_RETADDR` already holds what `apply` will make a return frame. `Keeps` is all the
proof needs of a collection: the words it scans, and so the registers saved among them,
stay as they are. What is left is that no instruction reads the word of a code pointer,
which may be dead: `OwnedWords`, `LocalWords`, `ReturnWord` and `HandlerWord` derive it from where
`StackLayout` says the frames are. `GStep` is the step that leaves the words up to some place
alone, and every action is brought under it.

`GetDynMetProofs` proves, for tables of any size whose labels increase
(`TablesAssumption`), that the wanted label stays between the bounds
(`NeverLost`), that the method found is the right one (`RightMethod`), and that each
turn of the loop narrows the bounds (`AlwaysNarrows`). The invariant says the bounds are the
words `2a + 1` and `2b + 1` of labels `a` and `b` with the wanted one between
them; `MiddleIsALabel` is the arithmetic of `((li + hi) >> 1) | 1`.

`StackGrowthProofs` proves, for all sizes of stacks, frames and thresholds within
`StackAssumption` (a frame and what the runtime adds to it fit below the threshold,
and the first stack is not smaller), that `TypeOK`, `OverrunsUnchecked`,
`PointersCurrent` and `TrapLinks` hold in every reachable state. The invariant says
how frames lie in relation to each other: a frame ends below the next return
frame (`Nested`), handlers lie in the frame of their activation and apart
(`InFrames`), an activation that found room has it still (`Room`, as stacks only
grow), and the running function's pointer is in its frame above all handlers (`Fits`).
`OverrunsUnchecked` follows from `Room` and `Fits`, and that a raise leaves the pointer
in the frame of the activation it returns to from `InFrames`. The lemmas `Entered`, `ReplacedTop`, `LeftActs`,
`HandlerInFrame` and `HandlerLeft` say what a call, a tail call, a return, a handler and
a raise do to that layout, the `Chain` lemmas what they and growth do to the links.

`ZamDataProofs` proves that the words of the heap parse (`HeapAlwaysParses`) and that
`Env` is at the closure of the code that runs (`EnvAlwaysMatchesCode`), for every set of
definitions, programs, constants and sizes. Neither is inductive: a closure that is entered
was built, stored, loaded and perhaps applied in parts before. `ZInv` says of every word of
the heap, the stack, the globals and the registers that it is a value (`ValueIn`: an integer, the
start of a block, or a function in a block of functions), and of every block with the tag of a
closure that it holds the words of a definition, which never change, or a partial application
of one (`IsFunctions`, `IsPartial`). `Grows` is what all instructions do to the heap: blocks are
added, and only those that are no closures are written to; each kind of thing `ZInv` speaks
of is kept by it (the `...Grows` lemmas). The assumptions on constants say what the compiler
and the linker put there: a literal is not a closure and has words of its tag's kind
(`LiteralsAssumption`), no `MAKEBLOCK` makes a closure, characters are bytes
(`OperandsAssumption`).

It proves `RefinesOCamlObjects` too, from `ZInv` and `Atoms` (the block of `Atom(0)` stays the
only empty one with tag 0, so that an atom can be told by what it holds). `ValueOf`, `ObjectIn`
and `ObjectsIn` are the mapping for any heap; what `Grows` allows changes no value (`ValueOfGrows`),
and of the objects none but the one that is written to (`ObjectGrows`, `ObjectsAppend`,
`ObjectsStore`). `ReadStep`, `MakesRefStep`, `FunctionsMade` and `WritesStep` turn reading, making
and writing blocks into `Reads`, `Makes` and `Writes` of `OCamlObjects`, and every instruction is
brought under one of them in a lemma of its own (`ConstIntStep` to `RestartStep`). The work is in the arithmetic the mapping
hides: where the free variables of a function and its siblings are, seen from the middle of the
block (`EnvAccStep`, `OffsetClosureStep`), which words are item `i` of an array of floats
(`FloatItem`, `FloatWritten`), and that the arguments `RESTART` unpacks, with those of the call
behind them, are the ones `createRestartClosure` put away (`CallsSame`).

`GenModuleCreatorProofs` proves about the passes, for every set of programs that are
well-formed and laid out as ocamlc does it (`ProgramsAssumption`), that `TypeOK`, `FunctionsWhole`,
`InitOnce` and `ClosuresHaveCode` hold in every reachable state, and `StraightLine` and
`EdgesRight` if no function is without a reference (`NoDeadCode`). `LaidOut` says what is
needed of the layout: nothing runs into a function; a function is one piece that
its jumps do not leave; it is named by a closure behind the last jump to it (so that the
annotation `annotateNodes` leaves is the function's); and a `try` body does not run into a
label. Without `NoDeadCode` the two may fail (see below); `compile` checks them on
programs with dead functions in which they do not. `GInv` is the invariant, a conjunct for each
pass: the annotations are those of the targets seen (`Annotations`); every function start is
ahead in the queue or has been made (`Covered`); the instructions taken so far are a
piece of the program that ends below every end the function can have (`Taken`); what is left to
the main code never runs on into what is missing (`LeftToMain`), nor after dead instructions are
dropped (`Sifting`); and the blocks that are made are whole, with the block that is being filled
excepted (`Filling`, `BlockWhole`, `BlockStraight`), which stays so when blocks without
predecessors go (`Pruning`). That `initFunction` keeps all targets is proved for functions
(`TargetsKeptInFunctions`); for the main code `TargetsKeptIfHighest` stays with TLC, as a match
before the target of the first conditional breaks it.

`CodeGenProofs` proves about the generator, for the same programs, `GeneratedOnce`, and if no function
is without a reference `CTypeOK`, `OneTerminator`, `EntersAtFront`, `InPlace` and `HandlersEntered`. It assumes one
thing more of ocamlc's layout (`JumpsAssumption`): only the test that ends a loop jumps back, and every `try`
has a handler of its own. (A second `PUSHTRAP` with the same handler would put a second entry
into it, and a `PUSHTRAP` that goes back would put one behind code.) The properties speak of the finished code; the
invariant has to say what the code looks like in the middle, with several functions half
done. `Frames` is about the recursion: the calls of `CodeGen` that are open are of different functions; each, but
for the topmost, waits at a closure whose function the next one is; and what a call has passed is asked
for, so `EachGeneratedOnce` follows when none is open. `Separate` and `Neat` restate what the
passes have made of a function: its blocks are disjoint runs of the program, and every edge leads to
one of them. `Texts` is about the code. `BlockText(p, f, G, b, t, x, k)` says what the text `t` of block `b` is when
its function is at instruction `k` of block `x`: the code of the instructions before
that place and no other, in order (`Coded`); all LLVM blocks closed, but the last while
the block is worked on or not begun (`Shaped`, `IsOpen`); branches to fronts of blocks of the function,
or forward in the same block (`Aimed`); an entry at the front of the handlers of those `PUSHTRAP`s that have
been passed (`Entered`, `Handled`). That a handler is untouched when its `PUSHTRAP` comes (`HandlerFresh`) is
where `JumpsAssumption` is used, as blocks are generated in increasing order. `ExtendCoded` and its
neighbours say what appending to a text does to each part, `AddsPlain` to `AddsTrap` what each kind of instruction
appends, and every action is brought under them (`EmitPlainText` to `EndBlockText`). `GenerateText` is the step that
moves the insertion point into another function; it leaves the texts of the open calls alone because these are of
other functions (`Frames`).

`ReadInstructionsProofs` proves `TypeOK`, `CursorsAgree`, `RoundTrip` and `SwitchReaches` for every set of
files that are `Encoded`: programs and tables of any length. `RInv` says that the instructions read so far are
those of the program, with positions in place of indices in the ones that wait in `InstsToAdjust`
(`ReadSoFar`); that no instruction waits twice (`ToAdjustOnce`), as a second turn would take an index for a
position; and that the next instruction is behind all earlier ones (`AtNext`), so that filing it
overwrites no position (`PositionsNamed`). `InstructionRead` is about one turn of the loop: what it takes
out of the file is the instruction that was compiled, and both cursors are advanced by its length.
`TargetsResolved` is about one adjustment. `SwitchCorrect` needs `PackedCounts`, about the two halves of an operand.

`IntOpsProofs` proves for words of every width above two bits (`WordAssumption`) that `Accu` and the
top of the stack stay tagged (`TagsCorrect`), which is inductive alone once each instruction is known to
leave a tagged word, and that `IntOps` implements `OCamlInts` (`ImplementsOCamlInts`): `StepRight` brings every
step under the one of `OCamlInts` it stands for. The integer that a tagged word stands for is `n` iff the word
is `2n + 1` modulo `2^W` (`ValLongIs`), so instructions that only add, subtract or multiply are
right because residues are (`Congruent`, `AddRight` to `MulRight`, `LslRight`), and `WrapRight` says that wrapping the word
wraps the integer. The order of tagged words is that of the integers, signed and unsigned (`OrderKept`,
`Signs`). For `&`, `|` and `^` it takes that a word is made by its bits: two words with the same bits are the same
(`SameBits`), and there is a word for any choice of bits (`WordOfBits`). Both are inductions on the number of
bits, which the theorems of the library cannot be used for (they take an operator); `SetInduction` is
the principle for a set, from the least element a well-founded order gives. That `2^n` is a natural number
and `2^(n + 1)` twice as much, which no solver here knows of a variable exponent, comes from counting
the subsets of a set with `n` elements (`Subsets`, `PowerNatural`, `PowerNext`).

That the compiler ends is proved in the part a prover can state. `Work` is what is left to do, six natural
numbers with the most important first. For the passes they are which pass it is, how much of the program or of the main code is
ahead of it, how far the function at hand is, and how many of its instructions or blocks are left; for the generator, the
functions without code, the calls of `CodeGen` that are open, and the blocks, instructions and closures
ahead in the innermost of them. Every step lowers `Work` (`WorkShrinks`: a recursive call opens a call but makes a
function, a block without predecessors that is removed restarts the pass with fewer blocks), and nothing in this order gets
less for ever (`DownwardEnds`, a fact about the order alone), so every run is finite, for every program. That last
step, from a measure that falls to a run that ends, is an argument and not a theorem: no prover here does induction
on a value within a behaviour. A run ends with code for all of it, or at a null block; for programs whose
switches have their highest entry last, the null block can only be met in the main code (`FunctionsNeverCrash`, from
`Listed`, which says that the targets of a function's instructions are among them when blocks are made, and
`TargetsHaveBlocks`, which keeps it until the edges are set).

Only model-checked: liveness (`Compiles`), which is out of the proof system's reach: that a step
remains possible until the end, and that under fairness it is taken. `TargetsKeptIfHighest` for the main code stays with
TLC too.

## Where the code does something else

Four runs expect a violation.

* `wild_raise`: after the outermost handler is gone, `caml_external_raise` is not
  `NULL` but the address of a field of a null `JmpBufList` (`CStdLib.c:229`); a
  primitive that raises then jumps through it. The condition is: at least one
  handler was installed and given back, and no handler is installed now.
* `gen_shared_arm`: `initFunction` looks at the last switch entry only
  (`GenModuleCreator.cpp:99`); when an arm is shared, as in `A -> 1 | B -> 2 | C -> 1`, the
  last is not the highest, and a `RETURN` before the highest arm ends the function.
  `compile` has these programs too (`TargetsKeptIfHighest` excepts them).
* `gc_stale_word`: `apply1`, `apply2` and `pushTrap` move `StackPointer` over the word of the
  code pointer without writing it. If it holds a pointer from before a collection, a later collection
  follows it. (`apply3` does not write it either, but there it still holds the first argument.)
* `gc_dead_roots`: nobody resets `caml_local_roots` after a primitive with local roots
  has raised.

Others that reading the code shows, and that have no run:

* an uncaught OCaml exception ends in `exit(0)` without a message (`CStdLib.c:236`;
  in the model `status = "exit0"`);
* `Buffers` has 2048 entries and `getNewBuffer` does not count them (`CStdLib.c:189`);
  the model bounds handlers by `MaxTraps`;
* `ClosureRecFns` has 32 and `readInstructions` does not count them
  (`Instructions.cpp:46`); the model has programs within that;
* `divInt` and `modInt` do not test for zero (`CStdLib.c:395`): the process gets
  `SIGFPE` where OCaml raises `Division_by_zero`. `IntOps` has the trap as a value
  of `signal`, and the refinement takes it for the exception;
* `C_CALLN` passes its operands in the other order than `c_calln` takes them
  (`GenBlock.cpp:445`, `CStdLib.c:699`);
* `apply`, for four and more arguments, does not check the stack (`CStdLib.c:521`):
  `OverrunsUnchecked` says that nothing else leads below the low end;
* a function no closure refers to, behind one that is referred to, is added to the block of
  the branch around the functions of the unit (`GenModuleCreator.cpp:152`). ocamlc leaves such a
  function when it has compiled it and then drops the `CLOSURE` as dead. The function before
  it is taken out, its own first instruction starts no block, and a conditional in a unit linked
  before keeps `removeDeadInstructions` from taking it out. Code then follows the
  terminator of an LLVM block, which `verifyFunction` rejects, but its result is not looked at.
  The proof of `StraightLine` led here: it does not go through without `NoDeadCode`. With
  `Programs <- MCDeadFunction` in `CodeGen.cfg`, TLC finds `StraightLine` and `OneTerminator`
  violated.
* a match or a while loop in the main code before the target of the first conditional jump is taken
  apart by `removeDeadInstructions` (`GenModuleCreator.cpp:14`), and a function without
  a reference after one stays in the main code behind a branch.

## What is not modelled

* `C_CALLN`: with its operands swapped it calls another primitive with another number of
  arguments, and no guard could say which of them are legal.
* `CodeGen.hpp` and `GenModule.cpp`: declarations, the table of runtime functions and
  their printing.
* LLVM's passes, the JIT, the OCaml runtime and its collector: external. Callbacks
  from C into OCaml are not supported by the code.
* The driver, `SimpleContext`, `zsi`: read a file and call the parts in turn.
* `addExceptionContext`, which nothing calls.

## Plan

In this order; the modules above are steps 1 to 10.

1. `ZamControl`, `Activations`, with the inductive invariant proved. Done.
2. `GenModuleCreator`. Done.
3. `CodeGen`, composed with it. Done.
4. `GcRoots`, composed with `ZamControl`. Done.
5. `IntOps` against `OCamlInts`, `ReadInstructions` against ocamlc's encoding, both proved. Done.
6. `GetDynMet`, proved. Done.
7. `ZamData` against `OCamlObjects`, proved. Done.
8. `StackGrowth`, proved. Done.
9. `RefinesActivations` proved from `IInv`. Done.
10. `NothingReadIsDead` and `SavedKinds` proved from `IInv`. Done.
11. The invariants of `GenModuleCreator` proved from `GInv`, those of `CodeGen` from `Generated`. Done.
12. Composition of `ZamData` with the collections of `GcRoots`, so that kinds of words become
   the blocks they point to.
