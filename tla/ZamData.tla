------------------------------ MODULE ZamData ------------------------------
(***************************************************************************)
(* The data instructions of the ZAM on the words of the heap, as           *)
(* src/StdLib/CStdLib.c runs them: blocks and their fields, closures with  *)
(* several functions in one block, partial applications, arrays, floats,   *)
(* strings, globals.                                                       *)
(*                                                                         *)
(* A function does not know where its block begins: Env points into the    *)
(* middle of it, and ocamlc's operands are distances from there.  Calls    *)
(* are here for what they do to closures and arguments; return frames are  *)
(* in ZamControl, and collections in GcRoots.                              *)
(***************************************************************************)
EXTENDS Integers, Sequences

CONSTANTS
  Definitions,     \* of functions: [arity : their arities, vars : Nat, rec : BOOLEAN]
  Programs,        \* [instructions : those it consists of, length : bound, how many it runs]
  Literals,        \* the heap a program starts with
  Tags,            \* tags of MAKEBLOCK
  Consts,          \* operands of CONSTINT and OFFSETREF
  Chars,           \* characters
  Double_wosize,   \* words of a float: 1, or 2 on a 32-bit machine
  Locals,          \* integers on the stack at the start
  MaxStack,        \* bound: words of the stack
  MaxBlocks        \* bound: blocks of the heap

ASSUME DefinitionsAssumption ==
  /\ Definitions \in Seq([arity : Seq(Nat), vars : Nat, rec : BOOLEAN])
  /\ \A d \in DOMAIN Definitions : LET D == Definitions[d] IN
       D.arity # <<>> /\ (~D.rec => Len(D.arity) = 1)
ASSUME WosizeAssumption == Double_wosize \in {1, 2}

VARIABLES
  program,
  ran,       \* instructions it has run
  inst,      \* the one that ran last, with operands as ocamlc's source counts them
  heap,      \* blocks: [tag, fields]
  Accu, Env, stack,    \* StackPointer[i] is stack[i + 1]
  caml_global_data,
  running    \* the code that runs: <<definition, function>>, or TOPLEVEL

vars == <<program, ran, inst, heap, Accu, Env, stack, caml_global_data, running>>

\* Words; an address of code is a function's, or that of its restart function
Val_long(n)   == <<"int", n, 0>>
Ptr(b, o)     == <<"ptr", b, o>>          \* to field o of block b
Code(d, k)    == <<"code", d, k>>
Restart(d, k) == <<"restart", d, k>>
Hdr(o)        == <<"hdr", o, 0>>          \* Make_header(o, Infix_tag, ...)
Dbl(x, h)     == <<"dbl", x, h>>          \* word h of a float
Byte(c)       == <<"byte", c, 0>>
Val_unit      == Val_long(0)
Val_bool(b)   == Val_long(IF b THEN 1 ELSE 0)
Long_val(w)   == w[2]
TOPLEVEL      == <<0, 0>>

Closure_tag == 247
String_tag == 252
Double_tag == 253
Double_array_tag == 254

Word == {"int", "ptr", "code", "restart", "hdr", "dbl", "byte"} \X Int \X Int

\* Constants are data: strings, floats, and blocks of constants; a closure is not
\* one.  The first block is Atom(0), the only one, the second the global of the
\* program.
ASSUME LiteralsAssumption ==
  /\ Literals \in Seq([tag : Nat, fields : Seq(Word)]) /\ Len(Literals) >= 2
  /\ \A b \in DOMAIN Literals : LET L == Literals[b] IN
       /\ b = 1 <=> L = [tag |-> 0, fields |-> <<>>]
       /\ L.tag # Closure_tag
       /\ L.tag = Double_tag => Len(L.fields) = Double_wosize
       /\ \A f \in DOMAIN L.fields :
            CASE L.tag \in {Double_tag, Double_array_tag} -> L.fields[f][1] = "dbl"
              [] L.tag = String_tag -> L.fields[f][1] = "byte"
              [] OTHER -> \/ L.fields[f][1] = "int"
                          \/ \E c \in DOMAIN Literals : L.fields[f] = Ptr(c, 0)
ASSUME OperandsAssumption ==
  Tags \subseteq 0 .. Closure_tag - 1 /\ Consts \subseteq Int /\ Chars \subseteq 0..255
ASSUME BoundsAssumption == Locals \in Nat /\ MaxStack \in Nat /\ MaxBlocks \in Nat

IsPtr(w)     == w[1] = "ptr"
Fields(p)    == heap[p[2]].fields
Tag_val(p)   == heap[p[2]].tag
Field(p, i)  == Fields(p)[p[3] + i + 1]
Wosize(p)    == Len(Fields(p))
IsBlock(w)   == IsPtr(w) /\ Tag_val(w) < Closure_tag
Is(w, tag)   == IsPtr(w) /\ Tag_val(w) = tag
IsArray(w)   == IsBlock(w) \/ Is(w, Double_array_tag)
StackPointer(i) == stack[i + 1]
Drop(s, n)   == SubSeq(s, n + 1, Len(s))

\* The program runs an instruction it has.
Runs(name, a, b) ==
  /\ name \in program.instructions /\ ran < program.length
  /\ program' = program /\ ran' = ran + 1 /\ inst' = <<name, a, b>>
Holds(n)         == Len(stack) >= n

Result(w, rest) == Accu' = w /\ stack' = rest /\ UNCHANGED <<Env, caml_global_data, running>>
Read(w, rest)   == heap' = heap /\ Result(w, rest)
Alloc(tag, fields, rest) ==
  /\ Len(heap) < MaxBlocks
  /\ heap' = Append(heap, [tag |-> tag, fields |-> fields])
  /\ Result(Ptr(Len(heap) + 1, 0), rest)
\* Modify and Store_double_field: words from field i of Accu's block on
Store(i, words, rest) ==
  /\ heap' = [heap EXCEPT ![Accu[2]].fields =
                [f \in DOMAIN @ |-> IF f \in i + 1 .. i + Len(words) THEN words[f - i] ELSE @[f]]]
  /\ Result(Val_unit, rest)

-----------------------------------------------------------------------------
Init ==
  /\ program \in Programs /\ ran = 0 /\ inst = <<"start", 0, 0>>
  /\ heap = Literals
  /\ Accu = Val_unit /\ Env = Val_unit
  /\ stack = [n \in 1..Locals |-> Val_long(n - 1)]
  /\ caml_global_data = <<Val_unit, Ptr(2, 0)>>
  /\ running = TOPLEVEL

constInt(n) == Runs("const", n, 0) /\ Read(Val_long(n), stack)
push        == Runs("push", 0, 0) /\ Len(stack) < MaxStack /\ Read(Accu, <<Accu>> \o stack)
pop(n)      == Runs("pop", n, 0) /\ Holds(n) /\ Read(Accu, Drop(stack, n))
acc(n)      == Runs("acc", n + 1, 0) /\ Holds(n + 1) /\ Read(StackPointer(n), stack)
assign(n)   == /\ Runs("assign", n + 1, 0) /\ Holds(n + 1)
               /\ Read(Val_unit, [stack EXCEPT ![n + 1] = Accu])
isInt       == Runs("isint", 0, 0) /\ Read(Val_bool(~IsPtr(Accu)), stack)
boolNot     == /\ Runs("not", 0, 0) /\ Accu \in {Val_bool(FALSE), Val_bool(TRUE)}
               /\ Read(Val_long(1 - Long_val(Accu)), stack)

-----------------------------------------------------------------------------
(* Closures *)

\* The values a definition closes over: Accu, pushed if there are any, and the
\* words below it
Captured(D) == IF D.vars > 0 THEN <<Accu>> \o stack ELSE stack

closure(d) ==
  LET D == Definitions[d] IN
    /\ Runs("define", d, 0) /\ ~D.rec /\ Len(Captured(D)) >= D.vars
    /\ Alloc(Closure_tag, <<Code(d, 1)>> \o SubSeq(Captured(D), 1, D.vars),
             Drop(Captured(D), D.vars))

\* Mutant: the infix header holds the number of the function.
FunctionWords_header_of_index(d) ==
  [i \in 1..2 * Len(Definitions[d].arity) - 1 |->
     IF i % 2 = 1 THEN Code(d, (i + 1) \div 2) ELSE Hdr(i \div 2)]

\* setClosureRecNestedClos: function Idx at field 2 * Idx, its header before it
FunctionWords(d) ==
  [i \in 1..2 * Len(Definitions[d].arity) - 1 |->
     IF i % 2 = 1 THEN Code(d, (i + 1) \div 2) ELSE Hdr(i)]

\* closureRec, and setClosureRecNestedClos for each function but the first
closureRec(d) ==
  LET D   == Definitions[d]
      fns == Len(D.arity)
      new == Len(heap) + 1
  IN /\ Runs("define", d, 0) /\ D.rec /\ Len(Captured(D)) >= D.vars
     /\ Len(stack) + fns <= MaxStack
     /\ Alloc(Closure_tag, FunctionWords(d) \o SubSeq(Captured(D), 1, D.vars),
              [k \in 1..fns |-> Ptr(new, 2 * (fns - k))] \o Drop(Captured(D), D.vars))

\* The code that runs, as ocamlc knows it: its definition and place there
D_ == Definitions[running[1]]
k_ == running[2]

\* ENVACC n; ocamlc counts the fields from the function's own place in the block.
EnvOperand(v) == 2 * (Len(D_.arity) - k_) + v
envAcc(v) ==
  /\ Runs("free", v, 0) /\ running # TOPLEVEL /\ v <= D_.vars
  /\ Read(Field(Env, EnvOperand(v)), stack)

\* OFFSETCLOSURE n, towards the j-th function of the definition
OffsetOperand(j) == 2 * (j - k_)
offsetClosure(j) ==
  /\ Runs("function", j, 0) /\ running # TOPLEVEL /\ j \in DOMAIN D_.arity
  /\ Read(Ptr(Env[2], Env[3] + OffsetOperand(j)), stack)

\* Mutant: RESTART puts the arguments back in the opposite order.
restart_reversed(p, args) ==
  LET n == Wosize(p) - 2 IN [i \in 1..n |-> Field(p, n + 2 - i)] \o args

\* The arguments RESTART finds in the block of a partial application
restart(p, args) == SubSeq(Fields(p), 3, Wosize(p)) \o args

\* Mutant: RESTART leaves Env at the partial application.
CalledEnv_not_reloaded == Accu

\* A call of Accu with n arguments: the code in its first word, after RESTART if
\* that is a restart function
IsRestart    == Field(Accu, 0)[1] = "restart"
CalledEnv    == IF IsRestart THEN Field(Accu, 1) ELSE Accu
Arguments(n) == IF IsRestart THEN restart(Accu, SubSeq(stack, 1, n)) ELSE SubSeq(stack, 1, n)
CalledCode == <<Field(Accu, 0)[2], Field(Accu, 0)[3]>>
checkGrab(n) == Len(Arguments(n)) >= Definitions[CalledCode[1]].arity[CalledCode[2]]

\* In tail position, with enough arguments for GRAB
Enter(n) ==
  /\ Runs("apply", n, 0) /\ Holds(n) /\ Is(Accu, Closure_tag) /\ checkGrab(n)
  /\ Len(Arguments(n)) <= MaxStack
  /\ Env' = CalledEnv /\ stack' = Arguments(n) /\ running' = CalledCode
  /\ UNCHANGED <<heap, Accu, caml_global_data>>

\* With too few: createRestartClosure pops them and returns to the caller.
createRestartClosure(n) ==
  /\ Runs("apply", n, 0) /\ Holds(n) /\ Is(Accu, Closure_tag) /\ ~checkGrab(n)
  /\ Alloc(Closure_tag,
           <<Restart(CalledCode[1], CalledCode[2]), CalledEnv>> \o Arguments(n), Drop(stack, n))

-----------------------------------------------------------------------------
(* Blocks; ocamlc gives each instruction what it is for. *)

getAtom == Runs("atom", 0, 0) /\ Read(Ptr(1, 0), stack)

\* makeBlock1, makeBlock2, makeBlock3 and makeBlock
makeBlock(tag, wosize) ==
  /\ Runs("block", wosize, tag) /\ Holds(wosize - 1)
  /\ Alloc(tag, <<Accu>> \o SubSeq(stack, 1, wosize - 1), Drop(stack, wosize - 1))

getField(i) == Runs("item", i + 1, 0) /\ IsBlock(Accu) /\ i < Wosize(Accu) /\ Read(Field(Accu, i), stack)
setField(i) == /\ Runs("setitem", i + 1, 0) /\ IsBlock(Accu) /\ i < Wosize(Accu) /\ Holds(1)
               /\ Store(i, <<StackPointer(0)>>, Drop(stack, 1))
offsetRef(n) ==
  /\ Runs("add", n, 0) /\ IsBlock(Accu) /\ Wosize(Accu) > 0 /\ ~IsPtr(Field(Accu, 0))
  /\ Long_val(Field(Accu, 0)) + n < MaxBlocks
  /\ Store(0, <<Val_long(Long_val(Field(Accu, 0)) + n)>>, stack)

vectLength ==
  /\ Runs("length", 0, 0) /\ IsArray(Accu)
  /\ Read(Val_long(IF Is(Accu, Double_array_tag) THEN Wosize(Accu) \div Double_wosize
               ELSE Wosize(Accu)), stack)

\* The index on top of the stack was checked against the length.
IndexIn(n) == Holds(1) /\ ~IsPtr(StackPointer(0)) /\ Long_val(StackPointer(0)) \in 0 .. n - 1
getVectItem ==
  /\ Runs("get", 0, 0) /\ IsBlock(Accu) /\ IndexIn(Wosize(Accu))
  /\ Read(Field(Accu, Long_val(StackPointer(0))), Drop(stack, 1))
setVectItem ==
  /\ Runs("set", 0, 0) /\ IsBlock(Accu) /\ IndexIn(Wosize(Accu)) /\ Holds(2)
  /\ Store(Long_val(StackPointer(0)), <<StackPointer(1)>>, Drop(stack, 2))

getMethod ==
  /\ Runs("method", 0, 0) /\ ~IsPtr(Accu) /\ Holds(1)
  /\ IsBlock(StackPointer(0)) /\ Wosize(StackPointer(0)) > 0
  /\ LET table == Field(StackPointer(0), 0) IN
       /\ IsBlock(table) /\ Long_val(Accu) \in 0 .. Wosize(table) - 1
       /\ Read(Field(table, Long_val(Accu)), stack)

-----------------------------------------------------------------------------
(* Floats and strings *)

Words(x)        == [h \in 1..Double_wosize |-> Dbl(x, h)]
Double_val(p)   == Fields(p)[1][2]
Double_field(p, i) == Fields(p)[i * Double_wosize + 1][2]
FloatArray(n)   == Is(Accu, Double_array_tag) /\ n < Wosize(Accu) \div Double_wosize

makeFloatBlock(n) ==
  LET items == <<Accu>> \o SubSeq(stack, 1, n - 1) IN
    /\ Runs("floats", n, 0) /\ Holds(n - 1) /\ \A i \in 1..n : Is(items[i], Double_tag)
    /\ Alloc(Double_array_tag,
             [w \in 1 .. n * Double_wosize |->
                Dbl(Double_val(items[(w - 1) \div Double_wosize + 1]),
                    ((w - 1) % Double_wosize) + 1)],
             Drop(stack, n - 1))
getDoubleField(i) ==
  /\ Runs("float", i + 1, 0) /\ FloatArray(i)
  /\ Alloc(Double_tag, Words(Double_field(Accu, i)), stack)
storeDoubleField(i) ==
  /\ Runs("setfloat", i + 1, 0) /\ FloatArray(i) /\ Holds(1) /\ Is(StackPointer(0), Double_tag)
  /\ Store(i * Double_wosize, Words(Double_val(StackPointer(0))), Drop(stack, 1))

getStringChar ==
  /\ Runs("char", 0, 0) /\ Is(Accu, String_tag) /\ IndexIn(Wosize(Accu))
  /\ Read(Val_long(Long_val(Field(Accu, Long_val(StackPointer(0))))), Drop(stack, 1))
setStringChar ==
  /\ Runs("setchar", 0, 0) /\ Is(Accu, String_tag) /\ IndexIn(Wosize(Accu)) /\ Holds(2)
  /\ StackPointer(1) \in {Val_long(c) : c \in Chars}
  /\ Store(Long_val(StackPointer(0)), <<Byte(Long_val(StackPointer(1)) % 256)>>, Drop(stack, 2))

-----------------------------------------------------------------------------
(* Globals and primitives *)

getGlobal(g) == Runs("global", g, 0) /\ Read(caml_global_data[g], stack)
getGlobalField(g, i) ==
  /\ Runs("globalfield", g, i + 1) /\ IsBlock(caml_global_data[g]) /\ i < Wosize(caml_global_data[g])
  /\ Read(Field(caml_global_data[g], i), stack)
setGlobal(g) ==
  /\ Runs("setglobal", g, 0)
  /\ caml_global_data' = [caml_global_data EXCEPT ![g] = Accu]
  /\ UNCHANGED <<heap, Accu, Env, stack, running>>

\* While a primitive runs the word of Env is on top: its arguments are Accu and
\* the words from StackPointer[1] on.
PrimArgs(n) == LET during == <<Env>> \o stack IN <<Accu>> \o SubSeq(during, 2, n)

\* c_call1 to c_call5 of a primitive that returns its arguments in a block
c_call(n) ==
  /\ Runs("tuple", n, 0) /\ Holds(n - 1)
  /\ Alloc(0, PrimArgs(n), Drop(stack, n - 1))

\* c_call1 of one that boxes a float
BoxFloat ==
  /\ Runs("box", 0, 0) /\ ~IsPtr(Accu)
  /\ Alloc(Double_tag, Words(Long_val(Accu)), stack)

-----------------------------------------------------------------------------
Sizes == 0..MaxStack     \* operands an instruction may have

Next ==
  \/ push \/ isInt \/ boolNot \/ getAtom \/ vectLength \/ getVectItem \/ setVectItem
  \/ getMethod \/ getStringChar \/ setStringChar \/ BoxFloat
  \/ \E n \in Consts : constInt(n) \/ offsetRef(n)
  \/ \E d \in DOMAIN Definitions : closure(d) \/ closureRec(d)
  \/ \E n \in Sizes : \/ acc(n) \/ assign(n) \/ getField(n) \/ setField(n)
                      \/ getDoubleField(n) \/ storeDoubleField(n)
  \/ \E n \in Sizes \ {0} : \/ pop(n) \/ envAcc(n) \/ offsetClosure(n)
                            \/ Enter(n) \/ createRestartClosure(n)
                            \/ makeFloatBlock(n) \/ c_call(n)
                            \/ \E tag \in Tags : makeBlock(tag, n)
  \/ \E g \in DOMAIN caml_global_data :
       getGlobal(g) \/ setGlobal(g) \/ \E i \in Sizes : getGlobalField(g, i)

Spec == Init /\ [][Next]_vars

-----------------------------------------------------------------------------
(* Every pointer is one the collector can follow: to the first field of a
   block, or behind an infix header that gives its distance from there.  No
   register, stack word or field holds a header, a piece of a float or string, or
   the address of code where a value belongs, wherever closures were built,
   taken apart or applied. *)
ValueOK(w) ==
  \/ w[1] = "int"
  \/ /\ IsPtr(w) /\ w[2] \in DOMAIN heap
     /\ w[3] = 0 \/ (Is(w, Closure_tag) /\ w[3] < Wosize(w) /\ Fields(w)[w[3]] = Hdr(w[3]))

FieldKinds(b) ==
  CASE heap[b].tag = Double_tag \/ heap[b].tag = Double_array_tag -> {"dbl"}
    [] heap[b].tag = String_tag -> {"byte"}
    [] heap[b].tag = Closure_tag -> {"int", "ptr", "code", "restart", "hdr"}
    [] OTHER -> {"int", "ptr"}

HeapParses ==
  /\ ValueOK(Accu) /\ ValueOK(Env)
  /\ \A n \in DOMAIN stack : ValueOK(stack[n])
  /\ \A g \in DOMAIN caml_global_data : ValueOK(caml_global_data[g])
  /\ \A b \in DOMAIN heap : \A f \in DOMAIN heap[b].fields :
       LET w == heap[b].fields[f] IN w[1] \in FieldKinds(b) /\ (w[1] = "ptr" => ValueOK(w))

(* Env is at the code that runs, and so ocamlc's distances are taken from the
   right place: after tail calls between functions of one block, through
   closures fetched from data, and after RESTART took Env from a block. *)
EnvMatchesCode == running # TOPLEVEL => Field(Env, 0) = Code(running[1], running[2])

-----------------------------------------------------------------------------
(* The data of the program: what OCamlObjects says of each instruction. *)
Value(w) ==
  IF ~IsPtr(w) THEN w
  ELSE IF Is(w, Closure_tag) /\ Fields(w)[1][1] = "code" THEN <<"fn", w[2], w[3] \div 2 + 1>>
  ELSE <<"ref", w[2], 0>>
Values(s) == [i \in DOMAIN s |-> Value(s[i])]

Floats(s) == [i \in 1 .. Len(s) \div Double_wosize |-> s[(i - 1) * Double_wosize + 1][2]]
Bytes(s)  == [i \in DOMAIN s |-> s[i][2]]

ObjectOf(b) ==
  LET w == heap[b].fields
      object(kind, items, of) == [kind |-> kind, items |-> items, of |-> of]
      fns(d) == 2 * Len(Definitions[d].arity) - 1
  IN CASE heap[b].tag = Double_tag       -> object("float", Floats(w), Val_unit)
       [] heap[b].tag = Double_array_tag -> object("floats", Floats(w), Val_unit)
       [] heap[b].tag = String_tag       -> object("string", Bytes(w), Val_unit)
       [] heap[b].tag = Closure_tag      ->
            IF w[1][1] = "code"
            THEN object("functions", Values(Drop(w, fns(w[1][2]))), <<"definition", w[1][2], 0>>)
            ELSE object("partial", Values(Drop(w, 2)), Value(w[2]))
       [] OTHER -> object("block", Values(w), Val_long(heap[b].tag))

Objects == INSTANCE OCamlObjects WITH
  objects <- [b \in DOMAIN heap |-> ObjectOf(b)],
  accu <- Value(Accu), self <- Value(Env), locals <- Values(stack),
  globals <- Values(caml_global_data)

(* Words of blocks, infix headers, operands counted from the middle of a block
   and arguments stored and put back implement values, shared definitions and
   applications. *)
RefinesOCamlObjects == Objects!Spec
=============================================================================
