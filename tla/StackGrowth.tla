---------------------------- MODULE StackGrowth ----------------------------
(***************************************************************************)
(* Room on the OCaml stack: which calls look for it, how the stack is      *)
(* moved when there is too little, and who holds pointers into it.         *)
(*                                                                         *)
(* The stack grows downwards from caml_stack_high.  A pointer is the       *)
(* allocation it points into and its depth, the words between it and the   *)
(* high end; caml_realloc_stack moves the words to a new allocation, where *)
(* they keep their depth, and frees the old one.  ocamlc bounds what a     *)
(* function pushes by Frame words, and lets one that needs more begin with *)
(* caml_ensure_stack_capacity.  The values are in ZamControl and ZamData.  *)
(***************************************************************************)
EXTENDS Integers, Sequences

CONSTANTS
  Stack_threshold,   \* in words
  Frame,             \* words a function may push without asking for them
  Margin,            \* words beyond these that the runtime may push for itself
  InitSize,          \* words of the first stack
  Sizes,             \* those doubling it can give, up to the first at caml_max_stack_size
  Large,             \* operands of caml_ensure_stack_capacity
  MaxCalls,          \* bound: activations at the same time
  MaxTraps           \* bound: handlers

ASSUME StackAssumption ==
  /\ Stack_threshold \in Nat /\ Frame \in Nat /\ Margin \in Nat /\ InitSize \in Nat
  /\ Margin >= 3 /\ Frame + Margin <= Stack_threshold /\ Stack_threshold <= InitSize
  /\ Sizes \subseteq Nat /\ MaxCalls \in Nat /\ MaxTraps \in Nat
  /\ Large \subseteq Nat /\ \A r \in Large : r > Stack_threshold

VARIABLES
  block,          \* which allocation the stack is in
  size,           \* its words: caml_stack_high - caml_stack_low
  StackPointer,
  caml_trapsp,
  links,          \* Trap_link of each trap frame, by its depth
  status,         \* "running", "overrun" (below caml_stack_low), "stopped" or "fatal"
  acts,           \* the activations: [base, entry, limit, checked]
  traps           \* the handlers: [pos, act]

vars == <<block, size, StackPointer, caml_trapsp, links, status, acts, traps>>

\* base: the depth of its return frame; entry: with its arguments; limit: as far
\* as it may push; checked: its entry found room, or made it
Activation(base, entry, checked) ==
  [base |-> base, entry |-> entry, limit |-> entry + Frame, checked |-> checked]

Ptr(b, d) == [block |-> b, depth |-> d]
sp   == StackPointer.depth
Last(s)  == s[Len(s)]
Front(s) == SubSeq(s, 1, Len(s) - 1)
Top  == Last(acts)
Replaced(a) == [acts EXCEPT ![Len(acts)] = a]

\* The words the running function has to itself begin here.
Floor == IF traps # <<>> /\ Last(traps).act = Len(acts) THEN Last(traps).pos ELSE Top.base
InTail == Len(acts) > 1 /\ \A i \in DOMAIN traps : traps[i].act < Len(acts)
Running == status = "running"

-----------------------------------------------------------------------------
Init ==
  /\ block = 1 /\ size = InitSize
  /\ StackPointer = Ptr(1, 0) /\ caml_trapsp = Ptr(1, 0) /\ links = << >>
  /\ status = "running"
  /\ acts = <<Activation(0, 0, TRUE)>> /\ traps = <<>>

Push(n) ==
  /\ Running /\ sp + n <= Top.limit
  /\ StackPointer' = Ptr(StackPointer.block, sp + n)
  /\ status' = IF sp + n > size THEN "overrun" ELSE status
  /\ UNCHANGED <<block, size, caml_trapsp, links, acts, traps>>

Pop(n) ==
  /\ Running /\ sp - n >= Floor
  /\ StackPointer' = Ptr(StackPointer.block, sp - n)
  /\ UNCHANGED <<block, size, caml_trapsp, links, status, acts, traps>>

-----------------------------------------------------------------------------
(* caml_realloc_stack, called with `used' words on the stack: the sizes that
   have room for so many more, and the pointers it moves.  caml_trapsp and the
   links of the frames that are reached from it are moved, and caml_extern_sp,
   which is the result. *)
Larger(used, required) == {s \in Sizes : s > size /\ s >= used + required}

Moved(p) == Ptr(block + 1, p.depth)

Realloc(used, required) ==
  /\ size' \in Larger(used, required)
  /\ \A s \in Larger(used, required) : size' <= s
  /\ block' = block + 1
  /\ caml_trapsp' = Moved(caml_trapsp)
  /\ links' = [d \in DOMAIN links |-> Moved(links[d])]

Stay == UNCHANGED <<block, size, caml_trapsp, links>>

\* Mutant: StackPointer is not read back after the stack has moved.
CHECK_STACKS_keeps_pointer(d) ==
  /\ StackPointer' = Ptr(StackPointer.block, d)
  /\ IF size - d < Stack_threshold THEN Realloc(d, Stack_threshold) ELSE Stay

\* CHECK_STACKS with StackPointer at depth d, when it does not raise
CHECK_STACKS(d) ==
  IF size - d < Stack_threshold
  THEN Realloc(d, Stack_threshold) /\ StackPointer' = Ptr(block', d)
  ELSE Stay /\ StackPointer' = Ptr(StackPointer.block, d)

Overflows(used, required) == size - used < required /\ Larger(used, required) = {}

\* Mutant: caml_trapsp stays at the frame that is given back.
getExceptionValue_keeps_trapsp ==
  /\ StackPointer' = Ptr(caml_trapsp.block, caml_trapsp.depth - 4)
  /\ caml_trapsp' = caml_trapsp

getExceptionValue ==
  /\ StackPointer' = Ptr(caml_trapsp.block, caml_trapsp.depth - 4)
  /\ caml_trapsp' = links[caml_trapsp.depth]

Unwind ==
  /\ traps # <<>>
  /\ getExceptionValue
  /\ links' = [d \in DOMAIN links \ {Last(traps).pos} |-> links[d]]
  /\ acts' = SubSeq(acts, 1, Last(traps).act)
  /\ traps' = Front(traps)
  /\ UNCHANGED <<block, size, status>>

\* RAISE, or a primitive
Raise == Running /\ Unwind

\* caml_raise_stack_overflow
StackOverflow ==
  \/ Unwind
  \/ traps = <<>> /\ status' = "fatal"
       /\ UNCHANGED <<block, size, StackPointer, caml_trapsp, links, acts, traps>>

-----------------------------------------------------------------------------
(* apply1, apply2, apply3: three words more, and then the check *)
ApplyGuard(n) == Running /\ Len(acts) < MaxCalls /\ n \in 1..3 /\ sp - n >= Floor

applyN(n) ==
  /\ ApplyGuard(n) /\ sp + 3 <= size
  /\ CHECK_STACKS(sp + 3)
  /\ acts' = Append(acts, Activation(sp + 3 - n, sp + 3, TRUE))
  /\ UNCHANGED <<status, traps>>

applyN_overflows(n) ==
  /\ ApplyGuard(n) /\ sp + 3 <= size
  /\ Overflows(sp + 3, Stack_threshold)
  /\ StackOverflow

applyN_overruns(n) ==
  /\ ApplyGuard(n) /\ sp + 3 > size
  /\ status' = "overrun"
  /\ UNCHANGED <<block, size, StackPointer, caml_trapsp, links, acts, traps>>

\* apply, of four arguments or more above the frame of PUSH_RETADDR: no check
apply(n) ==
  /\ Running /\ Len(acts) < MaxCalls /\ n >= 4 /\ sp - (n + 3) >= Floor
  /\ acts' = Append(acts, Activation(sp - n, sp, FALSE))
  /\ UNCHANGED <<block, size, StackPointer, caml_trapsp, links, status, traps>>

\* appterm to appterm3 slide the arguments up to depth d, and check.
TailGuard(d) == Running /\ InTail /\ d \in Top.base + 1 .. sp

\* Mutant: a tail call does not check.
appterm_no_check(d) ==
  /\ TailGuard(d)
  /\ Stay /\ StackPointer' = Ptr(StackPointer.block, d)
  /\ acts' = Replaced(Activation(Top.base, d, TRUE))
  /\ UNCHANGED <<status, traps>>

appterm(d) ==
  /\ TailGuard(d)
  /\ CHECK_STACKS(d)
  /\ acts' = Replaced(Activation(Top.base, d, TRUE))
  /\ UNCHANGED <<status, traps>>

appterm_overflows(d) ==
  /\ TailGuard(d)
  /\ Overflows(d, Stack_threshold)
  /\ StackOverflow

\* handleReturn with arguments left enters the next function where they begin,
\* and does not check.
ReturnInto(d) ==
  /\ Running /\ InTail /\ d \in Top.base + 1 .. sp /\ d < Top.entry
  /\ StackPointer' = Ptr(StackPointer.block, d)
  /\ acts' = Replaced(Activation(Top.base, d, Top.checked))
  /\ UNCHANGED <<block, size, caml_trapsp, links, status, traps>>

\* Mutant: the frame has one word more.
Return_four_words ==
  /\ Running /\ InTail
  /\ StackPointer' = Ptr(StackPointer.block, Top.base - 4)
  /\ acts' = Front(acts)
  /\ UNCHANGED <<block, size, caml_trapsp, links, status, traps>>

Return ==
  /\ Running /\ InTail
  /\ StackPointer' = Ptr(StackPointer.block, Top.base - 3)
  /\ acts' = Front(acts)
  /\ UNCHANGED <<block, size, caml_trapsp, links, status, traps>>

-----------------------------------------------------------------------------
\* Setup_for_c_call pushes Env.
c_call_overruns ==
  /\ Running /\ sp + 1 > size
  /\ status' = "overrun"
  /\ UNCHANGED <<block, size, StackPointer, caml_trapsp, links, acts, traps>>

\* The primitive, which finds the word of Env on top of the stack
caml_ensure_stack_capacity(required) ==
  IF size - (sp + 1) < required THEN Realloc(sp + 1, required) ELSE Stay

\* ocamlc has a large function call it before anything else.
EnsureGuard == Running /\ sp = Top.entry /\ Top.limit = Top.entry + Frame /\ sp + 1 <= size

\* The c_call1 of it: Restore_after_c_call takes StackPointer from caml_extern_sp.
EnsureCapacity(required) ==
  /\ EnsureGuard
  /\ caml_ensure_stack_capacity(required)
  /\ StackPointer' = Ptr(block', sp)
  /\ acts' = Replaced([Top EXCEPT !.limit = Top.entry + required - Margin, !.checked = TRUE])
  /\ UNCHANGED <<status, traps>>

EnsureOverflows(required) ==
  /\ EnsureGuard
  /\ Overflows(sp + 1, required)
  /\ StackOverflow

-----------------------------------------------------------------------------
pushTrap ==
  /\ Running /\ Len(traps) < MaxTraps /\ sp + 4 <= Top.limit
  /\ StackPointer' = Ptr(StackPointer.block, sp + 4)
  /\ links' = [d \in DOMAIN links \cup {sp + 4} |-> IF d = sp + 4 THEN caml_trapsp ELSE links[d]]
  /\ caml_trapsp' = StackPointer'
  /\ traps' = Append(traps, [pos |-> sp + 4, act |-> Len(acts)])
  /\ status' = IF sp + 4 > size THEN "overrun" ELSE status
  /\ UNCHANGED <<block, size, acts>>

popTrap ==
  /\ Running /\ traps # <<>> /\ Last(traps) = [pos |-> sp, act |-> Len(acts)]
  /\ caml_trapsp' = links[sp]
  /\ StackPointer' = Ptr(StackPointer.block, sp - 4)
  /\ links' = [d \in DOMAIN links \ {sp} |-> links[d]]
  /\ traps' = Front(traps)
  /\ UNCHANGED <<block, size, status, acts>>

Stop ==
  /\ Running /\ Len(acts) = 1 /\ traps = <<>>
  /\ status' = "stopped"
  /\ UNCHANGED <<block, size, StackPointer, caml_trapsp, links, acts, traps>>

Next ==
  \/ \E n \in 1..Frame : Push(n) \/ Pop(n)
  \/ \E n \in 1..3 : applyN(n) \/ applyN_overflows(n) \/ applyN_overruns(n)
  \/ \E n \in 4..Frame : apply(n)
  \/ \E d \in 1..sp : appterm(d) \/ appterm_overflows(d) \/ ReturnInto(d)
  \/ Return
  \/ \E r \in Large : EnsureCapacity(r) \/ EnsureOverflows(r)
  \/ c_call_overruns
  \/ pushTrap \/ popTrap \/ Raise \/ Stop

Spec == Init /\ [][Next]_vars

-----------------------------------------------------------------------------
Pointer == [block : Nat, depth : Nat]

TypeOK ==
  /\ block \in Nat /\ size \in Nat
  /\ StackPointer \in Pointer /\ caml_trapsp \in Pointer
  /\ DOMAIN links \subseteq Nat /\ \A d \in DOMAIN links : links[d] \in Pointer
  /\ status \in {"running", "overrun", "stopped", "fatal"}
  /\ acts \in Seq([base : Nat, entry : Nat, limit : Nat, checked : BOOLEAN]) /\ acts # <<>>
  /\ traps \in Seq([pos : Nat, act : Nat])

(* The stack is written below its low end only by a function that `apply'
   entered without looking for room: every other entry, a tail call from such a
   function and a return into the next one included, has or makes the room that
   ocamlc counts on. *)
OverrunsUnchecked == status = "overrun" => ~Top.checked

(* After any growth in the middle of calls and handlers nobody is left with a
   pointer into the stack that was freed. *)
PointersCurrent ==
  /\ StackPointer.block = block /\ caml_trapsp.block = block
  /\ \A d \in DOMAIN links : links[d].block = block

(* caml_trapsp and the links lead from handler to handler in the stack as it is
   now, so a raise finds its handler wherever growth has moved it. *)
TrapLinks ==
  /\ caml_trapsp = Ptr(block, IF traps = <<>> THEN 0 ELSE Last(traps).pos)
  /\ DOMAIN links = {traps[i].pos : i \in DOMAIN traps}
  /\ \A i \in DOMAIN traps :
       links[traps[i].pos] = Ptr(block, IF i = 1 THEN 0 ELSE traps[i - 1].pos)
=============================================================================
