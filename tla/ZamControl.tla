----------------------------- MODULE ZamControl -----------------------------
(***************************************************************************)
(* The control instructions of the ZAM as src/StdLib/CStdLib.c runs them:  *)
(* return frames and trap frames on the OCaml stack, the chain of jump     *)
(* buffers beside it, and the native stack of the JIT-compiled functions,  *)
(* which LLVM calls and returns must keep in step with the other two.      *)
(*                                                                         *)
(* The OCaml stack is memory: word 1 is the first one pushed, sp the word  *)
(* StackPointer points to, and the words above sp keep what was left       *)
(* there.  The program is any sequence of instructions ocamlc can emit:    *)
(* calls, traps and pends record the frames its static view of the stack   *)
(* contains, and only the guards that state ocamlc's discipline read them. *)
(***************************************************************************)
EXTENDS Integers, Sequences

CONSTANTS
  Closures,   \* values Accu may hold when it is applied
  MaxStack,   \* bound: words of OCaml stack the program may use
  MaxArgs,    \* bound: arguments of one call, words of one POP
  MaxTraps    \* bound: handlers installed at the same time; Buffers[] holds 2048

ASSUME BoundsAssumption ==
  /\ Closures \subseteq Int
  /\ MaxStack \in Nat /\ MaxArgs \in Nat /\ MaxTraps \in Nat

VARIABLES
  stack,                 \* the memory of the OCaml stack
  sp,                    \* StackPointer
  Env, extra_args,
  caml_trapsp,           \* innermost trap frame; 0 is caml_stack_high
  Buffers,               \* the jump buffers: [Next, native]
  CurrentBufferIndex,
  NextExceptionContext,  \* index of a buffer, or NULL
  caml_external_raise,   \* index of the buffer a C primitive raises to, NULL or WILD
  native,                \* frames of compiled functions on the C stack
  status,                \* "running", "stopped", "exit0", "fatal" or "crash"
  at,                    \* "entry": before the first instruction of a function
  restored,              \* arguments RESTART has just put back, 0 if none
  calls,                 \* return frames: position of each code-pointer word
  traps,                 \* trap frames: [pos, calls], calls the activation's depth
  pends                  \* frames of PUSH_RETADDR without their APPLY: {[pos, calls]}

machine == <<stack, sp, Env, extra_args>>
handling == <<caml_trapsp, Buffers, CurrentBufferIndex, NextExceptionContext,
              caml_external_raise>>
layout  == <<calls, traps, pends>>
vars    == <<machine, handling, native, status, at, restored, layout>>

NULL == -1     \* no exception context
WILD == -2     \* &((JmpBufList*)NULL)->JmpBuf: not a buffer, yet not null

ValLong(n) == 2 * n + 1      \* Val_long
LongVal(w) == w \div 2       \* Long_val

Last(s)  == s[Len(s)]
Front(s) == SubSeq(s, 1, Len(s) - 1)

-----------------------------------------------------------------------------
(* What ocamlc knows statically about the frame of the running activation. *)

\* The words above this one are locals and arguments the running code owns;
\* those below are the extra arguments and the return frame.
Base == (IF calls = <<>> THEN 0 ELSE Last(calls)) + extra_args

\* The n words on top are plain values of the running activation.
Owns(n) ==
  /\ sp - n >= Base
  /\ \A i \in 1..Len(traps) : traps[i].pos <= sp - n
  /\ \A p \in pends : p.pos <= sp - n

\* A function only ends or calls in tail position outside try and argument lists.
InTail ==
  /\ calls # <<>>
  /\ \A i \in 1..Len(traps) : traps[i].calls < Len(calls)
  /\ \A p \in pends : p.calls < Len(calls)

Body  == status = "running" /\ at = "body"
Entry == status = "running" /\ at = "entry"

-----------------------------------------------------------------------------
Init ==
  /\ stack = [i \in 1..MaxStack |-> 0]
  /\ sp = 0 /\ Env = 0 /\ extra_args = 0
  /\ caml_trapsp = 0
  /\ Buffers = [i \in 0..MaxTraps - 1 |-> [Next |-> NULL, native |-> 0]]
  /\ CurrentBufferIndex = 0
  /\ NextExceptionContext = NULL /\ caml_external_raise = NULL
  /\ native = 1
  /\ status = "running" /\ at = "body" /\ restored = 0
  /\ calls = <<>> /\ traps = <<>> /\ pends = {}

(* Plain stack traffic. *)
Push ==
  /\ Body /\ sp < MaxStack
  /\ sp' = sp + 1
  /\ stack' = [stack EXCEPT ![sp + 1] = ValLong(0)]
  /\ UNCHANGED <<Env, extra_args, handling, native, status, at, restored, layout>>

Pop(n) ==
  /\ Body /\ Owns(n)
  /\ sp' = sp - n
  /\ UNCHANGED <<stack, Env, extra_args, handling, native, status, at, restored, layout>>

-----------------------------------------------------------------------------
(* Calls.  apply and appterm return the code pointer of the closure in Accu;
   the instruction then calls it, and only a tail call keeps the C stack flat. *)

CallClosure     == Env' \in Closures /\ native' = native + 1 /\ at' = "entry"
TailCallClosure == Env' \in Closures /\ native' = native /\ at' = "entry"

pushRetAddr ==
  /\ Body /\ sp + 3 <= MaxStack
  /\ sp' = sp + 3
  /\ stack' = [stack EXCEPT ![sp + 3] = ValLong(0),
                            ![sp + 2] = Env,
                            ![sp + 1] = ValLong(extra_args)]
  /\ pends' = pends \cup {[pos |-> sp + 3, calls |-> Len(calls)]}
  /\ UNCHANGED <<Env, extra_args, handling, native, status, at, restored, calls, traps>>

\* The n arguments move up and the saved words go below them; the word for the
\* code pointer is not written.
Framed(n) == [i \in 1..MaxStack |->
                IF i \in sp + 4 - n .. sp + 3 THEN stack[i - 3]
                ELSE IF i = sp + 2 - n THEN Env
                ELSE IF i = sp + 1 - n THEN ValLong(extra_args)
                ELSE stack[i]]

ApplyGuard(n) == Body /\ n <= 3 /\ Owns(n) /\ sp + 3 <= MaxStack

\* apply1, apply2, apply3, and the call of the pointer they return
applyN(n) ==
  /\ ApplyGuard(n)
  /\ stack' = Framed(n)
  /\ sp' = sp + 3
  /\ extra_args' = n - 1
  /\ CallClosure
  /\ calls' = Append(calls, sp + 3 - n)
  /\ UNCHANGED <<handling, status, restored, traps, pends>>

\* APPLY n: PUSH_RETADDR made the frame, and the arguments are right above it.
apply(n) ==
  /\ Body /\ Owns(n)
  /\ \E p \in pends :
       /\ p = [pos |-> sp - n, calls |-> Len(calls)]
       /\ pends' = pends \ {p}
       /\ calls' = Append(calls, p.pos)
  /\ extra_args' = n - 1
  /\ CallClosure
  /\ UNCHANGED <<stack, sp, handling, status, restored, traps>>

Slid(n) == [i \in 1..MaxStack |->
              IF i \in Base + 1 .. Base + n THEN stack[i + sp - (Base + n)]
              ELSE stack[i]]

AppTermGuard(n) == Body /\ InTail /\ Owns(n)

\* Mutant: a tail call that forgets the extra arguments already there.
appterm_resets_extra(n) ==
  /\ AppTermGuard(n)
  /\ stack' = Slid(n)
  /\ sp' = Base + n
  /\ extra_args' = n - 1
  /\ TailCallClosure
  /\ UNCHANGED <<handling, status, restored, layout>>

\* slotsize is the whole frame: everything above Base
appterm(n) ==
  /\ AppTermGuard(n)
  /\ stack' = Slid(n)
  /\ sp' = Base + n
  /\ extra_args' = extra_args + n - 1
  /\ TailCallClosure
  /\ UNCHANGED <<handling, status, restored, layout>>

-----------------------------------------------------------------------------
(* Function entry. *)

\* CodeGen puts nothing before a function's instructions: one that does not start
\* with GRAB takes the one argument on top.
EnterUnary ==
  /\ Entry /\ restored = 0
  /\ at' = "body"
  /\ UNCHANGED <<machine, handling, native, status, restored, layout>>

checkGrab(required)          == extra_args >= required
substractExtraArgs(required) == extra_args' = extra_args - required

\* GRAB with enough arguments
Grab(required) ==
  /\ Entry /\ required >= restored
  /\ checkGrab(required)
  /\ substractExtraArgs(required)
  /\ at' = "body" /\ restored' = 0
  /\ UNCHANGED <<stack, sp, Env, handling, native, status, layout>>

\* Mutant: the saved extra_args taken without Long_val.
PopFrame_tagged_extra(frame) ==
  /\ Env' = stack[frame - 1]
  /\ extra_args' = stack[frame - 2]
  /\ sp' = frame - 3
  /\ native' = native - 1
  /\ calls' = Front(calls)
  /\ at' = "body"
  /\ UNCHANGED <<stack, handling, status, traps, pends>>

\* Leaving through the return frame whose code-pointer word is at `frame'.
PopFrame(frame) ==
  /\ Env' = stack[frame - 1]
  /\ extra_args' = LongVal(stack[frame - 2])
  /\ sp' = frame - 3
  /\ native' = native - 1
  /\ calls' = Front(calls)
  /\ at' = "body"
  /\ UNCHANGED <<stack, handling, status, traps, pends>>

\* Mutant: the partial closure pops extra_args words, not 1 + extra_args.
createRestartClosure_off_by_one == PopFrame(sp - extra_args)

\* The partial closure takes the arguments there are, and its maker returns.
createRestartClosure == PopFrame(sp - (1 + extra_args))

\* GRAB with too few arguments
GrabPartial(required) ==
  /\ Entry /\ required >= restored
  /\ ~checkGrab(required)
  /\ createRestartClosure
  /\ restored' = 0

\* Mutant: the arguments are written before StackPointer moves.
restart_writes_first(n) ==
  /\ sp' = sp + n
  /\ stack' = [i \in 1..MaxStack |-> IF i \in sp - n + 1 .. sp THEN ValLong(0) ELSE stack[i]]
  /\ extra_args' = extra_args + n

\* The n arguments of a partial closure go back on the stack, above the others.
restart(n) ==
  /\ sp' = sp + n
  /\ stack' = [i \in 1..MaxStack |-> IF i \in sp + 1 .. sp + n THEN ValLong(0) ELSE stack[i]]
  /\ extra_args' = extra_args + n

\* The restart function of a function that starts with GRAB
Restart(n) ==
  /\ Entry /\ restored = 0 /\ sp + n <= MaxStack
  /\ restart(n)
  /\ TailCallClosure
  /\ restored' = n
  /\ UNCHANGED <<handling, status, layout>>

\* Mutant: the result is applied by a call that is not in tail position.
ReturnInto_nested ==
  /\ Body /\ InTail
  /\ extra_args > 0
  /\ sp' = Base
  /\ extra_args' = extra_args - 1
  /\ CallClosure
  /\ UNCHANGED <<stack, handling, status, restored, layout>>

(* handleReturn, with stsz the whole frame. *)
ReturnInto ==
  /\ Body /\ InTail
  /\ extra_args > 0
  /\ sp' = Base
  /\ extra_args' = extra_args - 1
  /\ TailCallClosure
  /\ UNCHANGED <<stack, handling, status, restored, layout>>

ReturnToCaller ==
  /\ Body /\ InTail
  /\ extra_args <= 0
  /\ PopFrame(Base)
  /\ UNCHANGED restored

-----------------------------------------------------------------------------
(* Exception handlers. *)

\* The buffer is filled by the sigsetjmp that follows, in the same function.
getNewBuffer ==
  /\ Buffers' = [Buffers EXCEPT ![CurrentBufferIndex] =
                   [Next |-> NextExceptionContext, native |-> native]]
  /\ NextExceptionContext' = CurrentBufferIndex
  /\ caml_external_raise' = CurrentBufferIndex
  /\ CurrentBufferIndex' = CurrentBufferIndex + 1

\* The word for the handler's code pointer is not written.
pushTrap ==
  /\ stack' = [stack EXCEPT ![sp + 3] = caml_trapsp,
                            ![sp + 2] = Env,
                            ![sp + 1] = ValLong(extra_args)]
  /\ sp' = sp + 4
  /\ caml_trapsp' = sp + 4

\* PUSHTRAP, the first time through
PushTrap ==
  /\ Body /\ sp + 4 <= MaxStack /\ CurrentBufferIndex < MaxTraps
  /\ getNewBuffer /\ pushTrap
  /\ traps' = Append(traps, [pos |-> sp + 4, calls |-> Len(calls)])
  /\ UNCHANGED <<Env, extra_args, native, status, at, restored, calls, pends>>

\* Mutant: caml_external_raise is left at the buffer that is given back.
removeExceptionContext_keeps_raise ==
  /\ NextExceptionContext' = Buffers[NextExceptionContext].Next
  /\ CurrentBufferIndex' = CurrentBufferIndex - 1
  /\ UNCHANGED <<Buffers, caml_external_raise>>

removeExceptionContext ==
  LET next == Buffers[NextExceptionContext].Next IN
  /\ NextExceptionContext' = next
  /\ CurrentBufferIndex' = CurrentBufferIndex - 1
  /\ caml_external_raise' = IF next = NULL THEN WILD ELSE next
  /\ UNCHANGED Buffers

\* Mutant: popTrap does not follow the link.
popTrap_keeps_trapsp == caml_trapsp' = caml_trapsp /\ sp' = sp - 4

popTrap == caml_trapsp' = stack[sp - 1] /\ sp' = sp - 4

\* POPTRAP: the try body has left nothing above its trap frame.
PopTrap ==
  /\ Body /\ traps # <<>>
  /\ Last(traps) = [pos |-> sp, calls |-> Len(calls)]
  /\ removeExceptionContext /\ popTrap
  /\ traps' = Front(traps)
  /\ UNCHANGED <<stack, Env, extra_args, native, status, at, restored, calls, pends>>

\* Mutant: extra_args is not read back.
getExceptionValue_keeps_extra(memory) ==
  /\ sp' = caml_trapsp - 4
  /\ Env' = memory[caml_trapsp - 2]
  /\ caml_trapsp' = memory[caml_trapsp - 1]
  /\ UNCHANGED extra_args

getExceptionValue(memory) ==
  /\ sp' = caml_trapsp - 4
  /\ Env' = memory[caml_trapsp - 2]
  /\ caml_trapsp' = memory[caml_trapsp - 1]
  /\ extra_args' = LongVal(memory[caml_trapsp - 3])

(* siglongjmp to the buffer `ctx', and the first instructions of the handler.
   What the raise had pushed stays in memory. *)
Unwind(ctx, memory) ==
  /\ native' = Buffers[ctx].native
  /\ stack' = memory
  /\ getExceptionValue(memory) /\ removeExceptionContext
  /\ at' = "body" /\ restored' = 0
  /\ calls' = SubSeq(calls, 1, Last(traps).calls)
  /\ traps' = Front(traps)
  /\ pends' = {p \in pends : p.pos < Last(traps).pos}
  /\ UNCHANGED status

End(how) ==
  /\ status' = how
  /\ UNCHANGED <<machine, handling, native, at, restored, layout>>

\* RAISE, in OCaml code
ThrowCaught ==
  /\ Body /\ NextExceptionContext # NULL
  /\ Unwind(NextExceptionContext, stack)

ThrowUncaught ==
  /\ Body /\ NextExceptionContext = NULL
  /\ End("exit0")

(* caml_raise, in the OCaml runtime: it only reads caml_external_raise, and
   jumps to whatever it finds there that is not null. *)
RaiseFromC(memory) ==
  \/ caml_external_raise = NULL /\ End("fatal")
  \/ caml_external_raise = WILD /\ End("crash")
  \/ caml_external_raise >= 0 /\ Unwind(caml_external_raise, memory)

Saved == [stack EXCEPT ![sp + 1] = Env]     \* Setup_for_c_call

\* c_call1 to c_call5: the arguments after the first are on the stack.
CCall(n) ==
  /\ Body /\ Owns(n - 1) /\ sp < MaxStack
  /\ stack' = Saved
  /\ sp' = sp - (n - 1)
  /\ UNCHANGED <<Env, extra_args, handling, native, status, at, restored, layout>>

CRaise == Body /\ sp < MaxStack /\ RaiseFromC(Saved)

\* CHECK_STACKS finds that the stack may not grow: caml_realloc_stack raises,
\* with the frame of the call already made.
OverflowInApply(n)   == ApplyGuard(n) /\ RaiseFromC(Framed(n))
OverflowInAppTerm(n) == AppTermGuard(n) /\ RaiseFromC(Slid(n))

Stop ==
  /\ Body /\ calls = <<>> /\ traps = <<>> /\ pends = {}
  /\ End("stopped")

-----------------------------------------------------------------------------
Next ==
  \/ Push
  \/ pushRetAddr
  \/ \E n \in 1..MaxArgs :
       \/ Pop(n) \/ applyN(n) \/ apply(n) \/ appterm(n)
       \/ Grab(n) \/ GrabPartial(n) \/ Restart(n)
       \/ CCall(n) \/ OverflowInApply(n) \/ OverflowInAppTerm(n)
  \/ EnterUnary \/ ReturnInto \/ ReturnToCaller
  \/ PushTrap \/ PopTrap
  \/ ThrowCaught \/ ThrowUncaught \/ CRaise
  \/ Stop

Spec == Init /\ [][Next]_vars

-----------------------------------------------------------------------------
(* Where the frames are.  Activation k, 0 for the main code, has the words
   above its floor up to its ceiling: its extra arguments, then what it pushed. *)
Depths      == 0..Len(calls)
Floor(k)    == IF k = 0 THEN 0 ELSE calls[k]
Ceiling(k)  == IF k = Len(calls) THEN sp ELSE calls[k + 1] - 3
EnvOf(k)    == IF k = Len(calls) THEN Env ELSE stack[calls[k + 1] - 1]
ExtraOf(k)  == IF k = Len(calls) THEN extra_args ELSE LongVal(stack[calls[k + 1] - 2])

\* The frame of `size' words whose top word is f.pos lies in f.calls's own words.
LiesIn(f, size) ==
  /\ f.calls \in Depths
  /\ Floor(f.calls) + ExtraOf(f.calls) + size <= f.pos
  /\ f.pos <= Ceiling(f.calls)

TypeOK ==
  /\ stack \in [1..MaxStack -> Int]
  /\ sp \in 0..MaxStack
  /\ Env \in Closures \cup {0} /\ extra_args \in Nat
  /\ caml_trapsp \in 0..MaxStack
  /\ Buffers \in [0..MaxTraps - 1 -> [Next : -1..MaxTraps - 1, native : Nat]]
  /\ CurrentBufferIndex \in 0..MaxTraps
  /\ NextExceptionContext \in -1..MaxTraps - 1
  /\ caml_external_raise \in -2..MaxTraps - 1
  /\ native \in Nat
  /\ status \in {"running", "stopped", "exit0", "fatal", "crash"}
  /\ at \in {"entry", "body"}
  /\ restored \in 0..MaxArgs
  /\ calls \in Seq(1..MaxStack)
  /\ traps \in Seq([pos : 1..MaxStack, calls : Nat])
  /\ pends \in SUBSET [pos : 1..MaxStack, calls : Nat]

\* Every activation has room for its extra arguments.
ActivationsFit == \A k \in Depths : Floor(k) + ExtraOf(k) <= Ceiling(k)

\* A function starts with its first argument on top and extra_args more below
\* it, right above its return frame.
EntryFits ==
  at = "entry" => /\ calls # <<>>
                  /\ sp = Last(calls) + extra_args + 1
                  /\ extra_args >= restored

TrapsFit ==
  /\ \A i \in 1..Len(traps) : LiesIn(traps[i], 4)
  /\ \A i, j \in 1..Len(traps) : i < j => traps[i].pos <= traps[j].pos - 4

PendsFit ==
  /\ \A p \in pends : LiesIn(p, 3)
  /\ \A p, q \in pends : p = q \/ p.pos <= q.pos - 3 \/ q.pos <= p.pos - 3

TrapsPendsApart ==
  \A p \in pends, i \in 1..Len(traps) :
    p.pos <= traps[i].pos - 4 \/ traps[i].pos <= p.pos - 3

(* The stack pointer and extra_args, which apply, appterm, GRAB, RESTART and
   RETURN compute from the operands of instructions, always leave each
   activation exactly its own words: the extra arguments and the frames it has
   pushed, none overlapping another's, and the arguments where a function that
   starts looks for them. *)
StackLayout ==
  ActivationsFit /\ EntryFits /\ TrapsFit /\ PendsFit /\ TrapsPendsApart

(* caml_trapsp and the link words of the trap frames lead through the
   installed handlers, innermost first, to the bottom of the stack. *)
TrapChain ==
  /\ caml_trapsp = IF traps = <<>> THEN 0 ELSE Last(traps).pos
  /\ \A i \in 1..Len(traps) :
       stack[traps[i].pos - 1] = IF i = 1 THEN 0 ELSE traps[i - 1].pos

(* The chain of jump buffers beside the stack has one buffer per trap frame,
   in the same order, and each buffer returns into the compiled function that
   installed that very handler.  C primitives raise to the same place. *)
ContextChain ==
  /\ CurrentBufferIndex = Len(traps)
  /\ NextExceptionContext = Len(traps) - 1
  /\ \/ caml_external_raise = Len(traps) - 1
     \/ traps = <<>> /\ caml_external_raise = WILD
  /\ \A i \in 1..Len(traps) :
       Buffers[i - 1] = [Next |-> i - 2, native |-> 1 + traps[i].calls]

(* A trap frame, and a frame made by PUSH_RETADDR, hold the registers its
   activation has now or will have when it runs again: whichever way control
   comes back to that activation, it finds the same environment. *)
SavedContexts ==
  /\ \A i \in 1..Len(traps) :
       /\ stack[traps[i].pos - 2] = EnvOf(traps[i].calls)
       /\ LongVal(stack[traps[i].pos - 3]) = ExtraOf(traps[i].calls)
  /\ \A p \in pends :
       /\ stack[p.pos - 1] = EnvOf(p.calls)
       /\ LongVal(stack[p.pos - 2]) = ExtraOf(p.calls)

(* The C stack of compiled functions and the OCaml stack stay in step through
   calls, tail calls, partial applications, returns and raises. *)
NativeLockstep == native = 1 + Len(calls)

(* No step changes a saved word of a return or trap frame that is still there
   after the step. *)
FramesUntouched ==
  [][/\ \A i \in (1..Len(calls)) \cap (1..Len(calls')) :
          \A w \in {calls[i] - 1, calls[i] - 2} : stack'[w] = stack[w]
     /\ \A i \in (1..Len(traps)) \cap (1..Len(traps')) :
          \A w \in traps[i].pos - 3 .. traps[i].pos - 1 : stack'[w] = stack[w]]_vars

-----------------------------------------------------------------------------
(* The words the runtime saves are an implementation of Activations. *)
A == INSTANCE Activations WITH
       env      <- Env,
       extra    <- extra_args,
       calls    <- [i \in 1..Len(calls) |->
                      [env   |-> stack[calls[i] - 1],
                       extra |-> LongVal(stack[calls[i] - 2])]],
       handlers <- [i \in 1..Len(traps) |->
                      [depth |-> traps[i].calls,
                       env   |-> stack[traps[i].pos - 2],
                       extra |-> LongVal(stack[traps[i].pos - 3])]],
       outcome  <- IF status \in {"running", "stopped"} THEN status ELSE "uncaught"

(* Calls, tail calls, partial applications, returns and raises give OCaml code
   the environments and the extra arguments it is entitled to. *)
RefinesActivations == A!Spec

-----------------------------------------------------------------------------
(* What ocamlrun guarantees and CamllVM is said to do in the same way. *)

\* A C primitive that raises outside every handler ends in the fatal-error
\* report, never in a jump through an address that is not a jump buffer.
RaiseTargetValid == status # "crash"
=============================================================================
