------------------------------ MODULE GcRoots ------------------------------
(***************************************************************************)
(* What the collector of the OCaml runtime finds when CamllVM lets it run. *)
(*                                                                         *)
(* A collection moves blocks.  It starts from the words of the OCaml stack *)
(* up to caml_extern_sp and from the local roots of the C primitives that  *)
(* are running, follows each one that is a pointer, and puts the new       *)
(* address in its place.  Pointers it did not find are dead from then on,  *)
(* and following a dead one destroys the heap.                             *)
(*                                                                         *)
(* The control instructions are those of ZamControl.  Beside each word of  *)
(* the stack and each register stands its kind: "imm", which a collection  *)
(* leaves alone (integers, and addresses outside the heap), "live", a      *)
(* pointer to a block, or "dead".                                          *)
(***************************************************************************)
EXTENDS ZamControl

\* A closure is a pointer; Env holds 0 only until the first call.
ASSUME ClosuresAssumption == 0 \notin Closures

VARIABLES
  kind,              \* of the words of the stack
  AccuKind, EnvKind,
  caml_local_roots,  \* "none", or "dead": those of a primitive that is gone
  heap               \* "sound", or what destroyed it: "stale_word" or "dead_roots"

kinds   == <<kind, AccuKind, EnvKind>>
allvars == <<vars, kinds, caml_local_roots, heap>>

Values == {"imm", "live"}

\* A register or a word that a collection did not find
Lost(k) == IF k = "live" THEN "dead" ELSE k

\* The words K of the stack after a collection that scans those up to `top'
Scanned(K, top) == [i \in 1..MaxStack |-> IF i > top THEN Lost(K[i]) ELSE K[i]]

Damage(K, top) ==
  IF \E i \in 1..top : K[i] = "dead" THEN "stale_word"
  ELSE IF caml_local_roots = "dead" THEN "dead_roots"
  ELSE "sound"

\* A block made of fields of these kinds, as a value
Block(fields) == IF "dead" \in fields THEN "dead" ELSE "live"

-----------------------------------------------------------------------------
(* Where the collector may run. *)

\* Setup_for_gc, the collection and Restore_after_gc, from the words K with `top'
\* of them in use and the given registers
Collected(K, accu, env, top) ==
  LET saved == [K EXCEPT ![top + 1] = env, ![top + 2] = accu]
      after == Scanned(saved, top + 2)
  IN [words |-> after, env |-> after[top + 1], accu |-> after[top + 2],
      heap |-> Damage(saved, top + 2)]

\* Alloc_small: the block fits, or a collection makes room for it first.
AllocSmall(K, accu, top) ==
  {[words |-> K, env |-> EnvKind, accu |-> accu, heap |-> heap]}
    \cup (IF top + 2 <= MaxStack THEN {Collected(K, accu, EnvKind, top)} ELSE {})

\* Setup_for_c_call, the primitive, and what Restore_after_c_call finds for Env
InPrimitive ==
  LET K == [kind EXCEPT ![sp + 1] = EnvKind]
      after == Scanned(K, sp + 1)
  IN {[words |-> K, env |-> EnvKind, heap |-> heap],
      [words |-> after, env |-> after[sp + 1], heap |-> Damage(K, sp + 1)]}

-----------------------------------------------------------------------------
(* Instructions that only move values. *)

\* The words of the running activation that hold its arguments and locals
Locals == {p \in Base + 1 .. sp :
             /\ \A i \in 1..Len(traps) : p \notin traps[i].pos - 3 .. traps[i].pos
             /\ \A q \in pends : p \notin q.pos - 2 .. q.pos}

\* CONST, ACC and ENVACC
Load ==
  /\ Body
  /\ AccuKind' \in {"imm"} \cup {kind[p] : p \in Locals}
                     \cup (IF Env # 0 THEN Values ELSE {})
  /\ UNCHANGED <<vars, kind, EnvKind, caml_local_roots, heap>>

GPush ==
  /\ Push
  /\ kind' = [kind EXCEPT ![sp + 1] = AccuKind]
  /\ UNCHANGED <<AccuKind, EnvKind, caml_local_roots, heap>>

\* Instructions that neither move nor make values
Quiet ==
  /\ \/ \E n \in 1..MaxArgs : Pop(n) \/ Grab(n)
     \/ EnterUnary \/ PopTrap \/ ThrowUncaught \/ Stop
  /\ UNCHANGED <<kinds, caml_local_roots, heap>>

-----------------------------------------------------------------------------
(* Allocation *)

\* Mutant: the fields are read before the allocation, into C variables the
\* collector does not know.
Fields_read_early(a, where) == {Lost(a.words[i]) : i \in where}

\* The kinds of the words a new block is filled from, once it is allocated
Fields(a, where) == {a.words[i] : i \in where}

\* makeBlock1 to makeBlock: Accu is the first of the n fields, and the others are
\* on the stack.
makeBlock(n) ==
  /\ Body /\ sp - n + 2 .. sp \subseteq Locals
  /\ \E a \in AllocSmall(kind, AccuKind, sp) :
       /\ kind' = a.words /\ EnvKind' = a.env /\ heap' = a.heap
       /\ AccuKind' = Block({a.accu} \cup Fields(a, sp - n + 2 .. sp))
  /\ sp' = sp - (n - 1)
  /\ UNCHANGED <<stack, Env, extra_args, handling, native, status, at, restored, layout,
                 caml_local_roots>>

\* closure and closureRec, of n variables: Accu is pushed if there are any, and they
\* are n words.  The m functions of closureRec are pushed in the end.
MakeClosure(n, m) ==
  /\ Body /\ sp - n + 2 .. sp \subseteq Locals /\ sp + m < MaxStack
  /\ LET top    == IF n > 0 THEN sp + 1 ELSE sp
         pushed == IF n > 0 THEN [kind EXCEPT ![sp + 1] = AccuKind] ELSE kind
         fns    == top - n + 1 .. top - n + m
     IN /\ \E a \in AllocSmall(pushed, AccuKind, top) :
             /\ EnvKind' = a.env /\ heap' = a.heap
             /\ AccuKind' = Block(Fields(a, top - n + 1 .. top))
             /\ kind' = [i \in 1..MaxStack |-> IF i \in fns THEN AccuKind' ELSE a.words[i]]
        /\ stack' = [i \in 1..MaxStack |-> IF i \in fns THEN ValLong(0) ELSE stack[i]]
        /\ sp' = top - n + m
  /\ UNCHANGED <<Env, extra_args, handling, native, status, at, restored, layout,
                 caml_local_roots>>

closure(n)       == MakeClosure(n, 0)
closureRec(n, m) == MakeClosure(n, m)

\* createRestartClosure: Env and the arguments go into the closure.
GGrabPartial(n) ==
  /\ GrabPartial(n)
  /\ \E a \in AllocSmall(kind, AccuKind, sp) :
       /\ kind' = a.words /\ heap' = a.heap
       /\ EnvKind' = a.words[Last(calls) - 1]
       /\ AccuKind' = Block({a.env} \cup Fields(a, sp - extra_args .. sp))
  /\ UNCHANGED caml_local_roots

-----------------------------------------------------------------------------
(* Calls and returns *)

GPushRetAddr ==
  /\ pushRetAddr
  /\ kind' = [kind EXCEPT ![sp + 3] = "imm", ![sp + 2] = EnvKind, ![sp + 1] = "imm"]
  /\ UNCHANGED <<AccuKind, EnvKind, caml_local_roots, heap>>

\* Mutant: extra_args is saved without its tag, and an even number is a pointer.
FramedKinds_untagged(n) == [i \in 1..MaxStack |->
                     IF i \in sp + 4 - n .. sp + 3 THEN kind[i - 3]
                     ELSE IF i = sp + 2 - n THEN EnvKind
                     ELSE IF i = sp + 1 - n THEN (IF extra_args > 0 THEN "live" ELSE "imm")
                     ELSE kind[i]]

\* What Framed and Slid do to the kinds
FramedKinds(n) == [i \in 1..MaxStack |->
                     IF i \in sp + 4 - n .. sp + 3 THEN kind[i - 3]
                     ELSE IF i = sp + 2 - n THEN EnvKind
                     ELSE IF i = sp + 1 - n THEN "imm"
                     ELSE kind[i]]

SlidKinds(n) == [i \in 1..MaxStack |->
                   IF i \in Base + 1 .. Base + n THEN kind[i + sp - (Base + n)]
                   ELSE kind[i]]

\* Accu is the closure that is called.
GCall ==
  /\ AccuKind = "live"
  /\ \/ \E n \in 1..MaxArgs : \/ applyN(n) /\ kind' = FramedKinds(n)
                              \/ apply(n) /\ UNCHANGED kind
                              \/ appterm(n) /\ kind' = SlidKinds(n)
     \/ ReturnInto /\ UNCHANGED kind
  /\ EnvKind' = AccuKind
  /\ UNCHANGED <<AccuKind, caml_local_roots, heap>>

\* The arguments and the environment come out of the partial closure.
GRestart(n) ==
  /\ Restart(n)
  /\ \E args \in [sp + 1 .. sp + n -> Values] :
       kind' = [i \in 1..MaxStack |-> IF i \in DOMAIN args THEN args[i] ELSE kind[i]]
  /\ UNCHANGED <<AccuKind, EnvKind, caml_local_roots, heap>>

GReturn ==
  /\ ReturnToCaller
  /\ EnvKind' = kind[Base - 1]
  /\ UNCHANGED <<kind, AccuKind, caml_local_roots, heap>>

-----------------------------------------------------------------------------
(* Handlers and primitives *)

GPushTrap ==
  /\ PushTrap
  /\ kind' = [kind EXCEPT ![sp + 3] = "imm", ![sp + 2] = EnvKind, ![sp + 1] = "imm"]
  /\ UNCHANGED <<AccuKind, EnvKind, caml_local_roots, heap>>

\* getExceptionValue, from the words K: the exception goes to Accu.
Handled(K) ==
  /\ kind' = K
  /\ EnvKind' = K[caml_trapsp - 2]
  /\ AccuKind' = "live"

GThrow ==
  /\ ThrowCaught /\ AccuKind = "live"
  /\ Handled(kind)
  /\ UNCHANGED <<caml_local_roots, heap>>

GCCall(n) ==
  /\ CCall(n)
  /\ \E a \in InPrimitive : kind' = a.words /\ EnvKind' = a.env /\ heap' = a.heap
  /\ AccuKind' \in Values
  /\ UNCHANGED caml_local_roots

GCRaise ==
  /\ CRaise /\ status' = "running"
  /\ \E a \in InPrimitive : Handled(a.words) /\ heap' = a.heap
  /\ caml_local_roots' \in {caml_local_roots, "dead"}

\* CHECK_STACKS raises
GOverflow ==
  /\ \E n \in 1..MaxArgs :
       \/ OverflowInApply(n) /\ status' = "running" /\ Handled(FramedKinds(n))
       \/ OverflowInAppTerm(n) /\ status' = "running" /\ Handled(SlidKinds(n))
  /\ UNCHANGED <<caml_local_roots, heap>>

-----------------------------------------------------------------------------
GInit ==
  /\ Init
  /\ kind = [i \in 1..MaxStack |-> "imm"]
  /\ AccuKind = "imm" /\ EnvKind = "imm"
  /\ caml_local_roots = "none" /\ heap = "sound"

GNext ==
  /\ heap = "sound"
  /\ \/ Load \/ GPush \/ Quiet
     \/ \E n \in 1..MaxArgs :
          makeBlock(n) \/ GGrabPartial(n) \/ GRestart(n) \/ GCCall(n)
     \/ \E n \in 0..MaxArgs : closure(n) \/ \E m \in 1..2 : closureRec(n, m)
     \/ GPushRetAddr \/ GCall \/ GReturn
     \/ GPushTrap \/ GThrow \/ GCRaise \/ GOverflow

GSpec == GInit /\ [][GNext]_allvars

-----------------------------------------------------------------------------
\* The words nobody reads: those for code pointers
CodeWords == {calls[i] : i \in 1..Len(calls)} \cup {traps[i].pos : i \in 1..Len(traps)}

(* While the heap is sound, no word of the stack that the program or the runtime
   will read, and no register, is a pointer a collection did not follow: every
   allocation and every primitive leaves Accu, Env and all of the stack where
   the collector looks, and reads them again afterwards. *)
NothingReadIsDead ==
  heap = "sound" =>
    /\ AccuKind # "dead" /\ EnvKind # "dead"
    /\ \A i \in 1..sp : kind[i] = "dead" => i \in CodeWords

(* The words saved for the registers are what the collector takes them for: an
   environment is followed wherever it is saved, and counts of arguments and
   links of trap frames never are. *)
SavedKinds ==
  /\ EnvKind = "imm" <=> Env = 0
  /\ \A i \in 1..Len(calls) : /\ kind[calls[i] - 1] = "imm" <=> stack[calls[i] - 1] = 0
                              /\ kind[calls[i] - 2] = "imm"
  /\ \A i \in 1..Len(traps) : /\ kind[traps[i].pos - 2] = "imm" <=> stack[traps[i].pos - 2] = 0
                              /\ kind[traps[i].pos - 1] = "imm"
                              /\ kind[traps[i].pos - 3] = "imm"

\* What the OCaml runtime expects of the bytecode machine on top of it: every word
\* of the stack is a value or an address outside the heap,
NoStaleWordScanned == heap # "stale_word"

\* and the local roots are those of primitives that are running.
NoDeadRootsScanned == heap # "dead_roots"
=============================================================================
