------------------------------ MODULE CodeGen ------------------------------
(***************************************************************************)
(* From the basic blocks of GenModuleCreator to LLVM blocks:               *)
(* GenFunction::CodeGen (src/GenFunction.cpp), GenBlock::CodeGen,          *)
(* GenCodeForInst, genTermInst and getPtrToFunc (src/GenBlock.cpp).        *)
(*                                                                         *)
(* All code is emitted through one IRBuilder, at its insertion point.  A   *)
(* CLOSURE generates the function it needs on the spot, in the middle of a *)
(* block of another; PUSHTRAP writes into the block of its handler; and a  *)
(* block of bytecode is split where the code of an instruction branches.   *)
(***************************************************************************)
EXTENDS GenModuleCreator

(* What ocamlc's jumps are like: only the test that ends a loop goes back, and
   every try has a handler of its own. *)
OnlyTestsGoBack(p) ==
  LET insts == 0 .. Len(p) - 1
      traps == {i \in insts : p[i + 1].op = "PUSHTRAP"}
  IN /\ \A i \in insts : p[i + 1].op \in {"BRANCH", "PUSHTRAP", "SWITCH"} =>
          \A t \in Targets(p, i) : i < t
     /\ \A i, j \in traps : p[i + 1].dests[1] = p[j + 1].dests[1] => i = j

ASSUME JumpsAssumption == \A p \in Programs : OnlyTestsGoBack(p)

VARIABLES
  phase,     \* "create" (GenModuleCreator runs), "emit" or "compiled"
  text,      \* LlvmBlocks: function -> block -> sequence of LLVM blocks
  insert,    \* the insertion point: <<function, block, number of the LLVM block>>
  made,      \* functions whose LlvmFunc is set
  active     \* calls of CodeGen, innermost last: [fn, block, k, j]

emission == <<phase, text, insert, made, active>>
allvars  == <<vars, emission>>

\* What an LLVM block is a sequence of: code, and terminators
Code(i)       == [code |-> i, ends |-> FALSE, targets |-> {}]
Branch(to)    == [code |-> -1, ends |-> TRUE, targets |-> to]
Ret           == Branch({})
HandlerEntry  == Code(-2)      \* getExceptionValue and removeExceptionContext
InitCall      == Code(-3)      \* the call of init

-----------------------------------------------------------------------------
LlvmBlock(f, b)  == <<f, b, Len(text[f][b])>>     \* the one added last
FrontBlock(f, b) == <<f, b, 1>>                   \* LlvmBlocks.front()

Emitted(T, p, items) == [T EXCEPT ![p[1]][p[2]][p[3]] = @ \o items]

\* addBlock, for each of the sequence of new LLVM blocks
addBlock(T, f, b, new) == [T EXCEPT ![f][b] = @ \o new]

Lowest(f)      == CHOOSE b \in DOMAIN Functions[f] : \A a \in DOMAIN Functions[f] : b <= a
Above(f, b)    == {a \in DOMAIN Functions[f] : a > b}
NextBlock(f, b) == CHOOSE a \in Above(f, b) : \A c \in Above(f, b) : a <= c

\* k: instructions of the block done; j: functions of a closure done
Starting(f) == [fn |-> f, block |-> Lowest(f), k |-> 0, j |-> 0]

Top      == Last(active)
f_       == Top.fn
b_       == Top.block
Insts    == Functions[f_][b_].Instructions
Current  == Insts[Top.k]
WithTop(r) == [active EXCEPT ![Len(active)] = r]
Advanced == WithTop([Top EXCEPT !.k = @ + 1, !.j = 0])

CInit ==
  /\ Init
  /\ phase = "create"
  /\ text = << >> /\ insert = <<MAIN, MAIN, 1>>
  /\ made = {} /\ active = <<>>

Create == phase = "create" /\ Next /\ UNCHANGED emission

\* Context::compile.  The constructor of a GenBlock has made its first LLVM block.
Compile ==
  /\ phase = "create" /\ pc = "done"
  /\ phase' = "emit"
  /\ text' = [f \in DOMAIN Functions |-> [b \in DOMAIN Functions[f] |-> << <<>> >>]]
  /\ made' = {MAIN} /\ active' = <<Starting(MAIN)>>
  /\ UNCHANGED <<vars, insert>>

-----------------------------------------------------------------------------
(* GenBlock::CodeGen, before the first instruction *)
BeginBlock ==
  /\ phase = "emit" /\ Top.k = 0
  /\ insert' = LlvmBlock(f_, b_)
  /\ text' = IF f_ = MAIN /\ Functions[f_][b_].PreviousBlocks = {}
             THEN Emitted(text, insert', <<InitCall>>) ELSE text
  /\ active' = WithTop([Top EXCEPT !.k = 1])
  /\ UNCHANGED <<vars, phase, made>>

(* GenCodeForInst, by what the instruction does to the blocks *)
At(ops) == phase = "emit" /\ Top.k \in 1..Len(Insts) /\ Op(Current) \in ops

EmitPlain ==
  /\ At({"NEXT", "RESTART"})
  /\ text' = Emitted(text, insert, <<Code(Current)>>)
  /\ active' = Advanced
  /\ UNCHANGED <<vars, phase, insert, made>>

\* The block is split: with too few arguments the function returns.
EmitGrab ==
  /\ At({"GRAB"})
  /\ LET n == Len(text[f_][b_]) IN
       /\ text' = addBlock(
                    Emitted(text, insert, <<Branch({<<f_, b_, n + 1>>, <<f_, b_, n + 2>>})>>),
                    f_, b_, << <<Code(Current), Ret>>, <<Code(Current)>> >>)
       /\ insert' = <<f_, b_, n + 2>>
  /\ active' = Advanced
  /\ UNCHANGED <<vars, phase, made>>

\* Mutant: the insertion point is not moved to the handler for its first calls.
EmitPushTrap_entry_in_body ==
  /\ At({"PUSHTRAP"})
  /\ LET n == Len(text[f_][b_])
         h == Dest(Current)
         T == Emitted(text, insert, <<Code(Current), Branch({FrontBlock(f_, h), <<f_, b_, n + 1>>})>>)
     IN /\ text' = addBlock(T, f_, b_, << <<HandlerEntry, Code(Current)>> >>)
        /\ insert' = <<f_, b_, n + 1>>
  /\ active' = Advanced
  /\ UNCHANGED <<vars, phase, made>>

EmitPushTrap ==
  /\ At({"PUSHTRAP"})
  /\ LET n == Len(text[f_][b_])
         h == Dest(Current)
         T == Emitted(text, insert,
                      <<Code(Current), Branch({FrontBlock(f_, h), <<f_, b_, n + 1>>})>>)
     IN /\ text' = addBlock(Emitted(T, LlvmBlock(f_, h), <<HandlerEntry>>),
                            f_, b_, << <<Code(Current)>> >>)
        /\ insert' = <<f_, b_, n + 1>>
  /\ active' = Advanced
  /\ UNCHANGED <<vars, phase, made>>

\* Mutant: the branch is to blocks numbered from 2.
EmitReturn_one_too_far ==
  /\ At({"RETURN"})
  /\ LET n == Len(text[f_][b_]) IN
       /\ text' = addBlock(
                    Emitted(text, insert,
                            <<Code(Current), Branch({<<f_, b_, n + 2>>, <<f_, b_, n + 3>>})>>),
                    f_, b_, << <<Code(Current), Ret>>, <<Ret>> >>)
       /\ insert' = <<f_, b_, n + 2>>
  /\ active' = Advanced
  /\ UNCHANGED <<vars, phase, made>>

EmitReturn ==
  /\ At({"RETURN"})
  /\ LET n == Len(text[f_][b_]) IN
       /\ text' = addBlock(
                    Emitted(text, insert,
                            <<Code(Current), Branch({<<f_, b_, n + 1>>, <<f_, b_, n + 2>>})>>),
                    f_, b_, << <<Code(Current), Ret>>, <<Ret>> >>)
       /\ insert' = <<f_, b_, n + 2>>
  /\ active' = Advanced
  /\ UNCHANGED <<vars, phase, made>>

\* Mutant: nothing follows the call in tail position.
EmitEnd_no_ret ==
  /\ At(Ends \ {"RETURN"})
  /\ text' = Emitted(text, insert, <<Code(Current)>>)
  /\ active' = Advanced
  /\ UNCHANGED <<vars, phase, insert, made>>

EmitEnd ==
  /\ At(Ends \ {"RETURN"})
  /\ text' = Emitted(text, insert, <<Code(Current), Ret>>)
  /\ active' = Advanced
  /\ UNCHANGED <<vars, phase, insert, made>>

\* Mutant: conditional jumps enter where the target block is at the time.
JumpTargets_last(i) ==
  LET G == Functions[f_][b_] IN
    CASE Op(i) = "BRANCH" -> {LlvmBlock(f_, G.BrBlock)}
      [] Op(i) = "COND"   -> {LlvmBlock(f_, G.BrBlock), LlvmBlock(f_, G.NoBrBlock)}
      [] Op(i) = "SWITCH" -> {LlvmBlock(f_, d) : d \in Range(Dests(i))}

JumpTargets(i) ==
  LET G == Functions[f_][b_] IN
    CASE Op(i) = "BRANCH" -> {LlvmBlock(f_, G.BrBlock)}
      [] Op(i) = "COND"   -> {FrontBlock(f_, G.BrBlock), FrontBlock(f_, G.NoBrBlock)}
      [] Op(i) = "SWITCH" -> {LlvmBlock(f_, d) : d \in Range(Dests(i))}

EmitJump ==
  /\ At(Jumps \cup {"SWITCH"})
  /\ text' = Emitted(text, insert, <<Code(Current), Branch(JumpTargets(Current))>>)
  /\ active' = Advanced
  /\ UNCHANGED <<vars, phase, insert, made>>

\* The function the closure at hand needs next
Wanted == Dests(Current)[Top.j + 1]

\* Mutant: LlvmFunc is not set before the blocks are generated.
GenerateFunction_set_late ==
  /\ At({"CLOSURE"}) /\ Wanted \notin made
  /\ active' = Append(active, Starting(Wanted))
  /\ UNCHANGED <<vars, phase, text, insert, made>>

\* getPtrToFunc, of a function that has no code yet: CodeGen, from its start
GenerateFunction ==
  /\ At({"CLOSURE"}) /\ Wanted \notin made
  /\ Wanted \in DOMAIN Functions
  /\ made' = made \cup {Wanted}
  /\ active' = Append(active, Starting(Wanted))
  /\ UNCHANGED <<vars, phase, text, insert>>

\* Mutant: the insertion point stays where generating the function left it.
Resumed_elsewhere == insert

\* Where the code goes on after a function was generated
Resumed == LlvmBlock(f_, b_)

EmitClosure ==
  /\ At({"CLOSURE"}) /\ Wanted \in made
  /\ insert' = Resumed
  /\ text' = Emitted(text, insert', <<Code(Current)>>)
  /\ active' = IF Top.j + 1 = Len(Dests(Current)) THEN Advanced
               ELSE WithTop([Top EXCEPT !.j = @ + 1])
  /\ UNCHANGED <<vars, phase, made>>

-----------------------------------------------------------------------------
NeedsBranch(i) == Op(i) \notin Jumps \cup Ends \cup {"SWITCH"}

\* genTermInst, and on to the next block of the function or back to the caller
EndBlock ==
  /\ phase = "emit" /\ Top.k > Len(Insts)
  /\ insert' = LlvmBlock(f_, b_)
  /\ text' = IF NeedsBranch(Last(Insts))
             THEN Emitted(text, insert',
                          <<Branch({LlvmBlock(f_, Head(Functions[f_][b_].NextBlocks))})>>)
             ELSE text
  /\ \/ /\ Above(f_, b_) # {}
        /\ active' = WithTop([fn |-> f_, block |-> NextBlock(f_, b_), k |-> 0, j |-> 0])
        /\ UNCHANGED phase
     \/ /\ Above(f_, b_) = {}
        /\ active' = SubSeq(active, 1, Len(active) - 1)
        /\ phase' = IF active' = <<>> THEN "compiled" ELSE phase
  /\ UNCHANGED <<vars, made>>

-----------------------------------------------------------------------------
CNext ==
  \/ Create \/ Compile
  \/ BeginBlock
  \/ EmitPlain \/ EmitGrab \/ EmitPushTrap \/ EmitReturn \/ EmitEnd \/ EmitJump
  \/ GenerateFunction \/ EmitClosure
  \/ EndBlock

\* The passes and the generator run in one thread, to their end.
CSpec == CInit /\ [][CNext]_allvars /\ WF_allvars(CNext)

-----------------------------------------------------------------------------
PointsOf(f) == UNION {{<<f, b, n>> : n \in 1..Len(text[f][b])} : b \in DOMAIN text[f]}
Points      == UNION {PointsOf(f) : f \in made}

LlvmCode(p) == text[p[1]][p[2]][p[3]]

CTypeOK ==
  /\ phase \in {"create", "emit", "compiled"}
  /\ made \subseteq DOMAIN Functions
  /\ phase # "create" => /\ DOMAIN text = DOMAIN Functions
                         /\ \A f \in DOMAIN text : DOMAIN text[f] = DOMAIN Functions[f]
  /\ \A p \in Points : \A k \in 1..Len(LlvmCode(p)) :
       LET c == LlvmCode(p)[k] IN
         /\ c.code \in Indices \cup {-1, -2, -3} /\ c.ends \in BOOLEAN
         /\ c.targets \subseteq Points
  /\ \A k \in 1..Len(active) :
       /\ active[k].fn \in DOMAIN Functions
       /\ active[k].block \in DOMAIN Functions[active[k].fn]
  /\ phase = "emit" => active # <<>>

(* Every LLVM block ends in its only terminator. *)
OneTerminator ==
  phase = "compiled" =>
    \A p \in Points :
      /\ LlvmCode(p) # <<>>
      /\ \A k \in 1..Len(LlvmCode(p)) : LlvmCode(p)[k].ends <=> k = Len(LlvmCode(p))

(* Code goes where it belongs: the LLVM blocks of a bytecode block hold the
   code of its own instructions, all of them, in their order, whatever function
   was generated in between. *)
CodesOf(T) == {c.code : c \in {d \in Range(T) : d.code >= 0}}

Place(s, i) == CHOOSE k \in 1..Len(s) : s[k] = i

BlockInPlace(s, t) ==
  /\ Range(s) = UNION {CodesOf(t[n]) : n \in 1..Len(t)}
  /\ \A n \in 1..Len(t) : \A k, l \in 1..Len(t[n]) :
       k < l /\ t[n][k].code >= 0 /\ t[n][l].code >= 0
         => Place(s, t[n][k].code) <= Place(s, t[n][l].code)

InPlace ==
  phase = "compiled" =>
    \A f \in made : \A b \in DOMAIN text[f] :
      BlockInPlace(Functions[f][b].Instructions, text[f][b])

(* A branch to another block enters it at its beginning, so none of its code is
   passed over, although some branches are made to the LLVM block the target
   had last at the time.  Branches within a block go forward. *)
EntersAtFront ==
  phase = "compiled" =>
    \A p \in Points : \A k \in 1..Len(LlvmCode(p)) : \A q \in LlvmCode(p)[k].targets :
      /\ q[1] = p[1]
      /\ q[2] # p[2] \/ q[3] <= p[3] => q[3] = 1

(* A handler begins with the code that takes the exception and gives its
   context back, once, and no other block has any of it. *)
HandlersEntered ==
  phase = "compiled" =>
    \A f \in made : \A b \in DOMAIN text[f] :
      LET t == text[f][b]
          handles == \E i \in Body(f) : isPushTrap(i) /\ Dest(i) = b
      IN /\ handles <=> t[1] # <<>> /\ t[1][1] = HandlerEntry
         /\ \A n \in 1..Len(t) : \A k \in 1..Len(t[n]) :
              t[n][k] = HandlerEntry => n = 1 /\ k = 1

(* Generating a function does not start over while it is being generated, and
   every function whose address the code takes is generated: recursion and
   mutual recursion of the program do not become recursion of the compiler. *)
GeneratedOnce ==
  /\ \A k, l \in 1..Len(active) : active[k].fn = active[l].fn => k = l
  /\ phase = "compiled" =>
       \A f \in made : \A i \in Body(f) : Op(i) = "CLOSURE" => Range(Dests(i)) \subseteq made

(* The passes and the generation end, and without a crash, for every program
   initFunction does not cut short. *)
Compiles == LastEntryHighest => <>(phase = "compiled")
=============================================================================
