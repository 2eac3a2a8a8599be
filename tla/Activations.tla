----------------------------- MODULE Activations -----------------------------
(***************************************************************************)
(* What OCaml code may rely on when it calls, returns and raises, stated   *)
(* without a stack: a sequence of suspended activations, each with the     *)
(* environment and the count of extra arguments it will get back, and a    *)
(* sequence of installed handlers, each belonging to one activation.       *)
(* ZamControl shows that the words the runtime keeps on the OCaml stack,   *)
(* its trap chain and its jump buffers implement this.                     *)
(***************************************************************************)
EXTENDS Integers, Sequences

CONSTANT Closures      \* what the environment register may hold inside a function

VARIABLES
  env,        \* environment of the running activation
  extra,      \* arguments the running function has not taken yet
  calls,      \* suspended activations, outermost first: [env, extra]
  handlers,   \* installed handlers, outermost first: [depth, env, extra]
  outcome     \* "running", "stopped" or "uncaught"

vars == <<env, extra, calls, handlers, outcome>>

Last(s)  == s[Len(s)]
Front(s) == SubSeq(s, 1, Len(s) - 1)

\* The running activation has installed no handler that is still there.
Unprotected == \A i \in 1..Len(handlers) : handlers[i].depth < Len(calls)

Init ==
  /\ env = 0 /\ extra = 0
  /\ calls = <<>> /\ handlers = <<>>
  /\ outcome = "running"

(* A call suspends the running activation as it is. *)
Call ==
  /\ calls' = Append(calls, [env |-> env, extra |-> extra])
  /\ env' \in Closures /\ extra' \in Nat
  /\ UNCHANGED <<handlers, outcome>>

(* A tail call, the application of a result to the remaining arguments, or a
   function taking its arguments: another function (or the same) runs in the
   place of this one. *)
Continue ==
  /\ calls # <<>> /\ Unprotected
  /\ env' \in Closures /\ extra' \in Nat
  /\ UNCHANGED <<calls, handlers, outcome>>

(* A return gives the caller back what it had when it called. *)
Return ==
  /\ calls # <<>> /\ Unprotected
  /\ env' = Last(calls).env /\ extra' = Last(calls).extra
  /\ calls' = Front(calls)
  /\ UNCHANGED <<handlers, outcome>>

Try ==
  /\ handlers' = Append(handlers,
                        [depth |-> Len(calls), env |-> env, extra |-> extra])
  /\ UNCHANGED <<env, extra, calls, outcome>>

(* The body of a try ends in the activation, and with the registers, that
   installed the handler. *)
EndTry ==
  /\ handlers # <<>>
  /\ Last(handlers) = [depth |-> Len(calls), env |-> env, extra |-> extra]
  /\ handlers' = Front(handlers)
  /\ UNCHANGED <<env, extra, calls, outcome>>

(* An exception drops every activation above the innermost handler. *)
Raise ==
  /\ handlers # <<>>
  /\ env' = Last(handlers).env /\ extra' = Last(handlers).extra
  /\ calls' = SubSeq(calls, 1, Last(handlers).depth)
  /\ handlers' = Front(handlers)
  /\ UNCHANGED outcome

Uncaught ==
  /\ handlers = <<>>
  /\ outcome' = "uncaught"
  /\ UNCHANGED <<env, extra, calls, handlers>>

Stop ==
  /\ calls = <<>> /\ handlers = <<>>
  /\ outcome' = "stopped"
  /\ UNCHANGED <<env, extra, calls, handlers>>

Next ==
  /\ outcome = "running"
  /\ Call \/ Continue \/ Return \/ Try \/ EndTry \/ Raise \/ Uncaught \/ Stop

Spec == Init /\ [][Next]_vars
=============================================================================
