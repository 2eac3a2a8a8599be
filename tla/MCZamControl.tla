---------------------------- MODULE MCZamControl ----------------------------
(* Bounds for model checking ZamControl.  A closure is an even word, as a
   pointer is; two of them tell one activation's environment from another's. *)
EXTENDS ZamControl

MCClosures == {2, 4}

\* Words nobody reads before they are written again: those above sp and the
\* code-pointer words.  States that differ only there behave alike.
Unread == (sp + 1 .. MaxStack) \cup {calls[i] : i \in 1..Len(calls)}
            \cup {traps[i].pos : i \in 1..Len(traps)}

LiveView ==
  <<[i \in 1..MaxStack |-> IF i \in Unread THEN 0 ELSE stack[i]],
    sp, Env, extra_args, handling, native, status, at, restored, layout>>
=============================================================================
