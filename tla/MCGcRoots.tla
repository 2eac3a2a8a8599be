----------------------------- MODULE MCGcRoots -----------------------------
(* Bounds for model checking GcRoots. *)
EXTENDS GcRoots

MCClosures == {2}

\* The values of words nobody reads, as in MCZamControl; their kinds all count.
GView ==
  <<[i \in 1..MaxStack |-> IF i > sp \/ i \in CodeWords THEN 0 ELSE stack[i]],
    sp, Env, extra_args, handling, native, status, at, restored, layout,
    kinds, caml_local_roots, heap>>
=============================================================================
