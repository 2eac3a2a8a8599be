----------------------------- MODULE MCZamData -----------------------------
(* Definitions, literals and programs for ZamData: each program uses the
   instructions for one kind of data. *)
EXTENDS ZamData

\* let rec f x = .. and g x y = .. and h x = .. over two variables, a function of
\* two arguments over one, and a closed one
MCDefinitions ==
  <<[arity |-> <<1, 2, 1>>, vars |-> 2, rec |-> TRUE],
    [arity |-> <<3>>, vars |-> 1, rec |-> FALSE],
    [arity |-> <<2>>, vars |-> 0, rec |-> TRUE],
    [arity |-> <<1>>, vars |-> 2, rec |-> FALSE]>>

\* Atom(0), a string, a float, an array of two floats, and the global: a record of them
MCLiterals ==
  <<[tag |-> 0, fields |-> <<>>],
    [tag |-> 0, fields |-> <<Ptr(3, 0), Ptr(4, 0), Ptr(5, 0)>>],
    [tag |-> String_tag, fields |-> <<Byte(200), Byte(97)>>],
    [tag |-> Double_tag, fields |-> Words(7)],
    [tag |-> Double_array_tag, fields |-> Words(7) \o Words(8)]>>

Program(instructions, length) == [instructions |-> instructions, length |-> length]

MCPrograms ==
  {Program({"define", "free", "function", "apply"}, 7),
   Program({"acc", "define", "free", "function", "apply"}, 6),
   Program({"push", "acc", "globalfield", "floats", "float", "setfloat", "length", "box"}, 7),
   Program({"push", "pop", "acc", "const", "global", "globalfield", "char", "setchar"}, 7),
   Program({"push", "assign", "atom", "block", "item", "setitem", "isint", "not"}, 5),
   Program({"acc", "block", "length", "get", "set", "add"}, 5),
   Program({"acc", "tuple", "setglobal", "global", "globalfield"}, 6),
   Program({"push", "tuple", "const", "method"}, 7)}
=============================================================================
