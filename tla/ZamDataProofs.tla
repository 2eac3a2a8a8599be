--------------------------- MODULE ZamDataProofs ---------------------------
(***************************************************************************)
(* Proofs about ZamData: the words of the heap can be parsed, and the      *)
(* environment is at the code that runs, for every set of definitions,     *)
(* programs, constants and sizes.                                          *)
(***************************************************************************)
EXTENDS ZamData, TLAPS

(* What is said of words, blocks and the heap, of any heap h. *)

\* The block of definition d: its functions, then its variables
IsFunctions(tag, f, d) ==
  /\ tag = Closure_tag /\ d \in DOMAIN Definitions
  /\ Len(f) = 2 * Len(Definitions[d].arity) - 1 + Definitions[d].vars
  /\ \A i \in 1 .. 2 * Len(Definitions[d].arity) - 1 : f[i] = FunctionWords(d)[i]

\* w is at function k of a block of definition d
FunctionPtr(h, w, d, k) ==
  /\ w \in Word /\ w[1] = "ptr" /\ w[2] \in DOMAIN h
  /\ IsFunctions(h[w[2]].tag, h[w[2]].fields, d)
  /\ k \in 1 .. Len(Definitions[d].arity) /\ w[3] = 2 * (k - 1)

\* w is a value: an integer, or the address of a block or of a function in one
ValueIn(h, w) ==
  /\ w \in Word
  /\ \/ w[1] = "int"
     \/ w[1] = "ptr" /\ w[2] \in DOMAIN h /\ w[3] = 0
     \/ \E d, k \in Int : FunctionPtr(h, w, d, k)

ValuesIn(h, s) == s \in Seq(Word) /\ \A i \in 1..Len(s) : ValueIn(h, s[i])

\* Function k of definition d, applied to less arguments than it has
IsPartial(h, tag, f, d, k) ==
  /\ tag = Closure_tag /\ Len(f) >= 2
  /\ f[1] = Restart(d, k) /\ FunctionPtr(h, f[2], d, k)
  /\ \A i \in 3..Len(f) : ValueIn(h, f[i])

\* A block with this tag and these fields holds what the tag says.
ContentIn(h, tag, f) ==
  /\ tag \in Nat /\ f \in Seq(Word)
  /\ tag = Double_tag => Len(f) = Double_wosize
  /\ tag \in {Double_tag, Double_array_tag} => \A i \in 1..Len(f) : f[i][1] = "dbl"
  /\ tag = String_tag => \A i \in 1..Len(f) : f[i][1] = "byte"
  /\ tag = Closure_tag =>
       \/ \E d \in Int : /\ IsFunctions(tag, f, d)
                         /\ \A i \in 2 * Len(Definitions[d].arity) .. Len(f) : ValueIn(h, f[i])
       \/ \E d, k \in Int : IsPartial(h, tag, f, d, k)
  /\ tag \notin {Double_tag, Double_array_tag, String_tag, Closure_tag} =>
       \A i \in 1..Len(f) : ValueIn(h, f[i])

HeapIn(h) ==
  /\ h \in Seq([tag : Nat, fields : Seq(Word)]) /\ Len(h) >= 2
  /\ \A b \in 1..Len(h) : ContentIn(h, h[b].tag, h[b].fields)

\* The inductive invariant
ZInv ==
  /\ HeapIn(heap)
  /\ ValueIn(heap, Accu) /\ ValueIn(heap, Env)
  /\ ValuesIn(heap, stack)
  /\ ValuesIn(heap, caml_global_data)
  /\ running # TOPLEVEL => FunctionPtr(heap, Env, running[1], running[2])

-----------------------------------------------------------------------------
(* From heap h to heap g blocks may be added, and written to unless they are
   closures. *)
Heap == Seq([tag : Nat, fields : Seq(Word)])

Grows(h, g) ==
  /\ h \in Heap /\ g \in Heap /\ Len(h) <= Len(g)
  /\ \A b \in 1..Len(h) : /\ g[b].tag = h[b].tag
                          /\ h[b].tag = Closure_tag => g[b].fields = h[b].fields

LEMMA Element ==
  ASSUME NEW S, NEW s \in Seq(S)
  PROVE  DOMAIN s = 1..Len(s) /\ Len(s) \in Nat /\ \A i \in 1..Len(s) : s[i] \in S
  OBVIOUS

LEMMA ConcatParts ==
  ASSUME NEW S, NEW s \in Seq(S), NEW t \in Seq(S)
  PROVE  /\ s \o t \in Seq(S) /\ Len(s \o t) = Len(s) + Len(t)
         /\ \A i \in 1..Len(s) : (s \o t)[i] = s[i]
         /\ \A i \in Len(s) + 1 .. Len(s) + Len(t) :
              i - Len(s) \in 1..Len(t) /\ (s \o t)[i] = t[i - Len(s)]
  OBVIOUS

LEMMA DefinitionType ==
  ASSUME NEW d \in DOMAIN Definitions
  PROVE  /\ d \in 1..Len(Definitions) /\ d \in Nat
         /\ Definitions[d].arity \in Seq(Nat) /\ Definitions[d].arity # <<>>
         /\ Len(Definitions[d].arity) \in Nat /\ Len(Definitions[d].arity) >= 1
         /\ Definitions[d].vars \in Nat /\ Definitions[d].rec \in BOOLEAN
         /\ ~Definitions[d].rec => Len(Definitions[d].arity) = 1
<1> DEFINE Definition == [arity : Seq(Nat), vars : Nat, rec : BOOLEAN]
<1>1. /\ d \in 1..Len(Definitions) /\ d \in Nat
      /\ Definitions[d] \in Definition
  <2>1. Definitions \in Seq(Definition)
    BY DefinitionsAssumption
  <2> HIDE DEF Definition
  <2> QED
    BY <2>1, Element
<1>2. Definitions[d].arity \in Seq(Nat) /\ Definitions[d].arity # <<>>
  BY <1>1, DefinitionsAssumption
<1>3. Len(Definitions[d].arity) \in Nat /\ Len(Definitions[d].arity) >= 1
  BY <1>2
<1> QED
  BY <1>1, <1>2, <1>3, DefinitionsAssumption

LEMMA FunctionPtrGrows ==
  ASSUME NEW h, NEW g, Grows(h, g), NEW w, NEW d, NEW k, FunctionPtr(h, w, d, k)
  PROVE  FunctionPtr(g, w, d, k)
<1>1. w[2] \in 1..Len(h) /\ w[2] \in DOMAIN g
  <2>1. DOMAIN h = 1..Len(h) /\ DOMAIN g = 1..Len(g) /\ Len(h) \in Nat /\ Len(g) \in Nat
    BY DEF Grows, Heap
  <2> QED
    BY <2>1 DEF FunctionPtr, Grows
<1>2. g[w[2]].tag = h[w[2]].tag /\ g[w[2]].fields = h[w[2]].fields
  BY <1>1 DEF FunctionPtr, IsFunctions, Grows
<1> QED
  BY <1>1, <1>2 DEF FunctionPtr

LEMMA ValueGrows ==
  ASSUME NEW h, NEW g, Grows(h, g), NEW w, ValueIn(h, w)
  PROVE  ValueIn(g, w)
<1>1. CASE w[1] = "int"
  BY <1>1 DEF ValueIn
<1>2. CASE w[1] = "ptr" /\ w[2] \in DOMAIN h /\ w[3] = 0
  BY <1>2 DEF ValueIn, Grows, Heap
<1>3. CASE \E d, k \in Int : FunctionPtr(h, w, d, k)
  BY <1>3, FunctionPtrGrows DEF ValueIn
<1> QED
  BY <1>1, <1>2, <1>3 DEF ValueIn

LEMMA ValuesGrow ==
  ASSUME NEW h, NEW g, Grows(h, g), NEW s, ValuesIn(h, s)
  PROVE  ValuesIn(g, s)
  BY ValueGrows DEF ValuesIn

LEMMA ContentGrows ==
  ASSUME NEW h, NEW g, Grows(h, g), NEW tag, NEW f, ContentIn(h, tag, f)
  PROVE  ContentIn(g, tag, f)
<1>1. ASSUME NEW d \in Int, IsFunctions(tag, f, d),
             \A i \in 2 * Len(Definitions[d].arity) .. Len(f) : ValueIn(h, f[i])
      PROVE  \A i \in 2 * Len(Definitions[d].arity) .. Len(f) : ValueIn(g, f[i])
  BY <1>1, ValueGrows
<1>2. ASSUME NEW d \in Int, NEW k \in Int, IsPartial(h, tag, f, d, k)
      PROVE  IsPartial(g, tag, f, d, k)
  BY <1>2, ValueGrows, FunctionPtrGrows DEF IsPartial
<1>3. ASSUME \A i \in 1..Len(f) : ValueIn(h, f[i])
      PROVE  \A i \in 1..Len(f) : ValueIn(g, f[i])
  BY <1>3, ValueGrows
<1> QED
  BY <1>1, <1>2, <1>3 DEF ContentIn

\* One more block
LEMMA AppendGrows ==
  ASSUME NEW h, HeapIn(h), NEW tag, NEW f, ContentIn(h, tag, f),
         NEW g, g = Append(h, [tag |-> tag, fields |-> f])
  PROVE  /\ Grows(h, g) /\ HeapIn(g)
         /\ Len(g) = Len(h) + 1 /\ g[Len(h) + 1] = [tag |-> tag, fields |-> f]
<1>1. h \in Heap /\ [tag |-> tag, fields |-> f] \in [tag : Nat, fields : Seq(Word)]
  BY DEF HeapIn, ContentIn, Heap
<1>2. /\ g \in Heap /\ Len(g) = Len(h) + 1
      /\ \A b \in 1..Len(h) : g[b] = h[b]
      /\ g[Len(h) + 1] = [tag |-> tag, fields |-> f]
  BY <1>1 DEF Heap
<1>3. Grows(h, g)
  BY <1>1, <1>2 DEF Grows, Heap
<1>4. ASSUME NEW b \in 1..Len(g)
      PROVE  ContentIn(g, g[b].tag, g[b].fields)
  <2>1. CASE b \in 1..Len(h)
    BY <1>2, <1>3, <2>1, ContentGrows DEF HeapIn
  <2>2. CASE b = Len(h) + 1
    BY <1>2, <1>3, <2>2, ContentGrows
  <2> QED
    BY <1>1, <1>2, <2>1, <2>2 DEF Heap
<1> QED
  BY <1>2, <1>3, <1>4 DEF HeapIn, Heap

\* Other words in a block that is not a closure
LEMMA StoreGrows ==
  ASSUME NEW h, HeapIn(h), NEW b \in 1..Len(h), h[b].tag # Closure_tag,
         NEW f, ContentIn(h, h[b].tag, f),
         NEW g, g = [h EXCEPT ![b].fields = f]
  PROVE  Grows(h, g) /\ HeapIn(g)
<1>1. h \in Heap /\ f \in Seq(Word) /\ h[b] \in [tag : Nat, fields : Seq(Word)]
  <2>1. h \in Heap /\ f \in Seq(Word)
    BY DEF HeapIn, ContentIn, Heap
  <2> QED
    BY <2>1, Element DEF Heap
<1>2. [h[b] EXCEPT !.fields = f] \in [tag : Nat, fields : Seq(Word)]
  BY <1>1
<1>3. /\ g \in Heap /\ Len(g) = Len(h)
      /\ \A c \in 1..Len(h) : c # b => g[c] = h[c]
      /\ g[b].tag = h[b].tag /\ g[b].fields = f
  BY <1>1, <1>2 DEF Heap
<1>4. Grows(h, g)
  BY <1>1, <1>3 DEF Grows, Heap
<1>5. ASSUME NEW c \in 1..Len(g)
      PROVE  ContentIn(g, g[c].tag, g[c].fields)
  <2>1. CASE c # b
    BY <1>3, <1>4, <2>1, ContentGrows DEF HeapIn
  <2>2. CASE c = b
    BY <1>3, <1>4, <2>2, ContentGrows
  <2> QED
    BY <2>1, <2>2
<1> QED
  BY <1>3, <1>4, <1>5 DEF HeapIn, Heap

-----------------------------------------------------------------------------
(* Sequences of values *)

LEMMA SubSeqValues ==
  ASSUME NEW h, NEW s, ValuesIn(h, s), NEW m \in Nat \ {0}, NEW n \in Int, n <= Len(s)
  PROVE  ValuesIn(h, SubSeq(s, m, n))
<1>1. s \in Seq(Word) /\ Len(s) \in Nat
  BY DEF ValuesIn
<1>2. SubSeq(s, m, n) \in Seq(Word)
  BY <1>1
<1>3. \A i \in 1..Len(SubSeq(s, m, n)) : SubSeq(s, m, n)[i] = s[m + i - 1] /\ m + i - 1 \in 1..Len(s)
  BY <1>1
<1> QED
  BY <1>2, <1>3 DEF ValuesIn

LEMMA DropValues ==
  ASSUME NEW h, NEW s, ValuesIn(h, s), NEW n \in Nat
  PROVE  ValuesIn(h, Drop(s, n))
<1>1. Len(s) \in Nat
  BY DEF ValuesIn
<1> QED
  BY <1>1, SubSeqValues DEF Drop

LEMMA ConcatValues ==
  ASSUME NEW h, NEW s, NEW t, ValuesIn(h, s), ValuesIn(h, t)
  PROVE  ValuesIn(h, s \o t)
<1>1. s \in Seq(Word) /\ t \in Seq(Word) /\ Len(s) \in Nat /\ Len(t) \in Nat
  BY DEF ValuesIn
<1>2. s \o t \in Seq(Word) /\ Len(s \o t) = Len(s) + Len(t)
  BY <1>1
<1>3. ASSUME NEW i \in 1..Len(s \o t) PROVE ValueIn(h, (s \o t)[i])
  <2>1. CASE i <= Len(s)
    BY <1>1, <1>2, <2>1 DEF ValuesIn
  <2>2. CASE i > Len(s)
    <3>1. (s \o t)[i] = t[i - Len(s)] /\ i - Len(s) \in 1..Len(t)
      BY <1>1, <1>2, <2>2
    <3> QED
      BY <3>1 DEF ValuesIn
  <2> QED
    BY <1>1, <1>2, <2>1, <2>2
<1> QED
  BY <1>2, <1>3 DEF ValuesIn

LEMMA SingleValue ==
  ASSUME NEW h, NEW w, ValueIn(h, w)
  PROVE  ValuesIn(h, <<w>>)
  BY DEF ValuesIn, ValueIn

LEMMA IntegerValue ==
  ASSUME NEW h, NEW n \in Int
  PROVE  ValueIn(h, Val_long(n))
  BY DEF ValueIn, Val_long, Word

LEMMA BlockValue ==
  ASSUME NEW h, h \in Heap, NEW b \in 1..Len(h)
  PROVE  ValueIn(h, Ptr(b, 0))
<1>1. Ptr(b, 0) \in Word
  BY DEF Ptr, Word
<1> QED
  BY <1>1 DEF ValueIn, Ptr, Heap

-----------------------------------------------------------------------------
(* What the guards of the instructions say of a value *)

LEMMA HeapType ==
  ASSUME ZInv
  PROVE  /\ heap \in Heap /\ DOMAIN heap = 1..Len(heap) /\ Len(heap) \in Nat /\ Len(heap) >= 2
         /\ stack \in Seq(Word) /\ Len(stack) \in Nat
         /\ \A i \in 1..Len(stack) : ValueIn(heap, stack[i])
<1>1. heap \in Heap /\ Len(heap) >= 2 /\ stack \in Seq(Word)
  BY DEF ZInv, HeapIn, ValuesIn, Heap
<1> QED
  BY <1>1 DEF Heap, ZInv, ValuesIn

\* An address
LEMMA PtrValue ==
  ASSUME ZInv, NEW w, ValueIn(heap, w), IsPtr(w)
  PROVE  /\ w[2] \in 1..Len(heap) /\ w[3] \in Nat
         /\ ContentIn(heap, Tag_val(w), Fields(w))
         /\ Tag_val(w) # Closure_tag => w[3] = 0
<1>1. w[1] = "ptr" /\ w[1] # "int"
  BY DEF IsPtr
<1>2. w[2] \in 1..Len(heap)
  BY <1>1, HeapType DEF ValueIn, FunctionPtr
<1>3. w[3] \in Nat /\ (heap[w[2]].tag # Closure_tag => w[3] = 0)
  BY <1>1 DEF ValueIn, FunctionPtr, IsFunctions
<1> QED
  BY <1>2, <1>3 DEF ZInv, HeapIn, Tag_val, Fields

\* A block of values
LEMMA BlockFields ==
  ASSUME ZInv, NEW w, ValueIn(heap, w), IsBlock(w)
  PROVE  /\ ValuesIn(heap, Fields(w)) /\ Wosize(w) = Len(Fields(w)) /\ Wosize(w) \in Nat
         /\ \A i \in 0 .. Wosize(w) - 1 : Field(w, i) = Fields(w)[i + 1] /\ ValueIn(heap, Field(w, i))
<1>1. /\ w[3] = 0 /\ ContentIn(heap, Tag_val(w), Fields(w))
      /\ Tag_val(w) \notin {Double_tag, Double_array_tag, String_tag, Closure_tag}
  <2>1. IsPtr(w) /\ Tag_val(w) < 247
    BY DEF IsBlock, Closure_tag
  <2>2. Tag_val(w) \in Nat
    BY <2>1, PtrValue DEF ContentIn
  <2>3. Tag_val(w) \notin {253, 254, 252, 247}
    BY <2>1, <2>2
  <2> QED
    BY <2>1, <2>3, PtrValue DEF Double_tag, Double_array_tag, String_tag, Closure_tag
<1>2. ValuesIn(heap, Fields(w))
  BY <1>1 DEF ContentIn, ValuesIn
<1>3. Len(Fields(w)) \in Nat
  BY <1>2 DEF ValuesIn
<1>4. \A i \in 0 .. Len(Fields(w)) - 1 : i + 1 \in 1..Len(Fields(w)) /\ w[3] + i + 1 = i + 1
  BY <1>1, <1>3
<1> QED
  BY <1>2, <1>3, <1>4 DEF ValuesIn, Wosize, Field

\* The words of a float, a float array, a string
LEMMA RawFields ==
  ASSUME ZInv, NEW w, ValueIn(heap, w),
         Is(w, Double_tag) \/ Is(w, Double_array_tag) \/ Is(w, String_tag)
  PROVE  /\ w[2] \in 1..Len(heap) /\ Tag_val(w) # Closure_tag /\ w[3] = 0
         /\ Fields(w) \in Seq(Word) /\ Wosize(w) = Len(Fields(w)) /\ Wosize(w) \in Nat
         /\ \A i \in 1..Wosize(w) : Fields(w)[i][2] \in Int
         /\ Is(w, Double_tag) => Wosize(w) = Double_wosize
<1>1. Tag_val(w) # Closure_tag /\ IsPtr(w)
  BY DEF Is, Double_tag, Double_array_tag, String_tag, Closure_tag
<1>2. /\ w[2] \in 1..Len(heap) /\ w[3] = 0
      /\ ContentIn(heap, Tag_val(w), Fields(w))
  BY <1>1, PtrValue
<1>3. Fields(w) \in Seq(Word) /\ Len(Fields(w)) \in Nat
  BY <1>2 DEF ContentIn
<1>4. \A i \in 1..Len(Fields(w)) : Fields(w)[i] \in Word
  BY <1>3
<1>5. \A i \in 1..Len(Fields(w)) : Fields(w)[i][2] \in Int
  BY <1>4 DEF Word
<1> QED
  BY <1>1, <1>2, <1>3, <1>5 DEF Wosize, Is, ContentIn

\* An address in a block of functions is at the code of one.
LEMMA FunctionCode ==
  ASSUME NEW w, NEW d, NEW k, FunctionPtr(heap, w, d, k)
  PROVE  /\ Field(w, 0) = Code(d, k) /\ Is(w, Closure_tag)
         /\ d \in 1..Len(Definitions) /\ k \in 1..Len(Definitions[d].arity)
         /\ Len(Definitions[d].arity) \in Nat /\ Definitions[d].vars \in Nat
<1>1. /\ d \in DOMAIN Definitions /\ k \in 1..Len(Definitions[d].arity)
      /\ w[3] = 2 * (k - 1) /\ Is(w, Closure_tag)
      /\ \A i \in 1 .. 2 * Len(Definitions[d].arity) - 1 : Fields(w)[i] = FunctionWords(d)[i]
  BY DEF FunctionPtr, IsFunctions, Is, IsPtr, Tag_val, Fields
<1>2. /\ d \in 1..Len(Definitions) /\ Definitions[d].arity \in Seq(Nat)
      /\ Definitions[d].vars \in Nat
  BY <1>1, DefinitionType
<1>3. Len(Definitions[d].arity) \in Nat
  BY <1>2
<1>4. 2 * k - 1 \in 1 .. 2 * Len(Definitions[d].arity) - 1 /\ w[3] + 0 + 1 = 2 * k - 1
  BY <1>1, <1>3
<1>5. (2 * k - 1) % 2 = 1 /\ (2 * k - 1 + 1) \div 2 = k
  BY <1>1, <1>3
<1>6. Field(w, 0) = FunctionWords(d)[2 * k - 1]
  BY <1>1, <1>4 DEF Field
<1>7. FunctionWords(d)[2 * k - 1] = Code(d, k)
  BY <1>4, <1>5 DEF FunctionWords
<1> QED
  BY <1>1, <1>2, <1>3, <1>6, <1>7

LEMMA FunctionValue ==
  ASSUME NEW h, NEW w, NEW d, NEW k, FunctionPtr(h, w, d, k)
  PROVE  ValueIn(h, w)
<1>1. d \in DOMAIN Definitions /\ k \in 1..Len(Definitions[d].arity)
  BY DEF FunctionPtr, IsFunctions
<1>2. d \in Int /\ k \in Int
  BY <1>1, DefinitionType
<1> QED
  BY <1>2 DEF ValueIn, FunctionPtr

\* What a closure is: at a function, or at the start of a partial application
LEMMA ClosureValue ==
  ASSUME ZInv, NEW w, ValueIn(heap, w), Is(w, Closure_tag)
  PROVE  \/ \E d, k \in Int : FunctionPtr(heap, w, d, k)
         \/ /\ w[3] = 0
            /\ \E d, k \in Int : IsPartial(heap, Tag_val(w), Fields(w), d, k)
<1>1. IsPtr(w) /\ Tag_val(w) = Closure_tag
  BY DEF Is
<1>2. w[2] \in 1..Len(heap) /\ ContentIn(heap, Tag_val(w), Fields(w))
  BY <1>1, PtrValue
<1>3. CASE w[3] = 0
  <2>1. ASSUME NEW d \in Int, IsFunctions(Tag_val(w), Fields(w), d)
        PROVE  FunctionPtr(heap, w, d, 1)
    <3>1. d \in DOMAIN Definitions
      BY <2>1 DEF IsFunctions
    <3>3. 1 \in 1..Len(Definitions[d].arity)
      BY <3>1, DefinitionType
    <3> QED
      BY <1>1, <1>2, <1>3, <2>1, <3>3, HeapType DEF FunctionPtr, IsPtr, Tag_val, Fields, ValueIn
  <2> QED
    BY <1>1, <1>2, <1>3, <2>1 DEF ContentIn
<1>4. CASE w[3] # 0
  BY <1>1, <1>4 DEF ValueIn, IsPtr
<1> QED
  BY <1>3, <1>4

-----------------------------------------------------------------------------
(* The steps instructions are made of *)

LEMMA ReadKeeps ==
  ASSUME ZInv, NEW w, NEW rest, ValueIn(heap, w), ValuesIn(heap, rest), Read(w, rest)
  PROVE  ZInv'
<1>1. /\ heap' = heap /\ Accu' = w /\ stack' = rest
      /\ Env' = Env /\ caml_global_data' = caml_global_data /\ running' = running
  BY DEF Read, Result
<1> QED
  BY <1>1 DEF ZInv

LEMMA AllocKeeps ==
  ASSUME ZInv, NEW tag, NEW fields, NEW rest,
         ContentIn(heap, tag, fields), ValuesIn(heap, rest), Alloc(tag, fields, rest)
  PROVE  ZInv'
<1>1. /\ heap' = Append(heap, [tag |-> tag, fields |-> fields])
      /\ Accu' = Ptr(Len(heap) + 1, 0) /\ stack' = rest
      /\ Env' = Env /\ caml_global_data' = caml_global_data /\ running' = running
  BY DEF Alloc, Result
<1>2. HeapIn(heap)
  BY DEF ZInv
<1>3. Grows(heap, heap') /\ HeapIn(heap') /\ Len(heap') = Len(heap) + 1
  BY <1>1, <1>2, AppendGrows
<1>4. ValueIn(heap', Ptr(Len(heap) + 1, 0))
  BY <1>3, HeapType, BlockValue DEF Grows
<1>5. ValueIn(heap', Env) /\ ValuesIn(heap', caml_global_data) /\ ValuesIn(heap', rest)
  BY <1>3, ValueGrows, ValuesGrow DEF ZInv
<1>6. running # TOPLEVEL => FunctionPtr(heap', Env, running[1], running[2])
  BY <1>3, FunctionPtrGrows DEF ZInv
<1> QED
  BY <1>1, <1>3, <1>4, <1>5, <1>6 DEF ZInv

LEMMA StoreKeeps ==
  ASSUME ZInv, IsPtr(Accu), Tag_val(Accu) # Closure_tag,
         NEW i \in Nat, NEW words \in Seq(Word), NEW rest, ValuesIn(heap, rest),
         Tag_val(Accu) \in {Double_tag, Double_array_tag} =>
           \A n \in 1..Len(words) : words[n][1] = "dbl",
         Tag_val(Accu) = String_tag => \A n \in 1..Len(words) : words[n][1] = "byte",
         Tag_val(Accu) \notin {Double_tag, Double_array_tag, String_tag} =>
           \A n \in 1..Len(words) : ValueIn(heap, words[n]),
         Store(i, words, rest)
  PROVE  ZInv'
<1> DEFINE F == Fields(Accu)
           T == Tag_val(Accu)
           f == [x \in DOMAIN F |-> IF x \in i + 1 .. i + Len(words) THEN words[x - i] ELSE F[x]]
<1>1. /\ heap' = [heap EXCEPT ![Accu[2]].fields = f]
      /\ Accu' = Val_unit /\ stack' = rest
      /\ Env' = Env /\ caml_global_data' = caml_global_data /\ running' = running
  BY DEF Store, Result, Fields
<1>2. /\ Accu[2] \in 1..Len(heap) /\ ContentIn(heap, T, F)
      /\ heap[Accu[2]].tag = T /\ HeapIn(heap)
  BY PtrValue DEF ZInv, Tag_val
<1>3. F \in Seq(Word) /\ T \in Nat /\ DOMAIN F = 1..Len(F) /\ Len(F) \in Nat
  BY <1>2, Element DEF ContentIn
<1>4. Len(words) \in Nat /\ \A n \in 1..Len(words) : words[n] \in Word
  BY Element
<1>5. \A x \in 1..Len(F) :
        \/ f[x] = F[x]
        \/ \E n \in 1..Len(words) : f[x] = words[n]
  <2> SUFFICES ASSUME NEW x \in 1..Len(F), x \in i + 1 .. i + Len(words)
               PROVE  \E n \in 1..Len(words) : f[x] = words[n]
    BY <1>3
  <2>1. x - i \in 1..Len(words) /\ f[x] = words[x - i]
    BY <1>3, <1>4
  <2> QED
    BY <2>1
<1>6. f \in Seq(Word) /\ Len(f) = Len(F)
  <2>1. \A x \in 1..Len(F) : F[x] \in Word
    BY <1>3, Element
  <2>2. f \in [1..Len(F) -> Word]
    <3>1. \A x \in 1..Len(F) : f[x] \in Word
      <4> HIDE DEF F, f
      <4> QED
        BY <2>1, <1>4, <1>5
    <3>2. DOMAIN f = 1..Len(F)
      BY <1>3
    <3> QED
      BY <3>1, <3>2
  <2> QED
    BY <2>2, <1>3
<1>7. ContentIn(heap, T, f)
  <2>1. T # Closure_tag
    OBVIOUS
  <2> HIDE DEF F, f, T
  <2>2. /\ T \in {Double_tag, Double_array_tag} => \A x \in 1..Len(F) : F[x][1] = "dbl"
        /\ T = String_tag => \A x \in 1..Len(F) : F[x][1] = "byte"
        /\ T = Double_tag => Len(F) = Double_wosize
        /\ T \notin {Double_tag, Double_array_tag, String_tag} =>
             \A x \in 1..Len(F) : ValueIn(heap, F[x])
    BY ONLY <1>2, <2>1 DEF ContentIn
  <2>3. T \in {Double_tag, Double_array_tag} => \A x \in 1..Len(f) : f[x][1] = "dbl"
    BY <1>5, <1>6, <2>2 DEF T
  <2>4. T = String_tag => \A x \in 1..Len(f) : f[x][1] = "byte"
    BY <1>5, <1>6, <2>2 DEF T
  <2>5. T \notin {Double_tag, Double_array_tag, String_tag, Closure_tag} =>
          \A x \in 1..Len(f) : ValueIn(heap, f[x])
    BY <1>5, <1>6, <2>2 DEF T
  <2> QED
    BY ONLY <1>3, <1>6, <2>1, <2>2, <2>3, <2>4, <2>5 DEF ContentIn
<1> HIDE DEF F, f
<1>8. Grows(heap, heap') /\ HeapIn(heap')
  BY <1>1, <1>2, <1>7, StoreGrows
<1>9. ValueIn(heap', Val_unit)
  BY IntegerValue DEF Val_unit
<1>10. ValueIn(heap', Env) /\ ValuesIn(heap', caml_global_data) /\ ValuesIn(heap', rest)
  BY <1>8, ValueGrows, ValuesGrow DEF ZInv
<1>11. running # TOPLEVEL => FunctionPtr(heap', Env, running[1], running[2])
  BY <1>8, FunctionPtrGrows DEF ZInv
<1> QED
  BY <1>1, <1>8, <1>9, <1>10, <1>11 DEF ZInv

\* A block of values takes any value.
LEMMA BlockStore ==
  ASSUME ZInv, IsBlock(Accu), NEW i \in Nat, NEW w, ValueIn(heap, w),
         NEW rest, ValuesIn(heap, rest), Store(i, <<w>>, rest)
  PROVE  ZInv'
<1>1. IsPtr(Accu) /\ Tag_val(Accu) \in Nat /\ Tag_val(Accu) < 247
  BY PtrValue DEF IsBlock, ZInv, Closure_tag, ContentIn
<1>2. Tag_val(Accu) \notin {253, 254, 252, 247}
  BY <1>1
<1>3. /\ Tag_val(Accu) # Closure_tag
      /\ Tag_val(Accu) \notin {Double_tag, Double_array_tag, String_tag}
  BY <1>2 DEF Double_tag, Double_array_tag, String_tag, Closure_tag
<1>4. <<w>> \in Seq(Word) /\ \A n \in 1..Len(<<w>>) : ValueIn(heap, <<w>>[n])
  BY SingleValue DEF ValuesIn
<1> QED
  BY <1>1, <1>3, <1>4, StoreKeeps

-----------------------------------------------------------------------------
(* The instructions *)

LEMMA InitKeeps == Init => ZInv
<1> SUFFICES ASSUME Init PROVE ZInv
  OBVIOUS
<1> DEFINE Block == [tag : Nat, fields : Seq(Word)]
<1>1. heap = Literals /\ Literals \in Seq(Block) /\ Len(Literals) >= 2
  BY LiteralsAssumption DEF Init
<1>2. /\ DOMAIN Literals = 1..Len(Literals) /\ Len(Literals) \in Nat
      /\ \A b \in 1..Len(Literals) : Literals[b] \in Block
  <2> HIDE DEF Block
  <2> QED
    BY <1>1, Element
<1>3. ASSUME NEW b \in 1..Len(Literals)
      PROVE  ContentIn(Literals, Literals[b].tag, Literals[b].fields)
  <2> DEFINE t == Literals[b].tag
             f == Literals[b].fields
  <2>1. t \in Nat /\ f \in Seq(Word)
    BY <1>2
  <2>2. /\ t # Closure_tag
        /\ t = Double_tag => Len(f) = Double_wosize
        /\ \A i \in DOMAIN f :
             CASE t \in {Double_tag, Double_array_tag} -> f[i][1] = "dbl"
               [] t = String_tag -> f[i][1] = "byte"
               [] OTHER -> \/ f[i][1] = "int"
                           \/ \E c \in DOMAIN Literals : f[i] = Ptr(c, 0)
    BY <1>2, LiteralsAssumption
  <2> HIDE DEF t, f
  <2>3. DOMAIN f = 1..Len(f) /\ \A i \in 1..Len(f) : f[i] \in Word
    BY <2>1, Element
  <2>4. ASSUME t \notin {Double_tag, Double_array_tag, String_tag}, NEW i \in 1..Len(f)
        PROVE  ValueIn(Literals, f[i])
    <3>1. f[i][1] = "int" \/ \E c \in DOMAIN Literals : f[i] = Ptr(c, 0)
      BY <2>2, <2>3, <2>4
    <3>2. ASSUME NEW c \in 1..Len(Literals) PROVE ValueIn(Literals, Ptr(c, 0))
      BY <1>1, BlockValue DEF Heap
    <3> QED
      BY <1>2, <2>3, <3>1, <3>2 DEF ValueIn
  <2>5. /\ t \in {Double_tag, Double_array_tag} => \A i \in 1..Len(f) : f[i][1] = "dbl"
        /\ t = String_tag => \A i \in 1..Len(f) : f[i][1] = "byte"
    BY <2>2, <2>3 DEF Double_tag, Double_array_tag, String_tag
  <2>6. ContentIn(Literals, t, f)
    BY <2>1, <2>2, <2>4, <2>5 DEF ContentIn
  <2> QED
    BY <2>6 DEF t, f
<1>4. HeapIn(heap)
  BY <1>1, <1>2, <1>3 DEF HeapIn
<1>5. ValueIn(heap, Val_unit) /\ ValueIn(heap, Ptr(2, 0))
  <2>1. 2 \in 1..Len(heap) /\ heap \in Heap
    BY <1>1, <1>2 DEF Heap
  <2> QED
    BY <2>1, IntegerValue, BlockValue DEF Val_unit
<1>6. ValuesIn(heap, stack)
  <2>1. /\ stack \in [1..Locals -> Word] /\ Locals \in Nat
        /\ \A n \in 1..Locals : stack[n] = Val_long(n - 1)
    BY BoundsAssumption DEF Init, Val_long, Word
  <2>2. stack \in Seq(Word) /\ Len(stack) = Locals
    BY <2>1
  <2> QED
    BY <2>1, <2>2, IntegerValue DEF ValuesIn
<1>7. ValuesIn(heap, caml_global_data)
  <2>1. caml_global_data = <<Val_unit, Ptr(2, 0)>>
    BY DEF Init
  <2>2. Val_unit \in Word /\ Ptr(2, 0) \in Word
    BY <1>5 DEF ValueIn
  <2> QED
    BY <1>5, <2>1, <2>2 DEF ValuesIn
<1> QED
  BY <1>4, <1>5, <1>6, <1>7 DEF ZInv, Init

LEMMA WordsAlone ==
  ASSUME ZInv
  PROVE  /\ ValuesIn(heap, stack) /\ ValueIn(heap, Accu) /\ ValueIn(heap, Env)
         /\ ValuesIn(heap, <<Accu>> \o stack) /\ Len(<<Accu>> \o stack) = Len(stack) + 1
<1>1. ValuesIn(heap, stack) /\ ValueIn(heap, Accu) /\ ValueIn(heap, Env)
  BY DEF ZInv
<1>2. Accu \in Word /\ stack \in Seq(Word)
  BY <1>1 DEF ValueIn, ValuesIn
<1> QED
  BY <1>1, <1>2, SingleValue, ConcatValues

\* Instructions that move a value
LEMMA MoveKeeps ==
  ASSUME ZInv, NEW n \in Sizes,
         (\E c \in Consts : constInt(c)) \/ push \/ pop(n) \/ acc(n) \/ assign(n) \/ isInt \/ boolNot
  PROVE  ZInv'
<1>1. n \in Nat
  BY BoundsAssumption DEF Sizes
<1>3. CASE push
  BY <1>3, WordsAlone, ReadKeeps DEF push
<1>4. CASE pop(n)
  BY <1>4, <1>1, WordsAlone, DropValues, ReadKeeps DEF pop
<1>5. CASE acc(n)
  <2>1. n + 1 \in 1..Len(stack)
    BY <1>5, <1>1, HeapType DEF acc, Holds
  <2> QED
    BY <2>1, <1>5, WordsAlone, HeapType, ReadKeeps DEF acc, StackPointer
<1>6. CASE assign(n)
  <2>1. n + 1 \in 1..Len(stack)
    BY <1>6, <1>1, HeapType DEF assign, Holds
  <2>2. ValuesIn(heap, [stack EXCEPT ![n + 1] = Accu])
    BY <2>1, WordsAlone DEF ValuesIn, ValueIn
  <2>3. ValueIn(heap, Val_unit)
    BY IntegerValue DEF Val_unit
  <2> QED
    BY <2>2, <2>3, <1>6, ReadKeeps DEF assign
<1>7. CASE isInt
  BY <1>7, WordsAlone, IntegerValue, ReadKeeps DEF isInt, Val_bool
<1>8. CASE boolNot
  <2>1. ValueIn(heap, Val_long(1 - Long_val(Accu)))
    BY <1>8, IntegerValue DEF boolNot, Val_bool, Val_long, Long_val
  <2> QED
    BY <2>1, <1>8, WordsAlone, ReadKeeps DEF boolNot
<1>9. CASE \E c \in Consts : constInt(c)
  <2>1. PICK c \in Consts : constInt(c)
    BY <1>9
  <2>2. c \in Int
    BY OperandsAssumption
  <2> QED
    BY <2>1, <2>2, WordsAlone, IntegerValue, ReadKeeps DEF constInt
<1> QED
  BY <1>3, <1>4, <1>5, <1>6, <1>7, <1>8, <1>9

\* Blocks and their fields
LEMMA FieldKeeps ==
  ASSUME ZInv, NEW i \in Nat, getField(i) \/ setField(i)
  PROVE  ZInv'
<1>1. IsBlock(Accu) /\ i < Wosize(Accu)
  BY DEF getField, setField
<1>2. Wosize(Accu) \in Nat /\ ValueIn(heap, Field(Accu, i))
  BY <1>1, WordsAlone, BlockFields
<1>3. CASE getField(i)
  BY <1>3, <1>2, WordsAlone, ReadKeeps DEF getField
<1>4. CASE setField(i)
  <2>1. Len(stack) >= 1 /\ Store(i, <<StackPointer(0)>>, Drop(stack, 1))
    BY <1>4 DEF setField, Holds
  <2>2. ValueIn(heap, StackPointer(0)) /\ ValuesIn(heap, Drop(stack, 1))
    BY <2>1, HeapType, WordsAlone, DropValues DEF StackPointer
  <2> QED
    BY <1>1, <2>1, <2>2, BlockStore
<1> QED
  BY <1>3, <1>4

LEMMA IntegerOf ==
  ASSUME NEW h, NEW w, ValueIn(h, w), ~IsPtr(w)
  PROVE  Long_val(w) \in Int
  BY DEF ValueIn, FunctionPtr, IsPtr, Long_val, Word

LEMMA OffsetRefKeeps ==
  ASSUME ZInv, NEW n \in Consts, offsetRef(n)
  PROVE  ZInv'
<1>1. n \in Int
  BY OperandsAssumption
<1>2. IsBlock(Accu) /\ Wosize(Accu) > 0 /\ ~IsPtr(Field(Accu, 0))
  BY DEF offsetRef
<1>3. ValueIn(heap, Field(Accu, 0))
  <2>1. 0 \in 0 .. Wosize(Accu) - 1
    BY <1>2, WordsAlone, BlockFields
  <2> QED
    BY <1>2, <2>1, WordsAlone, BlockFields
<1>4. ValueIn(heap, Val_long(Long_val(Field(Accu, 0)) + n))
  BY <1>1, <1>2, <1>3, IntegerOf, IntegerValue
<1> QED
  BY <1>2, <1>4, WordsAlone, BlockStore DEF offsetRef

\* Arrays
LEMMA IndexType ==
  ASSUME ZInv, NEW n \in Nat, IndexIn(n)
  PROVE  /\ Len(stack) >= 1 /\ Long_val(StackPointer(0)) \in 0 .. n - 1
         /\ \A k \in 1..2 : ValuesIn(heap, Drop(stack, k))
  BY WordsAlone, DropValues DEF IndexIn, Holds

LEMMA VectKeeps ==
  ASSUME ZInv, vectLength \/ getVectItem \/ setVectItem
  PROVE  ZInv'
<1>1. CASE vectLength
  <2>1. Wosize(Accu) \in Nat
    BY <1>1, WordsAlone, BlockFields, RawFields DEF vectLength, IsArray
  <2>2. Wosize(Accu) \div Double_wosize \in Int
    BY <2>1, WosizeAssumption
  <2> QED
    BY <1>1, <2>1, <2>2, WordsAlone, IntegerValue, ReadKeeps DEF vectLength
<1>2. CASE getVectItem
  <2>1. Wosize(Accu) \in Nat /\ IsBlock(Accu) /\ IndexIn(Wosize(Accu))
    BY <1>2, WordsAlone, BlockFields DEF getVectItem
  <2>2. ValueIn(heap, Field(Accu, Long_val(StackPointer(0))))
    BY <2>1, IndexType, WordsAlone, BlockFields
  <2> QED
    BY <1>2, <2>1, <2>2, IndexType, ReadKeeps DEF getVectItem
<1>3. CASE setVectItem
  <2>1. /\ Wosize(Accu) \in Nat /\ IsBlock(Accu) /\ IndexIn(Wosize(Accu))
        /\ Len(stack) >= 2
        /\ Store(Long_val(StackPointer(0)), <<StackPointer(1)>>, Drop(stack, 2))
    BY <1>3, WordsAlone, BlockFields DEF setVectItem, Holds
  <2>2. ValueIn(heap, StackPointer(1))
    BY <2>1, HeapType DEF StackPointer
  <2>3. Long_val(StackPointer(0)) \in Nat /\ ValuesIn(heap, Drop(stack, 2))
    BY <2>1, IndexType
  <2> QED
    BY <2>1, <2>2, <2>3, BlockStore
<1> QED
  BY <1>1, <1>2, <1>3

LEMMA MethodKeeps == ZInv /\ getMethod => ZInv'
<1> SUFFICES ASSUME ZInv, getMethod PROVE ZInv'
  OBVIOUS
<1> DEFINE table == Field(StackPointer(0), 0)
<1>1. /\ Len(stack) >= 1 /\ IsBlock(StackPointer(0)) /\ Wosize(StackPointer(0)) > 0
      /\ IsBlock(table) /\ Long_val(Accu) \in 0 .. Wosize(table) - 1
      /\ Read(Field(table, Long_val(Accu)), stack)
  BY DEF getMethod, Holds
<1>2. ValueIn(heap, StackPointer(0))
  BY <1>1, HeapType DEF StackPointer
<1>3. ValueIn(heap, table)
  <2>1. 0 \in 0 .. Wosize(StackPointer(0)) - 1
    BY <1>1, <1>2, BlockFields
  <2> QED
    BY <1>1, <1>2, <2>1, BlockFields
<1>4. ValueIn(heap, Field(table, Long_val(Accu)))
  BY <1>1, <1>3, BlockFields
<1> QED
  BY <1>1, <1>4, WordsAlone, ReadKeeps

\* New blocks of values
LEMMA BlockContent ==
  ASSUME NEW h, NEW tag \in 0 .. Closure_tag - 1, NEW f, ValuesIn(h, f)
  PROVE  ContentIn(h, tag, f)
<1>1. tag \in Nat /\ tag \notin {253, 254, 252, 247}
  BY DEF Closure_tag
<1>2. tag \notin {Double_tag, Double_array_tag, String_tag, Closure_tag}
  BY <1>1 DEF Double_tag, Double_array_tag, String_tag, Closure_tag
<1> QED
  BY <1>1, <1>2 DEF ContentIn, ValuesIn

LEMMA MakeBlockKeeps ==
  ASSUME ZInv, NEW n \in Sizes \ {0}, (\E tag \in Tags : makeBlock(tag, n)) \/ c_call(n)
  PROVE  ZInv'
<1>1. n \in Nat /\ n >= 1 /\ n - 1 <= Len(stack)
  BY BoundsAssumption, HeapType DEF Sizes, makeBlock, c_call, Holds
<1>2. ValuesIn(heap, SubSeq(stack, 1, n - 1)) /\ ValuesIn(heap, Drop(stack, n - 1))
  BY <1>1, WordsAlone, SubSeqValues, DropValues
<1>3. ValuesIn(heap, <<Accu>>)
  BY WordsAlone, SingleValue
<1>4. CASE \E tag \in Tags : makeBlock(tag, n)
  <2> PICK tag \in Tags : makeBlock(tag, n)
    BY <1>4
  <2>1. ContentIn(heap, tag, <<Accu>> \o SubSeq(stack, 1, n - 1))
    BY <1>2, <1>3, ConcatValues, BlockContent, OperandsAssumption
  <2> QED
    BY <1>2, <2>1, AllocKeeps DEF makeBlock
<1>5. CASE c_call(n)
  <2> DEFINE during == <<Env>> \o stack
  <2>1. ValuesIn(heap, during) /\ Len(during) = Len(stack) + 1
    <3>1. ValuesIn(heap, <<Env>>)
      BY WordsAlone, SingleValue
    <3> QED
      BY <3>1, WordsAlone, ConcatValues, HeapType DEF ValuesIn
  <2> HIDE DEF during
  <2>2. ValuesIn(heap, SubSeq(during, 2, n))
    BY <1>1, <2>1, HeapType, SubSeqValues
  <2>3. ValuesIn(heap, PrimArgs(n))
    BY <1>3, <2>2, ConcatValues DEF PrimArgs, during
  <2>4. ContentIn(heap, 0, PrimArgs(n))
    <3>1. 0 \in 0 .. Closure_tag - 1
      BY DEF Closure_tag
    <3> QED
      BY <2>3, <3>1, BlockContent
  <2> QED
    BY <1>5, <1>2, <2>4, AllocKeeps DEF c_call
<1> QED
  BY <1>4, <1>5

-----------------------------------------------------------------------------
(* Closures *)

LEMMA CapturedValues ==
  ASSUME ZInv, NEW d \in DOMAIN Definitions,
         Len(Captured(Definitions[d])) >= Definitions[d].vars
  PROVE  LET C == Captured(Definitions[d])
             V == Definitions[d].vars
         IN /\ ValuesIn(heap, SubSeq(C, 1, V)) /\ Len(SubSeq(C, 1, V)) = V
            /\ ValuesIn(heap, Drop(C, V))
<1> DEFINE C == Captured(Definitions[d])
           V == Definitions[d].vars
<1>1. ValuesIn(heap, C)
  BY WordsAlone DEF Captured
<1>2. V \in Nat /\ V <= Len(C)
  BY DefinitionType
<1> HIDE DEF C, V
<1>3. ValuesIn(heap, SubSeq(C, 1, V)) /\ ValuesIn(heap, Drop(C, V))
  BY <1>1, <1>2, SubSeqValues, DropValues
<1>4. Len(SubSeq(C, 1, V)) = V
  BY <1>1, <1>2 DEF ValuesIn
<1> QED
  BY <1>3, <1>4 DEF C, V

LEMMA FunctionWordsType ==
  ASSUME NEW d \in DOMAIN Definitions
  PROVE  /\ FunctionWords(d) \in Seq(Word)
         /\ Len(FunctionWords(d)) = 2 * Len(Definitions[d].arity) - 1
<1> DEFINE n == 2 * Len(Definitions[d].arity) - 1
<1>1. n \in Nat /\ d \in Int
  BY DefinitionType
<1>2. \A i \in 1..n : (i + 1) \div 2 \in Int
  BY <1>1
<1>3. \A i \in 1..n : Code(d, (i + 1) \div 2) \in Word /\ Hdr(i) \in Word
  BY <1>1, <1>2 DEF Code, Hdr, Word
<1>4. FunctionWords(d) \in [1..n -> Word]
  BY <1>3 DEF FunctionWords
<1> QED
  BY <1>1, <1>4

\* The block of a definition and the values it closes over
LEMMA FunctionsContent ==
  ASSUME NEW h, NEW d \in DOMAIN Definitions, NEW vars_, ValuesIn(h, vars_),
         Len(vars_) = Definitions[d].vars
  PROVE  /\ IsFunctions(Closure_tag, FunctionWords(d) \o vars_, d)
         /\ ContentIn(h, Closure_tag, FunctionWords(d) \o vars_)
<1> DEFINE W == FunctionWords(d)
           f == W \o vars_
           n == 2 * Len(Definitions[d].arity) - 1
<1>1. /\ W \in Seq(Word) /\ Len(W) = n /\ n \in Nat /\ vars_ \in Seq(Word)
      /\ Len(vars_) \in Nat /\ d \in Int
  BY FunctionWordsType, DefinitionType DEF ValuesIn
<1> HIDE DEF W
<1>2. /\ f \in Seq(Word) /\ Len(f) = n + Definitions[d].vars
      /\ \A i \in 1..n : f[i] = W[i]
      /\ \A i \in n + 1 .. Len(f) : f[i] = vars_[i - n] /\ i - n \in 1..Len(vars_)
  <2> HIDE DEF n
  <2>1. /\ f \in Seq(Word) /\ Len(f) = Len(W) + Len(vars_)
        /\ \A i \in 1..Len(W) : f[i] = W[i]
        /\ \A i \in Len(W) + 1 .. Len(W) + Len(vars_) :
             i - Len(W) \in 1..Len(vars_) /\ f[i] = vars_[i - Len(W)]
    BY <1>1, ConcatParts
  <2> HIDE DEF f
  <2> QED
    BY <1>1, <2>1
<1>3. IsFunctions(Closure_tag, f, d)
  BY <1>2 DEF IsFunctions, W
<1>4. \A i \in 2 * Len(Definitions[d].arity) .. Len(f) : ValueIn(h, f[i])
  <2>1. 2 * Len(Definitions[d].arity) = n + 1
    BY DefinitionType
  <2> HIDE DEF n, f
  <2> QED
    BY <1>2, <2>1 DEF ValuesIn
<1>5. ContentIn(h, Closure_tag, f)
  <2> HIDE DEF f
  <2> QED
    BY <1>1, <1>2, <1>3, <1>4 DEF ContentIn, Closure_tag, Double_tag, Double_array_tag, String_tag
<1> QED
  BY <1>3, <1>5 DEF W

LEMMA ClosureKeeps ==
  ASSUME ZInv, NEW d \in DOMAIN Definitions, closure(d)
  PROVE  ZInv'
<1> DEFINE C == Captured(Definitions[d])
           V == Definitions[d].vars
<1>1. /\ Len(Definitions[d].arity) = 1 /\ Len(C) >= V
      /\ Alloc(Closure_tag, <<Code(d, 1)>> \o SubSeq(C, 1, V), Drop(C, V))
  BY DefinitionType DEF closure
<1>2. <<Code(d, 1)>> = FunctionWords(d)
  <2>1. 2 * Len(Definitions[d].arity) - 1 = 1 /\ (1 + 1) \div 2 = 1 /\ 1 % 2 = 1
    BY <1>1
  <2> QED
    BY <2>1 DEF FunctionWords
<1>3. ValuesIn(heap, SubSeq(C, 1, V)) /\ Len(SubSeq(C, 1, V)) = V /\ ValuesIn(heap, Drop(C, V))
  BY <1>1, CapturedValues
<1>4. ContentIn(heap, Closure_tag, <<Code(d, 1)>> \o SubSeq(C, 1, V))
  BY <1>2, <1>3, FunctionsContent
<1> QED
  BY <1>1, <1>3, <1>4, AllocKeeps

LEMMA ClosureRecKeeps ==
  ASSUME ZInv, NEW d \in DOMAIN Definitions, closureRec(d)
  PROVE  ZInv'
<1> DEFINE C == Captured(Definitions[d])
           V == Definitions[d].vars
           fns == Len(Definitions[d].arity)
           new == Len(heap) + 1
           ptrs == [k \in 1..fns |-> Ptr(new, 2 * (fns - k))]
           f == FunctionWords(d) \o SubSeq(C, 1, V)
<1>1. Len(C) >= V /\ Alloc(Closure_tag, f, ptrs \o Drop(C, V))
  BY DEF closureRec
<1>2. ValuesIn(heap, SubSeq(C, 1, V)) /\ Len(SubSeq(C, 1, V)) = V /\ ValuesIn(heap, Drop(C, V))
  BY <1>1, CapturedValues
<1>3. ContentIn(heap, Closure_tag, f) /\ IsFunctions(Closure_tag, f, d)
  BY <1>2, FunctionsContent
<1> HIDE DEF f, C, V
<1>4. /\ heap' = Append(heap, [tag |-> Closure_tag, fields |-> f])
      /\ Accu' = Ptr(new, 0) /\ stack' = ptrs \o Drop(C, V)
      /\ Env' = Env /\ caml_global_data' = caml_global_data /\ running' = running
  BY <1>1 DEF Alloc, Result
<1>5. /\ Grows(heap, heap') /\ HeapIn(heap')
      /\ Len(heap') = new /\ heap'[new].tag = Closure_tag /\ heap'[new].fields = f
  <2>1. HeapIn(heap) /\ ContentIn(heap, Closure_tag, f)
    BY <1>3 DEF ZInv
  <2>2. heap' = Append(heap, [tag |-> Closure_tag, fields |-> f])
    BY <1>4
  <2>3. PICK tag, fields, g : tag = Closure_tag /\ fields = f /\ g = heap'
    OBVIOUS
  <2>4. /\ HeapIn(heap) /\ ContentIn(heap, tag, fields)
        /\ g = Append(heap, [tag |-> tag, fields |-> fields])
    BY <2>1, <2>2, <2>3
  <2>5. Grows(heap, g) /\ HeapIn(g) /\ Len(g) = Len(heap) + 1
    BY <2>4, AppendGrows
  <2>6. g[Len(heap) + 1] = [tag |-> tag, fields |-> fields]
    BY <2>4, HeapType DEF Heap
  <2> QED
    BY <2>3, <2>5, <2>6
<1>6. DOMAIN heap' = 1..new /\ new \in Nat /\ new \in 1..new
  BY <1>5, HeapType, Element DEF Grows, Heap
<1>7. ASSUME NEW k \in 1..fns
      PROVE  ptrs[k] \in Word /\ ValueIn(heap', ptrs[k])
  <2>1. fns \in Nat /\ fns + 1 - k \in 1..fns /\ 2 * (fns - k) \in Nat
    BY DefinitionType
  <2>2. ptrs[k] = Ptr(new, 2 * (fns - k)) /\ ptrs[k] \in Word
    BY <1>6, <2>1 DEF Ptr, Word
  <2>3. FunctionPtr(heap', ptrs[k], d, fns + 1 - k)
    BY <1>3, <1>5, <1>6, <2>1, <2>2 DEF FunctionPtr, Ptr
  <2> QED
    BY <2>2, <2>3, FunctionValue
<1>8. ValuesIn(heap', ptrs)
  <2>1. fns \in Nat
    BY DefinitionType
  <2>2. ptrs \in [1..fns -> Word]
    BY <1>7
  <2>3. \A k \in 1..fns : ValueIn(heap', ptrs[k])
    BY <1>7
  <2> HIDE DEF ptrs, fns
  <2> QED
    BY <2>1, <2>2, <2>3 DEF ValuesIn
<1>9. ValueIn(heap', Ptr(new, 0))
  BY <1>5, <1>6, BlockValue DEF Grows
<1>10. ValueIn(heap', Env) /\ ValuesIn(heap', caml_global_data) /\ ValuesIn(heap', Drop(C, V))
  BY <1>5, <1>2, ValueGrows, ValuesGrow DEF ZInv
<1>11. running # TOPLEVEL => FunctionPtr(heap', Env, running[1], running[2])
  BY <1>5, FunctionPtrGrows DEF ZInv
<1>12. ValuesIn(heap', ptrs \o Drop(C, V))
  BY <1>8, <1>10, ConcatValues
<1> HIDE DEF ptrs, new
<1> QED
  BY <1>4, <1>5, <1>9, <1>10, <1>11, <1>12 DEF ZInv

\* What a block of functions has behind its functions are values.
LEMMA FunctionFields ==
  ASSUME ZInv, NEW w, NEW d, NEW k, FunctionPtr(heap, w, d, k)
  PROVE  /\ Len(Fields(w)) = 2 * Len(Definitions[d].arity) - 1 + Definitions[d].vars
         /\ \A i \in 2 * Len(Definitions[d].arity) .. Len(Fields(w)) : ValueIn(heap, Fields(w)[i])
<1> DEFINE f == Fields(w)
<1>1. /\ w[2] \in 1..Len(heap) /\ IsFunctions(Closure_tag, f, d)
      /\ heap[w[2]].tag = Closure_tag /\ heap[w[2]].fields = f
  BY HeapType DEF FunctionPtr, IsFunctions, Fields
<1>2. ContentIn(heap, Closure_tag, f)
  BY <1>1 DEF ZInv, HeapIn
<1> HIDE DEF f
<1>3. ASSUME NEW e \in Int, IsFunctions(Closure_tag, f, e)
      PROVE  f[1] = Code(e, 1)
  <2>1. /\ 1 \in 1 .. 2 * Len(Definitions[e].arity) - 1
        /\ f[1] = FunctionWords(e)[1]
    BY <1>3, DefinitionType DEF IsFunctions
  <2>2. 1 % 2 = 1 /\ (1 + 1) \div 2 = 1
    OBVIOUS
  <2> QED
    BY <2>1, <2>2 DEF FunctionWords
<1>4. d \in Int
  BY <1>1, DefinitionType DEF IsFunctions
<1>5. f[1] = Code(d, 1)
  BY <1>1, <1>3, <1>4
<1>6. CASE \E e \in Int : /\ IsFunctions(Closure_tag, f, e)
                          /\ \A i \in 2 * Len(Definitions[e].arity) .. Len(f) : ValueIn(heap, f[i])
  <2> PICK e \in Int : /\ IsFunctions(Closure_tag, f, e)
                       /\ \A i \in 2 * Len(Definitions[e].arity) .. Len(f) : ValueIn(heap, f[i])
    BY <1>6
  <2>1. Code(e, 1) = Code(d, 1)
    BY <1>3, <1>5
  <2>2. e = d
    BY <2>1 DEF Code
  <2> QED
    BY <1>1, <2>2 DEF f, IsFunctions
<1>7. CASE \E e, l \in Int : IsPartial(heap, Closure_tag, f, e, l)
  BY <1>5, <1>7 DEF IsPartial, Code, Restart
<1> QED
  BY <1>2, <1>6, <1>7 DEF ContentIn

\* The code that runs finds its variables and the functions beside it.
LEMMA FreeWord ==
  ASSUME ZInv, NEW n \in Nat, n >= 1, envAcc(n)
  PROVE  /\ Field(Env, EnvOperand(n)) = Fields(Env)[2 * Len(D_.arity) - 1 + n]
         /\ n <= D_.vars /\ Read(Field(Env, EnvOperand(n)), stack)
         /\ FunctionPtr(heap, Env, running[1], k_)
         /\ ValueIn(heap, Field(Env, EnvOperand(n)))
<1>1. /\ FunctionPtr(heap, Env, running[1], k_)
      /\ n <= D_.vars /\ Read(Field(Env, EnvOperand(n)), stack)
  BY DEF envAcc, ZInv, k_
<1>2. /\ running[1] \in DOMAIN Definitions /\ k_ \in 1..Len(D_.arity)
      /\ Len(D_.arity) \in Nat /\ D_.vars \in Nat
      /\ Env[3] = 2 * (k_ - 1)
  BY <1>1, DefinitionType DEF FunctionPtr, IsFunctions, D_
<1>3. Field(Env, EnvOperand(n)) = Fields(Env)[2 * Len(D_.arity) - 1 + n]
  <2>1. Env[3] + EnvOperand(n) + 1 = 2 * Len(D_.arity) - 1 + n
    <3>1. PICK m \in Nat, k \in Nat : m = Len(D_.arity) /\ k = k_
      BY <1>2
    <3>2. Env[3] = 2 * (k - 1) /\ EnvOperand(n) = 2 * (m - k) + n
      BY <1>2, <3>1 DEF EnvOperand
    <3>3. 2 * (k - 1) + (2 * (m - k) + n) + 1 = 2 * m - 1 + n
      OBVIOUS
    <3> QED
      BY <3>1, <3>2, <3>3
  <2> QED
    BY <2>1 DEF Field
<1>4. ValueIn(heap, Field(Env, EnvOperand(n)))
  <2>1. /\ Len(Fields(Env)) = 2 * Len(D_.arity) - 1 + D_.vars
        /\ \A i \in 2 * Len(D_.arity) .. Len(Fields(Env)) : ValueIn(heap, Fields(Env)[i])
    BY <1>1, FunctionFields DEF D_
  <2>2. 2 * Len(D_.arity) - 1 + n \in 2 * Len(D_.arity) .. Len(Fields(Env))
    BY <1>1, <1>2, <2>1
  <2> QED
    BY <1>3, <2>1, <2>2
<1> QED
  BY <1>1, <1>3, <1>4

LEMMA SiblingPtr ==
  ASSUME ZInv, NEW n \in Nat, n >= 1, offsetClosure(n)
  PROVE  /\ Read(Ptr(Env[2], 2 * (n - 1)), stack)
         /\ FunctionPtr(heap, Ptr(Env[2], 2 * (n - 1)), running[1], n)
         /\ FunctionPtr(heap, Env, running[1], k_)
<1>1. FunctionPtr(heap, Env, running[1], k_)
  BY DEF offsetClosure, ZInv, k_
<1>2. /\ running[1] \in DOMAIN Definitions /\ k_ \in 1..Len(D_.arity)
      /\ Len(D_.arity) \in Nat /\ Env[3] = 2 * (k_ - 1)
  BY <1>1, DefinitionType DEF FunctionPtr, IsFunctions, D_
<1>3. n \in 1..Len(D_.arity) /\ Read(Ptr(Env[2], Env[3] + OffsetOperand(n)), stack)
  BY <1>2, DefinitionType, Element DEF offsetClosure, D_
<1>4. Env[3] + OffsetOperand(n) = 2 * (n - 1)
  BY <1>2 DEF OffsetOperand
<1>5. Env[2] \in 1..Len(heap)
  BY <1>1, HeapType DEF FunctionPtr
<1>6. Ptr(Env[2], 2 * (n - 1)) \in Word
  BY <1>5, HeapType DEF Ptr, Word
<1>7. FunctionPtr(heap, Ptr(Env[2], 2 * (n - 1)), running[1], n)
  BY <1>1, <1>3, <1>6 DEF FunctionPtr, Ptr, D_
<1> QED
  BY <1>1, <1>3, <1>4, <1>7

LEMMA EnvKeeps ==
  ASSUME ZInv, NEW n \in Sizes \ {0}, envAcc(n) \/ offsetClosure(n)
  PROVE  ZInv'
<1>1. n \in Nat /\ n >= 1
  BY BoundsAssumption DEF Sizes
<1>2. CASE envAcc(n)
  BY <1>1, <1>2, FreeWord, WordsAlone, ReadKeeps
<1>3. CASE offsetClosure(n)
  BY <1>1, <1>3, SiblingPtr, FunctionValue, WordsAlone, ReadKeeps
<1> QED
  BY <1>2, <1>3

\* A call runs the code of the environment it installs.
LEMMA CallValue ==
  ASSUME ZInv, Is(Accu, Closure_tag)
  PROVE  /\ CalledCode \in Int \X Int
         /\ FunctionPtr(heap, CalledEnv, CalledCode[1], CalledCode[2])
         /\ \A n \in Nat : n <= Len(stack) => ValuesIn(heap, Arguments(n))
<1>1. \A n \in Nat : n <= Len(stack) => ValuesIn(heap, SubSeq(stack, 1, n))
  BY WordsAlone, SubSeqValues
<1>2. CASE \E d, k \in Int : FunctionPtr(heap, Accu, d, k)
  <2> PICK d \in Int, k \in Int : FunctionPtr(heap, Accu, d, k)
    BY <1>2
  <2>1. Field(Accu, 0) = Code(d, k)
    BY FunctionCode
  <2>2. ~IsRestart /\ CalledCode = <<d, k>>
    BY <2>1 DEF IsRestart, CalledCode, Code
  <2> QED
    BY <1>1, <2>2 DEF CalledEnv, Arguments
<1>3. CASE /\ Accu[3] = 0
           /\ \E d, k \in Int : IsPartial(heap, Tag_val(Accu), Fields(Accu), d, k)
  <2> DEFINE f == Fields(Accu)
  <2> PICK d \in Int, k \in Int : IsPartial(heap, Tag_val(Accu), f, d, k)
    BY <1>3
  <2>1. /\ Field(Accu, 0) = Restart(d, k) /\ Field(Accu, 1) = f[2]
        /\ FunctionPtr(heap, f[2], d, k) /\ \A i \in 3..Len(f) : ValueIn(heap, f[i])
    <3>1. Accu[3] + 0 + 1 = 1 /\ Accu[3] + 1 + 1 = 2
      BY <1>3
    <3> QED
      BY <3>1 DEF IsPartial, Field
  <2>2. IsRestart /\ CalledCode = <<d, k>>
    BY <2>1 DEF IsRestart, CalledCode, Restart
  <2>3. f \in Seq(Word) /\ Len(f) \in Nat
    BY WordsAlone, PtrValue DEF Is, ContentIn
  <2> HIDE DEF f
  <2>4. ValuesIn(heap, SubSeq(f, 3, Len(f)))
    <3>1. SubSeq(f, 3, Len(f)) \in Seq(Word)
      BY <2>3
    <3>2. ASSUME NEW i \in 1..Len(SubSeq(f, 3, Len(f)))
          PROVE  SubSeq(f, 3, Len(f))[i] = f[i + 2] /\ i + 2 \in 3..Len(f)
      BY <2>3
    <3> QED
      BY <2>1, <3>1, <3>2 DEF ValuesIn
  <2>5. ASSUME NEW n \in Nat, n <= Len(stack) PROVE ValuesIn(heap, Arguments(n))
    BY <1>1, <2>2, <2>4, <2>5, ConcatValues DEF Arguments, restart, f, Wosize
  <2> QED
    BY <2>1, <2>2, <2>5 DEF CalledEnv
<1> QED
  BY <1>2, <1>3, WordsAlone, ClosureValue

\* The block of a partial application
PartialBlock(n) == <<Restart(CalledCode[1], CalledCode[2]), CalledEnv>> \o Arguments(n)

LEMMA PartialMade ==
  ASSUME ZInv, Is(Accu, Closure_tag), NEW n \in Nat, n <= Len(stack)
  PROVE  /\ ContentIn(heap, Closure_tag, PartialBlock(n))
         /\ PartialBlock(n)[1][1] # "code" /\ PartialBlock(n)[2] = CalledEnv
         /\ <<Restart(CalledCode[1], CalledCode[2]), CalledEnv>> \in Seq(Word)
<1>0. /\ ValuesIn(heap, Arguments(n)) /\ CalledCode \in Int \X Int
      /\ FunctionPtr(heap, CalledEnv, CalledCode[1], CalledCode[2])
      /\ ValueIn(heap, CalledEnv)
  BY CallValue, FunctionValue
<1> DEFINE d == CalledCode[1]
           k == CalledCode[2]
           A == Arguments(n)
           f == <<Restart(d, k), CalledEnv>> \o A
<1>2. /\ Restart(d, k) \in Word /\ CalledEnv \in Word
      /\ d \in Int /\ k \in Int /\ A \in Seq(Word) /\ Len(A) \in Nat
  BY <1>0 DEF Restart, Word, ValueIn, ValuesIn
<1>3. <<Restart(d, k), CalledEnv>> \in Seq(Word) /\ Len(<<Restart(d, k), CalledEnv>>) = 2
  BY <1>2
<1>4. /\ f \in Seq(Word) /\ Len(f) = 2 + Len(A)
      /\ f[1] = Restart(d, k) /\ f[2] = CalledEnv
      /\ \A i \in 3..Len(f) : f[i] = A[i - 2] /\ i - 2 \in 1..Len(A)
  <2> HIDE DEF d, k, A
  <2> DEFINE pair == <<Restart(d, k), CalledEnv>>
  <2>1. pair[1] = Restart(d, k) /\ pair[2] = CalledEnv
    OBVIOUS
  <2>2. /\ f \in Seq(Word) /\ Len(f) = 2 + Len(A)
        /\ \A i \in 1..2 : f[i] = pair[i]
        /\ \A i \in 2 + 1 .. 2 + Len(A) : i - 2 \in 1..Len(A) /\ f[i] = A[i - 2]
    BY <1>2, <1>3, ConcatParts
  <2> HIDE DEF f, pair
  <2> QED
    BY <2>1, <2>2, <1>2
<1> HIDE DEF f
<1>5. IsPartial(heap, Closure_tag, f, d, k)
  BY <1>0, <1>2, <1>4 DEF IsPartial, ValuesIn
<1>6. ContentIn(heap, Closure_tag, f)
  BY <1>2, <1>4, <1>5 DEF ContentIn, Closure_tag, Double_tag, Double_array_tag, String_tag
<1>7. f[1][1] # "code"
  BY <1>4 DEF Restart
<1> QED
  BY <1>3, <1>4, <1>6, <1>7 DEF PartialBlock, f

LEMMA CallKeeps ==
  ASSUME ZInv, NEW n \in Sizes \ {0}, Enter(n) \/ createRestartClosure(n)
  PROVE  ZInv'
<1>1. n \in Nat /\ n <= Len(stack) /\ Is(Accu, Closure_tag)
  BY BoundsAssumption, HeapType DEF Sizes, Enter, createRestartClosure, Holds
<1>2. ValuesIn(heap, Arguments(n)) /\ ValuesIn(heap, Drop(stack, n))
  BY <1>1, CallValue, WordsAlone, DropValues
<1>3. /\ FunctionPtr(heap, CalledEnv, CalledCode[1], CalledCode[2])
      /\ CalledCode \in Int \X Int
      /\ ValueIn(heap, CalledEnv)
  BY <1>1, CallValue, FunctionValue
<1>4. CASE Enter(n)
  <2>1. /\ Env' = CalledEnv /\ stack' = Arguments(n) /\ running' = CalledCode
        /\ heap' = heap /\ Accu' = Accu /\ caml_global_data' = caml_global_data
    BY <1>4 DEF Enter
  <2> QED
    BY <1>2, <1>3, <2>1 DEF ZInv
<1>5. CASE createRestartClosure(n)
  <2>1. Alloc(Closure_tag, PartialBlock(n), Drop(stack, n))
    BY <1>5 DEF createRestartClosure, PartialBlock
  <2>2. ContentIn(heap, Closure_tag, PartialBlock(n))
    BY <1>1, PartialMade
  <2> QED
    BY <1>2, <2>1, <2>2, AllocKeeps
<1> QED
  BY <1>4, <1>5

-----------------------------------------------------------------------------
(* Floats, strings and globals *)

LEMMA FloatWords ==
  ASSUME NEW h, NEW x \in Int
  PROVE  /\ ContentIn(h, Double_tag, Words(x))
         /\ Words(x) \in Seq(Word) /\ Len(Words(x)) = Double_wosize
         /\ \A i \in 1..Double_wosize : Words(x)[i][1] = "dbl"
<1>1. Double_wosize \in Nat /\ \A i \in 1..Double_wosize : Dbl(x, i) \in Word /\ Dbl(x, i)[1] = "dbl"
  BY WosizeAssumption DEF Dbl, Word
<1>2. Words(x) \in [1..Double_wosize -> Word]
  BY <1>1 DEF Words
<1>3. /\ Words(x) \in Seq(Word) /\ Len(Words(x)) = Double_wosize
      /\ \A i \in 1..Double_wosize : Words(x)[i][1] = "dbl"
  BY <1>1, <1>2 DEF Words
<1> QED
  BY <1>3 DEF ContentIn, Closure_tag, Double_tag, Double_array_tag, String_tag

LEMMA DoubleType ==
  ASSUME ZInv, NEW w, ValueIn(heap, w), Is(w, Double_tag)
  PROVE  Double_val(w) \in Int
<1>1. 1 \in 1..Wosize(w)
  BY RawFields, WosizeAssumption
<1> QED
  BY <1>1, RawFields DEF Double_val

LEMMA FloatItemType ==
  ASSUME ZInv, NEW n \in Nat, FloatArray(n)
  PROVE  /\ Double_field(Accu, n) \in Int
         /\ IsPtr(Accu) /\ Tag_val(Accu) = Double_array_tag
<1>1. Is(Accu, Double_array_tag) /\ n < Wosize(Accu) \div Double_wosize /\ Wosize(Accu) \in Nat
  BY WordsAlone, RawFields DEF FloatArray
<1>2. n * Double_wosize + 1 \in 1..Wosize(Accu)
  <2>1. CASE Double_wosize = 1
    BY <1>1, <2>1
  <2>2. CASE Double_wosize = 2
    BY <1>1, <2>2
  <2> QED
    BY <2>1, <2>2, WosizeAssumption
<1> QED
  BY <1>1, <1>2, WordsAlone, RawFields DEF Double_field, Is

\* The words of the floats in items
FloatsWords(items, n) ==
  [w \in 1 .. n * Double_wosize |->
     Dbl(Double_val(items[(w - 1) \div Double_wosize + 1]), ((w - 1) % Double_wosize) + 1)]

FloatBlock(n, items) ==
  /\ n - 1 <= Len(stack) /\ Len(items) = n /\ \A i \in 1..n : Is(items[i], Double_tag)
  /\ ValuesIn(heap, items) /\ ValuesIn(heap, Drop(stack, n - 1))
  /\ ContentIn(heap, Double_array_tag, FloatsWords(items, n))
  /\ Alloc(Double_array_tag, FloatsWords(items, n), Drop(stack, n - 1))

LEMMA FloatBlockMade ==
  ASSUME ZInv, NEW n \in Nat, n >= 1, makeFloatBlock(n)
  PROVE  FloatBlock(n, <<Accu>> \o SubSeq(stack, 1, n - 1))
<1> DEFINE items == <<Accu>> \o SubSeq(stack, 1, n - 1)
           place(w) == (w - 1) \div Double_wosize + 1
           f == FloatsWords(items, n)
<1>1. /\ n - 1 <= Len(stack) /\ \A i \in 1..n : Is(items[i], Double_tag)
      /\ Alloc(Double_array_tag, f, Drop(stack, n - 1))
  BY HeapType DEF makeFloatBlock, Holds, FloatsWords
<1>2. ValuesIn(heap, items) /\ Len(items) = n /\ ValuesIn(heap, Drop(stack, n - 1))
  <2>1. ValuesIn(heap, SubSeq(stack, 1, n - 1)) /\ Len(SubSeq(stack, 1, n - 1)) = n - 1
    BY <1>1, HeapType, WordsAlone, SubSeqValues
  <2>2. ValuesIn(heap, <<Accu>>) /\ Len(<<Accu>>) = 1
    BY WordsAlone, SingleValue
  <2>3. Len(items) = 1 + (n - 1)
    BY <2>1, <2>2 DEF ValuesIn
  <2> QED
    BY <2>1, <2>2, <2>3, WordsAlone, ConcatValues, DropValues
<1> HIDE DEF items
<1>3. \A i \in 1..n : Double_val(items[i]) \in Int
  BY <1>1, <1>2, DoubleType DEF ValuesIn
<1>4. ASSUME NEW w \in 1 .. n * Double_wosize
      PROVE  place(w) \in 1..n /\ ((w - 1) % Double_wosize) + 1 \in Int
  <2>1. CASE Double_wosize = 1
    BY <2>1
  <2>2. CASE Double_wosize = 2
    BY <2>2
  <2> QED
    BY <2>1, <2>2, WosizeAssumption
<1>5. f = [w \in 1 .. n * Double_wosize |->
             Dbl(Double_val(items[place(w)]), ((w - 1) % Double_wosize) + 1)]
  BY DEF FloatsWords
<1> HIDE DEF place, f
<1>6. \A w \in 1 .. n * Double_wosize : f[w] \in Word /\ f[w][1] = "dbl"
  BY <1>3, <1>4, <1>5 DEF Dbl, Word
<1>7. n * Double_wosize \in Nat
  BY WosizeAssumption
<1>8. f \in Seq(Word) /\ Len(f) = n * Double_wosize
  <2>1. f \in [1 .. n * Double_wosize -> Word]
    BY <1>5, <1>6
  <2> QED
    BY <1>7, <2>1
<1>9. ContentIn(heap, Double_array_tag, f)
  BY <1>6, <1>8 DEF ContentIn, Closure_tag, Double_tag, Double_array_tag, String_tag
<1> QED
  BY <1>1, <1>2, <1>9 DEF FloatBlock, items, f

LEMMA FloatKeeps ==
  ASSUME ZInv, NEW n \in Sizes,
         getDoubleField(n) \/ storeDoubleField(n) \/ (makeFloatBlock(n) /\ n # 0)
           \/ BoxFloat
  PROVE  ZInv'
<1>1. n \in Nat
  BY BoundsAssumption DEF Sizes
<1>2. CASE getDoubleField(n)
  <2>1. Double_field(Accu, n) \in Int
    BY <1>1, <1>2, FloatItemType DEF getDoubleField
  <2> QED
    BY <1>2, <2>1, FloatWords, WordsAlone, AllocKeeps DEF getDoubleField
<1>3. CASE storeDoubleField(n)
  <2>1. /\ IsPtr(Accu) /\ Tag_val(Accu) = Double_array_tag
        /\ Len(stack) >= 1 /\ Is(StackPointer(0), Double_tag)
    BY <1>1, <1>3, FloatItemType DEF storeDoubleField, Holds
  <2>2. ValueIn(heap, StackPointer(0)) /\ ValuesIn(heap, Drop(stack, 1))
    BY <2>1, HeapType, WordsAlone, DropValues DEF StackPointer
  <2>3. Double_val(StackPointer(0)) \in Int
    BY <2>1, <2>2, DoubleType
  <2>4. n * Double_wosize \in Nat
    BY <1>1, WosizeAssumption
  <2>5. /\ Words(Double_val(StackPointer(0))) \in Seq(Word)
        /\ \A i \in 1..Len(Words(Double_val(StackPointer(0)))) :
             Words(Double_val(StackPointer(0)))[i][1] = "dbl"
    BY <2>3, FloatWords
  <2>6. Tag_val(Accu) \notin {Closure_tag, String_tag}
    BY <2>1 DEF Closure_tag, Double_array_tag, String_tag
  <2> QED
    BY <1>3, <2>1, <2>2, <2>4, <2>5, <2>6, StoreKeeps DEF storeDoubleField
<1>4. CASE makeFloatBlock(n) /\ n # 0
  <2>1. n \in Nat /\ n >= 1
    BY <1>1, <1>4
  <2>2. FloatBlock(n, <<Accu>> \o SubSeq(stack, 1, n - 1))
    BY <2>1, <1>4, FloatBlockMade
  <2> QED
    BY <2>2, AllocKeeps DEF FloatBlock
<1>5. CASE BoxFloat
  <2>1. Long_val(Accu) \in Int
    BY <1>5, WordsAlone, IntegerOf DEF BoxFloat
  <2> QED
    BY <1>5, <2>1, FloatWords, WordsAlone, AllocKeeps DEF BoxFloat
<1> QED
  BY <1>2, <1>3, <1>4, <1>5

LEMMA CharKeeps ==
  ASSUME ZInv, getStringChar \/ setStringChar
  PROVE  ZInv'
<1>1. /\ Is(Accu, String_tag) /\ IndexIn(Wosize(Accu)) /\ Wosize(Accu) \in Nat
      /\ IsPtr(Accu) /\ Tag_val(Accu) = String_tag /\ Accu[3] = 0
      /\ \A i \in 1..Wosize(Accu) : Fields(Accu)[i][2] \in Int
  BY WordsAlone, RawFields DEF getStringChar, setStringChar, Is
<1>2. Long_val(StackPointer(0)) \in 0 .. Wosize(Accu) - 1
  BY <1>1, IndexType
<1>3. CASE getStringChar
  <2>1. Long_val(Field(Accu, Long_val(StackPointer(0)))) \in Int
    <3>1. PICK i \in 0 .. Wosize(Accu) - 1 : i = Long_val(StackPointer(0))
      BY <1>2
    <3>2. Accu[3] + i + 1 \in 1..Wosize(Accu)
      BY <1>1
    <3>3. Field(Accu, i)[2] \in Int
      BY <1>1, <3>2 DEF Field
    <3> QED
      BY <3>1, <3>3 DEF Long_val
  <2> QED
    BY <1>1, <1>3, <2>1, IntegerValue, IndexType, ReadKeeps DEF getStringChar
<1>4. CASE setStringChar
  <2>1. Long_val(StackPointer(1)) \in Int
    BY <1>4, OperandsAssumption DEF setStringChar, Val_long, Long_val
  <2>2. Byte(Long_val(StackPointer(1)) % 256) \in Word
    <3>1. PICK c \in Int : c = Long_val(StackPointer(1))
      BY <2>1
    <3>2. c % 256 \in Int
      OBVIOUS
    <3> QED
      BY <3>1, <3>2 DEF Byte, Word
  <2> DEFINE words == <<Byte(Long_val(StackPointer(1)) % 256)>>
  <2>3. words \in Seq(Word) /\ \A i \in 1..Len(words) : words[i][1] = "byte"
    BY <2>2 DEF Byte
  <2>4. Tag_val(Accu) \notin {Closure_tag, Double_tag, Double_array_tag}
    BY <1>1 DEF Closure_tag, Double_tag, Double_array_tag, String_tag
  <2>5. /\ ValuesIn(heap, Drop(stack, 2))
        /\ Store(Long_val(StackPointer(0)), words, Drop(stack, 2))
    BY <1>1, <1>4, IndexType DEF setStringChar
  <2> HIDE DEF words
  <2> QED
    BY <1>1, <1>2, <2>3, <2>4, <2>5, StoreKeeps
<1> QED
  BY <1>3, <1>4

LEMMA GlobalKeeps ==
  ASSUME ZInv, NEW g \in DOMAIN caml_global_data,
         getGlobal(g) \/ setGlobal(g) \/ \E i \in Sizes : getGlobalField(g, i)
  PROVE  ZInv'
<1>1. ValuesIn(heap, caml_global_data) /\ g \in 1..Len(caml_global_data)
  BY Element DEF ZInv, ValuesIn
<1>2. ValueIn(heap, caml_global_data[g])
  BY <1>1 DEF ValuesIn
<1>3. CASE getGlobal(g)
  BY <1>2, <1>3, WordsAlone, ReadKeeps DEF getGlobal
<1>4. CASE setGlobal(g)
  <2>1. ValuesIn(heap, [caml_global_data EXCEPT ![g] = Accu])
    BY <1>1, WordsAlone DEF ValuesIn, ValueIn
  <2> QED
    BY <1>4, <2>1 DEF setGlobal, ZInv
<1>5. CASE \E i \in Sizes : getGlobalField(g, i)
  <2> PICK i \in Sizes : getGlobalField(g, i)
    BY <1>5
  <2>1. i \in Nat
    BY BoundsAssumption DEF Sizes
  <2>2. ValueIn(heap, Field(caml_global_data[g], i))
    BY <1>2, <2>1, BlockFields DEF getGlobalField
  <2> QED
    BY <2>2, WordsAlone, ReadKeeps DEF getGlobalField
<1> QED
  BY <1>3, <1>4, <1>5

LEMMA AtomKeeps == ZInv /\ getAtom => ZInv'
<1> SUFFICES ASSUME ZInv, getAtom PROVE ZInv'
  OBVIOUS
<1>1. ValueIn(heap, Ptr(1, 0))
  BY HeapType, BlockValue
<1> QED
  BY <1>1, WordsAlone, ReadKeeps DEF getAtom

-----------------------------------------------------------------------------
LEMMA ZInvInductive == ZInv /\ [Next]_vars => ZInv'
<1> SUFFICES ASSUME ZInv, [Next]_vars PROVE ZInv'
  OBVIOUS
<1>0. 0 \in Sizes
  BY BoundsAssumption DEF Sizes
<1>1. CASE push \/ isInt \/ boolNot
  BY <1>0, <1>1, MoveKeeps
<1>2. CASE getAtom
  BY <1>2, AtomKeeps
<1>3. CASE vectLength \/ getVectItem \/ setVectItem
  BY <1>3, VectKeeps
<1>4. CASE getMethod
  BY <1>4, MethodKeeps
<1>5. CASE getStringChar \/ setStringChar
  BY <1>5, CharKeeps
<1>6. CASE BoxFloat
  BY <1>0, <1>6, FloatKeeps
<1>7. ASSUME NEW n \in Consts, constInt(n) \/ offsetRef(n) PROVE ZInv'
  BY <1>0, <1>7, MoveKeeps, OffsetRefKeeps
<1>8. ASSUME NEW d \in DOMAIN Definitions, closure(d) \/ closureRec(d) PROVE ZInv'
  BY <1>8, ClosureKeeps, ClosureRecKeeps
<1>9. ASSUME NEW n \in Sizes,
             \/ acc(n) \/ assign(n) \/ getField(n) \/ setField(n)
             \/ getDoubleField(n) \/ storeDoubleField(n)
      PROVE  ZInv'
  <2>1. n \in Nat
    BY BoundsAssumption DEF Sizes
  <2> QED
    BY <1>9, <2>1, MoveKeeps, FieldKeeps, FloatKeeps
<1>10. ASSUME NEW n \in Sizes \ {0},
              \/ pop(n) \/ envAcc(n) \/ offsetClosure(n)
              \/ Enter(n) \/ createRestartClosure(n)
              \/ makeFloatBlock(n) \/ c_call(n)
              \/ \E tag \in Tags : makeBlock(tag, n)
       PROVE  ZInv'
  BY <1>10, MoveKeeps, EnvKeeps, CallKeeps, FloatKeeps, MakeBlockKeeps
<1>11. ASSUME NEW g \in DOMAIN caml_global_data,
              getGlobal(g) \/ setGlobal(g) \/ \E i \in Sizes : getGlobalField(g, i)
       PROVE  ZInv'
  BY <1>11, GlobalKeeps
<1>12. CASE UNCHANGED vars
  BY <1>12 DEF vars, ZInv
<1> QED
  BY <1>1, <1>2, <1>3, <1>4, <1>5, <1>6, <1>7, <1>8, <1>9, <1>10, <1>11, <1>12 DEF Next

(* ZInv holds in every reachable state. *)
THEOREM ZInvHolds == Spec => []ZInv
  BY InitKeeps, ZInvInductive, PTL DEF Spec

LEMMA FunctionPtrOK ==
  ASSUME HeapIn(heap), NEW w, NEW d, NEW k, FunctionPtr(heap, w, d, k)
  PROVE  ValueOK(w)
<1>1. /\ IsPtr(w) /\ w[2] \in DOMAIN heap /\ Is(w, Closure_tag)
      /\ d \in DOMAIN Definitions /\ k \in 1..Len(Definitions[d].arity)
      /\ w[3] = 2 * (k - 1)
  BY DEF FunctionPtr, IsFunctions, IsPtr, Is, Tag_val
<1>2. CASE k = 1
  BY <1>1, <1>2 DEF ValueOK
<1>3. CASE k # 1
  <2> DEFINE n == 2 * Len(Definitions[d].arity) - 1
  <2>1. /\ Len(Fields(w)) = n + Definitions[d].vars
        /\ \A i \in 1..n : Fields(w)[i] = FunctionWords(d)[i]
    BY DEF FunctionPtr, IsFunctions, Fields
  <2>2. w[3] \in 1..n /\ w[3] < n /\ w[3] % 2 # 1 /\ n \in Nat /\ Definitions[d].vars \in Nat
    BY <1>1, <1>3, DefinitionType
  <2> HIDE DEF n
  <2>3. Fields(w)[w[3]] = FunctionWords(d)[w[3]] /\ w[3] < Wosize(w)
    BY <2>1, <2>2 DEF Wosize
  <2>4. FunctionWords(d)[w[3]] = Hdr(w[3])
    BY <2>2 DEF FunctionWords, n
  <2> QED
    BY <1>1, <2>3, <2>4 DEF ValueOK
<1> QED
  BY <1>2, <1>3

LEMMA ValueInOK ==
  ASSUME HeapIn(heap), NEW w, ValueIn(heap, w)
  PROVE  ValueOK(w)
<1>1. CASE w[1] = "int"
  BY <1>1 DEF ValueOK
<1>2. CASE w[1] = "ptr" /\ w[2] \in DOMAIN heap /\ w[3] = 0
  BY <1>2 DEF ValueOK, IsPtr
<1>3. CASE \E d, k \in Int : FunctionPtr(heap, w, d, k)
  BY <1>3, FunctionPtrOK
<1> QED
  BY <1>1, <1>2, <1>3 DEF ValueIn

LEMMA ContentParses ==
  ASSUME ZInv, NEW b \in DOMAIN heap, NEW f \in DOMAIN heap[b].fields
  PROVE  LET w == heap[b].fields[f]
         IN w[1] \in FieldKinds(b) /\ (w[1] = "ptr" => ValueOK(w))
<1> DEFINE F == heap[b].fields
           t == heap[b].tag
           w == F[f]
<1>1. HeapIn(heap) /\ b \in 1..Len(heap)
  BY HeapType DEF ZInv
<1>2. ContentIn(heap, t, F)
  BY <1>1 DEF HeapIn
<1>3. F \in Seq(Word) /\ f \in 1..Len(F) /\ w \in Word
  BY <1>2, Element DEF ContentIn
<1> HIDE DEF F, w
<1>4. ASSUME ValueIn(heap, w) PROVE w[1] \in {"int", "ptr"} /\ ValueOK(w)
  BY <1>1, <1>4, ValueInOK DEF ValueIn, FunctionPtr
<1>5. CASE t \in {Double_tag, Double_array_tag}
  <2>1. FieldKinds(b) = {"dbl"}
    BY <1>5 DEF FieldKinds, Double_tag, Double_array_tag, String_tag, Closure_tag
  <2>2. w[1] = "dbl"
    BY <1>2, <1>3, <1>5 DEF ContentIn, w
  <2> QED
    BY <2>1, <2>2 DEF w, F
<1>6. CASE t = String_tag
  <2>1. FieldKinds(b) = {"byte"}
    BY <1>6 DEF FieldKinds, Double_tag, Double_array_tag, String_tag, Closure_tag
  <2>2. w[1] = "byte"
    BY <1>2, <1>3, <1>6 DEF ContentIn, w
  <2> QED
    BY <2>1, <2>2 DEF w, F
<1>7. CASE t = Closure_tag
  <2>1. FieldKinds(b) = {"int", "ptr", "code", "restart", "hdr"}
    BY <1>7 DEF FieldKinds, Double_tag, Double_array_tag, String_tag, Closure_tag
  <2>2. ASSUME NEW d \in Int, IsFunctions(t, F, d),
               \A i \in 2 * Len(Definitions[d].arity) .. Len(F) : ValueIn(heap, F[i])
        PROVE  ValueIn(heap, w) \/ w[1] \in {"code", "hdr"}
    <3> DEFINE n == 2 * Len(Definitions[d].arity) - 1
    <3>1. n \in Nat /\ 2 * Len(Definitions[d].arity) = n + 1
      BY <2>2, DefinitionType DEF IsFunctions
    <3>2. CASE f \in 1..n
      <4>1. w = FunctionWords(d)[f]
        BY <2>2, <3>2 DEF IsFunctions, w
      <4> QED
        BY <3>2, <4>1 DEF FunctionWords, Code, Hdr
    <3>3. CASE f \in n + 1 .. Len(F)
      BY <2>2, <3>1, <3>3 DEF w
    <3> HIDE DEF n
    <3> QED
      BY <1>3, <3>1, <3>2, <3>3
  <2>3. ASSUME NEW d \in Int, NEW k \in Int, IsPartial(heap, t, F, d, k)
        PROVE  ValueIn(heap, w) \/ w[1] = "restart"
    <3>1. CASE f = 1
      BY <2>3, <3>1 DEF IsPartial, Restart, w
    <3>2. CASE f = 2
      BY <2>3, <3>2, FunctionValue DEF IsPartial, w
    <3>3. CASE f \in 3..Len(F)
      BY <2>3, <3>3 DEF IsPartial, w
    <3> QED
      BY <1>3, <3>1, <3>2, <3>3
  <2>4. ValueIn(heap, w) \/ w[1] \in {"code", "hdr", "restart"}
    BY <1>2, <1>7, <2>2, <2>3 DEF ContentIn
  <2> QED
    BY <1>4, <2>1, <2>4 DEF w, F
<1>8. CASE t \notin {Double_tag, Double_array_tag, String_tag, Closure_tag}
  <2>1. FieldKinds(b) = {"int", "ptr"}
    BY <1>8 DEF FieldKinds
  <2>2. ValueIn(heap, w)
    BY <1>2, <1>3, <1>8 DEF ContentIn, w
  <2> QED
    BY <1>4, <2>1, <2>2 DEF w, F
<1> QED
  BY <1>5, <1>6, <1>7, <1>8

(* The registers, the stack, the globals and every field of every block hold
   what the collector expects there: after each of the data instructions every
   pointer is to the start of a block or behind an infix header that leads back
   to it. *)
THEOREM HeapAlwaysParses == Spec => []HeapParses
<1>1. ZInv => HeapParses
  <2> SUFFICES ASSUME ZInv PROVE HeapParses
    OBVIOUS
  <2>1. HeapIn(heap) /\ ValuesIn(heap, stack) /\ ValuesIn(heap, caml_global_data)
    BY DEF ZInv
  <2>2. /\ DOMAIN stack = 1..Len(stack)
        /\ DOMAIN caml_global_data = 1..Len(caml_global_data)
    BY <2>1, Element DEF ValuesIn
  <2>3. ValueOK(Accu) /\ ValueOK(Env)
    BY <2>1, WordsAlone, ValueInOK
  <2>4. \A n \in DOMAIN stack : ValueOK(stack[n])
    BY <2>1, <2>2, ValueInOK DEF ValuesIn
  <2>5. \A g \in DOMAIN caml_global_data : ValueOK(caml_global_data[g])
    BY <2>1, <2>2, ValueInOK DEF ValuesIn
  <2> QED
    BY <2>3, <2>4, <2>5, ContentParses DEF HeapParses
<1> QED
  BY <1>1, ZInvHolds, PTL

(* Env is at the code that runs after every call, whether the closure came from
   a definition, a sibling function or a partial application: operands counted
   from there are right. *)
THEOREM EnvAlwaysMatchesCode == Spec => []EnvMatchesCode
<1>1. ZInv => EnvMatchesCode
  BY FunctionCode DEF ZInv, EnvMatchesCode
<1> QED
  BY <1>1, ZInvHolds, PTL

-----------------------------------------------------------------------------
(* ZamData implements OCamlObjects.  The values and objects that words and
   blocks stand for, in any heap h: *)
ValueOf(h, w) ==
  IF w[1] # "ptr" THEN w
  ELSE IF h[w[2]].tag = Closure_tag /\ h[w[2]].fields[1][1] = "code"
       THEN <<"fn", w[2], w[3] \div 2 + 1>>
  ELSE <<"ref", w[2], 0>>

ValuesOf(h, s) == [i \in DOMAIN s |-> ValueOf(h, s[i])]

AnObject(kind, items, of) == [kind |-> kind, items |-> items, of |-> of]

FunctionFieldsOf(f) == 2 * Len(Definitions[f[1][2]].arity) - 1

ObjectIn(h, tag, f) ==
  CASE tag = Double_tag       -> AnObject("float", Floats(f), Val_unit)
    [] tag = Double_array_tag -> AnObject("floats", Floats(f), Val_unit)
    [] tag = String_tag       -> AnObject("string", Bytes(f), Val_unit)
    [] tag = Closure_tag      ->
         IF f[1][1] = "code"
         THEN AnObject("functions", ValuesOf(h, Drop(f, FunctionFieldsOf(f))),
                       <<"definition", f[1][2], 0>>)
         ELSE AnObject("partial", ValuesOf(h, Drop(f, 2)), ValueOf(h, f[2]))
    [] OTHER -> AnObject("block", ValuesOf(h, f), Val_long(tag))

ObjectsIn(h) == [b \in DOMAIN h |-> ObjectIn(h, h[b].tag, h[b].fields)]

\* One case each
ObjectCases(h, tag, f) ==
  /\ tag = Double_tag => ObjectIn(h, tag, f) = AnObject("float", Floats(f), Val_unit)
  /\ tag = Double_array_tag => ObjectIn(h, tag, f) = AnObject("floats", Floats(f), Val_unit)
  /\ tag = String_tag => ObjectIn(h, tag, f) = AnObject("string", Bytes(f), Val_unit)
  /\ tag = Closure_tag /\ f[1][1] = "code" =>
       ObjectIn(h, tag, f) = AnObject("functions", ValuesOf(h, Drop(f, FunctionFieldsOf(f))),
                                      <<"definition", f[1][2], 0>>)
  /\ tag = Closure_tag /\ f[1][1] # "code" =>
       ObjectIn(h, tag, f) = AnObject("partial", ValuesOf(h, Drop(f, 2)), ValueOf(h, f[2]))
  /\ tag \notin {Double_tag, Double_array_tag, String_tag, Closure_tag} =>
       ObjectIn(h, tag, f) = AnObject("block", ValuesOf(h, f), Val_long(tag))

LEMMA ObjectKinds ==
  ASSUME NEW h, NEW tag, NEW f
  PROVE  ObjectCases(h, tag, f)
<1>1. ASSUME tag = Double_tag PROVE ObjectIn(h, tag, f) = AnObject("float", Floats(f), Val_unit)
  BY <1>1 DEF ObjectIn, Double_tag, Double_array_tag, String_tag, Closure_tag
<1>2. ASSUME tag = Double_array_tag PROVE ObjectIn(h, tag, f) = AnObject("floats", Floats(f), Val_unit)
  BY <1>2 DEF ObjectIn, Double_tag, Double_array_tag, String_tag, Closure_tag
<1>3. ASSUME tag = String_tag PROVE ObjectIn(h, tag, f) = AnObject("string", Bytes(f), Val_unit)
  BY <1>3 DEF ObjectIn, Double_tag, Double_array_tag, String_tag, Closure_tag
<1>4. ASSUME tag = Closure_tag, f[1][1] = "code"
      PROVE  ObjectIn(h, tag, f) = AnObject("functions", ValuesOf(h, Drop(f, FunctionFieldsOf(f))),
                                            <<"definition", f[1][2], 0>>)
  BY <1>4 DEF ObjectIn, Double_tag, Double_array_tag, String_tag, Closure_tag
<1>5. ASSUME tag = Closure_tag, f[1][1] # "code"
      PROVE  ObjectIn(h, tag, f) = AnObject("partial", ValuesOf(h, Drop(f, 2)), ValueOf(h, f[2]))
  BY <1>5 DEF ObjectIn, Double_tag, Double_array_tag, String_tag, Closure_tag
<1>6. ASSUME tag \notin {Double_tag, Double_array_tag, String_tag, Closure_tag}
      PROVE  ObjectIn(h, tag, f) = AnObject("block", ValuesOf(h, f), Val_long(tag))
  BY <1>6 DEF ObjectIn
<1> QED
  BY <1>1, <1>2, <1>3, <1>4, <1>5, <1>6 DEF ObjectCases

\* They are what the refinement mapping says.
Abstraction ==
  /\ \A w : Value(w) = ValueOf(heap, w)
  /\ \A s : Values(s) = ValuesOf(heap, s)
  /\ [b \in DOMAIN heap |-> ObjectOf(b)] = ObjectsIn(heap)

LEMMA Abstracted == Abstraction
<1>1. ASSUME NEW w PROVE Value(w) = ValueOf(heap, w)
  BY DEF Value, ValueOf, IsPtr, Is, Tag_val, Fields
<1>2. ASSUME NEW s PROVE Values(s) = ValuesOf(heap, s)
  BY <1>1 DEF Values, ValuesOf
<1>3. ASSUME NEW b \in DOMAIN heap PROVE ObjectOf(b) = ObjectIn(heap, heap[b].tag, heap[b].fields)
  BY <1>1, <1>2 DEF ObjectOf, ObjectIn, AnObject, FunctionFieldsOf
<1> QED
  BY <1>1, <1>2, <1>3 DEF Abstraction, ObjectsIn

DropFacts(S, s, n) ==
  /\ Drop(s, n) \in Seq(S) /\ Len(Drop(s, n)) = Len(s) - n /\ Len(s) \in Nat
  /\ \A i \in 1 .. Len(s) - n : Drop(s, n)[i] = s[n + i] /\ n + i \in n + 1 .. Len(s)

LEMMA DropParts ==
  ASSUME NEW S, NEW s \in Seq(S), NEW n \in Nat, n <= Len(s)
  PROVE  DropFacts(S, s, n)
<1>1. PICK t : t = SubSeq(s, n + 1, Len(s))
  OBVIOUS
<1>2. Len(s) \in Nat
  OBVIOUS
<1>3. Len(t) = Len(s) - n
  BY <1>1, <1>2
<1>4. t \in Seq(S)
  BY <1>1, <1>2
<1>5. \A i \in 1 .. Len(s) - n : t[i] = s[n + i] /\ n + i \in n + 1 .. Len(s)
  BY <1>1, <1>2, <1>3
<1> QED
  BY <1>1, <1>2, <1>3, <1>4, <1>5 DEF Drop, DropFacts

LEMMA ValueOfGrows ==
  ASSUME NEW h, NEW g, Grows(h, g), NEW w, ValueIn(h, w)
  PROVE  ValueOf(g, w) = ValueOf(h, w)
<1>1. CASE w[1] = "int"
  BY <1>1 DEF ValueOf
<1>2. CASE w[1] # "int"
  <2>1. w[2] \in 1..Len(h)
    <3>1. w[2] \in DOMAIN h
      BY <1>2 DEF ValueIn, FunctionPtr
    <3> QED
      BY <3>1 DEF Grows, Heap
  <2>2. /\ g[w[2]].tag = h[w[2]].tag
        /\ h[w[2]].tag = Closure_tag => g[w[2]].fields = h[w[2]].fields
    BY <2>1 DEF Grows
  <2> QED
    BY <2>2 DEF ValueOf
<1> QED
  BY <1>1, <1>2

LEMMA ValuesOfGrow ==
  ASSUME NEW h, NEW g, Grows(h, g), NEW s, ValuesIn(h, s)
  PROVE  ValuesOf(g, s) = ValuesOf(h, s)
<1>1. DOMAIN s = 1..Len(s)
  BY DEF ValuesIn
<1>2. ASSUME NEW i \in DOMAIN s PROVE ValueOf(g, s[i]) = ValueOf(h, s[i])
  BY <1>1, ValueOfGrows DEF ValuesIn
<1> QED
  BY <1>2 DEF ValuesOf

\* What a closure block holds, as the mapping takes it apart
Functions_(h, f, d) ==
  /\ IsFunctions(Closure_tag, f, d) /\ d \in DOMAIN Definitions
  /\ f[1] = Code(d, 1) /\ f[1][1] = "code" /\ f[1][2] = d
  /\ FunctionFieldsOf(f) = 2 * Len(Definitions[d].arity) - 1
  /\ ValuesIn(h, Drop(f, FunctionFieldsOf(f)))
  /\ Len(Drop(f, FunctionFieldsOf(f))) = Definitions[d].vars

Partial_(h, f, d, k) ==
  /\ IsPartial(h, Closure_tag, f, d, k) /\ f[1][1] # "code"
  /\ ValueIn(h, f[2]) /\ ValuesIn(h, Drop(f, 2))

LEMMA FunctionsParts ==
  ASSUME NEW h, NEW f \in Seq(Word), NEW d, IsFunctions(Closure_tag, f, d),
         \A i \in 2 * Len(Definitions[d].arity) .. Len(f) : ValueIn(h, f[i])
  PROVE  Functions_(h, f, d)
<1>1. /\ d \in DOMAIN Definitions /\ d \in Nat /\ Definitions[d].vars \in Nat
      /\ Len(Definitions[d].arity) \in Nat /\ Len(Definitions[d].arity) >= 1
  BY DefinitionType DEF IsFunctions
<1>2. PICK n : n = 2 * Len(Definitions[d].arity) - 1
  OBVIOUS
<1>3. n \in Nat /\ n >= 1 /\ 1 \in 1..n /\ Len(f) = n + Definitions[d].vars /\ n + 1 = 2 * Len(Definitions[d].arity)
  BY <1>1, <1>2 DEF IsFunctions
<1>4. f[1] = Code(d, 1)
  <2>1. f[1] = FunctionWords(d)[1]
    BY <1>2, <1>3 DEF IsFunctions
  <2>2. 1 % 2 = 1 /\ (1 + 1) \div 2 = 1
    OBVIOUS
  <2> QED
    BY <1>2, <1>3, <2>1, <2>2 DEF FunctionWords
<1>5. f[1][1] = "code" /\ f[1][2] = d
  BY <1>4 DEF Code
<1>6. FunctionFieldsOf(f) = n
  BY <1>2, <1>5 DEF FunctionFieldsOf
<1>7. Drop(f, n) \in Seq(Word) /\ Len(Drop(f, n)) = Definitions[d].vars
  BY <1>1, <1>3, DropParts DEF DropFacts
<1>8. ASSUME NEW i \in 1..Len(Drop(f, n)) PROVE ValueIn(h, Drop(f, n)[i])
  <2>0. \A j \in 1 .. Len(f) - n : Drop(f, n)[j] = f[n + j] /\ n + j \in n + 1 .. Len(f)
    <3>1. n \in Nat /\ n <= Len(f)
      BY <1>1, <1>3
    <3> QED
      BY ONLY <3>1, f \in Seq(Word), DropParts DEF DropFacts
  <2>1. Drop(f, n)[i] = f[n + i] /\ n + i \in n + 1 .. Len(f)
    BY ONLY <1>1, <1>3, <1>7, <2>0, i \in 1..Len(Drop(f, n))
  <2> QED
    BY <1>3, <2>1
<1> QED
  BY <1>1, <1>2, <1>4, <1>5, <1>6, <1>7, <1>8 DEF Functions_, ValuesIn

LEMMA PartialParts ==
  ASSUME NEW h, NEW f \in Seq(Word), NEW d, NEW k, IsPartial(h, Closure_tag, f, d, k)
  PROVE  Partial_(h, f, d, k)
<1>1. Len(f) \in Nat /\ Len(f) >= 2 /\ f[1] = Restart(d, k) /\ FunctionPtr(h, f[2], d, k)
      /\ \A i \in 3..Len(f) : ValueIn(h, f[i])
  BY DEF IsPartial
<1>2. f[1][1] # "code"
  BY <1>1 DEF Restart
<1>3. ValueIn(h, f[2])
  BY <1>1, FunctionValue
<1>4. Drop(f, 2) \in Seq(Word) /\ Len(Drop(f, 2)) = Len(f) - 2
  BY <1>1, DropParts DEF DropFacts
<1>5. ASSUME NEW i \in 1..Len(Drop(f, 2)) PROVE ValueIn(h, Drop(f, 2)[i])
  <2>0. DropFacts(Word, f, 2)
    BY <1>1, DropParts
  <2>1. Drop(f, 2)[i] = f[2 + i] /\ 2 + i \in 3..Len(f)
    BY <1>1, <1>4, <2>0 DEF DropFacts
  <2> QED
    BY <1>1, <2>1
<1> QED
  BY <1>2, <1>3, <1>4, <1>5 DEF Partial_, ValuesIn

LEMMA ClosureContent ==
  ASSUME NEW h, NEW f, ContentIn(h, Closure_tag, f)
  PROVE  (\E d \in Int : Functions_(h, f, d)) \/ (\E d, k \in Int : Partial_(h, f, d, k))
<1>1. f \in Seq(Word)
  BY DEF ContentIn
<1>2. CASE \E d \in Int : /\ IsFunctions(Closure_tag, f, d)
                          /\ \A i \in 2 * Len(Definitions[d].arity) .. Len(f) : ValueIn(h, f[i])
  BY <1>1, <1>2, FunctionsParts
<1>3. CASE \E d, k \in Int : IsPartial(h, Closure_tag, f, d, k)
  BY <1>1, <1>3, PartialParts
<1> QED
  BY <1>2, <1>3 DEF ContentIn

LEMMA ObjectGrows ==
  ASSUME NEW h, NEW g, Grows(h, g), NEW tag, NEW f, ContentIn(h, tag, f)
  PROVE  ObjectIn(g, tag, f) = ObjectIn(h, tag, f)
<1>0. ObjectCases(h, tag, f) /\ ObjectCases(g, tag, f)
  BY ObjectKinds
<1>1. CASE tag \in {Double_tag, Double_array_tag, String_tag}
  BY <1>0, <1>1 DEF ObjectCases
<1>2. CASE tag = Closure_tag
  <2>1. CASE \E d \in Int : Functions_(h, f, d)
    <3>1. f[1][1] = "code" /\ ValuesIn(h, Drop(f, FunctionFieldsOf(f)))
      BY <2>1 DEF Functions_
    <3>2. ValuesOf(g, Drop(f, FunctionFieldsOf(f))) = ValuesOf(h, Drop(f, FunctionFieldsOf(f)))
      BY <3>1, ValuesOfGrow
    <3> QED
      BY <1>0, <1>2, <3>1, <3>2 DEF ObjectCases
  <2>2. CASE \E d, k \in Int : Partial_(h, f, d, k)
    <3>1. f[1][1] # "code" /\ ValueIn(h, f[2]) /\ ValuesIn(h, Drop(f, 2))
      BY <2>2 DEF Partial_
    <3>2. ValuesOf(g, Drop(f, 2)) = ValuesOf(h, Drop(f, 2)) /\ ValueOf(g, f[2]) = ValueOf(h, f[2])
      BY <3>1, ValuesOfGrow, ValueOfGrows
    <3> QED
      BY <1>0, <1>2, <3>1, <3>2 DEF ObjectCases
  <2> QED
    BY <1>2, <2>1, <2>2, ClosureContent
<1>3. CASE tag \notin {Double_tag, Double_array_tag, String_tag, Closure_tag}
  <2>1. ValuesIn(h, f)
    BY <1>3 DEF ContentIn, ValuesIn
  <2>2. ValuesOf(g, f) = ValuesOf(h, f)
    BY <2>1, ValuesOfGrow
  <2> QED
    BY <1>0, <1>3, <2>2 DEF ObjectCases
<1> QED
  BY <1>1, <1>2, <1>3

\* One more block is one more object.
Appends(h, g, tag, f) ==
  HeapIn(h) /\ HeapIn(g) /\ g = Append(h, [tag |-> tag, fields |-> f])

LEMMA AppendParts ==
  ASSUME NEW h, NEW g, NEW tag, NEW f, Appends(h, g, tag, f)
  PROVE  /\ Grows(h, g) /\ Len(g) = Len(h) + 1 /\ Len(h) \in Nat
         /\ g[Len(h) + 1] = [tag |-> tag, fields |-> f]
         /\ \A b \in 1..Len(h) : g[b] = h[b]
         /\ ContentIn(g, tag, f)
<1>1. h \in Heap /\ g \in Heap /\ Len(h) \in Nat
  BY DEF Appends, HeapIn, Heap
<1>2. PICK r : r = [tag |-> tag, fields |-> f]
  OBVIOUS
<1>3. PICK S : S = [tag : Nat, fields : Seq(Word)] \cup {r}
  OBVIOUS
<1>4. h \in Seq(S) /\ r \in S
  <2>1. \A b \in 1..Len(h) : h[b] \in [tag : Nat, fields : Seq(Word)]
    BY <1>1, Element DEF Heap
  <2>2. h \in [1..Len(h) -> S]
    BY <1>1, <1>3, <2>1 DEF Heap
  <2> QED
    BY ONLY <1>1, <1>3, <2>2
<1>5. g = Append(h, r)
  BY <1>2 DEF Appends
<1>6. Len(g) = Len(h) + 1 /\ g[Len(h) + 1] = r /\ \A b \in 1..Len(h) : g[b] = h[b]
  BY ONLY <1>1, <1>4, <1>5
<1>7. Grows(h, g)
  BY <1>1, <1>6 DEF Grows
<1>8. ContentIn(g, g[Len(h) + 1].tag, g[Len(h) + 1].fields)
  <2>1. Len(h) + 1 \in 1..Len(g)
    BY ONLY <1>1, <1>6
  <2>2. \A b \in 1..Len(g) : ContentIn(g, g[b].tag, g[b].fields)
    BY DEF Appends, HeapIn
  <2> QED
    BY ONLY <2>1, <2>2
<1>9. r.tag = tag /\ r.fields = f
  BY <1>2
<1> QED
  BY <1>1, <1>2, <1>6, <1>7, <1>8, <1>9

LEMMA ObjectsAppend ==
  ASSUME NEW h, NEW g, NEW tag, NEW f, Appends(h, g, tag, f)
  PROVE  ObjectsIn(g) = Append(ObjectsIn(h), ObjectIn(g, tag, f)) /\ Len(ObjectsIn(h)) = Len(h)
<1>1. /\ Grows(h, g) /\ Len(g) = Len(h) + 1 /\ g[Len(h) + 1] = [tag |-> tag, fields |-> f]
      /\ \A b \in 1..Len(h) : g[b] = h[b]
  BY AppendParts
<1>2. h \in Heap /\ g \in Heap /\ DOMAIN h = 1..Len(h) /\ DOMAIN g = 1..Len(g) /\ Len(h) \in Nat
  BY <1>1 DEF Grows, Heap
<1>3. ASSUME NEW b \in 1..Len(h)
      PROVE  ObjectIn(g, g[b].tag, g[b].fields) = ObjectIn(h, h[b].tag, h[b].fields)
  <2>1. ContentIn(h, h[b].tag, h[b].fields)
    BY DEF Appends, HeapIn
  <2> QED
    BY <1>1, <2>1, ObjectGrows
<1>5. PICK o : o = ObjectIn(g, tag, f)
  OBVIOUS
<1>6. PICK S : S = {ObjectIn(h, h[b].tag, h[b].fields) : b \in 1..Len(h)} \cup {o}
  OBVIOUS
<1>7. ObjectsIn(h) \in [1..Len(h) -> S]
  BY <1>2, <1>6 DEF ObjectsIn
<1>8. ObjectsIn(h) \in Seq(S) /\ Len(ObjectsIn(h)) = Len(h) /\ o \in S
  BY ONLY <1>2, <1>6, <1>7
<1>9. PICK s : s = Append(ObjectsIn(h), o)
  OBVIOUS
<1>10. /\ s \in Seq(S) /\ Len(s) = Len(h) + 1 /\ DOMAIN s = 1 .. Len(h) + 1
       /\ \A b \in 1..Len(h) : s[b] = ObjectsIn(h)[b]
       /\ s[Len(h) + 1] = o
  BY ONLY <1>2, <1>8, <1>9
<1>11. \A b \in DOMAIN s : s[b] = ObjectIn(g, g[b].tag, g[b].fields)
  <2>1. \A b \in 1..Len(h) : s[b] = ObjectIn(g, g[b].tag, g[b].fields)
    BY <1>2, <1>3, <1>10 DEF ObjectsIn
  <2>2. s[Len(h) + 1] = ObjectIn(g, g[Len(h) + 1].tag, g[Len(h) + 1].fields)
    BY <1>1, <1>5, <1>10
  <2> QED
    BY <1>2, <1>10, <2>1, <2>2
<1>12. s = [b \in DOMAIN s |-> s[b]]
  BY ONLY <1>10
<1>13. ObjectsIn(g) = s
  <2>1. DOMAIN s = DOMAIN g
    BY <1>1, <1>2, <1>10
  <2> QED
    BY <1>11, <1>12, <2>1 DEF ObjectsIn
<1> QED
  BY <1>5, <1>8, <1>9, <1>13

\* Other words in a block are another object in its place.
Overwrites(h, g, b, f) ==
  /\ HeapIn(h) /\ HeapIn(g) /\ b \in 1..Len(h) /\ h[b].tag # Closure_tag
  /\ g = [h EXCEPT ![b].fields = f]

LEMMA OverwriteParts ==
  ASSUME NEW h, NEW g, NEW b, NEW f, Overwrites(h, g, b, f)
  PROVE  /\ Grows(h, g) /\ DOMAIN g = DOMAIN h /\ DOMAIN h = 1..Len(h) /\ b \in 1..Len(h)
         /\ \A c \in 1..Len(h) : c # b => g[c] = h[c]
         /\ g[b].tag = h[b].tag /\ g[b].fields = f /\ Len(g) = Len(h)
<1>1. h \in Heap /\ g \in Heap /\ b \in 1..Len(h) /\ h[b].tag # Closure_tag
  BY DEF Overwrites, HeapIn, Heap
<1>2. /\ DOMAIN g = DOMAIN h /\ DOMAIN h = 1..Len(h) /\ Len(g) = Len(h) /\ Len(h) \in Nat
  <2>1. DOMAIN g = DOMAIN h
    BY DEF Overwrites
  <2> QED
    BY <1>1, <2>1 DEF Heap
<1>3. /\ \A c \in 1..Len(h) : c # b => g[c] = h[c]
      /\ g[b].tag = h[b].tag /\ g[b].fields = f
  <2>1. h[b] \in [tag : Nat, fields : Seq(Word)]
    BY <1>1, Element DEF Heap
  <2> QED
    BY <1>2, <1>1, <2>1 DEF Overwrites
<1> QED
  BY <1>1, <1>2, <1>3 DEF Grows

LEMMA ObjectsStore ==
  ASSUME NEW h, NEW g, NEW b, NEW f, Overwrites(h, g, b, f)
  PROVE  ObjectsIn(g) = [ObjectsIn(h) EXCEPT ![b] = ObjectIn(g, h[b].tag, f)]
<1>1. /\ Grows(h, g) /\ DOMAIN g = DOMAIN h /\ DOMAIN h = 1..Len(h) /\ b \in 1..Len(h)
      /\ \A c \in 1..Len(h) : c # b => g[c] = h[c]
      /\ g[b].tag = h[b].tag /\ g[b].fields = f
  BY OverwriteParts
<1>2. ASSUME NEW c \in 1..Len(h), c # b
      PROVE  ObjectIn(g, g[c].tag, g[c].fields) = ObjectIn(h, h[c].tag, h[c].fields)
  <2>1. ContentIn(h, h[c].tag, h[c].fields)
    BY DEF Overwrites, HeapIn
  <2> QED
    BY <1>1, <1>2, <2>1, ObjectGrows
<1> QED
  BY <1>1, <1>2 DEF ObjectsIn

-----------------------------------------------------------------------------
(* A step of ZamData as one of OCamlObjects: o, v and s are what the objects,
   the accumulator and the locals become. *)
GivesIn(o, v, s) ==
  /\ ObjectsIn(heap') = o /\ ValueOf(heap', Accu') = v /\ ValuesOf(heap', stack') = s
  /\ ValueOf(heap', Env') = ValueOf(heap, Env)
  /\ ValuesOf(heap', caml_global_data') = ValuesOf(heap, caml_global_data)

Mapped ==
  /\ Value(Accu) = ValueOf(heap, Accu) /\ Value(Env) = ValueOf(heap, Env)
  /\ Values(stack) = ValuesOf(heap, stack)
  /\ Values(caml_global_data) = ValuesOf(heap, caml_global_data)
  /\ [b \in DOMAIN heap |-> ObjectOf(b)] = ObjectsIn(heap)

LEMMA MappedNow == Mapped
  BY Abstracted DEF Abstraction, Mapped

LEMMA MappedNext == Mapped'
  BY MappedNow, PTL

LEMMA GivesStep ==
  ASSUME NEW o, NEW v, NEW s, GivesIn(o, v, s)
  PROVE  /\ [b \in DOMAIN heap |-> ObjectOf(b)]' = o
         /\ Objects!Gives(v, s)
  BY MappedNow, MappedNext DEF Mapped, GivesIn, Objects!Gives

LEMMA ReadsStep ==
  ASSUME NEW v, NEW s, GivesIn(ObjectsIn(heap), v, s)
  PROVE  Objects!Reads(v, s)
  BY GivesStep, MappedNow DEF Mapped, Objects!Reads

LEMMA ReadGives ==
  ASSUME NEW w, NEW rest, Read(w, rest)
  PROVE  GivesIn(ObjectsIn(heap), ValueOf(heap, w), ValuesOf(heap, rest))
  BY DEF Read, Result, GivesIn

-----------------------------------------------------------------------------
(* Values of sequences of words *)
Val == {"int", "ptr", "code", "restart", "hdr", "dbl", "byte", "fn", "ref"} \X Int \X Int

LEMMA ValueType ==
  ASSUME NEW h, NEW w \in Word
  PROVE  ValueOf(h, w) \in Val
<1>1. w[1] \in {"int", "ptr", "code", "restart", "hdr", "dbl", "byte"} /\ w[2] \in Int /\ w[3] \in Int
      /\ w = <<w[1], w[2], w[3]>>
  BY DEF Word
<1>2. <<"fn", w[2], w[3] \div 2 + 1>> \in Val
  BY ONLY <1>1 DEF Val
<1>3. <<"ref", w[2], 0>> \in Val
  BY ONLY <1>1 DEF Val
<1>4. w \in Val
  BY ONLY <1>1 DEF Val
<1> QED
  BY <1>2, <1>3, <1>4 DEF ValueOf

ValuesFacts(h, s) ==
  /\ ValuesOf(h, s) \in Seq(Val) /\ Len(ValuesOf(h, s)) = Len(s) /\ Len(s) \in Nat
  /\ \A i \in 1..Len(s) : ValuesOf(h, s)[i] = ValueOf(h, s[i])

LEMMA ValuesType ==
  ASSUME NEW h, NEW s \in Seq(Word)
  PROVE  ValuesFacts(h, s)
<1>1. DOMAIN s = 1..Len(s) /\ Len(s) \in Nat /\ \A i \in 1..Len(s) : s[i] \in Word
  BY Element
<1>2. PICK f : f = ValuesOf(h, s)
  OBVIOUS
<1>3. \A i \in 1..Len(s) : f[i] = ValueOf(h, s[i]) /\ f[i] \in Val
  BY <1>1, <1>2, ValueType DEF ValuesOf
<1>4. f \in [1..Len(s) -> Val]
  BY <1>1, <1>2, <1>3 DEF ValuesOf
<1>5. f \in Seq(Val) /\ Len(f) = Len(s)
  BY ONLY <1>1, <1>4
<1> QED
  BY <1>1, <1>2, <1>3, <1>5 DEF ValuesFacts

LEMMA SameSeq ==
  ASSUME NEW S, NEW s \in Seq(S), NEW t \in Seq(S), Len(s) = Len(t),
         \A i \in 1..Len(s) : s[i] = t[i]
  PROVE  s = t
  OBVIOUS

LEMMA ValuesConcat ==
  ASSUME NEW h, NEW s \in Seq(Word), NEW t \in Seq(Word)
  PROVE  ValuesOf(h, s \o t) = ValuesOf(h, s) \o ValuesOf(h, t)
<1>1. PICK u : u = s \o t
  OBVIOUS
<1>2. /\ u \in Seq(Word) /\ Len(u) = Len(s) + Len(t) /\ Len(s) \in Nat /\ Len(t) \in Nat
      /\ \A i \in 1..Len(s) : u[i] = s[i]
      /\ \A i \in Len(s) + 1 .. Len(s) + Len(t) : i - Len(s) \in 1..Len(t) /\ u[i] = t[i - Len(s)]
  BY <1>1, ConcatParts
<1>3. ValuesFacts(h, s) /\ ValuesFacts(h, t) /\ ValuesFacts(h, u)
  BY <1>2, ValuesType
<1>4. PICK a, b, c : a = ValuesOf(h, s) /\ b = ValuesOf(h, t) /\ c = ValuesOf(h, u)
  OBVIOUS
<1>5. /\ a \in Seq(Val) /\ Len(a) = Len(s) /\ b \in Seq(Val) /\ Len(b) = Len(t)
      /\ c \in Seq(Val) /\ Len(c) = Len(u)
      /\ \A i \in 1..Len(s) : a[i] = ValueOf(h, s[i])
      /\ \A i \in 1..Len(t) : b[i] = ValueOf(h, t[i])
      /\ \A i \in 1..Len(u) : c[i] = ValueOf(h, u[i])
  BY <1>3, <1>4 DEF ValuesFacts
<1>6. PICK d : d = a \o b
  OBVIOUS
<1>7. /\ d \in Seq(Val) /\ Len(d) = Len(s) + Len(t)
      /\ \A i \in 1..Len(s) : d[i] = a[i]
      /\ \A i \in Len(s) + 1 .. Len(s) + Len(t) : d[i] = b[i - Len(s)]
  <2>1. a \in Seq(Val) /\ b \in Seq(Val)
    BY <1>5
  <2>2. /\ d \in Seq(Val) /\ Len(d) = Len(a) + Len(b)
        /\ \A i \in 1..Len(a) : d[i] = a[i]
        /\ \A i \in Len(a) + 1 .. Len(a) + Len(b) : d[i] = b[i - Len(a)]
    BY <2>1, <1>6, ConcatParts
  <2> QED
    BY <2>2, <1>5
<1>8. ASSUME NEW i \in 1..Len(c) PROVE c[i] = d[i]
  <2>1. CASE i \in 1..Len(s)
    BY ONLY <1>2, <1>5, <1>7, <1>8, <2>1
  <2>2. CASE i \in Len(s) + 1 .. Len(s) + Len(t)
    BY ONLY <1>2, <1>5, <1>7, <1>8, <2>2
  <2> QED
    BY ONLY <1>2, <1>5, <1>8, <2>1, <2>2
<1>9. c = d
  BY ONLY <1>2, <1>5, <1>7, <1>8, SameSeq
<1> QED
  BY <1>1, <1>4, <1>6, <1>9

LEMMA ValuesSingle ==
  ASSUME NEW h, NEW w
  PROVE  ValuesOf(h, <<w>>) = <<ValueOf(h, w)>>
  BY DEF ValuesOf

LEMMA ValuesSub ==
  ASSUME NEW h, NEW s \in Seq(Word), NEW n \in Nat, n <= Len(s)
  PROVE  /\ ValuesOf(h, SubSeq(s, 1, n)) = SubSeq(ValuesOf(h, s), 1, n)
         /\ SubSeq(s, 1, n) \in Seq(Word) /\ Len(SubSeq(s, 1, n)) = n
         /\ \A i \in 1..n : SubSeq(s, 1, n)[i] = s[i]
<1>1. PICK t : t = SubSeq(s, 1, n)
  OBVIOUS
<1>2. Len(s) \in Nat /\ t \in Seq(Word) /\ Len(t) = n /\ \A i \in 1..n : t[i] = s[i]
  BY <1>1
<1>3. ValuesFacts(h, s) /\ ValuesFacts(h, t)
  BY <1>2, ValuesType
<1>4. PICK a, c : a = ValuesOf(h, s) /\ c = ValuesOf(h, t)
  OBVIOUS
<1>5. /\ a \in Seq(Val) /\ Len(a) = Len(s) /\ c \in Seq(Val) /\ Len(c) = n
      /\ \A i \in 1..Len(s) : a[i] = ValueOf(h, s[i])
      /\ \A i \in 1..n : c[i] = ValueOf(h, t[i])
  BY <1>2, <1>3, <1>4 DEF ValuesFacts
<1>6. PICK d : d = SubSeq(a, 1, n)
  OBVIOUS
<1>7. d \in Seq(Val) /\ Len(d) = n /\ \A i \in 1..n : d[i] = a[i]
  BY ONLY <1>2, <1>5, <1>6, n <= Len(s), n \in Nat
<1>8. \A i \in 1..n : c[i] = d[i]
  BY ONLY <1>2, <1>5, <1>7, n <= Len(s), n \in Nat
<1>9. c = d
  BY ONLY <1>5, <1>7, <1>8, SameSeq
<1> QED
  BY <1>1, <1>2, <1>4, <1>6, <1>9

LEMMA ValuesDrop ==
  ASSUME NEW h, NEW s \in Seq(Word), NEW n \in Nat, n <= Len(s)
  PROVE  ValuesOf(h, Drop(s, n)) = SubSeq(ValuesOf(h, s), n + 1, Len(ValuesOf(h, s)))
<1>1. PICK t : t = Drop(s, n)
  OBVIOUS
<1>2. /\ Len(s) \in Nat /\ t \in Seq(Word) /\ Len(t) = Len(s) - n
      /\ \A i \in 1 .. Len(s) - n : t[i] = s[n + i] /\ n + i \in n + 1 .. Len(s)
  <2>1. DropFacts(Word, s, n)
    BY DropParts
  <2> QED
    BY <2>1, <1>1 DEF DropFacts
<1>3. ValuesFacts(h, s) /\ ValuesFacts(h, t)
  BY <1>2, ValuesType
<1>4. PICK a, c : a = ValuesOf(h, s) /\ c = ValuesOf(h, t)
  OBVIOUS
<1>5. /\ a \in Seq(Val) /\ Len(a) = Len(s) /\ c \in Seq(Val) /\ Len(c) = Len(s) - n
      /\ \A i \in 1..Len(s) : a[i] = ValueOf(h, s[i])
      /\ \A i \in 1 .. Len(s) - n : c[i] = ValueOf(h, t[i])
  BY <1>2, <1>3, <1>4 DEF ValuesFacts
<1>6. PICK d : d = Drop(a, n)
  OBVIOUS
<1>7. /\ d \in Seq(Val) /\ Len(d) = Len(s) - n
      /\ \A i \in 1 .. Len(s) - n : d[i] = a[n + i] /\ n + i \in n + 1 .. Len(s)
  <2>1. a \in Seq(Val) /\ n <= Len(a)
    BY <1>5
  <2>2. DropFacts(Val, a, n)
    BY <2>1, DropParts
  <2> QED
    BY <2>2, <1>5, <1>6 DEF DropFacts
<1>8. \A i \in 1 .. Len(s) - n : c[i] = d[i]
  BY ONLY <1>2, <1>5, <1>7, n <= Len(s), n \in Nat
<1>9. c = d
  BY ONLY <1>5, <1>7, <1>8, SameSeq
<1> QED
  BY <1>1, <1>4, <1>6, <1>9 DEF Drop

LEMMA ValuesExcept ==
  ASSUME NEW h, NEW s, NEW i \in DOMAIN s, NEW w
  PROVE  ValuesOf(h, [s EXCEPT ![i] = w]) = [ValuesOf(h, s) EXCEPT ![i] = ValueOf(h, w)]
  BY DEF ValuesOf

-----------------------------------------------------------------------------
(* Instructions that move a value *)
LEMMA ReadStep ==
  ASSUME NEW w, NEW rest, Read(w, rest)
  PROVE  Objects!Reads(ValueOf(heap, w), ValuesOf(heap, rest))
  BY ReadGives, ReadsStep

LEMMA IntegerOfWord ==
  ASSUME NEW h, NEW n
  PROVE  ValueOf(h, Val_long(n)) = Objects!IntValue(n)
  BY DEF ValueOf, Val_long, Objects!IntValue

LEMMA UnitOfWord ==
  ASSUME NEW h
  PROVE  ValueOf(h, Val_unit) = Objects!UnitValue
  BY IntegerOfWord DEF Val_unit, Objects!UnitValue

\* An integer is itself, and nothing else is an integer.
LEMMA IntegerWords ==
  ASSUME NEW h, NEW w, ValueIn(h, w)
  PROVE  /\ Objects!IsInt(ValueOf(h, w)) <=> ~IsPtr(w)
         /\ ~IsPtr(w) => ValueOf(h, w) = w
<1>1. w[1] = "int" \/ w[1] = "ptr"
  BY DEF ValueIn, FunctionPtr
<1>2. CASE w[1] = "int"
  BY <1>2 DEF ValueOf, IsPtr, Objects!IsInt
<1>3. CASE w[1] = "ptr"
  BY <1>3 DEF ValueOf, IsPtr, Objects!IsInt
<1> QED
  BY <1>1, <1>2, <1>3

StackFacts ==
  /\ stack \in Seq(Word) /\ Len(stack) \in Nat /\ Accu \in Word
  /\ Values(stack) = ValuesOf(heap, stack) /\ Value(Accu) = ValueOf(heap, Accu)
  /\ Values(stack) \in Seq(Val) /\ Len(Values(stack)) = Len(stack) /\ DOMAIN stack = 1..Len(stack)
  /\ \A i \in 1..Len(stack) : Values(stack)[i] = ValueOf(heap, stack[i])

LEMMA StackNow ==
  ASSUME ZInv
  PROVE  StackFacts
<1>1. stack \in Seq(Word) /\ Len(stack) \in Nat /\ Accu \in Word /\ DOMAIN stack = 1..Len(stack)
  BY HeapType, WordsAlone, Element DEF ValueIn
<1>2. ValuesFacts(heap, stack)
  BY <1>1, ValuesType
<1> QED
  BY <1>1, <1>2, MappedNow DEF StackFacts, Mapped, ValuesFacts

\* What is left of the stack, and what is above
LEMMA AfterWords ==
  ASSUME ZInv, NEW n \in Nat, n <= Len(stack)
  PROVE  ValuesOf(heap, Drop(stack, n)) = Objects!After(n)
<1>1. stack \in Seq(Word) /\ Values(stack) = ValuesOf(heap, stack)
  BY StackNow DEF StackFacts
<1> QED
  BY <1>1, ValuesDrop DEF Objects!After

LEMMA OnTop ==
  ASSUME ZInv, NEW w \in Word
  PROVE  ValuesOf(heap, <<w>> \o stack) = <<ValueOf(heap, w)>> \o Values(stack)
<1>1. stack \in Seq(Word) /\ Values(stack) = ValuesOf(heap, stack) /\ <<w>> \in Seq(Word)
  BY StackNow DEF StackFacts
<1>2. PICK u : u = <<w>>
  OBVIOUS
<1>3. u \in Seq(Word) /\ ValuesOf(heap, u) = <<ValueOf(heap, w)>>
  BY <1>1, <1>2, ValuesSingle
<1>4. ValuesOf(heap, u \o stack) = ValuesOf(heap, u) \o ValuesOf(heap, stack)
  BY <1>1, <1>3, ValuesConcat
<1> QED
  BY ONLY <1>1, <1>2, <1>3, <1>4

LEMMA ConstIntStep ==
  ASSUME ZInv, NEW n, constInt(n)
  PROVE  Objects!Local
<1>1. Read(Val_long(n), stack) /\ inst' = <<"const", n, 0>>
  BY DEF constInt, Runs
<1>2. Objects!Reads(Objects!IntValue(n), Values(stack))
  BY <1>1, ReadStep, IntegerOfWord, StackNow DEF StackFacts
<1> QED
  BY <1>1, <1>2 DEF Objects!Local, Objects!Name, Objects!A

LEMMA PushStep ==
  ASSUME ZInv, push
  PROVE  Objects!Local
<1>1. Read(Accu, <<Accu>> \o stack) /\ inst' = <<"push", 0, 0>>
  BY DEF push, Runs
<1>2. Objects!Reads(ValueOf(heap, Accu), ValuesOf(heap, <<Accu>> \o stack))
  BY <1>1, ReadStep
<1>3. ValueOf(heap, Accu) = Value(Accu)
  BY StackNow DEF StackFacts
<1>4. ValuesOf(heap, <<Accu>> \o stack) = <<Value(Accu)>> \o Values(stack)
  BY <1>3, OnTop, StackNow DEF StackFacts
<1>5. Objects!Reads(Value(Accu), <<Value(Accu)>> \o Values(stack))
  BY ONLY <1>2, <1>3, <1>4
<1> QED
  BY <1>1, <1>5 DEF Objects!Local, Objects!Name

LEMMA PopStep ==
  ASSUME ZInv, NEW n \in Nat, pop(n)
  PROVE  Objects!Local
<1>1. Read(Accu, Drop(stack, n)) /\ inst' = <<"pop", n, 0>> /\ n <= Len(stack)
  BY StackNow DEF pop, Runs, Holds, StackFacts
<1>2. Objects!Reads(ValueOf(heap, Accu), ValuesOf(heap, Drop(stack, n)))
  BY <1>1, ReadStep
<1>3. ValueOf(heap, Accu) = Value(Accu) /\ ValuesOf(heap, Drop(stack, n)) = Objects!After(n)
  BY <1>1, AfterWords, StackNow DEF StackFacts
<1>4. Objects!Reads(Value(Accu), Objects!After(n))
  BY ONLY <1>2, <1>3
<1> QED
  BY <1>1, <1>4 DEF Objects!Local, Objects!Name, Objects!A

LEMMA AccStep ==
  ASSUME ZInv, NEW n \in Nat, acc(n)
  PROVE  Objects!Local
<1>1. Read(stack[n + 1], stack) /\ inst' = <<"acc", n + 1, 0>> /\ n + 1 \in 1..Len(stack)
  BY StackNow DEF acc, Runs, Holds, StackFacts, StackPointer
<1>2. Objects!Reads(ValueOf(heap, stack[n + 1]), ValuesOf(heap, stack))
  BY <1>1, ReadStep
<1>3. ValueOf(heap, stack[n + 1]) = Values(stack)[n + 1] /\ ValuesOf(heap, stack) = Values(stack)
  BY <1>1, StackNow DEF StackFacts
<1>4. Objects!Reads(Values(stack)[n + 1], Values(stack))
  BY ONLY <1>2, <1>3
<1> QED
  BY <1>1, <1>4 DEF Objects!Local, Objects!Name, Objects!A

LEMMA AssignStep ==
  ASSUME ZInv, NEW n \in Nat, assign(n)
  PROVE  Objects!Local
<1>1. /\ Read(Val_unit, [stack EXCEPT ![n + 1] = Accu])
      /\ inst' = <<"assign", n + 1, 0>> /\ n + 1 \in 1..Len(stack) /\ n + 1 \in DOMAIN stack
  BY StackNow DEF assign, Runs, Holds, StackFacts
<1>2. Objects!Reads(ValueOf(heap, Val_unit), ValuesOf(heap, [stack EXCEPT ![n + 1] = Accu]))
  BY <1>1, ReadStep
<1>3. ValuesOf(heap, [stack EXCEPT ![n + 1] = Accu]) = [Values(stack) EXCEPT ![n + 1] = Value(Accu)]
  <2>1. PICK i : i = n + 1
    OBVIOUS
  <2>2. i \in DOMAIN stack
    BY <1>1, <2>1
  <2>3. ValuesOf(heap, [stack EXCEPT ![i] = Accu]) = [ValuesOf(heap, stack) EXCEPT ![i] = ValueOf(heap, Accu)]
    BY <2>2, ValuesExcept
  <2> QED
    BY <2>1, <2>3, StackNow DEF StackFacts
<1>4. Objects!Reads(Objects!UnitValue, [Values(stack) EXCEPT ![n + 1] = Value(Accu)])
  BY <1>2, <1>3, UnitOfWord
<1> QED
  BY <1>1, <1>4 DEF Objects!Local, Objects!Name, Objects!A

LEMMA IsIntStep ==
  ASSUME ZInv, isInt
  PROVE  Objects!Local
<1>1. Read(Val_bool(~IsPtr(Accu)), stack) /\ inst' = <<"isint", 0, 0>>
  BY DEF isInt, Runs
<1>2. Objects!Reads(ValueOf(heap, Val_bool(~IsPtr(Accu))), ValuesOf(heap, stack))
  BY <1>1, ReadStep
<1>3. Objects!IsInt(Value(Accu)) <=> ~IsPtr(Accu)
  BY IntegerWords, WordsAlone, StackNow DEF StackFacts
<1>4. ValueOf(heap, Val_bool(~IsPtr(Accu))) = Objects!BoolValue(Objects!IsInt(Value(Accu)))
  BY <1>3, IntegerOfWord DEF Val_bool, Objects!BoolValue
<1>5. Objects!Reads(Objects!BoolValue(Objects!IsInt(Value(Accu))), Values(stack))
  BY <1>2, <1>4, StackNow DEF StackFacts
<1> QED
  BY <1>1, <1>5 DEF Objects!Local, Objects!Name

LEMMA BoolNotStep ==
  ASSUME ZInv, boolNot
  PROVE  Objects!Local
<1>1. /\ Read(Val_long(1 - Long_val(Accu)), stack) /\ inst' = <<"not", 0, 0>>
      /\ Accu = Val_long(0) \/ Accu = Val_long(1)
  BY DEF boolNot, Runs, Val_bool
<1>2. Value(Accu) = Accu
  BY <1>1, StackNow DEF StackFacts, ValueOf, Val_long
<1>3. Objects!Reads(Objects!IntValue(1 - Long_val(Accu)), Values(stack))
  BY <1>1, ReadStep, IntegerOfWord, StackNow DEF StackFacts
<1>4. Objects!IntValue(1 - Long_val(Accu)) = Objects!BoolValue(Value(Accu) = Objects!BoolValue(FALSE))
  <2>1. CASE Accu = Val_long(0)
    BY <1>2, <2>1 DEF Objects!IntValue, Objects!BoolValue, Val_long, Long_val
  <2>2. CASE Accu = Val_long(1)
    BY <1>2, <2>2 DEF Objects!IntValue, Objects!BoolValue, Val_long, Long_val
  <2> QED
    BY <1>1, <2>1, <2>2
<1>5. Objects!Reads(Objects!BoolValue(Value(Accu) = Objects!BoolValue(FALSE)), Values(stack))
  BY ONLY <1>3, <1>4
<1> QED
  BY <1>1, <1>5 DEF Objects!Local, Objects!Name

-----------------------------------------------------------------------------
(* What objects hold *)
LEMMA ObjectAt ==
  ASSUME ZInv, NEW w, w[2] \in 1..Len(heap)
  PROVE  [b \in DOMAIN heap |-> ObjectOf(b)][w[2]] = ObjectIn(heap, Tag_val(w), Fields(w))
<1>1. w[2] \in DOMAIN heap
  BY HeapType
<1> QED
  BY <1>1, MappedNow DEF Mapped, ObjectsIn, Tag_val, Fields

BlockObject(w) ==
  /\ w[2] \in 1..Len(heap) /\ w[3] = 0
  /\ Tag_val(w) \notin {Double_tag, Double_array_tag, String_tag, Closure_tag}
  /\ ValueOf(heap, w) = <<"ref", w[2], 0>>
  /\ Fields(w) \in Seq(Word) /\ Wosize(w) = Len(Fields(w)) /\ Wosize(w) \in Nat
  /\ Objects!Items(ValueOf(heap, w)) = ValuesOf(heap, Fields(w))
  /\ Len(Objects!Items(ValueOf(heap, w))) = Wosize(w)
  /\ \A i \in 0 .. Wosize(w) - 1 :
       Objects!Items(ValueOf(heap, w))[i + 1] = ValueOf(heap, Field(w, i)) /\ ValueIn(heap, Field(w, i))

LEMMA BlockItems ==
  ASSUME ZInv, NEW w, ValueIn(heap, w), IsBlock(w)
  PROVE  BlockObject(w)
<1>1. /\ IsPtr(w) /\ w[2] \in 1..Len(heap) /\ w[3] = 0
      /\ Tag_val(w) \notin {Double_tag, Double_array_tag, String_tag, Closure_tag}
  <2>1. IsPtr(w) /\ Tag_val(w) < 247
    BY DEF IsBlock, Closure_tag
  <2>2. Tag_val(w) \in Nat
    BY <2>1, PtrValue DEF ContentIn
  <2>3. Tag_val(w) \notin {253, 254, 252, 247}
    BY <2>1, <2>2
  <2>4. Tag_val(w) \notin {Double_tag, Double_array_tag, String_tag, Closure_tag}
    BY <2>3 DEF Double_tag, Double_array_tag, String_tag, Closure_tag
  <2> QED
    BY <2>1, <2>4, PtrValue
<1>2. ValueOf(heap, w) = <<"ref", w[2], 0>>
  BY <1>1 DEF ValueOf, IsPtr, Tag_val
<1>3. /\ Fields(w) \in Seq(Word) /\ Wosize(w) = Len(Fields(w)) /\ Wosize(w) \in Nat
      /\ \A i \in 0 .. Wosize(w) - 1 : Field(w, i) = Fields(w)[i + 1] /\ ValueIn(heap, Field(w, i))
  BY BlockFields DEF ValuesIn
<1>4. [b \in DOMAIN heap |-> ObjectOf(b)][w[2]] = ObjectIn(heap, Tag_val(w), Fields(w))
  BY <1>1, ObjectAt
<1>5. ObjectIn(heap, Tag_val(w), Fields(w)).items = ValuesOf(heap, Fields(w))
  BY <1>1, ObjectKinds DEF ObjectCases, AnObject
<1>6. Objects!Items(ValueOf(heap, w)) = ValuesOf(heap, Fields(w))
  BY <1>2, <1>4, <1>5 DEF Objects!Items
<1>7. ValuesFacts(heap, Fields(w))
  BY <1>3, ValuesType
<1>8. \A i \in 0 .. Wosize(w) - 1 : i + 1 \in 1..Len(Fields(w))
  BY <1>3
<1>9. Len(Objects!Items(ValueOf(heap, w))) = Wosize(w)
  BY <1>3, <1>6, <1>7 DEF ValuesFacts
<1>10. \A i \in 0 .. Wosize(w) - 1 :
         Objects!Items(ValueOf(heap, w))[i + 1] = ValueOf(heap, Field(w, i)) /\ ValueIn(heap, Field(w, i))
  BY <1>3, <1>6, <1>7, <1>8 DEF ValuesFacts
<1> QED
  BY <1>1, <1>2, <1>3, <1>6, <1>9, <1>10 DEF BlockObject

RawObject(w, items) ==
  /\ w[2] \in 1..Len(heap) /\ w[3] = 0
  /\ ValueOf(heap, w) = <<"ref", w[2], 0>>
  /\ Fields(w) \in Seq(Word) /\ Wosize(w) = Len(Fields(w)) /\ Wosize(w) \in Nat
  /\ Objects!Items(ValueOf(heap, w)) = items

LEMMA RawItems ==
  ASSUME ZInv, NEW w, ValueIn(heap, w)
  PROVE  /\ Is(w, Double_tag) => RawObject(w, Floats(Fields(w)))
         /\ Is(w, Double_array_tag) => RawObject(w, Floats(Fields(w)))
         /\ Is(w, String_tag) => RawObject(w, Bytes(Fields(w)))
<1> DEFINE raw == Is(w, Double_tag) \/ Is(w, Double_array_tag) \/ Is(w, String_tag)
<1>1. ASSUME raw
      PROVE  /\ w[2] \in 1..Len(heap) /\ Tag_val(w) # Closure_tag /\ w[3] = 0
             /\ Fields(w) \in Seq(Word) /\ Wosize(w) = Len(Fields(w)) /\ Wosize(w) \in Nat
  BY <1>1, RawFields
<1>2. ASSUME raw PROVE ValueOf(heap, w) = <<"ref", w[2], 0>>
  BY <1>1, <1>2 DEF ValueOf, Is, IsPtr, Tag_val
<1>3. ASSUME raw
      PROVE  Objects!Items(ValueOf(heap, w)) = ObjectIn(heap, Tag_val(w), Fields(w)).items
  <2>1. [b \in DOMAIN heap |-> ObjectOf(b)][w[2]] = ObjectIn(heap, Tag_val(w), Fields(w))
    BY <1>1, <1>3, ObjectAt
  <2> QED
    BY <1>2, <1>3, <2>1 DEF Objects!Items
<1>4. /\ Is(w, Double_tag) => ObjectIn(heap, Tag_val(w), Fields(w)).items = Floats(Fields(w))
      /\ Is(w, Double_array_tag) => ObjectIn(heap, Tag_val(w), Fields(w)).items = Floats(Fields(w))
      /\ Is(w, String_tag) => ObjectIn(heap, Tag_val(w), Fields(w)).items = Bytes(Fields(w))
  BY ObjectKinds DEF ObjectCases, AnObject, Is
<1> QED
  BY <1>1, <1>2, <1>3, <1>4 DEF RawObject

\* Floats are one or two words each.
FloatsFacts(f) ==
  /\ Len(f) \div Double_wosize \in Nat
  /\ Len(Floats(f)) = Len(f) \div Double_wosize /\ Floats(f) \in Seq(Int)
  /\ \A i \in 0 .. (Len(f) \div Double_wosize) - 1 : Floats(f)[i + 1] = f[i * Double_wosize + 1][2]

LEMMA FloatsType ==
  ASSUME NEW f \in Seq(Word)
  PROVE  FloatsFacts(f)
<1>1. Len(f) \in Nat /\ \A i \in 1..Len(f) : f[i] \in Word
  BY Element
<1>2. Len(f) \div Double_wosize \in Nat
  BY <1>1, WosizeAssumption
<1>3. ASSUME NEW i \in 1 .. Len(f) \div Double_wosize
      PROVE  (i - 1) * Double_wosize + 1 \in 1..Len(f)
  <2>1. CASE Double_wosize = 1
    BY <1>1, <1>3, <2>1
  <2>2. CASE Double_wosize = 2
    BY <1>1, <1>3, <2>2
  <2> QED
    BY <2>1, <2>2, WosizeAssumption
<1>4. \A i \in 1 .. Len(f) \div Double_wosize : f[(i - 1) * Double_wosize + 1][2] \in Int
  BY <1>1, <1>3 DEF Word
<1>5. PICK n \in Nat : n = Len(f) \div Double_wosize
  BY <1>2
<1>6. PICK s : s = Floats(f)
  OBVIOUS
<1>7. s = [i \in 1..n |-> f[(i - 1) * Double_wosize + 1][2]]
  BY <1>5, <1>6 DEF Floats
<1>8. s \in [1..n -> Int]
  BY <1>4, <1>5, <1>7
<1>9. s \in Seq(Int) /\ Len(s) = n
  BY ONLY <1>8, n \in Nat
<1>10. ASSUME NEW i \in 0 .. n - 1 PROVE s[i + 1] = f[i * Double_wosize + 1][2]
  <2>1. i + 1 \in 1..n /\ (i + 1) - 1 = i
    BY <1>5, <1>10
  <2> QED
    BY <2>1, <1>7
<1> QED
  BY <1>5, <1>6, <1>9, <1>10 DEF FloatsFacts

LEMMA BytesType ==
  ASSUME NEW f \in Seq(Word)
  PROVE  Len(Bytes(f)) = Len(f) /\ \A i \in 1..Len(f) : Bytes(f)[i] = f[i][2]
<1>1. Len(f) \in Nat /\ DOMAIN f = 1..Len(f) /\ \A i \in 1..Len(f) : f[i] \in Word
  BY Element
<1>2. \A i \in 1..Len(f) : f[i][2] \in Int
  BY <1>1 DEF Word
<1>3. Bytes(f) \in [1..Len(f) -> Int]
  BY <1>1, <1>2 DEF Bytes
<1>4. Len(Bytes(f)) = Len(f)
  BY ONLY <1>1, <1>3
<1> QED
  BY <1>1, <1>4 DEF Bytes

\* The integer an index is
LEMMA IndexValue ==
  ASSUME ZInv, NEW n \in Nat, IndexIn(n)
  PROVE  /\ Len(stack) >= 1 /\ Len(stack) \in Nat
         /\ Values(stack)[1][2] = Long_val(StackPointer(0))
         /\ Long_val(StackPointer(0)) \in 0 .. n - 1
<1>1. Len(stack) >= 1 /\ Long_val(StackPointer(0)) \in 0 .. n - 1 /\ ~IsPtr(StackPointer(0))
  BY IndexType DEF IndexIn
<1>2. StackPointer(0) = stack[1] /\ 1 \in 1..Len(stack) /\ ValueIn(heap, stack[1])
  BY <1>1, HeapType DEF StackPointer
<1>3. Values(stack)[1] = stack[1]
  BY <1>1, <1>2, IntegerWords, StackNow DEF StackFacts
<1> QED
  BY <1>1, <1>2, <1>3, HeapType DEF Long_val

-----------------------------------------------------------------------------
(* Instructions that read an object *)
LEMMA GetFieldStep ==
  ASSUME ZInv, NEW i \in Nat, getField(i)
  PROVE  Objects!Block
<1>1. /\ Read(Field(Accu, i), stack) /\ inst' = <<"item", i + 1, 0>>
      /\ IsBlock(Accu) /\ i < Wosize(Accu)
  BY DEF getField, Runs
<1>2. BlockObject(Accu) /\ Value(Accu) = ValueOf(heap, Accu) /\ Values(stack) = ValuesOf(heap, stack)
  BY <1>1, BlockItems, WordsAlone, StackNow DEF StackFacts
<1>3. i \in 0 .. Wosize(Accu) - 1
  BY <1>1, <1>2 DEF BlockObject
<1>4. Objects!Items(Value(Accu))[i + 1] = ValueOf(heap, Field(Accu, i))
  BY <1>2, <1>3 DEF BlockObject
<1>5. Objects!Reads(Objects!Items(Value(Accu))[i + 1], Values(stack))
  BY <1>1, <1>2, <1>4, ReadStep
<1> QED
  BY <1>1, <1>5 DEF Objects!Block, Objects!Name, Objects!A

LEMMA VectLengthStep ==
  ASSUME ZInv, vectLength
  PROVE  Objects!Block
<1> DEFINE n == IF Is(Accu, Double_array_tag) THEN Wosize(Accu) \div Double_wosize ELSE Wosize(Accu)
<1>1. Read(Val_long(n), stack) /\ inst' = <<"length", 0, 0>> /\ IsArray(Accu)
  BY DEF vectLength, Runs
<1>2. ValueIn(heap, Accu) /\ Value(Accu) = ValueOf(heap, Accu) /\ Values(stack) = ValuesOf(heap, stack)
  BY WordsAlone, StackNow DEF StackFacts
<1>3. Len(Objects!Items(Value(Accu))) = n
  <2>1. CASE Is(Accu, Double_array_tag)
    <3>1. RawObject(Accu, Floats(Fields(Accu)))
      BY <1>2, <2>1, RawItems
    <3>2. Fields(Accu) \in Seq(Word) /\ Wosize(Accu) = Len(Fields(Accu))
          /\ Objects!Items(Value(Accu)) = Floats(Fields(Accu))
      BY <1>2, <3>1 DEF RawObject
    <3>3. FloatsFacts(Fields(Accu))
      BY <3>2, FloatsType
    <3> QED
      BY <2>1, <3>2, <3>3 DEF FloatsFacts
  <2>2. CASE ~Is(Accu, Double_array_tag)
    <3>1. BlockObject(Accu)
      BY <1>1, <1>2, <2>2, BlockItems DEF IsArray
    <3> QED
      BY <1>2, <2>2, <3>1 DEF BlockObject
  <2> QED
    BY <2>1, <2>2
<1> HIDE DEF n
<1>4. Objects!Reads(Objects!IntValue(Len(Objects!Items(Value(Accu)))), Values(stack))
  BY <1>1, <1>2, <1>3, ReadStep, IntegerOfWord
<1> QED
  BY <1>1, <1>4 DEF Objects!Block, Objects!Name

LEMMA GetVectItemStep ==
  ASSUME ZInv, getVectItem
  PROVE  Objects!Block
<1>1. /\ Read(Field(Accu, Long_val(StackPointer(0))), Drop(stack, 1)) /\ inst' = <<"get", 0, 0>>
      /\ IsBlock(Accu) /\ IndexIn(Wosize(Accu))
  BY DEF getVectItem, Runs
<1>2. BlockObject(Accu) /\ Value(Accu) = ValueOf(heap, Accu)
  BY <1>1, BlockItems, WordsAlone, StackNow DEF StackFacts
<1>3. PICK i : i = Long_val(StackPointer(0))
  OBVIOUS
<1>4. i \in 0 .. Wosize(Accu) - 1 /\ Values(stack)[1][2] = i /\ 1 <= Len(stack)
  BY <1>1, <1>2, <1>3, IndexValue DEF BlockObject
<1>5. Objects!Items(Value(Accu))[i + 1] = ValueOf(heap, Field(Accu, i))
  BY <1>2, <1>4 DEF BlockObject
<1>6. ValuesOf(heap, Drop(stack, 1)) = Objects!After(1)
  BY <1>4, AfterWords
<1>7. Objects!Reads(ValueOf(heap, Field(Accu, i)), ValuesOf(heap, Drop(stack, 1)))
  BY <1>1, <1>3, ReadStep
<1>8. Objects!Reads(Objects!Items(Value(Accu))[Values(stack)[1][2] + 1], Objects!After(1))
  BY ONLY <1>4, <1>5, <1>6, <1>7
<1> QED
  BY <1>1, <1>8 DEF Objects!Block, Objects!Name

LEMMA GetMethodStep ==
  ASSUME ZInv, getMethod
  PROVE  Objects!Block
<1>1. PICK table : table = Field(StackPointer(0), 0)
  OBVIOUS
<1>2. /\ Read(Field(table, Long_val(Accu)), stack) /\ inst' = <<"method", 0, 0>>
      /\ ~IsPtr(Accu) /\ Len(stack) >= 1
      /\ IsBlock(StackPointer(0)) /\ Wosize(StackPointer(0)) > 0
      /\ IsBlock(table) /\ Long_val(Accu) \in 0 .. Wosize(table) - 1
  BY <1>1 DEF getMethod, Runs, Holds
<1>3. /\ StackPointer(0) = stack[1] /\ 1 \in 1..Len(stack) /\ ValueIn(heap, stack[1])
  BY <1>2, HeapType DEF StackPointer
<1>4. BlockObject(stack[1]) /\ 0 \in 0 .. Wosize(stack[1]) - 1
  <2>1. BlockObject(stack[1])
    BY <1>2, <1>3, BlockItems
  <2>2. Wosize(stack[1]) > 0 /\ Wosize(stack[1]) \in Nat
    BY <1>2, <1>3, <2>1 DEF BlockObject
  <2> QED
    BY <2>1, <2>2
<1>5. Objects!Items(Values(stack)[1])[1] = ValueOf(heap, table) /\ ValueIn(heap, table)
  <2>1. Values(stack)[1] = ValueOf(heap, stack[1])
    BY <1>3, StackNow DEF StackFacts
  <2>2. Objects!Items(ValueOf(heap, stack[1]))[0 + 1] = ValueOf(heap, table) /\ ValueIn(heap, table)
    BY <1>1, <1>3, <1>4 DEF BlockObject
  <2> QED
    BY <2>1, <2>2
<1>6. BlockObject(table)
  BY <1>2, <1>5, BlockItems
<1>7. PICK i : i = Long_val(Accu)
  OBVIOUS
<1>8. Value(Accu)[2] = i
  BY <1>2, <1>7, WordsAlone, IntegerWords, StackNow DEF StackFacts, Long_val
<1>9. Objects!Items(ValueOf(heap, table))[i + 1] = ValueOf(heap, Field(table, i))
  BY <1>2, <1>6, <1>7 DEF BlockObject
<1>10. Objects!Reads(ValueOf(heap, Field(table, i)), Values(stack))
  BY <1>2, <1>7, ReadStep, StackNow DEF StackFacts
<1>11. Objects!Reads(Objects!Items(Objects!Items(Values(stack)[1])[1])[Value(Accu)[2] + 1], Values(stack))
  BY ONLY <1>5, <1>8, <1>9, <1>10
<1> QED
  BY <1>2, <1>11 DEF Objects!Block, Objects!Name

LEMMA GetStringCharStep ==
  ASSUME ZInv, getStringChar
  PROVE  Objects!String
<1>1. PICK i : i = Long_val(StackPointer(0))
  OBVIOUS
<1>2. /\ Read(Val_long(Long_val(Field(Accu, i))), Drop(stack, 1)) /\ inst' = <<"char", 0, 0>>
      /\ Is(Accu, String_tag) /\ IndexIn(Wosize(Accu))
  BY <1>1 DEF getStringChar, Runs
<1>3. RawObject(Accu, Bytes(Fields(Accu))) /\ Value(Accu) = ValueOf(heap, Accu)
  BY <1>2, RawItems, WordsAlone, StackNow DEF StackFacts
<1>4. /\ Objects!Items(Value(Accu)) = Bytes(Fields(Accu)) /\ Fields(Accu) \in Seq(Word)
      /\ Accu[3] = 0 /\ Wosize(Accu) \in Nat /\ Wosize(Accu) = Len(Fields(Accu))
  BY <1>3 DEF RawObject
<1>5. i \in 0 .. Wosize(Accu) - 1 /\ Values(stack)[1][2] = i /\ 1 <= Len(stack)
  BY <1>1, <1>2, <1>4, IndexValue
<1>6. i + 1 \in 1..Len(Fields(Accu)) /\ 0 + i + 1 = i + 1
  BY ONLY <1>4, <1>5
<1>7. Objects!Items(Value(Accu))[i + 1] = Long_val(Field(Accu, i))
  BY <1>4, <1>6, BytesType DEF Field, Long_val
<1>8. ValuesOf(heap, Drop(stack, 1)) = Objects!After(1)
  BY <1>5, AfterWords
<1>9. Objects!Reads(Objects!IntValue(Long_val(Field(Accu, i))), ValuesOf(heap, Drop(stack, 1)))
  BY <1>2, ReadStep, IntegerOfWord
<1>10. Objects!Reads(Objects!IntValue(Objects!Items(Value(Accu))[Values(stack)[1][2] + 1]), Objects!After(1))
  BY ONLY <1>5, <1>7, <1>8, <1>9
<1> QED
  BY <1>2, <1>10 DEF Objects!String, Objects!Name

\* Globals
GlobalFacts(g) ==
  /\ g \in DOMAIN caml_global_data /\ ValueIn(heap, caml_global_data[g])
  /\ Values(caml_global_data)[g] = ValueOf(heap, caml_global_data[g])

LEMMA GlobalNow ==
  ASSUME ZInv, NEW g \in DOMAIN caml_global_data
  PROVE  GlobalFacts(g)
<1>1. ValueIn(heap, caml_global_data[g])
  BY Element DEF ZInv, ValuesIn
<1> QED
  BY <1>1, MappedNow DEF Mapped, GlobalFacts, ValuesOf

LEMMA GetGlobalStep ==
  ASSUME ZInv, NEW g \in DOMAIN caml_global_data, getGlobal(g)
  PROVE  Objects!Global
<1>1. Read(caml_global_data[g], stack) /\ inst' = <<"global", g, 0>>
  BY DEF getGlobal, Runs
<1>2. Objects!Reads(Values(caml_global_data)[g], Values(stack))
  BY <1>1, GlobalNow, ReadStep, StackNow DEF StackFacts, GlobalFacts
<1> QED
  BY <1>1, <1>2 DEF Objects!Global, Objects!Name, Objects!A

LEMMA GetGlobalFieldStep ==
  ASSUME ZInv, NEW g \in DOMAIN caml_global_data, NEW i \in Nat, getGlobalField(g, i)
  PROVE  Objects!Global
<1>1. PICK w : w = caml_global_data[g]
  OBVIOUS
<1>2. /\ Read(Field(w, i), stack) /\ inst' = <<"globalfield", g, i + 1>>
      /\ IsBlock(w) /\ i < Wosize(w)
  BY <1>1 DEF getGlobalField, Runs
<1>3. ValueIn(heap, w) /\ Values(caml_global_data)[g] = ValueOf(heap, w)
  BY <1>1, GlobalNow DEF GlobalFacts
<1>4. BlockObject(w)
  BY <1>2, <1>3, BlockItems
<1>5. i \in 0 .. Wosize(w) - 1
  BY <1>2, <1>4 DEF BlockObject
<1>6. Objects!Items(ValueOf(heap, w))[i + 1] = ValueOf(heap, Field(w, i))
  BY <1>4, <1>5 DEF BlockObject
<1>7. Objects!Reads(ValueOf(heap, Field(w, i)), Values(stack))
  BY <1>2, ReadStep, StackNow DEF StackFacts
<1>8. Objects!Reads(Objects!Items(Values(caml_global_data)[g])[i + 1], Values(stack))
  BY ONLY <1>3, <1>6, <1>7
<1> QED
  BY <1>2, <1>8 DEF Objects!Global, Objects!Name, Objects!A, Objects!B

LEMMA SetGlobalStep ==
  ASSUME ZInv, NEW g \in DOMAIN caml_global_data, setGlobal(g)
  PROVE  Objects!Global
<1>1. /\ inst' = <<"setglobal", g, 0>> /\ caml_global_data' = [caml_global_data EXCEPT ![g] = Accu]
      /\ heap' = heap /\ Accu' = Accu /\ Env' = Env /\ stack' = stack
  BY DEF setGlobal, Runs
<1>2. ValuesOf(heap, [caml_global_data EXCEPT ![g] = Accu])
        = [ValuesOf(heap, caml_global_data) EXCEPT ![g] = ValueOf(heap, Accu)]
  BY ValuesExcept
<1>3. Values(caml_global_data)' = [Values(caml_global_data) EXCEPT ![g] = Value(Accu)]
  BY <1>1, <1>2, MappedNow, MappedNext DEF Mapped
<1>4. /\ Value(Accu)' = Value(Accu) /\ Value(Env)' = Value(Env) /\ Values(stack)' = Values(stack)
      /\ [b \in DOMAIN heap |-> ObjectOf(b)]' = [b \in DOMAIN heap |-> ObjectOf(b)]
  BY <1>1, MappedNow, MappedNext DEF Mapped
<1> QED
  BY <1>1, <1>3, <1>4 DEF Objects!Global, Objects!Name, Objects!A

-----------------------------------------------------------------------------
(* Instructions that make an object *)
LEMMA AllocAppends ==
  ASSUME ZInv, ZInv', NEW tag, NEW fields, NEW rest, Alloc(tag, fields, rest)
  PROVE  /\ Appends(heap, heap', tag, fields)
         /\ Accu' = Ptr(Len(heap) + 1, 0) /\ stack' = rest
         /\ Env' = Env /\ caml_global_data' = caml_global_data
  BY DEF Alloc, Result, Appends, ZInv

NewAddress == Ptr(Len(heap) + 1, 0)

LEMMA MakesStep ==
  ASSUME ZInv, ZInv', NEW tag, NEW fields, NEW rest, Alloc(tag, fields, rest)
  PROVE  /\ Objects!Makes(ObjectIn(heap', tag, fields), ValueOf(heap', NewAddress), ValuesOf(heap', rest))
         /\ Objects!NewRef = <<"ref", Len(heap) + 1, 0>>
         /\ \A k : Objects!NewFn(k) = <<"fn", Len(heap) + 1, k>>
<1>1. /\ Appends(heap, heap', tag, fields)
      /\ Accu' = Ptr(Len(heap) + 1, 0) /\ stack' = rest
      /\ Env' = Env /\ caml_global_data' = caml_global_data
  BY AllocAppends
<1>2. /\ ObjectsIn(heap') = Append(ObjectsIn(heap), ObjectIn(heap', tag, fields))
      /\ Len(ObjectsIn(heap)) = Len(heap)
  BY <1>1, ObjectsAppend
<1>3. Grows(heap, heap')
  BY <1>1, AppendParts
<1>4. ValueIn(heap, Env) /\ ValuesIn(heap, caml_global_data)
  BY DEF ZInv
<1>5. /\ ValueOf(heap', Env') = ValueOf(heap, Env)
      /\ ValuesOf(heap', caml_global_data') = ValuesOf(heap, caml_global_data)
  BY <1>1, <1>3, <1>4, ValueOfGrows, ValuesOfGrow
<1>6. PICK o : o = Append(ObjectsIn(heap), ObjectIn(heap', tag, fields))
  OBVIOUS
<1>7. PICK v : v = ValueOf(heap', NewAddress)
  OBVIOUS
<1>8. PICK s : s = ValuesOf(heap', rest)
  OBVIOUS
<1>9. GivesIn(o, v, s)
  BY <1>1, <1>2, <1>5, <1>6, <1>7, <1>8 DEF GivesIn, NewAddress
<1>10. [b \in DOMAIN heap |-> ObjectOf(b)]' = o /\ Objects!Gives(v, s)
  BY <1>9, GivesStep
<1>11. [b \in DOMAIN heap |-> ObjectOf(b)] = ObjectsIn(heap)
  BY MappedNow DEF Mapped
<1>12. Objects!Makes(ObjectIn(heap', tag, fields), v, s)
  BY <1>6, <1>10, <1>11 DEF Objects!Makes
<1> QED
  BY <1>2, <1>7, <1>8, <1>11, <1>12 DEF Objects!NewRef, Objects!NewFn, Objects!Ref, Objects!Fn

\* All but the functions of a definition
MakesRef(tag, fields, rest) ==
  /\ Alloc(tag, fields, rest) /\ ContentIn(heap, tag, fields) /\ ValuesIn(heap, rest)
  /\ tag # Closure_tag \/ fields[1][1] # "code"

LEMMA MakesRefStep ==
  ASSUME ZInv, ZInv', NEW tag, NEW fields, NEW rest, MakesRef(tag, fields, rest)
  PROVE  Objects!Makes(ObjectIn(heap, tag, fields), Objects!NewRef, ValuesOf(heap, rest))
<1>1. /\ Alloc(tag, fields, rest) /\ ContentIn(heap, tag, fields) /\ ValuesIn(heap, rest)
      /\ tag # Closure_tag \/ fields[1][1] # "code"
  BY DEF MakesRef
<1>2. /\ Objects!Makes(ObjectIn(heap', tag, fields), ValueOf(heap', NewAddress), ValuesOf(heap', rest))
      /\ Objects!NewRef = <<"ref", Len(heap) + 1, 0>>
  BY <1>1, MakesStep
<1>3. Grows(heap, heap') /\ heap'[Len(heap) + 1] = [tag |-> tag, fields |-> fields]
  BY <1>1, AllocAppends, AppendParts
<1>4. ObjectIn(heap', tag, fields) = ObjectIn(heap, tag, fields)
  BY <1>1, <1>3, ObjectGrows
<1>5. ValuesOf(heap', rest) = ValuesOf(heap, rest)
  BY <1>1, <1>3, ValuesOfGrow
<1>6. ValueOf(heap', NewAddress) = <<"ref", Len(heap) + 1, 0>>
  BY <1>1, <1>3 DEF ValueOf, NewAddress, Ptr
<1> QED
  BY ONLY <1>2, <1>4, <1>5, <1>6

\* Accu and the words below, as values
LEMMA FirstWords ==
  ASSUME ZInv, NEW n \in Nat, n >= 1, n - 1 <= Len(stack)
  PROVE  /\ ValuesOf(heap, <<Accu>> \o SubSeq(stack, 1, n - 1)) = Objects!First(n)
         /\ ValuesIn(heap, <<Accu>> \o SubSeq(stack, 1, n - 1))
<1>1. /\ stack \in Seq(Word) /\ Values(stack) = ValuesOf(heap, stack)
      /\ Accu \in Word /\ Value(Accu) = ValueOf(heap, Accu)
  BY StackNow DEF StackFacts
<1>2. PICK m \in Nat : m = n - 1
  OBVIOUS
<1>3. PICK t : t = SubSeq(stack, 1, m)
  OBVIOUS
<1>4. t \in Seq(Word) /\ ValuesOf(heap, t) = SubSeq(Values(stack), 1, m)
  BY <1>1, <1>2, <1>3, ValuesSub
<1>5. PICK u : u = <<Accu>>
  OBVIOUS
<1>6. u \in Seq(Word) /\ ValuesOf(heap, u) = <<Value(Accu)>> /\ ValuesIn(heap, u)
  BY <1>1, <1>5, ValuesSingle, SingleValue, WordsAlone
<1>7. ValuesOf(heap, u \o t) = <<Value(Accu)>> \o SubSeq(Values(stack), 1, m)
  BY <1>4, <1>6, ValuesConcat
<1>8. ValuesIn(heap, t)
  BY <1>2, <1>3, WordsAlone, SubSeqValues
<1>9. ValuesIn(heap, u \o t)
  BY <1>6, <1>8, ConcatValues
<1> QED
  BY <1>2, <1>3, <1>5, <1>7, <1>9 DEF Objects!First

LEMMA AfterValues ==
  ASSUME ZInv, NEW n \in Nat, n >= 1, n - 1 <= Len(stack)
  PROVE  ValuesIn(heap, Drop(stack, n - 1)) /\ ValuesOf(heap, Drop(stack, n - 1)) = Objects!After(n - 1)
<1>1. PICK m \in Nat : m = n - 1
  OBVIOUS
<1>2. m <= Len(stack)
  BY <1>1
<1>3. ValuesIn(heap, Drop(stack, m)) /\ ValuesOf(heap, Drop(stack, m)) = Objects!After(m)
  BY <1>2, DropValues, WordsAlone, AfterWords
<1> QED
  BY <1>1, <1>3

\* A block of n values, of one of the tags of blocks
MakesBlock(tag, n) ==
  /\ n \in Nat /\ n >= 1 /\ n - 1 <= Len(stack) /\ tag \in 0 .. Closure_tag - 1
  /\ Alloc(tag, <<Accu>> \o SubSeq(stack, 1, n - 1), Drop(stack, n - 1))

LEMMA BlockMade ==
  ASSUME ZInv, ZInv', NEW tag, NEW n, MakesBlock(tag, n)
  PROVE  Objects!Makes(Objects!Object("block", Objects!First(n), Objects!IntValue(tag)),
                       Objects!NewRef, Objects!After(n - 1))
<1>1. /\ n \in Nat /\ n >= 1 /\ n - 1 <= Len(stack) /\ tag \in 0 .. Closure_tag - 1
      /\ Alloc(tag, <<Accu>> \o SubSeq(stack, 1, n - 1), Drop(stack, n - 1))
  BY DEF MakesBlock
<1>2. PICK f : f = <<Accu>> \o SubSeq(stack, 1, n - 1)
  OBVIOUS
<1>3. PICK rest : rest = Drop(stack, n - 1)
  OBVIOUS
<1>4. ValuesOf(heap, f) = Objects!First(n) /\ ValuesIn(heap, f)
  BY <1>1, <1>2, FirstWords
<1>5. ValuesIn(heap, rest) /\ ValuesOf(heap, rest) = Objects!After(n - 1)
  BY <1>1, <1>3, AfterValues
<1>6. ContentIn(heap, tag, f)
  BY <1>1, <1>4, BlockContent
<1>7. tag \notin {Double_tag, Double_array_tag, String_tag, Closure_tag}
  <2>1. tag \notin {253, 254, 252, 247}
    BY <1>1 DEF Closure_tag
  <2> QED
    BY <2>1 DEF Double_tag, Double_array_tag, String_tag, Closure_tag
<1>8. MakesRef(tag, f, rest)
  BY <1>1, <1>2, <1>3, <1>5, <1>6, <1>7 DEF MakesRef
<1>9. ObjectIn(heap, tag, f) = AnObject("block", ValuesOf(heap, f), Val_long(tag))
  BY <1>7, ObjectKinds DEF ObjectCases
<1>10. ObjectIn(heap, tag, f) = Objects!Object("block", Objects!First(n), Objects!IntValue(tag))
  BY <1>4, <1>9 DEF AnObject, Objects!Object, Objects!IntValue, Val_long
<1>11. Objects!Makes(ObjectIn(heap, tag, f), Objects!NewRef, ValuesOf(heap, rest))
  BY <1>8, MakesRefStep
<1> QED
  BY ONLY <1>5, <1>10, <1>11

LEMMA MakeBlockStep ==
  ASSUME ZInv, ZInv', NEW tag \in Tags, NEW n \in Nat, n >= 1, makeBlock(tag, n)
  PROVE  Objects!Block
<1>1. inst' = <<"block", n, tag>> /\ MakesBlock(tag, n)
  BY OperandsAssumption, HeapType DEF makeBlock, Runs, Holds, MakesBlock
<1>2. Objects!Makes(Objects!Object("block", Objects!First(n), Objects!IntValue(tag)),
                    Objects!NewRef, Objects!After(n - 1))
  BY <1>1, BlockMade
<1> QED
  BY <1>1, <1>2 DEF Objects!Block, Objects!Name, Objects!A, Objects!B

\* The arguments of a primitive are where it finds them.
LEMMA PrimArgsAre ==
  ASSUME ZInv, NEW n \in Nat, n >= 1, n - 1 <= Len(stack)
  PROVE  PrimArgs(n) = <<Accu>> \o SubSeq(stack, 1, n - 1)
<1>1. stack \in Seq(Word) /\ Len(stack) \in Nat /\ Env \in Word
  BY HeapType, WordsAlone DEF ValueIn
<1>2. PICK u : u = <<Env>>
  OBVIOUS
<1>3. u \in Seq(Word) /\ Len(u) = 1
  BY <1>1, <1>2
<1>4. PICK during : during = u \o stack
  OBVIOUS
<1>5. /\ during \in Seq(Word) /\ Len(during) = 1 + Len(stack)
      /\ \A i \in 1 + 1 .. 1 + Len(stack) : i - 1 \in 1..Len(stack) /\ during[i] = stack[i - 1]
  <2>1. /\ u \o stack \in Seq(Word) /\ Len(u \o stack) = Len(u) + Len(stack)
        /\ \A i \in Len(u) + 1 .. Len(u) + Len(stack) :
             i - Len(u) \in 1..Len(stack) /\ (u \o stack)[i] = stack[i - Len(u)]
    BY <1>1, <1>3, ConcatParts
  <2> QED
    BY ONLY <1>3, <1>4, <2>1
<1>6. PICK s : s = SubSeq(during, 2, n)
  OBVIOUS
<1>7. s \in Seq(Word) /\ Len(s) = n - 1 /\ \A i \in 1 .. n - 1 : s[i] = during[i + 1]
  BY ONLY <1>1, <1>5, <1>6, n \in Nat, n >= 1, n - 1 <= Len(stack)
<1>8. PICK t : t = SubSeq(stack, 1, n - 1)
  OBVIOUS
<1>9. t \in Seq(Word) /\ Len(t) = n - 1 /\ \A i \in 1 .. n - 1 : t[i] = stack[i]
  BY ONLY <1>1, <1>8, n \in Nat, n >= 1, n - 1 <= Len(stack)
<1>10. ASSUME NEW i \in 1 .. n - 1 PROVE s[i] = t[i]
  <2>1. i + 1 \in 1 + 1 .. 1 + Len(stack) /\ (i + 1) - 1 = i
    BY <1>1
  <2>2. during[i + 1] = stack[(i + 1) - 1]
    BY ONLY <1>5, <2>1
  <2> QED
    BY <1>7, <1>9, <2>1, <2>2
<1>11. s = t
  BY ONLY <1>7, <1>9, <1>10, SameSeq
<1> QED
  BY <1>2, <1>4, <1>6, <1>8, <1>11 DEF PrimArgs

LEMMA CCallStep ==
  ASSUME ZInv, ZInv', NEW n \in Nat, n >= 1, c_call(n)
  PROVE  Objects!Block
<1>1. inst' = <<"tuple", n, 0>> /\ n - 1 <= Len(stack) /\ Alloc(0, PrimArgs(n), Drop(stack, n - 1))
  BY HeapType DEF c_call, Runs, Holds
<1>2. PrimArgs(n) = <<Accu>> \o SubSeq(stack, 1, n - 1)
  BY <1>1, PrimArgsAre
<1>4. 0 \in 0 .. Closure_tag - 1
  BY DEF Closure_tag
<1>5. MakesBlock(0, n)
  BY <1>1, <1>2, <1>4 DEF MakesBlock
<1>3. Objects!Makes(Objects!Object("block", Objects!First(n), Objects!IntValue(0)),
                    Objects!NewRef, Objects!After(n - 1))
  BY <1>5, BlockMade
<1> QED
  BY <1>1, <1>3 DEF Objects!Block, Objects!Name, Objects!A, Objects!B

-----------------------------------------------------------------------------
(* Instructions that make floats *)
LEMMA FloatsOfWords ==
  ASSUME NEW x \in Int
  PROVE  Floats(Words(x)) = <<x>>
<1>1. PICK f : f = Words(x)
  OBVIOUS
<1>2. f \in Seq(Word) /\ Len(f) = Double_wosize
  BY <1>1, FloatWords
<1>3. f[1][2] = x
  <2>1. 1 \in 1..Double_wosize
    BY WosizeAssumption
  <2> QED
    BY <1>1, <2>1 DEF Words, Dbl
<1>4. Double_wosize \div Double_wosize = 1
  BY WosizeAssumption
<1>5. FloatsFacts(f)
  BY <1>2, FloatsType
<1>6. PICK s : s = Floats(f)
  OBVIOUS
<1>7. s \in Seq(Int) /\ Len(s) = 1
  BY <1>2, <1>4, <1>5, <1>6 DEF FloatsFacts
<1>8. s[1] = x
  <2>1. 0 \in 0 .. (Len(f) \div Double_wosize) - 1
    BY <1>2, <1>4
  <2>2. s[0 + 1] = f[0 * Double_wosize + 1][2]
    BY <1>5, <1>6, <2>1 DEF FloatsFacts
  <2>3. 0 * Double_wosize + 1 = 1
    BY WosizeAssumption
  <2> QED
    BY <1>3, <2>2, <2>3
<1>9. s = <<x>>
  BY ONLY <1>7, <1>8
<1> QED
  BY <1>1, <1>6, <1>9

LEMMA FloatMade ==
  ASSUME ZInv, ZInv', NEW x \in Int, Alloc(Double_tag, Words(x), stack)
  PROVE  Objects!Makes(Objects!Plain("float", <<x>>), Objects!NewRef, Values(stack))
<1>1. PICK f : f = Words(x)
  OBVIOUS
<1>2. ContentIn(heap, Double_tag, f) /\ Floats(f) = <<x>>
  BY <1>1, FloatWords, FloatsOfWords
<1>3. MakesRef(Double_tag, f, stack)
  BY <1>1, <1>2, WordsAlone DEF MakesRef, Double_tag, Closure_tag
<1>4. ObjectIn(heap, Double_tag, f) = Objects!Plain("float", <<x>>)
  BY <1>2, ObjectKinds DEF ObjectCases, AnObject, Objects!Plain, Objects!Object,
     Objects!UnitValue, Objects!IntValue, Val_unit, Val_long
<1>5. Objects!Makes(ObjectIn(heap, Double_tag, f), Objects!NewRef, ValuesOf(heap, stack))
  BY <1>3, MakesRefStep
<1> QED
  BY <1>4, <1>5, StackNow DEF StackFacts

LEMMA BoxFloatStep ==
  ASSUME ZInv, ZInv', BoxFloat
  PROVE  Objects!Float
<1>1. inst' = <<"box", 0, 0>> /\ Alloc(Double_tag, Words(Long_val(Accu)), stack) /\ ~IsPtr(Accu)
  BY DEF BoxFloat, Runs
<1>2. Long_val(Accu) \in Int /\ Value(Accu)[2] = Long_val(Accu)
  BY <1>1, WordsAlone, IntegerOf, IntegerWords, StackNow DEF StackFacts, Long_val
<1>3. Objects!Makes(Objects!Plain("float", <<Value(Accu)[2]>>), Objects!NewRef, Values(stack))
  BY <1>1, <1>2, FloatMade
<1> QED
  BY <1>1, <1>3 DEF Objects!Float, Objects!Name

LEMMA FloatItem ==
  ASSUME ZInv, NEW i \in Nat, FloatArray(i)
  PROVE  /\ RawObject(Accu, Floats(Fields(Accu))) /\ Value(Accu) = ValueOf(heap, Accu)
         /\ FloatsFacts(Fields(Accu)) /\ i \in 0 .. (Len(Fields(Accu)) \div Double_wosize) - 1
         /\ Objects!Items(Value(Accu))[i + 1] = Double_field(Accu, i)
         /\ Double_field(Accu, i) \in Int
<1>1. Is(Accu, Double_array_tag) /\ i < Wosize(Accu) \div Double_wosize
  BY DEF FloatArray
<1>2. RawObject(Accu, Floats(Fields(Accu))) /\ Value(Accu) = ValueOf(heap, Accu)
  BY <1>1, RawItems, WordsAlone, StackNow DEF StackFacts
<1>3. /\ Objects!Items(Value(Accu)) = Floats(Fields(Accu)) /\ Fields(Accu) \in Seq(Word)
      /\ Wosize(Accu) = Len(Fields(Accu))
  BY <1>2 DEF RawObject
<1>4. FloatsFacts(Fields(Accu))
  BY <1>3, FloatsType
<1>5. i \in 0 .. (Len(Fields(Accu)) \div Double_wosize) - 1
  BY <1>1, <1>3, <1>4 DEF FloatsFacts
<1>6. Objects!Items(Value(Accu))[i + 1] = Double_field(Accu, i)
  BY <1>3, <1>4, <1>5 DEF FloatsFacts, Double_field
<1> QED
  BY <1>2, <1>4, <1>5, <1>6, FloatItemType

LEMMA GetDoubleFieldStep ==
  ASSUME ZInv, ZInv', NEW i \in Nat, getDoubleField(i)
  PROVE  Objects!Float
<1>1. inst' = <<"float", i + 1, 0>> /\ Alloc(Double_tag, Words(Double_field(Accu, i)), stack) /\ FloatArray(i)
  BY DEF getDoubleField, Runs
<1>2. Objects!Items(Value(Accu))[i + 1] = Double_field(Accu, i) /\ Double_field(Accu, i) \in Int
  BY <1>1, FloatItem
<1>3. Objects!Makes(Objects!Plain("float", <<Objects!Items(Value(Accu))[i + 1]>>), Objects!NewRef, Values(stack))
  BY <1>1, <1>2, FloatMade
<1> QED
  BY <1>1, <1>3 DEF Objects!Float, Objects!Name, Objects!A

\* What a float is, as an object and as words
LEMMA FloatValue ==
  ASSUME ZInv, NEW w, ValueIn(heap, w), Is(w, Double_tag)
  PROVE  Objects!Items(ValueOf(heap, w))[1] = Double_val(w) /\ Double_val(w) \in Int
<1>1. RawObject(w, Floats(Fields(w)))
  BY RawItems
<1>2. /\ Objects!Items(ValueOf(heap, w)) = Floats(Fields(w)) /\ Fields(w) \in Seq(Word)
      /\ Len(Fields(w)) = Double_wosize
  BY <1>1, RawFields DEF RawObject
<1>3. FloatsFacts(Fields(w))
  BY <1>2, FloatsType
<1>4. 0 \in 0 .. (Len(Fields(w)) \div Double_wosize) - 1 /\ 0 * Double_wosize + 1 = 1
  BY <1>2, WosizeAssumption
<1>5. Floats(Fields(w))[0 + 1] = Fields(w)[0 * Double_wosize + 1][2]
  BY <1>3, <1>4 DEF FloatsFacts
<1>6. Floats(Fields(w))[1] = Fields(w)[1][2]
  <2>1. 0 + 1 = 1
    OBVIOUS
  <2> QED
    BY ONLY <1>4, <1>5, <2>1
<1>7. Double_val(w) \in Int
  BY DoubleType
<1> QED
  BY <1>2, <1>6, <1>7 DEF Double_val

LEMMA MakeFloatBlockStep ==
  ASSUME ZInv, ZInv', NEW n \in Nat, n >= 1, makeFloatBlock(n)
  PROVE  Objects!Float
<1>1. PICK items : items = <<Accu>> \o SubSeq(stack, 1, n - 1)
  OBVIOUS
<1>2. inst' = <<"floats", n, 0>> /\ FloatBlock(n, items)
  BY <1>1, FloatBlockMade DEF makeFloatBlock, Runs
<1>3. PICK f : f = FloatsWords(items, n)
  OBVIOUS
<1>4. PICK rest : rest = Drop(stack, n - 1)
  OBVIOUS
<1>5. /\ n - 1 <= Len(stack) /\ Len(items) = n /\ \A i \in 1..n : Is(items[i], Double_tag)
      /\ ValuesIn(heap, items) /\ items \in Seq(Word)
      /\ ContentIn(heap, Double_array_tag, f) /\ f \in Seq(Word)
      /\ MakesRef(Double_array_tag, f, rest)
  BY <1>2, <1>3, <1>4 DEF FloatBlock, MakesRef, Double_array_tag, Closure_tag, ContentIn, ValuesIn
<1>6. ASSUME NEW i \in 1..n
      PROVE  Objects!Items(Objects!First(n)[i])[1] = Double_val(items[i]) /\ Double_val(items[i]) \in Int
  <2>1. Objects!First(n) = ValuesOf(heap, items)
    BY <1>1, <1>5, FirstWords
  <2>2. ValuesFacts(heap, items)
    BY <1>5, ValuesType
  <2>3. Objects!First(n)[i] = ValueOf(heap, items[i]) /\ ValueIn(heap, items[i])
    BY <1>5, <2>1, <2>2 DEF ValuesFacts, ValuesIn
  <2> QED
    BY <1>5, <2>3, FloatValue
<1>7. Len(f) \div Double_wosize = n
  <2>1. n * Double_wosize \in Nat /\ (n * Double_wosize) \div Double_wosize = n
    <3>1. CASE Double_wosize = 1
      BY <3>1
    <3>2. CASE Double_wosize = 2
      BY <3>2
    <3> QED
      BY <3>1, <3>2, WosizeAssumption
  <2>2. DOMAIN f = 1 .. n * Double_wosize
    BY <1>3 DEF FloatsWords
  <2>3. Len(f) = n * Double_wosize
    BY <1>5, <2>1, <2>2
  <2> QED
    BY <2>1, <2>3
<1>8. ASSUME NEW i \in 1..n
      PROVE  f[(i - 1) * Double_wosize + 1][2] = Double_val(items[i])
  <2>1. PICK w : w = (i - 1) * Double_wosize + 1
    OBVIOUS
  <2>2. w \in 1 .. n * Double_wosize /\ (w - 1) \div Double_wosize + 1 = i
    <3>1. CASE Double_wosize = 1
      BY <2>1, <3>1
    <3>2. CASE Double_wosize = 2
      BY <2>1, <3>2
    <3> QED
      BY <3>1, <3>2, WosizeAssumption
  <2>3. f[w] = Dbl(Double_val(items[(w - 1) \div Double_wosize + 1]), ((w - 1) % Double_wosize) + 1)
    BY <1>3, <2>2 DEF FloatsWords
  <2> QED
    BY <2>1, <2>2, <2>3 DEF Dbl
<1>9. Floats(f) = [i \in 1..n |-> Objects!Items(Objects!First(n)[i])[1]]
  BY <1>6, <1>7, <1>8 DEF Floats
<1>10. ObjectIn(heap, Double_array_tag, f) = AnObject("floats", Floats(f), Val_unit)
  BY ObjectKinds DEF ObjectCases
<1>11. ObjectIn(heap, Double_array_tag, f)
         = Objects!Plain("floats", [i \in 1..n |-> Objects!Items(Objects!First(n)[i])[1]])
  BY <1>9, <1>10 DEF AnObject, Objects!Plain, Objects!Object, Objects!UnitValue, Objects!IntValue,
     Val_unit, Val_long
<1>12. Objects!Makes(ObjectIn(heap, Double_array_tag, f), Objects!NewRef, ValuesOf(heap, rest))
  BY <1>5, MakesRefStep
<1>13. ValuesOf(heap, rest) = Objects!After(n - 1)
  BY <1>4, <1>5, AfterValues
<1>14. Objects!Makes(Objects!Plain("floats", [i \in 1..n |-> Objects!Items(Objects!First(n)[i])[1]]),
                     Objects!NewRef, Objects!After(n - 1))
  BY ONLY <1>11, <1>12, <1>13
<1> QED
  BY <1>2, <1>14 DEF Objects!Float, Objects!Name, Objects!A

-----------------------------------------------------------------------------
(* Instructions that write to an object *)
Written(f, i, words) ==
  [x \in DOMAIN f |-> IF x \in i + 1 .. i + Len(words) THEN words[x - i] ELSE f[x]]

Stores(i, words, rest) ==
  /\ IsPtr(Accu) /\ Tag_val(Accu) # Closure_tag /\ ValuesIn(heap, rest) /\ Store(i, words, rest)

LEMMA StoreOverwrites ==
  ASSUME ZInv, ZInv', NEW i, NEW words, NEW rest, Stores(i, words, rest)
  PROVE  /\ Overwrites(heap, heap', Accu[2], Written(Fields(Accu), i, words))
         /\ Accu' = Val_unit /\ stack' = rest
         /\ Env' = Env /\ caml_global_data' = caml_global_data
<1>1. Accu[2] \in 1..Len(heap) /\ heap[Accu[2]].tag # Closure_tag
  BY WordsAlone, PtrValue DEF Stores, Tag_val
<1>2. /\ heap' = [heap EXCEPT ![Accu[2]].fields = Written(Fields(Accu), i, words)]
      /\ Accu' = Val_unit /\ stack' = rest
      /\ Env' = Env /\ caml_global_data' = caml_global_data
  BY DEF Stores, Store, Result, Written, Fields
<1> QED
  BY <1>1, <1>2 DEF Overwrites, ZInv

LEMMA StoreGives ==
  ASSUME ZInv, ZInv', NEW i, NEW words, NEW rest, Stores(i, words, rest)
  PROVE  /\ Objects!Gives(Objects!UnitValue, ValuesOf(heap, rest))
         /\ [b \in DOMAIN heap |-> ObjectOf(b)]'
              = [ObjectsIn(heap) EXCEPT ![Accu[2]] =
                   ObjectIn(heap', Tag_val(Accu), Written(Fields(Accu), i, words))]
<1>1. /\ Overwrites(heap, heap', Accu[2], Written(Fields(Accu), i, words))
      /\ Accu' = Val_unit /\ stack' = rest
      /\ Env' = Env /\ caml_global_data' = caml_global_data
  BY StoreOverwrites
<1>2. PICK o : o = [ObjectsIn(heap) EXCEPT ![Accu[2]] =
                      ObjectIn(heap', Tag_val(Accu), Written(Fields(Accu), i, words))]
  OBVIOUS
<1>3. ObjectsIn(heap') = o
  BY <1>1, <1>2, ObjectsStore DEF Tag_val
<1>4. Grows(heap, heap')
  BY <1>1, OverwriteParts
<1>5. ValueIn(heap, Env) /\ ValuesIn(heap, caml_global_data) /\ ValuesIn(heap, rest)
  BY DEF ZInv, Stores
<1>6. PICK s : s = ValuesOf(heap, rest)
  OBVIOUS
<1>7. /\ ValueOf(heap', Env') = ValueOf(heap, Env)
      /\ ValuesOf(heap', caml_global_data') = ValuesOf(heap, caml_global_data)
      /\ ValuesOf(heap', stack') = s
  BY <1>1, <1>4, <1>5, <1>6, ValueOfGrows, ValuesOfGrow
<1>8. PICK v : v = Objects!UnitValue
  OBVIOUS
<1>9. ValueOf(heap', Accu') = v
  BY <1>1, <1>8, UnitOfWord
<1>10. GivesIn(o, v, s)
  BY <1>3, <1>7, <1>9 DEF GivesIn
<1>11. [b \in DOMAIN heap |-> ObjectOf(b)]' = o /\ Objects!Gives(v, s)
  BY <1>10, GivesStep
<1> QED
  BY <1>2, <1>6, <1>8, <1>11

\* The object that is written to, before and after
Rewrites(i, words, kind, items, of, k, item) ==
  /\ ObjectIn(heap, Tag_val(Accu), Fields(Accu)) = AnObject(kind, items, of)
  /\ ObjectIn(heap', Tag_val(Accu), Written(Fields(Accu), i, words))
       = AnObject(kind, [items EXCEPT ![k] = item], of)
  /\ Value(Accu)[2] = Accu[2]

LEMMA WritesStep ==
  ASSUME ZInv, ZInv', NEW i, NEW words, NEW rest, Stores(i, words, rest),
         NEW kind, NEW items, NEW of, NEW k, NEW item, Rewrites(i, words, kind, items, of, k, item)
  PROVE  Objects!Writes(k, item, ValuesOf(heap, rest))
<1>1. PICK a : a = Accu[2]
  OBVIOUS
<1>2. PICK o : o = ObjectsIn(heap)
  OBVIOUS
<1>3. o[a] = AnObject(kind, items, of)
  <2>1. Accu[2] \in DOMAIN heap
    BY WordsAlone, PtrValue, HeapType DEF Stores
  <2> QED
    BY <1>1, <1>2, <2>1 DEF ObjectsIn, Rewrites, Tag_val, Fields
<1>4. [o EXCEPT ![a].items[k] = item] = [o EXCEPT ![a] = AnObject(kind, [items EXCEPT ![k] = item], of)]
  <2>1. o[a].items = items
    BY <1>3 DEF AnObject
  <2>2. [o[a] EXCEPT !.items = [items EXCEPT ![k] = item]] = AnObject(kind, [items EXCEPT ![k] = item], of)
    BY <1>3 DEF AnObject
  <2> QED
    BY ONLY <2>1, <2>2
<1>5. [b \in DOMAIN heap |-> ObjectOf(b)]' = [o EXCEPT ![a].items[k] = item]
  <2>1. [b \in DOMAIN heap |-> ObjectOf(b)]'
          = [ObjectsIn(heap) EXCEPT ![Accu[2]] =
               ObjectIn(heap', Tag_val(Accu), Written(Fields(Accu), i, words))]
    BY StoreGives
  <2>2. ObjectIn(heap', Tag_val(Accu), Written(Fields(Accu), i, words))
          = AnObject(kind, [items EXCEPT ![k] = item], of)
    BY DEF Rewrites
  <2> QED
    BY ONLY <1>1, <1>2, <1>4, <2>1, <2>2
<1>6. [b \in DOMAIN heap |-> ObjectOf(b)] = o /\ Value(Accu)[2] = a
  BY <1>1, <1>2, MappedNow DEF Mapped, Rewrites
<1> QED
  BY <1>5, <1>6, StoreGives DEF Objects!Writes

\* One word written is one item
LEMMA WordWritten ==
  ASSUME NEW f, NEW i \in Nat, NEW w
  PROVE  Written(f, i, <<w>>) = [f EXCEPT ![i + 1] = w]
<1>1. Len(<<w>>) = 1 /\ <<w>>[1] = w
  OBVIOUS
<1>2. ASSUME NEW x \in DOMAIN f
      PROVE  Written(f, i, <<w>>)[x] = IF x = i + 1 THEN w ELSE f[x]
  <2>1. x \in i + 1 .. i + 1 <=> x = i + 1
    OBVIOUS
  <2>2. x = i + 1 => x - i = 1
    OBVIOUS
  <2> QED
    BY <1>1, <2>1, <2>2 DEF Written
<1>3. DOMAIN Written(f, i, <<w>>) = DOMAIN f
  BY DEF Written
<1>4. Written(f, i, <<w>>) = [x \in DOMAIN f |-> IF x = i + 1 THEN w ELSE f[x]]
  BY <1>2 DEF Written
<1> QED
  BY <1>4

\* A value into a block
StoresValue(i, w, rest) ==
  /\ IsBlock(Accu) /\ i \in 0 .. Wosize(Accu) - 1 /\ ValueIn(heap, w) /\ ValuesIn(heap, rest)
  /\ Store(i, <<w>>, rest)

LEMMA ValueStored ==
  ASSUME ZInv, ZInv', NEW i \in Nat, NEW w, NEW rest, StoresValue(i, w, rest)
  PROVE  Objects!Writes(i + 1, ValueOf(heap, w), ValuesOf(heap, rest))
<1>1. /\ IsBlock(Accu) /\ i \in 0 .. Wosize(Accu) - 1 /\ ValueIn(heap, w) /\ ValuesIn(heap, rest)
      /\ Store(i, <<w>>, rest)
  BY DEF StoresValue
<1>2. BlockObject(Accu) /\ Value(Accu) = ValueOf(heap, Accu)
  BY <1>1, BlockItems, WordsAlone, StackNow DEF StackFacts
<1>3. PICK f : f = Fields(Accu)
  OBVIOUS
<1>4. PICK tag : tag = Tag_val(Accu)
  OBVIOUS
<1>5. PICK words : words = <<w>>
  OBVIOUS
<1>6. Stores(i, words, rest)
  BY <1>1, <1>2, <1>5 DEF Stores, BlockObject, IsBlock
<1>7. PICK g : g = Written(f, i, words)
  OBVIOUS
<1>8. f \in Seq(Word) /\ i + 1 \in 1..Len(f) /\ ValuesIn(heap, f) /\ DOMAIN f = 1..Len(f)
  BY <1>1, <1>2, <1>3, BlockFields, WordsAlone, Element DEF BlockObject
<1>9. g = [f EXCEPT ![i + 1] = w]
  BY <1>5, <1>7, WordWritten
<1>10. ValuesIn(heap, g)
  BY <1>1, <1>8, <1>9 DEF ValuesIn, ValueIn
<1>11. Grows(heap, heap')
  BY <1>6, StoreOverwrites, OverwriteParts
<1>12. ValuesOf(heap', g) = [ValuesOf(heap, f) EXCEPT ![i + 1] = ValueOf(heap, w)]
  <2>1. ValuesOf(heap', g) = ValuesOf(heap, g)
    BY <1>10, <1>11, ValuesOfGrow
  <2>2. PICK j : j = i + 1
    OBVIOUS
  <2>3. j \in DOMAIN f
    BY <1>8, <2>2
  <2>4. ValuesOf(heap, [f EXCEPT ![j] = w]) = [ValuesOf(heap, f) EXCEPT ![j] = ValueOf(heap, w)]
    BY <2>3, ValuesExcept
  <2> QED
    BY <1>9, <2>1, <2>2, <2>4
<1>13. /\ ObjectIn(heap, tag, f) = AnObject("block", ValuesOf(heap, f), Val_long(tag))
       /\ ObjectIn(heap', tag, g) = AnObject("block", ValuesOf(heap', g), Val_long(tag))
  <2>1. tag \notin {Double_tag, Double_array_tag, String_tag, Closure_tag}
    BY <1>2, <1>4 DEF BlockObject
  <2> QED
    BY <2>1, ObjectKinds DEF ObjectCases
<1>14. PICK items : items = ValuesOf(heap, f)
  OBVIOUS
<1>15. PICK of : of = Val_long(tag)
  OBVIOUS
<1>16. PICK k : k = i + 1
  OBVIOUS
<1>17. PICK item : item = ValueOf(heap, w)
  OBVIOUS
<1>18. Value(Accu)[2] = Accu[2]
  BY <1>2 DEF BlockObject
<1>19. Rewrites(i, words, "block", items, of, k, item)
  BY <1>3, <1>4, <1>7, <1>12, <1>13, <1>14, <1>15, <1>16, <1>17, <1>18 DEF Rewrites
<1>20. Objects!Writes(k, item, ValuesOf(heap, rest))
  BY <1>6, <1>19, WritesStep
<1> QED
  BY ONLY <1>16, <1>17, <1>20

LEMMA SetFieldStep ==
  ASSUME ZInv, ZInv', NEW i \in Nat, setField(i)
  PROVE  Objects!Block
<1>1. PICK w : w = stack[1]
  OBVIOUS
<1>2. PICK rest : rest = Drop(stack, 1)
  OBVIOUS
<1>3. /\ inst' = <<"setitem", i + 1, 0>> /\ IsBlock(Accu) /\ i < Wosize(Accu) /\ Len(stack) >= 1
      /\ Store(i, <<w>>, rest)
  BY <1>1, <1>2 DEF setField, Runs, Holds, StackPointer
<1>4. 1 \in 1..Len(stack) /\ ValueIn(heap, w) /\ ValuesIn(heap, rest) /\ 1 <= Len(stack)
  BY <1>1, <1>2, <1>3, HeapType, WordsAlone, DropValues
<1>5. i \in 0 .. Wosize(Accu) - 1
  <2>1. BlockObject(Accu)
    BY <1>3, BlockItems, WordsAlone
  <2> QED
    BY <1>3, <2>1 DEF BlockObject
<1>6. StoresValue(i, w, rest)
  BY <1>3, <1>4, <1>5 DEF StoresValue
<1>7. Objects!Writes(i + 1, ValueOf(heap, w), ValuesOf(heap, rest))
  BY <1>6, ValueStored
<1>8. ValueOf(heap, w) = Values(stack)[1] /\ ValuesOf(heap, rest) = Objects!After(1)
  BY <1>1, <1>2, <1>4, AfterWords, StackNow DEF StackFacts
<1>9. Objects!Writes(i + 1, Values(stack)[1], Objects!After(1))
  BY ONLY <1>7, <1>8
<1> QED
  BY <1>3, <1>9 DEF Objects!Block, Objects!Name, Objects!A

LEMMA OffsetRefStep ==
  ASSUME ZInv, ZInv', NEW n \in Consts, offsetRef(n)
  PROVE  Objects!Block
<1>1. PICK w : w = Val_long(Long_val(Field(Accu, 0)) + n)
  OBVIOUS
<1>2. /\ inst' = <<"add", n, 0>> /\ IsBlock(Accu) /\ Wosize(Accu) > 0 /\ ~IsPtr(Field(Accu, 0))
      /\ Store(0, <<w>>, stack)
  BY <1>1 DEF offsetRef, Runs
<1>3. BlockObject(Accu) /\ Value(Accu) = ValueOf(heap, Accu)
  BY <1>2, BlockItems, WordsAlone, StackNow DEF StackFacts
<1>4. 0 \in 0 .. Wosize(Accu) - 1
  BY <1>2, <1>3 DEF BlockObject
<1>5. Objects!Items(Value(Accu))[0 + 1] = ValueOf(heap, Field(Accu, 0)) /\ ValueIn(heap, Field(Accu, 0))
  BY <1>3, <1>4 DEF BlockObject
<1>6. ValueOf(heap, Field(Accu, 0)) = Field(Accu, 0) /\ Long_val(Field(Accu, 0)) \in Int
  BY <1>2, <1>5, IntegerWords, IntegerOf
<1>7. Objects!Items(Value(Accu))[1][2] = Long_val(Field(Accu, 0))
  <2>1. 0 + 1 = 1
    OBVIOUS
  <2>2. Objects!Items(Value(Accu))[1] = Field(Accu, 0)
    BY ONLY <1>5, <1>6, <2>1
  <2> QED
    BY <2>2 DEF Long_val
<1>8. ValueIn(heap, w)
  BY <1>1, <1>6, OperandsAssumption, IntegerValue
<1>9. StoresValue(0, w, stack)
  BY <1>2, <1>4, <1>8, WordsAlone DEF StoresValue
<1>10. Objects!Writes(0 + 1, ValueOf(heap, w), ValuesOf(heap, stack))
  BY <1>9, ValueStored
<1>11. ValueOf(heap, w) = Objects!IntValue(Objects!Items(Value(Accu))[1][2] + n)
  BY <1>1, <1>7, IntegerOfWord
<1>12. ValuesOf(heap, stack) = Values(stack) /\ 0 + 1 = 1
  BY StackNow DEF StackFacts
<1>13. Objects!Writes(1, Objects!IntValue(Objects!Items(Value(Accu))[1][2] + n), Values(stack))
  BY ONLY <1>10, <1>11, <1>12
<1> QED
  BY <1>2, <1>13 DEF Objects!Block, Objects!Name, Objects!A

LEMMA SetVectItemStep ==
  ASSUME ZInv, ZInv', setVectItem
  PROVE  Objects!Block
<1>1. PICK w : w = stack[2]
  OBVIOUS
<1>2. PICK rest : rest = Drop(stack, 2)
  OBVIOUS
<1>3. PICK i : i = Long_val(StackPointer(0))
  OBVIOUS
<1>4. /\ inst' = <<"set", 0, 0>> /\ IsBlock(Accu) /\ IndexIn(Wosize(Accu)) /\ Len(stack) >= 2
      /\ Store(i, <<w>>, rest)
  BY <1>1, <1>2, <1>3 DEF setVectItem, Runs, Holds, StackPointer
<1>5. BlockObject(Accu)
  BY <1>4, BlockItems, WordsAlone
<1>6. i \in 0 .. Wosize(Accu) - 1 /\ i \in Nat /\ Values(stack)[1][2] = i
  BY <1>3, <1>4, <1>5, IndexValue DEF BlockObject
<1>7. 2 \in 1..Len(stack) /\ ValueIn(heap, w) /\ ValuesIn(heap, rest) /\ 2 <= Len(stack)
  BY <1>1, <1>2, <1>4, HeapType, WordsAlone, DropValues
<1>8. StoresValue(i, w, rest)
  BY <1>4, <1>6, <1>7 DEF StoresValue
<1>9. Objects!Writes(i + 1, ValueOf(heap, w), ValuesOf(heap, rest))
  BY <1>6, <1>8, ValueStored
<1>10. ValueOf(heap, w) = Values(stack)[2] /\ ValuesOf(heap, rest) = Objects!After(2)
  BY <1>1, <1>2, <1>7, AfterWords, StackNow DEF StackFacts
<1>11. Objects!Writes(Values(stack)[1][2] + 1, Values(stack)[2], Objects!After(2))
  BY ONLY <1>6, <1>9, <1>10
<1> QED
  BY <1>4, <1>11 DEF Objects!Block, Objects!Name

LEMMA SetStringCharStep ==
  ASSUME ZInv, ZInv', setStringChar
  PROVE  Objects!String
<1>1. PICK c \in Chars : stack[2] = Val_long(c)
  BY DEF setStringChar, StackPointer
<1>2. c \in Int /\ c % 256 = c /\ Long_val(StackPointer(1)) = c
  BY <1>1, OperandsAssumption DEF StackPointer, Long_val, Val_long
<1>3. PICK i : i = Long_val(StackPointer(0))
  OBVIOUS
<1>4. PICK words : words = <<Byte(c)>>
  OBVIOUS
<1>5. PICK rest : rest = Drop(stack, 2)
  OBVIOUS
<1>6. /\ inst' = <<"setchar", 0, 0>> /\ Is(Accu, String_tag) /\ IndexIn(Wosize(Accu)) /\ Len(stack) >= 2
      /\ Store(i, words, rest)
  BY <1>2, <1>3, <1>4, <1>5 DEF setStringChar, Runs, Holds
<1>7. PICK f : f = Fields(Accu)
  OBVIOUS
<1>8. RawObject(Accu, Bytes(f)) /\ Value(Accu) = ValueOf(heap, Accu)
  BY <1>6, <1>7, RawItems, WordsAlone, StackNow DEF StackFacts
<1>9. f \in Seq(Word) /\ Wosize(Accu) \in Nat /\ Value(Accu)[2] = Accu[2]
  BY <1>7, <1>8 DEF RawObject
<1>10. i \in Nat /\ Values(stack)[1][2] = i
  BY <1>3, <1>6, <1>9, IndexValue
<1>11. 2 \in 1..Len(stack) /\ ValuesIn(heap, rest) /\ 2 <= Len(stack)
  BY <1>5, <1>6, HeapType, WordsAlone, DropValues
<1>12. Stores(i, words, rest)
  BY <1>6, <1>11 DEF Stores, Is, String_tag, Closure_tag
<1>13. PICK g : g = Written(f, i, words)
  OBVIOUS
<1>14. g = [f EXCEPT ![i + 1] = Byte(c)]
  BY <1>4, <1>10, <1>13, WordWritten
<1>15. Bytes(g) = [Bytes(f) EXCEPT ![i + 1] = c]
  BY <1>14 DEF Bytes, Byte
<1>16. /\ ObjectIn(heap, Tag_val(Accu), f) = AnObject("string", Bytes(f), Val_unit)
       /\ ObjectIn(heap', Tag_val(Accu), g) = AnObject("string", Bytes(g), Val_unit)
  BY <1>6, ObjectKinds DEF ObjectCases, Is
<1>17. PICK items : items = Bytes(f)
  OBVIOUS
<1>18. PICK k : k = i + 1
  OBVIOUS
<1>19. Rewrites(i, words, "string", items, Val_unit, k, c)
  BY <1>7, <1>9, <1>13, <1>15, <1>16, <1>17, <1>18 DEF Rewrites
<1>20. Objects!Writes(k, c, ValuesOf(heap, rest))
  BY <1>12, <1>19, WritesStep
<1>21. Values(stack)[2][2] = c
  <2>1. Values(stack)[2] = ValueOf(heap, stack[2])
    BY <1>11, StackNow DEF StackFacts
  <2>2. ValueOf(heap, stack[2]) = Objects!IntValue(c)
    BY <1>1, IntegerOfWord
  <2> QED
    BY <2>1, <2>2 DEF Objects!IntValue
<1>22. ValuesOf(heap, rest) = Objects!After(2)
  BY <1>5, <1>11, AfterWords
<1>23. Objects!Writes(Values(stack)[1][2] + 1, Values(stack)[2][2], Objects!After(2))
  BY ONLY <1>10, <1>18, <1>20, <1>21, <1>22
<1> QED
  BY <1>6, <1>23 DEF Objects!String, Objects!Name

\* The words of a float written over another's
LEMMA FloatWritten ==
  ASSUME NEW f \in Seq(Word), NEW i \in Nat, NEW x \in Int
  PROVE  Floats(Written(f, i * Double_wosize, Words(x))) = [Floats(f) EXCEPT ![i + 1] = x]
<1>1. PICK words : words = Words(x)
  OBVIOUS
<1>2. /\ words \in Seq(Word) /\ Len(words) = Double_wosize /\ words[1][2] = x
  <2>1. words \in Seq(Word) /\ Len(words) = Double_wosize
    BY <1>1, FloatWords
  <2>2. 1 \in 1..Double_wosize
    BY WosizeAssumption
  <2> QED
    BY <1>1, <2>1, <2>2 DEF Words, Dbl
<1>3. PICK g : g = Written(f, i * Double_wosize, words)
  OBVIOUS
<1>4. Len(f) \in Nat /\ DOMAIN f = 1..Len(f) /\ DOMAIN g = 1..Len(f)
  BY <1>3, Element DEF Written
<1>5. Len(g) = Len(f)
  BY <1>4
<1>6. PICK n \in Nat : n = Len(f) \div Double_wosize
  BY FloatsType DEF FloatsFacts
<1>7. ASSUME NEW j \in 1..n
      PROVE  g[(j - 1) * Double_wosize + 1][2]
               = IF j = i + 1 THEN x ELSE f[(j - 1) * Double_wosize + 1][2]
  <2>1. PICK y : y = (j - 1) * Double_wosize + 1
    OBVIOUS
  <2>2. PICK m : m = i * Double_wosize
    OBVIOUS
  <2>3. /\ y \in 1..Len(f) /\ y \in Nat /\ m \in Nat
        /\ y \in m + 1 .. m + Double_wosize <=> j = i + 1
        /\ j = i + 1 => y - m = 1
    <3>1. CASE Double_wosize = 1
      BY <1>4, <1>6, <2>1, <2>2, <3>1
    <3>2. CASE Double_wosize = 2
      BY <1>4, <1>6, <2>1, <2>2, <3>2
    <3> QED
      BY <3>1, <3>2, WosizeAssumption
  <2>4. g[y] = IF y \in m + 1 .. m + Double_wosize THEN words[y - m] ELSE f[y]
    BY <1>2, <1>3, <1>4, <2>2, <2>3 DEF Written
  <2> QED
    BY <1>2, <2>1, <2>3, <2>4
<1>8. Floats(g) = [j \in 1..n |-> g[(j - 1) * Double_wosize + 1][2]]
  BY <1>5, <1>6 DEF Floats
<1>9. Floats(f) = [j \in 1..n |-> f[(j - 1) * Double_wosize + 1][2]]
  BY <1>6 DEF Floats
<1>10. Floats(g) = [Floats(f) EXCEPT ![i + 1] = x]
  BY <1>7, <1>8, <1>9
<1> QED
  BY <1>1, <1>3, <1>10

LEMMA StoreDoubleFieldStep ==
  ASSUME ZInv, ZInv', NEW i \in Nat, storeDoubleField(i)
  PROVE  Objects!Float
<1>1. PICK x : x = Double_val(stack[1])
  OBVIOUS
<1>2. PICK words : words = Words(x)
  OBVIOUS
<1>3. PICK rest : rest = Drop(stack, 1)
  OBVIOUS
<1>4. PICK m : m = i * Double_wosize
  OBVIOUS
<1>5. /\ inst' = <<"setfloat", i + 1, 0>> /\ FloatArray(i) /\ Len(stack) >= 1
      /\ Is(stack[1], Double_tag) /\ Store(m, words, rest)
  BY <1>1, <1>2, <1>3, <1>4 DEF storeDoubleField, Runs, Holds, StackPointer
<1>6. 1 \in 1..Len(stack) /\ ValueIn(heap, stack[1]) /\ ValuesIn(heap, rest) /\ 1 <= Len(stack)
  BY <1>3, <1>5, HeapType, WordsAlone, DropValues
<1>7. Objects!Items(Values(stack)[1])[1] = x /\ x \in Int
  BY <1>1, <1>5, <1>6, FloatValue, StackNow DEF StackFacts
<1>8. PICK f : f = Fields(Accu)
  OBVIOUS
<1>9. f \in Seq(Word) /\ Value(Accu)[2] = Accu[2]
  BY <1>5, <1>8, FloatItem DEF RawObject
<1>10. Is(Accu, Double_array_tag)
  BY <1>5 DEF FloatArray
<1>11. Stores(m, words, rest)
  BY <1>5, <1>6, <1>10 DEF Stores, Is, Double_array_tag, Closure_tag
<1>12. PICK g : g = Written(f, m, words)
  OBVIOUS
<1>13. Floats(g) = [Floats(f) EXCEPT ![i + 1] = x]
  BY <1>2, <1>4, <1>7, <1>9, <1>12, FloatWritten
<1>14. /\ ObjectIn(heap, Tag_val(Accu), f) = AnObject("floats", Floats(f), Val_unit)
       /\ ObjectIn(heap', Tag_val(Accu), g) = AnObject("floats", Floats(g), Val_unit)
  BY <1>10, ObjectKinds DEF ObjectCases, Is
<1>15. PICK items : items = Floats(f)
  OBVIOUS
<1>16. PICK k : k = i + 1
  OBVIOUS
<1>17. Rewrites(m, words, "floats", items, Val_unit, k, x)
  BY <1>8, <1>9, <1>12, <1>13, <1>14, <1>15, <1>16 DEF Rewrites
<1>18. Objects!Writes(k, x, ValuesOf(heap, rest))
  BY <1>11, <1>17, WritesStep
<1>19. ValuesOf(heap, rest) = Objects!After(1)
  BY <1>3, <1>6, AfterWords
<1>20. Objects!Writes(i + 1, Objects!Items(Values(stack)[1])[1], Objects!After(1))
  BY ONLY <1>7, <1>16, <1>18, <1>19
<1> QED
  BY <1>5, <1>20 DEF Objects!Float, Objects!Name, Objects!A

-----------------------------------------------------------------------------
(* Closures *)

\* A function of a definition, as a value and its object
FunctionObject(w, d, k) ==
  /\ Functions_(heap, Fields(w), d) /\ Fields(w) \in Seq(Word)
  /\ d \in DOMAIN Definitions /\ k \in 1..Len(Definitions[d].arity)
  /\ ValueOf(heap, w) = <<"fn", w[2], k>>
  /\ [b \in DOMAIN heap |-> ObjectOf(b)][w[2]]
       = AnObject("functions", ValuesOf(heap, Drop(Fields(w), FunctionFieldsOf(Fields(w)))), <<"definition", d, 0>>)

LEMMA FunctionValueOf ==
  ASSUME NEW h, NEW w, NEW d, NEW k, FunctionPtr(h, w, d, k), h[w[2]].fields[1][1] = "code"
  PROVE  ValueOf(h, w) = <<"fn", w[2], k>>
<1>1. /\ w[1] = "ptr" /\ h[w[2]].tag = Closure_tag /\ w[3] = 2 * (k - 1)
      /\ d \in DOMAIN Definitions /\ k \in 1..Len(Definitions[d].arity)
  BY DEF FunctionPtr, IsFunctions
<1>2. w[3] \div 2 + 1 = k
  BY <1>1
<1> QED
  BY <1>1, <1>2 DEF ValueOf

LEMMA FunctionHeld ==
  ASSUME ZInv, NEW w, NEW d, NEW k, FunctionPtr(heap, w, d, k)
  PROVE  FunctionObject(w, d, k)
<1>1. PICK f : f = Fields(w)
  OBVIOUS
<1>2. /\ w[2] \in 1..Len(heap) /\ IsFunctions(Closure_tag, f, d) /\ Tag_val(w) = Closure_tag
      /\ d \in DOMAIN Definitions /\ k \in 1..Len(Definitions[d].arity)
  BY <1>1, HeapType DEF FunctionPtr, IsFunctions, Fields, Tag_val
<1>3. f \in Seq(Word)
  BY <1>1, <1>2 DEF ZInv, HeapIn, ContentIn, Fields
<1>4. \A i \in 2 * Len(Definitions[d].arity) .. Len(f) : ValueIn(heap, f[i])
  BY <1>1, FunctionFields
<1>5. Functions_(heap, f, d)
  BY <1>2, <1>3, <1>4, FunctionsParts
<1>6. f[1][1] = "code" /\ f[1][2] = d
  BY <1>5 DEF Functions_
<1>7. ValueOf(heap, w) = <<"fn", w[2], k>>
  BY <1>1, <1>6, FunctionValueOf DEF Fields
<1>8. [b \in DOMAIN heap |-> ObjectOf(b)][w[2]] = ObjectIn(heap, Tag_val(w), f)
  BY <1>1, <1>2, ObjectAt
<1>9. ObjectIn(heap, Closure_tag, f)
        = AnObject("functions", ValuesOf(heap, Drop(f, FunctionFieldsOf(f))), <<"definition", d, 0>>)
  BY <1>6, ObjectKinds DEF ObjectCases
<1> QED
  BY <1>1, <1>2, <1>3, <1>5, <1>7, <1>8, <1>9 DEF FunctionObject

LEMMA EnvAccStep ==
  ASSUME ZInv, NEW n \in Nat, n >= 1, envAcc(n)
  PROVE  Objects!Own
<1>1. PICK d : d = running[1]
  OBVIOUS
<1>2. PICK f : f = Fields(Env)
  OBVIOUS
<1>3. PICK w : w = Field(Env, EnvOperand(n))
  OBVIOUS
<1>4. /\ inst' = <<"free", n, 0>> /\ w = f[2 * Len(Definitions[d].arity) - 1 + n]
      /\ n <= Definitions[d].vars /\ Read(w, stack) /\ FunctionPtr(heap, Env, d, k_)
  BY <1>1, <1>2, <1>3, FreeWord DEF envAcc, Runs, D_
<1>5. FunctionObject(Env, d, k_)
  BY <1>4, FunctionHeld
<1>6. PICK m \in Nat : m = 2 * Len(Definitions[d].arity) - 1
  <2>1. d \in DOMAIN Definitions
    BY <1>5 DEF FunctionObject
  <2>2. Len(Definitions[d].arity) \in Nat /\ Len(Definitions[d].arity) >= 1
    BY <2>1, DefinitionType
  <2>3. 2 * Len(Definitions[d].arity) - 1 \in Nat
    BY <2>2
  <2> QED
    BY <2>3
<1>7. /\ FunctionFieldsOf(f) = m /\ f \in Seq(Word) /\ Len(Drop(f, m)) = Definitions[d].vars
      /\ Len(f) = m + Definitions[d].vars /\ Definitions[d].vars \in Nat
      /\ Value(Env) = <<"fn", Env[2], k_>>
  <2>1. d \in DOMAIN Definitions /\ Functions_(heap, f, d) /\ f \in Seq(Word)
        /\ ValueOf(heap, Env) = <<"fn", Env[2], k_>>
    BY <1>2, <1>5 DEF FunctionObject
  <2> QED
    BY <1>6, <2>1, DefinitionType, MappedNow DEF Functions_, IsFunctions, Mapped
<1>8. PICK t : t = Drop(f, m)
  OBVIOUS
<1>9. t \in Seq(Word) /\ Len(t) = Definitions[d].vars /\ t[n] = w
  <2>1. m <= Len(f)
    BY <1>7
  <2>2. DropFacts(Word, f, m)
    BY <1>7, <2>1, DropParts
  <2>3. n \in 1 .. Len(f) - m /\ m + n = 2 * Len(Definitions[d].arity) - 1 + n
    BY <1>4, <1>6, <1>7
  <2> QED
    BY <1>4, <1>7, <1>8, <2>2, <2>3 DEF DropFacts
<1>10. Objects!Items(Value(Env)) = ValuesOf(heap, t)
  BY <1>2, <1>5, <1>7, <1>8 DEF FunctionObject, AnObject, Objects!Items
<1>11. n \in 1..Len(t)
  BY <1>4, <1>7, <1>9
<1>12. Objects!Items(Value(Env))[n] = ValueOf(heap, w)
  BY <1>9, <1>10, <1>11, ValuesType DEF ValuesFacts
<1>13. Objects!Reads(Objects!Items(Value(Env))[n], Values(stack))
  BY <1>4, <1>12, ReadStep, StackNow DEF StackFacts
<1> QED
  BY <1>4, <1>13 DEF Objects!Own, Objects!Name, Objects!A

LEMMA OffsetClosureStep ==
  ASSUME ZInv, NEW n \in Nat, n >= 1, offsetClosure(n)
  PROVE  Objects!Own
<1>1. PICK d : d = running[1]
  OBVIOUS
<1>2. PICK w : w = Ptr(Env[2], 2 * (n - 1))
  OBVIOUS
<1>3. /\ inst' = <<"function", n, 0>> /\ Read(w, stack)
      /\ FunctionPtr(heap, w, d, n) /\ FunctionPtr(heap, Env, d, k_)
  BY <1>1, <1>2, SiblingPtr DEF offsetClosure, Runs
<1>4. ValueOf(heap, w) = <<"fn", w[2], n>> /\ ValueOf(heap, Env) = <<"fn", Env[2], k_>>
  BY <1>3, FunctionHeld DEF FunctionObject
<1>5. ValueOf(heap, w) = Objects!Fn(Value(Env)[2], n)
  BY <1>2, <1>4, MappedNow DEF Mapped, Objects!Fn, Ptr
<1>6. Objects!Reads(Objects!Fn(Value(Env)[2], n), Values(stack))
  BY <1>3, <1>5, ReadStep, StackNow DEF StackFacts
<1> QED
  BY <1>3, <1>6 DEF Objects!Own, Objects!Name, Objects!A

\* Accu on top of the stack, taken apart
LEMMA TopParts ==
  ASSUME NEW w \in Word, NEW s \in Seq(Word), NEW n \in Nat, n >= 1, n - 1 <= Len(s)
  PROVE  /\ SubSeq(<<w>> \o s, 1, n) = <<w>> \o SubSeq(s, 1, n - 1)
         /\ Drop(<<w>> \o s, n) = Drop(s, n - 1)
<1>1. PICK u : u = <<w>>
  OBVIOUS
<1>2. u \in Seq(Word) /\ Len(u) = 1 /\ u[1] = w /\ Len(s) \in Nat
  BY <1>1
<1>3. PICK c : c = u \o s
  OBVIOUS
<1>4. /\ c \in Seq(Word) /\ Len(c) = 1 + Len(s) /\ c[1] = w
      /\ \A i \in 2 .. 1 + Len(s) : c[i] = s[i - 1]
  <2>1. /\ u \o s \in Seq(Word) /\ Len(u \o s) = Len(u) + Len(s)
        /\ \A i \in 1..Len(u) : (u \o s)[i] = u[i]
        /\ \A i \in Len(u) + 1 .. Len(u) + Len(s) : (u \o s)[i] = s[i - Len(u)]
    BY <1>2, ConcatParts
  <2>2. 1 \in 1..Len(u) /\ Len(u) + 1 = 2
    BY <1>2
  <2> QED
    BY ONLY <1>2, <1>3, <2>1, <2>2
<1>5. PICK t : t = SubSeq(s, 1, n - 1)
  OBVIOUS
<1>6. t \in Seq(Word) /\ Len(t) = n - 1 /\ \A i \in 1 .. n - 1 : t[i] = s[i]
  BY ONLY <1>2, <1>5, s \in Seq(Word), n \in Nat, n >= 1, n - 1 <= Len(s)
<1>7. PICK a : a = SubSeq(c, 1, n)
  OBVIOUS
<1>8. a \in Seq(Word) /\ Len(a) = n /\ \A i \in 1..n : a[i] = c[i]
  BY ONLY <1>2, <1>4, <1>7, n \in Nat, n >= 1, n - 1 <= Len(s)
<1>9. PICK b : b = u \o t
  OBVIOUS
<1>10. /\ b \in Seq(Word) /\ Len(b) = n /\ b[1] = w
       /\ \A i \in 2..n : b[i] = t[i - 1]
  <2>1. /\ u \o t \in Seq(Word) /\ Len(u \o t) = Len(u) + Len(t)
        /\ \A i \in 1..Len(u) : (u \o t)[i] = u[i]
        /\ \A i \in Len(u) + 1 .. Len(u) + Len(t) : (u \o t)[i] = t[i - Len(u)]
    BY <1>2, <1>6, ConcatParts
  <2>2. 1 \in 1..Len(u) /\ Len(u) + 1 = 2 /\ Len(u) + Len(t) = n
    BY <1>2, <1>6
  <2> QED
    BY ONLY <1>2, <1>9, <2>1, <2>2
<1>11. ASSUME NEW i \in 1..n PROVE a[i] = b[i]
  <2>1. CASE i = 1
    BY <1>4, <1>8, <1>10, <2>1
  <2>2. CASE i # 1
    <3>1. i \in 2..n /\ i - 1 \in 1 .. n - 1 /\ i \in 2 .. 1 + Len(s)
      BY <1>2, <2>2
    <3>2. a[i] = c[i] /\ c[i] = s[i - 1] /\ t[i - 1] = s[i - 1] /\ b[i] = t[i - 1]
      BY <1>4, <1>6, <1>8, <1>10, <3>1
    <3> QED
      BY ONLY <3>2
  <2> QED
    BY <2>1, <2>2
<1>12. a = b
  BY ONLY <1>8, <1>10, <1>11, SameSeq
<1>13. PICK p : p = Drop(c, n)
  OBVIOUS
<1>14. PICK q : q = Drop(s, n - 1)
  OBVIOUS
<1>15. n <= Len(c) /\ n - 1 \in Nat
  BY <1>2, <1>4
<1>16. DropFacts(Word, c, n)
  BY <1>4, <1>15, DropParts
<1>17. PICK m \in Nat : m = n - 1
  BY <1>15
<1>18. DropFacts(Word, s, m)
  <2>1. m <= Len(s)
    BY <1>17
  <2> QED
    BY <2>1, DropParts
<1>19. p \in Seq(Word) /\ Len(p) = Len(s) - m /\ q \in Seq(Word) /\ Len(q) = Len(s) - m
  BY <1>2, <1>4, <1>13, <1>14, <1>16, <1>17, <1>18 DEF DropFacts
<1>20. ASSUME NEW i \in 1 .. Len(s) - m PROVE p[i] = q[i]
  <2>1. i \in 1 .. Len(c) - n /\ n + i \in 2 .. 1 + Len(s) /\ (n + i) - 1 = m + i
    BY <1>2, <1>4, <1>17
  <2>2. p[i] = c[n + i] /\ c[n + i] = s[(n + i) - 1] /\ q[i] = s[m + i]
    BY <1>4, <1>13, <1>14, <1>16, <1>17, <1>18, <2>1 DEF DropFacts
  <2> QED
    BY ONLY <2>1, <2>2
<1>21. p = q
  BY ONLY <1>19, <1>20, SameSeq
<1> QED
  BY <1>1, <1>3, <1>5, <1>7, <1>9, <1>12, <1>13, <1>14, <1>21

\* What a definition closes over, and what it leaves
Closed(D)    == IF D.vars = 0 THEN <<>> ELSE Objects!First(D.vars)
ClosedOff(D) == IF D.vars = 0 THEN Values(stack) ELSE Objects!After(D.vars - 1)

CapturedFacts(D, vars_, rest) ==
  /\ ValuesIn(heap, vars_) /\ Len(vars_) = D.vars /\ ValuesOf(heap, vars_) = Closed(D)
  /\ ValuesIn(heap, rest) /\ ValuesOf(heap, rest) = ClosedOff(D)

LEMMA CapturedAre ==
  ASSUME ZInv, NEW d \in DOMAIN Definitions,
         Len(Captured(Definitions[d])) >= Definitions[d].vars
  PROVE  CapturedFacts(Definitions[d], SubSeq(Captured(Definitions[d]), 1, Definitions[d].vars),
                       Drop(Captured(Definitions[d]), Definitions[d].vars))
<1>1. PICK D : D = Definitions[d]
  OBVIOUS
<1>2. PICK n \in Nat : n = D.vars
  BY <1>1, DefinitionType
<1>3. PICK vars_ : vars_ = SubSeq(Captured(D), 1, n)
  OBVIOUS
<1>4. PICK rest : rest = Drop(Captured(D), n)
  OBVIOUS
<1>5. ValuesIn(heap, vars_) /\ Len(vars_) = n /\ ValuesIn(heap, rest)
  BY <1>1, <1>2, <1>3, <1>4, CapturedValues
<1>6. stack \in Seq(Word) /\ Len(stack) \in Nat /\ Accu \in Word /\ Values(stack) = ValuesOf(heap, stack)
  BY StackNow DEF StackFacts
<1>7. CASE n = 0
  <2>1. Captured(D) = stack
    BY <1>2, <1>7 DEF Captured
  <2>2. rest = stack
    BY <1>4, <1>6, <1>7, <2>1 DEF Drop
  <2>3. vars_ = <<>>
    BY <1>5, <1>7 DEF ValuesIn
  <2>4. ValuesOf(heap, <<>>) = <<>>
    BY DEF ValuesOf
  <2> QED
    BY <1>1, <1>2, <1>3, <1>4, <1>5, <1>6, <1>7, <2>2, <2>3, <2>4 DEF CapturedFacts, Closed, ClosedOff
<1>8. CASE n # 0
  <2>1. Captured(D) = <<Accu>> \o stack /\ n >= 1
    BY <1>2, <1>8 DEF Captured
  <2>2. n - 1 <= Len(stack)
    BY <1>1, <1>2, <1>6, <2>1, WordsAlone
  <2>3. vars_ = <<Accu>> \o SubSeq(stack, 1, n - 1) /\ rest = Drop(stack, n - 1)
    BY <1>3, <1>4, <1>6, <2>1, <2>2, TopParts
  <2>4. ValuesOf(heap, vars_) = Objects!First(n) /\ ValuesOf(heap, rest) = Objects!After(n - 1)
    BY <2>1, <2>2, <2>3, FirstWords, AfterValues
  <2> QED
    BY <1>1, <1>2, <1>3, <1>4, <1>5, <1>8, <2>4 DEF CapturedFacts, Closed, ClosedOff
<1> QED
  BY <1>7, <1>8

LEMMA DropConcat ==
  ASSUME NEW s \in Seq(Word), NEW t \in Seq(Word)
  PROVE  Drop(s \o t, Len(s)) = t
<1>1. PICK n \in Nat : n = Len(s)
  OBVIOUS
<1>2. PICK u : u = s \o t
  OBVIOUS
<1>3. /\ u \in Seq(Word) /\ Len(u) = n + Len(t) /\ Len(t) \in Nat
      /\ \A i \in n + 1 .. n + Len(t) : u[i] = t[i - n]
  BY <1>1, <1>2, ConcatParts
<1>4. n <= Len(u)
  BY <1>3
<1>5. DropFacts(Word, u, n)
  BY <1>3, <1>4, DropParts
<1>6. PICK p : p = Drop(u, n)
  OBVIOUS
<1>7. p \in Seq(Word) /\ Len(p) = Len(t) /\ \A i \in 1..Len(t) : p[i] = u[n + i]
  BY <1>3, <1>5, <1>6 DEF DropFacts
<1>8. ASSUME NEW i \in 1..Len(t) PROVE p[i] = t[i]
  <2>1. n + i \in n + 1 .. n + Len(t) /\ (n + i) - n = i
    BY <1>3
  <2> QED
    BY <1>3, <1>7, <2>1
<1>9. p = t
  BY ONLY <1>7, <1>8, SameSeq, t \in Seq(Word)
<1> QED
  BY <1>1, <1>2, <1>6, <1>9

\* The object of a definition
Defines(d, vars_, rest) ==
  /\ d \in DOMAIN Definitions /\ ValuesIn(heap, vars_) /\ Len(vars_) = Definitions[d].vars
  /\ Alloc(Closure_tag, FunctionWords(d) \o vars_, rest)

LEMMA FunctionsMade ==
  ASSUME ZInv, ZInv', NEW d, NEW vars_, NEW rest, Defines(d, vars_, rest)
  PROVE  /\ Objects!Makes(Objects!Object("functions", ValuesOf(heap, vars_), <<"definition", d, 0>>),
                          Objects!NewFn(1), ValuesOf(heap', rest))
         /\ Grows(heap, heap')
         /\ \A k \in 1..Len(Definitions[d].arity) :
              ValueOf(heap', Ptr(Len(heap) + 1, 2 * (k - 1))) = Objects!NewFn(k)
<1>1. PICK f : f = FunctionWords(d) \o vars_
  OBVIOUS
<1>2. /\ d \in DOMAIN Definitions /\ ValuesIn(heap, vars_) /\ vars_ \in Seq(Word)
      /\ Len(vars_) = Definitions[d].vars /\ Alloc(Closure_tag, f, rest)
  BY <1>1 DEF Defines, ValuesIn
<1>3. /\ FunctionWords(d) \in Seq(Word) /\ Len(FunctionWords(d)) = 2 * Len(Definitions[d].arity) - 1
      /\ IsFunctions(Closure_tag, f, d) /\ ContentIn(heap, Closure_tag, f)
  BY <1>1, <1>2, FunctionWordsType, FunctionsContent
<1>4. f \in Seq(Word)
  BY <1>3 DEF ContentIn
<1>5. f[1][1] = "code" /\ f[1][2] = d
  <2>1. Len(Definitions[d].arity) \in Nat /\ Len(Definitions[d].arity) >= 1
    BY <1>2, DefinitionType
  <2>2. 1 \in 1 .. 2 * Len(Definitions[d].arity) - 1 /\ 1 % 2 = 1 /\ (1 + 1) \div 2 = 1
    BY <2>1
  <2>3. f[1] = FunctionWords(d)[1]
    BY <1>3, <2>2 DEF IsFunctions
  <2>4. f[1] = Code(d, 1)
    BY <2>2, <2>3 DEF FunctionWords
  <2> QED
    BY <2>4 DEF Code
<1>6. Drop(f, FunctionFieldsOf(f)) = vars_
  BY <1>1, <1>2, <1>3, <1>5, DropConcat DEF FunctionFieldsOf
<1>7. /\ Grows(heap, heap') /\ heap'[Len(heap) + 1] = [tag |-> Closure_tag, fields |-> f]
      /\ Len(heap') = Len(heap) + 1 /\ Len(heap) \in Nat
  BY <1>2, AllocAppends, AppendParts
<1>8. ObjectIn(heap', Closure_tag, f)
        = Objects!Object("functions", ValuesOf(heap, vars_), <<"definition", d, 0>>)
  <2>1. ObjectIn(heap', Closure_tag, f)
          = AnObject("functions", ValuesOf(heap', vars_), <<"definition", d, 0>>)
    BY <1>5, <1>6, ObjectKinds DEF ObjectCases
  <2>2. ValuesOf(heap', vars_) = ValuesOf(heap, vars_)
    BY <1>2, <1>7, ValuesOfGrow
  <2> QED
    BY <2>1, <2>2 DEF AnObject, Objects!Object
<1>9. /\ Objects!Makes(ObjectIn(heap', Closure_tag, f), ValueOf(heap', NewAddress), ValuesOf(heap', rest))
      /\ \A k : Objects!NewFn(k) = <<"fn", Len(heap) + 1, k>>
  BY <1>2, MakesStep
<1>10. ASSUME NEW k \in 1..Len(Definitions[d].arity)
       PROVE  ValueOf(heap', Ptr(Len(heap) + 1, 2 * (k - 1))) = Objects!NewFn(k)
  <2>1. (2 * (k - 1)) \div 2 + 1 = k
    OBVIOUS
  <2> QED
    BY <1>5, <1>7, <1>9, <2>1 DEF ValueOf, Ptr
<1>11. ValueOf(heap', NewAddress) = Objects!NewFn(1)
  <2>1. 1 \in 1..Len(Definitions[d].arity) /\ 2 * (1 - 1) = 0
    BY <1>2, DefinitionType
  <2>2. ValueOf(heap', Ptr(Len(heap) + 1, 2 * (1 - 1))) = Objects!NewFn(1)
    BY <1>10, <2>1
  <2> QED
    BY <2>1, <2>2 DEF NewAddress
<1>12. Objects!Makes(Objects!Object("functions", ValuesOf(heap, vars_), <<"definition", d, 0>>),
                     Objects!NewFn(1), ValuesOf(heap', rest))
  BY ONLY <1>8, <1>9, <1>11
<1> QED
  BY <1>7, <1>10, <1>12

LEMMA ClosureStep ==
  ASSUME ZInv, ZInv', NEW d \in DOMAIN Definitions, closure(d)
  PROVE  Objects!Define
<1>1. PICK D : D = Definitions[d]
  OBVIOUS
<1>2. PICK vars_ : vars_ = SubSeq(Captured(D), 1, D.vars)
  OBVIOUS
<1>3. PICK rest : rest = Drop(Captured(D), D.vars)
  OBVIOUS
<1>4. /\ inst' = <<"define", d, 0>> /\ ~D.rec /\ Len(Captured(D)) >= D.vars
      /\ Alloc(Closure_tag, <<Code(d, 1)>> \o vars_, rest)
  BY <1>1, <1>2, <1>3 DEF closure, Runs
<1>5. CapturedFacts(D, vars_, rest)
  BY <1>1, <1>2, <1>3, <1>4, CapturedAre
<1>6. <<Code(d, 1)>> = FunctionWords(d)
  <2>1. Len(Definitions[d].arity) = 1
    BY <1>1, <1>4, DefinitionType
  <2>2. 2 * 1 - 1 = 1 /\ (1 + 1) \div 2 = 1 /\ 1 % 2 = 1
    OBVIOUS
  <2>3. FunctionWords(d) = [i \in 1..1 |-> IF i % 2 = 1 THEN Code(d, (i + 1) \div 2) ELSE Hdr(i)]
    BY <2>1, <2>2 DEF FunctionWords
  <2>4. FunctionWords(d) = [i \in 1..1 |-> Code(d, 1)]
    BY ONLY <2>2, <2>3
  <2> QED
    BY ONLY <2>4
<1>7. Defines(d, vars_, rest)
  BY <1>1, <1>4, <1>5, <1>6 DEF Defines, CapturedFacts
<1>8. /\ Objects!Makes(Objects!Object("functions", ValuesOf(heap, vars_), <<"definition", d, 0>>),
                       Objects!NewFn(1), ValuesOf(heap', rest))
      /\ Grows(heap, heap')
  BY <1>7, FunctionsMade
<1>9. ValuesOf(heap', rest) = ClosedOff(D) /\ ValuesOf(heap, vars_) = Closed(D)
  BY <1>5, <1>8, ValuesOfGrow DEF CapturedFacts
<1>10. Objects!Makes(Objects!Object("functions", Closed(D), <<"definition", d, 0>>),
                     Objects!NewFn(1), ClosedOff(D))
  BY ONLY <1>8, <1>9
<1> QED
  BY <1>1, <1>4, <1>10 DEF Objects!Define, Objects!Name, Objects!A, Closed, ClosedOff

LEMMA ClosureRecStep ==
  ASSUME ZInv, ZInv', NEW d \in DOMAIN Definitions, closureRec(d)
  PROVE  Objects!Define
<1>1. PICK D : D = Definitions[d]
  OBVIOUS
<1>2. PICK vars_ : vars_ = SubSeq(Captured(D), 1, D.vars)
  OBVIOUS
<1>3. PICK rest : rest = Drop(Captured(D), D.vars)
  OBVIOUS
<1>4. PICK fns \in Nat : fns = Len(D.arity)
  BY <1>1, DefinitionType
<1>5. PICK new : new = Len(heap) + 1
  OBVIOUS
<1>6. PICK ptrs : ptrs = [k \in 1..fns |-> Ptr(new, 2 * (fns - k))]
  OBVIOUS
<1>7. /\ inst' = <<"define", d, 0>> /\ D.rec /\ Len(Captured(D)) >= D.vars
      /\ Alloc(Closure_tag, FunctionWords(d) \o vars_, ptrs \o rest)
  BY <1>1, <1>2, <1>3, <1>4, <1>5, <1>6 DEF closureRec, Runs
<1>8. CapturedFacts(D, vars_, rest)
  BY <1>1, <1>2, <1>3, <1>7, CapturedAre
<1>9. PICK all : all = ptrs \o rest
  OBVIOUS
<1>10. Defines(d, vars_, all)
  BY <1>1, <1>7, <1>8, <1>9 DEF Defines, CapturedFacts
<1>11. /\ Objects!Makes(Objects!Object("functions", ValuesOf(heap, vars_), <<"definition", d, 0>>),
                        Objects!NewFn(1), ValuesOf(heap', all))
       /\ Grows(heap, heap')
       /\ \A k \in 1..fns : ValueOf(heap', Ptr(new, 2 * (k - 1))) = Objects!NewFn(k)
  BY <1>1, <1>4, <1>5, <1>10, FunctionsMade
<1>12. ValuesOf(heap', rest) = ClosedOff(D) /\ ValuesOf(heap, vars_) = Closed(D) /\ rest \in Seq(Word)
  BY <1>8, <1>11, ValuesOfGrow DEF CapturedFacts, ValuesIn
<1>13. ptrs \in Seq(Word)
  <2>1. new \in Nat
    BY <1>5, HeapType
  <2>2. \A k \in 1..fns : ptrs[k] \in Word
    BY <1>6, <2>1 DEF Ptr, Word
  <2>3. ptrs \in [1..fns -> Word]
    BY <1>6, <2>2
  <2> QED
    BY ONLY <2>3, fns \in Nat
<1>14. ValuesOf(heap', ptrs) = [k \in 1..fns |-> Objects!NewFn(fns + 1 - k)]
  <2>1. ASSUME NEW k \in 1..fns PROVE ValueOf(heap', ptrs[k]) = Objects!NewFn(fns + 1 - k)
    <3>1. PICK j : j = fns + 1 - k
      OBVIOUS
    <3>2. j \in 1..fns /\ 2 * (fns - k) = 2 * (j - 1)
      BY <3>1
    <3> QED
      BY <1>6, <1>11, <3>1, <3>2
  <2>2. DOMAIN ptrs = 1..fns
    BY <1>6
  <2> QED
    BY <2>1, <2>2 DEF ValuesOf
<1>15. ValuesOf(heap', all) = [k \in 1..fns |-> Objects!NewFn(fns + 1 - k)] \o ClosedOff(D)
  <2>1. ValuesOf(heap', ptrs \o rest) = ValuesOf(heap', ptrs) \o ValuesOf(heap', rest)
    BY <1>12, <1>13, ValuesConcat
  <2> QED
    BY ONLY <1>9, <1>12, <1>14, <2>1
<1>16. Objects!Makes(Objects!Object("functions", Closed(D), <<"definition", d, 0>>), Objects!NewFn(1),
                     [k \in 1..fns |-> Objects!NewFn(fns + 1 - k)] \o ClosedOff(D))
  BY ONLY <1>11, <1>12, <1>15
<1> QED
  BY <1>1, <1>4, <1>7, <1>16 DEF Objects!Define, Objects!Name, Objects!A, Closed, ClosedOff

-----------------------------------------------------------------------------
(* Applications *)
Callee == IF Objects!Is(Value(Accu), "partial") THEN Objects!Of(Value(Accu)) ELSE Value(Accu)
AllArgs(n) ==
  (IF Objects!Is(Value(Accu), "partial") THEN Objects!Items(Value(Accu)) ELSE <<>>) \o SubSeq(Values(stack), 1, n)

CallFacts(n) ==
  /\ Callee = ValueOf(heap, CalledEnv)
  /\ AllArgs(n) = ValuesOf(heap, Arguments(n)) /\ Arguments(n) \in Seq(Word)
  /\ Definitions[Objects!Of(Callee)[2]].arity[Callee[3]] = Definitions[CalledCode[1]].arity[CalledCode[2]]
  /\ FunctionPtr(heap, CalledEnv, CalledCode[1], CalledCode[2])

LEMMA FunctionOf ==
  ASSUME ZInv, NEW w, NEW d, NEW k, FunctionPtr(heap, w, d, k)
  PROVE  /\ Objects!Of(ValueOf(heap, w))[2] = d /\ ValueOf(heap, w)[3] = k
         /\ ~Objects!Is(ValueOf(heap, w), "partial")
<1>1. FunctionObject(w, d, k)
  BY FunctionHeld
<1> QED
  BY <1>1 DEF FunctionObject, AnObject, Objects!Of, Objects!Is

\* A partial application, as an object
PartialObject(w, f, d, k) ==
  /\ Partial_(heap, f, d, k) /\ f \in Seq(Word) /\ f = Fields(w)
  /\ Objects!Is(ValueOf(heap, w), "partial")
  /\ Objects!Of(ValueOf(heap, w)) = ValueOf(heap, f[2])
  /\ Objects!Items(ValueOf(heap, w)) = ValuesOf(heap, Drop(f, 2))

LEMMA PartialHeld ==
  ASSUME ZInv, NEW w, ValueIn(heap, w), Is(w, Closure_tag),
         NEW d, NEW k, IsPartial(heap, Tag_val(w), Fields(w), d, k)
  PROVE  PartialObject(w, Fields(w), d, k)
<1>1. PICK f : f = Fields(w)
  OBVIOUS
<1>2. IsPtr(w) /\ Tag_val(w) = Closure_tag /\ w[2] \in 1..Len(heap) /\ f \in Seq(Word)
  BY <1>1, PtrValue DEF Is, ContentIn
<1>3. Partial_(heap, f, d, k)
  BY <1>1, <1>2, PartialParts
<1>4. f[1][1] # "code"
  BY <1>3 DEF Partial_
<1>5. ValueOf(heap, w) = <<"ref", w[2], 0>>
  BY <1>1, <1>2, <1>4 DEF ValueOf, IsPtr, Fields, Tag_val
<1>6. [b \in DOMAIN heap |-> ObjectOf(b)][w[2]] = ObjectIn(heap, Closure_tag, f)
  BY <1>1, <1>2, ObjectAt
<1>7. ObjectIn(heap, Closure_tag, f) = AnObject("partial", ValuesOf(heap, Drop(f, 2)), ValueOf(heap, f[2]))
  BY <1>4, ObjectKinds DEF ObjectCases
<1> QED
  BY <1>1, <1>2, <1>3, <1>5, <1>6, <1>7
     DEF PartialObject, AnObject, Objects!Of, Objects!Is, Objects!Items, Objects!IsInt

LEMMA CallsSame ==
  ASSUME ZInv, Is(Accu, Closure_tag), NEW n \in Nat, n <= Len(stack)
  PROVE  CallFacts(n)
<1>1. PICK args : args = SubSeq(stack, 1, n)
  OBVIOUS
<1>2. /\ args \in Seq(Word) /\ ValuesOf(heap, args) = SubSeq(Values(stack), 1, n)
      /\ Value(Accu) = ValueOf(heap, Accu)
  BY <1>1, ValuesSub, StackNow DEF StackFacts
<1>3. CASE \E d, k \in Int : FunctionPtr(heap, Accu, d, k)
  <2> PICK d \in Int, k \in Int : FunctionPtr(heap, Accu, d, k)
    BY <1>3
  <2>1. Field(Accu, 0) = Code(d, k)
    BY FunctionCode
  <2>2. ~IsRestart /\ CalledCode = <<d, k>>
    BY <2>1 DEF IsRestart, CalledCode, Code
  <2>3. CalledEnv = Accu /\ Arguments(n) = args
    BY <1>1, <2>2 DEF CalledEnv, Arguments
  <2>4. /\ Objects!Of(Value(Accu))[2] = d /\ Value(Accu)[3] = k
        /\ ~Objects!Is(Value(Accu), "partial")
    BY <1>2, FunctionOf
  <2>5. SubSeq(Values(stack), 1, n) \in Seq(Val)
    BY <1>2, ValuesType DEF ValuesFacts
  <2>6. Callee = Value(Accu) /\ AllArgs(n) = SubSeq(Values(stack), 1, n)
    BY <2>4, <2>5 DEF Callee, AllArgs
  <2> QED
    BY <1>2, <2>2, <2>3, <2>4, <2>6 DEF CallFacts
<1>4. CASE /\ Accu[3] = 0
           /\ \E d, k \in Int : IsPartial(heap, Tag_val(Accu), Fields(Accu), d, k)
  <2>1. PICK f : f = Fields(Accu)
    OBVIOUS
  <2> PICK d \in Int, k \in Int : IsPartial(heap, Tag_val(Accu), Fields(Accu), d, k)
    BY <1>4
  <2>2. PartialObject(Accu, f, d, k)
    BY <2>1, PartialHeld, WordsAlone
  <2>3. /\ f[1] = Restart(d, k) /\ FunctionPtr(heap, f[2], d, k) /\ Len(f) >= 2
        /\ f \in Seq(Word) /\ Len(f) \in Nat
    BY <2>2 DEF PartialObject, Partial_, IsPartial
  <2>4. Field(Accu, 0) = Restart(d, k) /\ Field(Accu, 1) = f[2]
    <3>1. Accu[3] + 0 + 1 = 1 /\ Accu[3] + 1 + 1 = 2
      BY <1>4
    <3> QED
      BY <2>1, <2>3, <3>1 DEF Field
  <2>5. IsRestart /\ CalledCode = <<d, k>> /\ CalledEnv = f[2]
    BY <2>4 DEF IsRestart, CalledCode, CalledEnv, Restart
  <2>6. PICK t : t = Drop(f, 2)
    OBVIOUS
  <2>7. Arguments(n) = t \o args
    <3>1. 2 + 1 = 3
      OBVIOUS
    <3>2. t = SubSeq(Fields(Accu), 3, Len(Fields(Accu)))
      BY ONLY <2>1, <2>6, <3>1 DEF Drop
    <3> QED
      BY ONLY <1>1, <2>5, <3>2 DEF Arguments, restart, Wosize
  <2>8. t \in Seq(Word)
    <3>1. DropFacts(Word, f, 2)
      BY <2>3, DropParts
    <3> QED
      BY <2>6, <3>1 DEF DropFacts
  <2>9. ValuesOf(heap, t \o args) = ValuesOf(heap, t) \o ValuesOf(heap, args)
    BY <1>2, <2>8, ValuesConcat
  <2>10. /\ Objects!Is(Value(Accu), "partial") /\ Objects!Of(Value(Accu)) = ValueOf(heap, f[2])
         /\ Objects!Items(Value(Accu)) = ValuesOf(heap, t)
    BY <1>2, <2>2, <2>6 DEF PartialObject
  <2>11. Callee = ValueOf(heap, f[2])
    BY <2>10 DEF Callee
  <2>12. AllArgs(n) = ValuesOf(heap, t \o args)
    BY <1>2, <2>9, <2>10 DEF AllArgs
  <2>13. Objects!Of(ValueOf(heap, f[2]))[2] = d /\ ValueOf(heap, f[2])[3] = k
    BY <2>3, FunctionOf
  <2>14. t \o args \in Seq(Word)
    BY <1>2, <2>8, ConcatParts
  <2> QED
    BY <2>3, <2>5, <2>7, <2>11, <2>12, <2>13, <2>14 DEF CallFacts
<1> QED
  BY <1>3, <1>4, WordsAlone, ClosureValue

\* Less arguments than the function has, those of a partial application counted
TooFew(n) == Len(AllArgs(n)) < Definitions[Objects!Of(Callee)[2]].arity[Callee[3]]

LEMMA CountsSame ==
  ASSUME ZInv, Is(Accu, Closure_tag), NEW n \in Nat, n <= Len(stack)
  PROVE  TooFew(n) <=> ~checkGrab(n)
<1>1. CallFacts(n)
  BY CallsSame
<1>2. Arguments(n) \in Seq(Word)
  BY <1>1 DEF CallFacts
<1>3. Len(AllArgs(n)) = Len(Arguments(n)) /\ Len(Arguments(n)) \in Nat
  BY <1>1, <1>2, ValuesType DEF ValuesFacts, CallFacts
<1>4. PICK a : a = Definitions[CalledCode[1]].arity[CalledCode[2]]
  OBVIOUS
<1>5. a \in Nat
  <2>1. CalledCode[1] \in DOMAIN Definitions /\ CalledCode[2] \in 1..Len(Definitions[CalledCode[1]].arity)
    BY <1>1 DEF CallFacts, FunctionPtr, IsFunctions
  <2>2. Definitions[CalledCode[1]].arity \in Seq(Nat)
    BY <2>1, DefinitionType
  <2> QED
    BY <1>4, <2>1, <2>2, Element
<1>6. TooFew(n) <=> Len(Arguments(n)) < a
  BY <1>1, <1>3, <1>4 DEF TooFew, CallFacts
<1>7. checkGrab(n) <=> Len(Arguments(n)) >= a
  BY <1>4 DEF checkGrab
<1> QED
  BY ONLY <1>3, <1>5, <1>6, <1>7

LEMMA EnterStep ==
  ASSUME ZInv, NEW n \in Nat, Enter(n)
  PROVE  Objects!Apply
<1>1. /\ inst' = <<"apply", n, 0>> /\ n <= Len(stack) /\ Is(Accu, Closure_tag) /\ checkGrab(n)
      /\ Env' = CalledEnv /\ stack' = Arguments(n)
      /\ heap' = heap /\ Accu' = Accu /\ caml_global_data' = caml_global_data
  BY HeapType DEF Enter, Runs, Holds
<1>2. CallFacts(n) /\ ~TooFew(n)
  BY <1>1, CallsSame, CountsSame
<1>3. /\ Value(Env)' = Callee /\ Values(stack)' = AllArgs(n)
      /\ Value(Accu)' = Value(Accu) /\ Values(caml_global_data)' = Values(caml_global_data)
      /\ [b \in DOMAIN heap |-> ObjectOf(b)]' = [b \in DOMAIN heap |-> ObjectOf(b)]
  BY <1>1, <1>2, MappedNow, MappedNext DEF Mapped, CallFacts
<1> QED
  BY <1>1, <1>2, <1>3 DEF Objects!Apply, Objects!Name, Objects!A, TooFew, Callee, AllArgs

LEMMA RestartStep ==
  ASSUME ZInv, ZInv', NEW n \in Nat, createRestartClosure(n)
  PROVE  Objects!Apply
<1>1. /\ inst' = <<"apply", n, 0>> /\ n <= Len(stack) /\ Is(Accu, Closure_tag) /\ ~checkGrab(n)
      /\ Alloc(Closure_tag, PartialBlock(n), Drop(stack, n))
  BY HeapType DEF createRestartClosure, Runs, Holds, PartialBlock
<1>2. CallFacts(n) /\ TooFew(n)
  BY <1>1, CallsSame, CountsSame
<1>3. PICK f : f = PartialBlock(n)
  OBVIOUS
<1>4. ContentIn(heap, Closure_tag, f) /\ f[1][1] # "code" /\ f[2] = CalledEnv
  BY <1>1, <1>3, PartialMade
<1>5. PICK rest : rest = Drop(stack, n)
  OBVIOUS
<1>6. ValuesIn(heap, rest) /\ ValuesOf(heap, rest) = Objects!After(n)
  BY <1>1, <1>5, WordsAlone, DropValues, AfterWords
<1>7. MakesRef(Closure_tag, f, rest)
  BY <1>1, <1>3, <1>4, <1>5, <1>6 DEF MakesRef
<1>8. Objects!Makes(ObjectIn(heap, Closure_tag, f), Objects!NewRef, ValuesOf(heap, rest))
  BY <1>7, MakesRefStep
<1>9. Drop(f, 2) = Arguments(n)
  <2>1. PICK pair : pair = <<Restart(CalledCode[1], CalledCode[2]), CalledEnv>>
    OBVIOUS
  <2>2. Len(pair) = 2 /\ pair \in Seq(Word) /\ Arguments(n) \in Seq(Word)
    BY <1>1, <1>2, <2>1, PartialMade DEF CallFacts
  <2>3. Drop(pair \o Arguments(n), Len(pair)) = Arguments(n)
    BY <2>2, DropConcat
  <2> QED
    BY <1>3, <2>1, <2>2, <2>3 DEF PartialBlock
<1>10. ObjectIn(heap, Closure_tag, f) = AnObject("partial", ValuesOf(heap, Drop(f, 2)), ValueOf(heap, f[2]))
  BY <1>4, ObjectKinds DEF ObjectCases
<1>11. ObjectIn(heap, Closure_tag, f) = Objects!Object("partial", AllArgs(n), Callee)
  BY <1>2, <1>4, <1>9, <1>10 DEF AnObject, Objects!Object, CallFacts
<1>12. Objects!Makes(Objects!Object("partial", AllArgs(n), Callee), Objects!NewRef, Objects!After(n))
  BY ONLY <1>6, <1>8, <1>11
<1> QED
  BY <1>1, <1>2, <1>12 DEF Objects!Apply, Objects!Name, Objects!A, TooFew, Callee, AllArgs

-----------------------------------------------------------------------------
(* Block 1 stays the only one without fields and with tag 0: an instruction
   that makes a block of values has at least one. *)
Atoms == \A b \in 1..Len(heap) : (heap[b].tag = 0 /\ Len(heap[b].fields) = 0) <=> b = 1

LEMMA AtomsStart == Init => Atoms
<1> SUFFICES ASSUME Init PROVE Atoms
  OBVIOUS
<1>1. heap = Literals /\ HeapIn(heap)
  BY InitKeeps DEF Init, ZInv
<1>2. DOMAIN Literals = 1..Len(Literals)
  BY <1>1 DEF HeapIn
<1>3. ASSUME NEW b \in 1..Len(heap)
      PROVE  (heap[b].tag = 0 /\ Len(heap[b].fields) = 0) <=> b = 1
  <2>1. b = 1 <=> Literals[b] = [tag |-> 0, fields |-> <<>>]
    BY <1>1, <1>2, LiteralsAssumption
  <2>2. heap[b] \in [tag : Nat, fields : Seq(Word)]
    BY <1>1, Element DEF HeapIn
  <2>3. Len(heap[b].fields) = 0 <=> heap[b].fields = <<>>
    BY <2>2
  <2> QED
    BY <1>1, <2>1, <2>2, <2>3
<1> QED
  BY <1>3 DEF Atoms

LEMMA AtomsAlloc ==
  ASSUME ZInv, ZInv', Atoms, NEW tag, NEW fields, NEW rest, Alloc(tag, fields, rest),
         tag # 0 \/ Len(fields) # 0
  PROVE  Atoms'
<1>1. /\ Len(heap') = Len(heap) + 1 /\ Len(heap) \in Nat /\ Len(heap) >= 2
      /\ heap'[Len(heap) + 1] = [tag |-> tag, fields |-> fields]
      /\ \A b \in 1..Len(heap) : heap'[b] = heap[b]
  BY AllocAppends, AppendParts, HeapType
<1>2. ASSUME NEW b \in 1..Len(heap')
      PROVE  (heap'[b].tag = 0 /\ Len(heap'[b].fields) = 0) <=> b = 1
  <2>1. CASE b \in 1..Len(heap)
    BY <1>1, <2>1 DEF Atoms
  <2>2. CASE b = Len(heap) + 1
    BY <1>1, <2>2
  <2> QED
    BY <1>1, <2>1, <2>2
<1> QED
  BY <1>2 DEF Atoms

LEMMA AtomsStore ==
  ASSUME ZInv, ZInv', Atoms, NEW i, NEW words, NEW rest, Store(i, words, rest)
  PROVE  Atoms'
<1>1. PICK f : f = Written(Fields(Accu), i, words)
  OBVIOUS
<1>2. heap' = [heap EXCEPT ![Accu[2]].fields = f] /\ DOMAIN f = DOMAIN heap[Accu[2]].fields
  BY <1>1 DEF Store, Written, Fields
<1>3. heap \in Heap /\ heap' \in Heap /\ DOMAIN heap' = DOMAIN heap
  BY <1>2 DEF ZInv, HeapIn, Heap
<1>4. Len(heap') = Len(heap) /\ DOMAIN heap = 1..Len(heap) /\ Len(heap) \in Nat
  BY <1>3 DEF Heap
<1>5. ASSUME NEW b \in 1..Len(heap)
      PROVE  heap'[b].tag = heap[b].tag /\ Len(heap'[b].fields) = Len(heap[b].fields)
  <2>1. heap[b] \in [tag : Nat, fields : Seq(Word)] /\ heap'[b] \in [tag : Nat, fields : Seq(Word)]
    BY <1>3, <1>4, Element DEF Heap
  <2>2. heap'[b].tag = heap[b].tag /\ DOMAIN heap'[b].fields = DOMAIN heap[b].fields
    BY <1>2, <1>4, <2>1
  <2>3. PICK s, t : s = heap'[b].fields /\ t = heap[b].fields
    OBVIOUS
  <2>4. s \in Seq(Word) /\ t \in Seq(Word) /\ DOMAIN s = DOMAIN t
    BY <2>1, <2>2, <2>3
  <2>5. Len(s) = Len(t)
    BY ONLY <2>4
  <2> QED
    BY <2>2, <2>3, <2>5
<1> QED
  BY <1>4, <1>5 DEF Atoms

LEMMA AtomStep ==
  ASSUME ZInv, Atoms, getAtom
  PROVE  Objects!Block
<1>1. Read(Ptr(1, 0), stack) /\ inst' = <<"atom", 0, 0>>
  BY DEF getAtom, Runs
<1>2. PICK o : o = [b \in DOMAIN heap |-> ObjectOf(b)]
  OBVIOUS
<1>3. DOMAIN o = 1..Len(heap) /\ 1 \in 1..Len(heap)
  BY <1>2, HeapType
<1>4. ASSUME NEW b \in 1..Len(heap)
      PROVE  o[b] = Objects!Plain("block", <<>>) <=> b = 1
  <2>1. PICK t, f : t = heap[b].tag /\ f = heap[b].fields
    OBVIOUS
  <2>2. o[b] = ObjectIn(heap, t, f)
    BY <1>2, <2>1, HeapType, MappedNow DEF Mapped, ObjectsIn
  <2>3. t \in Nat /\ f \in Seq(Word)
    BY <2>1 DEF ZInv, HeapIn, ContentIn
  <2>4. Objects!Plain("block", <<>>) = AnObject("block", <<>>, Val_long(0))
    BY DEF Objects!Plain, Objects!Object, Objects!UnitValue, Objects!IntValue, AnObject, Val_long
  <2>5. CASE t \in {Double_tag, Double_array_tag, String_tag, Closure_tag}
    <3>1. o[b].kind # "block"
      BY <2>2, <2>5, ObjectKinds DEF ObjectCases, AnObject
    <3>2. t # 0
      BY <2>5 DEF Double_tag, Double_array_tag, String_tag, Closure_tag
    <3> QED
      BY <2>1, <2>4, <3>1, <3>2 DEF AnObject, Atoms
  <2>6. CASE t \notin {Double_tag, Double_array_tag, String_tag, Closure_tag}
    <3>1. o[b] = AnObject("block", ValuesOf(heap, f), Val_long(t))
      BY <2>2, <2>6, ObjectKinds DEF ObjectCases
    <3>2. ValuesFacts(heap, f)
      BY <2>3, ValuesType
    <3>3. PICK v : v = ValuesOf(heap, f)
      OBVIOUS
    <3>4. v = <<>> <=> Len(f) = 0
      <4>1. v \in Seq(Val) /\ Len(v) = Len(f)
        BY <3>2, <3>3 DEF ValuesFacts
      <4> QED
        BY ONLY <4>1
    <3>5. AnObject("block", v, Val_long(t)) = AnObject("block", <<>>, Val_long(0)) <=> v = <<>> /\ t = 0
      BY DEF AnObject, Val_long
    <3> QED
      BY <2>1, <2>4, <3>1, <3>3, <3>4, <3>5 DEF Atoms
  <2> QED
    BY <2>5, <2>6
<1>5. (CHOOSE b \in DOMAIN o : o[b] = Objects!Plain("block", <<>>)) = 1
  BY <1>3, <1>4
<1>6. ValueOf(heap, Ptr(1, 0)) = Objects!Ref(1)
  <2>1. heap[1].tag # Closure_tag
    BY <1>3 DEF Atoms, Closure_tag
  <2> QED
    BY <2>1 DEF ValueOf, Ptr, Objects!Ref
<1>7. Objects!Reads(Objects!Ref(1), Values(stack))
  BY <1>1, <1>6, ReadStep, StackNow DEF StackFacts
<1>8. Objects!Reads(Objects!Ref(CHOOSE b \in DOMAIN o : o[b] = Objects!Plain("block", <<>>)), Values(stack))
  BY ONLY <1>5, <1>7
<1> QED
  BY <1>1, <1>2, <1>8 DEF Objects!Block, Objects!Name

LEMMA AtomsInductive ==
  ASSUME ZInv, ZInv', Atoms, [Next]_vars
  PROVE  Atoms'
<1>1. ASSUME heap' = heap PROVE Atoms'
  BY <1>1 DEF Atoms
<1>2. ASSUME NEW w, NEW rest, Read(w, rest) PROVE Atoms'
  BY <1>1, <1>2 DEF Read
<1>3. CASE push \/ isInt \/ boolNot \/ getAtom \/ vectLength \/ getVectItem \/ getMethod \/ getStringChar
  BY <1>2, <1>3 DEF push, isInt, boolNot, getAtom, vectLength, getVectItem, getMethod, getStringChar
<1>4. CASE setVectItem \/ setStringChar
  BY <1>4, AtomsStore DEF setVectItem, setStringChar
<1>5. \A tag \in {Closure_tag, Double_tag, Double_array_tag} : tag # 0
  BY DEF Closure_tag, Double_tag, Double_array_tag
<1>6. CASE BoxFloat
  BY <1>5, <1>6, AtomsAlloc DEF BoxFloat
<1>7. ASSUME NEW n \in Consts, constInt(n) \/ offsetRef(n) PROVE Atoms'
  BY <1>2, <1>7, AtomsStore DEF constInt, offsetRef
<1>8. ASSUME NEW d \in DOMAIN Definitions, closure(d) \/ closureRec(d) PROVE Atoms'
  BY <1>5, <1>8, AtomsAlloc DEF closure, closureRec
<1>9. ASSUME NEW n \in Sizes,
             \/ acc(n) \/ assign(n) \/ getField(n) \/ setField(n)
             \/ getDoubleField(n) \/ storeDoubleField(n)
      PROVE  Atoms'
  <2>1. CASE acc(n) \/ assign(n) \/ getField(n)
    BY <1>2, <2>1 DEF acc, assign, getField
  <2>2. CASE setField(n) \/ storeDoubleField(n)
    BY <2>2, AtomsStore DEF setField, storeDoubleField
  <2>3. CASE getDoubleField(n)
    BY <1>5, <2>3, AtomsAlloc DEF getDoubleField
  <2> QED
    BY <1>9, <2>1, <2>2, <2>3
<1>10. ASSUME NEW n \in Sizes \ {0},
              \/ pop(n) \/ envAcc(n) \/ offsetClosure(n)
              \/ Enter(n) \/ createRestartClosure(n)
              \/ makeFloatBlock(n) \/ c_call(n)
              \/ \E tag \in Tags : makeBlock(tag, n)
       PROVE  Atoms'
  <2>1. CASE pop(n) \/ envAcc(n) \/ offsetClosure(n) \/ Enter(n)
    BY <1>1, <1>2, <2>1 DEF pop, envAcc, offsetClosure, Enter
  <2>2. CASE createRestartClosure(n) \/ makeFloatBlock(n)
    BY <1>5, <2>2, AtomsAlloc DEF createRestartClosure, makeFloatBlock
  <2>3. ASSUME NEW tag,
               Alloc(tag, <<Accu>> \o SubSeq(stack, 1, n - 1), Drop(stack, n - 1)), Holds(n - 1)
        PROVE  Atoms'
    <3>1. n \in Nat /\ n >= 1 /\ n - 1 <= Len(stack)
      BY <2>3, BoundsAssumption, HeapType DEF Sizes, Holds
    <3>2. PICK t : t = SubSeq(stack, 1, n - 1)
      OBVIOUS
    <3>3. PICK u : u = <<Accu>>
      OBVIOUS
    <3>4. t \in Seq(Word) /\ u \in Seq(Word) /\ Len(u) = 1
      BY <3>1, <3>2, <3>3, StackNow DEF StackFacts
    <3>5. Len(u \o t) = Len(u) + Len(t) /\ Len(t) \in Nat
      BY ONLY <3>4, ConcatParts
    <3>6. Len(u \o t) # 0
      BY ONLY <3>4, <3>5
    <3> QED
      BY <2>3, <3>2, <3>3, <3>6, AtomsAlloc
  <2>4. CASE c_call(n)
    <3>1. n \in Nat /\ n >= 1 /\ n - 1 <= Len(stack)
      BY <2>4, BoundsAssumption, HeapType DEF Sizes, c_call, Holds
    <3> QED
      BY <2>3, <2>4, <3>1, PrimArgsAre DEF c_call
  <2>5. CASE \E tag \in Tags : makeBlock(tag, n)
    BY <2>3, <2>5 DEF makeBlock
  <2> QED
    BY <1>10, <2>1, <2>2, <2>4, <2>5
<1>11. ASSUME NEW g \in DOMAIN caml_global_data,
              getGlobal(g) \/ setGlobal(g) \/ \E i \in Sizes : getGlobalField(g, i)
       PROVE  Atoms'
  BY <1>1, <1>2, <1>11 DEF getGlobal, setGlobal, getGlobalField
<1>12. CASE UNCHANGED vars
  BY <1>1, <1>12 DEF vars
<1> QED
  BY <1>3, <1>4, <1>6, <1>7, <1>8, <1>9, <1>10, <1>11, <1>12 DEF Next

LEMMA StepRefined ==
  ASSUME ZInv, ZInv', Atoms, Next
  PROVE  Objects!Next
<1>1. CASE push \/ isInt \/ boolNot
  BY <1>1, PushStep, IsIntStep, BoolNotStep DEF Objects!Next
<1>2. CASE getAtom \/ vectLength \/ getVectItem \/ setVectItem \/ getMethod
  BY <1>2, AtomStep, VectLengthStep, GetVectItemStep, SetVectItemStep, GetMethodStep DEF Objects!Next
<1>3. CASE getStringChar \/ setStringChar
  BY <1>3, GetStringCharStep, SetStringCharStep DEF Objects!Next
<1>4. CASE BoxFloat
  BY <1>4, BoxFloatStep DEF Objects!Next
<1>5. ASSUME NEW n \in Consts, constInt(n) \/ offsetRef(n) PROVE Objects!Next
  BY <1>5, ConstIntStep, OffsetRefStep DEF Objects!Next
<1>6. ASSUME NEW d \in DOMAIN Definitions, closure(d) \/ closureRec(d) PROVE Objects!Next
  BY <1>6, ClosureStep, ClosureRecStep DEF Objects!Next
<1>7. ASSUME NEW n \in Sizes,
             \/ acc(n) \/ assign(n) \/ getField(n) \/ setField(n)
             \/ getDoubleField(n) \/ storeDoubleField(n)
      PROVE  Objects!Next
  <2>1. n \in Nat
    BY BoundsAssumption DEF Sizes
  <2> QED
    BY <1>7, <2>1, AccStep, AssignStep, GetFieldStep, SetFieldStep, GetDoubleFieldStep,
       StoreDoubleFieldStep DEF Objects!Next
<1>8. ASSUME NEW n \in Sizes \ {0},
             \/ pop(n) \/ envAcc(n) \/ offsetClosure(n)
             \/ Enter(n) \/ createRestartClosure(n)
             \/ makeFloatBlock(n) \/ c_call(n)
             \/ \E tag \in Tags : makeBlock(tag, n)
      PROVE  Objects!Next
  <2>1. n \in Nat /\ n >= 1
    BY BoundsAssumption DEF Sizes
  <2>2. CASE pop(n) \/ envAcc(n) \/ offsetClosure(n)
    BY <2>1, <2>2, PopStep, EnvAccStep, OffsetClosureStep DEF Objects!Next
  <2>3. CASE Enter(n) \/ createRestartClosure(n)
    BY <2>1, <2>3, EnterStep, RestartStep DEF Objects!Next
  <2>4. CASE makeFloatBlock(n) \/ c_call(n)
    BY <2>1, <2>4, MakeFloatBlockStep, CCallStep DEF Objects!Next
  <2>5. CASE \E tag \in Tags : makeBlock(tag, n)
    BY <2>1, <2>5, MakeBlockStep DEF Objects!Next
  <2> QED
    BY <1>8, <2>2, <2>3, <2>4, <2>5
<1>9. ASSUME NEW g \in DOMAIN caml_global_data,
             getGlobal(g) \/ setGlobal(g) \/ \E i \in Sizes : getGlobalField(g, i)
      PROVE  Objects!Next
  <2>1. \A i \in Sizes : i \in Nat
    BY BoundsAssumption DEF Sizes
  <2> QED
    BY <1>9, <2>1, GetGlobalStep, SetGlobalStep, GetGlobalFieldStep DEF Objects!Next
<1> QED
  BY <1>1, <1>2, <1>3, <1>4, <1>5, <1>6, <1>7, <1>8, <1>9 DEF Next

ObjectVars ==
  <<inst, [b \in DOMAIN heap |-> ObjectOf(b)], Value(Accu), Value(Env), Values(stack),
    Values(caml_global_data)>>

LEMMA StutterRefined ==
  ASSUME UNCHANGED vars
  PROVE  UNCHANGED ObjectVars
<1>1. /\ inst' = inst /\ heap' = heap /\ Accu' = Accu /\ Env' = Env /\ stack' = stack
      /\ caml_global_data' = caml_global_data
  BY DEF vars
<1> QED
  BY <1>1, MappedNow, MappedNext DEF ObjectVars, Mapped

LEMMA StartRefined == Init => Objects!Init
<1> SUFFICES ASSUME Init PROVE Objects!Init
  OBVIOUS
<1>1. heap = Literals /\ HeapIn(heap) /\ ZInv
  BY InitKeeps DEF Init, ZInv
<1>2. Value(Env) = Objects!UnitValue
  BY MappedNow, UnitOfWord DEF Init, Mapped
<1>3. ASSUME NEW n \in DOMAIN Values(stack) PROVE Objects!IsInt(Values(stack)[n])
  <2>1. n \in 1..Locals /\ Values(stack)[n] = ValueOf(heap, stack[n])
    BY MappedNow DEF Init, Mapped, ValuesOf
  <2>2. stack[n] = Val_long(n - 1)
    BY <2>1 DEF Init
  <2> QED
    BY <2>1, <2>2, IntegerOfWord DEF Objects!IsInt, Objects!IntValue
<1>4. PICK o : o = [b \in DOMAIN heap |-> ObjectOf(b)]
  OBVIOUS
<1>5. ASSUME NEW b \in DOMAIN o PROVE o[b].kind \in {"block", "float", "floats", "string"}
  <2>1. PICK t, f : t = heap[b].tag /\ f = heap[b].fields
    OBVIOUS
  <2>2. o[b] = ObjectIn(heap, t, f)
    BY <1>4, <2>1, MappedNow DEF Mapped, ObjectsIn
  <2>3. t # Closure_tag
    BY <1>1, <1>4, <2>1, LiteralsAssumption
  <2> QED
    BY <2>2, <2>3, ObjectKinds DEF ObjectCases, AnObject
<1> QED
  BY <1>2, <1>3, <1>4, <1>5 DEF Objects!Init

(* The words of blocks, infix headers, operands counted from the middle of a
   block and arguments stored and put back behave as OCamlObjects says, whatever
   the definitions, programs and sizes: every instruction of the runtime does to
   the values what it means for an OCaml program. *)
THEOREM ObjectsImplemented == Spec => RefinesOCamlObjects
<1>1. Spec => [](ZInv /\ Atoms)
  <2>1. Init => ZInv /\ Atoms
    BY InitKeeps, AtomsStart
  <2>2. ZInv /\ Atoms /\ [Next]_vars => (ZInv /\ Atoms)'
    BY ZInvInductive, AtomsInductive
  <2> QED
    BY <2>1, <2>2, PTL DEF Spec
<1>2. ZInv /\ ZInv' /\ Atoms /\ [Next]_vars => [Objects!Next]_ObjectVars
  BY StepRefined, StutterRefined
<1>3. Spec => Objects!Init /\ [][Objects!Next]_ObjectVars
  BY <1>1, <1>2, StartRefined, PTL DEF Spec
<1> QED
  BY <1>3, PTL DEF RefinesOCamlObjects, Objects!Spec, ObjectVars
=============================================================================
