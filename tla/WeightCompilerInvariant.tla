---------------------- MODULE WeightCompilerInvariant ----------------------
(***************************************************************************)
(* The inductive invariant of WeightCompiler, checked by TLC and proved in *)
(* WeightCompilerProofs.                                                   *)
(***************************************************************************)
EXTENDS WeightCompiler

\* The parameters that are compiled, and which of them are encrypted plainly.
Done == {network.state_dict[i] : i \in 1..(Len(network.state_dict) - Len(todo))}
Plainly(p) == IsBoundary(p) \/ ~IsObfuscable(p)

\* What the compiler makes of a parameter.
Square(p) == <<p.shape[1], p.shape[1]>>
Ciphertext(p) ==
  Encrypt(Matrix(p.shape), p.shape, p.dtype, <<p.name, p.shape, p.dtype>>)
Obfuscated(p, seeds) ==
  Encrypt(Scramble(p, seeds[<<p.name, "out">>], seeds[<<p.name, "in">>]), p.shape,
          Scaled(p.dtype), <<p.name, p.shape, p.dtype>>)
MixerTensor(p) ==
  Encrypt(<<>>, Square(p), "float32", <<MixerOf(p.name), Square(p), "float32">>)

\* todo is the rest of the state_dict.
TodoIsTheRest ==
  /\ todo \in Seq(Parameter) /\ Len(todo) <= Len(network.state_dict)
  /\ \A i \in 1..Len(todo) :
       todo[i] = network.state_dict[Len(network.state_dict) - Len(todo) + i]

\* Each parameter that is compiled is in the dictionary that it belongs to.
EncryptedInv ==
  /\ DOMAIN encrypted_layers = {p.name : p \in {q \in Done : Plainly(q)}}
  /\ \A p \in Done : Plainly(p) => encrypted_layers[p.name] = Ciphertext(p)

ObfuscatedInv ==
  /\ DOMAIN obfuscated_layers = {p.name : p \in {q \in Done : ~Plainly(q)}}
  /\ DOMAIN mixers = {MixerOf(n) : n \in DOMAIN obfuscated_layers}
  /\ \A p \in Done : ~Plainly(p) =>
       /\ {<<p.name, "out">>, <<p.name, "in">>} \subseteq DOMAIN prng
       /\ prng[<<p.name, "out">>] \in Bijection(UpTo(p.shape[1]), UpTo(p.shape[1]))
       /\ prng[<<p.name, "in">>] \in Bijection(UpTo(p.shape[2]), UpTo(p.shape[2]))
       /\ obfuscated_layers[p.name] = Obfuscated(p, prng)
       /\ mixers[MixerOf(p.name)] = MixerTensor(p)

\* Numbers, of which one is the largest.
AreSizes(dict) ==
  /\ \A n \in DOMAIN dict : dict[n] \in Nat
  /\ DOMAIN dict # {} => \E big \in DOMAIN dict : \A n \in DOMAIN dict : dict[n] <= dict[big]

\* The metadata has the size of everything that was compiled.
SizesInv ==
  /\ DOMAIN layer_sizes =
       DOMAIN encrypted_layers \cup DOMAIN obfuscated_layers \cup DOMAIN mixers
  /\ \A p \in Done :
       layer_sizes[p.name] = NumBytes(p.shape, IF Plainly(p) THEN p.dtype ELSE Scaled(p.dtype))
  /\ \A p \in Done : ~Plainly(p) =>
       layer_sizes[MixerOf(p.name)] = NumBytes(Square(p), "float32")
  /\ AreSizes(layer_sizes)
  /\ max_layer_size_bytes \in Nat
  /\ todo = <<>> => \A n \in DOMAIN layer_sizes : layer_sizes[n] <= max_layer_size_bytes

-----------------------------------------------------------------------------
\* The record that the wrapper makes of a module.
BiasOf(m) == Lookup(encrypted_layers, <<m, "bias">>)
CryptoLayer(m) ==
  [kind |-> "crypto", weight |-> encrypted_layers[<<m, "weight">>], bias |-> BiasOf(m),
   mixer |-> Absent]
ObfuscatedLayer(m) ==
  [kind |-> "obfuscated", weight |-> obfuscated_layers[<<m, "weight">>], bias |-> BiasOf(m),
   mixer |-> IF use_mixers THEN mixers[MixerOf(<<m, "weight">>)] ELSE Absent]

\* A module that was visited is wrapped, and its parameters are not in it.
WrapInv ==
  /\ named_modules \subseteq DOMAIN network.modules
  /\ todo # <<>> => named_modules = DOMAIN network.modules /\ stage = "idle"
  /\ parameters \subseteq Names
  /\ DOMAIN wrapped =
       {m \in DOMAIN network.modules \ named_modules : network.modules[m] \in Wrappable}
  /\ \A m \in DOMAIN wrapped :
       /\ <<m, "weight">> \notin parameters /\ <<m, "bias">> \notin parameters
       /\ \/ <<m, "weight">> \in DOMAIN encrypted_layers /\ wrapped[m] = CryptoLayer(m)
          \/ <<m, "weight">> \in DOMAIN obfuscated_layers /\ wrapped[m] = ObfuscatedLayer(m)

-----------------------------------------------------------------------------
\* What an input and an output of a Linear are, from PreHook to PostHook.
HookedInput(m) ==
  [i \in UpTo(wrapped[m].weight.shape[2]) |->
     IF wrapped[m].kind = "obfuscated"
     THEN [x |-> prng[<<<<m, "weight">>, "in">>][i], scale |-> Times(One, "in", i, -1)]
     ELSE [x |-> i, scale |-> One]]
Term(i, w, scale) == [x |-> i, w |-> w, scale |-> scale]
RawOutput(m) ==
  LET shape == wrapped[m].weight.shape
      weight == <<m, "weight">>
  IN
  [o \in UpTo(shape[1]) |->
     [sum |-> IF wrapped[m].kind = "obfuscated"
              THEN {Term(i, <<prng[<<weight, "out">>][o], i>>, Times(One, "out", o, 1)) :
                    i \in UpTo(shape[2])}
              ELSE {Term(i, <<o, i>>, One) : i \in UpTo(shape[2])},
      bias |-> IF wrapped[m].kind = "crypto" /\ <<m, "bias">> \in Names THEN {o} ELSE {}]]

ForwardInv ==
  /\ stage \in {"idle", "forward", "post", "returned", "mixed", "raised"}
  /\ stage # "idle" => named_modules = {} /\ module \in DOMAIN wrapped
  /\ stage = "forward" /\ IsLinear(module) => x = HookedInput(module)
  /\ stage = "post" /\ IsLinear(module) => output = RawOutput(module)
  /\ WrappedLayerComputesTheSame

IInv ==
  /\ network \in Networks /\ use_mixers \in BOOLEAN
  /\ TodoIsTheRest
  /\ EncryptedInv
  /\ ObfuscatedInv
  /\ SizesInv
  /\ WrapInv
  /\ ForwardInv

-----------------------------------------------------------------------------
\* numpy gives the product of a float16 matrix and the float32 scales the
\* type float32, and the additional data has the type of the matrix.
NoHalfPrecision ==
  \A net \in Networks : \A i \in DOMAIN net.state_dict : net.state_dict[i].dtype # "float16"
=============================================================================
