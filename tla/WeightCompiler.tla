--------------------------- MODULE WeightCompiler ---------------------------
(***************************************************************************)
(* compile_model_weights (python/vajraa/compiler.py), secure_wrap_model    *)
(* and the arithmetic of its hooks (python/vajraa/pytorch_wrapper.py).     *)
(* Module ForwardHooks has the other half of the hooks, the leases.        *)
(*                                                                         *)
(* A parameter is named by its layer and its own name in it.  Numbers are  *)
(* symbolic: an element of a secured matrix is an element of the weight    *)
(* times scales, each to some power; an element of an output is the set of *)
(* the products that were summed up, and the bias that was added.          *)
(***************************************************************************)
EXTENDS Sizes

CONSTANTS
  Networks,    \* state_dict, in its order, and the kind of each module
  StartsWith,  \* <<n, m>>: the name n starts with the first component of m
  MentionsWeight, \* the names of parameters that contain "weight"
  Channels     \* indices of the features

Parameter ==
  [name : STRING \X STRING, shape : Seq(Nat), dtype : {"float16", "float32", "float64"}]
Wrappable == {"Linear", "Conv2d"}

\* f"mixer_{name}"
MixerOf(name) == <<name[1], name[2], "mixer">>

\* What torch makes of a module: the names of a state_dict are its keys, a
\* Linear or Conv2d has a weight and perhaps a bias, a vector, and a mixer's
\* key is none of a parameter's.
IsNetwork(net) ==
  LET dict == net.state_dict IN
  /\ dict \in Seq(Parameter)
  /\ \A i, j \in DOMAIN dict : dict[i].name = dict[j].name => i = j
  /\ \A i, j \in DOMAIN dict : MixerOf(dict[i].name) # dict[j].name
  /\ \A i \in DOMAIN dict : dict[i].name[2] = "weight" => dict[i].name \in MentionsWeight
  /\ \A i \in DOMAIN dict : Len(dict[i].shape) = 2 =>
       UpTo(dict[i].shape[1]) \cup UpTo(dict[i].shape[2]) \subseteq Channels
  /\ \A m \in DOMAIN net.modules : net.modules[m] \in Wrappable =>
       /\ \E i \in DOMAIN dict : dict[i].name = <<m, "weight">>
       /\ \A i \in DOMAIN dict : dict[i].name[1] = m => dict[i].name[2] \in {"weight", "bias"}
       /\ \A i \in DOMAIN dict : dict[i].name = <<m, "bias">> => Len(dict[i].shape) = 1

ASSUME NetworkAssumption == \A net \in Networks : IsNetwork(net)

VARIABLES
  network,     \* the model and its state_dict
  prng,        \* the permutations that default_rng gave, by seed
  use_mixers,  \* the caller keeps compiled_model["mixers"]
  todo,        \* parameters that are not compiled yet
  encrypted_layers, obfuscated_layers, mixers, layer_sizes,
  max_layer_size_bytes,
  named_modules, \* modules that are not wrapped yet
  parameters,  \* parameters that are in the modules in the clear
  wrapped,     \* _enc_weight, _enc_bias and _enc_mixer of each wrapped module
  stage, module, x, output   \* the forward pass

compiled == <<encrypted_layers, obfuscated_layers, mixers, layer_sizes, max_layer_size_bytes>>
modules == <<named_modules, parameters, wrapped>>
forward == <<stage, module, x, output>>
vars == <<network, prng, use_mixers, todo, compiled, modules, forward>>

\* dict[name] = value
Put(dict, name, value) ==
  [n \in DOMAIN dict \cup {name} |-> IF n = name THEN value ELSE dict[n]]

\* Powers of the scales: none, and one more or less of one.
One == [s \in {"out", "in"} \X Channels |-> 0]
Times(scale, side, channel, power) == [scale EXCEPT ![<<side, channel>>] = @ + power]
Product(a, b) == [s \in DOMAIN a |-> a[s] + b[s]]

\* A matrix in the clear, element by element.
Matrix(shape) ==
  IF Len(shape) # 2 THEN <<>>
  ELSE [e \in UpTo(shape[1]) \X UpTo(shape[2]) |-> [w |-> e, scale |-> One]]

\* encrypt_tensor: contents, and the data that the tag covers as well.
Encrypt(contents, shape, dtype, aad) ==
  [contents |-> contents, shape |-> shape, dtype |-> dtype, aad |-> aad]

Names == {network.state_dict[i].name : i \in DOMAIN network.state_dict}
IsObfuscable(p) == Len(p.shape) = 2 /\ p.name \in MentionsWeight

-----------------------------------------------------------------------------
(* compile_model_weights                                                   *)

\* The first and the last layer of the state_dict.
IsBoundary(p) ==
  LET dict == network.state_dict
      Near(q) == <<p.name[1], q.name[1]>> \in StartsWith
  IN Near(Head(dict)) \/ Near(Last(dict))

\* Mutant of EncryptParameter: the size is not recorded.
EncryptUncounted(p) ==
  /\ IsBoundary(p) \/ ~IsObfuscable(p)
  /\ encrypted_layers' =
       Put(encrypted_layers, p.name,
           Encrypt(Matrix(p.shape), p.shape, p.dtype, <<p.name, p.shape, p.dtype>>))
  /\ UNCHANGED <<prng, obfuscated_layers, mixers, layer_sizes>>

\* Mutant of EncryptParameter: the dictionary is begun anew.
EncryptAnew(p) ==
  /\ IsBoundary(p) \/ ~IsObfuscable(p)
  /\ encrypted_layers' =
       Put(<<>>, p.name, Encrypt(Matrix(p.shape), p.shape, p.dtype, <<p.name, p.shape, p.dtype>>))
  /\ layer_sizes' = Put(layer_sizes, p.name, NumBytes(p.shape, p.dtype))
  /\ UNCHANGED <<prng, obfuscated_layers, mixers>>

\* Boundary layers, biases, and whatever is not a matrix.
EncryptParameter(p) ==
  /\ IsBoundary(p) \/ ~IsObfuscable(p)
  /\ encrypted_layers' =
       Put(encrypted_layers, p.name,
           Encrypt(Matrix(p.shape), p.shape, p.dtype, <<p.name, p.shape, p.dtype>>))
  /\ layer_sizes' = Put(layer_sizes, p.name, NumBytes(p.shape, p.dtype))
  /\ UNCHANGED <<prng, obfuscated_layers, mixers>>

\* derive_permutation_and_scales, with the name of the weight and the side as
\* seed, gives any permutation, and the same one for the same seed.
Derive(p) ==
  \E p_out \in Bijection(UpTo(p.shape[1]), UpTo(p.shape[1])),
     p_in \in Bijection(UpTo(p.shape[2]), UpTo(p.shape[2])) :
    prng' = Put(Put(prng, <<p.name, "in">>, p_in), <<p.name, "out">>, p_out)

\* D_out * W[P_out, P_in] * D_in
Scramble(p, p_out, p_in) ==
  [e \in DOMAIN Matrix(p.shape) |->
     [w |-> <<p_out[e[1]], p_in[e[2]]>>,
      scale |-> Times(Times(One, "out", e[1], 1), "in", e[2], 1)]]

\* The product of a float16 array and the float32 scales is float32.
Scaled(dtype) == IF dtype = "float16" THEN "float32" ELSE dtype

\* A weight matrix in between, and its mixer.
Obfuscate(p) ==
  LET scaled == Scaled(p.dtype)
      square == <<p.shape[1], p.shape[1]>>
      mixer == MixerOf(p.name)
  IN
  /\ ~IsBoundary(p) /\ IsObfuscable(p)
  /\ Derive(p)
  /\ obfuscated_layers' =
       Put(obfuscated_layers, p.name,
           Encrypt(Scramble(p, prng'[<<p.name, "out">>], prng'[<<p.name, "in">>]), p.shape, scaled,
                   <<p.name, p.shape, p.dtype>>))
  /\ mixers' =
       Put(mixers, mixer, Encrypt(<<>>, square, "float32", <<mixer, square, "float32">>))
  /\ layer_sizes' =
       Put(Put(layer_sizes, mixer, NumBytes(square, "float32")), p.name, NumBytes(p.shape, scaled))
  /\ UNCHANGED encrypted_layers

\* compile_model_weights has returned once todo is empty.  An empty
\* state_dict is returned at once.
CompileParameter ==
  /\ todo # <<>>
  /\ EncryptParameter(Head(todo)) \/ Obfuscate(Head(todo))
  /\ todo' = Tail(todo)
  /\ max_layer_size_bytes' =
       IF todo' = <<>> THEN Max({layer_sizes'[n] : n \in DOMAIN layer_sizes'}) ELSE 0
  /\ UNCHANGED <<network, use_mixers, modules, forward>>

-----------------------------------------------------------------------------
(* secure_wrap_model                                                       *)

Absent == [aad |-> <<>>]
Lookup(dict, name) == IF name \in DOMAIN dict THEN dict[name] ELSE Absent

\* Mutant of WrapEncrypted: the bias is looked for where the weight of an
\* obfuscated layer is.
WrapEncryptedWithoutBias(m) ==
  /\ <<m, "weight">> \in DOMAIN encrypted_layers
  /\ wrapped' = Put(wrapped, m,
                    [kind |-> "crypto",
                     weight |-> encrypted_layers[<<m, "weight">>],
                     bias |-> Lookup(obfuscated_layers, <<m, "bias">>),
                     mixer |-> Absent])
  /\ parameters' = parameters \ ({<<m, "weight">>} \cup
                     ({<<m, "bias">>} \cap DOMAIN obfuscated_layers))

\* Scenario 1: the weight is encrypted.
WrapEncrypted(m) ==
  /\ <<m, "weight">> \in DOMAIN encrypted_layers
  /\ wrapped' = Put(wrapped, m,
                    [kind |-> "crypto",
                     weight |-> encrypted_layers[<<m, "weight">>],
                     bias |-> Lookup(encrypted_layers, <<m, "bias">>),
                     mixer |-> Absent])
  /\ parameters' = parameters \ ({<<m, "weight">>} \cup
                     ({<<m, "bias">>} \cap DOMAIN encrypted_layers))

\* Scenario 2: it is obfuscated.
WrapObfuscated(m) ==
  /\ <<m, "weight">> \notin DOMAIN encrypted_layers
  /\ <<m, "weight">> \in DOMAIN obfuscated_layers
  /\ wrapped' = Put(wrapped, m,
                    [kind |-> "obfuscated",
                     weight |-> obfuscated_layers[<<m, "weight">>],
                     bias |-> Lookup(encrypted_layers, <<m, "bias">>),
                     mixer |-> IF use_mixers
                               THEN Lookup(mixers, MixerOf(<<m, "weight">>))
                               ELSE Absent])
  /\ parameters' = parameters \ ({<<m, "weight">>} \cup
                     ({<<m, "bias">>} \cap DOMAIN encrypted_layers))

WrapModule(m) ==
  /\ todo = <<>>
  /\ m \in named_modules
  /\ named_modules' = named_modules \ {m}
  /\ \/ network.modules[m] \in Wrappable /\ (WrapEncrypted(m) \/ WrapObfuscated(m))
     \/ network.modules[m] \notin Wrappable /\ UNCHANGED <<parameters, wrapped>>
  /\ UNCHANGED <<network, prng, use_mixers, todo, compiled, forward>>

-----------------------------------------------------------------------------
(* A forward pass through a wrapped layer                                  *)

IsLinear(m) == Len(wrapped[m].weight.shape) = 2

\* Mutant of Authentic: the hook names every tensor of the layer a weight.
AuthenticAsWeight(tensor, name) ==
  tensor = Absent \/ tensor.aad = <<<<name[1], "weight">>, tensor.shape, tensor.dtype>>

\* The hook builds the additional data from the name of the module.
Authentic(tensor, name) ==
  tensor = Absent \/ tensor.aad = <<name, tensor.shape, tensor.dtype>>

\* The hook of an obfuscated layer permutes and scales the input:
\* x[..., p_in] * inv_s_in.  The tensors are decrypted; a tag that does not
\* match raises.
PreHook(m) ==
  LET weight == wrapped[m].weight
      p_in == prng[<<<<m, "weight">>, "in">>]
  IN
  /\ named_modules = {} /\ stage = "idle"
  /\ m \in DOMAIN wrapped
  /\ module' = m
  /\ stage' = IF /\ Authentic(weight, <<m, "weight">>)
                 /\ Authentic(wrapped[m].bias, <<m, "bias">>)
              THEN "forward" ELSE "raised"
  /\ x' = IF ~IsLinear(m) THEN <<>>
          ELSE [i \in UpTo(weight.shape[2]) |->
                  IF wrapped[m].kind = "obfuscated"
                  THEN [x |-> p_in[i], scale |-> Times(One, "in", i, -1)]
                  ELSE [x |-> i, scale |-> One]]
  /\ UNCHANGED <<network, prng, use_mixers, todo, compiled, modules, output>>

HasBias(m) == wrapped[m].bias # Absent

\* The module's own forward.  The bias of an encrypted layer is a parameter
\* again, that of an obfuscated layer is not.
Forward ==
  LET w == wrapped[module].weight IN
  /\ stage = "forward"
  /\ stage' = "post"
  /\ output' =
       IF ~IsLinear(module) THEN <<>>
       ELSE [o \in UpTo(w.shape[1]) |->
               [sum |-> {[x |-> x[i].x, w |-> w.contents[<<o, i>>].w,
                          scale |-> Product(x[i].scale, w.contents[<<o, i>>].scale)] :
                         i \in UpTo(w.shape[2])},
                bias |-> IF HasBias(module) /\ wrapped[module].kind = "crypto"
                         THEN {o} ELSE {}]]
  /\ UNCHANGED <<network, prng, use_mixers, todo, compiled, modules, module, x>>

\* Mutant of Unscramble: the scales are not permuted.
UnscrambleUnpermuted(m) ==
  LET inv_p_out == AntiFunction(prng[<<<<m, "weight">>, "out">>]) IN
  [j \in DOMAIN output |->
     [sum |-> {[t EXCEPT !.scale = Times(@, "out", j, -1)] : t \in output[inv_p_out[j]].sum},
      bias |-> IF HasBias(m) THEN {j} ELSE {}]]

\* output[..., inv_p_out] * inv_s_out[inv_p_out] + bias
Unscramble(m) ==
  LET inv_p_out == AntiFunction(prng[<<<<m, "weight">>, "out">>]) IN
  [j \in DOMAIN output |->
     [sum |-> {[t EXCEPT !.scale = Times(@, "out", inv_p_out[j], -1)] :
               t \in output[inv_p_out[j]].sum},
      bias |-> IF HasBias(m) THEN {j} ELSE {}]]

\* The hook of an obfuscated layer restores the output.  With a mixer, that
\* is decrypted and multiplied in: the caller gets other numbers then.
PostHook ==
  LET secured == wrapped[module] IN
  /\ stage = "post"
  /\ output' = IF secured.kind = "obfuscated" THEN Unscramble(module) ELSE output
  /\ stage' = IF secured.mixer = Absent THEN "returned"
              ELSE IF Authentic(secured.mixer, MixerOf(<<module, "weight">>))
                   THEN "mixed" ELSE "raised"
  /\ UNCHANGED <<network, prng, use_mixers, todo, compiled, modules, module, x>>

Return ==
  /\ stage \in {"returned", "mixed"}
  /\ stage' = "idle"
  /\ x' = <<>> /\ output' = <<>>
  /\ UNCHANGED <<network, prng, use_mixers, todo, compiled, modules, module>>

-----------------------------------------------------------------------------
Init ==
  /\ network \in Networks
  /\ prng = <<>>
  /\ use_mixers \in BOOLEAN
  /\ todo = network.state_dict
  /\ encrypted_layers = <<>> /\ obfuscated_layers = <<>> /\ mixers = <<>>
  /\ layer_sizes = <<>> /\ max_layer_size_bytes = 0
  /\ named_modules = DOMAIN network.modules
  /\ parameters = Names
  /\ wrapped = <<>>
  /\ stage = "idle" /\ module = "" /\ x = <<>> /\ output = <<>>

Next ==
  \/ CompileParameter
  \/ \E m \in named_modules : WrapModule(m)
  \/ \E m \in DOMAIN wrapped : PreHook(m)
  \/ Forward \/ PostHook \/ Return

Spec == Init /\ [][Next]_vars

-----------------------------------------------------------------------------
\* Every parameter that was compiled is in one of the two dictionaries, and
\* in one only.
TypeOK ==
  /\ network \in Networks /\ use_mixers \in BOOLEAN
  /\ DOMAIN encrypted_layers \cap DOMAIN obfuscated_layers = {}
  /\ DOMAIN encrypted_layers \cup DOMAIN obfuscated_layers =
       Names \ {todo[i].name : i \in DOMAIN todo}
  /\ DOMAIN mixers = {MixerOf(n) : n \in DOMAIN obfuscated_layers}
  /\ max_layer_size_bytes \in Nat
  /\ named_modules \subseteq DOMAIN network.modules
  /\ DOMAIN wrapped \subseteq DOMAIN network.modules
  /\ stage \in {"idle", "forward", "post", "returned", "mixed", "raised"}

\* After secure_wrap_model, no Linear or Conv2d holds a parameter in the
\* clear: whichever way the compiler took for the weight and for the bias,
\* the wrapper finds both.
EveryLayerIsSecured ==
  named_modules = {} => \A m \in DOMAIN network.modules :
    network.modules[m] \in Wrappable =>
      m \in DOMAIN wrapped /\ \A n \in parameters : n[1] # m

\* The hooks rebuild the additional data of every tensor, mixers included,
\* as the compiler had it: a forward pass never raises on a sound model.
HooksAuthenticate == stage # "raised"

\* A pool that is sized by max_layer_size_bytes has a slot for everything
\* the hooks decrypt: weights, biases and mixers.
MetadataCoversEveryLease ==
  named_modules = {} => \A m \in DOMAIN wrapped :
    \A t \in {wrapped[m].weight, wrapped[m].bias, wrapped[m].mixer} \ {Absent} :
      NumBytes(t.shape, t.dtype) <= max_layer_size_bytes

\* Permutation and scales cancel: a wrapped Linear returns what the layer
\* returned before (x W^T + b), for every permutation the seed may give.
\* A mixer changes it afterwards.
WrappedLayerComputesTheSame ==
  stage \in {"returned", "mixed"} /\ IsLinear(module) =>
    LET shape == wrapped[module].weight.shape IN
    output = [j \in UpTo(shape[1]) |->
                [sum |-> {[x |-> i, w |-> <<j, i>>, scale |-> One] : i \in UpTo(shape[2])},
                 bias |-> IF <<module, "bias">> \in Names THEN {j} ELSE {}]]
=============================================================================
