----------------------- MODULE WeightCompilerProofs -----------------------
(***************************************************************************)
(* Proofs about WeightCompiler, for every network, every name and every    *)
(* permutation.                                                            *)
(***************************************************************************)
EXTENDS WeightCompilerInvariant, SizesProofs

-----------------------------------------------------------------------------
(***************************************************************************)
(* Dictionaries and networks.                                              *)
(***************************************************************************)

LEMMA PutFacts ==
  ASSUME NEW dict, NEW name, NEW value
  PROVE  /\ DOMAIN Put(dict, name, value) = DOMAIN dict \cup {name}
         /\ Put(dict, name, value)[name] = value
         /\ \A n \in DOMAIN dict : n # name => Put(dict, name, value)[n] = dict[n]
BY DEF Put

LEMMA SizesAreNumbers ==
  ASSUME NEW shape \in Seq(Nat)
  PROVE  \A dtype : NumBytes(shape, dtype) \in Nat
<1>1. ASSUME NEW dtype
      PROVE  NumBytes(shape, dtype) \in Nat
  <2>1. PICK e, k : e = Elements(shape) /\ k = ItemSize(dtype)
    OBVIOUS
  <2>2. e \in Nat /\ k \in Nat
    BY <2>1, ElementsIsNat DEF ItemSize
  <2>3. e * k \in Nat
    BY <2>2
  <2>. QED
    BY <2>1, <2>3 DEF NumBytes
<1>. QED
  BY <1>1

LEMMA NetworkFacts ==
  ASSUME NEW net \in Networks
  PROVE  /\ net.state_dict \in Seq(Parameter)
         /\ \A i, j \in 1..Len(net.state_dict) :
              net.state_dict[i].name = net.state_dict[j].name => i = j
         /\ \A i \in 1..Len(net.state_dict) :
              /\ net.state_dict[i] \in Parameter
              /\ \A j \in 1..Len(net.state_dict) :
                   MixerOf(net.state_dict[i].name) # net.state_dict[j].name
              /\ Len(net.state_dict[i].shape) = 2 =>
                   /\ UpTo(net.state_dict[i].shape[1]) \subseteq Channels
                   /\ UpTo(net.state_dict[i].shape[2]) \subseteq Channels
                   /\ NumBytes(<<net.state_dict[i].shape[1], net.state_dict[i].shape[1]>>,
                               "float32") \in Nat
              /\ \A dtype \in {"float16", "float32", "float64"} :
                   NumBytes(net.state_dict[i].shape, dtype) \in Nat
<1>1. IsNetwork(net)
  BY NetworkAssumption
<1>2. net.state_dict \in Seq(Parameter) /\ DOMAIN net.state_dict = 1..Len(net.state_dict)
  BY <1>1 DEF IsNetwork
<1>3. \A i \in 1..Len(net.state_dict) : net.state_dict[i] \in Parameter
  BY <1>2
<1>4. ASSUME NEW i \in 1..Len(net.state_dict), NEW shape, shape = net.state_dict[i].shape
      PROVE  /\ Len(shape) = 2 => NumBytes(<<shape[1], shape[1]>>, "float32") \in Nat
             /\ \A dtype \in {"float16", "float32", "float64"} : NumBytes(shape, dtype) \in Nat
  <2>1. shape \in Seq(Nat)
    BY <1>3, <1>4 DEF Parameter
  <2>2. Len(shape) = 2 => <<shape[1], shape[1]>> \in Seq(Nat)
    BY <2>1
  <2>. QED
    BY <2>1, <2>2, SizesAreNumbers
<1>. QED
  BY <1>1, <1>2, <1>3, <1>4 DEF IsNetwork

LEMMA ModuleFacts ==
  ASSUME NEW net \in Networks, NEW m \in DOMAIN net.modules, net.modules[m] \in Wrappable
  PROVE  /\ \E i \in 1..Len(net.state_dict) : net.state_dict[i].name = <<m, "weight">>
         /\ \A i \in 1..Len(net.state_dict) :
              /\ net.state_dict[i].name[1] = m => net.state_dict[i].name[2] \in {"weight", "bias"}
              /\ net.state_dict[i].name = <<m, "bias">> => Len(net.state_dict[i].shape) = 1
<1>1. IsNetwork(net)
  BY NetworkAssumption
<1>2. DOMAIN net.state_dict = 1..Len(net.state_dict)
  BY <1>1 DEF IsNetwork
<1>. QED
  BY <1>1, <1>2 DEF IsNetwork

\* A name has two parts, and the mixer of a layer has one name.
LEMMA ParameterFacts ==
  ASSUME NEW p \in Parameter
  PROVE  /\ p.name = <<p.name[1], p.name[2]>>
         /\ p.shape \in Seq(Nat)
         /\ p.dtype \in {"float16", "float32", "float64"}
         /\ Scaled(p.dtype) \in {"float32", "float64"}
         /\ p.dtype # "float16" => Scaled(p.dtype) = p.dtype
         /\ MixerOf(p.name) = <<p.name[1], p.name[2], "mixer">>
BY DEF Parameter, Scaled, MixerOf

-----------------------------------------------------------------------------
(***************************************************************************)
(* Compilation.                                                            *)
(***************************************************************************)

LEMMA NextParameter ==
  ASSUME network \in Networks, TodoIsTheRest, todo # <<>>, todo' = Tail(todo), network' = network
  PROVE  /\ TodoIsTheRest'
         /\ Done' = Done \cup {Head(todo)}
         /\ Head(todo) \in Parameter
         /\ \A q \in Done : q \in Parameter /\ q.name # Head(todo).name
         /\ \E i \in 1..Len(network.state_dict) : network.state_dict[i] = Head(todo)
<1>. DEFINE dict == network.state_dict
            n == Len(dict)
            k == n - Len(todo)
<1>1. dict \in Seq(Parameter) /\ n \in Nat /\ \A i \in 1..n : dict[i] \in Parameter
  BY NetworkFacts
<1>2. todo \in Seq(Parameter) /\ Len(todo) <= n /\ Len(todo) \in Nat
      /\ \A i \in 1..Len(todo) : todo[i] = dict[n - Len(todo) + i]
  BY DEF TodoIsTheRest
<1>3. Len(todo) >= 1 /\ Head(todo) = todo[1] /\ Head(todo) \in Parameter
  BY <1>2
<1>4. /\ todo' \in Seq(Parameter) /\ Len(todo') = Len(todo) - 1
      /\ \A i \in 1..Len(todo') : todo'[i] = todo[i + 1]
  BY <1>2
<1>5. k \in 0..(n - 1) /\ Head(todo) = dict[k + 1] /\ n - Len(todo') = k + 1
  BY <1>1, <1>2, <1>3, <1>4
<1>6. TodoIsTheRest'
  BY <1>1, <1>2, <1>3, <1>4 DEF TodoIsTheRest
<1>7. Done = {dict[i] : i \in 1..k} /\ Done' = {dict[i] : i \in 1..(k + 1)}
  BY <1>5 DEF Done
<1>8. 1..(k + 1) = 1..k \cup {k + 1} /\ \A i \in 1..k : i \in 1..n /\ i # k + 1
  BY <1>1, <1>5
<1>9. \A q \in Done : q \in Parameter /\ q.name # Head(todo).name
  <2>. SUFFICES ASSUME NEW i \in 1..k
                PROVE  dict[i] \in Parameter /\ dict[i].name # dict[k + 1].name
    BY <1>5, <1>7
  <2>1. i \in 1..n /\ k + 1 \in 1..n /\ i # k + 1
    BY <1>1, <1>5
  <2>. QED
    BY <1>1, <2>1, NetworkFacts
<1>10. Done' = Done \cup {Head(todo)}
  <2>. HIDE DEF k
  <2>. QED
    BY <1>5, <1>7, <1>8
<1>11. \E i \in 1..n : dict[i] = Head(todo)
  BY <1>1, <1>5
<1>. QED
  BY <1>3, <1>6, <1>9, <1>10, <1>11

\* What EncryptParameter and Obfuscate do to the dictionaries.
LEMMA CompiledPlainly ==
  ASSUME EncryptParameter(Head(todo))
  PROVE  LET p == Head(todo) IN
         /\ Plainly(p)
         /\ encrypted_layers' = Put(encrypted_layers, p.name, Ciphertext(p))
         /\ layer_sizes' = Put(layer_sizes, p.name, NumBytes(p.shape, p.dtype))
         /\ UNCHANGED <<prng, obfuscated_layers, mixers>>
BY DEF EncryptParameter, Plainly, Ciphertext

LEMMA CompiledObfuscated ==
  ASSUME Obfuscate(Head(todo))
  PROVE  LET p == Head(todo) IN
         /\ ~Plainly(p) /\ Len(p.shape) = 2
         /\ \E p_out \in Bijection(UpTo(p.shape[1]), UpTo(p.shape[1])),
               p_in \in Bijection(UpTo(p.shape[2]), UpTo(p.shape[2])) :
              prng' = Put(Put(prng, <<p.name, "in">>, p_in), <<p.name, "out">>, p_out)
         /\ obfuscated_layers' = Put(obfuscated_layers, p.name, Obfuscated(p, prng'))
         /\ mixers' = Put(mixers, MixerOf(p.name), MixerTensor(p))
         /\ layer_sizes' = Put(Put(layer_sizes, MixerOf(p.name), NumBytes(Square(p), "float32")),
                               p.name, NumBytes(p.shape, Scaled(p.dtype)))
         /\ UNCHANGED encrypted_layers
BY DEF Obfuscate, Derive, Plainly, IsObfuscable, Obfuscated, MixerTensor, Square

LEMMA EncryptedStep ==
  ASSUME network \in Networks, TodoIsTheRest, EncryptedInv, CompileParameter
  PROVE  EncryptedInv'
<1>. DEFINE p == Head(todo)
<1>1. todo # <<>> /\ todo' = Tail(todo) /\ network' = network
      /\ (EncryptParameter(p) \/ Obfuscate(p))
  BY DEF CompileParameter
<1>2. Done' = Done \cup {p} /\ \A q \in Done : q.name # p.name
  BY <1>1, NextParameter
<1>3. SUFFICES /\ DOMAIN encrypted_layers' = {q.name : q \in {r \in Done' : Plainly(r)}}
               /\ \A q \in Done' : Plainly(q) => encrypted_layers'[q.name] = Ciphertext(q)
  BY <1>1, Zenon DEF EncryptedInv, Plainly, IsBoundary, Ciphertext
<1>4. CASE EncryptParameter(p)
  <2>1. Plainly(p) /\ encrypted_layers' = Put(encrypted_layers, p.name, Ciphertext(p))
    BY <1>4, CompiledPlainly
  <2>. HIDE DEF p
  <2>2. /\ DOMAIN encrypted_layers' = DOMAIN encrypted_layers \cup {p.name}
        /\ encrypted_layers'[p.name] = Ciphertext(p)
        /\ \A n \in DOMAIN encrypted_layers : n # p.name => encrypted_layers'[n] = encrypted_layers[n]
    BY <2>1 DEF Put
  <2>. QED
    BY <1>2, <2>1, <2>2 DEF EncryptedInv
<1>5. CASE Obfuscate(p)
  <2>1. ~Plainly(p) /\ encrypted_layers' = encrypted_layers
    BY <1>5, CompiledObfuscated
  <2>. HIDE DEF p
  <2>. QED
    BY <1>2, <2>1 DEF EncryptedInv
<1>. QED
  BY <1>1, <1>4, <1>5

LEMMA ObfuscatedStep ==
  ASSUME network \in Networks, TodoIsTheRest, ObfuscatedInv, CompileParameter
  PROVE  ObfuscatedInv'
<1>. DEFINE p == Head(todo)
            Holds(q, seeds, layers, mixes) ==
              /\ {<<q.name, "out">>, <<q.name, "in">>} \subseteq DOMAIN seeds
              /\ seeds[<<q.name, "out">>] \in Bijection(UpTo(q.shape[1]), UpTo(q.shape[1]))
              /\ seeds[<<q.name, "in">>] \in Bijection(UpTo(q.shape[2]), UpTo(q.shape[2]))
              /\ layers[q.name] = Obfuscated(q, seeds)
              /\ mixes[MixerOf(q.name)] = MixerTensor(q)
<1>1. todo # <<>> /\ todo' = Tail(todo) /\ network' = network
      /\ (EncryptParameter(p) \/ Obfuscate(p))
  BY DEF CompileParameter
<1>2. Done' = Done \cup {p} /\ p \in Parameter /\ \A q \in Done : q \in Parameter /\ q.name # p.name
  BY <1>1, NextParameter
<1>3. SUFFICES /\ DOMAIN obfuscated_layers' = {q.name : q \in {r \in Done' : ~Plainly(r)}}
               /\ DOMAIN mixers' = {MixerOf(n) : n \in DOMAIN obfuscated_layers'}
               /\ \A q \in Done' : ~Plainly(q) => Holds(q, prng', obfuscated_layers', mixers')
  BY <1>1, Zenon DEF ObfuscatedInv, Plainly, IsBoundary, IsObfuscable
<1>4. /\ DOMAIN obfuscated_layers = {q.name : q \in {r \in Done : ~Plainly(r)}}
      /\ DOMAIN mixers = {MixerOf(n) : n \in DOMAIN obfuscated_layers}
      /\ \A q \in Done : ~Plainly(q) => Holds(q, prng, obfuscated_layers, mixers)
  BY Zenon DEF ObfuscatedInv
<1>5. CASE EncryptParameter(p)
  <2>1. Plainly(p) /\ UNCHANGED <<prng, obfuscated_layers, mixers>>
    BY <1>5, CompiledPlainly
  <2>. HIDE DEF p, Holds
  <2>. QED
    BY <1>2, <1>4, <2>1
<1>6. CASE Obfuscate(p)
  <2>1. PICK p_out \in Bijection(UpTo(p.shape[1]), UpTo(p.shape[1])),
             p_in \in Bijection(UpTo(p.shape[2]), UpTo(p.shape[2])) :
               prng' = Put(Put(prng, <<p.name, "in">>, p_in), <<p.name, "out">>, p_out)
    BY <1>6, CompiledObfuscated
  <2>2. /\ ~Plainly(p)
        /\ obfuscated_layers' = Put(obfuscated_layers, p.name, Obfuscated(p, prng'))
        /\ mixers' = Put(mixers, MixerOf(p.name), MixerTensor(p))
    BY <1>6, CompiledObfuscated
  <2>. HIDE DEF p
  <2>3. /\ DOMAIN prng' = DOMAIN prng \cup {<<p.name, "in">>, <<p.name, "out">>}
        /\ prng'[<<p.name, "out">>] = p_out
        /\ prng'[<<p.name, "in">>] = p_in
        /\ \A s \in DOMAIN prng :
             s # <<p.name, "in">> /\ s # <<p.name, "out">> => prng'[s] = prng[s]
    BY <2>1 DEF Put
  <2>4. /\ DOMAIN obfuscated_layers' = DOMAIN obfuscated_layers \cup {p.name}
        /\ obfuscated_layers'[p.name] = Obfuscated(p, prng')
        /\ \A n \in DOMAIN obfuscated_layers : n # p.name => obfuscated_layers'[n] = obfuscated_layers[n]
    BY <2>2 DEF Put
  <2>5. /\ DOMAIN mixers' = DOMAIN mixers \cup {MixerOf(p.name)}
        /\ mixers'[MixerOf(p.name)] = MixerTensor(p)
        /\ \A n \in DOMAIN mixers : n # MixerOf(p.name) => mixers'[n] = mixers[n]
    BY <2>2 DEF Put
  <2>6. DOMAIN obfuscated_layers' = {q.name : q \in {r \in Done' : ~Plainly(r)}}
    BY <1>2, <1>4, <2>2, <2>4
  <2>7. DOMAIN mixers' = {MixerOf(n) : n \in DOMAIN obfuscated_layers'}
    BY <1>4, <2>4, <2>5
  <2>8. Holds(p, prng', obfuscated_layers', mixers')
    BY <2>3, <2>4, <2>5
  <2>9. ASSUME NEW q \in Done, ~Plainly(q)
        PROVE  Holds(q, prng', obfuscated_layers', mixers')
    <3>1. Holds(q, prng, obfuscated_layers, mixers) /\ q \in Parameter /\ q.name # p.name
      BY <1>2, <1>4, <2>9
    <3>2. q.name \in DOMAIN obfuscated_layers /\ MixerOf(q.name) \in DOMAIN mixers
      BY <1>4, <2>9
    <3>3. MixerOf(q.name) # MixerOf(p.name)
      <4>1. q.name = <<q.name[1], q.name[2]>> /\ p.name = <<p.name[1], p.name[2]>>
        BY <1>2, <3>1, ParameterFacts
      <4>. QED
        BY <3>1, <4>1 DEF MixerOf
    <3>4. /\ prng'[<<q.name, "out">>] = prng[<<q.name, "out">>]
          /\ prng'[<<q.name, "in">>] = prng[<<q.name, "in">>]
          /\ {<<q.name, "out">>, <<q.name, "in">>} \subseteq DOMAIN prng'
      BY <2>3, <3>1
    <3>5. Obfuscated(q, prng') = Obfuscated(q, prng)
      BY <3>4, Zenon DEF Obfuscated
    <3>. QED
      BY <2>4, <2>5, <3>1, <3>2, <3>3, <3>4, <3>5
  <2>. HIDE DEF Holds
  <2>. QED
    BY <1>2, <2>6, <2>7, <2>8, <2>9
<1>. QED
  BY <1>1, <1>5, <1>6

LEMMA OneSizeMore ==
  ASSUME NEW dict, AreSizes(dict), NEW name, name \notin DOMAIN dict, NEW value \in Nat
  PROVE  AreSizes(Put(dict, name, value))
<1>. DEFINE more == Put(dict, name, value)
<1>1. /\ DOMAIN more = DOMAIN dict \cup {name} /\ more[name] = value
      /\ \A n \in DOMAIN dict : more[n] = dict[n]
  BY DEF Put
<1>. HIDE DEF more
<1>2. \A n \in DOMAIN more : more[n] \in Nat
  BY <1>1 DEF AreSizes
<1>3. \E big \in DOMAIN more : \A n \in DOMAIN more : more[n] <= more[big]
  <2>1. CASE DOMAIN dict = {}
    BY <1>1, <2>1
  <2>2. CASE DOMAIN dict # {}
    <3>1. PICK big \in DOMAIN dict : \A n \in DOMAIN dict : dict[n] <= dict[big]
      BY <2>2 DEF AreSizes
    <3>2. \A n \in DOMAIN dict : dict[n] \in Nat
      BY DEF AreSizes
    <3>3. CASE value <= dict[big]
      BY <1>1, <3>1, <3>3
    <3>4. CASE ~(value <= dict[big])
      <4>1. \A n \in DOMAIN more : more[n] <= more[name]
        BY <1>1, <3>1, <3>2, <3>4
      <4>. QED
        BY <1>1, <4>1
    <3>. QED
      BY <3>3, <3>4
  <2>. QED
    BY <2>1, <2>2
<1>. QED
  BY <1>2, <1>3 DEF AreSizes, more

LEMMA LargestSize ==
  ASSUME NEW dict, AreSizes(dict), DOMAIN dict # {}
  PROVE  LET largest == Max({dict[n] : n \in DOMAIN dict}) IN
         largest \in Nat /\ \A n \in DOMAIN dict : dict[n] <= largest
<1>. DEFINE S == {dict[n] : n \in DOMAIN dict}
<1>1. \E s \in S : \A t \in S : s >= t
  BY DEF AreSizes
<1>2. Max(S) \in S /\ \A t \in S : Max(S) >= t
  BY <1>1 DEF Max
<1>. HIDE DEF Max
<1>. QED
  BY <1>2 DEF AreSizes

\* The keys of the metadata are the names of parameters and of mixers: the
\* parameter that is compiled next has none yet.
LEMMA NewKeys ==
  ASSUME network \in Networks, TodoIsTheRest, EncryptedInv, ObfuscatedInv, SizesInv,
         todo # <<>>, todo' = Tail(todo), network' = network
  PROVE  LET p == Head(todo) IN
         /\ p.name \notin DOMAIN layer_sizes
         /\ MixerOf(p.name) # p.name
         /\ MixerOf(p.name) \notin DOMAIN layer_sizes
         /\ \A q \in Done :
              /\ q.name \in DOMAIN layer_sizes /\ q.name # p.name /\ q.name # MixerOf(p.name)
              /\ ~Plainly(q) => /\ MixerOf(q.name) \in DOMAIN layer_sizes
                                /\ MixerOf(q.name) # p.name
<1>. DEFINE p == Head(todo)
<1>1. /\ p \in Parameter /\ \A q \in Done : q \in Parameter /\ q.name # p.name
      /\ \E i \in 1..Len(network.state_dict) : network.state_dict[i] = p
  BY NextParameter
<1>2. /\ MixerOf(p.name) # p.name
      /\ \A q \in Done : /\ MixerOf(p.name) # q.name /\ MixerOf(q.name) # p.name
                         /\ \A r \in Done : MixerOf(r.name) # q.name
  <2>1. \A q \in Done : \E i \in 1..Len(network.state_dict) : network.state_dict[i] = q
    <3>1. Len(todo) \in Nat /\ Len(network.state_dict) \in Nat
      BY NetworkFacts DEF TodoIsTheRest
    <3>. QED
      BY <3>1 DEF Done
  <2>2. \A i, j \in 1..Len(network.state_dict) :
          MixerOf(network.state_dict[i].name) # network.state_dict[j].name
    BY NetworkFacts
  <2>. QED
    BY <1>1, <2>1, <2>2
<1>3. DOMAIN layer_sizes = {q.name : q \in Done} \cup {MixerOf(q.name) : q \in {r \in Done : ~Plainly(r)}}
  <2>1. DOMAIN encrypted_layers \cup DOMAIN obfuscated_layers = {q.name : q \in Done}
    BY DEF EncryptedInv, ObfuscatedInv
  <2>2. DOMAIN mixers = {MixerOf(q.name) : q \in {r \in Done : ~Plainly(r)}}
    BY DEF ObfuscatedInv
  <2>. QED
    BY <2>1, <2>2 DEF SizesInv
<1>4. p.name = <<p.name[1], p.name[2]>> /\ \A q \in Done : q.name = <<q.name[1], q.name[2]>>
  BY <1>1, ParameterFacts
<1>. HIDE DEF p
<1>5. \A q \in Done : MixerOf(q.name) # MixerOf(p.name)
  BY <1>1, <1>4 DEF MixerOf
<1>6. MixerOf(p.name) # p.name /\ p.name \notin DOMAIN layer_sizes
  BY <1>1, <1>2, <1>3
<1>7. MixerOf(p.name) \notin DOMAIN layer_sizes
  BY <1>2, <1>3, <1>5
<1>8. \A q \in Done :
         /\ q.name \in DOMAIN layer_sizes /\ q.name # p.name /\ q.name # MixerOf(p.name)
         /\ ~Plainly(q) => MixerOf(q.name) \in DOMAIN layer_sizes /\ MixerOf(q.name) # p.name
  BY <1>1, <1>2, <1>3
<1>. QED
  BY <1>6, <1>7, <1>8 DEF p

LEMMA SizesStep ==
  ASSUME network \in Networks, TodoIsTheRest, EncryptedInv, ObfuscatedInv, SizesInv,
         CompileParameter
  PROVE  SizesInv'
<1>. DEFINE p == Head(todo)
            sizes == layer_sizes'
<1>1. todo # <<>> /\ todo' = Tail(todo) /\ network' = network
      /\ (EncryptParameter(p) \/ Obfuscate(p))
      /\ max_layer_size_bytes' =
           IF todo' = <<>> THEN Max({sizes[n] : n \in DOMAIN sizes}) ELSE 0
  BY DEF CompileParameter
<1>2. Done' = Done \cup {p} /\ p \in Parameter
      /\ \E i \in 1..Len(network.state_dict) : network.state_dict[i] = p
  BY <1>1, NextParameter
<1>3. /\ NumBytes(p.shape, p.dtype) \in Nat /\ NumBytes(p.shape, Scaled(p.dtype)) \in Nat
      /\ Len(p.shape) = 2 => NumBytes(Square(p), "float32") \in Nat
  BY <1>2, NetworkFacts, ParameterFacts DEF Square
<1>4. SUFFICES
        /\ DOMAIN sizes = DOMAIN encrypted_layers' \cup DOMAIN obfuscated_layers' \cup DOMAIN mixers'
        /\ \A q \in Done' :
             sizes[q.name] = NumBytes(q.shape, IF Plainly(q) THEN q.dtype ELSE Scaled(q.dtype))
        /\ \A q \in Done' : ~Plainly(q) => sizes[MixerOf(q.name)] = NumBytes(Square(q), "float32")
        /\ AreSizes(sizes) /\ DOMAIN sizes # {}
  <2>1. max_layer_size_bytes' \in Nat
    BY <1>1, <1>4, LargestSize
  <2>2. todo' = <<>> => \A n \in DOMAIN sizes : sizes[n] <= max_layer_size_bytes'
    BY <1>1, <1>4, LargestSize
  <2>. QED
    BY <1>1, <1>4, <2>1, <2>2, Zenon DEF SizesInv, Plainly, IsBoundary, IsObfuscable, AreSizes
<1>5. /\ p.name \notin DOMAIN layer_sizes
      /\ MixerOf(p.name) # p.name
      /\ MixerOf(p.name) \notin DOMAIN layer_sizes
      /\ \A q \in Done :
           /\ q.name \in DOMAIN layer_sizes /\ q.name # p.name /\ q.name # MixerOf(p.name)
           /\ ~Plainly(q) => MixerOf(q.name) \in DOMAIN layer_sizes /\ MixerOf(q.name) # p.name
  BY <1>1, NewKeys
<1>6. /\ DOMAIN layer_sizes =
           DOMAIN encrypted_layers \cup DOMAIN obfuscated_layers \cup DOMAIN mixers
      /\ \A q \in Done :
           layer_sizes[q.name] = NumBytes(q.shape, IF Plainly(q) THEN q.dtype ELSE Scaled(q.dtype))
      /\ \A q \in Done : ~Plainly(q) => layer_sizes[MixerOf(q.name)] = NumBytes(Square(q), "float32")
      /\ AreSizes(layer_sizes)
  BY DEF SizesInv
<1>7. CASE EncryptParameter(p)
  <2>1. /\ Plainly(p)
        /\ encrypted_layers' = Put(encrypted_layers, p.name, Ciphertext(p))
        /\ sizes = Put(layer_sizes, p.name, NumBytes(p.shape, p.dtype))
        /\ UNCHANGED <<obfuscated_layers, mixers>>
    BY <1>7, CompiledPlainly
  <2>. HIDE DEF p
  <2>2. AreSizes(sizes)
    BY <1>3, <1>5, <1>6, <2>1, OneSizeMore
  <2>3. /\ DOMAIN sizes = DOMAIN layer_sizes \cup {p.name}
        /\ sizes[p.name] = NumBytes(p.shape, p.dtype)
        /\ \A n \in DOMAIN layer_sizes : n # p.name => sizes[n] = layer_sizes[n]
        /\ DOMAIN encrypted_layers' = DOMAIN encrypted_layers \cup {p.name}
    BY <2>1 DEF Put
  <2>. HIDE DEF sizes
  <2>4. DOMAIN sizes = DOMAIN encrypted_layers' \cup DOMAIN obfuscated_layers' \cup DOMAIN mixers'
    BY <1>6, <2>1, <2>3
  <2>5. \A q \in Done' :
          sizes[q.name] = NumBytes(q.shape, IF Plainly(q) THEN q.dtype ELSE Scaled(q.dtype))
    BY <1>2, <1>5, <1>6, <2>1, <2>3
  <2>6. \A q \in Done' : ~Plainly(q) => sizes[MixerOf(q.name)] = NumBytes(Square(q), "float32")
    BY <1>2, <1>5, <1>6, <2>1, <2>3
  <2>. QED
    BY <2>2, <2>3, <2>4, <2>5, <2>6
<1>8. CASE Obfuscate(p)
  <2>. DEFINE more == Put(layer_sizes, MixerOf(p.name), NumBytes(Square(p), "float32"))
  <2>1. /\ ~Plainly(p) /\ Len(p.shape) = 2
        /\ obfuscated_layers' = Put(obfuscated_layers, p.name, Obfuscated(p, prng'))
        /\ mixers' = Put(mixers, MixerOf(p.name), MixerTensor(p))
        /\ sizes = Put(more, p.name, NumBytes(p.shape, Scaled(p.dtype)))
        /\ UNCHANGED encrypted_layers
    BY <1>8, CompiledObfuscated
  <2>. HIDE DEF p
  <2>2. DOMAIN more = DOMAIN layer_sizes \cup {MixerOf(p.name)}
        /\ more[MixerOf(p.name)] = NumBytes(Square(p), "float32")
        /\ \A n \in DOMAIN layer_sizes : n # MixerOf(p.name) => more[n] = layer_sizes[n]
    BY DEF Put
  <2>3. AreSizes(more)
    BY <1>3, <1>5, <1>6, <2>1, OneSizeMore
  <2>. HIDE DEF more
  <2>4. AreSizes(sizes)
    BY <1>3, <1>5, <2>1, <2>2, <2>3, OneSizeMore
  <2>5. /\ DOMAIN sizes = DOMAIN more \cup {p.name}
        /\ sizes[p.name] = NumBytes(p.shape, Scaled(p.dtype))
        /\ \A n \in DOMAIN more : n # p.name => sizes[n] = more[n]
        /\ DOMAIN obfuscated_layers' = DOMAIN obfuscated_layers \cup {p.name}
        /\ DOMAIN mixers' = DOMAIN mixers \cup {MixerOf(p.name)}
    BY <2>1 DEF Put
  <2>. HIDE DEF sizes
  <2>6. DOMAIN sizes = DOMAIN encrypted_layers' \cup DOMAIN obfuscated_layers' \cup DOMAIN mixers'
    BY <1>6, <2>1, <2>2, <2>5
  <2>7. \A q \in Done' :
          sizes[q.name] = NumBytes(q.shape, IF Plainly(q) THEN q.dtype ELSE Scaled(q.dtype))
    BY <1>2, <1>5, <1>6, <2>1, <2>2, <2>5
  <2>8. \A q \in Done' : ~Plainly(q) => sizes[MixerOf(q.name)] = NumBytes(Square(q), "float32")
    <3>1. sizes[MixerOf(p.name)] = NumBytes(Square(p), "float32")
      BY <1>5, <2>2, <2>5
    <3>2. ASSUME NEW q \in Done, ~Plainly(q)
          PROVE  sizes[MixerOf(q.name)] = NumBytes(Square(q), "float32")
      <4>1. MixerOf(q.name) \in DOMAIN layer_sizes /\ MixerOf(q.name) # p.name
            /\ MixerOf(q.name) # MixerOf(p.name)
        BY <1>5, <2>1, <3>2
      <4>. QED
        BY <1>6, <2>2, <2>5, <3>2, <4>1
    <3>. QED
      BY <1>2, <3>1, <3>2
  <2>. QED
    BY <2>4, <2>5, <2>6, <2>7, <2>8
<1>. QED
  BY <1>1, <1>7, <1>8

-----------------------------------------------------------------------------
(***************************************************************************)
(* The arithmetic of the hooks.                                            *)
(***************************************************************************)

LEMMA ScalesCancel ==
  ASSUME NEW i \in Channels, NEW o \in Channels
  PROVE  /\ Product(One, One) = One
         /\ Product(Times(One, "in", i, -1), Times(Times(One, "out", o, 1), "in", i, 1))
              = Times(One, "out", o, 1)
         /\ Times(Times(One, "out", o, 1), "out", o, -1) = One
<1>. DEFINE Sides == {"out", "in"} \X Channels
            a == <<"in", i>>
            b == <<"out", o>>
            In == [s \in Sides |-> IF s = a THEN -1 ELSE 0]
            Out == [s \in Sides |-> IF s = b THEN 1 ELSE 0]
            Both == [s \in Sides |-> IF s = a THEN Out[s] + 1 ELSE Out[s]]
<1>1. One = [s \in Sides |-> 0]
  BY DEF One
<1>2. a \in Sides /\ b \in Sides /\ a # b
  OBVIOUS
<1>3. /\ Times(One, "in", i, -1) = [One EXCEPT ![a] = @ + -1]
      /\ Times(One, "out", o, 1) = [One EXCEPT ![b] = @ + 1]
      /\ Times(Out, "in", i, 1) = [Out EXCEPT ![a] = @ + 1]
      /\ Times(Out, "out", o, -1) = [Out EXCEPT ![b] = @ + -1]
  BY DEF Times
<1>. HIDE DEF a, b, Sides
<1>. DEFINE Zero == [s \in Sides |-> 0]
<1>4. Times(One, "in", i, -1) = In
  <2>1. [Zero EXCEPT ![a] = @ + -1] = In
    BY <1>2
  <2>. QED
    BY <1>1, <1>3, <2>1
<1>5. Times(One, "out", o, 1) = Out
  <2>1. [Zero EXCEPT ![b] = @ + 1] = Out
    BY <1>2
  <2>. QED
    BY <1>1, <1>3, <2>1
<1>6. Times(Out, "in", i, 1) = Both
  BY <1>2, <1>3
<1>7. Times(Out, "out", o, -1) = One
  BY <1>1, <1>2, <1>3
<1>8. Product(In, Both) = Out
  BY <1>2 DEF Product
<1>9. Product(One, One) = One
  BY <1>1 DEF Product
<1>. QED
  BY <1>4, <1>5, <1>6, <1>7, <1>8, <1>9

LEMMA PermutationFacts ==
  ASSUME NEW S, NEW f \in Bijection(S, S)
  PROVE  /\ f \in [S -> S]
         /\ \A j \in S : AntiFunction(f)[j] \in S /\ f[AntiFunction(f)[j]] = j
         /\ \A j \in S : \E i \in S : f[i] = j
<1>1. f \in [S -> S] /\ \A j \in S : \E i \in S : f[i] = j
  BY DEF Bijection, Injection, Surjection
<1>2. Range(f) = S
  BY <1>1 DEF Range
<1>3. ASSUME NEW j \in S
      PROVE  AntiFunction(f)[j] \in S /\ f[AntiFunction(f)[j]] = j
  <2>1. AntiFunction(f)[j] = CHOOSE s \in S : j \in Range(f) => f[s] = j
    BY <1>1, <1>2 DEF AntiFunction, Inverse
  <2>2. \E s \in S : j \in Range(f) => f[s] = j
    BY <1>1
  <2>. QED
    BY <1>2, <2>1, <2>2
<1>. QED
  BY <1>1, <1>3

-----------------------------------------------------------------------------
(***************************************************************************)
(* The wrapper.                                                            *)
(***************************************************************************)

LEMMA AllAreDone ==
  ASSUME network \in Networks, TodoIsTheRest, todo = <<>>
  PROVE  /\ Names = {p.name : p \in Done}
         /\ \A p \in Done :
              p \in Parameter /\ \E i \in 1..Len(network.state_dict) : network.state_dict[i] = p
<1>1. Done = {network.state_dict[i] : i \in 1..Len(network.state_dict)}
  BY NetworkFacts DEF Done
<1>2. DOMAIN network.state_dict = 1..Len(network.state_dict)
  BY NetworkFacts
<1>. QED
  BY <1>1, <1>2, NetworkFacts DEF Names

LEMMA BiasFacts ==
  ASSUME network \in Networks, TodoIsTheRest, EncryptedInv, todo = <<>>,
         NEW m \in DOMAIN network.modules, network.modules[m] \in Wrappable
  PROVE  /\ <<m, "bias">> \in Names => <<m, "bias">> \in DOMAIN encrypted_layers
         /\ BiasOf(m) # Absent <=> <<m, "bias">> \in Names
         /\ BiasOf(m) # Absent => \E p \in Done : /\ p.name = <<m, "bias">> /\ Plainly(p)
                                                  /\ BiasOf(m) = Ciphertext(p)
<1>1. Names = {p.name : p \in Done}
  BY AllAreDone
<1>2. DOMAIN encrypted_layers \subseteq Names
  BY <1>1 DEF EncryptedInv
<1>3. \A p : Ciphertext(p) # Absent
  <2>1. \A p : Ciphertext(p).aad = <<p.name, p.shape, p.dtype>> /\ Absent.aad = <<>>
    BY DEF Ciphertext, Encrypt, Absent
  <2>2. \A a, b, c : <<a, b, c>> # <<>>
    OBVIOUS
  <2>. QED
    BY <2>1, <2>2
<1>4. CASE <<m, "bias">> \in Names
  <2>1. PICK p \in Done : p.name = <<m, "bias">>
    BY <1>1, <1>4
  <2>2. Plainly(p)
    <3>1. Len(p.shape) = 1
      BY <2>1, AllAreDone, ModuleFacts
    <3>. QED
      BY <3>1 DEF Plainly, IsObfuscable
  <2>3. <<m, "bias">> \in DOMAIN encrypted_layers /\ encrypted_layers[<<m, "bias">>] = Ciphertext(p)
    BY <2>1, <2>2 DEF EncryptedInv
  <2>. QED
    BY <1>3, <1>4, <2>1, <2>2, <2>3 DEF BiasOf, Lookup
<1>5. CASE <<m, "bias">> \notin Names
  BY <1>2, <1>5 DEF BiasOf, Lookup
<1>. QED
  BY <1>4, <1>5

LEMMA WrapModuleKeeps ==
  ASSUME IInv, NEW m, WrapModule(m)
  PROVE  WrapInv'
<1>1. /\ todo = <<>> /\ m \in named_modules /\ named_modules' = named_modules \ {m}
      /\ \/ network.modules[m] \in Wrappable /\ (WrapEncrypted(m) \/ WrapObfuscated(m))
         \/ network.modules[m] \notin Wrappable /\ UNCHANGED <<parameters, wrapped>>
      /\ UNCHANGED <<network, prng, use_mixers, todo, stage>>
      /\ UNCHANGED <<encrypted_layers, obfuscated_layers, mixers>>
  BY DEF WrapModule, compiled, forward
<1>2. /\ named_modules \subseteq DOMAIN network.modules /\ parameters \subseteq Names
      /\ DOMAIN wrapped =
           {n \in DOMAIN network.modules \ named_modules : network.modules[n] \in Wrappable}
      /\ \A n \in DOMAIN wrapped :
           /\ <<n, "weight">> \notin parameters /\ <<n, "bias">> \notin parameters
           /\ \/ <<n, "weight">> \in DOMAIN encrypted_layers /\ wrapped[n] = CryptoLayer(n)
              \/ <<n, "weight">> \in DOMAIN obfuscated_layers /\ wrapped[n] = ObfuscatedLayer(n)
  BY DEF IInv, WrapInv
<1>. DEFINE
  Wrapped ==
    /\ parameters' \subseteq Names
    /\ DOMAIN wrapped' =
         {n \in DOMAIN network.modules \ named_modules' : network.modules[n] \in Wrappable}
    /\ \A n \in DOMAIN wrapped' :
         /\ <<n, "weight">> \notin parameters' /\ <<n, "bias">> \notin parameters'
         /\ \/ <<n, "weight">> \in DOMAIN encrypted_layers /\ wrapped'[n] = CryptoLayer(n)
            \/ <<n, "weight">> \in DOMAIN obfuscated_layers /\ wrapped'[n] = ObfuscatedLayer(n)
  Wraps(layer) ==
    /\ wrapped' = Put(wrapped, m, layer) /\ parameters' \subseteq parameters
    /\ <<m, "weight">> \notin parameters' /\ <<m, "bias">> \notin parameters'
    /\ \/ <<m, "weight">> \in DOMAIN encrypted_layers /\ layer = CryptoLayer(m)
       \/ <<m, "weight">> \in DOMAIN obfuscated_layers /\ layer = ObfuscatedLayer(m)
<1>3. Wrapped => WrapInv'
  BY <1>1, <1>2 DEF WrapInv, Names, CryptoLayer, ObfuscatedLayer, BiasOf, Lookup
<1>4. CASE network.modules[m] \notin Wrappable /\ UNCHANGED <<parameters, wrapped>>
  BY <1>1, <1>2, <1>3, <1>4
<1>5. ASSUME network.modules[m] \in Wrappable, NEW layer, Wraps(layer)
      PROVE  Wrapped
  <2>1. /\ DOMAIN wrapped' = DOMAIN wrapped \cup {m} /\ wrapped'[m] = layer
        /\ \A n \in DOMAIN wrapped : n # m => wrapped'[n] = wrapped[n]
    BY <1>5 DEF Put
  <2>2. m \notin DOMAIN wrapped
    BY <1>1, <1>2
  <2>3. DOMAIN wrapped' =
          {n \in DOMAIN network.modules \ named_modules' : network.modules[n] \in Wrappable}
    BY <1>1, <1>2, <1>5, <2>1
  <2>. QED
    BY <1>2, <1>5, <2>1, <2>2, <2>3
<1>6. CASE network.modules[m] \in Wrappable /\ WrapEncrypted(m)
  <2>1. /\ <<m, "weight">> \in DOMAIN encrypted_layers
        /\ parameters' = parameters \ ({<<m, "weight">>} \cup
                           ({<<m, "bias">>} \cap DOMAIN encrypted_layers))
        /\ wrapped' = Put(wrapped, m, CryptoLayer(m))
    BY <1>6 DEF WrapEncrypted, CryptoLayer, BiasOf
  <2>2. <<m, "bias">> \notin parameters'
    BY <1>1, <1>2, <1>6, <2>1, BiasFacts DEF IInv
  <2>3. Wraps(CryptoLayer(m))
    BY <2>1, <2>2
  <2>. HIDE DEF Wraps, Wrapped
  <2>. QED
    BY <1>3, <1>5, <1>6, <2>3
<1>7. CASE network.modules[m] \in Wrappable /\ WrapObfuscated(m)
  <2>1. /\ <<m, "weight">> \in DOMAIN obfuscated_layers
        /\ parameters' = parameters \ ({<<m, "weight">>} \cup
                           ({<<m, "bias">>} \cap DOMAIN encrypted_layers))
    BY <1>7 DEF WrapObfuscated
  <2>2. MixerOf(<<m, "weight">>) \in DOMAIN mixers
    BY <2>1 DEF IInv, ObfuscatedInv
  <2>3. <<m, "bias">> \notin parameters'
    BY <1>1, <1>2, <1>7, <2>1, BiasFacts DEF IInv
  <2>4. wrapped' = Put(wrapped, m, ObfuscatedLayer(m))
    BY <1>7, <2>2 DEF WrapObfuscated, ObfuscatedLayer, BiasOf, Lookup
  <2>5. Wraps(ObfuscatedLayer(m))
    BY <2>1, <2>3, <2>4
  <2>. HIDE DEF Wraps, Wrapped
  <2>. QED
    BY <1>3, <1>5, <1>7, <2>5
<1>. QED
  BY <1>1, <1>4, <1>6, <1>7

-----------------------------------------------------------------------------
(***************************************************************************)
(* The forward pass.                                                       *)
(***************************************************************************)

\* What a wrapped module has, and where it comes from.
IsCrypto(m, p) ==
  /\ wrapped[m] = CryptoLayer(m) /\ wrapped[m].weight = Ciphertext(p) /\ Plainly(p)
IsObfuscated(m, p) ==
  /\ wrapped[m] = ObfuscatedLayer(m) /\ wrapped[m].weight = Obfuscated(p, prng) /\ ~Plainly(p)
  /\ prng[<<p.name, "out">>] \in Bijection(UpTo(p.shape[1]), UpTo(p.shape[1]))
  /\ prng[<<p.name, "in">>] \in Bijection(UpTo(p.shape[2]), UpTo(p.shape[2]))
  /\ mixers[MixerOf(p.name)] = MixerTensor(p)
  /\ Len(p.shape) = 2

LEMMA LayerFacts ==
  ASSUME IInv, NEW m \in DOMAIN wrapped
  PROVE  /\ todo = <<>>
         /\ \E p \in Done : /\ p.name = <<m, "weight">>
                            /\ IsCrypto(m, p) \/ IsObfuscated(m, p)
<1>1. \/ <<m, "weight">> \in DOMAIN encrypted_layers /\ wrapped[m] = CryptoLayer(m)
      \/ <<m, "weight">> \in DOMAIN obfuscated_layers /\ wrapped[m] = ObfuscatedLayer(m)
  BY DEF IInv, WrapInv
<1>2. todo = <<>>
  BY DEF IInv, WrapInv
<1>3. CASE <<m, "weight">> \in DOMAIN encrypted_layers /\ wrapped[m] = CryptoLayer(m)
  <2>1. PICK p \in Done : Plainly(p) /\ p.name = <<m, "weight">>
    BY <1>3 DEF IInv, EncryptedInv
  <2>2. encrypted_layers[<<m, "weight">>] = Ciphertext(p)
    BY <2>1 DEF IInv, EncryptedInv
  <2>3. wrapped[m].weight = encrypted_layers[<<m, "weight">>]
    BY <1>3 DEF CryptoLayer
  <2>. QED
    BY <1>2, <1>3, <2>1, <2>2, <2>3 DEF IsCrypto
<1>4. CASE <<m, "weight">> \in DOMAIN obfuscated_layers /\ wrapped[m] = ObfuscatedLayer(m)
  <2>1. PICK p \in Done : ~Plainly(p) /\ p.name = <<m, "weight">>
    BY <1>4 DEF IInv, ObfuscatedInv
  <2>2. /\ prng[<<p.name, "out">>] \in Bijection(UpTo(p.shape[1]), UpTo(p.shape[1]))
        /\ prng[<<p.name, "in">>] \in Bijection(UpTo(p.shape[2]), UpTo(p.shape[2]))
        /\ obfuscated_layers[p.name] = Obfuscated(p, prng)
        /\ mixers[MixerOf(p.name)] = MixerTensor(p)
    BY <2>1 DEF IInv, ObfuscatedInv
  <2>3. wrapped[m].weight = obfuscated_layers[<<m, "weight">>]
    BY <1>4 DEF ObfuscatedLayer
  <2>4. Len(p.shape) = 2
    BY <2>1 DEF Plainly, IsObfuscable
  <2>. QED
    BY <1>2, <1>4, <2>1, <2>2, <2>3, <2>4 DEF IsObfuscated
<1>. QED
  BY <1>1, <1>3, <1>4

LEMMA HasBiasFacts ==
  ASSUME IInv, NEW m \in DOMAIN wrapped
  PROVE  HasBias(m) <=> <<m, "bias">> \in Names
<1>1. wrapped[m] = CryptoLayer(m) \/ wrapped[m] = ObfuscatedLayer(m)
  BY LayerFacts DEF IsCrypto, IsObfuscated
<1>2. wrapped[m].bias = BiasOf(m)
  BY <1>1 DEF CryptoLayer, ObfuscatedLayer
<1>3. todo = <<>>
  BY LayerFacts
<1>4. m \in DOMAIN network.modules /\ network.modules[m] \in Wrappable
  BY DEF IInv, WrapInv
<1>. QED
  BY <1>2, <1>3, <1>4, BiasFacts DEF HasBias, IInv

\* A Linear's shape has two numbers of features, all of them channels.
LEMMA ShapeFacts ==
  ASSUME IInv, NEW m \in DOMAIN wrapped, IsLinear(m), NEW p \in Done,
         IsCrypto(m, p) \/ IsObfuscated(m, p)
  PROVE  /\ wrapped[m].weight.shape = p.shape /\ Len(p.shape) = 2
         /\ UpTo(p.shape[1]) \subseteq Channels /\ UpTo(p.shape[2]) \subseteq Channels
<1>1. wrapped[m].weight.shape = p.shape
  BY DEF IsCrypto, IsObfuscated, Ciphertext, Obfuscated, Encrypt
<1>2. Len(p.shape) = 2
  BY <1>1 DEF IsLinear
<1>3. \E i \in 1..Len(network.state_dict) : network.state_dict[i] = p
  BY LayerFacts, AllAreDone DEF IInv
<1>. QED
  BY <1>1, <1>2, <1>3, NetworkFacts DEF IInv

LEMMA PreHookKeeps ==
  ASSUME IInv, NEW m \in DOMAIN wrapped, PreHook(m)
  PROVE  ForwardInv'
<1>1. /\ named_modules = {} /\ module' = m /\ stage' \in {"forward", "raised"}
      /\ IsLinear(m) => x' = HookedInput(m)
      /\ UNCHANGED <<network, prng, wrapped, named_modules>>
  <2>1. IsLinear(m) => x' = HookedInput(m)
    BY DEF PreHook, HookedInput
  <2>. QED
    BY <2>1 DEF PreHook, modules
<1>2. IsLinear(module)' /\ stage' = "forward" => x' = HookedInput(m)
  BY <1>1 DEF IsLinear
<1>3. IsLinear(module)' /\ stage' = "forward" => x' = HookedInput(module)'
  BY <1>1, <1>2 DEF HookedInput
<1>. QED
  BY <1>1, <1>3 DEF ForwardInv, WrappedLayerComputesTheSame

LEMMA ForwardKeeps ==
  ASSUME IInv, Forward
  PROVE  ForwardInv'
<1>. DEFINE m == module
<1>1. /\ stage = "forward" /\ stage' = "post" /\ named_modules = {} /\ m \in DOMAIN wrapped
      /\ UNCHANGED <<network, prng, wrapped, named_modules, module>>
  BY DEF Forward, modules, IInv, ForwardInv
<1>2. ASSUME IsLinear(m)
      PROVE  output' = RawOutput(m)
  <2>1. PICK p \in Done : p.name = <<m, "weight">> /\ (IsCrypto(m, p) \/ IsObfuscated(m, p))
    BY <1>1, LayerFacts
  <2>. DEFINE rows == UpTo(p.shape[1])
              columns == UpTo(p.shape[2])
              w == wrapped[m].weight
              Sum(o) == {[x |-> x[i].x, w |-> w.contents[<<o, i>>].w,
                          scale |-> Product(x[i].scale, w.contents[<<o, i>>].scale)] : i \in columns}
              Bias(o) == IF wrapped[m].kind = "crypto" /\ <<m, "bias">> \in Names THEN {o} ELSE {}
  <2>2. w.shape = p.shape /\ Len(p.shape) = 2 /\ rows \subseteq Channels /\ columns \subseteq Channels
    BY <1>1, <1>2, <2>1, ShapeFacts
  <2>3. x = HookedInput(m)
    BY <1>1, <1>2 DEF IInv, ForwardInv
  <2>4. output' = [o \in rows |-> [sum |-> Sum(o), bias |-> Bias(o)]]
    BY <1>1, <1>2, <2>2, HasBiasFacts DEF Forward
  <2>5. CASE IsCrypto(m, p)
    <3>1. wrapped[m].kind = "crypto" /\ w = Ciphertext(p)
      BY <2>5 DEF IsCrypto, CryptoLayer
    <3>2. ASSUME NEW o \in rows, NEW i \in columns
          PROVE  [x |-> x[i].x, w |-> w.contents[<<o, i>>].w,
                  scale |-> Product(x[i].scale, w.contents[<<o, i>>].scale)]
                   = Term(i, <<o, i>>, One)
      <4>1. w.contents[<<o, i>>] = [w |-> <<o, i>>, scale |-> One]
        BY <2>2, <3>1 DEF Ciphertext, Encrypt, Matrix
      <4>2. x[i] = [x |-> i, scale |-> One]
        BY <2>2, <2>3, <3>1 DEF HookedInput
      <4>3. Product(One, One) = One
        BY <2>2, ScalesCancel
      <4>. QED
        BY <4>1, <4>2, <4>3 DEF Term
    <3>3. \A o \in rows : Sum(o) = {Term(i, <<o, i>>, One) : i \in columns}
      BY <3>2
    <3>. HIDE DEF Sum, Bias
    <3>4. output' = [o \in rows |-> [sum |-> {Term(i, <<o, i>>, One) : i \in columns}, bias |-> Bias(o)]]
      BY <2>4, <3>3
    <3>. QED
      BY <2>2, <3>1, <3>4 DEF RawOutput, Bias
  <2>6. CASE IsObfuscated(m, p)
    <3>. DEFINE p_out == prng[<<p.name, "out">>]
                p_in == prng[<<p.name, "in">>]
                scale(o) == Times(One, "out", o, 1)
    <3>1. wrapped[m].kind = "obfuscated" /\ w = Obfuscated(p, prng)
      BY <2>6 DEF IsObfuscated, ObfuscatedLayer
    <3>2. p_in \in Bijection(columns, columns)
      BY <2>6 DEF IsObfuscated
    <3>3. ASSUME NEW o \in rows, NEW i \in columns
          PROVE  [x |-> x[i].x, w |-> w.contents[<<o, i>>].w,
                  scale |-> Product(x[i].scale, w.contents[<<o, i>>].scale)]
                   = Term(p_in[i], <<p_out[o], p_in[i]>>, scale(o))
      <4>1. w.contents[<<o, i>>] =
              [w |-> <<p_out[o], p_in[i]>>, scale |-> Times(Times(One, "out", o, 1), "in", i, 1)]
        BY <2>2, <3>1 DEF Obfuscated, Encrypt, Scramble, Matrix
      <4>2. x[i] = [x |-> p_in[i], scale |-> Times(One, "in", i, -1)]
        BY <2>1, <2>2, <2>3, <3>1 DEF HookedInput
      <4>3. Product(Times(One, "in", i, -1), Times(Times(One, "out", o, 1), "in", i, 1)) = scale(o)
        BY <2>2, ScalesCancel
      <4>. QED
        BY <4>1, <4>2, <4>3 DEF Term
    <3>4. \A o \in rows : Sum(o) = {Term(p_in[i], <<p_out[o], p_in[i]>>, scale(o)) : i \in columns}
      BY <3>3
    <3>5. \A o \in rows : Sum(o) = {Term(i, <<p_out[o], i>>, scale(o)) : i \in columns}
      <4>. SUFFICES ASSUME NEW o \in rows
                    PROVE  Sum(o) = {Term(i, <<p_out[o], i>>, scale(o)) : i \in columns}
        OBVIOUS
      <4>. DEFINE a == p_out[o]
                  b == scale(o)
      <4>1. {Term(p_in[i], <<a, p_in[i]>>, b) : i \in columns} = {Term(i, <<a, i>>, b) : i \in columns}
        <5>1. p_in \in [columns -> columns] /\ \A j \in columns : \E i \in columns : p_in[i] = j
          BY <3>2, PermutationFacts
        <5>. DEFINE F(i) == Term(i, <<a, i>>, b)
        <5>. HIDE DEF F, p_in, columns
        <5>2. {F(p_in[i]) : i \in columns} = {F(i) : i \in columns}
          BY <5>1
        <5>. QED
          BY <5>2 DEF F
      <4>. HIDE DEF Sum
      <4>. QED
        BY <3>4, <4>1
    <3>. HIDE DEF Sum, Bias
    <3>6. output' = [o \in rows |-> [sum |-> {Term(i, <<p_out[o], i>>, scale(o)) : i \in columns},
                                     bias |-> Bias(o)]]
      BY <2>4, <3>5
    <3>. QED
      BY <2>1, <2>2, <3>1, <3>6, Zenon DEF RawOutput, Bias
  <2>. QED
    BY <2>1, <2>5, <2>6
<1>3. IsLinear(module)' => output' = RawOutput(module)'
  <2>1. IsLinear(module)' => IsLinear(m)
    BY <1>1 DEF IsLinear
  <2>2. output' = RawOutput(m) => output' = RawOutput(module)'
    BY <1>1 DEF RawOutput, Names
  <2>. QED
    BY <1>2, <2>1, <2>2
<1>. QED
  BY <1>1, <1>3 DEF ForwardInv, WrappedLayerComputesTheSame

LEMMA PostHookKeeps ==
  ASSUME IInv, PostHook
  PROVE  ForwardInv'
<1>. DEFINE m == module
            shape == wrapped[m].weight.shape
            Expected == [j \in UpTo(shape[1]) |->
                           [sum |-> {Term(i, <<j, i>>, One) : i \in UpTo(shape[2])},
                            bias |-> IF <<m, "bias">> \in Names THEN {j} ELSE {}]]
<1>1. /\ stage = "post" /\ stage' \in {"returned", "mixed", "raised"}
      /\ named_modules = {} /\ m \in DOMAIN wrapped
      /\ UNCHANGED <<network, prng, wrapped, named_modules, module>>
  BY DEF PostHook, modules, IInv, ForwardInv
<1>2. ASSUME IsLinear(m)
      PROVE  output' = Expected
  <2>1. PICK p \in Done : p.name = <<m, "weight">> /\ (IsCrypto(m, p) \/ IsObfuscated(m, p))
    BY <1>1, LayerFacts
  <2>. DEFINE rows == UpTo(p.shape[1])
              columns == UpTo(p.shape[2])
  <2>2. shape = p.shape /\ rows \subseteq Channels
    BY <1>1, <1>2, <2>1, ShapeFacts
  <2>3. output = RawOutput(m)
    BY <1>1, <1>2 DEF IInv, ForwardInv
  <2>4. CASE IsCrypto(m, p)
    <3>1. wrapped[m].kind = "crypto"
      BY <2>4 DEF IsCrypto, CryptoLayer
    <3>2. output' = RawOutput(m)
      BY <2>3, <3>1 DEF PostHook
    <3>. QED
      BY <3>1, <3>2 DEF RawOutput
  <2>5. CASE IsObfuscated(m, p)
    <3>. DEFINE p_out == prng[<<p.name, "out">>]
                inverse == AntiFunction(p_out)
                Sum(o) == {Term(i, <<p_out[o], i>>, Times(One, "out", o, 1)) : i \in columns}
                Restored(o) == {[t EXCEPT !.scale = Times(@, "out", o, -1)] : t \in Sum(o)}
                Bias(j) == IF HasBias(m) THEN {j} ELSE {}
                Row(k) == {Term(i, <<k, i>>, One) : i \in columns}
    <3>1. wrapped[m].kind = "obfuscated"
      BY <2>5 DEF IsObfuscated, ObfuscatedLayer
    <3>2. output = [o \in rows |-> [sum |-> Sum(o), bias |-> {}]]
      BY <2>1, <2>2, <2>3, <3>1, Zenon DEF RawOutput
    <3>3. \A j \in rows : inverse[j] \in rows /\ p_out[inverse[j]] = j
      BY <2>5, PermutationFacts DEF IsObfuscated
    <3>4. ASSUME NEW o \in rows
          PROVE  Restored(o) = Row(p_out[o])
      <4>. DEFINE a == p_out[o]
                  b == Times(One, "out", o, 1)
      <4>1. Times(b, "out", o, -1) = One
        BY <2>2, ScalesCancel
      <4>. DEFINE Restore(t) == [t EXCEPT !.scale = Times(@, "out", o, -1)]
                  From(i) == Term(i, <<a, i>>, b)
                  To(i) == Term(i, <<a, i>>, One)
      <4>2. \A i : Restore(From(i)) = To(i)
        <5>. HIDE DEF b, a
        <5>. QED
          BY <4>1 DEF Term
      <4>3. {Restore(t) : t \in {From(i) : i \in columns}} = {To(i) : i \in columns}
        <5>. HIDE DEF Restore, From, To, columns
        <5>. QED
          BY <4>2
      <4>. QED
        BY <4>3
    <3>5. output' = [j \in rows |-> [sum |-> Restored(inverse[j]), bias |-> Bias(j)]]
      <4>1. /\ DOMAIN output = rows
            /\ \A o \in rows : output[o].sum = Sum(o)
        BY <3>2
      <4>2. output' = [j \in DOMAIN output |->
                         [sum |-> {[t EXCEPT !.scale = Times(@, "out", inverse[j], -1)] :
                                   t \in output[inverse[j]].sum},
                          bias |-> Bias(j)]]
        BY <2>1, <3>1 DEF PostHook, Unscramble
      <4>. HIDE DEF Sum, inverse, rows, Bias
      <4>. QED
        BY <3>3, <4>1, <4>2
    <3>6. \A j \in rows : Restored(inverse[j]) = Row(j)
      <4>. HIDE DEF Restored, inverse, rows, Row, p_out
      <4>. QED
        BY <3>3, <3>4
    <3>7. HasBias(m) <=> <<m, "bias">> \in Names
      BY <1>1, HasBiasFacts
    <3>8. output' = [j \in rows |-> [sum |-> Row(j), bias |-> Bias(j)]]
      <4>. HIDE DEF Restored, inverse, rows, Bias, Row
      <4>. QED
        BY <3>5, <3>6
    <3>. QED
      BY <2>2, <3>7, <3>8
  <2>. QED
    BY <2>1, <2>4, <2>5
<1>3. WrappedLayerComputesTheSame'
  <2>1. IsLinear(module)' <=> IsLinear(m)
    BY <1>1 DEF IsLinear
  <2>. QED
    BY <1>1, <1>2, <2>1 DEF WrappedLayerComputesTheSame, Term, Names
<1>. QED
  BY <1>1, <1>3 DEF ForwardInv

LEMMA CompileKeepsModules ==
  ASSUME IInv, CompileParameter
  PROVE  WrapInv' /\ ForwardInv'
<1>1. /\ todo # <<>> /\ stage = "idle" /\ named_modules = DOMAIN network.modules
      /\ DOMAIN wrapped = {}
  BY DEF CompileParameter, IInv, WrapInv
<1>2. UNCHANGED <<network, use_mixers, modules, forward>>
  BY DEF CompileParameter
<1>3. WrapInv'
  BY <1>1, <1>2 DEF WrapInv, modules, forward, Names, IInv
<1>4. ForwardInv'
  BY <1>1, <1>2 DEF ForwardInv, WrappedLayerComputesTheSame, modules, forward
<1>. QED
  BY <1>3, <1>4

-----------------------------------------------------------------------------
(***************************************************************************)
(* The inductive invariant.                                                *)
(***************************************************************************)

LEMMA InitHolds ==
  ASSUME Init
  PROVE  IInv
<1>. /\ network \in Networks /\ use_mixers \in BOOLEAN /\ todo = network.state_dict
     /\ encrypted_layers = <<>> /\ obfuscated_layers = <<>> /\ mixers = <<>>
     /\ layer_sizes = <<>> /\ max_layer_size_bytes = 0
     /\ named_modules = DOMAIN network.modules /\ parameters = Names /\ wrapped = <<>>
     /\ stage = "idle"
  BY DEF Init
<1>1. network.state_dict \in Seq(Parameter) /\ Len(todo) \in Nat
  BY NetworkFacts
<1>2. Done = {}
  BY <1>1 DEF Done
<1>3. TodoIsTheRest
  BY <1>1 DEF TodoIsTheRest
<1>4. EncryptedInv /\ ObfuscatedInv
  BY <1>2 DEF EncryptedInv, ObfuscatedInv
<1>5. SizesInv
  BY <1>2 DEF SizesInv, AreSizes
<1>6. WrapInv
  BY DEF WrapInv
<1>7. ForwardInv
  BY DEF ForwardInv, WrappedLayerComputesTheSame
<1>. QED
  BY <1>1, <1>3, <1>4, <1>5, <1>6, <1>7 DEF IInv

LEMMA CompiledStutter ==
  ASSUME IInv, UNCHANGED <<network, prng, use_mixers, todo, compiled>>
  PROVE  /\ network' \in Networks /\ use_mixers' \in BOOLEAN
         /\ TodoIsTheRest' /\ EncryptedInv' /\ ObfuscatedInv' /\ SizesInv'
<1>1. UNCHANGED <<network, prng, use_mixers, todo, encrypted_layers, obfuscated_layers, mixers,
                  layer_sizes, max_layer_size_bytes>>
  BY DEF compiled
<1>2. TodoIsTheRest'
  BY <1>1, Zenon DEF IInv, TodoIsTheRest
<1>3. EncryptedInv'
  BY <1>1, Zenon DEF IInv, EncryptedInv, Done, Plainly, IsBoundary
<1>4. ObfuscatedInv'
  BY <1>1, Zenon DEF IInv, ObfuscatedInv, Done, Plainly, IsBoundary
<1>5. SizesInv'
  BY <1>1, Zenon DEF IInv, SizesInv, Done, Plainly, IsBoundary
<1>. QED
  BY <1>1, <1>2, <1>3, <1>4, <1>5 DEF IInv

LEMMA WrapStutter ==
  ASSUME IInv, todo = <<>>, UNCHANGED <<network, use_mixers, todo, compiled, modules>>
  PROVE  WrapInv'
<1>1. UNCHANGED <<network, use_mixers, todo, encrypted_layers, obfuscated_layers, mixers,
                  named_modules, parameters, wrapped>>
  BY DEF compiled, modules
<1>2. todo' = <<>> /\ WrapInv
  BY <1>1 DEF IInv
<1>3. (/\ named_modules \subseteq DOMAIN network.modules
       /\ parameters \subseteq Names
       /\ DOMAIN wrapped =
            {m \in DOMAIN network.modules \ named_modules : network.modules[m] \in Wrappable}
       /\ \A m \in DOMAIN wrapped :
            /\ <<m, "weight">> \notin parameters /\ <<m, "bias">> \notin parameters
            /\ \/ <<m, "weight">> \in DOMAIN encrypted_layers /\ wrapped[m] = CryptoLayer(m)
               \/ <<m, "weight">> \in DOMAIN obfuscated_layers /\ wrapped[m] = ObfuscatedLayer(m))'
  BY <1>1, <1>2 DEF WrapInv, Names, CryptoLayer, ObfuscatedLayer, BiasOf, Lookup
<1>. QED
  BY <1>2, <1>3, Zenon DEF WrapInv

LEMMA NextKeeps ==
  ASSUME IInv, [Next]_vars
  PROVE  IInv'
<1>1. CASE CompileParameter
  <2>1. network' = network /\ use_mixers' = use_mixers /\ todo # <<>> /\ todo' = Tail(todo)
    BY <1>1 DEF CompileParameter
  <2>2. TodoIsTheRest'
    BY <2>1, NextParameter DEF IInv
  <2>3. EncryptedInv' /\ ObfuscatedInv' /\ SizesInv'
    BY <1>1, EncryptedStep, ObfuscatedStep, SizesStep DEF IInv
  <2>. QED
    BY <1>1, <2>1, <2>2, <2>3, CompileKeepsModules DEF IInv
<1>2. ASSUME NEW m \in named_modules, WrapModule(m)
      PROVE  IInv'
  <2>1. UNCHANGED <<network, prng, use_mixers, todo, compiled>> /\ UNCHANGED forward
    BY <1>2 DEF WrapModule
  <2>2. stage = "idle" /\ stage' = "idle"
    BY <1>2, <2>1 DEF IInv, ForwardInv, forward
  <2>3. ForwardInv'
    BY <2>2 DEF ForwardInv, WrappedLayerComputesTheSame
  <2>. QED
    BY <1>2, <2>1, <2>3, CompiledStutter, WrapModuleKeeps DEF IInv
<1>3. ASSUME NEW m \in DOMAIN wrapped, PreHook(m)
      PROVE  IInv'
  <2>1. UNCHANGED <<network, prng, use_mixers, todo, compiled, modules>>
    BY <1>3 DEF PreHook
  <2>. QED
    BY <1>3, <2>1, CompiledStutter, LayerFacts, WrapStutter, PreHookKeeps DEF IInv
<1>4. CASE Forward \/ PostHook \/ Return
  <2>1. UNCHANGED <<network, prng, use_mixers, todo, compiled, modules, module>> /\ stage # "idle"
    BY <1>4 DEF Forward, PostHook, Return
  <2>2. todo = <<>>
    <3>1. module \in DOMAIN wrapped
      BY <2>1 DEF IInv, ForwardInv
    <3>. QED
      BY <3>1, LayerFacts
  <2>3. ASSUME Return
        PROVE  ForwardInv'
    BY <2>3 DEF Return, ForwardInv, WrappedLayerComputesTheSame
  <2>. QED
    BY <1>4, <2>1, <2>2, <2>3, CompiledStutter, WrapStutter, ForwardKeeps, PostHookKeeps DEF IInv
<1>5. CASE UNCHANGED vars
  <2>1. UNCHANGED <<network, prng, use_mixers, todo, compiled, modules>>
        /\ UNCHANGED <<stage, module, x, output>>
    BY <1>5 DEF vars, forward
  <2>2. WrapInv'
    <3>1. UNCHANGED <<network, use_mixers, todo, encrypted_layers, obfuscated_layers, mixers,
                      named_modules, parameters, wrapped, stage>>
      BY <2>1 DEF compiled, modules
    <3>. QED
      BY <3>1, Zenon DEF IInv, WrapInv, Names, CryptoLayer, ObfuscatedLayer, BiasOf, Lookup
  <2>3. ForwardInv'
    <3>1. UNCHANGED <<network, prng, named_modules, wrapped, stage, module, x, output>>
      BY <2>1 DEF modules
    <3>2. WrappedLayerComputesTheSame'
      BY <3>1 DEF IInv, ForwardInv, IsLinear, Names, WrappedLayerComputesTheSame
    <3>3. IsLinear(module)' <=> IsLinear(module)
      BY <3>1 DEF IsLinear
    <3>4. HookedInput(module)' = HookedInput(module) /\ RawOutput(module)' = RawOutput(module)
      BY <3>1, Zenon DEF HookedInput, RawOutput, Names
    <3>. QED
      BY <3>1, <3>2, <3>3, <3>4 DEF IInv, ForwardInv
  <2>. QED
    BY <2>1, <2>2, <2>3, CompiledStutter DEF IInv
<1>. QED
  BY <1>1, <1>2, <1>3, <1>4, <1>5 DEF Next

\* Compiled parameters are in the dictionary that they belong to, wrapped
\* modules have what the compiler made for them, and a forward pass has at
\* each of its steps what the layer would have, permuted and scaled.
THEOREM CompilerInvariant == Spec => []IInv
<1>1. Init => IInv
  BY InitHolds
<1>2. IInv /\ [Next]_vars => IInv'
  BY NextKeeps
<1>. QED
  BY <1>1, <1>2, PTL DEF Spec

\* Permutation and scales cancel, for every permutation of every network: a
\* wrapped Linear returns what the layer returned before (pre_hook_obfusc
\* and post_hook_obfusc of pytorch_wrapper.py).
THEOREM CompilerWrappedLayerComputesTheSame == Spec => []WrappedLayerComputesTheSame
<1>1. IInv => WrappedLayerComputesTheSame
  BY DEF IInv, ForwardInv
<1>. QED
  BY <1>1, CompilerInvariant, PTL

\* Two parameters with one name are one parameter.
LEMMA NamesAreUnique ==
  ASSUME IInv
  PROVE  /\ Names = {p.name : p \in Done} \cup {todo[i].name : i \in DOMAIN todo}
         /\ \A p \in Done : \A i \in DOMAIN todo : p.name # todo[i].name
         /\ \A p, q \in Done : p.name = q.name => p = q
<1>. DEFINE dict == network.state_dict
            n == Len(dict)
            k == n - Len(todo)
<1>1. /\ n \in Nat /\ DOMAIN dict = 1..n
      /\ \A i, j \in 1..n : dict[i].name = dict[j].name => i = j
  BY NetworkFacts DEF IInv
<1>2. /\ Len(todo) \in 0..n /\ DOMAIN todo = 1..Len(todo)
      /\ \A i \in 1..Len(todo) : todo[i] = dict[k + i]
  BY <1>1 DEF IInv, TodoIsTheRest
<1>3. Done = {dict[i] : i \in 1..k} /\ k \in 0..n
  BY <1>1, <1>2 DEF Done
<1>4. \A j \in 1..n : j \in 1..k \/ \E i \in 1..Len(todo) : j = k + i
  <2>1. n \in Nat /\ Len(todo) \in Nat /\ k \in Nat /\ k = n - Len(todo)
    BY <1>1, <1>2
  <2>. HIDE DEF k, n
  <2>2. ASSUME NEW j \in 1..n, j > k
        PROVE  j - k \in 1..Len(todo) /\ j = k + (j - k)
    BY <2>1, <2>2
  <2>3. ASSUME NEW j \in 1..n, ~(j > k)
        PROVE  j \in 1..k
    BY <2>1, <2>3
  <2>. QED
    BY <2>2, <2>3
<1>5. \A i \in 1..Len(todo) : k + i \in 1..n /\ \A j \in 1..k : j \in 1..n /\ j # k + i
  BY <1>1, <1>2
<1>6. Names = {dict[i].name : i \in 1..n}
  BY <1>1 DEF Names
<1>. HIDE DEF k, n, dict
<1>7. Names = {p.name : p \in Done} \cup {todo[i].name : i \in DOMAIN todo}
  <2>1. ASSUME NEW j \in 1..n
        PROVE  dict[j].name \in {p.name : p \in Done} \cup {todo[i].name : i \in DOMAIN todo}
    <3>1. CASE j \in 1..k
      <4>1. dict[j] \in Done
        BY <1>3, <3>1
      <4>. QED
        BY <4>1
    <3>2. CASE \E i \in 1..Len(todo) : j = k + i
      <4>1. PICK i \in 1..Len(todo) : j = k + i
        BY <3>2
      <4>2. i \in DOMAIN todo /\ dict[j].name = todo[i].name
        BY <1>2, <4>1
      <4>. QED
        BY <4>2
    <3>. QED
      BY <1>4, <3>1, <3>2
  <2>2. ASSUME NEW i \in 1..k
        PROVE  i \in 1..n
    BY <1>1, <1>3, <2>2
  <2>3. ASSUME NEW p \in Done
        PROVE  p.name \in Names
    BY <1>3, <1>6, <2>2, <2>3
  <2>4. ASSUME NEW i \in DOMAIN todo
        PROVE  todo[i].name \in Names
    BY <1>2, <1>5, <1>6, <2>4
  <2>. QED
    BY <1>6, <2>1, <2>3, <2>4
<1>8. \A p \in Done : \A i \in DOMAIN todo : p.name # todo[i].name
  BY <1>1, <1>2, <1>3, <1>5
<1>9. \A p, q \in Done : p.name = q.name => p = q
  <2>1. \A i \in 1..k : i \in 1..n
    BY <1>1, <1>3
  <2>. QED
    BY <1>1, <1>3, <2>1
<1>. QED
  BY <1>7, <1>8, <1>9

LEMMA WellFormed ==
  ASSUME IInv
  PROVE  TypeOK
<1>1. DOMAIN encrypted_layers \cap DOMAIN obfuscated_layers = {}
  BY NamesAreUnique DEF IInv, EncryptedInv, ObfuscatedInv
<1>2. DOMAIN encrypted_layers \cup DOMAIN obfuscated_layers
        = Names \ {todo[i].name : i \in DOMAIN todo}
  <2>1. DOMAIN encrypted_layers \cup DOMAIN obfuscated_layers = {p.name : p \in Done}
    BY DEF IInv, EncryptedInv, ObfuscatedInv
  <2>. QED
    BY <2>1, NamesAreUnique
<1>. QED
  BY <1>1, <1>2 DEF IInv, ObfuscatedInv, SizesInv, WrapInv, ForwardInv, TypeOK

LEMMA Secured ==
  ASSUME IInv
  PROVE  EveryLayerIsSecured
<1>. SUFFICES ASSUME named_modules = {}, NEW m \in DOMAIN network.modules,
                     network.modules[m] \in Wrappable
              PROVE  m \in DOMAIN wrapped /\ \A n \in parameters : n[1] # m
  BY DEF EveryLayerIsSecured
<1>1. m \in DOMAIN wrapped /\ <<m, "weight">> \notin parameters /\ <<m, "bias">> \notin parameters
  BY DEF IInv, WrapInv
<1>2. ASSUME NEW n \in parameters, n[1] = m
      PROVE  FALSE
  <2>1. PICK i \in 1..Len(network.state_dict) : network.state_dict[i].name = n
    BY NetworkFacts DEF IInv, WrapInv, Names
  <2>2. n[2] \in {"weight", "bias"}
    BY <1>2, <2>1, ModuleFacts DEF IInv
  <2>3. n = <<n[1], n[2]>>
    BY <2>1, NetworkFacts, ParameterFacts DEF IInv
  <2>. QED
    BY <1>1, <1>2, <2>2, <2>3
<1>. QED
  BY <1>1, <1>2

\* What a wrapped module holds was counted.
LEMMA Covered ==
  ASSUME IInv
  PROVE  MetadataCoversEveryLease
<1>. SUFFICES ASSUME NEW m \in DOMAIN wrapped,
                     NEW t \in {wrapped[m].weight, wrapped[m].bias, wrapped[m].mixer} \ {Absent}
              PROVE  NumBytes(t.shape, t.dtype) <= max_layer_size_bytes
  BY DEF MetadataCoversEveryLease
<1>1. PICK p \in Done : p.name = <<m, "weight">> /\ (IsCrypto(m, p) \/ IsObfuscated(m, p))
  BY LayerFacts
<1>2. todo = <<>>
  BY LayerFacts
<1>3. \A n \in DOMAIN layer_sizes : layer_sizes[n] <= max_layer_size_bytes
  BY <1>2 DEF IInv, SizesInv
<1>4. \A q \in Done :
        /\ q.name \in DOMAIN layer_sizes
        /\ ~Plainly(q) => MixerOf(q.name) \in DOMAIN layer_sizes
  BY DEF IInv, EncryptedInv, ObfuscatedInv, SizesInv
<1>5. ASSUME NEW q \in Done, Plainly(q)
      PROVE  NumBytes(q.shape, q.dtype) <= max_layer_size_bytes
  BY <1>3, <1>4, <1>5 DEF IInv, SizesInv
<1>6. ASSUME NEW q \in Done, ~Plainly(q)
      PROVE  /\ NumBytes(q.shape, Scaled(q.dtype)) <= max_layer_size_bytes
             /\ NumBytes(Square(q), "float32") <= max_layer_size_bytes
  BY <1>3, <1>4, <1>6 DEF IInv, SizesInv
<1>7. \A q : /\ Ciphertext(q).shape = q.shape /\ Ciphertext(q).dtype = q.dtype
             /\ Obfuscated(q, prng).shape = q.shape /\ Obfuscated(q, prng).dtype = Scaled(q.dtype)
             /\ MixerTensor(q).shape = Square(q) /\ MixerTensor(q).dtype = "float32"
  BY DEF Ciphertext, Obfuscated, MixerTensor, Encrypt
<1>8. CASE t = wrapped[m].weight
  BY <1>1, <1>5, <1>6, <1>7, <1>8 DEF IsCrypto, IsObfuscated
<1>9. CASE t = wrapped[m].bias
  <2>1. t = BiasOf(m) /\ BiasOf(m) # Absent
    BY <1>1, <1>9 DEF IsCrypto, IsObfuscated, CryptoLayer, ObfuscatedLayer
  <2>2. m \in DOMAIN network.modules /\ network.modules[m] \in Wrappable
    BY DEF IInv, WrapInv
  <2>3. PICK q \in Done : Plainly(q) /\ BiasOf(m) = Ciphertext(q)
    BY <1>2, <2>1, <2>2, BiasFacts DEF IInv
  <2>. QED
    BY <1>5, <1>7, <2>1, <2>3
<1>10. CASE t = wrapped[m].mixer
  <2>1. IsObfuscated(m, p) /\ t = mixers[MixerOf(<<m, "weight">>)]
    BY <1>1, <1>10 DEF IsCrypto, IsObfuscated, CryptoLayer, ObfuscatedLayer
  <2>2. t = MixerTensor(p) /\ ~Plainly(p)
    BY <1>1, <2>1 DEF IsObfuscated
  <2>. QED
    BY <1>6, <1>7, <2>2
<1>. QED
  BY <1>8, <1>9, <1>10

\* The additional data of a tensor is what the hooks rebuild.
LEMMA NeverRaised ==
  ASSUME IInv, NoHalfPrecision, HooksAuthenticate, [Next]_vars
  PROVE  HooksAuthenticate'
<1>1. ASSUME NEW m \in DOMAIN wrapped
      PROVE  /\ Authentic(wrapped[m].weight, <<m, "weight">>)
             /\ Authentic(wrapped[m].bias, <<m, "bias">>)
             /\ Authentic(wrapped[m].mixer, MixerOf(<<m, "weight">>))
  <2>1. PICK p \in Done : p.name = <<m, "weight">> /\ (IsCrypto(m, p) \/ IsObfuscated(m, p))
    BY LayerFacts
  <2>2. todo = <<>>
    BY LayerFacts
  <2>3. /\ Authentic(Ciphertext(p), p.name)
        /\ Authentic(MixerTensor(p), MixerOf(p.name))
        /\ Authentic(Obfuscated(p, prng), p.name)
    <3>1. p \in Parameter /\ \E i \in 1..Len(network.state_dict) : network.state_dict[i] = p
      BY <2>2, AllAreDone DEF IInv
    <3>2. DOMAIN network.state_dict = 1..Len(network.state_dict)
      BY NetworkFacts DEF IInv
    <3>3. p.dtype # "float16"
      BY <3>1, <3>2 DEF NoHalfPrecision, IInv
    <3>4. Scaled(p.dtype) = p.dtype
      BY <3>3 DEF Scaled
    <3>. QED
      BY <3>4 DEF Authentic, Ciphertext, MixerTensor, Obfuscated, Encrypt
  <2>4. Authentic(wrapped[m].bias, <<m, "bias">>)
    <3>1. wrapped[m].bias = BiasOf(m)
      BY <2>1 DEF IsCrypto, IsObfuscated, CryptoLayer, ObfuscatedLayer
    <3>2. CASE BiasOf(m) = Absent
      BY <3>1, <3>2 DEF Authentic
    <3>3. CASE BiasOf(m) # Absent
      <4>1. m \in DOMAIN network.modules /\ network.modules[m] \in Wrappable
        BY DEF IInv, WrapInv
      <4>2. PICK q \in Done : q.name = <<m, "bias">> /\ BiasOf(m) = Ciphertext(q)
        BY <2>2, <3>3, <4>1, BiasFacts DEF IInv
      <4>. QED
        BY <3>1, <4>2 DEF Authentic, Ciphertext, Encrypt
    <3>. QED
      BY <3>2, <3>3
  <2>5. Authentic(wrapped[m].mixer, MixerOf(<<m, "weight">>))
    <3>1. wrapped[m].mixer \in {Absent, MixerTensor(p)}
      BY <2>1 DEF IsCrypto, IsObfuscated, CryptoLayer, ObfuscatedLayer
    <3>2. Authentic(Absent, MixerOf(<<m, "weight">>))
      BY DEF Authentic
    <3>. QED
      BY <2>1, <2>3, <3>1, <3>2
  <2>. QED
    BY <2>1, <2>3, <2>4, <2>5 DEF IsCrypto, IsObfuscated
<1>2. ASSUME NEW m \in DOMAIN wrapped, PreHook(m)
      PROVE  HooksAuthenticate'
  BY <1>1, <1>2 DEF PreHook, HooksAuthenticate
<1>3. CASE PostHook
  <2>1. module \in DOMAIN wrapped
    BY <1>3 DEF PostHook, IInv, ForwardInv
  <2>. QED
    BY <1>1, <1>3, <2>1 DEF PostHook, HooksAuthenticate
<1>4. CASE CompileParameter \/ \E m \in named_modules : WrapModule(m)
  BY <1>4 DEF CompileParameter, WrapModule, forward, HooksAuthenticate
<1>5. CASE Forward \/ Return \/ UNCHANGED vars
  BY <1>5 DEF Forward, Return, vars, forward, HooksAuthenticate
<1>. QED
  BY <1>2, <1>3, <1>4, <1>5 DEF Next

\* Every parameter that was compiled is in one dictionary, and in one only.
THEOREM CompilerTypeOK == Spec => []TypeOK
<1>1. IInv => TypeOK
  BY WellFormed
<1>. QED
  BY <1>1, CompilerInvariant, PTL

\* After secure_wrap_model no Linear or Conv2d of any network holds a
\* parameter in the clear.
THEOREM CompilerEveryLayerIsSecured == Spec => []EveryLayerIsSecured
<1>1. IInv => EveryLayerIsSecured
  BY Secured
<1>. QED
  BY <1>1, CompilerInvariant, PTL

\* A pool that is sized by max_layer_size_bytes has room for each tensor
\* that the hooks decrypt, mixers included.
THEOREM CompilerMetadataCoversEveryLease == Spec => []MetadataCoversEveryLease
<1>1. IInv => MetadataCoversEveryLease
  BY Covered
<1>. QED
  BY <1>1, CompilerInvariant, PTL

\* No forward pass raises on a sound model that has no float16 parameter:
\* the compiler and the hooks agree on every tensor's additional data.
THEOREM CompilerHooksAuthenticate ==
  ASSUME NoHalfPrecision
  PROVE  Spec => []HooksAuthenticate
<1>1. Init => HooksAuthenticate
  BY DEF Init, HooksAuthenticate
<1>2. IInv /\ HooksAuthenticate /\ [Next]_vars => HooksAuthenticate'
  BY NeverRaised
<1>. QED
  BY <1>1, <1>2, CompilerInvariant, PTL DEF Spec
==============================================================================
