----------------------------- MODULE OnnxModel -----------------------------
(***************************************************************************)
(* A model is rewritten, saved, and loaded by ONNX Runtime, which creates  *)
(* the kernel of a secured node and calls its Compute: the compiler        *)
(* (module OnnxRewrite) and the kernels (module SecureOperators) have to   *)
(* agree on what a node's attributes and initializers mean.                *)
(***************************************************************************)
EXTENDS OnnxRewrite

CONSTANT Inputs   \* <<batch, height, width>> of the inputs

Onnx == INSTANCE OnnxOperators

VARIABLE index    \* the secured node that is run, 0 before one is

vars == <<operatorVars, graphVars, index>>

node == new_nodes[index]
layer == original.nodes[index]
weight == original.initializer[layer.inputs[2]]
HasBias == Len(node.inputs) > 4

\* The inputs of a secured node have the types of its operator.
Matches(n, op) ==
  /\ n.op = op.name
  /\ Len(n.inputs) \in {4, 5}
  /\ \A j \in DOMAIN n.inputs :
       n.inputs[j] \in DOMAIN initializer => initializer[n.inputs[j]].dtype = op.types[j]

-----------------------------------------------------------------------------
Init == RewriteInit /\ OperatorInit /\ index = 0

RewriteStep == Rewrite /\ UNCHANGED <<operatorVars, index>>

\* ONNX Runtime creates the kernel of a node.
CreateKernel(i) ==
  /\ saved /\ stage = "unloaded"
  /\ \E op \in RegisterCustomOps : Matches(new_nodes[i], op)
  /\ index' = i
  /\ kernel' = KernelOf(new_nodes[i].op, new_nodes[i].attributes)
  /\ stage' = "created"
  /\ UNCHANGED <<graphVars, x_shape, y_shape, y, left>>

\* vajraa_decrypt_gcm of inputs 1 to 3, under the data that the kernel
\* builds from its attributes.  If the tag does not match, Compute returns.
Decrypt ==
  LET Is(j, kind) ==
        /\ node.inputs[j] \in DOMAIN initializer
        /\ initializer[node.inputs[j]].kind = kind
        /\ initializer[node.inputs[j]].aad = Aad(kernel)
  IN
  /\ stage = "created"
  /\ stage' = IF Is(2, "encrypted") /\ Is(3, "iv") /\ Is(4, "tag")
              THEN "loaded" ELSE "gave up"
  /\ UNCHANGED <<graphVars, index, kernel, x_shape, y_shape, y, left>>

\* The session is run on an input that the layer has an output for.
Feed(input) ==
  LET x == Onnx!InputShape(layer, weight.shape, input[1], input[2], input[3])
      outputs == Onnx!LayerShape(layer, weight.shape, x)
  IN
  /\ stage = "loaded"
  /\ \A d \in DOMAIN outputs \ {1} : outputs[d] > 0
  /\ GetOutput(x)
  /\ UNCHANGED <<graphVars, index>>

Loop ==
  /\ \/ \E it \in left : Assign(it, HasBias) \/ Accumulate(it)
     \/ FinishLoops(HasBias)
  /\ UNCHANGED <<graphVars, index>>

Next ==
  \/ RewriteStep
  \/ \E i \in DOMAIN new_nodes : CreateKernel(i)
  \/ Decrypt
  \/ \E input \in Inputs : Feed(input)
  \/ Loop

Spec == Init /\ [][Next]_vars

-----------------------------------------------------------------------------
\* The state of the rewriting and of the kernel is well formed: the secured
\* weights are counted once and the cells of the output are bags of terms.
TypeOK ==
  /\ original \in Models /\ layers_to_encrypt \in Targets
  /\ \A n \in DOMAIN initializer :
       initializer[n].kind \in {"plain", "encrypted", "iv", "tag"}
  /\ Len(nodes) + Len(new_nodes) = Len(original.nodes)
  /\ \A w \in DOMAIN layer_sizes : layer_sizes[w] \in Nat
  /\ max_layer_size_bytes \in Nat /\ saved \in BOOLEAN
  /\ index \in 0..Len(new_nodes)
  /\ stage \in {"unloaded", "created", "loaded", "loop", "done", "gave up"}
  /\ \A c \in DOMAIN y : IsABag(y[c])
  /\ stage = "loop" => left \subseteq Iterations(kernel, x_shape)

\* The saved model has no plaintext of a weight of the layers it was to
\* secure ("Remove original plaintext initializer to prevent it from
\* saving").
NoPlaintextIsSaved ==
  saved => \A i \in DOMAIN original.nodes :
    LET n == original.nodes[i] IN
    /\ n.op \in Rewritten
    /\ layers_to_encrypt = AllLayers \/ NameOf(n) \in layers_to_encrypt
    => \A name \in DOMAIN initializer :
         initializer[name].kind = "plain" => name # n.inputs[2]

\* ONNX Runtime can load the saved model.  Every input of every node is an
\* initializer of it, unless it was none of the original model (rewriting a
\* node takes nothing away from another), and the inputs of a secured node
\* have the types that its operator was registered with.
SavedModelLoads ==
  saved => \A i \in DOMAIN new_nodes :
    /\ Range(new_nodes[i].inputs) \subseteq
         DOMAIN initializer
           \cup (Range(original.nodes[i].inputs) \ DOMAIN original.initializer)
    /\ new_nodes[i].op \in SecureOps =>
         \E op \in RegisterCustomOps : Matches(new_nodes[i], op)

\* The kernel rebuilds from its attributes exactly the additional data that
\* the compiler encrypted under: a secured node never returns without an
\* output because its tag does not match.
SecuredNodesAuthenticate == stage # "gave up"

\* The ciphertext that is decrypted into the slot fills the bytes that
\* Compute leases, and the pool that is sized by the metadata of the model
\* has slots for them.
LeaseHoldsTheWeight ==
  index # 0 =>
    /\ initializer[node.inputs[2]].shape = <<weight_size_bytes(kernel)>>
    /\ weight_size_bytes(kernel) <= max_layer_size_bytes

\* No iteration of a parallel loop reads or writes outside the input, the
\* weight, the bias and the output, whatever the strides, paddings and
\* dilations are.
AccessInBounds ==
  stage = "loop" => \A it \in left :
    /\ \A p \in Products(kernel, x_shape, y_shape, it) :
         /\ p[1] \in UpTo(Elements(y_shape))
         /\ p[2] \in UpTo(Elements(x_shape))
         /\ p[3] \in UpTo(Elements(kernel.shape))
    /\ HasBias => y_shape[2] <= Elements(initializer[node.inputs[5]].shape)

\* What a secured node computes is what ONNX says the layer it replaces
\* computes, element by element, in whatever order the iterations run:
\* nothing missing, nothing added twice, nothing left uninitialized.
SecuredNodeComputesItsLayer ==
  stage = "done" =>
    /\ y_shape = Onnx!LayerShape(layer, weight.shape, x_shape)
    /\ {<<c, y[c]>> : c \in DOMAIN y} = Onnx!LayerOutput(layer, weight.shape, x_shape)
=============================================================================
