---------------------------- MODULE OnnxRewrite ----------------------------
(***************************************************************************)
(* rewrite_onnx_graph (python/vajraa/onnx_compiler.py): the weights of the *)
(* layers of an ONNX model are encrypted, and the layers are replaced by   *)
(* nodes of the secure operators, one node after the other.                *)
(*                                                                         *)
(* A name is a pair of a base and a suffix, so that f"{weight_name}_iv" is *)
(* <<weight, "iv">>.  An initializer says what its bytes are: the plain    *)
(* values of a tensor, its ciphertext, its IV or its tag.  The values of a *)
(* tensor are known by its name.                                           *)
(***************************************************************************)
EXTENDS SecureOperators

CONSTANTS
  Models,     \* the models that are rewritten: nodes and initializers
  Targets     \* the values of layers_to_encrypt

Rewritten == {"Gemm", "MatMul", "Conv", "ConvTranspose"}

TensorBytes(t) == NumBytes(t.shape, t.dtype)

\* What onnx.load gives: nodes of the standard operators, of which those with
\* a weight have an input, the weight and perhaps a bias, and initializers in
\* the clear.  No name ends as the names of the encrypted initializers do.
IsModel(m) ==
  /\ m.nodes \in Seq(Range(m.nodes))
  /\ \A n \in Range(m.nodes) :
       /\ n.op \notin SecureOps
       /\ n.inputs \in Seq(Range(n.inputs))
       /\ \A name \in Range(n.inputs) : name = <<name[1], "">>
       /\ n.op \in Rewritten => Len(n.inputs) \in {2, 3}
  /\ \A name \in DOMAIN m.initializer :
       LET t == m.initializer[name] IN
       name = <<name[1], "">> /\ t.kind = "plain" /\ t.shape \in Seq(Nat)

ASSUME ModelAssumption == \A m \in Models : IsModel(m)

VARIABLES
  original,            \* the model at input_path
  layers_to_encrypt,   \* names of weights; AllLayers is None
  initializer,         \* graph.initializer, by name
  nodes,               \* graph.node from the node the loop is at
  new_nodes,           \* the rewritten nodes
  layer_sizes,         \* bytes of each secured weight
  max_layer_size_bytes,\* the metadata of the saved model
  saved                \* onnx.save has been called

graphVars == <<original, layers_to_encrypt, initializer, nodes, new_nodes,
               layer_sizes, max_layer_size_bytes, saved>>

AllLayers == {"*"}

NameOf(node) == node.inputs[2][1]

\* The weight of the node is a static initializer, and matches the list.
\* (initializers, the dictionary, is graph.initializer as it was at the
\* start without the weights that were secured.)
Secured(node) ==
  /\ <<NameOf(node), "">> = node.inputs[2]
  /\ node.inputs[2] \in DOMAIN initializer
  /\ layers_to_encrypt = AllLayers \/ NameOf(node) \in layers_to_encrypt

\* Dictionaries: new and, under other names, old; one without a name.
Over(new, old) ==
  [n \in DOMAIN new \cup DOMAIN old |-> IF n \in DOMAIN new THEN new[n] ELSE old[n]]
Without(dict, name) == [n \in DOMAIN dict \ {name} |-> dict[n]]

\* Mutant of Parts: without the tag.
PartsWithoutTag == {"encrypted", "iv"}

Parts == {"encrypted", "iv", "tag"}

\* encrypt_tensor under name:shape:dtype, and the three initializers.
Encrypted(node) ==
  LET t == initializer[node.inputs[2]]
      size(suffix) == CASE suffix = "encrypted" -> TensorBytes(t)
                        [] suffix = "iv" -> 12
                        [] suffix = "tag" -> 16
  IN [n \in {NameOf(node)} \X Parts |->
        [kind |-> n[2], of |-> n[1], dtype |-> "uint8", shape |-> <<size(n[2])>>,
         aad |-> <<n[1], t.shape, t.dtype>>]]

SizeOf(node) == [w \in {NameOf(node)} |-> TensorBytes(initializer[node.inputs[2]])]

\* Input, ciphertext, IV, tag and, if there is one, the bias.
SecureInputs(node) ==
  LET w == NameOf(node)
  IN <<node.inputs[1], <<w, "encrypted">>, <<w, "iv">>, <<w, "tag">>>>
       \o SubSeq(node.inputs, 3, Len(node.inputs))

WeightAttributes(node) ==
  LET t == initializer[node.inputs[2]]
  IN [shape |-> t.shape, dtype |-> t.dtype, weight_name |-> NameOf(node)]

-----------------------------------------------------------------------------
RewriteInit ==
  /\ original \in Models
  /\ layers_to_encrypt \in Targets
  /\ initializer = original.initializer
  /\ nodes = original.nodes
  /\ new_nodes = <<>>
  /\ layer_sizes = <<>>
  /\ max_layer_size_bytes = 0
  /\ saved = FALSE

\* Mutant of Secure: the plaintext initializer stays in the graph.
SecureButKeep(node, secure_node) ==
  /\ initializer' = Over(Encrypted(node), initializer)
  /\ layer_sizes' = Over(SizeOf(node), layer_sizes)
  /\ new_nodes' = Append(new_nodes, secure_node)
  /\ UNCHANGED <<original, layers_to_encrypt, max_layer_size_bytes, saved>>

\* The weight of the node is replaced by its ciphertext, the node by
\* secure_node.
Secure(node, secure_node) ==
  /\ initializer' = Over(Encrypted(node), Without(initializer, node.inputs[2]))
  /\ layer_sizes' = Over(SizeOf(node), layer_sizes)
  /\ new_nodes' = Append(new_nodes, secure_node)
  /\ UNCHANGED <<original, layers_to_encrypt, max_layer_size_bytes, saved>>

\* Gemm and MatMul: the attributes of the node are dropped.
RewriteGemm ==
  LET node == Head(nodes) IN
  /\ nodes # <<>>
  /\ node.op \in {"Gemm", "MatMul"} /\ Secured(node)
  /\ Secure(node, [op |-> "SecureGemm", inputs |-> SecureInputs(node),
                   attributes |-> WeightAttributes(node)])
  /\ nodes' = Tail(nodes)

\* Conv and ConvTranspose: the attributes of the node are copied.
RewriteConv ==
  LET node == Head(nodes) IN
  /\ nodes # <<>>
  /\ node.op \in {"Conv", "ConvTranspose"} /\ Secured(node)
  /\ Secure(node, [op |-> IF node.op = "Conv" THEN "SecureConv" ELSE "SecureConvTranspose",
                   inputs |-> SecureInputs(node),
                   attributes |-> Over(WeightAttributes(node), node.attributes)])
  /\ nodes' = Tail(nodes)

\* Any other node, and a weight that is not to be secured or is secured
\* already.
KeepNode ==
  LET node == Head(nodes) IN
  /\ nodes # <<>>
  /\ ~(node.op \in Rewritten /\ Secured(node))
  /\ new_nodes' = Append(new_nodes, node)
  /\ nodes' = Tail(nodes)
  /\ UNCHANGED <<original, layers_to_encrypt, initializer, layer_sizes,
                 max_layer_size_bytes, saved>>

\* Mutant of Save: the smallest layer.
SaveSmallest ==
  /\ nodes = <<>> /\ ~saved
  /\ max_layer_size_bytes' = IF layer_sizes = <<>> THEN 0
                             ELSE Min({layer_sizes[w] : w \in DOMAIN layer_sizes})
  /\ saved' = TRUE
  /\ UNCHANGED <<original, layers_to_encrypt, initializer, nodes, new_nodes, layer_sizes>>

\* The metadata replaces what an earlier rewriting wrote.
Save ==
  /\ nodes = <<>> /\ ~saved
  /\ max_layer_size_bytes' = IF layer_sizes = <<>> THEN 0
                             ELSE Max({layer_sizes[w] : w \in DOMAIN layer_sizes})
  /\ saved' = TRUE
  /\ UNCHANGED <<original, layers_to_encrypt, initializer, nodes, new_nodes, layer_sizes>>

Rewrite == RewriteGemm \/ RewriteConv \/ KeepNode \/ Save
=============================================================================
