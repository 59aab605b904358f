------------------------- MODULE OnnxModelInvariant -------------------------
(***************************************************************************)
(* The inductive invariant of OnnxModel: which initializers and nodes the  *)
(* loop of rewrite_onnx_graph has written so far, and from which weights.  *)
(***************************************************************************)
EXTENDS OnnxModel

\* The weights that were encrypted: the keys of layer_sizes.
SecuredWeights == DOMAIN layer_sizes
Tensor(w) == original.initializer[<<w, "">>]

\* n is a layer whose weight is to be encrypted, the weights of targets being so.
Targeted(n, targets) ==
  n.op \in Rewritten /\ (targets = AllLayers \/ NameOf(n) \in targets)

\* What is stored of a weight that was encrypted.
Blob(w, part) ==
  [kind |-> part, of |-> w, dtype |-> "uint8",
   shape |-> <<CASE part = "encrypted" -> TensorBytes(Tensor(w))
                 [] part = "iv" -> 12
                 [] part = "tag" -> 16>>,
   aad |-> <<w, Tensor(w).shape, Tensor(w).dtype>>]

-----------------------------------------------------------------------------
\* The nodes that are left are the last ones of the original model.
LoopPosition ==
  /\ original \in Models /\ layers_to_encrypt \in Targets
  /\ nodes \in Seq(Range(nodes)) /\ new_nodes \in Seq(Range(new_nodes))
  /\ Len(nodes) + Len(new_nodes) = Len(original.nodes)
  /\ \A i \in 1..Len(nodes) : nodes[i] = original.nodes[Len(new_nodes) + i]

\* An initializer is as it was, or it is a part of a weight that was
\* encrypted and that is gone.
InitializersInv ==
  /\ \A name \in DOMAIN initializer :
       \/ /\ name \in DOMAIN original.initializer /\ name[1] \notin SecuredWeights
          /\ initializer[name] = original.initializer[name]
       \/ name \in SecuredWeights \X Parts
  /\ \A name \in DOMAIN original.initializer :
       name \in DOMAIN initializer \/ name[1] \in SecuredWeights
  /\ \A w \in SecuredWeights :
       /\ <<w, "">> \in DOMAIN original.initializer
       /\ layer_sizes[w] = TensorBytes(Tensor(w))
       /\ \A part \in Parts :
            <<w, part>> \in DOMAIN initializer /\ initializer[<<w, part>>] = Blob(w, part)

\* The secure operator that computes a layer, and the attributes that say
\* how a convolution moves over its input.
SecureOpOf(op) ==
  CASE op \in {"Gemm", "MatMul"} -> "SecureGemm"
    [] op = "Conv" -> "SecureConv"
    [] op = "ConvTranspose" -> "SecureConvTranspose"

Geometry == {"strides", "pads", "dilations", "output_padding"}

SameGeometry(a, b) ==
  \A name \in Geometry : /\ name \in DOMAIN a <=> name \in DOMAIN b
                         /\ name \in DOMAIN a => a[name] = b[name]

\* new is the secure node that stands for the node n of the model, with all
\* that the kernel needs to find and to authenticate the weight.
Replaces(new, n, model) ==
  LET t == model.initializer[<<NameOf(n), "">>] IN
  /\ n.op \in Rewritten /\ new.op \in SecureOps
  /\ new.op = SecureOpOf(n.op)
  /\ new.op # "SecureGemm" => SameGeometry(new.attributes, n.attributes)
  /\ new.inputs = SecureInputs(n)
  /\ {"shape", "dtype", "weight_name"} \subseteq DOMAIN new.attributes
  /\ new.attributes.weight_name = NameOf(n)
  /\ new.attributes.shape = t.shape /\ new.attributes.dtype = t.dtype

\* A node that the loop has passed was replaced, or kept because its weight
\* is not in the graph or not to be encrypted.
NodesInv ==
  /\ \A i \in 1..Len(new_nodes) :
       LET n == original.nodes[i] IN
       \/ Replaces(new_nodes[i], n, original) /\ NameOf(n) \in SecuredWeights
       \/ /\ new_nodes[i] = n
          /\ Targeted(n, layers_to_encrypt) => n.inputs[2] \notin DOMAIN initializer
  /\ \A w \in SecuredWeights : \E i \in 1..Len(new_nodes) :
       /\ Replaces(new_nodes[i], original.nodes[i], original)
       /\ NameOf(original.nodes[i]) = w

\* The metadata bounds every size once the model is saved.
SizesInv ==
  /\ layer_sizes \in [SecuredWeights -> Nat]
  /\ SecuredWeights # {} =>
       \E largest \in SecuredWeights : \A w \in SecuredWeights :
         layer_sizes[w] <= layer_sizes[largest]
  /\ max_layer_size_bytes \in Nat /\ saved \in BOOLEAN
  /\ saved => /\ nodes = <<>>
              /\ \A w \in SecuredWeights : layer_sizes[w] <= max_layer_size_bytes

\* The kernel that runs is that of a secured node, and its tag matched.
KernelInv ==
  /\ stage \in {"unloaded", "created", "loaded", "loop", "done"}
  /\ stage = "unloaded" <=> index = 0
  /\ index # 0 =>
       /\ saved /\ index \in 1..Len(new_nodes)
       /\ node.op \in SecureOps
       /\ kernel = KernelOf(node.op, node.attributes)
  /\ \A c \in DOMAIN y : IsABag(y[c])
  /\ stage = "loop" => left \subseteq Iterations(kernel, x_shape)

\* The loops run on an input that the layer accepts.
ShapesInv ==
  stage \in {"loop", "done"} =>
    /\ \E input \in Inputs :
         x_shape = Onnx!InputShape(layer, weight.shape, input[1], input[2], input[3])
    /\ y_shape = OutputShape(kernel, x_shape)
    /\ LET outputs == Onnx!LayerShape(layer, weight.shape, x_shape)
       IN \A d \in DOMAIN outputs \ {1} : outputs[d] > 0

\* The inductive invariant: rewriting leaves nothing else in the graph, and
\* loading finds what rewriting has written.
IInv == /\ LoopPosition /\ InitializersInv /\ NodesInv /\ SizesInv
        /\ KernelInv /\ ShapesInv

\* All the pairs that the loop of a kernel goes through, and those that the
\* iterations of its loop have done so far.
AllPairs(k, x) == UpTo(x[1]) \X UpTo(k.shape[1])
DonePairs == UNION (Iterations(kernel, x_shape) \ left)

\* The output in the middle of the loop, whichever iterations have run:
\* SecureGemm and SecureConv have assigned the cells of the pairs that are
\* done, for good; SecureConvTranspose has added up what these pairs give.
LoopCells(k, x, ys, cells, done, bias) ==
  /\ DOMAIN cells = UpTo(Elements(ys))
  /\ \A c \in DOMAIN cells :
       IF k.op = "SecureConvTranspose"
       THEN cells[c] = Terms(Products(k, x, ys, done), c)
       ELSE Place(ys, c) \in done =>
              cells[c] = Terms(Products(k, x, ys, AllPairs(k, x)), c) (+) Bias(ys, c, bias)

\* The output in the end.
FinishedCells(k, x, ys, cells, bias) ==
  /\ DOMAIN cells = UpTo(Elements(ys))
  /\ \A c \in DOMAIN cells :
       cells[c] = Terms(Products(k, x, ys, AllPairs(k, x)), c) (+) Bias(ys, c, bias)

CellsInv ==
  /\ stage = "loop" => LoopCells(kernel, x_shape, y_shape, y, DonePairs, HasBias)
  /\ stage = "done" => FinishedCells(kernel, x_shape, y_shape, y, HasBias)

\* Everything the proofs know of a reachable state.  The first part needs no
\* hypothesis on the models; the second does, and is inductive with the first.
LoopInv == IInv /\ CellsInv

-----------------------------------------------------------------------------
\* What the exporters of ONNX models write and the rewriting relies on: a
\* weight is the second input of one node and of no other, ...
OwnWeights ==
  \A m \in Models : \A i, j \in DOMAIN m.nodes : \A k \in DOMAIN m.nodes[j].inputs :
    /\ m.nodes[i].op \in Rewritten
    /\ m.nodes[i].inputs[2] \in DOMAIN m.initializer
    /\ m.nodes[j].inputs[k] = m.nodes[i].inputs[2]
    => i = j /\ k = 2

\* ... and the initializers are float32, the type of the secure operators.
SinglePrecision ==
  \A m \in Models : \A name \in DOMAIN m.initializer : m.initializer[name].dtype = "float32"

Positive == Nat \ {0}

\* The strides, paddings and dilations of a convolution over images.
IsGeometry(a) ==
  /\ Attribute(a, "strides", <<1, 1>>) \in Positive \X Positive
  /\ Attribute(a, "dilations", <<1, 1>>) \in Positive \X Positive
  /\ Attribute(a, "pads", <<0, 0, 0, 0>>) \in Nat \X Nat \X Nat \X Nat
  /\ Attribute(a, "output_padding", <<0, 0>>) \in Nat \X Nat

\* What torch.onnx.export writes: linear layers have the matrix of their
\* weights the way the kernel reads it, one row for every output, ...
IsLinear(n, w) ==
  /\ w \in Nat \X Nat
  /\ Onnx!InFeatures(n, w) = w[2]

\* ... and convolutions a kernel over images.
IsConvolution(n, w) ==
  /\ w \in Nat \X Nat \X Nat \X Nat
  /\ Onnx!Group(n) \in Positive
  /\ IsGeometry(n.attributes)

\* A bias has one element for every output of the layer.
Outputs(n, w) == IF n.op = "ConvTranspose" THEN w[2] ELSE w[1]

ExportedLayers ==
  \A m \in Models : \A i \in DOMAIN m.nodes :
    LET n == m.nodes[i]
        w == m.initializer[n.inputs[2]].shape
    IN
    n.op \in Rewritten /\ n.inputs[2] \in DOMAIN m.initializer =>
      /\ n.op \in {"Gemm", "MatMul"} => IsLinear(n, w)
      /\ n.op \in {"Conv", "ConvTranspose"} => IsConvolution(n, w)
      /\ Len(n.inputs) = 3 => /\ n.inputs[3] \in DOMAIN m.initializer
                              /\ m.initializer[n.inputs[3]].shape = <<Outputs(n, w)>>

\* The layers that the secure operators have attributes for: no groups, no
\* factors, and matrices that are transposed; and no kernel is empty.
SupportedLayers ==
  \A m \in Models : \A i \in DOMAIN m.nodes :
    LET n == m.nodes[i]
        w == m.initializer[n.inputs[2]].shape
    IN
    n.op \in Rewritten /\ n.inputs[2] \in DOMAIN m.initializer =>
      /\ n.op \in {"Gemm", "MatMul"} =>
           /\ Onnx!TransB(n)
           /\ Attribute(n.attributes, "alpha", 1) = 1 /\ Attribute(n.attributes, "beta", 1) = 1
      /\ n.op \in {"Conv", "ConvTranspose"} =>
           Onnx!Group(n) = 1 /\ w[3] # 0 /\ w[4] # 0

\* There is something in every batch.
FullBatches == Inputs \subseteq Positive \X Nat \X Nat
=============================================================================
