---------------------------- MODULE MCOnnxModel ----------------------------
(***************************************************************************)
(* Instances of OnnxModel for TLC: the layers that torch.onnx.export       *)
(* writes, and some that the rewriting is not right for.                   *)
(***************************************************************************)
EXTENDS OnnxModelInvariant

X == <<"x", "">>
Values(name, shape) ==
  (<<name, "">> :> [kind |-> "plain", of |-> name, dtype |-> "float32",
                    shape |-> shape, aad |-> <<>>])
Node(op, inputs, attributes) == [op |-> op, inputs |-> inputs, attributes |-> attributes]
Layer(op, w, attributes) == Node(op, <<X, <<w, "">>>>, attributes)
BiasedLayer(op, w, b, attributes) == Node(op, <<X, <<w, "">>, <<b, "">>>>, attributes)
None == [x \in {} |-> 0]
Linear == [transB |-> 1]

Perceptron ==
  [nodes |-> <<BiasedLayer("Gemm", "w1", "b1", Linear), Node("Relu", <<X>>, None),
               Layer("Gemm", "w2", Linear), Node("MatMul", <<X, X>>, None)>>,
   initializer |-> Values("w1", <<3, 2>>) @@ Values("b1", <<3>>) @@ Values("w2", <<1, 3>>)]

Convolutions ==
  [nodes |-> <<BiasedLayer("Conv", "w1", "b1",
                 [strides |-> <<2, 1>>, pads |-> <<1, 0, 0, 1>>, dilations |-> <<1, 2>>, group |-> 1]),
               Layer("Conv", "w2", None)>>,
   initializer |-> Values("w1", <<2, 1, 2, 2>>) @@ Values("b1", <<2>>)
                     @@ Values("w2", <<1, 2, 1, 2>>)]

Transposed ==
  [nodes |-> <<BiasedLayer("ConvTranspose", "w1", "b1",
                 [strides |-> <<2, 2>>, pads |-> <<1, 0, 0, 1>>, output_padding |-> <<1, 0>>,
                  dilations |-> <<1, 2>>]),
               Layer("ConvTranspose", "w2", None)>>,
   initializer |-> Values("w1", <<2, 1, 3, 2>>) @@ Values("b1", <<1>>)
                     @@ Values("w2", <<1, 2, 1, 2>>)]

ExportedModels == {Perceptron, Convolutions, Transposed}

\* x @ w without transposition.
MatMulModels ==
  {[nodes |-> <<Layer("MatMul", "w1", None)>>, initializer |-> Values("w1", <<2, 2>>)]}

\* Two groups of channels.
GroupedModels ==
  {[nodes |-> <<Layer("Conv", "w1", [group |-> 2])>>, initializer |-> Values("w1", <<2, 1, 1, 1>>)]}

\* Two linear layers share their weight.
TiedModels ==
  {[nodes |-> <<Layer("Gemm", "w1", Linear), Layer("Gemm", "w1", Linear)>>,
    initializer |-> Values("w1", <<2, 2>>)]}

AllOrOne == {AllLayers, {"w2"}}
All == {AllLayers}

Sizes == {<<1, 2, 3>>, <<2, 3, 2>>, <<1, 4, 4>>, <<3, 2, 2>>}

\* The instances satisfy what the theorems about OnnxModel ask of them.
ASSUME MCModelAssumption ==
  /\ SinglePrecision /\ ExportedLayers /\ FullBatches
  /\ Models \subseteq ExportedModels => OwnWeights /\ SupportedLayers
=============================================================================
