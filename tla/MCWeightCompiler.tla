-------------------------- MODULE MCWeightCompiler --------------------------
(***************************************************************************)
(* Instances of WeightCompiler for TLC.                                    *)
(***************************************************************************)
EXTENDS WeightCompilerInvariant

P(layer, leaf, shape, dtype) == [name |-> <<layer, leaf>>, shape |-> shape, dtype |-> dtype]

\* Linear layers only: fc2 and fc3 are in between, fc10 starts like fc1.
Mlp ==
  [state_dict |-> <<P("fc1", "weight", <<3, 2>>, "float32"), P("fc1", "bias", <<3>>, "float32"),
                    P("fc2", "weight", <<2, 3>>, "float32"), P("fc2", "bias", <<2>>, "float32"),
                    P("fc10", "weight", <<1, 2>>, "float32"),
                    P("fc3", "weight", <<3, 1>>, "float64"),
                    P("fc4", "weight", <<1, 3>>, "float32")>>,
   modules |-> [m \in {"fc1", "fc2", "fc10", "fc3", "fc4"} |-> "Linear"]]

\* A convolution in between, and an embedding and an attention that are not
\* wrapped.
Cnn ==
  [state_dict |-> <<P("conv1", "weight", <<1, 1, 2, 2>>, "float32"), P("emb", "weight", <<2, 1>>, "float32"),
                    P("attn", "in_proj_weight", <<2, 1>>, "float32"),
                    P("conv2", "weight", <<2, 1, 2, 2>>, "float32"), P("conv2", "bias", <<2>>, "float32"),
                    P("fc", "weight", <<2, 3>>, "float32"), P("head", "weight", <<1, 2>>, "float32"),
                    P("head", "bias", <<1>>, "float32")>>,
   modules |-> [m \in {"conv1", "conv2", "emb", "attn", "fc", "head"} |->
                  CASE m \in {"conv1", "conv2"} -> "Conv2d"
                    [] m = "emb" -> "Embedding"
                    [] m = "attn" -> "MultiheadAttention"
                    [] OTHER -> "Linear"]]

\* A network of half precision: fc2 is in between.
HalfMlp ==
  [state_dict |-> <<P("fc1", "weight", <<2, 2>>, "float16"), P("fc2", "weight", <<2, 2>>, "float16"),
                    P("fc2", "bias", <<2>>, "float16"), P("fc3", "weight", <<2, 2>>, "float16")>>,
   modules |-> [m \in {"fc1", "fc2", "fc3"} |-> "Linear"]]

HalfNetworks == {HalfMlp}

TwoNetworks == {Mlp, Cnn}

Layers == {"fc1", "fc2", "fc10", "fc3", "fc4", "conv1", "conv2", "emb", "attn", "fc", "head"}
NamePrefixes == {<<l, l>> : l \in Layers} \cup {<<"fc10", "fc1">>}
             \cup {<<f, "fc">> : f \in {"fc1", "fc2", "fc10", "fc3", "fc4"}}

WeightNames == {<<l, "weight">> : l \in Layers} \cup {<<"attn", "in_proj_weight">>}

ThreeChannels == 0..2
=============================================================================
