--------------------------- MODULE OnnxOperators ---------------------------
(***************************************************************************)
(* What ONNX says the standard operators Gemm, MatMul, Conv and            *)
(* ConvTranspose compute: the layers that rewrite_onnx_graph replaces.     *)
(* The values are the symbolic ones of module SecureOperators.  Every      *)
(* element of the output is given by itself, from the positions of the     *)
(* kernel, the input and the output that meet; w is the shape of the       *)
(* weight, x of the input.  auto_pad is NOTSET.                            *)
(***************************************************************************)
EXTENDS Integers, Sequences, Bags, FiniteSets

Of(node, name, default) ==
  IF name \in DOMAIN node.attributes THEN node.attributes[name] ELSE default

Group(node) == Of(node, "group", 1)
TransB(node) == node.op = "Gemm" /\ Of(node, "transB", 0) # 0

InFeatures(node, w) == IF TransB(node) THEN w[2] ELSE w[1]
OutFeatures(node, w) == IF TransB(node) THEN w[1] ELSE w[2]

\* The shape of an input of b images of h by v, or of b rows.
InputShape(node, w, b, h, v) ==
  CASE node.op \in {"Gemm", "MatMul"} -> <<b, InFeatures(node, w)>>
    [] node.op = "Conv" -> <<b, w[2] * Group(node), h, v>>
    [] node.op = "ConvTranspose" -> <<b, w[1], h, v>>

Stride(node, d) == Of(node, "strides", <<1, 1>>)[d]
Dilation(node, d) == Of(node, "dilations", <<1, 1>>)[d]
PadBefore(node, d) == Of(node, "pads", <<0, 0, 0, 0>>)[d]
PadAfter(node, d) == Of(node, "pads", <<0, 0, 0, 0>>)[d + 2]

\* In dimension d, element e of the kernel placed at position p of the
\* coarse side lies over position q of the fine side, the padded one.
Meets(node, d, q, p, e) ==
  q + PadBefore(node, d) = p * Stride(node, d) + e * Dilation(node, d)

\* Conv: as many outputs as places where the whole kernel fits.
ConvSize(node, w, x, d) ==
  LET padded == x[d + 2] + PadBefore(node, d) + PadAfter(node, d)
      last(p) == p * Stride(node, d) + (w[d + 2] - 1) * Dilation(node, d)
  IN Cardinality({p \in 0..padded : last(p) < padded})

\* ConvTranspose: up to the last position that an input reaches.
ConvTransposeSize(node, w, x, d) ==
  (x[d + 2] - 1) * Stride(node, d) + (w[d + 2] - 1) * Dilation(node, d) + 1
    - PadBefore(node, d) - PadAfter(node, d) + Of(node, "output_padding", <<0, 0>>)[d]

LayerShape(node, w, x) ==
  CASE node.op \in {"Gemm", "MatMul"} -> <<x[1], OutFeatures(node, w)>>
    [] node.op = "Conv" ->
         <<x[1], w[1], ConvSize(node, w, x, 1), ConvSize(node, w, x, 2)>>
    [] node.op = "ConvTranspose" ->
         <<x[1], w[2] * Group(node),
           ConvTransposeSize(node, w, x, 1), ConvTransposeSize(node, w, x, 2)>>

At4(dims, a, b, c, d) == ((a * dims[2] + b) * dims[3] + c) * dims[4] + d

GemmTerms(node, w, x, b, o) ==
  {<<b * x[2] + i,
     IF TransB(node) THEN o * w[2] + i ELSE i * w[2] + o,
     IF node.op = "Gemm" THEN Of(node, "alpha", 1) ELSE 1>> : i \in 0..(x[2] - 1)}

\* A channel of the output sees the channels of the input in its group.
ConvTerms(node, w, x, b, oc, oh, ow) ==
  LET first == (oc \div (w[1] \div Group(node))) * w[2]
  IN {<<At4(x, b, first + t[1], t[2], t[3]), At4(w, oc, t[1], t[4], t[5]), 1>> :
      t \in {u \in (0..(w[2] - 1)) \X (0..(x[3] - 1)) \X (0..(x[4] - 1))
                     \X (0..(w[3] - 1)) \X (0..(w[4] - 1)) :
               Meets(node, 1, u[2], oh, u[4]) /\ Meets(node, 2, u[3], ow, u[5])}}

ConvTransposeTerms(node, w, x, b, oc, oh, ow) ==
  LET inputs == x[2] \div Group(node)
      first == (oc \div w[2]) * inputs
  IN {<<At4(x, b, first + t[1], t[2], t[3]), At4(w, first + t[1], oc % w[2], t[4], t[5]), 1>> :
      t \in {u \in (0..(inputs - 1)) \X (0..(x[3] - 1)) \X (0..(x[4] - 1))
                     \X (0..(w[3] - 1)) \X (0..(w[4] - 1)) :
               Meets(node, 1, oh, u[2], u[4]) /\ Meets(node, 2, ow, u[3], u[5])}}

BiasOf(node, o) ==
  IF Len(node.inputs) = 2 THEN {}
  ELSE {<<-1, o, IF node.op = "Gemm" THEN Of(node, "beta", 1) ELSE 1>>}

\* The output of the layer, row by row in one sequence of cells.
LayerOutput(node, w, x) ==
  LET s == LayerShape(node, w, x)
      Cells(b, o) ==
        IF Len(s) = 2
        THEN {<<b * s[2] + o, GemmTerms(node, w, x, b, o)>>}
        ELSE {<<At4(s, b, o, h, v),
                IF node.op = "Conv" THEN ConvTerms(node, w, x, b, o, h, v)
                ELSE ConvTransposeTerms(node, w, x, b, o, h, v)>> :
              h \in 0..(s[3] - 1), v \in 0..(s[4] - 1)}
  IN UNION {{<<cell[1], SetToBag(cell[2] \cup BiasOf(node, o))>> : cell \in Cells(b, o)} :
            b \in 0..(s[1] - 1), o \in 0..(s[2] - 1)}
=============================================================================
