-------------------------- MODULE SecureOperators --------------------------
(***************************************************************************)
(* The arithmetic of the three kernels of native/src/secure_gemm_op.cpp:   *)
(* what their constructors read from the node, the shape of the output,    *)
(* and the loops of Compute, which OpenMP runs in any order.  Module       *)
(* SecureKernel has the other half of Compute, the key and the slot.       *)
(*                                                                         *)
(* Numbers are symbolic.  A cell of the output is the bag of the terms     *)
(* that were added up in it: <<xi, wi, 1>> stands for x_data[xi] times     *)
(* w_data[wi], with xi and wi the flat indices that the loops compute.     *)
(***************************************************************************)
EXTENDS Bags, Sizes

VARIABLES
  kernel,   \* the kernel object: what its constructor read
  x_shape,  \* shape of input 0
  y_shape,  \* shape passed to KernelContext_GetOutput
  y,        \* y_data
  left,     \* iterations of the parallel loop that have still to run
  stage     \* where Compute is

operatorVars == <<kernel, x_shape, y_shape, y, left, stage>>

Uninitialized == SetToBag({<<-2, 0, 1>>})
BiasTerm(o) == SetToBag({<<-1, o, 1>>})

\* ((a * B + b) * C + c) * D + d: an element of an array of 4 dimensions.
Index4(dims, a, b, c, d) == ((a * dims[2] + b) * dims[3] + c) * dims[4] + d

\* Division of int64_t drops the fraction, also below zero.
Quotient(a, b) == IF a >= 0 THEN a \div b ELSE -((-a) \div b)

-----------------------------------------------------------------------------
(* The constructors.  An attribute that the node does not have is empty.   *)

Attribute(attributes, name, default) ==
  IF name \in DOMAIN attributes THEN attributes[name] ELSE default

SecureGemmKernel(a) ==
  [op |-> "SecureGemm", shape |-> a.shape,
   weight_name |-> Attribute(a, "weight_name", "unknown"),
   dtype |-> Attribute(a, "dtype", "float32")]

SecureConvKernel(a) ==
  [op |-> "SecureConv", shape |-> a.shape,
   strides |-> Attribute(a, "strides", <<1, 1>>),
   pads |-> Attribute(a, "pads", <<0, 0, 0, 0>>),
   dilations |-> Attribute(a, "dilations", <<1, 1>>),
   weight_name |-> Attribute(a, "weight_name", "unknown"),
   dtype |-> Attribute(a, "dtype", "float32")]

\* Mutant of SecureConvTransposeKernel: the channels as in SecureConvKernel.
SecureConvTransposeKernelSwapped(a) ==
  [op |-> "SecureConvTranspose",
   shape |-> <<a.shape[2], a.shape[1], a.shape[3], a.shape[4]>>,
   strides |-> Attribute(a, "strides", <<1, 1>>),
   pads |-> Attribute(a, "pads", <<0, 0, 0, 0>>),
   output_padding |-> Attribute(a, "output_padding", <<0, 0>>),
   dilations |-> Attribute(a, "dilations", <<1, 1>>),
   weight_name |-> Attribute(a, "weight_name", "unknown"),
   dtype |-> Attribute(a, "dtype", "float32")]

SecureConvTransposeKernel(a) ==
  [op |-> "SecureConvTranspose", shape |-> a.shape,
   strides |-> Attribute(a, "strides", <<1, 1>>),
   pads |-> Attribute(a, "pads", <<0, 0, 0, 0>>),
   output_padding |-> Attribute(a, "output_padding", <<0, 0>>),
   dilations |-> Attribute(a, "dilations", <<1, 1>>),
   weight_name |-> Attribute(a, "weight_name", "unknown"),
   dtype |-> Attribute(a, "dtype", "float32")]

\* The operators that RegisterCustomOps adds to the domain vajraa, with the
\* types of their inputs.  The last input, the bias, is optional.
SecureGemmOp ==
  [name |-> "SecureGemm", types |-> <<"float32", "uint8", "uint8", "uint8", "float32">>]
SecureConvOp ==
  [name |-> "SecureConv", types |-> <<"float32", "uint8", "uint8", "uint8", "float32">>]
SecureConvTransposeOp ==
  [name |-> "SecureConvTranspose",
   types |-> <<"float32", "uint8", "uint8", "uint8", "float32">>]

RegisterCustomOps == {SecureGemmOp, SecureConvOp, SecureConvTransposeOp}
SecureOps == {op.name : op \in RegisterCustomOps}

KernelOf(op, attributes) ==
  CASE op = "SecureGemm" -> SecureGemmKernel(attributes)
    [] op = "SecureConv" -> SecureConvKernel(attributes)
    [] op = "SecureConvTranspose" -> SecureConvTransposeKernel(attributes)

\* weight_size_bytes: what Compute leases for the plaintext, 4 bytes a weight.
weight_size_bytes(k) == 4 * Elements(k.shape)

\* The additional data of AES-GCM, name:shape:dtype.
Aad(k) == <<k.weight_name, k.shape, k.dtype>>

-----------------------------------------------------------------------------
(* The shape of the output.                                                *)

GemmShape(k, x) == <<x[1], k.shape[1]>>

ConvShape(k, x) ==
  LET Size(d) == Quotient(x[d + 2] + k.pads[d] + k.pads[d + 2]
                            - k.dilations[d] * (k.shape[d + 2] - 1) - 1,
                          k.strides[d]) + 1
  IN <<x[1], k.shape[1], Size(1), Size(2)>>

ConvTransposeShape(k, x) ==
  LET Size(d) == k.strides[d] * (x[d + 2] - 1) + k.output_padding[d]
                   + k.dilations[d] * (k.shape[d + 2] - 1) + 1
                   - k.pads[d] - k.pads[d + 2]
  IN <<x[1], k.shape[2], Size(1), Size(2)>>

OutputShape(k, x) ==
  CASE k.op = "SecureGemm" -> GemmShape(k, x)
    [] k.op = "SecureConv" -> ConvShape(k, x)
    [] k.op = "SecureConvTranspose" -> ConvTransposeShape(k, x)

-----------------------------------------------------------------------------
(* The loops.  An iteration of a parallel loop is the set of the pairs of  *)
(* indices it stands for: (batch, output feature) in SecureGemm, (batch,   *)
(* output channel) in SecureConv, (batch, input channel) in                *)
(* SecureConvTranspose.                                                    *)

\* With one row, or none, the features are the parallel loop.
GemmIterations(k, x) ==
  IF x[1] > 1
  THEN {{b} \X UpTo(k.shape[1]) : b \in UpTo(x[1])}
  ELSE {{<<0, o>>} : o \in UpTo(k.shape[1])}

\* collapse(2): every pair is an iteration.  shape[1] of the weight of a
\* SecureConv counts the outputs, of a SecureConvTranspose the inputs.
Iterations(k, x) ==
  IF k.op = "SecureGemm"
  THEN GemmIterations(k, x)
  ELSE {{p} : p \in UpTo(x[1]) \X UpTo(k.shape[1])}

\* The products of an iteration: <<index in y, index in x, index in w>>.
GemmProducts(k, it) ==
  LET in == k.shape[2] out == k.shape[1] IN
  {<<p[1] * out + p[2], p[1] * in + i, p[2] * in + i>> : p \in it, i \in UpTo(in)}

\* Where the window of an output (SecureConv) or the image of an input
\* (SecureConvTranspose) at position p has its element e, in dimension d.
Reach(k, d, p, e) == p * k.strides[d] + e * k.dilations[d] - k.pads[d]

\* Mutant of ConvProducts: the border of the input is off by one.
ConvProductsBeyondTheBorder(k, x, ys, it) ==
  LET windows == it \X UpTo(ys[3]) \X UpTo(ys[4]) \X UpTo(k.shape[2])
                    \X UpTo(k.shape[3]) \X UpTo(k.shape[4])
  IN {<<Index4(ys, t[1][1], t[1][2], t[2], t[3]),
        Index4(x, t[1][1], t[4], Reach(k, 1, t[2], t[5]), Reach(k, 2, t[3], t[6])),
        Index4(k.shape, t[1][2], t[4], t[5], t[6])>> :
      t \in {u \in windows : /\ Reach(k, 1, u[2], u[5]) \in 0..x[3]
                             /\ Reach(k, 2, u[3], u[6]) \in 0..x[4]}}

ConvProducts(k, x, ys, it) ==
  LET windows == it \X UpTo(ys[3]) \X UpTo(ys[4]) \X UpTo(k.shape[2])
                    \X UpTo(k.shape[3]) \X UpTo(k.shape[4])
  IN {<<Index4(ys, t[1][1], t[1][2], t[2], t[3]),
        Index4(x, t[1][1], t[4], Reach(k, 1, t[2], t[5]), Reach(k, 2, t[3], t[6])),
        Index4(k.shape, t[1][2], t[4], t[5], t[6])>> :
      t \in {u \in windows : /\ Reach(k, 1, u[2], u[5]) \in UpTo(x[3])
                             /\ Reach(k, 2, u[3], u[6]) \in UpTo(x[4])}}

ConvTransposeProducts(k, x, ys, it) ==
  LET images == it \X UpTo(x[3]) \X UpTo(x[4]) \X UpTo(k.shape[2])
                   \X UpTo(k.shape[3]) \X UpTo(k.shape[4])
  IN {<<Index4(ys, t[1][1], t[4], Reach(k, 1, t[2], t[5]), Reach(k, 2, t[3], t[6])),
        Index4(x, t[1][1], t[1][2], t[2], t[3]),
        Index4(k.shape, t[1][2], t[4], t[5], t[6])>> :
      t \in {u \in images : /\ Reach(k, 1, u[2], u[5]) \in UpTo(ys[3])
                            /\ Reach(k, 2, u[3], u[6]) \in UpTo(ys[4])}}

Products(k, x, ys, it) ==
  CASE k.op = "SecureGemm" -> GemmProducts(k, it)
    [] k.op = "SecureConv" -> ConvProducts(k, x, ys, it)
    [] k.op = "SecureConvTranspose" -> ConvTransposeProducts(k, x, ys, it)

\* The terms that the products ps add to a cell.
Terms(ps, cell) == SetToBag({<<p[2], p[3], 1>> : p \in {q \in ps : q[1] = cell}})

\* The batch and the feature or channel that a cell belongs to.
Place(ys, cell) ==
  LET area == Elements(SubSeq(ys, 3, Len(ys)))
  IN <<cell \div (ys[2] * area), (cell \div area) % ys[2]>>

Bias(ys, cell, bias) == IF bias THEN BiasTerm(Place(ys, cell)[2]) ELSE EmptyBag

-----------------------------------------------------------------------------
OperatorInit ==
  /\ kernel = [op |-> "none"]
  /\ x_shape = <<>>
  /\ y_shape = <<>>
  /\ y = <<>>
  /\ left = {}
  /\ stage = "unloaded"

\* Mutant of GetOutput: the output is not set to zero.
GetOutputUncleared(x) ==
  LET ys == OutputShape(kernel, x) IN
  /\ stage = "loaded"
  /\ x_shape' = x
  /\ y_shape' = ys
  /\ y' = [c \in UpTo(Elements(ys)) |-> Uninitialized]
  /\ left' = Iterations(kernel, x)
  /\ stage' = "loop"
  /\ UNCHANGED kernel

\* KernelContext_GetOutput for an input of shape x.  The memory it returns
\* holds anything; SecureConvTranspose sets it to zero.
GetOutput(x) ==
  LET ys == OutputShape(kernel, x)
      start == IF kernel.op = "SecureConvTranspose" THEN EmptyBag ELSE Uninitialized
  IN
  /\ stage = "loaded"
  /\ x_shape' = x
  /\ y_shape' = ys
  /\ y' = [c \in UpTo(Elements(ys)) |-> start]
  /\ left' = Iterations(kernel, x)
  /\ stage' = "loop"
  /\ UNCHANGED kernel

\* An iteration of SecureGemm or SecureConv assigns the cells of its
\* features: no other iteration writes them.  bias: input 4 is there.
Assign(it, bias) ==
  LET ps == Products(kernel, x_shape, y_shape, it) IN
  /\ stage = "loop" /\ it \in left
  /\ kernel.op # "SecureConvTranspose"
  /\ y' = [c \in DOMAIN y |->
             IF Place(y_shape, c) \in it
             THEN Terms(ps, c) (+) Bias(y_shape, c, bias)
             ELSE y[c]]
  /\ left' = left \ {it}
  /\ UNCHANGED <<kernel, x_shape, y_shape, stage>>

\* Mutant of Accumulate: what was in a cell is overwritten.
AccumulateOverwrites(it) ==
  LET ps == Products(kernel, x_shape, y_shape, it) IN
  /\ stage = "loop" /\ it \in left
  /\ kernel.op = "SecureConvTranspose"
  /\ y' = [c \in DOMAIN y |-> IF Terms(ps, c) = EmptyBag THEN y[c] ELSE Terms(ps, c)]
  /\ left' = left \ {it}
  /\ UNCHANGED <<kernel, x_shape, y_shape, stage>>

\* An iteration of SecureConvTranspose adds to cells that others add to as
\* well: the additions are atomic, their order is free.
Accumulate(it) ==
  LET ps == Products(kernel, x_shape, y_shape, it) IN
  /\ stage = "loop" /\ it \in left
  /\ kernel.op = "SecureConvTranspose"
  /\ y' = [c \in DOMAIN y |-> y[c] (+) Terms(ps, c)]
  /\ left' = left \ {it}
  /\ UNCHANGED <<kernel, x_shape, y_shape, stage>>

\* The barrier at the end of the loop, and the second loop of
\* SecureConvTranspose, which adds the bias.
FinishLoops(bias) ==
  /\ stage = "loop" /\ left = {}
  /\ y' = IF kernel.op = "SecureConvTranspose"
          THEN [c \in DOMAIN y |-> y[c] (+) Bias(y_shape, c, bias)]
          ELSE y
  /\ stage' = "done"
  /\ UNCHANGED <<kernel, x_shape, y_shape, left>>
=============================================================================
