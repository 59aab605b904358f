-------------------------- MODULE OnnxModelProofs --------------------------
(***************************************************************************)
(* Proofs about OnnxModel, for every model and every list of layers.       *)
(***************************************************************************)
EXTENDS OnnxModelInvariant, SizesProofs, FiniteSetTheorems

-----------------------------------------------------------------------------
(***************************************************************************)
(* Sequences and dictionaries.                                             *)
(***************************************************************************)

\* A sequence of anything is one of its own elements.
LEMMA SequenceOf ==
  ASSUME NEW S, NEW s \in Seq(S)
  PROVE  s \in Seq(Range(s))
<1>1. /\ Len(s) \in Nat /\ s \in [1..Len(s) -> S] /\ DOMAIN s = 1..Len(s)
  BY LenProperties
<1>2. PICK R : R = Range(s)
  OBVIOUS
<1>3. \A i \in 1..Len(s) : s[i] \in R
  BY <1>1, <1>2 DEF Range
<1>4. s \in [1..Len(s) -> R]
  BY <1>1, <1>3
<1>5. s \in Seq(R)
  BY <1>1, <1>4
<1>. QED
  BY <1>2, <1>5

LEMMA SequenceFacts ==
  ASSUME NEW s, s \in Seq(Range(s))
  PROVE  /\ Len(s) \in Nat /\ DOMAIN s = 1..Len(s)
         /\ \A i \in 1..Len(s) : s[i] \in Range(s)
<1>1. PICK R : R = Range(s)
  OBVIOUS
<1>2. s \in Seq(R)
  BY <1>1
<1>. QED
  BY <1>1, <1>2, LenProperties, ElementOfSeq

LEMMA AppendFacts ==
  ASSUME NEW s, s \in Seq(Range(s)), NEW e
  PROVE  LET t == Append(s, e) IN
         /\ t \in Seq(Range(t))
         /\ Len(s) \in Nat /\ Len(t) = Len(s) + 1
         /\ t[Len(s) + 1] = e
         /\ \A i \in 1..Len(s) : t[i] = s[i]
<1>0. PICK t : t = Append(s, e)
  OBVIOUS
<1>1. PICK S : S = Range(s) \cup {e}
  OBVIOUS
<1>2. s \in Seq(S) /\ e \in S
  <2>1. Range(s) \subseteq S /\ e \in S
    BY <1>1
  <2>. QED
    BY <2>1, SeqMonotonic
<1>3. /\ t \in Seq(S)
      /\ Len(s) \in Nat /\ Len(t) = Len(s) + 1
      /\ t[Len(s) + 1] = e
      /\ \A i \in 1..Len(s) : t[i] = s[i]
  BY <1>0, <1>2
<1>4. t \in Seq(Range(t))
  BY <1>3, SequenceOf
<1>. QED
  BY <1>0, <1>3, <1>4

LEMMA TailFacts ==
  ASSUME NEW s, s \in Seq(Range(s)), s # <<>>, NEW t, t = Tail(s)
  PROVE  /\ Len(s) \in Nat \ {0}
         /\ Head(s) = s[1]
         /\ t \in Seq(Range(t))
         /\ Len(t) = Len(s) - 1
         /\ \A i \in 1..Len(t) : t[i] = s[i + 1]
<1>1. PICK S : S = Range(s)
  OBVIOUS
<1>2. /\ t \in Seq(S)
      /\ Len(t) = Len(s) - 1
      /\ \A i \in 1..Len(t) : t[i] = s[i + 1]
  BY <1>1, HeadTailProperties
<1>3. Len(s) \in Nat \ {0}
  BY <1>1, EmptySeq
<1>4. Head(s) = s[1]
  BY <1>1, <1>3
<1>. QED
  BY <1>2, <1>3, <1>4, SequenceOf

LEMMA OverFacts ==
  ASSUME NEW new, NEW old, NEW dict, dict = Over(new, old)
  PROVE  /\ DOMAIN dict = DOMAIN new \cup DOMAIN old
         /\ \A n \in DOMAIN new : dict[n] = new[n]
         /\ \A n \in DOMAIN old : n \notin DOMAIN new => dict[n] = old[n]
BY DEF Over

LEMMA WithoutFacts ==
  ASSUME NEW dict, NEW name, NEW rest, rest = Without(dict, name)
  PROVE  /\ DOMAIN rest = DOMAIN dict \ {name}
         /\ \A n \in DOMAIN rest : rest[n] = dict[n]
BY DEF Without

-----------------------------------------------------------------------------
(***************************************************************************)
(* Models.                                                                 *)
(***************************************************************************)

LEMMA ModelFacts ==
  ASSUME NEW m \in Models
  PROVE  /\ m.nodes \in Seq(Range(m.nodes))
         /\ \A i \in 1..Len(m.nodes) :
              LET n == m.nodes[i] IN
              /\ n.op \notin SecureOps
              /\ n.inputs \in Seq(Range(n.inputs))
              /\ \A k \in 1..Len(n.inputs) : n.inputs[k] = <<n.inputs[k][1], "">>
              /\ n.op \in Rewritten =>
                   /\ Len(n.inputs) \in {2, 3}
                   /\ n.inputs[2] = <<NameOf(n), "">>
         /\ \A name \in DOMAIN m.initializer :
              /\ name = <<name[1], "">>
              /\ m.initializer[name].kind = "plain"
              /\ m.initializer[name].shape \in Seq(Nat)
              /\ TensorBytes(m.initializer[name]) \in Nat
              /\ Elements(m.initializer[name].shape) \in Nat
<1>1. IsModel(m)
  BY ModelAssumption
<1>2. /\ m.nodes \in Seq(Range(m.nodes))
      /\ \A i \in 1..Len(m.nodes) : m.nodes[i] \in Range(m.nodes)
  <2>1. m.nodes \in Seq(Range(m.nodes))
    BY <1>1, Zenon DEF IsModel
  <2>. QED
    BY <2>1, SequenceFacts
<1>3. ASSUME NEW i \in 1..Len(m.nodes), NEW n, n = m.nodes[i]
      PROVE  /\ n.op \notin SecureOps
             /\ n.inputs \in Seq(Range(n.inputs))
             /\ \A k \in 1..Len(n.inputs) : n.inputs[k] = <<n.inputs[k][1], "">>
             /\ n.op \in Rewritten =>
                  /\ Len(n.inputs) \in {2, 3}
                  /\ n.inputs[2] = <<NameOf(n), "">>
  <2>1. n \in Range(m.nodes)
    BY <1>2, <1>3
  <2>2. /\ n.op \notin SecureOps
        /\ n.inputs \in Seq(Range(n.inputs))
        /\ \A name \in Range(n.inputs) : name = <<name[1], "">>
        /\ n.op \in Rewritten => Len(n.inputs) \in {2, 3}
    BY <1>1, <2>1, Zenon DEF IsModel
  <2>3. \A k \in 1..Len(n.inputs) : n.inputs[k] \in Range(n.inputs)
    BY <2>2, SequenceFacts
  <2>4. \A k \in 1..Len(n.inputs) : n.inputs[k] = <<n.inputs[k][1], "">>
    BY <2>2, <2>3, Zenon
  <2>5. n.op \in Rewritten => 2 \in 1..Len(n.inputs)
    <3>1. \A l \in {2, 3} : 2 \in 1..l
      OBVIOUS
    <3>. QED
      BY <2>2, <3>1, Zenon
  <2>. QED
    BY <2>2, <2>4, <2>5 DEF NameOf
<1>4. ASSUME NEW name \in DOMAIN m.initializer
      PROVE  /\ name = <<name[1], "">>
             /\ m.initializer[name].kind = "plain"
             /\ m.initializer[name].shape \in Seq(Nat)
             /\ TensorBytes(m.initializer[name]) \in Nat
             /\ Elements(m.initializer[name].shape) \in Nat
  <2>1. /\ name = <<name[1], "">>
        /\ m.initializer[name].kind = "plain"
        /\ m.initializer[name].shape \in Seq(Nat)
        /\ Elements(m.initializer[name].shape) \in Nat
    BY <1>1, <1>4, ElementsIsNat DEF IsModel
  <2>2. PICK e, k :
          e = Elements(m.initializer[name].shape) /\ k = ItemSize(m.initializer[name].dtype)
    OBVIOUS
  <2>3. k \in {2, 4, 8} /\ e \in Nat
    BY <2>1, <2>2 DEF ItemSize
  <2>4. e * k \in Nat
    BY <2>3
  <2>. QED
    BY <2>1, <2>2, <2>4 DEF TensorBytes, NumBytes
<1>. QED
  BY <1>2, <1>3, <1>4

\* The inputs of a secure node: the three parts come between the input and
\* the bias.
LEMMA SecureInputsFacts ==
  ASSUME NEW n, n.inputs \in Seq(Range(n.inputs)), Len(n.inputs) \in {2, 3},
         NEW s, s = SecureInputs(n)
  PROVE  /\ s \in Seq(Range(s))
         /\ (Len(n.inputs) = 2 /\ Len(s) = 4) \/ (Len(n.inputs) = 3 /\ Len(s) = 5)
         /\ s[1] = n.inputs[1]
         /\ s[2] = <<NameOf(n), "encrypted">>
         /\ s[3] = <<NameOf(n), "iv">>
         /\ s[4] = <<NameOf(n), "tag">>
         /\ Len(s) = 5 => s[5] = n.inputs[3]
<1>1. PICK w, in, l, rest, four :
        /\ w = NameOf(n) /\ in = n.inputs /\ l = Len(in)
        /\ rest = SubSeq(in, 3, l)
        /\ four = <<in[1], <<w, "encrypted">>, <<w, "iv">>, <<w, "tag">>>>
  OBVIOUS
<1>2. s = four \o rest
  BY <1>1 DEF SecureInputs
<1>3. PICK S : S = Range(in) \cup {<<w, "encrypted">>, <<w, "iv">>, <<w, "tag">>}
  OBVIOUS
<1>4. l \in {2, 3} /\ \A i \in 1..l : in[i] \in S
  BY <1>1, <1>3, SequenceFacts
<1>5. /\ rest \in Seq(S)
      /\ Len(rest) = l - 2
      /\ l = 3 => rest[1] = in[3]
  BY <1>1, <1>4, SubSeqProperties
<1>6. /\ four \in Seq(S) /\ Len(four) = 4
      /\ four[1] = in[1] /\ four[2] = <<w, "encrypted">>
      /\ four[3] = <<w, "iv">> /\ four[4] = <<w, "tag">>
  BY <1>1, <1>3, <1>4
<1>7. PICK t : t = four \o rest
  OBVIOUS
<1>8. /\ t \in Seq(S)
      /\ Len(t) = l + 2
      /\ \A i \in 1..(l + 2) : t[i] = IF i <= 4 THEN four[i] ELSE rest[i - 4]
  <2>1. /\ t \in Seq(S)
        /\ Len(t) = Len(four) + Len(rest)
        /\ \A i \in 1..(Len(four) + Len(rest)) :
             t[i] = IF i <= Len(four) THEN four[i] ELSE rest[i - Len(four)]
    BY <1>5, <1>6, <1>7, ConcatProperties
  <2>2. Len(four) = 4 /\ Len(four) + Len(rest) = l + 2
    BY <1>4, <1>5, <1>6
  <2>. QED
    BY <2>1, <2>2
<1>9. /\ t[1] = four[1] /\ t[2] = four[2] /\ t[3] = four[3] /\ t[4] = four[4]
      /\ l = 3 => t[5] = rest[1]
  BY <1>4, <1>8
<1>10. s = t
  BY <1>2, <1>7
<1>11. s \in Seq(Range(s))
  BY <1>8, <1>10, SequenceOf
<1>12. /\ Len(s) = l + 2
       /\ s[1] = in[1] /\ s[2] = <<w, "encrypted">> /\ s[3] = <<w, "iv">> /\ s[4] = <<w, "tag">>
       /\ l = 3 => s[5] = in[3]
  BY <1>5, <1>6, <1>8, <1>9, <1>10
<1>13. Len(s) = 5 => l = 3
  <2>1. l = 2 => Len(s) = 4
    BY <1>12
  <2>. QED
    BY <1>4, <2>1
<1>14. (l = 2 /\ Len(s) = 4) \/ (l = 3 /\ Len(s) = 5)
  <2>1. PICK m : m = Len(s)
    OBVIOUS
  <2>2. m = l + 2 /\ l \in {2, 3}
    BY <1>4, <1>12, <2>1
  <2>3. \A x \in {2, 3} : (x = 2 /\ x + 2 = 4) \/ (x = 3 /\ x + 2 = 5)
    OBVIOUS
  <2>. QED
    BY <2>1, <2>2, <2>3, Zenon
<1>. QED
  BY <1>1, <1>11, <1>12, <1>13, <1>14

\* Which of the inputs of a secure node there are.
LEMMA InputIndex ==
  ASSUME NEW l, NEW m, (l = 2 /\ m = 4) \/ (l = 3 /\ m = 5), NEW k \in 1..m
  PROVE  /\ k = 1 \/ k = 2 \/ k = 3 \/ k = 4 \/ (k = 5 /\ m = 5)
         /\ 1 \in 1..l
         /\ m = 5 => 3 \in 1..l
OBVIOUS

\* The constructor keeps what the additional data and the lease are made of.
LEMMA KernelFacts ==
  ASSUME NEW op \in SecureOps, NEW a, {"shape", "dtype", "weight_name"} \subseteq DOMAIN a
  PROVE  /\ Aad(KernelOf(op, a)) = <<a.weight_name, a.shape, a.dtype>>
         /\ weight_size_bytes(KernelOf(op, a)) = 4 * Elements(a.shape)
<1>1. op \in {"SecureGemm", "SecureConv", "SecureConvTranspose"}
  BY DEF SecureOps, RegisterCustomOps, SecureGemmOp, SecureConvOp, SecureConvTransposeOp
<1>2. /\ Attribute(a, "weight_name", "unknown") = a.weight_name
      /\ Attribute(a, "dtype", "float32") = a.dtype
  BY DEF Attribute
<1>3. PICK k : k = KernelOf(op, a)
  OBVIOUS
<1>4. k.weight_name = a.weight_name /\ k.shape = a.shape /\ k.dtype = a.dtype
  <2>1. CASE op = "SecureGemm"
    BY <1>2, <1>3, <2>1 DEF KernelOf, SecureGemmKernel
  <2>2. CASE op = "SecureConv"
    BY <1>2, <1>3, <2>2 DEF KernelOf, SecureConvKernel
  <2>3. CASE op = "SecureConvTranspose"
    BY <1>2, <1>3, <2>3 DEF KernelOf, SecureConvTransposeKernel
  <2>. QED
    BY <1>1, <2>1, <2>2, <2>3
<1>. QED
  BY <1>3, <1>4 DEF Aad, weight_size_bytes

-----------------------------------------------------------------------------
(***************************************************************************)
(* Bags.                                                                   *)
(***************************************************************************)

LEMMA SetIsBag ==
  ASSUME NEW S
  PROVE  IsABag(SetToBag(S))
BY DEF IsABag, SetToBag

LEMMA SumIsBag ==
  ASSUME NEW a, NEW b, IsABag(a), IsABag(b)
  PROVE  IsABag(a (+) b)
<1>. DEFINE S == DOMAIN a \cup DOMAIN b
            Copies(e) == (IF e \in DOMAIN a THEN a[e] ELSE 0) + (IF e \in DOMAIN b THEN b[e] ELSE 0)
<1>1. a (+) b = [e \in S |-> Copies(e)]
  BY DEF (+)
<1>2. ASSUME NEW e \in S
      PROVE  Copies(e) \in {n \in Nat : n > 0}
  BY DEF IsABag
<1>3. [e \in S |-> Copies(e)] \in [S -> {n \in Nat : n > 0}]
  BY <1>2
<1>. HIDE DEF S, Copies
<1>4. DOMAIN (a (+) b) = S
  BY <1>1
<1>. QED
  BY <1>1, <1>3, <1>4 DEF IsABag

-----------------------------------------------------------------------------
(***************************************************************************)
(* Arrays of four dimensions, and of two, row by row.                      *)
(***************************************************************************)

LEMMA FlatIndex ==
  ASSUME NEW A, NEW B, NEW C, NEW D, NEW s, s = <<A, B, C, D>>,
         NEW a, NEW b, NEW c, NEW d
  PROVE  Index4(s, a, b, c, d) = ((a * B + b) * C + c) * D + d
BY DEF Index4

\* Channels are planes of C rows of D elements.
LEMMA Planes ==
  ASSUME NEW A \in Int, NEW B \in Int, NEW C \in Int, NEW D \in Int
  PROVE  /\ Elements(<<A, B, C, D>>) = A * B * C * D
         /\ Elements(SubSeq(<<A, B, C, D>>, 3, 4)) = C * D
<1>. PICK s : s = <<A, B, C, D>>
  OBVIOUS
<1>0. /\ Elements(<<A>>) = A
      /\ Elements(<<A, B>>) = A * B
      /\ Elements(<<A, B, C, D>>) = A * B * C * D
  BY ElementsOfTuples
<1>1. Elements(s) = A * B * C * D
  BY <1>0, Zenon
<1>2. Len(s) = 4 /\ s[1] = A /\ s[2] = B /\ s[3] = C /\ s[4] = D
  OBVIOUS
<1>3. SubSeq(s, 3, 4) = <<C, D>>
  <2>1. s \in Seq(Int) /\ 3 \in 1..5 /\ 4 \in 2..4
    OBVIOUS
  <2>2. PICK t : t = SubSeq(s, 3, 4)
    OBVIOUS
  <2>3. /\ t \in Seq(Int) /\ Len(t) = 2 /\ t[1] = s[3] /\ t[2] = s[4]
    BY <1>2, <2>1, <2>2
  <2>4. t = <<C, D>>
    BY <1>2, <2>3
  <2>. QED
    BY <2>2, <2>4
<1>4. Elements(<<C, D>>) = C * D
  <2>1. /\ Elements(<<C>>) = C
        /\ Elements(<<C, D>>) = C * D
        /\ Elements(<<C, D, A, B>>) = C * D * A * B
    BY ElementsOfTuples
  <2>. QED
    BY <2>1
<1>5. Elements(SubSeq(s, 3, 4)) = C * D
  BY <1>3, <1>4
<1>. QED
  BY <1>1, <1>5

\* An element of an array of four dimensions is in it, and its batch and its
\* channel are its place.
LEMMA ElementOfFour ==
  ASSUME NEW s \in Int \X Int \X Int \X Int,
         NEW a \in UpTo(s[1]), NEW b \in UpTo(s[2]), NEW c \in UpTo(s[3]), NEW d \in UpTo(s[4])
  PROVE  /\ Index4(s, a, b, c, d) \in UpTo(Elements(s))
         /\ Place(s, Index4(s, a, b, c, d)) = <<a, b>>
<1>. PICK A \in Int, B \in Int, C \in Int, D \in Int : s = <<A, B, C, D>>
  OBVIOUS
<1>. a \in UpTo(A) /\ b \in UpTo(B) /\ c \in UpTo(C) /\ d \in UpTo(D)
  OBVIOUS
<1>0. PICK i : i = Index4(s, a, b, c, d)
  OBVIOUS
<1>1. PICK p, q, area : p = a * B + b /\ q = c * D + d /\ area = C * D
  OBVIOUS
<1>2. /\ a \in Int /\ b \in Int /\ c \in Int /\ d \in Int
      /\ p \in Int /\ q \in Int /\ area \in Int /\ A * B \in Int
  BY <1>1 DEF UpTo
<1>3. p \in UpTo(A * B) /\ q \in UpTo(area)
  BY <1>1, RowMajor
<1>4. i = p * area + q
  <2>1. i = (p * C + c) * D + d
    BY <1>0, <1>1, FlatIndex
  <2>. QED
    BY <1>1, <1>2, <2>1
<1>5. /\ i \in UpTo((A * B) * area)
      /\ i \div area = p
  <2>1. PICK ab \in Int : ab = A * B
    BY <1>2
  <2>2. p \in UpTo(ab)
    BY <1>3, <2>1
  <2>3. /\ p * area + q \in UpTo(ab * area)
        /\ (p * area + q) \div area = p
        /\ (p * area + q) % area = q
    BY <1>2, <1>3, <2>2, RowMajor
  <2>. QED
    BY <1>4, <2>1, <2>3
<1>6. p % B = b
  BY <1>1, RowMajor
<1>7. i \div (B * area) = a
  <2>1. b * area + q \in UpTo(B * area)
    BY <1>2, <1>3, RowMajor
  <2>2. PICK v : v = b * area + q
    OBVIOUS
  <2>3. i = a * (B * area) + v
    BY <1>1, <1>2, <1>4, <2>2
  <2>4. PICK w \in Int : w = B * area
    BY <1>2
  <2>5. v \in UpTo(w) /\ i = a * w + v
    BY <2>1, <2>2, <2>3, <2>4
  <2>6. /\ a * w + v \in UpTo(A * w)
        /\ (a * w + v) \div w = a
        /\ (a * w + v) % w = v
    BY <2>5, RowMajor
  <2>. QED
    BY <2>4, <2>5, <2>6
<1>8. (A * B) * area = A * B * C * D
  BY <1>1, <1>2
<1>9. Elements(s) = A * B * C * D /\ Elements(SubSeq(s, 3, Len(s))) = area /\ s[2] = B
  <2>1. Elements(<<A, B, C, D>>) = A * B * C * D
    BY Planes
  <2>2. Elements(SubSeq(<<A, B, C, D>>, 3, 4)) = C * D
    BY Planes
  <2>3. Len(s) = 4
    OBVIOUS
  <2>. QED
    BY <1>1, <2>1, <2>2, <2>3
<1>10. Place(s, i) = <<a, b>>
  BY <1>5, <1>6, <1>7, <1>9 DEF Place
<1>. QED
  BY <1>0, <1>5, <1>8, <1>9, <1>10

\* No two of them are the same.
LEMMA ElementsDiffer ==
  ASSUME NEW s \in Int \X Int \X Int \X Int,
         NEW a \in UpTo(s[1]), NEW b \in UpTo(s[2]), NEW c \in UpTo(s[3]), NEW d \in UpTo(s[4]),
         NEW e \in UpTo(s[1]), NEW f \in UpTo(s[2]), NEW g \in UpTo(s[3]), NEW h \in UpTo(s[4]),
         Index4(s, a, b, c, d) = Index4(s, e, f, g, h)
  PROVE  a = e /\ b = f /\ c = g /\ d = h
<1>. PICK A \in Int, B \in Int, C \in Int, D \in Int : s = <<A, B, C, D>>
  OBVIOUS
<1>. /\ a \in UpTo(A) /\ b \in UpTo(B) /\ c \in UpTo(C) /\ d \in UpTo(D)
     /\ e \in UpTo(A) /\ f \in UpTo(B) /\ g \in UpTo(C) /\ h \in UpTo(D)
  OBVIOUS
<1>1. PICK u, v, p, q : /\ u = a * B + b /\ v = e * B + f
                        /\ p = u * C + c /\ q = v * C + g
  OBVIOUS
<1>0. PICK ab \in Int, abc \in Int : ab = A * B /\ abc = ab * C
  OBVIOUS
<1>2. /\ u \in UpTo(ab) /\ u \div B = a /\ u % B = b
      /\ v \in UpTo(ab) /\ v \div B = e /\ v % B = f
  <2>1. a * B + b \in UpTo(A * B) /\ (a * B + b) \div B = a /\ (a * B + b) % B = b
    BY RowMajor
  <2>2. e * B + f \in UpTo(A * B) /\ (e * B + f) \div B = e /\ (e * B + f) % B = f
    BY RowMajor
  <2>. QED
    BY <1>0, <1>1, <2>1, <2>2
<1>3. /\ p \in UpTo(abc) /\ p \div C = u /\ p % C = c
      /\ q \in UpTo(abc) /\ q \div C = v /\ q % C = g
  <2>1. u * C + c \in UpTo(ab * C) /\ (u * C + c) \div C = u /\ (u * C + c) % C = c
    BY <1>2, RowMajor
  <2>2. v * C + g \in UpTo(ab * C) /\ (v * C + g) \div C = v /\ (v * C + g) % C = g
    BY <1>2, RowMajor
  <2>. QED
    BY <1>0, <1>1, <2>1, <2>2
<1>4. /\ (p * D + d) \div D = p /\ (p * D + d) % D = d
      /\ (q * D + h) \div D = q /\ (q * D + h) % D = h
  <2>1. /\ p * D + d \in UpTo(abc * D) /\ (p * D + d) \div D = p
        /\ (p * D + d) % D = d
    BY <1>3, RowMajor
  <2>2. /\ q * D + h \in UpTo(abc * D) /\ (q * D + h) \div D = q
        /\ (q * D + h) % D = h
    BY <1>3, RowMajor
  <2>. QED
    BY <2>1, <2>2
<1>5. p * D + d = q * D + h
  <2>1. /\ Index4(s, a, b, c, d) = ((a * B + b) * C + c) * D + d
        /\ Index4(s, e, f, g, h) = ((e * B + f) * C + g) * D + h
    BY FlatIndex
  <2>. QED
    BY <1>1, <2>1
<1>6. p = q /\ d = h
  BY <1>4, <1>5
<1>7. u = v /\ c = g
  BY <1>3, <1>6
<1>. QED
  BY <1>2, <1>6, <1>7

\* There are no others.
LEMMA FourOfElement ==
  ASSUME NEW s \in Nat \X Nat \X Nat \X Nat, NEW i \in UpTo(Elements(s))
  PROVE  \E a \in UpTo(s[1]), b \in UpTo(s[2]), c \in UpTo(s[3]), d \in UpTo(s[4]) :
           i = Index4(s, a, b, c, d)
<1>. PICK A \in Nat, B \in Nat, C \in Nat, D \in Nat : s = <<A, B, C, D>>
  OBVIOUS
<1>1. PICK ab, abc : ab = A * B /\ abc = ab * C
  OBVIOUS
<1>2. ab \in Nat /\ abc \in Nat
  BY <1>1
<1>3. i \in UpTo(abc * D)
  BY <1>1, <1>2, Planes
<1>4. PICK p, d : p = i \div D /\ d = i % D
  OBVIOUS
<1>5. p \in UpTo(abc) /\ d \in UpTo(D) /\ i = p * D + d
  BY <1>2, <1>3, <1>4, RowMajorInverse
<1>6. PICK u, c : u = p \div C /\ c = p % C
  OBVIOUS
<1>7. u \in UpTo(ab) /\ c \in UpTo(C) /\ p = u * C + c
  BY <1>1, <1>2, <1>5, <1>6, RowMajorInverse
<1>8. PICK a, b : a = u \div B /\ b = u % B
  OBVIOUS
<1>9. a \in UpTo(A) /\ b \in UpTo(B) /\ u = a * B + b
  BY <1>1, <1>7, <1>8, RowMajorInverse
<1>10. i = Index4(s, a, b, c, d)
  <2>1. Index4(s, a, b, c, d) = ((a * B + b) * C + c) * D + d
    BY FlatIndex
  <2>. QED
    BY <1>5, <1>7, <1>9, <2>1
<1>. QED
  BY <1>5, <1>7, <1>9, <1>10

\* An element of a matrix of A rows of B elements.
LEMMA ElementOfTwo ==
  ASSUME NEW s \in Int \X Int, NEW a \in UpTo(s[1]), NEW b \in UpTo(s[2]),
         NEW i, i = a * s[2] + b
  PROVE  /\ i \in UpTo(Elements(s))
         /\ Place(s, i) = <<a, b>>
<1>. PICK A \in Int, B \in Int : s = <<A, B>>
  OBVIOUS
<1>0. a \in UpTo(A) /\ b \in UpTo(B) /\ i = a * B + b
  OBVIOUS
<1>1. i \in UpTo(A * B) /\ i \div B = a /\ i % B = b /\ a \in Int /\ b \in Int
  BY <1>0, RowMajor DEF UpTo
<1>2. Elements(s) = A * B
  <2>1. /\ Elements(<<A>>) = A
        /\ Elements(<<A, B>>) = A * B
        /\ Elements(<<A, B, A, B>>) = A * B * A * B
    BY ElementsOfTuples
  <2>. QED
    BY <2>1
<1>3. SubSeq(s, 3, Len(s)) = <<>>
  OBVIOUS
<1>4. Elements(SubSeq(s, 3, Len(s))) = 1
  BY <1>3, ElementsOfNone
<1>5. B * 1 = B /\ i \div 1 = i
  BY <1>1
<1>. QED
  BY <1>1, <1>2, <1>4, <1>5 DEF Place
-----------------------------------------------------------------------------
(***************************************************************************)
(* The loops of the kernels.                                               *)
(***************************************************************************)

\* Batches and features or channels are all iterated over, but nothing else.
LEMMA IterationsArePairs ==
  ASSUME NEW k, NEW x, x[1] \in Nat \ {0}, k.shape[1] \in Nat
  PROVE  UNION Iterations(k, x) = UpTo(x[1]) \X UpTo(k.shape[1])
<1>1. PICK rows, columns : rows = UpTo(x[1]) /\ columns = UpTo(k.shape[1])
  OBVIOUS
<1>2. CASE k.op = "SecureGemm" /\ x[1] > 1
  <2>1. Iterations(k, x) = {{b} \X columns : b \in rows}
    BY <1>1, <1>2 DEF Iterations, GemmIterations
  <2>2. UNION {{b} \X columns : b \in rows} = rows \X columns
    OBVIOUS
  <2>. QED
    BY <1>1, <2>1, <2>2
<1>3. CASE k.op = "SecureGemm" /\ ~(x[1] > 1)
  <2>1. Iterations(k, x) = {{<<0, o>>} : o \in columns}
    BY <1>1, <1>3 DEF Iterations, GemmIterations
  <2>2. rows = {0}
    BY <1>1, <1>3 DEF UpTo
  <2>3. UNION {{<<0, o>>} : o \in columns} = {0} \X columns
    OBVIOUS
  <2>. QED
    BY <1>1, <2>1, <2>2, <2>3
<1>4. CASE k.op # "SecureGemm"
  <2>1. Iterations(k, x) = {{p} : p \in rows \X columns}
    BY <1>1, <1>4 DEF Iterations
  <2>2. UNION {{p} : p \in rows \X columns} = rows \X columns
    OBVIOUS
  <2>. QED
    BY <1>1, <2>1, <2>2
<1>. QED
  BY <1>2, <1>3, <1>4

\* The products of SecureGemm, pair by pair.
LEMMA GemmProductsOf ==
  ASSUME NEW k, NEW pairs, NEW p
  PROVE  p \in GemmProducts(k, pairs) <=>
           \E q \in pairs, i \in UpTo(k.shape[2]) :
             p = <<q[1] * k.shape[1] + q[2], q[1] * k.shape[2] + i, q[2] * k.shape[2] + i>>
BY DEF GemmProducts

\* The products of SecureConv: what an element of the kernel lies over.
LEMMA ConvProductsOf ==
  ASSUME NEW k, NEW x, NEW ys, NEW pairs, NEW p
  PROVE  p \in ConvProducts(k, x, ys, pairs) <=>
           \E q \in pairs, oh \in UpTo(ys[3]), ow \in UpTo(ys[4]), ic \in UpTo(k.shape[2]),
              kh \in UpTo(k.shape[3]), kw \in UpTo(k.shape[4]) :
             /\ Reach(k, 1, oh, kh) \in UpTo(x[3]) /\ Reach(k, 2, ow, kw) \in UpTo(x[4])
             /\ p = <<Index4(ys, q[1], q[2], oh, ow),
                      Index4(x, q[1], ic, Reach(k, 1, oh, kh), Reach(k, 2, ow, kw)),
                      Index4(k.shape, q[2], ic, kh, kw)>>
<1>. DEFINE windows == pairs \X UpTo(ys[3]) \X UpTo(ys[4]) \X UpTo(k.shape[2])
                             \X UpTo(k.shape[3]) \X UpTo(k.shape[4])
            Inside(u) == /\ Reach(k, 1, u[2], u[5]) \in UpTo(x[3])
                         /\ Reach(k, 2, u[3], u[6]) \in UpTo(x[4])
            Product(t) == <<Index4(ys, t[1][1], t[1][2], t[2], t[3]),
                            Index4(x, t[1][1], t[4], Reach(k, 1, t[2], t[5]),
                                   Reach(k, 2, t[3], t[6])),
                            Index4(k.shape, t[1][2], t[4], t[5], t[6])>>
<1>1. ConvProducts(k, x, ys, pairs) = {Product(t) : t \in {u \in windows : Inside(u)}}
  BY DEF ConvProducts
<1>2. ASSUME p \in ConvProducts(k, x, ys, pairs)
      PROVE  \E q \in pairs, oh \in UpTo(ys[3]), ow \in UpTo(ys[4]), ic \in UpTo(k.shape[2]),
                kh \in UpTo(k.shape[3]), kw \in UpTo(k.shape[4]) :
               /\ Reach(k, 1, oh, kh) \in UpTo(x[3]) /\ Reach(k, 2, ow, kw) \in UpTo(x[4])
               /\ p = <<Index4(ys, q[1], q[2], oh, ow),
                        Index4(x, q[1], ic, Reach(k, 1, oh, kh), Reach(k, 2, ow, kw)),
                        Index4(k.shape, q[2], ic, kh, kw)>>
  <2>1. PICK t \in windows : Inside(t) /\ p = Product(t)
    BY <1>1, <1>2
  <2>2. /\ t[1] \in pairs /\ t[2] \in UpTo(ys[3]) /\ t[3] \in UpTo(ys[4])
        /\ t[4] \in UpTo(k.shape[2]) /\ t[5] \in UpTo(k.shape[3]) /\ t[6] \in UpTo(k.shape[4])
    OBVIOUS
  <2>. QED
    BY <2>1, <2>2
<1>3. ASSUME NEW q \in pairs, NEW oh \in UpTo(ys[3]), NEW ow \in UpTo(ys[4]),
             NEW ic \in UpTo(k.shape[2]), NEW kh \in UpTo(k.shape[3]), NEW kw \in UpTo(k.shape[4]),
             Reach(k, 1, oh, kh) \in UpTo(x[3]), Reach(k, 2, ow, kw) \in UpTo(x[4])
      PROVE  <<Index4(ys, q[1], q[2], oh, ow),
               Index4(x, q[1], ic, Reach(k, 1, oh, kh), Reach(k, 2, ow, kw)),
               Index4(k.shape, q[2], ic, kh, kw)>> \in ConvProducts(k, x, ys, pairs)
  <2>1. PICK t : t = <<q, oh, ow, ic, kh, kw>>
    OBVIOUS
  <2>2. /\ t \in windows
        /\ t[1] = q /\ t[2] = oh /\ t[3] = ow /\ t[4] = ic /\ t[5] = kh /\ t[6] = kw
    BY <2>1
  <2>3. Inside(t)
    BY <1>3, <2>2
  <2>4. Product(t) \in {Product(u) : u \in {v \in windows : Inside(v)}}
    <3>. HIDE DEF Product, Inside, windows
    <3>. QED
      BY <2>2, <2>3
  <2>. QED
    BY <1>1, <2>2, <2>4
<1>. QED
  BY <1>2, <1>3

\* The products of SecureConvTranspose: what an element of the kernel, placed
\* over an element of the input, lies over in the output.
LEMMA ConvTransposeProductsOf ==
  ASSUME NEW k, NEW x, NEW ys, NEW pairs, NEW p
  PROVE  p \in ConvTransposeProducts(k, x, ys, pairs) <=>
           \E q \in pairs, ih \in UpTo(x[3]), iw \in UpTo(x[4]), oc \in UpTo(k.shape[2]),
              kh \in UpTo(k.shape[3]), kw \in UpTo(k.shape[4]) :
             /\ Reach(k, 1, ih, kh) \in UpTo(ys[3]) /\ Reach(k, 2, iw, kw) \in UpTo(ys[4])
             /\ p = <<Index4(ys, q[1], oc, Reach(k, 1, ih, kh), Reach(k, 2, iw, kw)),
                      Index4(x, q[1], q[2], ih, iw),
                      Index4(k.shape, q[2], oc, kh, kw)>>
<1>. DEFINE images == pairs \X UpTo(x[3]) \X UpTo(x[4]) \X UpTo(k.shape[2])
                            \X UpTo(k.shape[3]) \X UpTo(k.shape[4])
            Inside(u) == /\ Reach(k, 1, u[2], u[5]) \in UpTo(ys[3])
                         /\ Reach(k, 2, u[3], u[6]) \in UpTo(ys[4])
            Product(t) == <<Index4(ys, t[1][1], t[4], Reach(k, 1, t[2], t[5]),
                                   Reach(k, 2, t[3], t[6])),
                            Index4(x, t[1][1], t[1][2], t[2], t[3]),
                            Index4(k.shape, t[1][2], t[4], t[5], t[6])>>
<1>1. ConvTransposeProducts(k, x, ys, pairs) = {Product(t) : t \in {u \in images : Inside(u)}}
  BY DEF ConvTransposeProducts
<1>2. ASSUME p \in ConvTransposeProducts(k, x, ys, pairs)
      PROVE  \E q \in pairs, ih \in UpTo(x[3]), iw \in UpTo(x[4]), oc \in UpTo(k.shape[2]),
                kh \in UpTo(k.shape[3]), kw \in UpTo(k.shape[4]) :
               /\ Reach(k, 1, ih, kh) \in UpTo(ys[3]) /\ Reach(k, 2, iw, kw) \in UpTo(ys[4])
               /\ p = <<Index4(ys, q[1], oc, Reach(k, 1, ih, kh), Reach(k, 2, iw, kw)),
                        Index4(x, q[1], q[2], ih, iw),
                        Index4(k.shape, q[2], oc, kh, kw)>>
  <2>1. PICK t \in images : Inside(t) /\ p = Product(t)
    BY <1>1, <1>2
  <2>2. /\ t[1] \in pairs /\ t[2] \in UpTo(x[3]) /\ t[3] \in UpTo(x[4])
        /\ t[4] \in UpTo(k.shape[2]) /\ t[5] \in UpTo(k.shape[3]) /\ t[6] \in UpTo(k.shape[4])
    OBVIOUS
  <2>. QED
    BY <2>1, <2>2
<1>3. ASSUME NEW q \in pairs, NEW ih \in UpTo(x[3]), NEW iw \in UpTo(x[4]),
             NEW oc \in UpTo(k.shape[2]), NEW kh \in UpTo(k.shape[3]), NEW kw \in UpTo(k.shape[4]),
             Reach(k, 1, ih, kh) \in UpTo(ys[3]), Reach(k, 2, iw, kw) \in UpTo(ys[4])
      PROVE  <<Index4(ys, q[1], oc, Reach(k, 1, ih, kh), Reach(k, 2, iw, kw)),
               Index4(x, q[1], q[2], ih, iw),
               Index4(k.shape, q[2], oc, kh, kw)>> \in ConvTransposeProducts(k, x, ys, pairs)
  <2>1. PICK t : t = <<q, ih, iw, oc, kh, kw>>
    OBVIOUS
  <2>2. /\ t \in images
        /\ t[1] = q /\ t[2] = ih /\ t[3] = iw /\ t[4] = oc /\ t[5] = kh /\ t[6] = kw
    BY <2>1
  <2>3. Inside(t)
    BY <1>3, <2>2
  <2>4. Product(t) \in {Product(u) : u \in {v \in images : Inside(v)}}
    <3>. HIDE DEF Product, Inside, images
    <3>. QED
      BY <2>2, <2>3
  <2>. QED
    BY <1>1, <2>2, <2>4
<1>. QED
  BY <1>2, <1>3

-----------------------------------------------------------------------------
(***************************************************************************)
(* Every index that the loops compute is in its array.                     *)
(***************************************************************************)

InArrays(p, k, x, ys) ==
  /\ p[1] \in UpTo(Elements(ys))
  /\ p[2] \in UpTo(Elements(x))
  /\ p[3] \in UpTo(Elements(k.shape))

\* The shapes that a kernel runs on: its input has the channels that it
\* reads, or more.
GemmRun(k, x, ys) ==
  /\ k.op = "SecureGemm" /\ k.shape \in Nat \X Nat
  /\ x \in (Nat \ {0}) \X {k.shape[2]} /\ ys = <<x[1], k.shape[1]>>

ConvRun(k, x, ys) ==
  /\ k.op = "SecureConv" /\ k.shape \in Nat \X Nat \X Nat \X Nat
  /\ x \in (Nat \ {0}) \X Nat \X Nat \X Nat /\ k.shape[2] <= x[2]
  /\ ys \in {x[1]} \X {k.shape[1]} \X Int \X Int

ConvTransposeRun(k, x, ys) ==
  /\ k.op = "SecureConvTranspose" /\ k.shape \in Nat \X Nat \X Nat \X Nat
  /\ x \in (Nat \ {0}) \X {k.shape[1]} \X Nat \X Nat
  /\ ys \in {x[1]} \X {k.shape[2]} \X Int \X Int

LEMMA GemmInArrays ==
  ASSUME NEW k, NEW x, NEW ys, GemmRun(k, x, ys),
         NEW pairs, pairs \subseteq UpTo(x[1]) \X UpTo(k.shape[1]),
         NEW p \in GemmProducts(k, pairs)
  PROVE  InArrays(p, k, x, ys)
<1>1. PICK q \in pairs, i \in UpTo(k.shape[2]) :
        p = <<q[1] * k.shape[1] + q[2], q[1] * k.shape[2] + i, q[2] * k.shape[2] + i>>
  BY GemmProductsOf
<1>2. PICK b, o : q = <<b, o>> /\ b \in UpTo(x[1]) /\ o \in UpTo(k.shape[1])
  BY <1>1
<1>3. PICK w : w = k.shape
  OBVIOUS
<1>4. /\ w \in Int \X Int /\ x \in Int \X Int /\ ys \in Int \X Int
      /\ x[2] = w[2] /\ ys[1] = x[1] /\ ys[2] = w[1]
  BY <1>3 DEF GemmRun
<1>5. /\ i \in UpTo(w[2]) /\ b \in UpTo(x[1]) /\ o \in UpTo(w[1])
      /\ p[1] = b * ys[2] + o /\ p[2] = b * x[2] + i /\ p[3] = o * w[2] + i
  BY <1>1, <1>2, <1>3, <1>4
<1>6. p[1] \in UpTo(Elements(ys)) /\ Place(ys, p[1]) = <<b, o>>
  BY <1>4, <1>5, ElementOfTwo
<1>7. p[2] \in UpTo(Elements(x)) /\ Place(x, p[2]) = <<b, i>>
  BY <1>4, <1>5, ElementOfTwo
<1>8. p[3] \in UpTo(Elements(w)) /\ Place(w, p[3]) = <<o, i>>
  BY <1>4, <1>5, ElementOfTwo
<1>. QED
  BY <1>3, <1>6, <1>7, <1>8 DEF InArrays

LEMMA ConvInArrays ==
  ASSUME NEW k, NEW x, NEW ys, ConvRun(k, x, ys),
         NEW pairs, pairs \subseteq UpTo(x[1]) \X UpTo(k.shape[1]),
         NEW p \in ConvProducts(k, x, ys, pairs)
  PROVE  InArrays(p, k, x, ys)
<1>1. PICK q \in pairs, oh \in UpTo(ys[3]), ow \in UpTo(ys[4]), ic \in UpTo(k.shape[2]),
           kh \in UpTo(k.shape[3]), kw \in UpTo(k.shape[4]) :
        /\ Reach(k, 1, oh, kh) \in UpTo(x[3]) /\ Reach(k, 2, ow, kw) \in UpTo(x[4])
        /\ p = <<Index4(ys, q[1], q[2], oh, ow),
                 Index4(x, q[1], ic, Reach(k, 1, oh, kh), Reach(k, 2, ow, kw)),
                 Index4(k.shape, q[2], ic, kh, kw)>>
  BY ConvProductsOf
<1>2. PICK b, oc : q = <<b, oc>> /\ b \in UpTo(x[1]) /\ oc \in UpTo(k.shape[1])
  BY <1>1
<1>3. PICK w, ih, iw : w = k.shape /\ ih = Reach(k, 1, oh, kh) /\ iw = Reach(k, 2, ow, kw)
  OBVIOUS
<1>4. /\ w \in Int \X Int \X Int \X Int /\ x \in Int \X Int \X Int \X Int
      /\ ys \in Int \X Int \X Int \X Int
      /\ w[2] <= x[2] /\ ys[1] = x[1] /\ ys[2] = w[1]
  BY <1>3 DEF ConvRun
<1>5. /\ b \in UpTo(x[1]) /\ b \in UpTo(ys[1]) /\ oc \in UpTo(w[1]) /\ oc \in UpTo(ys[2])
      /\ oh \in UpTo(ys[3]) /\ ow \in UpTo(ys[4]) /\ ic \in UpTo(w[2])
      /\ kh \in UpTo(w[3]) /\ kw \in UpTo(w[4]) /\ ih \in UpTo(x[3]) /\ iw \in UpTo(x[4])
  BY <1>1, <1>2, <1>3, <1>4
<1>6. ic \in UpTo(x[2])
  <2>1. PICK i \in Int, j \in Int : i = w[2] /\ j = x[2] /\ i <= j
    BY <1>4
  <2>. QED
    BY <1>5, <2>1 DEF UpTo
<1>7. /\ p[1] = Index4(ys, b, oc, oh, ow) /\ p[2] = Index4(x, b, ic, ih, iw)
      /\ p[3] = Index4(w, oc, ic, kh, kw)
  BY <1>1, <1>2, <1>3
<1>8. p[1] \in UpTo(Elements(ys))
  BY <1>4, <1>5, <1>7, ElementOfFour
<1>9. p[2] \in UpTo(Elements(x))
  BY <1>4, <1>5, <1>6, <1>7, ElementOfFour
<1>10. p[3] \in UpTo(Elements(w))
  BY <1>4, <1>5, <1>7, ElementOfFour
<1>. QED
  BY <1>3, <1>8, <1>9, <1>10 DEF InArrays

LEMMA ConvTransposeInArrays ==
  ASSUME NEW k, NEW x, NEW ys, ConvTransposeRun(k, x, ys),
         NEW pairs, pairs \subseteq UpTo(x[1]) \X UpTo(k.shape[1]),
         NEW p \in ConvTransposeProducts(k, x, ys, pairs)
  PROVE  InArrays(p, k, x, ys)
<1>1. PICK q \in pairs, ih \in UpTo(x[3]), iw \in UpTo(x[4]), oc \in UpTo(k.shape[2]),
           kh \in UpTo(k.shape[3]), kw \in UpTo(k.shape[4]) :
        /\ Reach(k, 1, ih, kh) \in UpTo(ys[3]) /\ Reach(k, 2, iw, kw) \in UpTo(ys[4])
        /\ p = <<Index4(ys, q[1], oc, Reach(k, 1, ih, kh), Reach(k, 2, iw, kw)),
                 Index4(x, q[1], q[2], ih, iw),
                 Index4(k.shape, q[2], oc, kh, kw)>>
  BY ConvTransposeProductsOf
<1>2. PICK b, ic : q = <<b, ic>> /\ b \in UpTo(x[1]) /\ ic \in UpTo(k.shape[1])
  BY <1>1
<1>3. PICK w, oh, ow : w = k.shape /\ oh = Reach(k, 1, ih, kh) /\ ow = Reach(k, 2, iw, kw)
  OBVIOUS
<1>4. /\ w \in Int \X Int \X Int \X Int /\ x \in Int \X Int \X Int \X Int
      /\ ys \in Int \X Int \X Int \X Int
      /\ w[1] = x[2] /\ ys[1] = x[1] /\ ys[2] = w[2]
  BY <1>3 DEF ConvTransposeRun
<1>5. /\ b \in UpTo(x[1]) /\ b \in UpTo(ys[1]) /\ ic \in UpTo(w[1]) /\ ic \in UpTo(x[2])
      /\ ih \in UpTo(x[3]) /\ iw \in UpTo(x[4]) /\ oc \in UpTo(w[2]) /\ oc \in UpTo(ys[2])
      /\ kh \in UpTo(w[3]) /\ kw \in UpTo(w[4]) /\ oh \in UpTo(ys[3]) /\ ow \in UpTo(ys[4])
  BY <1>1, <1>2, <1>3, <1>4
<1>6. /\ p[1] = Index4(ys, b, oc, oh, ow) /\ p[2] = Index4(x, b, ic, ih, iw)
      /\ p[3] = Index4(w, ic, oc, kh, kw)
  BY <1>1, <1>2, <1>3
<1>7. p[1] \in UpTo(Elements(ys))
  BY <1>4, <1>5, <1>6, ElementOfFour
<1>8. p[2] \in UpTo(Elements(x))
  BY <1>4, <1>5, <1>6, ElementOfFour
<1>9. p[3] \in UpTo(Elements(w))
  BY <1>4, <1>5, <1>6, ElementOfFour
<1>. QED
  BY <1>3, <1>7, <1>8, <1>9 DEF InArrays

-----------------------------------------------------------------------------
(***************************************************************************)
(* The products of some pairs, and what they add up to in a cell.          *)
(***************************************************************************)

\* Bags of different terms add up to the bag of all of them.
LEMMA UnionOfTerms ==
  ASSUME NEW S, NEW T, S \cap T = {}
  PROVE  SetToBag(S) (+) SetToBag(T) = SetToBag(S \cup T)
<1>1. PICK a, b : a = SetToBag(S) /\ b = SetToBag(T)
  OBVIOUS
<1>2. a = [e \in S |-> 1] /\ b = [e \in T |-> 1]
  BY <1>1 DEF SetToBag
<1>3. a (+) b = [e \in S \cup T |-> (IF e \in S THEN a[e] ELSE 0) + (IF e \in T THEN b[e] ELSE 0)]
  BY <1>2 DEF (+)
<1>4. \A e \in S \cup T : (IF e \in S THEN a[e] ELSE 0) + (IF e \in T THEN b[e] ELSE 0) = 1
  BY <1>2
<1>5. a (+) b = [e \in S \cup T |-> 1]
  BY <1>3, <1>4
<1>. QED
  BY <1>1, <1>5 DEF SetToBag

\* The terms of different products in a cell.
LEMMA TermsOfUnion ==
  ASSUME NEW ps, NEW qs, NEW c, \A p \in ps, q \in qs : <<p[2], p[3]>> # <<q[2], q[3]>>
  PROVE  Terms(ps, c) (+) Terms(qs, c) = Terms(ps \cup qs, c)
<1>. DEFINE Of(rs) == {<<p[2], p[3], 1>> : p \in {q \in rs : q[1] = c}}
<1>1. Of(ps) \cap Of(qs) = {}
  OBVIOUS
<1>2. Of(ps) \cup Of(qs) = Of(ps \cup qs)
  OBVIOUS
<1>3. Terms(ps, c) = SetToBag(Of(ps)) /\ Terms(qs, c) = SetToBag(Of(qs))
      /\ Terms(ps \cup qs, c) = SetToBag(Of(ps \cup qs))
  BY DEF Terms
<1>. HIDE DEF Of
<1>. QED
  BY <1>1, <1>2, <1>3, UnionOfTerms

\* Terms depends on the products of its cell only.
LEMMA TermsOfCell ==
  ASSUME NEW ps, NEW qs, NEW c, \A p : p[1] = c => (p \in ps <=> p \in qs)
  PROVE  Terms(ps, c) = Terms(qs, c)
<1>1. {q \in ps : q[1] = c} = {q \in qs : q[1] = c}
  OBVIOUS
<1>. QED
  BY <1>1 DEF Terms

\* The products of some pairs are products of more pairs.
LEMMA MoreProducts ==
  ASSUME NEW k, NEW x, NEW ys, NEW it, NEW pairs,
         k.op \in {"SecureGemm", "SecureConv", "SecureConvTranspose"},
         NEW p
  PROVE  /\ it \subseteq pairs => (p \in Products(k, x, ys, it) => p \in Products(k, x, ys, pairs))
         /\ p \in Products(k, x, ys, it \cup pairs) <=>
              p \in Products(k, x, ys, it) \/ p \in Products(k, x, ys, pairs)
         /\ p \notin Products(k, x, ys, {})
<1>1. CASE k.op = "SecureGemm"
  <2>1. \A s : Products(k, x, ys, s) = GemmProducts(k, s)
    BY <1>1 DEF Products
  <2>. DEFINE Of(q) ==
         \E i \in UpTo(k.shape[2]) :
           p = <<q[1] * k.shape[1] + q[2], q[1] * k.shape[2] + i, q[2] * k.shape[2] + i>>
  <2>2. ASSUME NEW s PROVE p \in GemmProducts(k, s) <=> \E q \in s : Of(q)
    BY GemmProductsOf
  <2>. HIDE DEF Of
  <2>. QED
    BY <2>1, <2>2
<1>2. CASE k.op = "SecureConv"
  <2>. DEFINE Of(q) ==
         \E oh \in UpTo(ys[3]), ow \in UpTo(ys[4]), ic \in UpTo(k.shape[2]),
            kh \in UpTo(k.shape[3]), kw \in UpTo(k.shape[4]) :
           /\ Reach(k, 1, oh, kh) \in UpTo(x[3]) /\ Reach(k, 2, ow, kw) \in UpTo(x[4])
           /\ p = <<Index4(ys, q[1], q[2], oh, ow),
                    Index4(x, q[1], ic, Reach(k, 1, oh, kh), Reach(k, 2, ow, kw)),
                    Index4(k.shape, q[2], ic, kh, kw)>>
  <2>1. \A s : Products(k, x, ys, s) = ConvProducts(k, x, ys, s)
    BY <1>2 DEF Products
  <2>2. ASSUME NEW s PROVE p \in ConvProducts(k, x, ys, s) <=> \E q \in s : Of(q)
    <3>1. ASSUME p \in ConvProducts(k, x, ys, s)
          PROVE  \E q \in s : Of(q)
      <4>1. PICK q \in s, oh \in UpTo(ys[3]), ow \in UpTo(ys[4]), ic \in UpTo(k.shape[2]),
                kh \in UpTo(k.shape[3]), kw \in UpTo(k.shape[4]) :
              /\ Reach(k, 1, oh, kh) \in UpTo(x[3]) /\ Reach(k, 2, ow, kw) \in UpTo(x[4])
              /\ p = <<Index4(ys, q[1], q[2], oh, ow),
                       Index4(x, q[1], ic, Reach(k, 1, oh, kh), Reach(k, 2, ow, kw)),
                       Index4(k.shape, q[2], ic, kh, kw)>>
      BY <3>1, ConvProductsOf
      <4>. QED
        BY <4>1
    <3>2. ASSUME NEW q \in s, Of(q)
          PROVE  p \in ConvProducts(k, x, ys, s)
      <4>1. PICK oh \in UpTo(ys[3]), ow \in UpTo(ys[4]), ic \in UpTo(k.shape[2]),
                kh \in UpTo(k.shape[3]), kw \in UpTo(k.shape[4]) :
              /\ Reach(k, 1, oh, kh) \in UpTo(x[3]) /\ Reach(k, 2, ow, kw) \in UpTo(x[4])
              /\ p = <<Index4(ys, q[1], q[2], oh, ow),
                       Index4(x, q[1], ic, Reach(k, 1, oh, kh), Reach(k, 2, ow, kw)),
                       Index4(k.shape, q[2], ic, kh, kw)>>
      BY <3>2
      <4>. QED
        BY <4>1, ConvProductsOf
    <3>. QED
      BY <3>1, <3>2
  <2>. HIDE DEF Of
  <2>. QED
    BY <2>1, <2>2
<1>3. CASE k.op = "SecureConvTranspose"
  <2>. DEFINE Of(q) ==
         \E ih \in UpTo(x[3]), iw \in UpTo(x[4]), oc \in UpTo(k.shape[2]),
            kh \in UpTo(k.shape[3]), kw \in UpTo(k.shape[4]) :
           /\ Reach(k, 1, ih, kh) \in UpTo(ys[3]) /\ Reach(k, 2, iw, kw) \in UpTo(ys[4])
           /\ p = <<Index4(ys, q[1], oc, Reach(k, 1, ih, kh), Reach(k, 2, iw, kw)),
                    Index4(x, q[1], q[2], ih, iw),
                    Index4(k.shape, q[2], oc, kh, kw)>>
  <2>1. \A s : Products(k, x, ys, s) = ConvTransposeProducts(k, x, ys, s)
    BY <1>3 DEF Products
  <2>2. ASSUME NEW s PROVE p \in ConvTransposeProducts(k, x, ys, s) <=> \E q \in s : Of(q)
    <3>1. ASSUME p \in ConvTransposeProducts(k, x, ys, s)
          PROVE  \E q \in s : Of(q)
      <4>1. PICK q \in s, ih \in UpTo(x[3]), iw \in UpTo(x[4]), oc \in UpTo(k.shape[2]),
                kh \in UpTo(k.shape[3]), kw \in UpTo(k.shape[4]) :
              /\ Reach(k, 1, ih, kh) \in UpTo(ys[3]) /\ Reach(k, 2, iw, kw) \in UpTo(ys[4])
              /\ p = <<Index4(ys, q[1], oc, Reach(k, 1, ih, kh), Reach(k, 2, iw, kw)),
                       Index4(x, q[1], q[2], ih, iw),
                       Index4(k.shape, q[2], oc, kh, kw)>>
      BY <3>1, ConvTransposeProductsOf
      <4>. QED
        BY <4>1
    <3>2. ASSUME NEW q \in s, Of(q)
          PROVE  p \in ConvTransposeProducts(k, x, ys, s)
      <4>1. PICK ih \in UpTo(x[3]), iw \in UpTo(x[4]), oc \in UpTo(k.shape[2]),
                kh \in UpTo(k.shape[3]), kw \in UpTo(k.shape[4]) :
              /\ Reach(k, 1, ih, kh) \in UpTo(ys[3]) /\ Reach(k, 2, iw, kw) \in UpTo(ys[4])
              /\ p = <<Index4(ys, q[1], oc, Reach(k, 1, ih, kh), Reach(k, 2, iw, kw)),
                       Index4(x, q[1], q[2], ih, iw),
                       Index4(k.shape, q[2], oc, kh, kw)>>
      BY <3>2
      <4>. QED
        BY <4>1, ConvTransposeProductsOf
    <3>. QED
      BY <3>1, <3>2
  <2>. HIDE DEF Of
  <2>. QED
    BY <2>1, <2>2
<1>. QED
  BY <1>1, <1>2, <1>3

\* The pair that a product of SecureGemm or SecureConv belongs to is the
\* place of the cell it is for: no iteration adds to the cells of another.
LEMMA ProductsOfPlace ==
  ASSUME NEW k, NEW x, NEW ys, GemmRun(k, x, ys) \/ ConvRun(k, x, ys),
         NEW pairs, pairs \subseteq UpTo(x[1]) \X UpTo(k.shape[1]),
         NEW it, it \subseteq pairs,
         NEW p \in Products(k, x, ys, pairs), Place(ys, p[1]) \in it
  PROVE  p \in Products(k, x, ys, it)
<1>1. CASE GemmRun(k, x, ys)
  <2>1. \A s : Products(k, x, ys, s) = GemmProducts(k, s)
    BY <1>1 DEF GemmRun, Products
  <2>2. PICK q \in pairs, i \in UpTo(k.shape[2]) :
          p = <<q[1] * k.shape[1] + q[2], q[1] * k.shape[2] + i, q[2] * k.shape[2] + i>>
    BY <2>1, GemmProductsOf
  <2>3. PICK b, o : q = <<b, o>> /\ b \in UpTo(x[1]) /\ o \in UpTo(k.shape[1])
    BY <2>2
  <2>4. ys \in Int \X Int /\ ys[1] = x[1] /\ ys[2] = k.shape[1]
    BY <1>1 DEF GemmRun
  <2>5. b \in UpTo(ys[1]) /\ o \in UpTo(ys[2]) /\ p[1] = b * ys[2] + o
    BY <2>2, <2>3, <2>4
  <2>6. p[1] \in UpTo(Elements(ys)) /\ Place(ys, p[1]) = <<b, o>>
    BY <2>4, <2>5, ElementOfTwo
  <2>7. q \in it
    BY <2>3, <2>6
  <2>. QED
    BY <2>1, <2>2, <2>7, GemmProductsOf
<1>2. CASE ConvRun(k, x, ys)
  <2>1. \A s : Products(k, x, ys, s) = ConvProducts(k, x, ys, s)
    BY <1>2 DEF ConvRun, Products
  <2>2. PICK q \in pairs, oh \in UpTo(ys[3]), ow \in UpTo(ys[4]), ic \in UpTo(k.shape[2]),
             kh \in UpTo(k.shape[3]), kw \in UpTo(k.shape[4]) :
          /\ Reach(k, 1, oh, kh) \in UpTo(x[3]) /\ Reach(k, 2, ow, kw) \in UpTo(x[4])
          /\ p = <<Index4(ys, q[1], q[2], oh, ow),
                   Index4(x, q[1], ic, Reach(k, 1, oh, kh), Reach(k, 2, ow, kw)),
                   Index4(k.shape, q[2], ic, kh, kw)>>
    BY <2>1, ConvProductsOf
  <2>3. PICK b, o : q = <<b, o>> /\ b \in UpTo(x[1]) /\ o \in UpTo(k.shape[1])
    BY <2>2
  <2>4. ys \in Int \X Int \X Int \X Int /\ ys[1] = x[1] /\ ys[2] = k.shape[1]
    BY <1>2 DEF ConvRun
  <2>5. /\ b \in UpTo(ys[1]) /\ o \in UpTo(ys[2]) /\ oh \in UpTo(ys[3]) /\ ow \in UpTo(ys[4])
        /\ p[1] = Index4(ys, b, o, oh, ow)
    BY <2>2, <2>3, <2>4
  <2>6. Place(ys, p[1]) = <<b, o>>
    BY <2>4, <2>5, ElementOfFour
  <2>7. q \in it
    BY <2>3, <2>6
  <2>. QED
    BY <2>1, <2>2, <2>7, ConvProductsOf
<1>. QED
  BY <1>1, <1>2

\* The pair that a product of SecureConvTranspose belongs to is the place of
\* the element of the input that it reads: no pair adds what another adds.
LEMMA ProductsOfInput ==
  ASSUME NEW k, NEW x, NEW ys, ConvTransposeRun(k, x, ys),
         NEW pairs, pairs \subseteq UpTo(x[1]) \X UpTo(k.shape[1]),
         NEW p \in Products(k, x, ys, pairs)
  PROVE  Place(x, p[2]) \in pairs
<1>1. p \in ConvTransposeProducts(k, x, ys, pairs)
  BY DEF ConvTransposeRun, Products
<1>2. PICK q \in pairs, ih \in UpTo(x[3]), iw \in UpTo(x[4]), oc \in UpTo(k.shape[2]),
           kh \in UpTo(k.shape[3]), kw \in UpTo(k.shape[4]) :
        /\ Reach(k, 1, ih, kh) \in UpTo(ys[3]) /\ Reach(k, 2, iw, kw) \in UpTo(ys[4])
        /\ p = <<Index4(ys, q[1], oc, Reach(k, 1, ih, kh), Reach(k, 2, iw, kw)),
                 Index4(x, q[1], q[2], ih, iw),
                 Index4(k.shape, q[2], oc, kh, kw)>>
  BY <1>1, ConvTransposeProductsOf
<1>3. PICK b, ic : q = <<b, ic>> /\ b \in UpTo(x[1]) /\ ic \in UpTo(k.shape[1])
  BY <1>2
<1>4. x \in Int \X Int \X Int \X Int /\ x[2] = k.shape[1]
  BY DEF ConvTransposeRun
<1>5. ic \in UpTo(x[2]) /\ p[2] = Index4(x, b, ic, ih, iw)
  BY <1>2, <1>3, <1>4
<1>6. Place(x, p[2]) = <<b, ic>>
  BY <1>2, <1>3, <1>4, <1>5, ElementOfFour
<1>. QED
  BY <1>3, <1>6

-----------------------------------------------------------------------------
(***************************************************************************)
(* The terms that the kernels add up are those of the layers.              *)
(***************************************************************************)

\* The terms of a cell, one by one.
LEMMA TermsAre ==
  ASSUME NEW ps, NEW c, NEW T,
         \A p \in ps : p[1] = c => <<p[2], p[3], 1>> \in T,
         \A t \in T : \E p \in ps : p[1] = c /\ t = <<p[2], p[3], 1>>
  PROVE  Terms(ps, c) = SetToBag(T)
<1>1. {<<p[2], p[3], 1>> : p \in {q \in ps : q[1] = c}} = T
  OBVIOUS
<1>. QED
  BY <1>1 DEF Terms

\* SecureGemm has its weight transposed and no factor.
IsPlainGemm(l) == l.op = "Gemm" /\ Onnx!TransB(l) /\ Onnx!Of(l, "alpha", 1) = 1

\* What SecureGemm adds up in a cell is what Gemm does, if it transposes.
LEMMA GemmTermsAgree ==
  ASSUME NEW k, NEW x, NEW ys, GemmRun(k, x, ys),
         NEW l, IsPlainGemm(l),
         NEW b \in UpTo(ys[1]), NEW o \in UpTo(ys[2]), NEW c, c = b * ys[2] + o
  PROVE  Terms(Products(k, x, ys, UpTo(x[1]) \X UpTo(k.shape[1])), c)
           = SetToBag(Onnx!GemmTerms(l, k.shape, x, b, o))
<1>. l.op = "Gemm" /\ Onnx!TransB(l) /\ Onnx!Of(l, "alpha", 1) = 1
  BY DEF IsPlainGemm
<1>1. PICK pairs, ps, T, w : /\ pairs = UpTo(x[1]) \X UpTo(k.shape[1])
                             /\ ps = Products(k, x, ys, pairs)
                             /\ T = Onnx!GemmTerms(l, w, x, b, o)
                             /\ w = k.shape
  OBVIOUS
<1>2. ps = GemmProducts(k, pairs)
  BY <1>1 DEF GemmRun, Products
<1>3. /\ ys \in Int \X Int /\ ys[1] = x[1] /\ ys[2] = w[1] /\ x[2] = w[2]
  BY <1>1 DEF GemmRun
<1>4. T = {<<b * w[2] + i, o * w[2] + i, 1>> : i \in UpTo(w[2])}
  BY <1>1, <1>3 DEF Onnx!GemmTerms, UpTo
<1>5. Place(ys, c) = <<b, o>>
  BY <1>3, ElementOfTwo
<1>6. ASSUME NEW p \in ps, p[1] = c
      PROVE  <<p[2], p[3], 1>> \in T
  <2>1. PICK q \in pairs, i \in UpTo(w[2]) :
          p = <<q[1] * w[1] + q[2], q[1] * w[2] + i, q[2] * w[2] + i>>
    BY <1>1, <1>2, GemmProductsOf
  <2>2. PICK f, g : q = <<f, g>> /\ f \in UpTo(x[1]) /\ g \in UpTo(w[1])
    BY <1>1, <2>1
  <2>3. f \in UpTo(ys[1]) /\ g \in UpTo(ys[2]) /\ p[1] = f * ys[2] + g
    BY <1>3, <2>1, <2>2
  <2>4. Place(ys, p[1]) = <<f, g>>
    BY <1>3, <2>3, ElementOfTwo
  <2>5. f = b /\ g = o
    BY <1>5, <1>6, <2>4
  <2>. QED
    BY <1>4, <2>1, <2>2, <2>5
<1>7. ASSUME NEW t \in T
      PROVE  \E p \in ps : p[1] = c /\ t = <<p[2], p[3], 1>>
  <2>1. PICK i \in UpTo(w[2]) : t = <<b * w[2] + i, o * w[2] + i, 1>>
    BY <1>4
  <2>2. PICK q, p : q = <<b, o>> /\ p = <<q[1] * w[1] + q[2], q[1] * w[2] + i, q[2] * w[2] + i>>
    OBVIOUS
  <2>3. q \in pairs
    BY <1>1, <1>3, <2>2
  <2>4. p \in ps
    BY <1>1, <1>2, <2>2, <2>3, GemmProductsOf
  <2>5. p[1] = c /\ t = <<p[2], p[3], 1>>
    BY <1>3, <2>1, <2>2
  <2>. QED
    BY <2>4, <2>5
<1>8. Terms(ps, c) = SetToBag(T)
  BY <1>6, <1>7, TermsAre
<1>. QED
  BY <1>1, <1>8

\* A kernel moves over its input as its layer says.
MovesAs(k, l) ==
  /\ k.strides \in Positive \X Positive /\ k.dilations \in Positive \X Positive
  /\ k.pads \in Nat \X Nat \X Nat \X Nat
  /\ k.strides = Attribute(l.attributes, "strides", <<1, 1>>)
  /\ k.dilations = Attribute(l.attributes, "dilations", <<1, 1>>)
  /\ k.pads = Attribute(l.attributes, "pads", <<0, 0, 0, 0>>)

\* A position of the one side meets a position of the other where the kernel
\* reaches it.
LEMMA MeetsIsReach ==
  ASSUME NEW k, NEW l, MovesAs(k, l), NEW d \in {1, 2},
         NEW q \in Int, NEW p \in Int, NEW e \in Int
  PROVE  Onnx!Meets(l, d, q, p, e) <=> q = Reach(k, d, p, e)
<1>1. PICK s \in Int, g \in Int, r \in Int : s = k.strides[d] /\ g = k.dilations[d] /\ r = k.pads[d]
  BY DEF MovesAs, Positive
<1>2. Onnx!Stride(l, d) = s /\ Onnx!Dilation(l, d) = g /\ Onnx!PadBefore(l, d) = r
  BY <1>1 DEF MovesAs, Onnx!Stride, Onnx!Dilation, Onnx!PadBefore, Onnx!Of, Attribute
<1>3. PICK m \in Int, n \in Int : m = p * s /\ n = e * g
  OBVIOUS
<1>4. Reach(k, d, p, e) = m + n - r
  BY <1>1, <1>3 DEF Reach
<1>5. Onnx!Meets(l, d, q, p, e) <=> q + r = m + n
  BY <1>2, <1>3 DEF Onnx!Meets
<1>. QED
  BY <1>4, <1>5

\* The terms of a cell of Conv without groups: the window over it.
LEMMA ConvTermsOf ==
  ASSUME NEW k, NEW l, MovesAs(k, l), Onnx!Group(l) = 1,
         NEW w \in Nat \X Nat \X Nat \X Nat, NEW x \in Nat \X Nat \X Nat \X Nat,
         NEW b, NEW oc \in UpTo(w[1]), NEW oh \in Int, NEW ow \in Int, NEW t
  PROVE  t \in Onnx!ConvTerms(l, w, x, b, oc, oh, ow) <=>
           \E ic \in UpTo(w[2]), kh \in UpTo(w[3]), kw \in UpTo(w[4]) :
             /\ Reach(k, 1, oh, kh) \in UpTo(x[3]) /\ Reach(k, 2, ow, kw) \in UpTo(x[4])
             /\ t = <<Index4(x, b, ic, Reach(k, 1, oh, kh), Reach(k, 2, ow, kw)),
                      Index4(w, oc, ic, kh, kw), 1>>
<1>. DEFINE windows == UpTo(w[2]) \X UpTo(x[3]) \X UpTo(x[4]) \X UpTo(w[3]) \X UpTo(w[4])
            Inside(u) == u[2] = Reach(k, 1, oh, u[4]) /\ u[3] = Reach(k, 2, ow, u[5])
            Term(u) == <<Index4(x, b, u[1], u[2], u[3]), Index4(w, oc, u[1], u[4], u[5]), 1>>
<1>1. (oc \div (w[1] \div Onnx!Group(l))) * w[2] = 0
  <2>1. PICK m \in Nat, n \in Nat : m = w[1] /\ n = w[2]
    OBVIOUS
  <2>2. m > 0 /\ oc \in 0..(m - 1)
    BY <2>1 DEF UpTo
  <2>3. m \div 1 = m /\ oc \div m = 0
    BY <2>2
  <2>. QED
    BY <2>1, <2>3
<1>2. \A u \in windows : Onnx!Meets(l, 1, u[2], oh, u[4]) /\ Onnx!Meets(l, 2, u[3], ow, u[5])
                           <=> Inside(u)
  <2>1. ASSUME NEW u \in windows
        PROVE  u[2] \in Int /\ u[3] \in Int /\ u[4] \in Int /\ u[5] \in Int
    BY DEF UpTo
  <2>2. ASSUME NEW q \in Int, NEW p \in Int, NEW e \in Int, NEW d \in {1, 2}
        PROVE  Onnx!Meets(l, d, q, p, e) <=> q = Reach(k, d, p, e)
    BY MeetsIsReach
  <2>. QED
    BY <2>1, <2>2
<1>3. Onnx!ConvTerms(l, w, x, b, oc, oh, ow) = {Term(u) : u \in {v \in windows : Inside(v)}}
  <2>1. Onnx!ConvTerms(l, w, x, b, oc, oh, ow)
          = {<<Index4(x, b, 0 + u[1], u[2], u[3]), Index4(w, oc, u[1], u[4], u[5]), 1>> :
             u \in {v \in windows : Onnx!Meets(l, 1, v[2], oh, v[4]) /\ Onnx!Meets(l, 2, v[3], ow, v[5])}}
    BY <1>1 DEF Onnx!ConvTerms, Onnx!At4, Index4, UpTo
  <2>2. {v \in windows : Onnx!Meets(l, 1, v[2], oh, v[4]) /\ Onnx!Meets(l, 2, v[3], ow, v[5])}
          = {v \in windows : Inside(v)}
    <3>. HIDE DEF windows, Inside
    <3>. QED
      BY <1>2
  <2>3. \A u \in windows : 0 + u[1] = u[1]
    BY DEF UpTo
  <2>. HIDE DEF windows, Inside
  <2>. QED
    BY <2>1, <2>2, <2>3
<1>4. ASSUME t \in Onnx!ConvTerms(l, w, x, b, oc, oh, ow)
      PROVE  \E ic \in UpTo(w[2]), kh \in UpTo(w[3]), kw \in UpTo(w[4]) :
               /\ Reach(k, 1, oh, kh) \in UpTo(x[3]) /\ Reach(k, 2, ow, kw) \in UpTo(x[4])
               /\ t = <<Index4(x, b, ic, Reach(k, 1, oh, kh), Reach(k, 2, ow, kw)),
                        Index4(w, oc, ic, kh, kw), 1>>
  <2>1. PICK u \in windows : Inside(u) /\ t = Term(u)
    BY <1>3, <1>4
  <2>2. /\ u[1] \in UpTo(w[2]) /\ u[2] \in UpTo(x[3]) /\ u[3] \in UpTo(x[4])
        /\ u[4] \in UpTo(w[3]) /\ u[5] \in UpTo(w[4])
    OBVIOUS
  <2>. QED
    BY <2>1, <2>2
<1>5. ASSUME NEW ic \in UpTo(w[2]), NEW kh \in UpTo(w[3]), NEW kw \in UpTo(w[4]),
             NEW ih \in UpTo(x[3]), NEW iw \in UpTo(x[4]),
             ih = Reach(k, 1, oh, kh), iw = Reach(k, 2, ow, kw)
      PROVE  <<Index4(x, b, ic, ih, iw), Index4(w, oc, ic, kh, kw), 1>>
               \in Onnx!ConvTerms(l, w, x, b, oc, oh, ow)
  <2>1. PICK u : u = <<ic, ih, iw, kh, kw>>
    OBVIOUS
  <2>2. u \in windows /\ u[1] = ic /\ u[2] = ih /\ u[3] = iw /\ u[4] = kh /\ u[5] = kw
    BY <2>1
  <2>3. Inside(u)
    BY <1>5, <2>2
  <2>4. Term(u) \in {Term(v) : v \in {r \in windows : Inside(r)}}
    <3>. HIDE DEF Term, Inside, windows
    <3>. QED
      BY <2>2, <2>3
  <2>. QED
    BY <1>3, <2>2, <2>4
<1>. QED
  BY <1>4, <1>5

\* The terms of a cell of ConvTranspose without groups: the images that
\* reach it.
LEMMA ConvTransposeTermsOf ==
  ASSUME NEW k, NEW l, MovesAs(k, l), Onnx!Group(l) = 1,
         NEW w \in Nat \X Nat \X Nat \X Nat, NEW x \in Nat \X Nat \X Nat \X Nat,
         x[2] = w[1], NEW b, NEW oc \in UpTo(w[2]), NEW oh \in Int, NEW ow \in Int, NEW t
  PROVE  t \in Onnx!ConvTransposeTerms(l, w, x, b, oc, oh, ow) <=>
           \E ic \in UpTo(w[1]), ih \in UpTo(x[3]), iw \in UpTo(x[4]),
              kh \in UpTo(w[3]), kw \in UpTo(w[4]) :
             /\ oh = Reach(k, 1, ih, kh) /\ ow = Reach(k, 2, iw, kw)
             /\ t = <<Index4(x, b, ic, ih, iw), Index4(w, ic, oc, kh, kw), 1>>
<1>. DEFINE images == UpTo(w[1]) \X UpTo(x[3]) \X UpTo(x[4]) \X UpTo(w[3]) \X UpTo(w[4])
            Inside(u) == oh = Reach(k, 1, u[2], u[4]) /\ ow = Reach(k, 2, u[3], u[5])
            Term(u) == <<Index4(x, b, u[1], u[2], u[3]), Index4(w, u[1], oc, u[4], u[5]), 1>>
<1>1. /\ x[2] \div Onnx!Group(l) = w[1]
      /\ (oc \div w[2]) * (x[2] \div Onnx!Group(l)) = 0
      /\ oc % w[2] = oc
  <2>1. PICK m \in Nat, n \in Nat : m = w[1] /\ n = w[2]
    OBVIOUS
  <2>2. n > 0 /\ oc \in 0..(n - 1)
    BY <2>1 DEF UpTo
  <2>3. m \div 1 = m /\ oc \div n = 0 /\ oc % n = oc
    BY <2>2
  <2>. QED
    BY <2>1, <2>3
<1>2. \A u \in images : Onnx!Meets(l, 1, oh, u[2], u[4]) /\ Onnx!Meets(l, 2, ow, u[3], u[5])
                          <=> Inside(u)
  <2>1. ASSUME NEW u \in images
        PROVE  u[2] \in Int /\ u[3] \in Int /\ u[4] \in Int /\ u[5] \in Int
    BY DEF UpTo
  <2>2. ASSUME NEW q \in Int, NEW p \in Int, NEW e \in Int, NEW d \in {1, 2}
        PROVE  Onnx!Meets(l, d, q, p, e) <=> q = Reach(k, d, p, e)
    BY MeetsIsReach
  <2>. QED
    BY <2>1, <2>2
<1>3. Onnx!ConvTransposeTerms(l, w, x, b, oc, oh, ow) = {Term(u) : u \in {v \in images : Inside(v)}}
  <2>1. Onnx!ConvTransposeTerms(l, w, x, b, oc, oh, ow)
          = {<<Index4(x, b, 0 + u[1], u[2], u[3]), Index4(w, 0 + u[1], oc, u[4], u[5]), 1>> :
             u \in {v \in images : Onnx!Meets(l, 1, oh, v[2], v[4]) /\ Onnx!Meets(l, 2, ow, v[3], v[5])}}
    BY <1>1 DEF Onnx!ConvTransposeTerms, Onnx!At4, Index4, UpTo
  <2>2. {v \in images : Onnx!Meets(l, 1, oh, v[2], v[4]) /\ Onnx!Meets(l, 2, ow, v[3], v[5])}
          = {v \in images : Inside(v)}
    <3>. HIDE DEF images, Inside
    <3>. QED
      BY <1>2
  <2>3. \A u \in images : 0 + u[1] = u[1]
    BY DEF UpTo
  <2>. HIDE DEF images, Inside
  <2>. QED
    BY <2>1, <2>2, <2>3
<1>4. ASSUME t \in Onnx!ConvTransposeTerms(l, w, x, b, oc, oh, ow)
      PROVE  \E ic \in UpTo(w[1]), ih \in UpTo(x[3]), iw \in UpTo(x[4]),
                kh \in UpTo(w[3]), kw \in UpTo(w[4]) :
               /\ oh = Reach(k, 1, ih, kh) /\ ow = Reach(k, 2, iw, kw)
               /\ t = <<Index4(x, b, ic, ih, iw), Index4(w, ic, oc, kh, kw), 1>>
  <2>1. PICK u \in images : Inside(u) /\ t = Term(u)
    BY <1>3, <1>4
  <2>2. /\ u[1] \in UpTo(w[1]) /\ u[2] \in UpTo(x[3]) /\ u[3] \in UpTo(x[4])
        /\ u[4] \in UpTo(w[3]) /\ u[5] \in UpTo(w[4])
    OBVIOUS
  <2>. QED
    BY <2>1, <2>2
<1>5. ASSUME NEW ic \in UpTo(w[1]), NEW ih \in UpTo(x[3]), NEW iw \in UpTo(x[4]),
             NEW kh \in UpTo(w[3]), NEW kw \in UpTo(w[4]),
             oh = Reach(k, 1, ih, kh), ow = Reach(k, 2, iw, kw)
      PROVE  <<Index4(x, b, ic, ih, iw), Index4(w, ic, oc, kh, kw), 1>>
               \in Onnx!ConvTransposeTerms(l, w, x, b, oc, oh, ow)
  <2>1. PICK u : u = <<ic, ih, iw, kh, kw>>
    OBVIOUS
  <2>2. u \in images /\ u[1] = ic /\ u[2] = ih /\ u[3] = iw /\ u[4] = kh /\ u[5] = kw
    BY <2>1
  <2>3. Inside(u)
    BY <1>5, <2>2
  <2>4. Term(u) \in {Term(v) : v \in {r \in images : Inside(r)}}
    <3>. HIDE DEF Term, Inside, images
    <3>. QED
      BY <2>2, <2>3
  <2>. QED
    BY <1>3, <2>2, <2>4
<1>. QED
  BY <1>4, <1>5

\* What SecureConv adds up in a cell is what Conv does, without groups.
LEMMA ConvTermsAgree ==
  ASSUME NEW k, NEW x, NEW ys, ConvRun(k, x, ys),
         NEW l, MovesAs(k, l), Onnx!Group(l) = 1, x[2] = k.shape[2],
         NEW b \in UpTo(ys[1]), NEW oc \in UpTo(ys[2]), NEW oh \in UpTo(ys[3]), NEW ow \in UpTo(ys[4]),
         NEW c, c = Index4(ys, b, oc, oh, ow)
  PROVE  Terms(Products(k, x, ys, UpTo(x[1]) \X UpTo(k.shape[1])), c)
           = SetToBag(Onnx!ConvTerms(l, k.shape, x, b, oc, oh, ow))
<1>1. PICK pairs, ps, T, w : /\ pairs = UpTo(x[1]) \X UpTo(k.shape[1])
                             /\ ps = Products(k, x, ys, pairs)
                             /\ T = Onnx!ConvTerms(l, w, x, b, oc, oh, ow)
                             /\ w = k.shape
  OBVIOUS
<1>2. ps = ConvProducts(k, x, ys, pairs)
  BY <1>1 DEF ConvRun, Products
<1>3. /\ ys \in Int \X Int \X Int \X Int /\ ys[1] = x[1] /\ ys[2] = w[1]
      /\ w \in Nat \X Nat \X Nat \X Nat /\ x \in Nat \X Nat \X Nat \X Nat
  BY <1>1 DEF ConvRun
<1>4. oc \in UpTo(w[1]) /\ b \in UpTo(x[1]) /\ oh \in Int /\ ow \in Int
  BY <1>3 DEF UpTo
<1>5. w \in Nat \X Nat \X Nat \X Nat /\ x \in Nat \X Nat \X Nat \X Nat
  BY <1>3
<1>6. T = Onnx!ConvTerms(l, w, x, b, oc, oh, ow)
  BY <1>1
<1>7. ASSUME NEW p \in ps, p[1] = c
      PROVE  <<p[2], p[3], 1>> \in T
  <2>1. PICK q \in pairs, h \in UpTo(ys[3]), v \in UpTo(ys[4]), ic \in UpTo(w[2]),
             kh \in UpTo(w[3]), kw \in UpTo(w[4]) :
          /\ Reach(k, 1, h, kh) \in UpTo(x[3]) /\ Reach(k, 2, v, kw) \in UpTo(x[4])
          /\ p = <<Index4(ys, q[1], q[2], h, v),
                   Index4(x, q[1], ic, Reach(k, 1, h, kh), Reach(k, 2, v, kw)),
                   Index4(w, q[2], ic, kh, kw)>>
    BY <1>1, <1>2, ConvProductsOf
  <2>2. PICK f, g : q = <<f, g>> /\ f \in UpTo(x[1]) /\ g \in UpTo(w[1])
    BY <1>1, <2>1
  <2>3. f \in UpTo(ys[1]) /\ g \in UpTo(ys[2]) /\ Index4(ys, f, g, h, v) = Index4(ys, b, oc, oh, ow)
    BY <1>3, <1>7, <2>1, <2>2
  <2>4. f = b /\ g = oc /\ h = oh /\ v = ow
    BY <1>3, <2>3, ElementsDiffer
  <2>5. PICK ih \in UpTo(x[3]), iw \in UpTo(x[4]) :
          ih = Reach(k, 1, oh, kh) /\ iw = Reach(k, 2, ow, kw)
    BY <2>1, <2>4
  <2>6. p[2] = Index4(x, b, ic, ih, iw) /\ p[3] = Index4(w, oc, ic, kh, kw)
    BY <2>1, <2>2, <2>4, <2>5
  <2>7. PICK t : t = <<Index4(x, b, ic, ih, iw), Index4(w, oc, ic, kh, kw), 1>>
    OBVIOUS
  <2>8. t \in Onnx!ConvTerms(l, w, x, b, oc, oh, ow)
    BY <1>4, <1>5, <2>5, <2>7, ConvTermsOf
  <2>. QED
    BY <1>6, <2>6, <2>7, <2>8
<1>8. ASSUME NEW t \in T
      PROVE  \E p \in ps : p[1] = c /\ t = <<p[2], p[3], 1>>
  <2>0. t \in Onnx!ConvTerms(l, w, x, b, oc, oh, ow)
    BY <1>6
  <2>1. PICK ic \in UpTo(w[2]), kh \in UpTo(w[3]), kw \in UpTo(w[4]) :
          /\ Reach(k, 1, oh, kh) \in UpTo(x[3]) /\ Reach(k, 2, ow, kw) \in UpTo(x[4])
          /\ t = <<Index4(x, b, ic, Reach(k, 1, oh, kh), Reach(k, 2, ow, kw)),
                   Index4(w, oc, ic, kh, kw), 1>>
    BY <1>4, <1>5, <2>0, ConvTermsOf
  <2>2. PICK q, p : /\ q = <<b, oc>>
                    /\ p = <<Index4(ys, q[1], q[2], oh, ow),
                             Index4(x, q[1], ic, Reach(k, 1, oh, kh), Reach(k, 2, ow, kw)),
                             Index4(w, q[2], ic, kh, kw)>>
    OBVIOUS
  <2>3. q \in pairs
    BY <1>1, <1>4, <2>2
  <2>4. Reach(k, 1, oh, kh) \in UpTo(x[3]) /\ Reach(k, 2, ow, kw) \in UpTo(x[4])
    BY <2>1
  <2>5. p \in ps
    BY <1>1, <1>2, <2>2, <2>3, <2>4, ConvProductsOf
  <2>6. p[1] = c /\ t = <<p[2], p[3], 1>>
    BY <2>1, <2>2
  <2>. QED
    BY <2>5, <2>6
<1>9. Terms(ps, c) = SetToBag(T)
  BY <1>7, <1>8, TermsAre
<1>. QED
  BY <1>1, <1>9

\* What SecureConvTranspose adds up in a cell is what ConvTranspose does,
\* without groups.
LEMMA ConvTransposeTermsAgree ==
  ASSUME NEW k, NEW x, NEW ys, ConvTransposeRun(k, x, ys),
         NEW l, MovesAs(k, l), Onnx!Group(l) = 1,
         NEW b \in UpTo(ys[1]), NEW oc \in UpTo(ys[2]), NEW oh \in UpTo(ys[3]), NEW ow \in UpTo(ys[4]),
         NEW c, c = Index4(ys, b, oc, oh, ow)
  PROVE  Terms(Products(k, x, ys, UpTo(x[1]) \X UpTo(k.shape[1])), c)
           = SetToBag(Onnx!ConvTransposeTerms(l, k.shape, x, b, oc, oh, ow))
<1>1. PICK pairs, ps, T, w : /\ pairs = UpTo(x[1]) \X UpTo(k.shape[1])
                             /\ ps = Products(k, x, ys, pairs)
                             /\ T = Onnx!ConvTransposeTerms(l, w, x, b, oc, oh, ow)
                             /\ w = k.shape
  OBVIOUS
<1>2. ps = ConvTransposeProducts(k, x, ys, pairs)
  BY <1>1 DEF ConvTransposeRun, Products
<1>3. /\ ys \in Int \X Int \X Int \X Int /\ ys[1] = x[1] /\ ys[2] = w[2] /\ x[2] = w[1]
      /\ w \in Nat \X Nat \X Nat \X Nat /\ x \in Nat \X Nat \X Nat \X Nat
  BY <1>1 DEF ConvTransposeRun
<1>4. oc \in UpTo(w[2]) /\ b \in UpTo(x[1]) /\ oh \in Int /\ ow \in Int
  BY <1>3 DEF UpTo
<1>5. w \in Nat \X Nat \X Nat \X Nat /\ x \in Nat \X Nat \X Nat \X Nat
  BY <1>3
<1>6. x[2] = w[1]
  BY <1>3
<1>7. T = Onnx!ConvTransposeTerms(l, w, x, b, oc, oh, ow)
  BY <1>1
<1>8. ASSUME NEW p \in ps, p[1] = c
      PROVE  <<p[2], p[3], 1>> \in T
  <2>1. PICK q \in pairs, ih \in UpTo(x[3]), iw \in UpTo(x[4]), o \in UpTo(w[2]),
             kh \in UpTo(w[3]), kw \in UpTo(w[4]) :
          /\ Reach(k, 1, ih, kh) \in UpTo(ys[3]) /\ Reach(k, 2, iw, kw) \in UpTo(ys[4])
          /\ p = <<Index4(ys, q[1], o, Reach(k, 1, ih, kh), Reach(k, 2, iw, kw)),
                   Index4(x, q[1], q[2], ih, iw),
                   Index4(w, q[2], o, kh, kw)>>
    BY <1>1, <1>2, ConvTransposeProductsOf
  <2>2. PICK f, g : q = <<f, g>> /\ f \in UpTo(x[1]) /\ g \in UpTo(w[1])
    BY <1>1, <2>1
  <2>3. PICK h \in UpTo(ys[3]), v \in UpTo(ys[4]) :
          h = Reach(k, 1, ih, kh) /\ v = Reach(k, 2, iw, kw)
    BY <2>1
  <2>4. f \in UpTo(ys[1]) /\ o \in UpTo(ys[2]) /\ Index4(ys, f, o, h, v) = Index4(ys, b, oc, oh, ow)
    BY <1>3, <1>8, <2>1, <2>2, <2>3
  <2>5. f = b /\ o = oc /\ h = oh /\ v = ow
    BY <1>3, <2>3, <2>4, ElementsDiffer
  <2>6. p[2] = Index4(x, b, g, ih, iw) /\ p[3] = Index4(w, g, oc, kh, kw)
    BY <2>1, <2>2, <2>5
  <2>7. PICK t : t = <<Index4(x, b, g, ih, iw), Index4(w, g, oc, kh, kw), 1>>
    OBVIOUS
  <2>8. oh = Reach(k, 1, ih, kh) /\ ow = Reach(k, 2, iw, kw)
    BY <2>3, <2>5
  <2>9. t \in Onnx!ConvTransposeTerms(l, w, x, b, oc, oh, ow)
    BY <1>6, <1>4, <1>5, <2>2, <2>7, <2>8, ConvTransposeTermsOf
  <2>. QED
    BY <1>7, <2>6, <2>7, <2>9
<1>9. ASSUME NEW t \in T
      PROVE  \E p \in ps : p[1] = c /\ t = <<p[2], p[3], 1>>
  <2>0. t \in Onnx!ConvTransposeTerms(l, w, x, b, oc, oh, ow)
    BY <1>7
  <2>1. PICK ic \in UpTo(w[1]), ih \in UpTo(x[3]), iw \in UpTo(x[4]),
             kh \in UpTo(w[3]), kw \in UpTo(w[4]) :
          /\ oh = Reach(k, 1, ih, kh) /\ ow = Reach(k, 2, iw, kw)
          /\ t = <<Index4(x, b, ic, ih, iw), Index4(w, ic, oc, kh, kw), 1>>
    BY <1>6, <1>4, <1>5, <2>0, ConvTransposeTermsOf
  <2>2. PICK q, p : /\ q = <<b, ic>>
                    /\ p = <<Index4(ys, q[1], oc, Reach(k, 1, ih, kh), Reach(k, 2, iw, kw)),
                             Index4(x, q[1], q[2], ih, iw),
                             Index4(w, q[2], oc, kh, kw)>>
    OBVIOUS
  <2>3. q \in pairs
    BY <1>1, <1>4, <2>1, <2>2
  <2>4. Reach(k, 1, ih, kh) \in UpTo(ys[3]) /\ Reach(k, 2, iw, kw) \in UpTo(ys[4])
    BY <2>1
  <2>5. p \in ps
    BY <1>1, <1>2, <1>4, <2>1, <2>2, <2>3, <2>4, ConvTransposeProductsOf
  <2>6. p[1] = c /\ t = <<p[2], p[3], 1>>
    BY <2>1, <2>2
  <2>. QED
    BY <2>5, <2>6
<1>10. Terms(ps, c) = SetToBag(T)
  BY <1>8, <1>9, TermsAre
<1>. QED
  BY <1>1, <1>10

-----------------------------------------------------------------------------
(***************************************************************************)
(* The outputs of the kernels are those of the layers.                     *)
(***************************************************************************)

\* The bias is one more term of a cell, and none of the products.
HasItsBias(l, bias) ==
  /\ bias \in BOOLEAN
  /\ Len(l.inputs) \in {2, 3}
  /\ bias <=> Len(l.inputs) = 3
  /\ l.op = "Gemm" => Onnx!Of(l, "beta", 1) = 1

LEMMA BiasAgrees ==
  ASSUME NEW ps, \A p \in ps : p[2] >= 0, NEW c, NEW T, Terms(ps, c) = SetToBag(T),
         NEW ys, NEW o, Place(ys, c)[2] = o,
         NEW l, NEW bias, HasItsBias(l, bias)
  PROVE  Terms(ps, c) (+) Bias(ys, c, bias) = Onnx!SetToBag(T \cup Onnx!BiasOf(l, o))
<1>. /\ bias \in BOOLEAN
     /\ Len(l.inputs) \in {2, 3}
     /\ bias <=> Len(l.inputs) = 3
     /\ l.op = "Gemm" => Onnx!Of(l, "beta", 1) = 1
  BY DEF HasItsBias
<1>1. PICK Z, B : /\ Z = {<<p[2], p[3], 1>> : p \in {q \in ps : q[1] = c}}
                  /\ B = IF bias THEN {<<-1, o, 1>>} ELSE {}
  OBVIOUS
<1>2. T = Z
  <2>1. [t \in T |-> 1] = [t \in Z |-> 1]
    BY <1>1 DEF Terms, SetToBag
  <2>2. DOMAIN [t \in T |-> 1] = T /\ DOMAIN [t \in Z |-> 1] = Z
    OBVIOUS
  <2>. QED
    BY <2>1, <2>2
<1>3. T \cap B = {}
  <2>1. ASSUME NEW t \in T PROVE t # <<-1, o, 1>>
    <3>1. PICK p \in ps : t = <<p[2], p[3], 1>>
      BY <1>1, <1>2
    <3>. QED
      BY <3>1
  <2>. QED
    BY <1>1, <2>1
<1>4. Bias(ys, c, bias) = SetToBag(B)
  BY <1>1 DEF Bias, BiasTerm, EmptyBag
<1>5. Onnx!BiasOf(l, o) = B
  <2>1. CASE bias
    <3>1. B = {<<-1, o, 1>>} /\ Len(l.inputs) # 2
      BY <1>1, <2>1
    <3>. QED
      BY <3>1 DEF Onnx!BiasOf
  <2>2. CASE ~bias
    <3>1. B = {} /\ Len(l.inputs) = 2
      BY <1>1, <2>2
    <3>. QED
      BY <3>1 DEF Onnx!BiasOf
  <2>. QED
    BY <2>1, <2>2
<1>6. SetToBag(T) (+) SetToBag(B) = SetToBag(T \cup B)
  BY <1>3, UnionOfTerms
<1>7. Onnx!SetToBag(T \cup B) = SetToBag(T \cup B)
  BY DEF Onnx!SetToBag, SetToBag
<1>. QED
  BY <1>4, <1>5, <1>6, <1>7

\* The output of a layer, cell by cell.
InLinear(z, l, w, x, s) ==
  \E b \in UpTo(s[1]), o \in UpTo(s[2]) :
    z = <<b * s[2] + o,
          Onnx!SetToBag(Onnx!GemmTerms(l, w, x, b, o) \cup Onnx!BiasOf(l, o))>>

LEMMA LinearOutputOf ==
  ASSUME NEW l, NEW w, NEW x, NEW s, s = Onnx!LayerShape(l, w, x), Len(s) = 2, NEW z
  PROVE  z \in Onnx!LayerOutput(l, w, x) <=> InLinear(z, l, w, x, s)
<1>. DEFINE Row(b, o) == {<<cell[1], Onnx!SetToBag(cell[2] \cup Onnx!BiasOf(l, o))>> :
                          cell \in {<<b * s[2] + o, Onnx!GemmTerms(l, w, x, b, o)>>}}
<1>1. Onnx!LayerOutput(l, w, x) = UNION {Row(b, o) : b \in UpTo(s[1]), o \in UpTo(s[2])}
  BY DEF Onnx!LayerOutput, UpTo
<1>2. ASSUME NEW b, NEW o
      PROVE  Row(b, o) = {<<b * s[2] + o,
                            Onnx!SetToBag(Onnx!GemmTerms(l, w, x, b, o) \cup Onnx!BiasOf(l, o))>>}
  <2>1. PICK i, T : i = b * s[2] + o /\ T = Onnx!GemmTerms(l, w, x, b, o)
    OBVIOUS
  <2>2. PICK cell : cell = <<i, T>>
    OBVIOUS
  <2>3. cell[1] = i /\ cell[2] = T
    BY <2>2
  <2>4. {<<e[1], Onnx!SetToBag(e[2] \cup Onnx!BiasOf(l, o))>> : e \in {cell}}
          = {<<cell[1], Onnx!SetToBag(cell[2] \cup Onnx!BiasOf(l, o))>>}
    OBVIOUS
  <2>. QED
    BY <2>1, <2>2, <2>3, <2>4
<1>. HIDE DEF Row
<1>3. z \in Onnx!LayerOutput(l, w, x) <=> \E b \in UpTo(s[1]), o \in UpTo(s[2]) : z \in Row(b, o)
  BY <1>1
<1>4. z \in Onnx!LayerOutput(l, w, x) <=> \E b \in UpTo(s[1]), o \in UpTo(s[2]) :
        z = <<b * s[2] + o,
              Onnx!SetToBag(Onnx!GemmTerms(l, w, x, b, o) \cup Onnx!BiasOf(l, o))>>
  BY <1>2, <1>3
<1>. QED
  BY <1>4 DEF InLinear

ConvolutionTerms(l, w, x, b, o, h, v) ==
  IF l.op = "Conv" THEN Onnx!ConvTerms(l, w, x, b, o, h, v)
  ELSE Onnx!ConvTransposeTerms(l, w, x, b, o, h, v)

InConvolution(z, l, w, x, s) ==
  \E b \in UpTo(s[1]), o \in UpTo(s[2]), h \in UpTo(s[3]), v \in UpTo(s[4]) :
    z = <<Index4(s, b, o, h, v),
          Onnx!SetToBag(ConvolutionTerms(l, w, x, b, o, h, v) \cup Onnx!BiasOf(l, o))>>

LEMMA ConvolutionOutputOf ==
  ASSUME NEW l, NEW w, NEW x, NEW s, s = Onnx!LayerShape(l, w, x), Len(s) = 4, NEW z
  PROVE  z \in Onnx!LayerOutput(l, w, x) <=> InConvolution(z, l, w, x, s)
<1>. DEFINE Cells(b, o) == {<<Index4(s, b, o, h, v), ConvolutionTerms(l, w, x, b, o, h, v)>> :
                            h \in UpTo(s[3]), v \in UpTo(s[4])}
            Row(b, o) == {<<cell[1], Onnx!SetToBag(cell[2] \cup Onnx!BiasOf(l, o))>> :
                          cell \in Cells(b, o)}
<1>1. Onnx!LayerOutput(l, w, x) = UNION {Row(b, o) : b \in UpTo(s[1]), o \in UpTo(s[2])}
  BY DEF Onnx!LayerOutput, Onnx!At4, Index4, UpTo, ConvolutionTerms
<1>2. ASSUME NEW b, NEW o
      PROVE  z \in Row(b, o) <=> \E h \in UpTo(s[3]), v \in UpTo(s[4]) :
               z = <<Index4(s, b, o, h, v), Onnx!SetToBag(ConvolutionTerms(l, w, x, b, o, h, v) \cup Onnx!BiasOf(l, o))>>
  <2>1. ASSUME NEW h \in UpTo(s[3]), NEW v \in UpTo(s[4])
        PROVE  <<Index4(s, b, o, h, v), Onnx!SetToBag(ConvolutionTerms(l, w, x, b, o, h, v) \cup Onnx!BiasOf(l, o))>>
                 \in Row(b, o)
    <3>1. PICK cell : cell = <<Index4(s, b, o, h, v), ConvolutionTerms(l, w, x, b, o, h, v)>>
      OBVIOUS
    <3>2. cell \in Cells(b, o)
      BY <3>1
    <3>. HIDE DEF Cells
    <3>3. <<cell[1], Onnx!SetToBag(cell[2] \cup Onnx!BiasOf(l, o))>> \in Row(b, o)
      BY <3>2
    <3>. HIDE DEF Row
    <3>4. cell[1] = Index4(s, b, o, h, v) /\ cell[2] = ConvolutionTerms(l, w, x, b, o, h, v)
      BY <3>1
    <3>. QED
      BY <3>3, <3>4
  <2>2. ASSUME z \in Row(b, o)
        PROVE  \E h \in UpTo(s[3]), v \in UpTo(s[4]) :
                 z = <<Index4(s, b, o, h, v), Onnx!SetToBag(ConvolutionTerms(l, w, x, b, o, h, v) \cup Onnx!BiasOf(l, o))>>
    <3>1. PICK cell \in Cells(b, o) : z = <<cell[1], Onnx!SetToBag(cell[2] \cup Onnx!BiasOf(l, o))>>
      <4>. HIDE DEF Cells
      <4>. QED
        BY <2>2
    <3>2. PICK h \in UpTo(s[3]), v \in UpTo(s[4]) : cell = <<Index4(s, b, o, h, v), ConvolutionTerms(l, w, x, b, o, h, v)>>
      OBVIOUS
    <3>3. cell[1] = Index4(s, b, o, h, v) /\ cell[2] = ConvolutionTerms(l, w, x, b, o, h, v)
      BY <3>2
    <3>4. z = <<Index4(s, b, o, h, v), Onnx!SetToBag(ConvolutionTerms(l, w, x, b, o, h, v) \cup Onnx!BiasOf(l, o))>>
      BY <3>1, <3>3
    <3>. HIDE DEF Row, Cells
    <3>. QED
      BY <3>4
  <2>. HIDE DEF Row, Cells
  <2>. QED
    BY <2>1, <2>2
<1>. HIDE DEF Row
<1>3. z \in Onnx!LayerOutput(l, w, x) <=> \E b \in UpTo(s[1]), o \in UpTo(s[2]) : z \in Row(b, o)
  BY <1>1
<1>4. ASSUME z \in Onnx!LayerOutput(l, w, x)
      PROVE  InConvolution(z, l, w, x, s)
  <2>1. PICK b \in UpTo(s[1]), o \in UpTo(s[2]) : z \in Row(b, o)
    BY <1>3, <1>4
  <2>2. PICK h \in UpTo(s[3]), v \in UpTo(s[4]) :
          z = <<Index4(s, b, o, h, v),
                Onnx!SetToBag(ConvolutionTerms(l, w, x, b, o, h, v) \cup Onnx!BiasOf(l, o))>>
    BY <1>2, <2>1
  <2>. QED
    BY <2>2 DEF InConvolution
<1>5. ASSUME InConvolution(z, l, w, x, s)
      PROVE  z \in Onnx!LayerOutput(l, w, x)
  <2>1. PICK b \in UpTo(s[1]), o \in UpTo(s[2]), h \in UpTo(s[3]), v \in UpTo(s[4]) :
          z = <<Index4(s, b, o, h, v),
                Onnx!SetToBag(ConvolutionTerms(l, w, x, b, o, h, v) \cup Onnx!BiasOf(l, o))>>
    BY <1>5 DEF InConvolution
  <2>2. z \in Row(b, o)
    BY <1>2, <2>1
  <2>. QED
    BY <1>3, <2>2
<1>. QED
  BY <1>4, <1>5

\* An element of a matrix is in a row and a column.
LEMMA TwoOfElement ==
  ASSUME NEW s \in Nat \X Nat, NEW i \in UpTo(Elements(s))
  PROVE  \E a \in UpTo(s[1]), b \in UpTo(s[2]) : i = a * s[2] + b
<1>. PICK A \in Nat, B \in Nat : s = <<A, B>>
  OBVIOUS
<1>1. Elements(s) = A * B
  <2>1. /\ Elements(<<A>>) = A
        /\ Elements(<<A, B>>) = A * B
        /\ Elements(<<A, B, A, B>>) = A * B * A * B
    BY ElementsOfTuples
  <2>. QED
    BY <2>1
<1>2. PICK a, b : a = i \div B /\ b = i % B
  OBVIOUS
<1>3. a \in UpTo(A) /\ b \in UpTo(B) /\ i = a * B + b
  BY <1>1, <1>2, RowMajorInverse
<1>. QED
  BY <1>3

\* The products of a kernel that runs are of elements of its arrays.
LEMMA ProductsInArrays ==
  ASSUME NEW k, NEW x, NEW ys,
         GemmRun(k, x, ys) \/ ConvRun(k, x, ys) \/ ConvTransposeRun(k, x, ys),
         NEW pairs, pairs \subseteq UpTo(x[1]) \X UpTo(k.shape[1]),
         NEW p \in Products(k, x, ys, pairs)
  PROVE  InArrays(p, k, x, ys)
<1>1. CASE GemmRun(k, x, ys)
  <2>1. p \in GemmProducts(k, pairs)
    BY <1>1 DEF GemmRun, Products
  <2>. QED
    BY <1>1, <2>1, GemmInArrays
<1>2. CASE ConvRun(k, x, ys)
  <2>1. p \in ConvProducts(k, x, ys, pairs)
    BY <1>2 DEF ConvRun, Products
  <2>. QED
    BY <1>2, <2>1, ConvInArrays
<1>3. CASE ConvTransposeRun(k, x, ys)
  <2>1. p \in ConvTransposeProducts(k, x, ys, pairs)
    BY <1>3 DEF ConvTransposeRun, Products
  <2>. QED
    BY <1>3, <2>1, ConvTransposeInArrays
<1>. QED
  BY <1>1, <1>2, <1>3

\* A cell with the terms T of the layer has what the layer has there.
LEMMA CellAgrees ==
  ASSUME NEW k, NEW x, NEW ys,
         GemmRun(k, x, ys) \/ ConvRun(k, x, ys) \/ ConvTransposeRun(k, x, ys),
         NEW bias, NEW cells, FinishedCells(k, x, ys, cells, bias), NEW l, HasItsBias(l, bias),
         NEW c \in DOMAIN cells, NEW o, Place(ys, c)[2] = o, NEW T,
         Terms(Products(k, x, ys, AllPairs(k, x)), c) = SetToBag(T)
  PROVE  cells[c] = Onnx!SetToBag(T \cup Onnx!BiasOf(l, o))
<1>1. PICK pairs, ps : /\ pairs = AllPairs(k, x)
                       /\ ps = Products(k, x, ys, pairs)
  OBVIOUS
<1>2. ASSUME NEW p \in ps PROVE p[2] >= 0
  <2>1. InArrays(p, k, x, ys)
    BY <1>1, ProductsInArrays DEF AllPairs
  <2>. QED
    BY <2>1 DEF InArrays, UpTo
<1>3. Terms(ps, c) = SetToBag(T)
  BY <1>1
<1>4. \A p \in ps : p[2] >= 0
  BY <1>2
<1>5. Terms(ps, c) (+) Bias(ys, c, bias) = Onnx!SetToBag(T \cup Onnx!BiasOf(l, o))
  BY <1>3, <1>4, BiasAgrees
<1>. QED
  BY <1>1, <1>5 DEF FinishedCells

CellsOf(cells) == {<<c, cells[c]>> : c \in DOMAIN cells}

\* SecureGemm computes what Gemm does.
LEMMA LinearOutputAgrees ==
  ASSUME NEW k, NEW x, NEW ys, GemmRun(k, x, ys),
         NEW bias, NEW cells, FinishedCells(k, x, ys, cells, bias), NEW l, HasItsBias(l, bias),
         IsPlainGemm(l),
         ys = Onnx!LayerShape(l, k.shape, x)
  PROVE  CellsOf(cells) = Onnx!LayerOutput(l, k.shape, x)
<1>1. PICK w, output : w = k.shape /\ output = Onnx!LayerOutput(l, w, x)
  OBVIOUS
<1>2. ys \in Nat \X Nat /\ Len(ys) = 2 /\ DOMAIN cells = UpTo(Elements(ys))
  BY DEF GemmRun, FinishedCells
<1>3. ASSUME NEW b \in UpTo(ys[1]), NEW o \in UpTo(ys[2]), NEW c, c = b * ys[2] + o
      PROVE  /\ c \in DOMAIN cells
             /\ cells[c] = Onnx!SetToBag(Onnx!GemmTerms(l, w, x, b, o) \cup Onnx!BiasOf(l, o))
  <2>1. ys \in Int \X Int
    BY <1>2
  <2>2. c \in UpTo(Elements(ys)) /\ Place(ys, c) = <<b, o>>
    BY <1>3, <2>1, ElementOfTwo
  <2>3. c \in DOMAIN cells /\ Place(ys, c)[2] = o
    BY <1>2, <2>2
  <2>4. PICK T : T = Onnx!GemmTerms(l, k.shape, x, b, o)
    OBVIOUS
  <2>5. Terms(Products(k, x, ys, AllPairs(k, x)), c) = SetToBag(T)
    <3>1. Terms(Products(k, x, ys, AllPairs(k, x)), c)
            = SetToBag(Onnx!GemmTerms(l, k.shape, x, b, o))
      BY <1>3, GemmTermsAgree DEF AllPairs
    <3>. QED
      BY <2>4, <3>1
  <2>6. cells[c] = Onnx!SetToBag(T \cup Onnx!BiasOf(l, o))
    BY <2>3, <2>5, CellAgrees
  <2>. QED
    BY <1>1, <2>3, <2>4, <2>6
<1>4. ASSUME NEW z \in output
      PROVE  z \in {<<c, cells[c]>> : c \in DOMAIN cells}
  <2>1. PICK b \in UpTo(ys[1]), o \in UpTo(ys[2]) :
          z = <<b * ys[2] + o,
                Onnx!SetToBag(Onnx!GemmTerms(l, w, x, b, o) \cup Onnx!BiasOf(l, o))>>
    <3>1. InLinear(z, l, w, x, ys)
      BY <1>1, <1>2, <1>4, LinearOutputOf
    <3>. QED
      BY <3>1 DEF InLinear
  <2>2. PICK c : c = b * ys[2] + o
    OBVIOUS
  <2>3. c \in DOMAIN cells /\ z = <<c, cells[c]>>
    BY <1>3, <2>1, <2>2
  <2>. QED
    BY <2>3
<1>5. ASSUME NEW c \in DOMAIN cells
      PROVE  <<c, cells[c]>> \in output
  <2>1. PICK b \in UpTo(ys[1]), o \in UpTo(ys[2]) : c = b * ys[2] + o
    BY <1>2, TwoOfElement
  <2>2. PICK z : z = <<c, cells[c]>>
    OBVIOUS
  <2>3. z = <<b * ys[2] + o,
              Onnx!SetToBag(Onnx!GemmTerms(l, w, x, b, o) \cup Onnx!BiasOf(l, o))>>
    BY <1>3, <2>1, <2>2
  <2>4. InLinear(z, l, w, x, ys)
    BY <2>1, <2>3 DEF InLinear
  <2>5. z \in Onnx!LayerOutput(l, w, x)
    BY <1>1, <1>2, <2>4, LinearOutputOf
  <2>. QED
    BY <1>1, <2>2, <2>5
<1>. QED
  BY <1>1, <1>4, <1>5 DEF CellsOf

\* The kernel k runs as a convolution over the shapes of the layer l.
Convolves(k, x, ys, l) ==
  /\ l.op \in {"Conv", "ConvTranspose"}
  /\ l.op = "Conv" => ConvRun(k, x, ys) /\ x[2] = k.shape[2]
  /\ l.op = "ConvTranspose" => ConvTransposeRun(k, x, ys)
  /\ ys \in Nat \X Nat \X Nat \X Nat
  /\ MovesAs(k, l) /\ Onnx!Group(l) = 1

\* SecureConv computes what Conv does, and SecureConvTranspose what
\* ConvTranspose does.
LEMMA ConvolutionOutputAgrees ==
  ASSUME NEW k, NEW x, NEW ys,
         NEW bias, NEW cells, FinishedCells(k, x, ys, cells, bias), NEW l, HasItsBias(l, bias),
         Convolves(k, x, ys, l),
         ys = Onnx!LayerShape(l, k.shape, x)
  PROVE  CellsOf(cells) = Onnx!LayerOutput(l, k.shape, x)
<1>. /\ l.op \in {"Conv", "ConvTranspose"}
     /\ l.op = "Conv" => ConvRun(k, x, ys) /\ x[2] = k.shape[2]
     /\ l.op = "ConvTranspose" => ConvTransposeRun(k, x, ys)
     /\ ys \in Nat \X Nat \X Nat \X Nat
     /\ MovesAs(k, l) /\ Onnx!Group(l) = 1
  BY DEF Convolves
<1>1. PICK w, output : w = k.shape /\ output = Onnx!LayerOutput(l, w, x)
  OBVIOUS
<1>2. Len(ys) = 4 /\ DOMAIN cells = UpTo(Elements(ys))
  BY DEF FinishedCells
<1>3. ASSUME NEW b \in UpTo(ys[1]), NEW o \in UpTo(ys[2]), NEW h \in UpTo(ys[3]),
             NEW v \in UpTo(ys[4]), NEW c, c = Index4(ys, b, o, h, v)
      PROVE  /\ c \in DOMAIN cells
             /\ cells[c] = Onnx!SetToBag(ConvolutionTerms(l, w, x, b, o, h, v)
                                         \cup Onnx!BiasOf(l, o))
  <2>1. ys \in Int \X Int \X Int \X Int
    OBVIOUS
  <2>2. c \in UpTo(Elements(ys)) /\ Place(ys, c) = <<b, o>>
    BY <1>3, <2>1, ElementOfFour
  <2>3. c \in DOMAIN cells /\ Place(ys, c)[2] = o
    BY <1>2, <2>2
  <2>4. PICK T : T = ConvolutionTerms(l, k.shape, x, b, o, h, v)
    OBVIOUS
  <2>5. Terms(Products(k, x, ys, AllPairs(k, x)), c) = SetToBag(T)
    <3>1. CASE l.op = "Conv"
      <4>1. T = Onnx!ConvTerms(l, k.shape, x, b, o, h, v)
        BY <2>4, <3>1 DEF ConvolutionTerms
      <4>. QED
        BY <1>3, <3>1, <4>1, ConvTermsAgree DEF AllPairs
    <3>2. CASE l.op = "ConvTranspose"
      <4>1. T = Onnx!ConvTransposeTerms(l, k.shape, x, b, o, h, v)
        BY <2>4, <3>2 DEF ConvolutionTerms
      <4>. QED
        BY <1>3, <3>2, <4>1, ConvTransposeTermsAgree DEF AllPairs
    <3>. QED
      BY <3>1, <3>2
  <2>6. cells[c] = Onnx!SetToBag(T \cup Onnx!BiasOf(l, o))
    <3>1. GemmRun(k, x, ys) \/ ConvRun(k, x, ys) \/ ConvTransposeRun(k, x, ys)
      OBVIOUS
    <3>2. Place(ys, c)[2] = o /\ c \in DOMAIN cells
      BY <2>3
    <3>. QED
      BY <2>5, <3>1, <3>2, CellAgrees
  <2>. QED
    BY <1>1, <2>3, <2>4, <2>6
<1>4. ASSUME NEW z \in output
      PROVE  z \in {<<c, cells[c]>> : c \in DOMAIN cells}
  <2>1. PICK b \in UpTo(ys[1]), o \in UpTo(ys[2]), h \in UpTo(ys[3]), v \in UpTo(ys[4]) :
          z = <<Index4(ys, b, o, h, v),
                Onnx!SetToBag(ConvolutionTerms(l, w, x, b, o, h, v) \cup Onnx!BiasOf(l, o))>>
    <3>1. InConvolution(z, l, w, x, ys)
      BY <1>1, <1>2, <1>4, ConvolutionOutputOf
    <3>. QED
      BY <3>1 DEF InConvolution
  <2>2. PICK c : c = Index4(ys, b, o, h, v)
    OBVIOUS
  <2>3. c \in DOMAIN cells /\ z = <<c, cells[c]>>
    BY <1>3, <2>1, <2>2
  <2>. QED
    BY <2>3
<1>5. ASSUME NEW c \in DOMAIN cells
      PROVE  <<c, cells[c]>> \in output
  <2>1. PICK b \in UpTo(ys[1]), o \in UpTo(ys[2]), h \in UpTo(ys[3]), v \in UpTo(ys[4]) :
          c = Index4(ys, b, o, h, v)
    <3>1. c \in UpTo(Elements(ys)) /\ ys \in Nat \X Nat \X Nat \X Nat
      BY <1>2
    <3>. QED
      BY <3>1, FourOfElement
  <2>2. PICK z : z = <<c, cells[c]>>
    OBVIOUS
  <2>3. z = <<Index4(ys, b, o, h, v),
              Onnx!SetToBag(ConvolutionTerms(l, w, x, b, o, h, v) \cup Onnx!BiasOf(l, o))>>
    BY <1>3, <2>1, <2>2
  <2>4. InConvolution(z, l, w, x, ys)
    BY <2>3 DEF InConvolution
  <2>5. z \in Onnx!LayerOutput(l, w, x)
    BY <1>1, <1>2, <2>4, ConvolutionOutputOf
  <2>. QED
    BY <1>1, <2>2, <2>5
<1>. QED
  BY <1>1, <1>4, <1>5 DEF CellsOf

-----------------------------------------------------------------------------
(***************************************************************************)
(* The cells in the middle of the loops.                                   *)
(***************************************************************************)

\* Some pairs more are done.
LEMMA MoreDone ==
  ASSUME NEW S, NEW rest, rest \subseteq S, NEW it \in rest
  PROVE  UNION (S \ (rest \ {it})) = (UNION (S \ rest)) \cup it
OBVIOUS

\* Before the loop nothing is done, and what is empty is the sum of nothing.
LEMMA CellsBefore ==
  ASSUME NEW k, NEW x, NEW ys, NEW bias, NEW start, k.op = "SecureConvTranspose" => start = EmptyBag,
         NEW cells, cells = [c \in UpTo(Elements(ys)) |-> start]
  PROVE  LoopCells(k, x, ys, cells, {}, bias)
<1>1. ASSUME NEW c, k.op = "SecureConvTranspose"
      PROVE  Terms(Products(k, x, ys, {}), c) = EmptyBag
  <2>1. PICK ps : ps = Products(k, x, ys, {})
    OBVIOUS
  <2>2. \A p : p \notin ps
    BY <1>1, <2>1, MoreProducts
  <2>3. {<<p[2], p[3], 1>> : p \in {q \in ps : q[1] = c}} = {}
    BY <2>2
  <2>4. Terms(ps, c) = SetToBag({})
    BY <2>3 DEF Terms
  <2>. QED
    BY <2>1, <2>4 DEF EmptyBag
<1>. QED
  BY <1>1 DEF LoopCells

\* An iteration of SecureGemm or SecureConv.
LEMMA AssignedCells ==
  ASSUME NEW k, NEW x, NEW ys, GemmRun(k, x, ys) \/ ConvRun(k, x, ys),
         NEW bias, NEW cells, NEW done, LoopCells(k, x, ys, cells, done, bias),
         NEW it, it \subseteq AllPairs(k, x),
         NEW new, new = [c \in DOMAIN cells |->
                           IF Place(ys, c) \in it
                           THEN Terms(Products(k, x, ys, it), c) (+) Bias(ys, c, bias)
                           ELSE cells[c]]
  PROVE  LoopCells(k, x, ys, new, done \cup it, bias)
<1>1. PICK all, some, every : /\ every = AllPairs(k, x)
                              /\ all = Products(k, x, ys, every) /\ some = Products(k, x, ys, it)
  OBVIOUS
<1>2. k.op \in {"SecureGemm", "SecureConv"}
  BY DEF GemmRun, ConvRun
<1>3. ASSUME NEW c, Place(ys, c) \in it
      PROVE  Terms(some, c) = Terms(all, c)
  <2>1. ASSUME NEW p \in some PROVE p \in all
    BY <1>1, <1>2, <2>1, MoreProducts
  <2>2. ASSUME NEW p \in all, p[1] = c PROVE p \in some
    <3>1. Place(ys, p[1]) \in it
      BY <1>3, <2>2
    <3>. QED
      BY <1>1, <3>1, ProductsOfPlace DEF AllPairs
  <2>. QED
    BY <2>1, <2>2, TermsOfCell
<1>4. ASSUME NEW c \in DOMAIN cells, Place(ys, c) \in done \cup it
      PROVE  new[c] = Terms(all, c) (+) Bias(ys, c, bias)
  <2>1. CASE Place(ys, c) \in it
    BY <1>1, <1>3, <2>1
  <2>2. CASE Place(ys, c) \notin it
    <3>1. cells[c] = Terms(all, c) (+) Bias(ys, c, bias)
      BY <1>1, <1>2, <1>4, <2>2 DEF LoopCells
    <3>. QED
      BY <2>2, <3>1
  <2>. QED
    BY <2>1, <2>2
<1>5. DOMAIN new = UpTo(Elements(ys)) /\ DOMAIN new = DOMAIN cells
  BY DEF LoopCells
<1>. QED
  BY <1>1, <1>2, <1>4, <1>5 DEF LoopCells

\* An iteration of SecureConvTranspose.
LEMMA AccumulatedCells ==
  ASSUME NEW k, NEW x, NEW ys, ConvTransposeRun(k, x, ys),
         NEW bias, NEW cells, NEW done, LoopCells(k, x, ys, cells, done, bias),
         NEW it, it \subseteq AllPairs(k, x), done \subseteq AllPairs(k, x), it \cap done = {},
         NEW new, new = [c \in DOMAIN cells |-> cells[c] (+) Terms(Products(k, x, ys, it), c)]
  PROVE  LoopCells(k, x, ys, new, done \cup it, bias)
<1>1. PICK old, some : old = Products(k, x, ys, done) /\ some = Products(k, x, ys, it)
  OBVIOUS
<1>2. k.op = "SecureConvTranspose"
  BY DEF ConvTransposeRun
<1>3. ASSUME NEW p \in old, NEW q \in some
      PROVE  <<p[2], p[3]>> # <<q[2], q[3]>>
  <2>1. Place(x, p[2]) \in done
    BY <1>1, ProductsOfInput DEF AllPairs
  <2>2. Place(x, q[2]) \in it
    BY <1>1, ProductsOfInput DEF AllPairs
  <2>. QED
    BY <2>1, <2>2
<1>4. old \cup some = Products(k, x, ys, done \cup it)
  <2>1. PICK both : both = Products(k, x, ys, done \cup it)
    OBVIOUS
  <2>2. \A p : p \in both <=> p \in old \/ p \in some
    BY <1>1, <1>2, <2>1, MoreProducts
  <2>. QED
    BY <2>1, <2>2
<1>5. ASSUME NEW c \in DOMAIN cells
      PROVE  new[c] = Terms(Products(k, x, ys, done \cup it), c)
  <2>1. cells[c] = Terms(old, c)
    BY <1>1, <1>2 DEF LoopCells
  <2>2. Terms(old, c) (+) Terms(some, c) = Terms(old \cup some, c)
    BY <1>3, TermsOfUnion
  <2>. QED
    BY <1>1, <1>4, <2>1, <2>2
<1>6. DOMAIN new = UpTo(Elements(ys)) /\ DOMAIN new = DOMAIN cells
  BY DEF LoopCells
<1>. QED
  BY <1>2, <1>5, <1>6 DEF LoopCells

\* The cells of an output whose dimensions are natural numbers belong to the
\* pairs of SecureGemm and SecureConv.
LEMMA CellsHavePlaces ==
  ASSUME NEW k, NEW x, NEW ys, GemmRun(k, x, ys) \/ ConvRun(k, x, ys),
         ConvRun(k, x, ys) => ys \in Nat \X Nat \X Nat \X Nat,
         NEW c \in UpTo(Elements(ys))
  PROVE  Place(ys, c) \in AllPairs(k, x)
<1>1. CASE GemmRun(k, x, ys)
  <2>1. ys \in Nat \X Nat /\ ys \in Int \X Int /\ ys[1] = x[1] /\ ys[2] = k.shape[1]
    BY <1>1 DEF GemmRun
  <2>2. PICK b \in UpTo(ys[1]), o \in UpTo(ys[2]) : c = b * ys[2] + o
    BY <2>1, TwoOfElement
  <2>3. Place(ys, c) = <<b, o>>
    BY <2>1, <2>2, ElementOfTwo
  <2>. QED
    BY <2>1, <2>3 DEF AllPairs
<1>2. CASE ConvRun(k, x, ys)
  <2>1. /\ ys \in Nat \X Nat \X Nat \X Nat /\ ys \in Int \X Int \X Int \X Int
        /\ ys[1] = x[1] /\ ys[2] = k.shape[1]
    BY <1>2 DEF ConvRun
  <2>2. PICK b \in UpTo(ys[1]), o \in UpTo(ys[2]), h \in UpTo(ys[3]), v \in UpTo(ys[4]) :
          c = Index4(ys, b, o, h, v)
    BY <2>1, FourOfElement
  <2>3. Place(ys, c) = <<b, o>>
    BY <2>1, <2>2, ElementOfFour
  <2>. QED
    BY <2>1, <2>3 DEF AllPairs
<1>. QED
  BY <1>1, <1>2

\* After the loop everything is done.
LEMMA CellsAfter ==
  ASSUME NEW k, NEW x, NEW ys,
         GemmRun(k, x, ys) \/ ConvRun(k, x, ys) \/ ConvTransposeRun(k, x, ys),
         ConvRun(k, x, ys) => ys \in Nat \X Nat \X Nat \X Nat,
         NEW bias, NEW cells, LoopCells(k, x, ys, cells, AllPairs(k, x), bias),
         NEW new, new = IF k.op = "SecureConvTranspose"
                        THEN [c \in DOMAIN cells |-> cells[c] (+) Bias(ys, c, bias)] ELSE cells
  PROVE  FinishedCells(k, x, ys, new, bias)
<1>1. DOMAIN new = UpTo(Elements(ys)) /\ DOMAIN new = DOMAIN cells
  BY DEF LoopCells
<1>2. PICK ps, every : every = AllPairs(k, x) /\ ps = Products(k, x, ys, every)
  OBVIOUS
<1>3. ASSUME NEW c \in DOMAIN cells
      PROVE  new[c] = Terms(ps, c) (+) Bias(ys, c, bias)
  <2>1. CASE k.op = "SecureConvTranspose"
    <3>1. cells[c] = Terms(ps, c)
      BY <1>2, <2>1 DEF LoopCells
    <3>. QED
      BY <2>1, <3>1
  <2>2. CASE k.op # "SecureConvTranspose"
    <3>1. GemmRun(k, x, ys) \/ ConvRun(k, x, ys)
      BY <2>2 DEF ConvTransposeRun
    <3>2. c \in UpTo(Elements(ys))
      BY <1>1
    <3>3. Place(ys, c) \in AllPairs(k, x)
      BY <3>1, <3>2, CellsHavePlaces
    <3>4. cells[c] = Terms(ps, c) (+) Bias(ys, c, bias)
      BY <1>2, <2>2, <3>3 DEF LoopCells
    <3>. QED
      BY <2>2, <3>4
  <2>. QED
    BY <2>1, <2>2
<1>. QED
  BY <1>1, <1>2, <1>3 DEF FinishedCells

-----------------------------------------------------------------------------
(***************************************************************************)
(* The initial state.                                                      *)
(***************************************************************************)

LEMMA InitHolds == Init => IInv
<1>. SUFFICES ASSUME Init PROVE IInv
  OBVIOUS
<1>1. /\ original \in Models /\ layers_to_encrypt \in Targets
      /\ initializer = original.initializer /\ nodes = original.nodes
      /\ new_nodes = <<>> /\ layer_sizes = <<>> /\ max_layer_size_bytes = 0 /\ saved = FALSE
      /\ index = 0 /\ stage = "unloaded" /\ y = <<>>
  BY DEF Init, RewriteInit, OperatorInit
<1>2. Len(new_nodes) = 0 /\ SecuredWeights = {} /\ DOMAIN y = {}
  BY <1>1 DEF SecuredWeights
<1>3. nodes \in Seq(Range(nodes)) /\ Len(nodes) \in Nat
  BY <1>1, ModelFacts, SequenceFacts
<1>4. new_nodes \in Seq(Range(new_nodes))
  BY <1>1, EmptySeq
<1>5. LoopPosition
  BY <1>1, <1>2, <1>3, <1>4 DEF LoopPosition
<1>6. InitializersInv /\ NodesInv
  BY <1>1, <1>2 DEF InitializersInv, NodesInv
<1>7. SizesInv
  <2>1. saved \in BOOLEAN
    BY <1>1, Zenon
  <2>. QED
    BY <1>1, <1>2, <2>1 DEF SizesInv
<1>8. KernelInv /\ ShapesInv
  BY <1>1, <1>2 DEF KernelInv, ShapesInv
<1>. QED
  BY <1>5, <1>6, <1>7, <1>8 DEF IInv

-----------------------------------------------------------------------------
(***************************************************************************)
(* The loop of rewrite_onnx_graph.                                         *)
(***************************************************************************)

\* The head of the list of nodes, and the lists after one round of the loop.
LEMMA LoopFacts ==
  ASSUME IInv, nodes # <<>>, NEW new,
         new_nodes' = Append(new_nodes, new), nodes' = Tail(nodes),
         UNCHANGED <<original, layers_to_encrypt>>
  PROVE  /\ LoopPosition'
         /\ Len(new_nodes) \in Nat /\ Len(new_nodes') = Len(new_nodes) + 1
         /\ Len(new_nodes') \in 1..Len(original.nodes)
         /\ Head(nodes) = original.nodes[Len(new_nodes')]
         /\ new_nodes'[Len(new_nodes')] = new
         /\ \A i \in 1..Len(new_nodes) : new_nodes'[i] = new_nodes[i]
<1>1. /\ original \in Models /\ layers_to_encrypt \in Targets
      /\ nodes \in Seq(Range(nodes)) /\ new_nodes \in Seq(Range(new_nodes))
      /\ Len(nodes) + Len(new_nodes) = Len(original.nodes)
      /\ \A i \in 1..Len(nodes) : nodes[i] = original.nodes[Len(new_nodes) + i]
  BY DEF IInv, LoopPosition
<1>2. PICK k, l, n, t, s :
        /\ k = Len(new_nodes) /\ l = Len(nodes) /\ n = Len(original.nodes)
        /\ t = nodes' /\ s = new_nodes'
  OBVIOUS
<1>3. /\ l \in Nat \ {0} /\ Head(nodes) = nodes[1]
      /\ t \in Seq(Range(t)) /\ Len(t) = l - 1
      /\ \A i \in 1..Len(t) : t[i] = nodes[i + 1]
  <2>1. t = Tail(nodes) /\ nodes # <<>> /\ nodes \in Seq(Range(nodes))
    BY <1>1, <1>2
  <2>2. /\ Len(nodes) \in Nat \ {0}
        /\ Head(nodes) = nodes[1]
        /\ t \in Seq(Range(t))
        /\ Len(t) = Len(nodes) - 1
        /\ \A i \in 1..Len(t) : t[i] = nodes[i + 1]
    BY <2>1, TailFacts, Zenon
  <2>. QED
    BY <2>2, <1>2
<1>4. /\ s \in Seq(Range(s)) /\ k \in Nat /\ Len(s) = k + 1
      /\ s[k + 1] = new
      /\ \A i \in 1..k : s[i] = new_nodes[i]
  <2>1. s = Append(new_nodes, new) /\ new_nodes \in Seq(Range(new_nodes))
    BY <1>1, <1>2
  <2>2. /\ s \in Seq(Range(s))
        /\ Len(new_nodes) \in Nat /\ Len(s) = Len(new_nodes) + 1
        /\ s[Len(new_nodes) + 1] = new
        /\ \A i \in 1..Len(new_nodes) : s[i] = new_nodes[i]
    <3>1. LET q == Append(new_nodes, new) IN
          /\ q \in Seq(Range(q))
          /\ Len(new_nodes) \in Nat /\ Len(q) = Len(new_nodes) + 1
          /\ q[Len(new_nodes) + 1] = new
          /\ \A i \in 1..Len(new_nodes) : q[i] = new_nodes[i]
      BY <2>1, AppendFacts
    <3>. QED
      BY <2>1, <3>1, Zenon
  <2>. QED
    BY <2>2, <1>2
<1>5. l + k = n /\ \A i \in 1..l : nodes[i] = original.nodes[k + i]
  BY <1>1, <1>2
<1>6. Head(nodes) = original.nodes[k + 1] /\ k + 1 \in 1..n /\ Len(t) + Len(s) = n
  BY <1>3, <1>4, <1>5
<1>7. ASSUME NEW i \in 1..Len(t)
      PROVE  t[i] = original.nodes[Len(s) + i]
  <2>1. i + 1 \in 1..l /\ k + (i + 1) = Len(s) + i
    BY <1>3, <1>4, <1>7
  <2>. QED
    BY <1>3, <1>5, <1>7, <2>1
<1>8. LoopPosition'
  BY <1>1, <1>2, <1>3, <1>4, <1>6, <1>7 DEF LoopPosition
<1>. QED
  BY <1>2, <1>4, <1>6, <1>8

\* What the loop is at is a node of the original model.
LEMMA OriginalNodes ==
  ASSUME IInv, NEW i \in 1..Len(original.nodes), NEW n, n = original.nodes[i]
  PROVE  /\ n.op \notin SecureOps
         /\ n.inputs \in Seq(Range(n.inputs))
         /\ \A k \in 1..Len(n.inputs) : n.inputs[k] = <<n.inputs[k][1], "">>
         /\ n.op \in Rewritten =>
              Len(n.inputs) \in {2, 3} /\ n.inputs[2] = <<NameOf(n), "">>
<1>1. original \in Models
  BY DEF IInv, LoopPosition
<1>. QED
  BY <1>1, ModelFacts

LEMMA OriginalInitializers ==
  ASSUME IInv, NEW name \in DOMAIN original.initializer
  PROVE  /\ name = <<name[1], "">>
         /\ original.initializer[name].kind = "plain"
         /\ TensorBytes(original.initializer[name]) \in Nat
         /\ Elements(original.initializer[name].shape) \in Nat
<1>1. original \in Models
  BY DEF IInv, LoopPosition
<1>. QED
  BY <1>1, ModelFacts

\* A weight that is still in the graph is the original one; the round
\* replaces it by its parts and records its size.
LEMMA SecureDictionaries ==
  ASSUME IInv, NEW n, Secured(n), UNCHANGED original,
         initializer' = Over(Encrypted(n), Without(initializer, n.inputs[2])),
         layer_sizes' = Over(SizeOf(n), layer_sizes),
         NEW w, w = NameOf(n)
  PROVE  /\ n.inputs[2] = <<w, "">> /\ <<w, "">> \in DOMAIN original.initializer
         /\ <<w, "">> \in DOMAIN initializer /\ initializer[<<w, "">>] = Tensor(w)
         /\ w \notin SecuredWeights
         /\ DOMAIN initializer' = ({w} \X Parts) \cup (DOMAIN initializer \ {<<w, "">>})
         /\ SecuredWeights' = SecuredWeights \cup {w}
         /\ layer_sizes'[w] = TensorBytes(Tensor(w))
         /\ \A v \in SecuredWeights : layer_sizes'[v] = layer_sizes[v]
<1>1. n.inputs[2] = <<w, "">> /\ <<w, "">> \in DOMAIN initializer
  BY DEF Secured
<1>2. <<w, "">> \notin SecuredWeights \X Parts
  BY DEF Parts
<1>3. /\ <<w, "">> \in DOMAIN original.initializer /\ w \notin SecuredWeights
      /\ initializer[<<w, "">>] = Tensor(w)
  BY <1>1, <1>2 DEF IInv, InitializersInv, Tensor
<1>4. DOMAIN Encrypted(n) = {w} \X Parts
  BY DEF Encrypted
<1>5. DOMAIN Without(initializer, <<w, "">>) = DOMAIN initializer \ {<<w, "">>}
  BY DEF Without
<1>6. DOMAIN initializer' = DOMAIN Encrypted(n) \cup DOMAIN Without(initializer, <<w, "">>)
  BY <1>1 DEF Over
<1>7. /\ SecuredWeights' = SecuredWeights \cup {w}
      /\ layer_sizes'[w] = TensorBytes(Tensor(w))
      /\ \A v \in SecuredWeights : layer_sizes'[v] = layer_sizes[v]
  BY <1>1, <1>3 DEF Over, SizeOf, SecuredWeights
<1>. QED
  BY <1>1, <1>3, <1>4, <1>5, <1>6, <1>7

LEMMA SecureKeepsInitializers ==
  ASSUME IInv, NEW n, Secured(n), UNCHANGED original,
         initializer' = Over(Encrypted(n), Without(initializer, n.inputs[2])),
         layer_sizes' = Over(SizeOf(n), layer_sizes)
  PROVE  InitializersInv'
<1>. PICK w : w = NameOf(n)
  OBVIOUS
<1>1. /\ n.inputs[2] = <<w, "">> /\ <<w, "">> \in DOMAIN original.initializer
      /\ <<w, "">> \in DOMAIN initializer /\ initializer[<<w, "">>] = Tensor(w)
      /\ w \notin SecuredWeights
      /\ DOMAIN initializer' = ({w} \X Parts) \cup (DOMAIN initializer \ {<<w, "">>})
      /\ SecuredWeights' = SecuredWeights \cup {w}
      /\ layer_sizes'[w] = TensorBytes(Tensor(w))
      /\ \A v \in SecuredWeights : layer_sizes'[v] = layer_sizes[v]
  BY SecureDictionaries
<1>2. /\ \A part \in Parts : initializer'[<<w, part>>] = Blob(w, part)
      /\ \A name \in DOMAIN initializer \ ({w} \X Parts) :
           name # <<w, "">> => initializer'[name] = initializer[name]
  <2>1. PICK new, rest : new = Encrypted(n) /\ rest = Without(initializer, <<w, "">>)
    OBVIOUS
  <2>2. new = [name \in {w} \X Parts |->
                 [kind |-> name[2], of |-> name[1], dtype |-> "uint8",
                  shape |-> <<CASE name[2] = "encrypted" -> TensorBytes(Tensor(w))
                                [] name[2] = "iv" -> 12
                                [] name[2] = "tag" -> 16>>,
                  aad |-> <<name[1], Tensor(w).shape, Tensor(w).dtype>>]]
    BY <1>1, <2>1 DEF Encrypted
  <2>3. ASSUME NEW part \in Parts
        PROVE  <<w, part>> \in DOMAIN new /\ new[<<w, part>>] = Blob(w, part)
    <3>1. <<w, part>> \in {w} \X Parts /\ <<w, part>>[1] = w /\ <<w, part>>[2] = part
      OBVIOUS
    <3>. QED
      BY <2>2, <3>1 DEF Blob
  <2>4. /\ DOMAIN new = {w} \X Parts
        /\ DOMAIN rest = DOMAIN initializer \ {<<w, "">>}
        /\ \A name \in DOMAIN rest : rest[name] = initializer[name]
    BY <2>1, <2>2 DEF Without
  <2>5. /\ \A name \in DOMAIN new : initializer'[name] = new[name]
        /\ \A name \in DOMAIN rest \ DOMAIN new : initializer'[name] = rest[name]
    BY <1>1, <2>1 DEF Over
  <2>. QED
    BY <2>3, <2>4, <2>5
<1>3. /\ \A v : Tensor(v)' = Tensor(v)
      /\ \A v, part : Blob(v, part)' = Blob(v, part)
  BY DEF Tensor, Blob
<1>4. "" \notin Parts
  BY DEF Parts
<1>5. ASSUME NEW name \in DOMAIN initializer'
      PROVE  \/ /\ name \in DOMAIN original.initializer /\ name[1] \notin SecuredWeights'
                /\ initializer'[name] = original.initializer[name]
             \/ name \in SecuredWeights' \X Parts
  <2>1. CASE name \in {w} \X Parts
    BY <1>1, <1>2, <2>1
  <2>2. CASE name \in DOMAIN initializer /\ name # <<w, "">> /\ name \notin {w} \X Parts
    <3>1. CASE name \in SecuredWeights \X Parts
      BY <1>1, <1>2, <3>1
    <3>2. CASE /\ name \in DOMAIN original.initializer /\ name[1] \notin SecuredWeights
               /\ initializer[name] = original.initializer[name]
      <4>1. name = <<name[1], "">>
        BY <3>2, OriginalInitializers
      <4>2. name[1] # w
        BY <2>2, <4>1
      <4>3. initializer'[name] = original.initializer[name]
        BY <1>1, <1>2, <2>2, <3>2
      <4>. QED
        BY <1>1, <1>2, <3>2, <4>2, <4>3
    <3>. QED
      BY <2>2, <3>1, <3>2 DEF IInv, InitializersInv
  <2>. QED
    BY <1>1, <1>2, <1>5, <2>1, <2>2
<1>6. ASSUME NEW name \in DOMAIN original.initializer
      PROVE  name \in DOMAIN initializer' \/ name[1] \in SecuredWeights'
  <2>1. name \in DOMAIN initializer \/ name[1] \in SecuredWeights
    BY DEF IInv, InitializersInv
  <2>2. <<w, "">>[1] = w
    OBVIOUS
  <2>3. name = <<w, "">> => name[1] = w
    BY <2>2, Zenon
  <2>. QED
    BY <1>1, <1>2, <2>1, <2>3
<1>7. ASSUME NEW v \in SecuredWeights'
      PROVE  /\ <<v, "">> \in DOMAIN original.initializer
             /\ layer_sizes'[v] = TensorBytes(Tensor(v))
             /\ \A part \in Parts :
                  /\ <<v, part>> \in DOMAIN initializer'
                  /\ initializer'[<<v, part>>] = Blob(v, part)
  <2>1. CASE v = w
    BY <1>1, <1>2, <2>1
  <2>2. CASE v \in SecuredWeights /\ v # w
    <3>1. /\ <<v, "">> \in DOMAIN original.initializer
          /\ layer_sizes[v] = TensorBytes(Tensor(v))
          /\ \A part \in Parts :
               <<v, part>> \in DOMAIN initializer /\ initializer[<<v, part>>] = Blob(v, part)
      BY <2>2 DEF IInv, InitializersInv
    <3>2. \A part \in Parts : <<v, part>> # <<w, "">> /\ <<v, part>> \notin {w} \X Parts
      BY <2>2
    <3>. QED
      BY <1>1, <1>2, <2>2, <3>1, <3>2
  <2>. QED
    BY <1>1, <1>2, <1>7, <2>1, <2>2
<1>8. \A v \in SecuredWeights' :
        /\ <<v, "">> \in DOMAIN original.initializer'
        /\ layer_sizes'[v] = TensorBytes(Tensor(v)')
        /\ \A part \in Parts :
             <<v, part>> \in DOMAIN initializer' /\ initializer'[<<v, part>>] = Blob(v, part)'
  BY <1>3, <1>7
<1>. QED
  BY <1>5, <1>6, <1>8 DEF InitializersInv

LEMMA SecureKeepsSizes ==
  ASSUME IInv, NEW n, Secured(n),
         initializer' = Over(Encrypted(n), Without(initializer, n.inputs[2])),
         layer_sizes' = Over(SizeOf(n), layer_sizes), nodes # <<>>,
         UNCHANGED <<original, max_layer_size_bytes, saved>>
  PROVE  SizesInv'
<1>1. PICK w : w = NameOf(n)
  OBVIOUS
<1>2. /\ <<w, "">> \in DOMAIN original.initializer
      /\ SecuredWeights' = SecuredWeights \cup {w}
      /\ layer_sizes'[w] = TensorBytes(Tensor(w))
      /\ \A v \in SecuredWeights : layer_sizes'[v] = layer_sizes[v]
      /\ w \notin SecuredWeights
  BY <1>1, SecureDictionaries
<1>3. layer_sizes'[w] \in Nat
  BY <1>2, OriginalInitializers DEF Tensor
<1>4. /\ layer_sizes \in [SecuredWeights -> Nat]
      /\ SecuredWeights # {} =>
           \E largest \in SecuredWeights : \A v \in SecuredWeights :
             layer_sizes[v] <= layer_sizes[largest]
      /\ max_layer_size_bytes \in Nat
  BY DEF IInv, SizesInv
<1>5. ~saved /\ saved' = FALSE
  <2>1. ~saved /\ saved \in BOOLEAN
    BY DEF IInv, SizesInv
  <2>. QED
    BY <2>1
<1>6. layer_sizes' \in [SecuredWeights' -> Nat]
  <2>1. \A v \in SecuredWeights' : layer_sizes'[v] \in Nat
    BY <1>2, <1>3, <1>4
  <2>2. PICK S : S = DOMAIN SizeOf(n) \cup DOMAIN layer_sizes
    OBVIOUS
  <2>3. layer_sizes' = [v \in S |-> layer_sizes'[v]] /\ DOMAIN layer_sizes' = S
    BY <2>2 DEF Over
  <2>. QED
    BY <2>1, <2>3 DEF SecuredWeights
<1>7. \E largest \in SecuredWeights' : \A v \in SecuredWeights' :
        layer_sizes'[v] <= layer_sizes'[largest]
  <2>1. PICK D, old, new : D = SecuredWeights /\ old = layer_sizes /\ new = layer_sizes'
    OBVIOUS
  <2>2. /\ new[w] \in Nat /\ \A v \in D : old[v] \in Nat /\ new[v] = old[v]
        /\ D # {} => \E largest \in D : \A v \in D : old[v] <= old[largest]
    BY <1>2, <1>3, <1>4, <2>1
  <2>3. \E largest \in D \cup {w} : \A v \in D \cup {w} : new[v] <= new[largest]
    <3>1. CASE D = {}
      BY <2>2, <3>1
    <3>2. CASE D # {}
      <4>1. PICK big \in D : \A v \in D : old[v] <= old[big]
        BY <2>2, <3>2
      <4>2. CASE new[w] <= old[big]
        BY <2>2, <4>1, <4>2
      <4>3. CASE old[big] <= new[w]
        <5>1. ASSUME NEW v \in D
              PROVE  new[v] <= new[w]
          BY <2>2, <4>1, <4>3, <5>1
        <5>. QED
          BY <2>2, <5>1
      <4>. QED
        BY <2>2, <4>1, <4>2, <4>3
    <3>. QED
      BY <3>1, <3>2
  <2>. QED
    BY <1>2, <2>1, <2>3
<1>8. max_layer_size_bytes' \in Nat /\ saved' \in BOOLEAN
  BY <1>4, <1>5
<1>9. ~saved'
  BY <1>5
<1>. QED
  BY <1>6, <1>7, <1>8, <1>9 DEF SizesInv

LEMMA SecureFacts ==
  ASSUME IInv, NEW n, Secured(n), NEW new, Secure(n, new), NEW w, w = NameOf(n)
  PROVE  /\ n.inputs[2] = <<w, "">> /\ initializer[<<w, "">>] = Tensor(w)
         /\ DOMAIN initializer' = ({w} \X Parts) \cup (DOMAIN initializer \ {<<w, "">>})
         /\ SecuredWeights' = SecuredWeights \cup {w}
<1>1. /\ UNCHANGED original
      /\ initializer' = Over(Encrypted(n), Without(initializer, n.inputs[2]))
      /\ layer_sizes' = Over(SizeOf(n), layer_sizes)
  BY DEF Secure
<1>2. /\ n.inputs[2] = <<w, "">> /\ <<w, "">> \in DOMAIN original.initializer
      /\ <<w, "">> \in DOMAIN initializer /\ initializer[<<w, "">>] = Tensor(w)
      /\ w \notin SecuredWeights
      /\ DOMAIN initializer' = ({w} \X Parts) \cup (DOMAIN initializer \ {<<w, "">>})
      /\ SecuredWeights' = SecuredWeights \cup {w}
      /\ layer_sizes'[w] = TensorBytes(Tensor(w))
      /\ \A v \in SecuredWeights : layer_sizes'[v] = layer_sizes[v]
  BY <1>1, SecureDictionaries
<1>. QED
  BY <1>2

\* The node that stands for n has the attributes of the original weight.
LEMMA SecureKeepsNodes ==
  ASSUME IInv, NEW n, NEW w, w = NameOf(n), n = Head(nodes), nodes # <<>>,
         n.op \in Rewritten, Secured(n),
         NEW new, Secure(n, new), nodes' = Tail(nodes),
         new.op \in SecureOps, new.op = SecureOpOf(n.op), new.inputs = SecureInputs(n),
         new.op # "SecureGemm" => SameGeometry(new.attributes, n.attributes),
         {"shape", "dtype", "weight_name"} \subseteq DOMAIN new.attributes,
         new.attributes.weight_name = WeightAttributes(n).weight_name,
         new.attributes.shape = WeightAttributes(n).shape,
         new.attributes.dtype = WeightAttributes(n).dtype
  PROVE  LoopPosition' /\ NodesInv'
<1>1. /\ new_nodes' = Append(new_nodes, new)
      /\ UNCHANGED <<original, layers_to_encrypt>>
      /\ initializer' = Over(Encrypted(n), Without(initializer, n.inputs[2]))
      /\ layer_sizes' = Over(SizeOf(n), layer_sizes)
  BY DEF Secure
<1>2. /\ LoopPosition'
      /\ Len(new_nodes) \in Nat /\ Len(new_nodes') = Len(new_nodes) + 1
      /\ Len(new_nodes') \in 1..Len(original.nodes)
      /\ n = original.nodes[Len(new_nodes')]
      /\ new_nodes'[Len(new_nodes')] = new
      /\ \A i \in 1..Len(new_nodes) : new_nodes'[i] = new_nodes[i]
  BY <1>1, LoopFacts
<1>3. /\ n.inputs[2] = <<w, "">> /\ initializer[<<w, "">>] = Tensor(w)
      /\ DOMAIN initializer' = ({w} \X Parts) \cup (DOMAIN initializer \ {<<w, "">>})
      /\ SecuredWeights' = SecuredWeights \cup {w}
  BY SecureFacts
<1>4. Replaces(new, n, original)
  BY <1>3 DEF WeightAttributes, Replaces, Tensor
<1>5. PICK s, D, m : s = new_nodes' /\ D = SecuredWeights' /\ m = original
  OBVIOUS
<1>6. /\ Len(new_nodes) \in Nat /\ Len(s) = Len(new_nodes) + 1 /\ s[Len(s)] = new
      /\ Len(s) \in 1..Len(m.nodes) /\ n = m.nodes[Len(s)]
      /\ \A i \in 1..Len(new_nodes) : s[i] = new_nodes[i]
      /\ D = SecuredWeights \cup {w}
      /\ original' = m /\ layers_to_encrypt' = layers_to_encrypt
  BY <1>1, <1>2, <1>3, <1>5
<1>7. ASSUME NEW i \in 1..Len(s), NEW p, NEW o, p = s[i], o = m.nodes[i]
      PROVE  \/ Replaces(p, o, m) /\ NameOf(o) \in D
             \/ p = o /\ (Targeted(o, layers_to_encrypt) => o.inputs[2] \notin DOMAIN initializer')
  <2>1. CASE i = Len(s)
    BY <1>4, <1>5, <1>6, <1>7, <2>1
  <2>2. CASE i \in 1..Len(new_nodes)
    <3>1. p = new_nodes[i] /\ i \in 1..Len(original.nodes) /\ o = original.nodes[i]
      BY <1>5, <1>6, <1>7, <2>2
    <3>2. CASE Replaces(p, o, m) /\ NameOf(o) \in SecuredWeights
      BY <1>6, <3>2
    <3>3. CASE p = o /\ (Targeted(o, layers_to_encrypt) => o.inputs[2] \notin DOMAIN initializer)
      <4>1. ASSUME Targeted(o, layers_to_encrypt)
            PROVE  o.inputs[2] \notin DOMAIN initializer'
        <5>1. o.op \in Rewritten
          BY <4>1 DEF Targeted
        <5>2. o.inputs[2] = <<NameOf(o), "">>
          BY <3>1, <5>1, OriginalNodes
        <5>3. \A v : <<v, "">> \notin {w} \X Parts
          BY DEF Parts
        <5>. QED
          BY <1>3, <3>3, <4>1, <5>2, <5>3
      <4>. QED
        BY <3>3, <4>1
    <3>. QED
      BY <1>5, <2>2, <3>1, <3>2, <3>3 DEF IInv, NodesInv
  <2>. QED
    BY <1>6, <2>1, <2>2
<1>8. ASSUME NEW v \in D
      PROVE  \E i \in 1..Len(s) : Replaces(s[i], m.nodes[i], m) /\ NameOf(m.nodes[i]) = v
  <2>1. CASE v = w
    <3>1. Len(s) \in 1..Len(s)
      BY <1>6
    <3>. QED
      BY <1>4, <1>5, <1>6, <2>1, <3>1
  <2>2. CASE v \in SecuredWeights
    <3>1. PICK i \in 1..Len(new_nodes) :
            Replaces(new_nodes[i], m.nodes[i], m) /\ NameOf(m.nodes[i]) = v
      BY <1>5, <2>2 DEF IInv, NodesInv
    <3>2. i \in 1..Len(s) /\ s[i] = new_nodes[i]
      BY <1>6, <3>1
    <3>. QED
      BY <3>1, <3>2
  <2>. QED
    BY <1>6, <1>8, <2>1, <2>2
<1>9. NodesInv'
  <2>1. \A i \in 1..Len(s) :
          \/ Replaces(s[i], m.nodes[i], m) /\ NameOf(m.nodes[i]) \in D
          \/ /\ s[i] = m.nodes[i]
             /\ Targeted(m.nodes[i], layers_to_encrypt) =>
                  m.nodes[i].inputs[2] \notin DOMAIN initializer'
    BY <1>7
  <2>2. /\ s = new_nodes' /\ D = SecuredWeights' /\ m = original'
        /\ layers_to_encrypt' = layers_to_encrypt
    BY <1>5, <1>6
  <2>. QED
    BY <1>8, <2>1, <2>2, Zenon DEF NodesInv
<1>. QED
  BY <1>2, <1>9

\* No kernel exists before the model is saved.
LEMMA RewriteKeepsKernel ==
  ASSUME IInv, ~saved, UNCHANGED <<operatorVars, index>>
  PROVE  KernelInv' /\ ShapesInv'
<1>1. index = 0 /\ stage = "unloaded" /\ \A c \in DOMAIN y : IsABag(y[c])
  BY DEF IInv, KernelInv
<1>2. index' = 0 /\ stage' = "unloaded" /\ y' = y
  BY <1>1 DEF operatorVars
<1>. QED
  BY <1>1, <1>2 DEF KernelInv, ShapesInv

\* What the round leaves alone.
LEMMA InitializersStay ==
  ASSUME IInv, UNCHANGED <<original, initializer, layer_sizes>>
  PROVE  InitializersInv'
<1>1. /\ original' = original /\ initializer' = initializer
      /\ layer_sizes' = layer_sizes /\ SecuredWeights' = SecuredWeights
  BY DEF SecuredWeights
<1>2. /\ \A v : Tensor(v)' = Tensor(v)
      /\ \A v, part : Blob(v, part)' = Blob(v, part)
  BY DEF Tensor, Blob
<1>. QED
  BY <1>1, <1>2 DEF IInv, InitializersInv

LEMMA LoopBeforeSaving ==
  ASSUME IInv, nodes # <<>>
  PROVE  ~saved
BY DEF IInv, SizesInv

LEMMA SecureKeeps ==
  ASSUME IInv, UNCHANGED <<operatorVars, index>>,
         NEW n, n = Head(nodes), nodes # <<>>, n.op \in Rewritten, Secured(n),
         NEW new, Secure(n, new), nodes' = Tail(nodes),
         new.op \in SecureOps, new.op = SecureOpOf(n.op), new.inputs = SecureInputs(n),
         new.op # "SecureGemm" => SameGeometry(new.attributes, n.attributes),
         {"shape", "dtype", "weight_name"} \subseteq DOMAIN new.attributes,
         new.attributes.weight_name = WeightAttributes(n).weight_name,
         new.attributes.shape = WeightAttributes(n).shape,
         new.attributes.dtype = WeightAttributes(n).dtype
  PROVE  IInv'
<1>1. /\ initializer' = Over(Encrypted(n), Without(initializer, n.inputs[2]))
      /\ layer_sizes' = Over(SizeOf(n), layer_sizes)
      /\ UNCHANGED original
      /\ UNCHANGED <<original, max_layer_size_bytes, saved>>
  BY DEF Secure
<1>2. InitializersInv'
  BY <1>1, SecureKeepsInitializers
<1>3. SizesInv'
  BY <1>1, SecureKeepsSizes
<1>4. PICK w : w = NameOf(n)
  OBVIOUS
<1>5. LoopPosition' /\ NodesInv'
  BY <1>4, SecureKeepsNodes
<1>6. KernelInv' /\ ShapesInv'
  BY LoopBeforeSaving, RewriteKeepsKernel
<1>. QED
  BY <1>2, <1>3, <1>5, <1>6 DEF IInv

LEMMA RewriteGemmKeeps == IInv /\ RewriteGemm /\ UNCHANGED <<operatorVars, index>> => IInv'
<1>. SUFFICES ASSUME IInv, RewriteGemm, UNCHANGED <<operatorVars, index>>
              PROVE  IInv'
  OBVIOUS
<1>1. PICK n : n = Head(nodes)
  OBVIOUS
<1>2. PICK new : new = [op |-> "SecureGemm", inputs |-> SecureInputs(n),
                        attributes |-> WeightAttributes(n)]
  OBVIOUS
<1>3. /\ nodes # <<>> /\ n.op \in {"Gemm", "MatMul"} /\ Secured(n)
      /\ Secure(n, new) /\ nodes' = Tail(nodes)
  BY <1>1, <1>2 DEF RewriteGemm
<1>4. n.op \in Rewritten
  BY <1>3 DEF Rewritten
<1>5. new.op \in SecureOps /\ new.op = "SecureGemm" /\ new.op = SecureOpOf(n.op)
  BY <1>2, <1>3 DEF SecureOps, RegisterCustomOps, SecureGemmOp, SecureOpOf
<1>6. new.inputs = SecureInputs(n) /\ new.attributes = WeightAttributes(n)
  BY <1>2
<1>7. {"shape", "dtype", "weight_name"} \subseteq DOMAIN WeightAttributes(n)
  BY DEF WeightAttributes
<1>. QED
  BY <1>1, <1>3, <1>4, <1>5, <1>6, <1>7, SecureKeeps

LEMMA RewriteConvKeeps == IInv /\ RewriteConv /\ UNCHANGED <<operatorVars, index>> => IInv'
<1>. SUFFICES ASSUME IInv, RewriteConv, UNCHANGED <<operatorVars, index>>
              PROVE  IInv'
  OBVIOUS
<1>1. PICK n : n = Head(nodes)
  OBVIOUS
<1>2. PICK own, attributes :
        own = WeightAttributes(n) /\ attributes = Over(own, n.attributes)
  OBVIOUS
<1>3. PICK new : new = [op |-> IF n.op = "Conv" THEN "SecureConv" ELSE "SecureConvTranspose",
                        inputs |-> SecureInputs(n), attributes |-> attributes]
  OBVIOUS
<1>4. /\ nodes # <<>> /\ n.op \in {"Conv", "ConvTranspose"} /\ Secured(n)
      /\ Secure(n, new) /\ nodes' = Tail(nodes)
  BY <1>1, <1>2, <1>3 DEF RewriteConv
<1>5. n.op \in Rewritten
  BY <1>4 DEF Rewritten
<1>6. new.op \in SecureOps /\ new.op = SecureOpOf(n.op)
  BY <1>3, <1>4 DEF SecureOps, RegisterCustomOps, SecureConvOp, SecureConvTransposeOp, SecureOpOf
<1>7. new.inputs = SecureInputs(n) /\ new.attributes = attributes
  BY <1>3
<1>8. DOMAIN own = {"shape", "dtype", "weight_name"}
  BY <1>2 DEF WeightAttributes
<1>9. /\ {"shape", "dtype", "weight_name"} \subseteq DOMAIN attributes
      /\ \A a \in {"shape", "dtype", "weight_name"} : attributes[a] = own[a]
  <2>1. /\ DOMAIN own \subseteq DOMAIN attributes
        /\ \A a \in DOMAIN own : attributes[a] = own[a]
    BY <1>2 DEF Over
  <2>. QED
    BY <1>8, <2>1
<1>10. /\ attributes.shape = own.shape /\ attributes.dtype = own.dtype
       /\ attributes.weight_name = own.weight_name
  BY <1>9
<1>11. SameGeometry(attributes, n.attributes)
  <2>1. PICK old : old = n.attributes
    OBVIOUS
  <2>2. /\ DOMAIN attributes = DOMAIN own \cup DOMAIN old
        /\ \A a \in DOMAIN old : a \notin DOMAIN own => attributes[a] = old[a]
    BY <1>2, <2>1 DEF Over
  <2>3. \A a \in Geometry : a \notin DOMAIN own
    BY <1>8 DEF Geometry
  <2>. QED
    BY <2>1, <2>2, <2>3 DEF SameGeometry
<1>. QED
  BY <1>1, <1>2, <1>4, <1>5, <1>6, <1>7, <1>9, <1>10, <1>11, SecureKeeps

\* A node that is kept is not to be encrypted, or its weight is gone.
LEMMA KeepNodeKeeps == IInv /\ KeepNode /\ UNCHANGED <<operatorVars, index>> => IInv'
<1>. SUFFICES ASSUME IInv, KeepNode, UNCHANGED <<operatorVars, index>>
              PROVE  IInv'
  OBVIOUS
<1>1. PICK n : n = Head(nodes)
  OBVIOUS
<1>2. /\ nodes # <<>> /\ ~(n.op \in Rewritten /\ Secured(n))
      /\ new_nodes' = Append(new_nodes, n) /\ nodes' = Tail(nodes)
      /\ UNCHANGED <<original, layers_to_encrypt, initializer, layer_sizes,
                     max_layer_size_bytes, saved>>
  BY <1>1 DEF KeepNode
<1>3. UNCHANGED <<original, layers_to_encrypt>>
  BY <1>2
<1>4. /\ LoopPosition'
      /\ Len(new_nodes) \in Nat /\ Len(new_nodes') = Len(new_nodes) + 1
      /\ Len(new_nodes') \in 1..Len(original.nodes)
      /\ n = original.nodes[Len(new_nodes')]
      /\ new_nodes'[Len(new_nodes')] = n
      /\ \A i \in 1..Len(new_nodes) : new_nodes'[i] = new_nodes[i]
  BY <1>1, <1>2, <1>3, LoopFacts
<1>5. Targeted(n, layers_to_encrypt) => n.inputs[2] \notin DOMAIN initializer
  <2>1. SUFFICES ASSUME Targeted(n, layers_to_encrypt), n.inputs[2] \in DOMAIN initializer
                 PROVE  FALSE
    OBVIOUS
  <2>2. n.op \in Rewritten /\ (layers_to_encrypt = AllLayers \/ NameOf(n) \in layers_to_encrypt)
    BY <2>1 DEF Targeted
  <2>3. n.inputs[2] = <<NameOf(n), "">>
    BY <1>4, <2>2, OriginalNodes
  <2>4. Secured(n)
    BY <2>1, <2>2, <2>3 DEF Secured
  <2>. QED
    BY <1>2, <2>2, <2>4
<1>6. InitializersInv'
  BY <1>2, InitializersStay
<1>7. NodesInv'
  <2>1. PICK s, m, k : s = new_nodes' /\ m = original /\ k = Len(new_nodes)
    OBVIOUS
  <2>2. /\ k \in Nat /\ Len(s) = k + 1 /\ s[k + 1] = n /\ m.nodes[k + 1] = n
        /\ \A i \in 1..k : s[i] = new_nodes[i]
    BY <1>4, <2>1
  <2>3. \A i \in 1..Len(s) :
          \/ Replaces(s[i], m.nodes[i], m) /\ NameOf(m.nodes[i]) \in SecuredWeights
          \/ /\ s[i] = m.nodes[i]
             /\ Targeted(m.nodes[i], layers_to_encrypt) =>
                  m.nodes[i].inputs[2] \notin DOMAIN initializer
    <3>1. ASSUME NEW i \in 1..Len(s)
          PROVE  \/ Replaces(s[i], m.nodes[i], m) /\ NameOf(m.nodes[i]) \in SecuredWeights
                 \/ /\ s[i] = m.nodes[i]
                    /\ Targeted(m.nodes[i], layers_to_encrypt) =>
                         m.nodes[i].inputs[2] \notin DOMAIN initializer
      <4>1. CASE i = k + 1
        BY <1>5, <2>2, <4>1
      <4>2. CASE i \in 1..k
        <5>1. s[i] = new_nodes[i]
          BY <2>2, <4>2
        <5>. QED
          BY <2>1, <4>2, <5>1 DEF IInv, NodesInv
      <4>. QED
        BY <2>2, <4>1, <4>2
    <3>. QED
      BY <3>1
  <2>4. \A v \in SecuredWeights : \E i \in 1..Len(s) :
          Replaces(s[i], m.nodes[i], m) /\ NameOf(m.nodes[i]) = v
    <3>1. ASSUME NEW v \in SecuredWeights
          PROVE  \E i \in 1..Len(s) : Replaces(s[i], m.nodes[i], m) /\ NameOf(m.nodes[i]) = v
      <4>1. PICK i \in 1..k : Replaces(new_nodes[i], m.nodes[i], m) /\ NameOf(m.nodes[i]) = v
        BY <2>1 DEF IInv, NodesInv
      <4>2. i \in 1..Len(s) /\ s[i] = new_nodes[i]
        BY <2>2
      <4>. QED
        BY <4>1, <4>2
    <3>. QED
      BY <3>1
  <2>5. /\ s = new_nodes' /\ m = original' /\ layers_to_encrypt' = layers_to_encrypt
        /\ initializer' = initializer /\ SecuredWeights' = SecuredWeights
    BY <1>2, <2>1 DEF SecuredWeights
  <2>. QED
    BY <2>3, <2>4, <2>5, Zenon DEF NodesInv
<1>8. ~saved
  BY <1>2, LoopBeforeSaving
<1>9. SizesInv'
  BY <1>2, <1>8 DEF IInv, SizesInv, SecuredWeights
<1>10. KernelInv' /\ ShapesInv'
  BY <1>8, RewriteKeepsKernel
<1>. QED
  BY <1>4, <1>6, <1>7, <1>9, <1>10 DEF IInv

\* The largest size bounds the others.
LEMMA SaveKeeps == IInv /\ Save /\ UNCHANGED <<operatorVars, index>> => IInv'
<1>. SUFFICES ASSUME IInv, Save, UNCHANGED <<operatorVars, index>>
              PROVE  IInv'
  OBVIOUS
<1>1. /\ nodes = <<>> /\ ~saved /\ saved' = TRUE
      /\ max_layer_size_bytes' = IF layer_sizes = <<>> THEN 0
                                 ELSE Max({layer_sizes[w] : w \in DOMAIN layer_sizes})
      /\ UNCHANGED <<original, layers_to_encrypt, initializer, nodes, new_nodes, layer_sizes>>
  BY DEF Save
<1>2. LoopPosition' /\ InitializersInv' /\ NodesInv'
  <2>1. InitializersInv'
    BY <1>1, InitializersStay
  <2>2. LoopPosition' /\ NodesInv'
    BY <1>1 DEF IInv, LoopPosition, NodesInv, SecuredWeights
  <2>. QED
    BY <2>1, <2>2
<1>3. /\ layer_sizes \in [SecuredWeights -> Nat]
      /\ SecuredWeights # {} =>
           \E largest \in SecuredWeights : \A w \in SecuredWeights :
             layer_sizes[w] <= layer_sizes[largest]
  BY DEF IInv, SizesInv
<1>4. /\ max_layer_size_bytes' \in Nat
      /\ \A w \in SecuredWeights : layer_sizes[w] <= max_layer_size_bytes'
  <2>1. CASE layer_sizes = <<>>
    <3>1. SecuredWeights = {}
      BY <2>1 DEF SecuredWeights
    <3>2. max_layer_size_bytes' = 0
      BY <1>1, <2>1
    <3>. QED
      BY <3>1, <3>2
  <2>2. CASE layer_sizes # <<>> /\ SecuredWeights # {}
    <3>1. PICK S, D : S = {layer_sizes[w] : w \in D} /\ D = SecuredWeights
      OBVIOUS
    <3>2. max_layer_size_bytes' = Max(S)
      BY <1>1, <2>2, <3>1 DEF SecuredWeights
    <3>3. \E s \in S : \A t \in S : s >= t
      BY <1>3, <2>2, <3>1
    <3>4. Max(S) \in S /\ \A t \in S : Max(S) >= t
      BY <3>3 DEF Max
    <3>. QED
      BY <1>3, <3>1, <3>2, <3>4
  <2>3. SecuredWeights = {} => layer_sizes = <<>>
    BY <1>3
  <2>. QED
    BY <2>1, <2>2, <2>3
<1>5. saved' \in BOOLEAN
  BY <1>1, Zenon
<1>6. SizesInv'
  BY <1>1, <1>3, <1>4, <1>5 DEF SizesInv, SecuredWeights
<1>7. KernelInv' /\ ShapesInv'
  BY <1>1, RewriteKeepsKernel
<1>. QED
  BY <1>2, <1>6, <1>7 DEF IInv

-----------------------------------------------------------------------------
(***************************************************************************)
(* The kernels.                                                            *)
(***************************************************************************)

LEMMA GraphStays ==
  ASSUME IInv, UNCHANGED graphVars
  PROVE  LoopPosition' /\ InitializersInv' /\ NodesInv' /\ SizesInv'
<1>1. UNCHANGED <<original, initializer, layer_sizes>>
  BY DEF graphVars
<1>2. InitializersInv'
  BY <1>1, InitializersStay
<1>3. LoopPosition' /\ NodesInv'
  BY DEF graphVars, IInv, LoopPosition, NodesInv, SecuredWeights
<1>4. SizesInv'
  BY DEF graphVars, IInv, SizesInv, SecuredWeights
<1>. QED
  BY <1>2, <1>3, <1>4

\* A node of a secure operator was written by the loop: it has the parts of
\* a weight that was encrypted as its inputs, and they are in the graph.
LEMMA SecureNode ==
  ASSUME IInv, NEW i \in 1..Len(new_nodes), NEW new, new = new_nodes[i], new.op \in SecureOps,
         NEW n, n = original.nodes[i], NEW w, w = NameOf(n)
  PROVE  /\ n.op \in Rewritten /\ w \in SecuredWeights /\ new.inputs = SecureInputs(n)
         /\ n.inputs \in Seq(Range(n.inputs)) /\ Len(n.inputs) \in {2, 3}
         /\ new.op = SecureOpOf(n.op)
         /\ new.op # "SecureGemm" => SameGeometry(new.attributes, n.attributes)
         /\ {"shape", "dtype", "weight_name"} \subseteq DOMAIN new.attributes
         /\ new.attributes.weight_name = w
         /\ new.attributes.shape = Tensor(w).shape /\ new.attributes.dtype = Tensor(w).dtype
         /\ \A part \in Parts :
              <<w, part>> \in DOMAIN initializer /\ initializer[<<w, part>>] = Blob(w, part)
<1>1. i \in 1..Len(original.nodes)
  <2>1. PICK k, l, m : k = Len(nodes) /\ l = Len(new_nodes) /\ m = Len(original.nodes)
    OBVIOUS
  <2>2. k \in Nat /\ l \in Nat /\ k + l = m
    BY <2>1, SequenceFacts DEF IInv, LoopPosition
  <2>3. i \in 1..m
    BY <2>1, <2>2
  <2>. QED
    BY <2>1, <2>3
<1>2. n.op \notin SecureOps
  BY <1>1, OriginalNodes
<1>3. Replaces(new, n, original) /\ w \in SecuredWeights
  BY <1>2 DEF IInv, NodesInv
<1>4. n.op \in Rewritten
  BY <1>3 DEF Replaces
<1>5. n.inputs \in Seq(Range(n.inputs)) /\ Len(n.inputs) \in {2, 3}
  BY <1>1, <1>4, OriginalNodes
<1>6. \A part \in Parts :
        <<w, part>> \in DOMAIN initializer /\ initializer[<<w, part>>] = Blob(w, part)
  BY <1>3 DEF IInv, InitializersInv
<1>. QED
  BY <1>3, <1>4, <1>5, <1>6 DEF Replaces, Tensor

LEMMA CreateKernelKeeps == IInv /\ (\E i \in DOMAIN new_nodes : CreateKernel(i)) => IInv'
<1>. SUFFICES ASSUME IInv, NEW i \in DOMAIN new_nodes, CreateKernel(i)
              PROVE  IInv'
  OBVIOUS
<1>1. PICK op \in RegisterCustomOps : Matches(new_nodes[i], op)
  BY DEF CreateKernel
<1>2. /\ saved /\ index' = i /\ kernel' = KernelOf(new_nodes[i].op, new_nodes[i].attributes)
      /\ stage' = "created" /\ UNCHANGED graphVars /\ y' = y
  BY DEF CreateKernel
<1>3. new_nodes[i].op \in SecureOps
  BY <1>1 DEF Matches, SecureOps
<1>4. Len(new_nodes) \in Nat /\ i \in 1..Len(new_nodes)
  BY SequenceFacts DEF IInv, LoopPosition
<1>5. saved' /\ new_nodes' = new_nodes
  BY <1>2 DEF graphVars
<1>6. node' = new_nodes[i]
  BY <1>2, <1>5 DEF node
<1>7. KernelInv'
  <2>1. index' # 0 /\ index' \in 1..Len(new_nodes')
    BY <1>2, <1>4, <1>5
  <2>2. \A c \in DOMAIN y : IsABag(y[c])
    BY DEF IInv, KernelInv
  <2>. QED
    BY <1>2, <1>3, <1>5, <1>6, <2>1, <2>2 DEF KernelInv
<1>8. ShapesInv'
  BY <1>2 DEF ShapesInv
<1>. QED
  BY <1>2, <1>7, <1>8, GraphStays DEF IInv

\* The tag matches: the kernel has built the additional data that the
\* compiler encrypted under, and its inputs are what the compiler stored.
LEMMA TagMatches ==
  ASSUME IInv, index # 0
  PROVE  LET Is(j, kind) ==
               /\ node.inputs[j] \in DOMAIN initializer
               /\ initializer[node.inputs[j]].kind = kind
               /\ initializer[node.inputs[j]].aad = Aad(kernel)
         IN Is(2, "encrypted") /\ Is(3, "iv") /\ Is(4, "tag")
<1>1. /\ index \in 1..Len(new_nodes) /\ node.op \in SecureOps
      /\ kernel = KernelOf(node.op, node.attributes)
  BY DEF IInv, KernelInv
<1>2. PICK new, n, w, in :
        new = node /\ n = original.nodes[index] /\ w = NameOf(n) /\ in = node.inputs
  OBVIOUS
<1>3. /\ in = SecureInputs(n)
      /\ n.inputs \in Seq(Range(n.inputs)) /\ Len(n.inputs) \in {2, 3}
      /\ {"shape", "dtype", "weight_name"} \subseteq DOMAIN new.attributes
      /\ new.attributes.weight_name = w
      /\ new.attributes.shape = Tensor(w).shape /\ new.attributes.dtype = Tensor(w).dtype
      /\ \A part \in Parts :
           <<w, part>> \in DOMAIN initializer /\ initializer[<<w, part>>] = Blob(w, part)
  <2>1. new = new_nodes[index] /\ new.op \in SecureOps
    BY <1>1, <1>2 DEF node
  <2>. QED
    BY <1>1, <1>2, <2>1, SecureNode
<1>4. Aad(kernel) = <<w, Tensor(w).shape, Tensor(w).dtype>>
  <2>1. Aad(KernelOf(new.op, new.attributes)) =
          <<new.attributes.weight_name, new.attributes.shape, new.attributes.dtype>>
    BY <1>1, <1>2, <1>3, KernelFacts
  <2>. QED
    BY <1>1, <1>2, <1>3, <2>1
<1>5. in[2] = <<w, "encrypted">> /\ in[3] = <<w, "iv">> /\ in[4] = <<w, "tag">>
  BY <1>2, <1>3, SecureInputsFacts
<1>6. ASSUME NEW part \in Parts
      PROVE  /\ <<w, part>> \in DOMAIN initializer
             /\ initializer[<<w, part>>].kind = part
             /\ initializer[<<w, part>>].aad = Aad(kernel)
  <2>1. <<w, part>> \in DOMAIN initializer /\ initializer[<<w, part>>] = Blob(w, part)
    BY <1>3
  <2>2. Blob(w, part).kind = part /\ Blob(w, part).aad = <<w, Tensor(w).shape, Tensor(w).dtype>>
    BY DEF Blob
  <2>. QED
    BY <1>4, <2>1, <2>2
<1>7. "encrypted" \in Parts /\ "iv" \in Parts /\ "tag" \in Parts
  BY DEF Parts
<1>. QED
  BY <1>2, <1>5, <1>6, <1>7

LEMMA DecryptKeeps == IInv /\ Decrypt => IInv'
<1>. SUFFICES ASSUME IInv, Decrypt
              PROVE  IInv'
  OBVIOUS
<1>1. stage = "created" /\ UNCHANGED <<graphVars, index, kernel, x_shape, y_shape, y, left>>
  BY DEF Decrypt
<1>2. index # 0
  BY <1>1 DEF IInv, KernelInv
<1>3. stage' = "loaded"
  BY <1>2, TagMatches DEF Decrypt
<1>4. UNCHANGED graphVars /\ new_nodes' = new_nodes /\ saved' = saved
  BY <1>1 DEF graphVars
<1>5. KernelInv'
  BY <1>1, <1>2, <1>3, <1>4 DEF IInv, KernelInv, node
<1>6. ShapesInv'
  BY <1>3 DEF ShapesInv
<1>. QED
  BY <1>4, <1>5, <1>6, GraphStays DEF IInv

LEMMA FeedKeeps == IInv /\ (\E input \in Inputs : Feed(input)) => IInv'
<1>. SUFFICES ASSUME IInv, NEW input \in Inputs, Feed(input)
              PROVE  IInv'
  OBVIOUS
<1>1. PICK x : /\ GetOutput(x) /\ stage = "loaded" /\ UNCHANGED <<graphVars, index>>
               /\ x = Onnx!InputShape(layer, weight.shape, input[1], input[2], input[3])
  BY DEF Feed
<1>2. PICK start, ys :
        /\ start = IF kernel.op = "SecureConvTranspose" THEN EmptyBag ELSE Uninitialized
        /\ ys = OutputShape(kernel, x)
  OBVIOUS
<1>3. /\ x_shape' = x /\ y' = [c \in UpTo(Elements(ys)) |-> start]
      /\ left' = Iterations(kernel, x) /\ stage' = "loop" /\ kernel' = kernel
  BY <1>1, <1>2 DEF GetOutput
<1>4. IsABag(start)
  BY <1>2, SetIsBag DEF EmptyBag, Uninitialized
<1>5. \A c \in DOMAIN y' : IsABag(y'[c])
  BY <1>3, <1>4
<1>6. UNCHANGED graphVars /\ new_nodes' = new_nodes /\ saved' = saved /\ index' = index
  BY <1>1 DEF graphVars
<1>7. index # 0
  BY <1>1 DEF IInv, KernelInv
<1>8. left' \subseteq Iterations(kernel', x_shape')
  BY <1>3
<1>9. KernelInv'
  BY <1>3, <1>5, <1>6, <1>7, <1>8 DEF IInv, KernelInv, node
<1>10. ShapesInv'
  <2>1. /\ y_shape' = ys /\ x_shape' = x /\ kernel' = kernel
        /\ OutputShape(kernel', x_shape') = OutputShape(kernel, x)
    BY <1>1, <1>2, <1>3 DEF GetOutput
  <2>2. PICK l, w : l = layer /\ w = weight.shape
    OBVIOUS
  <2>3. l = layer' /\ w = weight.shape'
    BY <1>6, <2>2 DEF layer, weight, graphVars
  <2>4. x_shape' = Onnx!InputShape(l, w, input[1], input[2], input[3])
    BY <1>1, <2>1, <2>2
  <2>5. \E i \in Inputs : x_shape' = Onnx!InputShape(layer', weight.shape', i[1], i[2], i[3])
    BY <2>3, <2>4
  <2>6. PICK outputs : outputs = Onnx!LayerShape(l, w, x)
    OBVIOUS
  <2>7. \A d \in DOMAIN outputs \ {1} : outputs[d] > 0
    BY <1>1, <2>2, <2>6 DEF Feed
  <2>8. outputs = Onnx!LayerShape(layer', weight.shape', x_shape')
    BY <2>1, <2>3, <2>6
  <2>. QED
    BY <1>2, <2>1, <2>5, <2>7, <2>8 DEF ShapesInv
<1>. QED
  BY <1>6, <1>9, <1>10, GraphStays DEF IInv

LEMMA ShapesStay ==
  ASSUME IInv, stage \in {"loop", "done"} \/ stage' \notin {"loop", "done"},
         UNCHANGED <<graphVars, index, kernel, x_shape, y_shape>>
  PROVE  ShapesInv'
<1>1. PICK l, w : l = layer /\ w = weight.shape
  OBVIOUS
<1>2. l = layer' /\ w = weight.shape'
  BY <1>1 DEF layer, weight, graphVars
<1>3. CASE stage \in {"loop", "done"}
  <2>1. PICK input \in Inputs :
          x_shape = Onnx!InputShape(l, w, input[1], input[2], input[3])
    BY <1>1, <1>3 DEF IInv, ShapesInv
  <2>2. x_shape' = Onnx!InputShape(l, w, input[1], input[2], input[3])
    BY <2>1
  <2>3. \E i \in Inputs : x_shape' = Onnx!InputShape(layer', weight.shape', i[1], i[2], i[3])
    BY <1>2, <2>2
  <2>4. y_shape' = OutputShape(kernel', x_shape')
    BY <1>3 DEF IInv, ShapesInv
  <2>5. PICK outputs : outputs = Onnx!LayerShape(l, w, x_shape)
    OBVIOUS
  <2>6. \A d \in DOMAIN outputs \ {1} : outputs[d] > 0
    BY <1>1, <1>3, <2>5 DEF IInv, ShapesInv
  <2>7. outputs = Onnx!LayerShape(layer', weight.shape', x_shape')
    BY <1>2, <2>5
  <2>. QED
    BY <2>3, <2>4, <2>6, <2>7 DEF ShapesInv
<1>4. CASE stage' \notin {"loop", "done"}
  BY <1>4 DEF ShapesInv
<1>. QED
  BY <1>3, <1>4

\* The cells stay bags of terms, in whatever order the iterations run.
LEMMA LoopKeeps == IInv /\ Loop => IInv'
<1>. SUFFICES ASSUME IInv, Loop
              PROVE  IInv'
  OBVIOUS
<1>0. UNCHANGED <<graphVars, index>>
  BY DEF Loop
<1>1. UNCHANGED graphVars /\ new_nodes' = new_nodes /\ saved' = saved /\ index' = index
  BY <1>0 DEF graphVars
<1>2. \A c \in DOMAIN y : IsABag(y[c])
  BY DEF IInv, KernelInv
<1>3. \A ps, c : IsABag(Terms(ps, c))
  BY SetIsBag DEF Terms
<1>4. \A ys, c, bias : IsABag(Bias(ys, c, bias))
  BY SetIsBag DEF Bias, BiasTerm, EmptyBag
<1>5. PICK bias : bias = HasBias
  OBVIOUS
<1>6. /\ stage = "loop" /\ UNCHANGED <<kernel, x_shape, y_shape>>
      /\ stage' = "loop" \/ stage' = "done"
      /\ left' \subseteq left
      /\ \A c \in DOMAIN y' : IsABag(y'[c])
  <2>1. CASE \E it \in left : Assign(it, HasBias)
    <3>1. PICK it \in left : Assign(it, bias)
      BY <1>5, <2>1
    <3>2. PICK ps, ys : ps = Products(kernel, x_shape, y_shape, it) /\ ys = y_shape
      OBVIOUS
    <3>3. y' = [c \in DOMAIN y |-> IF Place(ys, c) \in it
                                   THEN Terms(ps, c) (+) Bias(ys, c, bias) ELSE y[c]]
      BY <3>1, <3>2 DEF Assign
    <3>4. ASSUME NEW c \in DOMAIN y'
          PROVE  IsABag(y'[c])
      <4>1. IsABag(Terms(ps, c) (+) Bias(ys, c, bias))
        BY <1>3, <1>4, SumIsBag
      <4>. QED
        BY <1>2, <3>3, <4>1
    <3>. QED
      BY <3>1, <3>4 DEF Assign
  <2>2. CASE \E it \in left : Accumulate(it)
    <3>1. PICK it \in left : Accumulate(it)
      BY <2>2
    <3>2. PICK ps : ps = Products(kernel, x_shape, y_shape, it)
      OBVIOUS
    <3>3. y' = [c \in DOMAIN y |-> y[c] (+) Terms(ps, c)]
      BY <3>1, <3>2 DEF Accumulate
    <3>4. \A c \in DOMAIN y' : IsABag(y'[c])
      BY <1>2, <1>3, <3>3, SumIsBag
    <3>. QED
      BY <3>1, <3>4 DEF Accumulate
  <2>3. CASE FinishLoops(HasBias)
    <3>1. FinishLoops(bias)
      BY <1>5, <2>3
    <3>2. PICK ys : ys = y_shape
      OBVIOUS
    <3>3. y' = IF kernel.op = "SecureConvTranspose"
               THEN [c \in DOMAIN y |-> y[c] (+) Bias(ys, c, bias)] ELSE y
      BY <3>1, <3>2 DEF FinishLoops
    <3>4. \A c \in DOMAIN y' : IsABag(y'[c])
      BY <1>2, <1>4, <3>3, SumIsBag
    <3>. QED
      BY <3>1, <3>4 DEF FinishLoops
  <2>. QED
    BY <2>1, <2>2, <2>3 DEF Loop
<1>7. KernelInv'
  <2>1. index # 0 /\ left \subseteq Iterations(kernel, x_shape)
    BY <1>6 DEF IInv, KernelInv
  <2>2. stage' \in {"unloaded", "created", "loaded", "loop", "done"} /\ stage' # "unloaded"
    BY <1>6
  <2>. QED
    BY <1>1, <1>6, <2>1, <2>2 DEF IInv, KernelInv, node
<1>8. ShapesInv'
  BY <1>0, <1>1, <1>6, ShapesStay
<1>. QED
  BY <1>1, <1>7, <1>8, GraphStays DEF IInv

LEMMA StutterKeeps == IInv /\ UNCHANGED vars => IInv'
<1>. SUFFICES ASSUME IInv, UNCHANGED vars
              PROVE  IInv'
  OBVIOUS
<1>1. UNCHANGED graphVars
  BY DEF vars
<1>2. KernelInv'
  BY DEF vars, operatorVars, graphVars, IInv, KernelInv, node
<1>3. ShapesInv'
  <2>1. UNCHANGED <<graphVars, index, kernel, x_shape, y_shape>> /\ stage' = stage
    BY DEF vars, operatorVars
  <2>. QED
    BY <2>1, ShapesStay
<1>. QED
  BY <1>1, <1>2, <1>3, GraphStays DEF IInv

LEMMA StepHolds == IInv /\ [Next]_vars => IInv'
<1>. SUFFICES ASSUME IInv, [Next]_vars
              PROVE  IInv'
  OBVIOUS
<1>1. CASE RewriteStep
  BY <1>1, RewriteGemmKeeps, RewriteConvKeeps, KeepNodeKeeps, SaveKeeps DEF RewriteStep, Rewrite
<1>2. CASE \E i \in DOMAIN new_nodes : CreateKernel(i)
  BY <1>2, CreateKernelKeeps
<1>3. CASE Decrypt
  BY <1>3, DecryptKeeps
<1>4. CASE \E input \in Inputs : Feed(input)
  BY <1>4, FeedKeeps
<1>5. CASE Loop
  BY <1>5, LoopKeeps
<1>6. CASE UNCHANGED vars
  BY <1>6, StutterKeeps
<1>. QED
  BY <1>1, <1>2, <1>3, <1>4, <1>5, <1>6 DEF Next

-----------------------------------------------------------------------------
(***************************************************************************)
(* What the invariant says of a model that was saved.                      *)
(***************************************************************************)

\* Every node was rewritten or kept.
LEMMA SavedNodes ==
  ASSUME IInv, saved
  PROVE  /\ Len(new_nodes) = Len(original.nodes)
         /\ DOMAIN new_nodes = 1..Len(original.nodes)
         /\ DOMAIN original.nodes = 1..Len(original.nodes)
<1>1. nodes = <<>>
  BY DEF IInv, SizesInv
<1>2. Len(nodes) + Len(new_nodes) = Len(original.nodes)
  BY DEF IInv, LoopPosition
<1>3. new_nodes \in Seq(Range(new_nodes)) /\ original \in Models
  BY DEF IInv, LoopPosition
<1>4. Len(new_nodes) \in Nat /\ DOMAIN new_nodes = 1..Len(new_nodes)
  BY <1>3, SequenceFacts
<1>5. original.nodes \in Seq(Range(original.nodes))
  BY <1>3, ModelFacts
<1>6. DOMAIN original.nodes = 1..Len(original.nodes)
  BY <1>5, SequenceFacts
<1>. QED
  BY <1>1, <1>2, <1>4, <1>6

\* A name of the original model that is not in the graph any more is that of
\* a weight that was encrypted; one that is has the original initializer.
LEMMA GraphNames ==
  ASSUME IInv, NEW name, name = <<name[1], "">>
  PROVE  /\ name \in DOMAIN original.initializer =>
              name \in DOMAIN initializer \/ name[1] \in SecuredWeights
         /\ name \in DOMAIN initializer =>
              /\ name \in DOMAIN original.initializer
              /\ initializer[name] = original.initializer[name]
              /\ name[1] \notin SecuredWeights
<1>1. PICK v : v = name[1]
  OBVIOUS
<1>2. name = <<v, "">>
  BY <1>1
<1>3. name \notin SecuredWeights \X Parts
  BY <1>2 DEF Parts
<1>. QED
  BY <1>3 DEF IInv, InitializersInv

LEMMA PlaintextIsGone == IInv => NoPlaintextIsSaved
<1>. SUFFICES ASSUME IInv, saved, NEW i \in DOMAIN original.nodes, NEW n, n = original.nodes[i],
                     n.op \in Rewritten,
                     layers_to_encrypt = AllLayers \/ NameOf(n) \in layers_to_encrypt
              PROVE  n.inputs[2] \notin DOMAIN initializer
  BY DEF NoPlaintextIsSaved
<1>1. i \in 1..Len(original.nodes) /\ i \in 1..Len(new_nodes)
  BY SavedNodes
<1>2. n.inputs[2] = <<NameOf(n), "">>
  BY <1>1, OriginalNodes
<1>3. \/ NameOf(n) \in SecuredWeights
      \/ Targeted(n, layers_to_encrypt) => n.inputs[2] \notin DOMAIN initializer
  BY <1>1 DEF IInv, NodesInv
<1>4. Targeted(n, layers_to_encrypt)
  BY DEF Targeted
<1>5. PICK w, name : w = NameOf(n) /\ name = <<w, "">>
  OBVIOUS
<1>6. name[1] = w /\ name = <<name[1], "">>
  BY <1>5
<1>7. w \in SecuredWeights => name \notin DOMAIN initializer
  BY <1>6, GraphNames
<1>. QED
  BY <1>2, <1>3, <1>4, <1>5, <1>7

\* The weight of another node, if it is gone, is the weight of this node
\* alone.
LEMMA InputsStay ==
  ASSUME IInv, OwnWeights, saved, NEW i \in DOMAIN new_nodes, NEW n, n = original.nodes[i],
         NEW k \in 1..Len(n.inputs), n.inputs[k] \in DOMAIN original.initializer,
         n.inputs[k] \notin DOMAIN initializer
  PROVE  k = 2 /\ new_nodes[i].op \in SecureOps
<1>1. i \in 1..Len(original.nodes)
  BY SavedNodes
<1>2. PICK name : name = n.inputs[k]
  OBVIOUS
<1>3. name = <<name[1], "">>
  BY <1>1, <1>2, OriginalNodes
<1>4. name[1] \in SecuredWeights
  BY <1>2, <1>3, GraphNames
<1>5. PICK j \in 1..Len(new_nodes) :
        /\ Replaces(new_nodes[j], original.nodes[j], original)
        /\ NameOf(original.nodes[j]) = name[1]
  BY <1>4 DEF IInv, NodesInv
<1>6. PICK o : o = original.nodes[j]
  OBVIOUS
<1>7. o.op \in Rewritten /\ new_nodes[j].op \in SecureOps /\ j \in 1..Len(original.nodes)
  BY <1>5, <1>6, SavedNodes DEF Replaces
<1>8. o.inputs[2] = <<name[1], "">>
  BY <1>5, <1>6, <1>7, OriginalNodes
<1>9. original \in Models
  BY DEF IInv, LoopPosition
<1>10. DOMAIN n.inputs = 1..Len(n.inputs) /\ DOMAIN original.nodes = 1..Len(original.nodes)
  <2>1. n.inputs \in Seq(Range(n.inputs))
    BY <1>1, OriginalNodes
  <2>. QED
    BY <2>1, SequenceFacts, SavedNodes
<1>11. j = i /\ k = 2
  BY <1>1, <1>2, <1>3, <1>6, <1>7, <1>8, <1>9, <1>10 DEF OwnWeights
<1>. QED
  BY <1>7, <1>11

LEMMA SavedInputs ==
  ASSUME IInv, OwnWeights, saved, NEW i \in DOMAIN new_nodes
  PROVE  Range(new_nodes[i].inputs) \subseteq
           DOMAIN initializer
             \cup (Range(original.nodes[i].inputs) \ DOMAIN original.initializer)
<1>1. i \in 1..Len(original.nodes) /\ i \in 1..Len(new_nodes)
  BY SavedNodes
<1>2. PICK new, n, w : new = new_nodes[i] /\ n = original.nodes[i] /\ w = NameOf(n)
  OBVIOUS
<1>3. /\ n.op \notin SecureOps
      /\ n.inputs \in Seq(Range(n.inputs))
  BY <1>1, <1>2, OriginalNodes
<1>4. /\ DOMAIN n.inputs = 1..Len(n.inputs)
      /\ \A k \in 1..Len(n.inputs) : n.inputs[k] \in Range(n.inputs)
  BY <1>3, SequenceFacts
<1>5. ASSUME NEW k \in 1..Len(n.inputs), k # 2 \/ new.op \notin SecureOps
      PROVE  n.inputs[k] \in DOMAIN initializer \cup (Range(n.inputs) \ DOMAIN original.initializer)
  BY <1>2, <1>4, <1>5, InputsStay
<1>6. CASE new = n
  <2>1. PICK in, all : in = n.inputs /\ all = Range(in)
    OBVIOUS
  <2>2. \A k \in DOMAIN in : in[k] \in DOMAIN initializer \cup (all \ DOMAIN original.initializer)
    BY <1>3, <1>4, <1>5, <1>6, <2>1
  <2>3. Range(in) \subseteq DOMAIN initializer \cup (all \ DOMAIN original.initializer)
    BY <2>2 DEF Range
  <2>. QED
    BY <1>2, <1>6, <2>1, <2>3
<1>7. CASE Replaces(new, n, original) /\ w \in SecuredWeights
  <2>1. new.op \in SecureOps
    BY <1>7 DEF Replaces
  <2>2. /\ new.inputs = SecureInputs(n) /\ Len(n.inputs) \in {2, 3}
        /\ \A part \in Parts : <<w, part>> \in DOMAIN initializer
    BY <1>1, <1>2, <2>1, SecureNode
  <2>3. PICK s : s = new.inputs
    OBVIOUS
  <2>4. /\ s \in Seq(Range(s))
        /\ (Len(n.inputs) = 2 /\ Len(s) = 4) \/ (Len(n.inputs) = 3 /\ Len(s) = 5)
        /\ s[1] = n.inputs[1] /\ s[2] = <<w, "encrypted">>
        /\ s[3] = <<w, "iv">> /\ s[4] = <<w, "tag">>
        /\ Len(s) = 5 => s[5] = n.inputs[3]
    BY <1>2, <1>3, <2>2, <2>3, SecureInputsFacts
  <2>5. DOMAIN s = 1..Len(s)
    BY <2>4, SequenceFacts
  <2>6. "encrypted" \in Parts /\ "iv" \in Parts /\ "tag" \in Parts
    BY DEF Parts
  <2>7. ASSUME NEW k \in DOMAIN s
        PROVE  s[k] \in DOMAIN initializer \cup (Range(n.inputs) \ DOMAIN original.initializer)
    <3>1. k \in 1..Len(s)
      BY <2>5, <2>7
    <3>2. k = 1 \/ k = 2 \/ k = 3 \/ k = 4 \/ (k = 5 /\ Len(s) = 5)
      BY <2>4, <3>1, InputIndex
    <3>3. 1 \in 1..Len(n.inputs) /\ (Len(s) = 5 => 3 \in 1..Len(n.inputs))
      BY <2>4, <3>1, InputIndex
    <3>4. CASE k = 1
      BY <1>5, <2>4, <3>3, <3>4
    <3>5. CASE k = 2 \/ k = 3 \/ k = 4
      <4>1. PICK part \in Parts : s[k] = <<w, part>>
        BY <2>4, <2>6, <3>5
      <4>. QED
        BY <2>2, <4>1
    <3>6. CASE k = 5 /\ Len(s) = 5
      <4>1. s[k] = n.inputs[3]
        BY <2>4, <3>6
      <4>. QED
        BY <1>5, <3>3, <3>6, <4>1
    <3>. QED
      BY <3>2, <3>4, <3>5, <3>6
  <2>. QED
    BY <1>2, <2>3, <2>7 DEF Range
<1>. QED
  BY <1>1, <1>2, <1>6, <1>7 DEF IInv, NodesInv

LEMMA SavedTypes ==
  ASSUME IInv, SinglePrecision, saved, NEW i \in DOMAIN new_nodes, new_nodes[i].op \in SecureOps
  PROVE  \E op \in RegisterCustomOps : Matches(new_nodes[i], op)
<1>1. i \in 1..Len(original.nodes) /\ i \in 1..Len(new_nodes)
  BY SavedNodes
<1>2. PICK new, n, w, s :
        new = new_nodes[i] /\ n = original.nodes[i] /\ w = NameOf(n) /\ s = new.inputs
  OBVIOUS
<1>3. /\ new.inputs = SecureInputs(n)
      /\ n.inputs \in Seq(Range(n.inputs)) /\ Len(n.inputs) \in {2, 3}
      /\ \A part \in Parts :
           <<w, part>> \in DOMAIN initializer /\ initializer[<<w, part>>] = Blob(w, part)
  BY <1>1, <1>2, SecureNode
<1>4. /\ s \in Seq(Range(s))
      /\ (Len(n.inputs) = 2 /\ Len(s) = 4) \/ (Len(n.inputs) = 3 /\ Len(s) = 5)
      /\ s[1] = n.inputs[1] /\ s[2] = <<w, "encrypted">>
      /\ s[3] = <<w, "iv">> /\ s[4] = <<w, "tag">>
      /\ Len(s) = 5 => s[5] = n.inputs[3]
  BY <1>2, <1>3, SecureInputsFacts
<1>5. DOMAIN s = 1..Len(s)
  BY <1>4, SequenceFacts
<1>6. Len(s) = 4 \/ Len(s) = 5
  BY <1>4
<1>7. PICK op \in RegisterCustomOps : op.name = new.op
  BY <1>2 DEF SecureOps
<1>8. /\ op.types[1] = "float32" /\ op.types[2] = "uint8" /\ op.types[3] = "uint8"
      /\ op.types[4] = "uint8" /\ op.types[5] = "float32"
  BY DEF RegisterCustomOps, SecureGemmOp, SecureConvOp, SecureConvTransposeOp
<1>9. ASSUME NEW k \in 1..Len(n.inputs), n.inputs[k] \in DOMAIN initializer
      PROVE  initializer[n.inputs[k]].dtype = "float32"
  <2>1. PICK name : name = n.inputs[k]
    OBVIOUS
  <2>2. name = <<name[1], "">>
    BY <1>1, <1>2, <2>1, OriginalNodes
  <2>3. name \in DOMAIN original.initializer /\ initializer[name] = original.initializer[name]
    BY <1>9, <2>1, <2>2, GraphNames
  <2>4. original \in Models
    BY DEF IInv, LoopPosition
  <2>. QED
    BY <2>1, <2>3, <2>4 DEF SinglePrecision
<1>10. ASSUME NEW part \in Parts
       PROVE  initializer[<<w, part>>].dtype = "uint8"
  <2>1. initializer[<<w, part>>] = Blob(w, part)
    BY <1>3
  <2>2. Blob(w, part).dtype = "uint8"
    BY DEF Blob
  <2>. QED
    BY <2>1, <2>2
<1>11. "encrypted" \in Parts /\ "iv" \in Parts /\ "tag" \in Parts
  BY DEF Parts
<1>12. ASSUME NEW j \in DOMAIN s, s[j] \in DOMAIN initializer
       PROVE  initializer[s[j]].dtype = op.types[j]
  <2>1. j = 1 \/ j = 2 \/ j = 3 \/ j = 4 \/ (j = 5 /\ Len(s) = 5)
    <3>1. j \in 1..Len(s)
      BY <1>5, <1>12
    <3>. QED
      BY <1>4, <3>1, InputIndex
  <2>2. 1 \in 1..Len(n.inputs) /\ (Len(s) = 5 => 3 \in 1..Len(n.inputs))
    <3>1. j \in 1..Len(s)
      BY <1>5, <1>12
    <3>. QED
      BY <1>4, <3>1, InputIndex
  <2>3. CASE j = 1
    BY <1>4, <1>8, <1>9, <1>12, <2>2, <2>3
  <2>4. CASE j = 2 \/ j = 3 \/ j = 4
    <3>1. PICK part \in Parts : s[j] = <<w, part>>
      BY <1>4, <1>11, <2>4
    <3>2. op.types[j] = "uint8"
      BY <1>8, <2>4
    <3>. QED
      BY <1>10, <3>1, <3>2
  <2>5. CASE j = 5 /\ Len(s) = 5
    BY <1>4, <1>8, <1>9, <1>12, <2>2, <2>5
  <2>. QED
    BY <2>1, <2>3, <2>4, <2>5
<1>13. Len(s) \in {4, 5}
  <2>1. \A l : l = 4 \/ l = 5 => l \in {4, 5}
    OBVIOUS
  <2>. QED
    BY <1>6, <2>1, Zenon
<1>14. Matches(new, op)
  BY <1>2, <1>7, <1>12, <1>13, Zenon DEF Matches
<1>. QED
  BY <1>2, <1>14

LEMMA ModelLoads == IInv /\ OwnWeights /\ SinglePrecision => SavedModelLoads
BY SavedInputs, SavedTypes DEF SavedModelLoads

LEMMA LeaseFits == IInv /\ SinglePrecision => LeaseHoldsTheWeight
<1>. SUFFICES ASSUME IInv, SinglePrecision, index # 0
              PROVE  /\ initializer[node.inputs[2]].shape = <<weight_size_bytes(kernel)>>
                     /\ weight_size_bytes(kernel) <= max_layer_size_bytes
  BY DEF LeaseHoldsTheWeight
<1>1. /\ index \in 1..Len(new_nodes) /\ node.op \in SecureOps /\ saved
      /\ kernel = KernelOf(node.op, node.attributes)
  BY DEF IInv, KernelInv
<1>2. PICK new, n, w, in, size :
        /\ new = node /\ n = original.nodes[index] /\ w = NameOf(n) /\ in = node.inputs
        /\ size = Elements(Tensor(w).shape)
  OBVIOUS
<1>3. /\ in = SecureInputs(n) /\ w \in SecuredWeights
      /\ n.inputs \in Seq(Range(n.inputs)) /\ Len(n.inputs) \in {2, 3}
      /\ {"shape", "dtype", "weight_name"} \subseteq DOMAIN new.attributes
      /\ new.attributes.shape = Tensor(w).shape
      /\ \A part \in Parts : initializer[<<w, part>>] = Blob(w, part)
  <2>1. new = new_nodes[index] /\ new.op \in SecureOps
    BY <1>1, <1>2 DEF node
  <2>. QED
    BY <1>1, <1>2, <2>1, SecureNode
<1>4. in[2] = <<w, "encrypted">>
  BY <1>2, <1>3, SecureInputsFacts
<1>5. weight_size_bytes(kernel) = 4 * size
  <2>1. weight_size_bytes(KernelOf(new.op, new.attributes)) = 4 * Elements(new.attributes.shape)
    BY <1>1, <1>2, <1>3, KernelFacts
  <2>. QED
    BY <1>1, <1>2, <1>3, <2>1
<1>6. <<w, "">> \in DOMAIN original.initializer /\ layer_sizes[w] = TensorBytes(Tensor(w))
  BY <1>3 DEF IInv, InitializersInv
<1>7. size \in Nat
  BY <1>2, <1>6, OriginalInitializers DEF Tensor
<1>8. TensorBytes(Tensor(w)) = size * 4
  <2>1. original \in Models
    BY DEF IInv, LoopPosition
  <2>2. Tensor(w).dtype = "float32"
    BY <1>6, <2>1 DEF SinglePrecision, Tensor
  <2>. QED
    BY <1>2, <2>2 DEF TensorBytes, NumBytes, ItemSize
<1>9. layer_sizes[w] <= max_layer_size_bytes
  BY <1>1, <1>3 DEF IInv, SizesInv
<1>10. initializer[in[2]].shape = <<TensorBytes(Tensor(w))>>
  <2>1. "encrypted" \in Parts
    BY DEF Parts
  <2>2. Blob(w, "encrypted").shape = <<TensorBytes(Tensor(w))>>
    BY DEF Blob
  <2>. QED
    BY <1>3, <1>4, <2>1, <2>2
<1>11. size * 4 = 4 * size
  BY <1>7
<1>. QED
  BY <1>2, <1>5, <1>6, <1>8, <1>9, <1>10, <1>11

LEMMA StateIsWellFormed == IInv => TypeOK
<1>. SUFFICES ASSUME IInv PROVE TypeOK
  OBVIOUS
<1>1. ASSUME NEW name \in DOMAIN initializer
      PROVE  initializer[name].kind \in {"plain", "encrypted", "iv", "tag"}
  <2>1. CASE /\ name \in DOMAIN original.initializer
             /\ initializer[name] = original.initializer[name]
    BY <2>1, OriginalInitializers
  <2>2. CASE name \in SecuredWeights \X Parts
    <3>1. PICK w \in SecuredWeights, part \in Parts : name = <<w, part>>
      BY <2>2
    <3>2. initializer[name] = Blob(w, part)
      BY <3>1 DEF IInv, InitializersInv
    <3>3. Blob(w, part).kind = part
      BY DEF Blob
    <3>. QED
      BY <3>2, <3>3 DEF Parts
  <2>. QED
    BY <2>1, <2>2 DEF IInv, InitializersInv
<1>2. index \in 0..Len(new_nodes)
  <2>1. Len(new_nodes) \in Nat
    BY SequenceFacts DEF IInv, LoopPosition
  <2>. QED
    BY <2>1 DEF IInv, KernelInv
<1>3. \A w \in DOMAIN layer_sizes : layer_sizes[w] \in Nat
  BY DEF IInv, SizesInv, SecuredWeights
<1>4. stage \in {"unloaded", "created", "loaded", "loop", "done", "gave up"}
  BY DEF IInv, KernelInv
<1>5. /\ original \in Models /\ layers_to_encrypt \in Targets
      /\ Len(nodes) + Len(new_nodes) = Len(original.nodes)
  BY DEF IInv, LoopPosition
<1>6. max_layer_size_bytes \in Nat /\ saved \in BOOLEAN
  BY DEF IInv, SizesInv
<1>7. /\ \A c \in DOMAIN y : IsABag(y[c])
      /\ stage = "loop" => left \subseteq Iterations(kernel, x_shape)
  BY DEF IInv, KernelInv
<1>. QED
  BY <1>1, <1>2, <1>3, <1>4, <1>5, <1>6, <1>7 DEF TypeOK

-----------------------------------------------------------------------------
(***************************************************************************)
(* What the loops of the kernels run on.                                   *)
(***************************************************************************)

\* The constructor of a convolution reads where the kernel moves.
LEMMA KernelGeometry ==
  ASSUME NEW op \in {"SecureConv", "SecureConvTranspose"}, NEW a, NEW b, SameGeometry(a, b),
         NEW k, k = KernelOf(op, a)
  PROVE  /\ k.op = op
         /\ k.strides = Attribute(b, "strides", <<1, 1>>)
         /\ k.pads = Attribute(b, "pads", <<0, 0, 0, 0>>)
         /\ k.dilations = Attribute(b, "dilations", <<1, 1>>)
         /\ op = "SecureConvTranspose" =>
              k.output_padding = Attribute(b, "output_padding", <<0, 0>>)
<1>1. /\ Attribute(a, "strides", <<1, 1>>) = Attribute(b, "strides", <<1, 1>>)
      /\ Attribute(a, "pads", <<0, 0, 0, 0>>) = Attribute(b, "pads", <<0, 0, 0, 0>>)
      /\ Attribute(a, "dilations", <<1, 1>>) = Attribute(b, "dilations", <<1, 1>>)
      /\ Attribute(a, "output_padding", <<0, 0>>) = Attribute(b, "output_padding", <<0, 0>>)
  BY DEF SameGeometry, Geometry, Attribute
<1>2. CASE op = "SecureConv"
  <2>1. k = SecureConvKernel(a)
    BY <1>2 DEF KernelOf
  <2>. QED
    BY <1>1, <1>2, <2>1 DEF SecureConvKernel
<1>3. CASE op = "SecureConvTranspose"
  <2>1. k = SecureConvTransposeKernel(a)
    BY <1>3 DEF KernelOf
  <2>. QED
    BY <1>1, <1>3, <2>1 DEF SecureConvTransposeKernel
<1>. QED
  BY <1>2, <1>3

\* The layer that a secured node stands for, its weight and its bias.
LEMMA RunningLayer ==
  ASSUME IInv, ExportedLayers, index # 0, NEW l, l = layer
  PROVE  /\ l.op \in Rewritten /\ kernel.op = SecureOpOf(l.op)
         /\ kernel.shape = weight.shape
         /\ l.op \in {"Gemm", "MatMul"} => IsLinear(l, kernel.shape)
         /\ l.op \in {"Conv", "ConvTranspose"} =>
              /\ IsConvolution(l, kernel.shape)
              /\ kernel.strides = Attribute(l.attributes, "strides", <<1, 1>>)
              /\ kernel.pads = Attribute(l.attributes, "pads", <<0, 0, 0, 0>>)
              /\ kernel.dilations = Attribute(l.attributes, "dilations", <<1, 1>>)
         /\ l.op = "ConvTranspose" =>
              kernel.output_padding = Attribute(l.attributes, "output_padding", <<0, 0>>)
         /\ Len(l.inputs) \in {2, 3} /\ (HasBias <=> Len(l.inputs) = 3)
<1>1. /\ index \in 1..Len(new_nodes) /\ node.op \in SecureOps /\ saved
      /\ kernel = KernelOf(node.op, node.attributes)
  BY DEF IInv, KernelInv
<1>2. PICK new, w, m : new = node /\ w = NameOf(l) /\ m = original
  OBVIOUS
<1>3. /\ l.op \in Rewritten /\ w \in SecuredWeights /\ new.inputs = SecureInputs(l)
      /\ l.inputs \in Seq(Range(l.inputs)) /\ Len(l.inputs) \in {2, 3}
      /\ new.op = SecureOpOf(l.op)
      /\ new.op # "SecureGemm" => SameGeometry(new.attributes, l.attributes)
      /\ {"shape", "dtype", "weight_name"} \subseteq DOMAIN new.attributes
      /\ new.attributes.weight_name = w
      /\ new.attributes.shape = Tensor(w).shape /\ new.attributes.dtype = Tensor(w).dtype
      /\ \A part \in Parts :
           <<w, part>> \in DOMAIN initializer /\ initializer[<<w, part>>] = Blob(w, part)
  <2>1. new = new_nodes[index] /\ new.op \in SecureOps /\ l = original.nodes[index]
    BY <1>1, <1>2 DEF node, layer
  <2>. QED
    BY <1>1, <1>2, <2>1, SecureNode
<1>4. index \in 1..Len(m.nodes) /\ DOMAIN m.nodes = 1..Len(m.nodes) /\ l = m.nodes[index]
      /\ m \in Models
  BY <1>1, <1>2, SavedNodes DEF layer, IInv, LoopPosition
<1>5. l.inputs[2] = <<w, "">>
  BY <1>2, <1>3, <1>4, OriginalNodes
<1>6. <<w, "">> \in DOMAIN m.initializer
  BY <1>2, <1>3 DEF IInv, InitializersInv
<1>7. PICK s : s = m.initializer[l.inputs[2]].shape
  OBVIOUS
<1>8. s = weight.shape /\ s = Tensor(w).shape
  BY <1>2, <1>5, <1>7 DEF weight, Tensor
<1>9. /\ l.op \in {"Gemm", "MatMul"} => IsLinear(l, s)
      /\ l.op \in {"Conv", "ConvTranspose"} => IsConvolution(l, s)
  BY <1>3, <1>4, <1>5, <1>6, <1>7 DEF ExportedLayers
<1>10. kernel.shape = s
  <2>1. new.op \in {"SecureGemm", "SecureConv", "SecureConvTranspose"}
    BY <1>1, <1>2 DEF SecureOps, RegisterCustomOps, SecureGemmOp, SecureConvOp,
                      SecureConvTransposeOp
  <2>2. kernel.shape = new.attributes.shape
    <3>1. CASE new.op = "SecureGemm"
      BY <1>1, <1>2, <3>1 DEF KernelOf, SecureGemmKernel
    <3>2. CASE new.op = "SecureConv"
      BY <1>1, <1>2, <3>2 DEF KernelOf, SecureConvKernel
    <3>3. CASE new.op = "SecureConvTranspose"
      BY <1>1, <1>2, <3>3 DEF KernelOf, SecureConvTransposeKernel
    <3>. QED
      BY <2>1, <3>1, <3>2, <3>3
  <2>. QED
    BY <1>3, <1>8, <2>2
<1>11. kernel.op = new.op
  <2>1. CASE new.op = "SecureGemm"
    BY <1>1, <1>2, <2>1 DEF KernelOf, SecureGemmKernel
  <2>2. CASE new.op \in {"SecureConv", "SecureConvTranspose"}
    <3>1. SameGeometry(new.attributes, l.attributes) /\ kernel = KernelOf(new.op, new.attributes)
      BY <1>1, <1>2, <1>3, <2>2
    <3>. QED
      BY <2>2, <3>1, KernelGeometry
  <2>. QED
    BY <1>1, <1>2, <2>1, <2>2 DEF SecureOps, RegisterCustomOps, SecureGemmOp, SecureConvOp,
                                  SecureConvTransposeOp
<1>12. l.op = "Conv" => new.op = "SecureConv"
  BY <1>3 DEF SecureOpOf
<1>13. l.op = "ConvTranspose" => new.op = "SecureConvTranspose"
  BY <1>3 DEF SecureOpOf
<1>14. ASSUME l.op \in {"Conv", "ConvTranspose"}
       PROVE  /\ kernel.strides = Attribute(l.attributes, "strides", <<1, 1>>)
              /\ kernel.pads = Attribute(l.attributes, "pads", <<0, 0, 0, 0>>)
              /\ kernel.dilations = Attribute(l.attributes, "dilations", <<1, 1>>)
              /\ l.op = "ConvTranspose" =>
                   kernel.output_padding = Attribute(l.attributes, "output_padding", <<0, 0>>)
  <2>1. /\ new.op \in {"SecureConv", "SecureConvTranspose"}
        /\ SameGeometry(new.attributes, l.attributes) /\ kernel = KernelOf(new.op, new.attributes)
    BY <1>1, <1>2, <1>3, <1>12, <1>13, <1>14
  <2>2. /\ kernel.op = new.op
        /\ kernel.strides = Attribute(l.attributes, "strides", <<1, 1>>)
        /\ kernel.pads = Attribute(l.attributes, "pads", <<0, 0, 0, 0>>)
        /\ kernel.dilations = Attribute(l.attributes, "dilations", <<1, 1>>)
        /\ new.op = "SecureConvTranspose" =>
             kernel.output_padding = Attribute(l.attributes, "output_padding", <<0, 0>>)
    BY <2>1, KernelGeometry
  <2>. QED
    BY <1>13, <2>2
<1>15. HasBias <=> Len(l.inputs) = 3
  <2>1. PICK in : in = node.inputs
    OBVIOUS
  <2>2. /\ in \in Seq(Range(in))
        /\ (Len(l.inputs) = 2 /\ Len(in) = 4) \/ (Len(l.inputs) = 3 /\ Len(in) = 5)
        /\ in[1] = l.inputs[1]
        /\ in[2] = <<NameOf(l), "encrypted">>
        /\ in[3] = <<NameOf(l), "iv">>
        /\ in[4] = <<NameOf(l), "tag">>
        /\ Len(in) = 5 => in[5] = l.inputs[3]
    BY <1>2, <1>3, <2>1, SecureInputsFacts
  <2>3. \A p, q : (p = 2 /\ q = 4) \/ (p = 3 /\ q = 5) => (q > 4 <=> p = 3)
    OBVIOUS
  <2>4. Len(in) > 4 <=> Len(l.inputs) = 3
    BY <2>2, <2>3, Zenon
  <2>. QED
    BY <2>1, <2>4 DEF HasBias
<1>. QED
  BY <1>3, <1>8, <1>9, <1>10, <1>11, <1>14, <1>15

\* The bias of a layer stays in the graph, with one element for every output.
LEMMA BiasOfLayer ==
  ASSUME IInv, OwnWeights, ExportedLayers, index # 0, HasBias
  PROVE  initializer[node.inputs[5]].shape = <<Outputs(layer, weight.shape)>>
<1>1. PICK l, in : l = layer /\ in = node.inputs
  OBVIOUS
<1>2. /\ index \in 1..Len(new_nodes) /\ node.op \in SecureOps /\ saved
  BY DEF IInv, KernelInv
<1>3. l.op \in Rewritten /\ Len(l.inputs) = 3
  BY <1>1, RunningLayer
<1>4. index \in 1..Len(original.nodes) /\ DOMAIN original.nodes = 1..Len(original.nodes)
      /\ index \in DOMAIN new_nodes /\ l = original.nodes[index] /\ original \in Models
  BY <1>1, <1>2, SavedNodes DEF layer, IInv, LoopPosition
<1>5. /\ l.inputs \in Seq(Range(l.inputs)) /\ l.inputs[2] = <<NameOf(l), "">>
      /\ 3 \in 1..Len(l.inputs)
      /\ l.inputs[3] = <<l.inputs[3][1], "">>
  <2>1. 3 \in 1..Len(l.inputs)
    BY <1>3
  <2>. QED
    BY <1>3, <1>4, <2>1, OriginalNodes
<1>6. /\ in = SecureInputs(l) /\ NameOf(l) \in SecuredWeights
  <2>1. PICK new, w : new = node /\ w = NameOf(l)
    OBVIOUS
  <2>2. new = new_nodes[index] /\ new.op \in SecureOps
    BY <1>2, <2>1 DEF node
  <2>3. new.inputs = SecureInputs(l) /\ w \in SecuredWeights
    BY <1>2, <1>4, <2>1, <2>2, SecureNode
  <2>. QED
    BY <1>1, <2>1, <2>3
<1>7. in[5] = l.inputs[3]
  <2>1. /\ in \in Seq(Range(in))
        /\ (Len(l.inputs) = 2 /\ Len(in) = 4) \/ (Len(l.inputs) = 3 /\ Len(in) = 5)
        /\ in[1] = l.inputs[1]
        /\ in[2] = <<NameOf(l), "encrypted">>
        /\ in[3] = <<NameOf(l), "iv">>
        /\ in[4] = <<NameOf(l), "tag">>
        /\ Len(in) = 5 => in[5] = l.inputs[3]
    BY <1>3, <1>5, <1>6, SecureInputsFacts
  <2>. QED
    BY <1>3, <2>1
<1>8. l.inputs[2] \in DOMAIN original.initializer
  BY <1>5, <1>6 DEF IInv, InitializersInv
<1>9. /\ l.inputs[3] \in DOMAIN original.initializer
      /\ original.initializer[l.inputs[3]].shape = <<Outputs(l, original.initializer[l.inputs[2]].shape)>>
  BY <1>3, <1>4, <1>8 DEF ExportedLayers
<1>10. l.inputs[3] \in DOMAIN initializer
  <2>1. SUFFICES ASSUME l.inputs[3] \notin DOMAIN initializer
                 PROVE  FALSE
    OBVIOUS
  <2>2. 3 = 2 /\ new_nodes[index].op \in SecureOps
    BY <1>2, <1>4, <1>5, <1>9, <2>1, InputsStay
  <2>. QED
    BY <2>2
<1>11. initializer[l.inputs[3]] = original.initializer[l.inputs[3]]
  BY <1>5, <1>10, GraphNames
<1>. QED
  BY <1>1, <1>7, <1>9, <1>11 DEF weight

LEMMA QuotientIsInt ==
  ASSUME NEW a \in Int, NEW b \in Positive
  PROVE  Quotient(a, b) \in Int
BY DEF Quotient, Positive

LEMMA ConvShapeFacts ==
  ASSUME NEW k, NEW x, NEW O \in Nat, NEW I \in Nat, NEW KH \in Nat, NEW KW \in Nat,
         k.shape = <<O, I, KH, KW>>, k.op = "SecureConv",
         k.strides \in Positive \X Positive, k.dilations \in Positive \X Positive,
         k.pads \in Nat \X Nat \X Nat \X Nat,
         NEW B, NEW C, NEW H \in Nat, NEW V \in Nat, x = <<B, C, H, V>>
  PROVE  \E OH \in Int, OW \in Int : OutputShape(k, x) = <<B, O, OH, OW>>
<1>. DEFINE Span(d) == x[d + 2] + k.pads[d] + k.pads[d + 2]
                         - k.dilations[d] * (k.shape[d + 2] - 1) - 1
<1>1. OutputShape(k, x) = <<B, O, Quotient(Span(1), k.strides[1]) + 1,
                                  Quotient(Span(2), k.strides[2]) + 1>>
  BY DEF OutputShape, ConvShape
<1>2. Span(1) \in Int /\ Span(2) \in Int
  BY DEF Positive
<1>3. k.strides[1] \in Positive /\ k.strides[2] \in Positive
  OBVIOUS
<1>. HIDE DEF Span
<1>4. Quotient(Span(1), k.strides[1]) \in Int /\ Quotient(Span(2), k.strides[2]) \in Int
  BY <1>2, <1>3, QuotientIsInt
<1>. QED
  BY <1>1, <1>4

LEMMA ConvTransposeShapeFacts ==
  ASSUME NEW k, NEW x, NEW O \in Nat, NEW I \in Nat, NEW KH \in Nat, NEW KW \in Nat,
         k.shape = <<I, O, KH, KW>>, k.op = "SecureConvTranspose",
         k.strides \in Positive \X Positive, k.dilations \in Positive \X Positive,
         k.pads \in Nat \X Nat \X Nat \X Nat, k.output_padding \in Nat \X Nat,
         NEW B, NEW C, NEW H \in Nat, NEW V \in Nat, x = <<B, C, H, V>>
  PROVE  \E OH \in Int, OW \in Int : OutputShape(k, x) = <<B, O, OH, OW>>
<1>. DEFINE Size(d) == k.strides[d] * (x[d + 2] - 1) + k.output_padding[d]
                         + k.dilations[d] * (k.shape[d + 2] - 1) + 1
                         - k.pads[d] - k.pads[d + 2]
<1>1. OutputShape(k, x) = <<B, O, Size(1), Size(2)>>
  BY DEF OutputShape, ConvTransposeShape
<1>2. Size(1) \in Int /\ Size(2) \in Int
  BY DEF Positive
<1>. HIDE DEF Size
<1>. QED
  BY <1>1, <1>2

\* A kernel runs on an input of its layer.
LEMMA RunningShapes ==
  ASSUME IInv, ExportedLayers, FullBatches, stage \in {"loop", "done"}
  PROVE  \/ GemmRun(kernel, x_shape, y_shape)
         \/ ConvRun(kernel, x_shape, y_shape)
         \/ ConvTransposeRun(kernel, x_shape, y_shape)
<1>1. index # 0 /\ y_shape = OutputShape(kernel, x_shape)
  BY DEF IInv, KernelInv, ShapesInv
<1>2. PICK l, k, x : l = layer /\ k = kernel /\ x = x_shape
  OBVIOUS
<1>3. /\ l.op \in Rewritten /\ k.op = SecureOpOf(l.op) /\ k.shape = weight.shape
      /\ l.op \in {"Gemm", "MatMul"} => IsLinear(l, k.shape)
      /\ l.op \in {"Conv", "ConvTranspose"} =>
           /\ IsConvolution(l, k.shape)
           /\ k.strides = Attribute(l.attributes, "strides", <<1, 1>>)
           /\ k.pads = Attribute(l.attributes, "pads", <<0, 0, 0, 0>>)
           /\ k.dilations = Attribute(l.attributes, "dilations", <<1, 1>>)
      /\ l.op = "ConvTranspose" =>
           k.output_padding = Attribute(l.attributes, "output_padding", <<0, 0>>)
  BY <1>1, <1>2, RunningLayer
<1>4. PICK input \in Inputs : x = Onnx!InputShape(l, k.shape, input[1], input[2], input[3])
  BY <1>2, <1>3 DEF IInv, ShapesInv
<1>5. PICK B \in Positive, H \in Nat, V \in Nat : x = Onnx!InputShape(l, k.shape, B, H, V)
  <2>1. input[1] \in Positive /\ input[2] \in Nat /\ input[3] \in Nat
    BY DEF FullBatches
  <2>. QED
    BY <1>4, <2>1
<1>6. PICK ys : ys = OutputShape(k, x)
  OBVIOUS
<1>7. CASE l.op \in {"Gemm", "MatMul"}
  <2>1. PICK O \in Nat, I \in Nat : k.shape = <<O, I>>
    BY <1>3, <1>7 DEF IsLinear
  <2>2. x = <<B, I>>
    <3>1. Onnx!InFeatures(l, k.shape) = I
      BY <1>3, <1>7, <2>1 DEF IsLinear
    <3>. QED
      BY <1>5, <1>7, <3>1 DEF Onnx!InputShape
  <2>3. k.op = "SecureGemm"
    BY <1>3, <1>7 DEF SecureOpOf
  <2>4. ys = <<B, O>>
    BY <1>6, <2>1, <2>2, <2>3 DEF OutputShape, GemmShape
  <2>5. GemmRun(k, x, ys)
    BY <2>1, <2>2, <2>3, <2>4 DEF GemmRun, Positive
  <2>. QED
    BY <1>1, <1>2, <1>6, <2>5
<1>8. CASE l.op = "Conv"
  <2>1. PICK O \in Nat, I \in Nat, KH \in Nat, KW \in Nat : k.shape = <<O, I, KH, KW>>
    BY <1>3, <1>8 DEF IsConvolution
  <2>2. PICK C \in Nat : x = <<B, C, H, V>> /\ I <= C
    <3>1. PICK g \in Positive : g = Onnx!Group(l)
      BY <1>3, <1>8 DEF IsConvolution
    <3>2. x = <<B, I * g, H, V>>
      BY <1>5, <1>8, <2>1, <3>1 DEF Onnx!InputShape
    <3>3. I * g \in Nat /\ I <= I * g
      <4>1. g - 1 \in Nat /\ I * (g - 1) >= 0 /\ I * g = I * (g - 1) + I
        BY DEF Positive
      <4>. QED
        BY <4>1
    <3>. QED
      BY <3>2, <3>3
  <2>3. k.op = "SecureConv"
    BY <1>3, <1>8 DEF SecureOpOf
  <2>4. /\ k.strides \in Positive \X Positive /\ k.dilations \in Positive \X Positive
        /\ k.pads \in Nat \X Nat \X Nat \X Nat
    BY <1>3, <1>8 DEF IsConvolution, IsGeometry
  <2>5. PICK OH \in Int, OW \in Int : OutputShape(k, x) = <<B, O, OH, OW>>
    BY <2>1, <2>2, <2>3, <2>4, ConvShapeFacts
  <2>6. ConvRun(k, x, ys)
    <3>1. ys = <<B, O, OH, OW>>
      BY <1>6, <2>5
    <3>. QED
      BY <2>1, <2>2, <2>3, <3>1 DEF ConvRun, Positive
  <2>. QED
    BY <1>1, <1>2, <1>6, <2>6
<1>9. CASE l.op = "ConvTranspose"
  <2>1. PICK O \in Nat, I \in Nat, KH \in Nat, KW \in Nat : k.shape = <<I, O, KH, KW>>
    BY <1>3, <1>9 DEF IsConvolution
  <2>2. x = <<B, I, H, V>>
    BY <1>5, <1>9, <2>1 DEF Onnx!InputShape
  <2>3. k.op = "SecureConvTranspose"
    BY <1>3, <1>9 DEF SecureOpOf
  <2>4. /\ k.strides \in Positive \X Positive /\ k.dilations \in Positive \X Positive
        /\ k.pads \in Nat \X Nat \X Nat \X Nat /\ k.output_padding \in Nat \X Nat
    BY <1>3, <1>9 DEF IsConvolution, IsGeometry
  <2>5. PICK OH \in Int, OW \in Int : OutputShape(k, x) = <<B, O, OH, OW>>
    BY <2>1, <2>2, <2>3, <2>4, ConvTransposeShapeFacts
  <2>6. ConvTransposeRun(k, x, ys)
    <3>1. ys = <<B, O, OH, OW>>
      BY <1>6, <2>5
    <3>. QED
      BY <2>1, <2>2, <2>3, <3>1 DEF ConvTransposeRun, Positive
  <2>. QED
    BY <1>1, <1>2, <1>6, <2>6
<1>. QED
  BY <1>3, <1>7, <1>8, <1>9 DEF Rewritten

\* A bias has an element for every feature or channel of the output.
LEMMA BiasCoversTheOutput ==
  ASSUME IInv, OwnWeights, ExportedLayers, FullBatches, stage \in {"loop", "done"}, HasBias
  PROVE  y_shape[2] <= Elements(initializer[node.inputs[5]].shape)
<1>1. index # 0
  BY DEF IInv, KernelInv
<1>2. PICK l, k, ys, n : l = layer /\ k = kernel /\ ys = y_shape /\ n = Outputs(layer, weight.shape)
  OBVIOUS
<1>3. l.op \in Rewritten /\ k.op = SecureOpOf(l.op) /\ k.shape = weight.shape
  BY <1>1, <1>2, RunningLayer
<1>4. GemmRun(k, x_shape, ys) \/ ConvRun(k, x_shape, ys) \/ ConvTransposeRun(k, x_shape, ys)
  BY <1>2, RunningShapes
<1>5. n = ys[2] /\ n \in Nat
  <2>1. CASE l.op \in {"Gemm", "MatMul"}
    <3>1. k.op = "SecureGemm" /\ n = k.shape[1]
      BY <1>2, <1>3, <2>1 DEF SecureOpOf, Outputs
    <3>. QED
      BY <1>4, <3>1 DEF GemmRun, ConvRun, ConvTransposeRun
  <2>2. CASE l.op = "Conv"
    <3>1. k.op = "SecureConv" /\ n = k.shape[1]
      BY <1>2, <1>3, <2>2 DEF SecureOpOf, Outputs
    <3>. QED
      BY <1>4, <3>1 DEF GemmRun, ConvRun, ConvTransposeRun
  <2>3. CASE l.op = "ConvTranspose"
    <3>1. k.op = "SecureConvTranspose" /\ n = k.shape[2]
      BY <1>2, <1>3, <2>3 DEF SecureOpOf, Outputs
    <3>. QED
      BY <1>4, <3>1 DEF GemmRun, ConvRun, ConvTransposeRun
  <2>. QED
    BY <1>3, <2>1, <2>2, <2>3 DEF Rewritten
<1>6. initializer[node.inputs[5]].shape = <<n>>
  BY <1>1, <1>2, BiasOfLayer
<1>7. Elements(<<n>>) = n
  <2>1. /\ Elements(<<n>>) = n
        /\ Elements(<<n, n>>) = n * n
        /\ Elements(<<n, n, n, n>>) = n * n * n * n
    BY <1>5, ElementsOfTuples
  <2>. QED
    BY <2>1
<1>. QED
  BY <1>2, <1>5, <1>6, <1>7

LEMMA AccessesStayInside ==
  ASSUME IInv, OwnWeights, ExportedLayers, FullBatches
  PROVE  AccessInBounds
<1>. SUFFICES ASSUME stage = "loop", NEW it \in left
              PROVE  /\ \A p \in Products(kernel, x_shape, y_shape, it) :
                          /\ p[1] \in UpTo(Elements(y_shape))
                          /\ p[2] \in UpTo(Elements(x_shape))
                          /\ p[3] \in UpTo(Elements(kernel.shape))
                     /\ HasBias => y_shape[2] <= Elements(initializer[node.inputs[5]].shape)
  BY DEF AccessInBounds
<1>1. PICK k, x, ys : k = kernel /\ x = x_shape /\ ys = y_shape
  OBVIOUS
<1>2. GemmRun(k, x, ys) \/ ConvRun(k, x, ys) \/ ConvTransposeRun(k, x, ys)
  BY <1>1, RunningShapes
<1>3. it \subseteq UpTo(x[1]) \X UpTo(k.shape[1])
  <2>1. left \subseteq Iterations(k, x)
    BY <1>1 DEF IInv, KernelInv
  <2>2. x[1] \in Nat \ {0} /\ k.shape[1] \in Nat
    BY <1>2 DEF GemmRun, ConvRun, ConvTransposeRun
  <2>3. UNION Iterations(k, x) = UpTo(x[1]) \X UpTo(k.shape[1])
    BY <2>2, IterationsArePairs
  <2>. QED
    BY <2>1, <2>3
<1>4. ASSUME NEW p \in Products(k, x, ys, it)
      PROVE  InArrays(p, k, x, ys)
  <2>1. CASE GemmRun(k, x, ys)
    <3>1. p \in GemmProducts(k, it)
      BY <1>4, <2>1 DEF GemmRun, Products
    <3>. QED
      BY <1>3, <2>1, <3>1, GemmInArrays
  <2>2. CASE ConvRun(k, x, ys)
    <3>1. p \in ConvProducts(k, x, ys, it)
      BY <1>4, <2>2 DEF ConvRun, Products
    <3>. QED
      BY <1>3, <2>2, <3>1, ConvInArrays
  <2>3. CASE ConvTransposeRun(k, x, ys)
    <3>1. p \in ConvTransposeProducts(k, x, ys, it)
      BY <1>4, <2>3 DEF ConvTransposeRun, Products
    <3>. QED
      BY <1>3, <2>3, <3>1, ConvTransposeInArrays
  <2>. QED
    BY <1>2, <2>1, <2>2, <2>3
<1>5. HasBias => y_shape[2] <= Elements(initializer[node.inputs[5]].shape)
  BY BiasCoversTheOutput
<1>. QED
  BY <1>1, <1>4, <1>5 DEF InArrays

-----------------------------------------------------------------------------
(***************************************************************************)
(* The shape of the output is that of the layer.                           *)
(***************************************************************************)

\* The formula of the kernel for a dimension of a convolution counts the
\* places where the whole window fits.
LEMMA WindowsCounted ==
  ASSUME NEW padded \in Nat, NEW reach \in Nat, NEW s \in Positive, NEW size,
         size = Cardinality({p \in 0..padded : p * s + reach < padded}), size > 0
  PROVE  size = Quotient(padded - reach - 1, s) + 1
<1>1. PICK span, W : /\ span = padded - reach - 1 /\ span \in Int
                     /\ W = {p \in 0..padded : p * s + reach < padded}
  <2>1. padded - reach - 1 \in Int
    OBVIOUS
  <2>. QED
    BY <2>1
<1>2. s \in Nat /\ s > 0
  BY DEF Positive
<1>3. span >= 0
  <2>1. SUFFICES ASSUME span < 0 PROVE FALSE
    BY <1>1
  <2>2. \A p \in Nat : p * s >= 0
    BY <1>2
  <2>3. W = {}
    BY <1>1, <1>2, <2>1, <2>2
  <2>4. Cardinality(W) = 0
    BY <2>3, FS_EmptySet
  <2>. QED
    BY <1>1, <2>4
<1>4. PICK n : n = span \div s
  OBVIOUS
<1>5. /\ n \in Nat /\ n * s <= span /\ span < (n + 1) * s
  BY <1>1, <1>2, <1>3, <1>4
<1>6. n <= span
  <2>1. n <= n * s
    <3>1. n * (s - 1) >= 0 /\ n * s = n * (s - 1) + n
      BY <1>2, <1>5
    <3>. QED
      BY <1>2, <1>5, <3>1
  <2>. QED
    BY <1>1, <1>2, <1>5, <2>1
<1>7. ASSUME NEW p \in Int
      PROVE  p \in W <=> p \in 0..n
  <2>1. ASSUME p \in 0..n
        PROVE  p * s <= n * s
    <3>1. (n - p) * s >= 0 /\ n * s = (n - p) * s + p * s
      BY <1>2, <1>5, <2>1
    <3>. QED
      BY <1>2, <1>5, <3>1
  <2>2. ASSUME p >= n + 1
        PROVE  p * s >= (n + 1) * s
    <3>1. (p - (n + 1)) * s >= 0 /\ p * s = (p - (n + 1)) * s + (n + 1) * s
      BY <1>2, <1>5, <2>2
    <3>. QED
      BY <1>2, <1>5, <3>1
  <2>3. PICK ps \in Int, ns \in Int, ms \in Int : ps = p * s /\ ns = n * s /\ ms = (n + 1) * s
    BY <1>2, <1>5
  <2>4. p \in W <=> p \in 0..padded /\ ps <= span
    BY <1>1, <2>3
  <2>. QED
    BY <1>1, <1>5, <1>6, <2>1, <2>2, <2>3, <2>4
<1>8. W = 0..n
  BY <1>1, <1>7
<1>9. Cardinality(W) = n + 1
  <2>1. Cardinality(0..n) = IF 0 > n THEN 0 ELSE n - 0 + 1
    BY <1>5, FS_Interval
  <2>. QED
    BY <1>5, <1>8, <2>1
<1>10. Quotient(span, s) = n
  BY <1>3, <1>4 DEF Quotient
<1>. QED
  BY <1>1, <1>9, <1>10

\* An attribute is the same to the kernel and to ONNX.
LEMMA SameAttribute ==
  ASSUME NEW l, NEW name, NEW default
  PROVE  Onnx!Of(l, name, default) = Attribute(l.attributes, name, default)
BY DEF Onnx!Of, Attribute

LEMMA ConvSizesAgree ==
  ASSUME NEW l, NEW w \in Nat \X Nat \X Nat \X Nat, NEW x \in Nat \X Nat \X Nat \X Nat,
         NEW strides \in Positive \X Positive, NEW dilations \in Positive \X Positive,
         NEW pads \in Nat \X Nat \X Nat \X Nat,
         strides = Attribute(l.attributes, "strides", <<1, 1>>),
         dilations = Attribute(l.attributes, "dilations", <<1, 1>>),
         pads = Attribute(l.attributes, "pads", <<0, 0, 0, 0>>),
         NEW d \in {1, 2}, w[d + 2] # 0, Onnx!ConvSize(l, w, x, d) > 0
  PROVE  Onnx!ConvSize(l, w, x, d) =
           Quotient(x[d + 2] + pads[d] + pads[d + 2] - dilations[d] * (w[d + 2] - 1) - 1,
                    strides[d]) + 1
<1>1. PICK size, padded, reach, s, e :
        /\ size = Onnx!ConvSize(l, w, x, d)
        /\ padded = x[d + 2] + pads[d] + pads[d + 2]
        /\ e = dilations[d] /\ s = strides[d]
        /\ reach = (w[d + 2] - 1) * e
  OBVIOUS
<1>2. padded \in Nat /\ e \in Positive /\ s \in Positive /\ w[d + 2] - 1 \in Nat
  <2>1. x[d + 2] \in Nat /\ pads[d] \in Nat /\ pads[d + 2] \in Nat /\ w[d + 2] \in Nat
    OBVIOUS
  <2>2. dilations[d] \in Positive /\ strides[d] \in Positive
    OBVIOUS
  <2>. QED
    BY <1>1, <2>1, <2>2
<1>3. reach \in Nat /\ dilations[d] * (w[d + 2] - 1) = reach
  <2>1. PICK v \in Nat : v = w[d + 2] - 1
    BY <1>2
  <2>2. e \in Nat
    BY <1>2 DEF Positive
  <2>3. v * e \in Nat /\ e * v = v * e
    BY <2>2
  <2>. QED
    BY <1>1, <2>1, <2>3
<1>4. size = Cardinality({p \in 0..padded : p * s + reach < padded})
  <2>1. /\ Onnx!Of(l, "strides", <<1, 1>>) = strides
        /\ Onnx!Of(l, "dilations", <<1, 1>>) = dilations
        /\ Onnx!Of(l, "pads", <<0, 0, 0, 0>>) = pads
    BY SameAttribute
  <2>2. size = Onnx!Cardinality({p \in 0..padded : p * s + reach < padded})
    BY <1>1, <2>1 DEF Onnx!ConvSize, Onnx!PadBefore, Onnx!PadAfter, Onnx!Stride, Onnx!Dilation
  <2>3. PICK W : W = {p \in 0..padded : p * s + reach < padded}
    OBVIOUS
  <2>4. Onnx!Cardinality(W) = Cardinality(W)
    BY DEF Onnx!Cardinality, Cardinality
  <2>. QED
    BY <2>2, <2>3, <2>4
<1>5. size = Quotient(padded - reach - 1, s) + 1
  BY <1>1, <1>2, <1>3, <1>4, WindowsCounted
<1>. QED
  BY <1>1, <1>3, <1>5

\* The layer that is run is one of the model's, and its weight is in the graph.
LEMMA RunningSupported ==
  ASSUME IInv, SupportedLayers, index # 0, NEW l, l = layer, NEW w, w = weight.shape
  PROVE  /\ l.op \in {"Gemm", "MatMul"} =>
              /\ Onnx!TransB(l)
              /\ Attribute(l.attributes, "alpha", 1) = 1 /\ Attribute(l.attributes, "beta", 1) = 1
         /\ l.op \in {"Conv", "ConvTranspose"} =>
              Onnx!Group(l) = 1 /\ w[3] # 0 /\ w[4] # 0
<1>1. /\ index \in 1..Len(new_nodes) /\ node.op \in SecureOps /\ saved
  BY DEF IInv, KernelInv
<1>2. PICK new, name, m : new = node /\ name = NameOf(l) /\ m = original
  OBVIOUS
<1>3. l.op \in Rewritten /\ name \in SecuredWeights
  <2>1. new = new_nodes[index] /\ new.op \in SecureOps /\ l = original.nodes[index]
    BY <1>1, <1>2 DEF node, layer
  <2>. QED
    BY <1>1, <1>2, <2>1, SecureNode
<1>4. index \in 1..Len(m.nodes) /\ DOMAIN m.nodes = 1..Len(m.nodes) /\ l = m.nodes[index]
      /\ m \in Models
  BY <1>1, <1>2, SavedNodes DEF layer, IInv, LoopPosition
<1>5. l.inputs[2] = <<name, "">>
  BY <1>2, <1>3, <1>4, OriginalNodes
<1>6. <<name, "">> \in DOMAIN m.initializer
  BY <1>2, <1>3 DEF IInv, InitializersInv
<1>7. w = m.initializer[l.inputs[2]].shape
  BY <1>2 DEF weight
<1>. QED
  BY <1>3, <1>4, <1>5, <1>6, <1>7 DEF SupportedLayers

\* The kernel's shape of the output is that of the layer.
LEMMA ShapesAgree ==
  ASSUME IInv, ExportedLayers, SupportedLayers, FullBatches, stage \in {"loop", "done"}
  PROVE  /\ y_shape = Onnx!LayerShape(layer, weight.shape, x_shape)
         /\ \A d \in DOMAIN y_shape \ {1} : y_shape[d] > 0
<1>1. index # 0 /\ y_shape = OutputShape(kernel, x_shape)
  BY DEF IInv, KernelInv, ShapesInv
<1>2. PICK l, k, x, w, ys, outputs :
        /\ l = layer /\ k = kernel /\ x = x_shape /\ w = weight.shape /\ ys = y_shape
        /\ outputs = Onnx!LayerShape(l, w, x)
  OBVIOUS
<1>3. /\ l.op \in Rewritten /\ k.op = SecureOpOf(l.op) /\ k.shape = w
      /\ l.op \in {"Gemm", "MatMul"} => IsLinear(l, k.shape)
      /\ l.op \in {"Conv", "ConvTranspose"} =>
           /\ IsConvolution(l, k.shape)
           /\ k.strides = Attribute(l.attributes, "strides", <<1, 1>>)
           /\ k.pads = Attribute(l.attributes, "pads", <<0, 0, 0, 0>>)
           /\ k.dilations = Attribute(l.attributes, "dilations", <<1, 1>>)
      /\ l.op = "ConvTranspose" =>
           k.output_padding = Attribute(l.attributes, "output_padding", <<0, 0>>)
  BY <1>1, <1>2, RunningLayer
<1>4. /\ l.op \in {"Gemm", "MatMul"} =>
           /\ Onnx!TransB(l)
           /\ Attribute(l.attributes, "alpha", 1) = 1 /\ Attribute(l.attributes, "beta", 1) = 1
      /\ l.op \in {"Conv", "ConvTranspose"} => Onnx!Group(l) = 1 /\ w[3] # 0 /\ w[4] # 0
  BY <1>1, <1>2, RunningSupported
<1>5. GemmRun(k, x, ys) \/ ConvRun(k, x, ys) \/ ConvTransposeRun(k, x, ys)
  BY <1>2, RunningShapes
<1>6. \A d \in DOMAIN outputs \ {1} : outputs[d] > 0
  BY <1>2 DEF IInv, ShapesInv
<1>7. ys = outputs
  <2>1. CASE l.op \in {"Gemm", "MatMul"}
    <3>1. k.op = "SecureGemm"
      BY <1>3, <2>1 DEF SecureOpOf
    <3>2. outputs = <<x[1], w[1]>>
      BY <1>2, <1>4, <2>1 DEF Onnx!LayerShape, Onnx!OutFeatures
    <3>3. ys = <<x[1], w[1]>>
      BY <1>1, <1>2, <1>3, <3>1 DEF OutputShape, GemmShape
    <3>. QED
      BY <3>2, <3>3
  <2>2. CASE l.op = "Conv"
    <3>1. k.op = "SecureConv"
      BY <1>3, <2>2 DEF SecureOpOf
    <3>2. PICK sizes : sizes = [d \in {1, 2} |-> Onnx!ConvSize(l, w, x, d)]
      OBVIOUS
    <3>3. outputs = <<x[1], w[1], sizes[1], sizes[2]>>
      BY <1>2, <2>2, <3>2 DEF Onnx!LayerShape
    <3>4. sizes[1] > 0 /\ sizes[2] > 0
      BY <1>6, <3>3
    <3>5. /\ k.strides \in Positive \X Positive /\ k.dilations \in Positive \X Positive
          /\ k.pads \in Nat \X Nat \X Nat \X Nat
      BY <1>3, <2>2 DEF IsConvolution, IsGeometry
    <3>6. w \in Nat \X Nat \X Nat \X Nat /\ x \in Nat \X Nat \X Nat \X Nat
      BY <1>3, <1>5, <3>1 DEF GemmRun, ConvRun, ConvTransposeRun
    <3>7. ASSUME NEW d \in {1, 2}
          PROVE  sizes[d] =
                   Quotient(x[d + 2] + k.pads[d] + k.pads[d + 2] - k.dilations[d] * (w[d + 2] - 1) - 1,
                            k.strides[d]) + 1
      <4>1. w[d + 2] # 0
        BY <1>4, <2>2
      <4>2. sizes[d] = Onnx!ConvSize(l, w, x, d) /\ sizes[d] > 0
        BY <3>2, <3>4
      <4>3. PICK strides \in Positive \X Positive, dilations \in Positive \X Positive,
                 pads \in Nat \X Nat \X Nat \X Nat :
              strides = k.strides /\ dilations = k.dilations /\ pads = k.pads
        BY <3>5
      <4>4. /\ strides = Attribute(l.attributes, "strides", <<1, 1>>)
            /\ dilations = Attribute(l.attributes, "dilations", <<1, 1>>)
            /\ pads = Attribute(l.attributes, "pads", <<0, 0, 0, 0>>)
        BY <1>3, <2>2, <4>3
      <4>5. Onnx!ConvSize(l, w, x, d) =
              Quotient(x[d + 2] + pads[d] + pads[d + 2] - dilations[d] * (w[d + 2] - 1) - 1,
                       strides[d]) + 1
        BY <3>6, <4>1, <4>2, <4>4, ConvSizesAgree
      <4>. QED
        BY <4>2, <4>3, <4>5
    <3>8. ys = <<x[1], w[1],
                 Quotient(x[3] + k.pads[1] + k.pads[3] - k.dilations[1] * (w[3] - 1) - 1, k.strides[1]) + 1,
                 Quotient(x[4] + k.pads[2] + k.pads[4] - k.dilations[2] * (w[4] - 1) - 1, k.strides[2]) + 1>>
      BY <1>1, <1>2, <1>3, <3>1 DEF OutputShape, ConvShape
    <3>. QED
      BY <3>3, <3>7, <3>8
  <2>3. CASE l.op = "ConvTranspose"
    <3>1. k.op = "SecureConvTranspose"
      BY <1>3, <2>3 DEF SecureOpOf
    <3>2. /\ k.strides \in Positive \X Positive /\ k.dilations \in Positive \X Positive
          /\ k.pads \in Nat \X Nat \X Nat \X Nat /\ k.output_padding \in Nat \X Nat
      BY <1>3, <2>3 DEF IsConvolution, IsGeometry
    <3>3. w \in Nat \X Nat \X Nat \X Nat /\ x \in Nat \X Nat \X Nat \X Nat
      BY <1>3, <1>5, <3>1 DEF GemmRun, ConvRun, ConvTransposeRun
    <3>4. /\ Onnx!Of(l, "strides", <<1, 1>>) = k.strides
          /\ Onnx!Of(l, "dilations", <<1, 1>>) = k.dilations
          /\ Onnx!Of(l, "pads", <<0, 0, 0, 0>>) = k.pads
          /\ Onnx!Of(l, "output_padding", <<0, 0>>) = k.output_padding
      BY <1>3, <2>3, SameAttribute
    <3>5. PICK sizes : sizes = [d \in {1, 2} |-> Onnx!ConvTransposeSize(l, w, x, d)]
      OBVIOUS
    <3>6. outputs = <<x[1], w[2] * Onnx!Group(l), sizes[1], sizes[2]>>
      BY <1>2, <2>3, <3>5 DEF Onnx!LayerShape
    <3>7. ASSUME NEW d \in {1, 2}
          PROVE  sizes[d] = k.strides[d] * (x[d + 2] - 1) + k.output_padding[d]
                              + k.dilations[d] * (w[d + 2] - 1) + 1 - k.pads[d] - k.pads[d + 2]
      <4>1. sizes[d] = (x[d + 2] - 1) * k.strides[d] + (w[d + 2] - 1) * k.dilations[d] + 1
                         - k.pads[d] - k.pads[d + 2] + k.output_padding[d]
        BY <3>4, <3>5 DEF Onnx!ConvTransposeSize, Onnx!PadBefore, Onnx!PadAfter,
                          Onnx!Stride, Onnx!Dilation
      <4>2. /\ x[d + 2] - 1 \in Int /\ w[d + 2] - 1 \in Int /\ k.strides[d] \in Int
            /\ k.dilations[d] \in Int /\ k.pads[d] \in Int /\ k.pads[d + 2] \in Int
            /\ k.output_padding[d] \in Int
        BY <3>2, <3>3 DEF Positive
      <4>. QED
        BY <4>1, <4>2
    <3>8. ys = <<x[1], w[2],
                 k.strides[1] * (x[3] - 1) + k.output_padding[1] + k.dilations[1] * (w[3] - 1) + 1
                   - k.pads[1] - k.pads[3],
                 k.strides[2] * (x[4] - 1) + k.output_padding[2] + k.dilations[2] * (w[4] - 1) + 1
                   - k.pads[2] - k.pads[4]>>
      BY <1>1, <1>2, <1>3, <3>1 DEF OutputShape, ConvTransposeShape
    <3>9. w[2] * Onnx!Group(l) = w[2]
      BY <1>4, <2>3, <3>3
    <3>. QED
      BY <3>6, <3>7, <3>8, <3>9
  <2>. QED
    BY <1>3, <2>1, <2>2, <2>3 DEF Rewritten
<1>. QED
  BY <1>2, <1>6, <1>7

-----------------------------------------------------------------------------
(***************************************************************************)
(* The loops compute the layer.                                            *)
(***************************************************************************)

\* No dimension of the output of a convolution is negative.
LEMMA OutputHasCells ==
  ASSUME IInv, ExportedLayers, SupportedLayers, FullBatches, stage \in {"loop", "done"},
         ConvRun(kernel, x_shape, y_shape) \/ ConvTransposeRun(kernel, x_shape, y_shape)
  PROVE  y_shape \in Nat \X Nat \X Nat \X Nat
<1>1. PICK k, x, ys : k = kernel /\ x = x_shape /\ ys = y_shape
  OBVIOUS
<1>2. \A d \in DOMAIN ys \ {1} : ys[d] > 0
  BY <1>1, ShapesAgree
<1>3. PICK A \in Nat, B \in Nat, C \in Int, D \in Int : ys = <<A, B, C, D>>
  BY <1>1 DEF ConvRun, ConvTransposeRun
<1>4. C > 0 /\ D > 0
  BY <1>2, <1>3
<1>. QED
  BY <1>1, <1>3, <1>4

\* The operator that runs is the one of the layer.
LEMMA RunningOperator ==
  ASSUME IInv, ExportedLayers, SupportedLayers, FullBatches, stage \in {"loop", "done"},
         NEW l, l = layer, NEW k, k = kernel, NEW x, x = x_shape, NEW ys, ys = y_shape
  PROVE  /\ k.shape = weight.shape /\ HasItsBias(l, HasBias)
         /\ l.op \in {"Gemm", "Conv", "ConvTranspose"}
         /\ l.op = "Gemm" => GemmRun(k, x, ys) /\ IsPlainGemm(l)
         /\ l.op \in {"Conv", "ConvTranspose"} => Convolves(k, x, ys, l)
<1>1. index # 0
  BY DEF IInv, KernelInv
<1>2. /\ l.op \in Rewritten /\ k.op = SecureOpOf(l.op) /\ k.shape = weight.shape
      /\ l.op \in {"Conv", "ConvTranspose"} =>
           /\ IsConvolution(l, k.shape)
           /\ k.strides = Attribute(l.attributes, "strides", <<1, 1>>)
           /\ k.pads = Attribute(l.attributes, "pads", <<0, 0, 0, 0>>)
           /\ k.dilations = Attribute(l.attributes, "dilations", <<1, 1>>)
      /\ Len(l.inputs) \in {2, 3} /\ (HasBias <=> Len(l.inputs) = 3)
  BY <1>1, RunningLayer
<1>3. /\ l.op \in {"Gemm", "MatMul"} =>
           /\ Onnx!TransB(l)
           /\ Attribute(l.attributes, "alpha", 1) = 1 /\ Attribute(l.attributes, "beta", 1) = 1
      /\ l.op \in {"Conv", "ConvTranspose"} => Onnx!Group(l) = 1
  BY <1>1, RunningSupported
<1>4. GemmRun(k, x, ys) \/ ConvRun(k, x, ys) \/ ConvTransposeRun(k, x, ys)
  BY RunningShapes
<1>5. l.op \in {"Gemm", "Conv", "ConvTranspose"}
  BY <1>2, <1>3 DEF Rewritten, Onnx!TransB
<1>6. /\ l.op = "Gemm" => k.op = "SecureGemm"
      /\ l.op = "Conv" => k.op = "SecureConv"
      /\ l.op = "ConvTranspose" => k.op = "SecureConvTranspose"
  BY <1>2 DEF SecureOpOf
<1>7. /\ l.op = "Gemm" => GemmRun(k, x, ys)
      /\ l.op = "Conv" => ConvRun(k, x, ys)
      /\ l.op = "ConvTranspose" => ConvTransposeRun(k, x, ys)
  BY <1>4, <1>6 DEF GemmRun, ConvRun, ConvTransposeRun
<1>8. l.op = "Gemm" => IsPlainGemm(l) /\ Onnx!Of(l, "beta", 1) = 1
  BY <1>3, SameAttribute DEF IsPlainGemm
<1>9. HasItsBias(l, HasBias)
  BY <1>2, <1>8 DEF HasItsBias, HasBias
<1>10. l.op = "Conv" => x[2] = k.shape[2]
  <2>. SUFFICES ASSUME l.op = "Conv" PROVE x[2] = k.shape[2]
    OBVIOUS
  <2>1. PICK input \in Inputs :
          x = Onnx!InputShape(l, k.shape, input[1], input[2], input[3])
    BY <1>2 DEF IInv, ShapesInv
  <2>2. x[2] = k.shape[2] * Onnx!Group(l)
    BY <2>1 DEF Onnx!InputShape
  <2>3. k.shape[2] \in Nat
    BY <1>7 DEF ConvRun
  <2>. QED
    BY <1>3, <2>2, <2>3
<1>11. l.op \in {"Conv", "ConvTranspose"} => ys \in Nat \X Nat \X Nat \X Nat
  BY <1>7, OutputHasCells
<1>12. l.op \in {"Conv", "ConvTranspose"} => MovesAs(k, l)
  BY <1>2 DEF MovesAs, IsConvolution, IsGeometry
<1>13. l.op \in {"Conv", "ConvTranspose"} => Convolves(k, x, ys, l)
  BY <1>3, <1>7, <1>10, <1>11, <1>12 DEF Convolves
<1>. QED
  BY <1>2, <1>5, <1>7, <1>8, <1>9, <1>13

\* The finished cells are the output of the layer.
LEMMA FinishedLayer ==
  ASSUME IInv, CellsInv, ExportedLayers, SupportedLayers, FullBatches
  PROVE  SecuredNodeComputesItsLayer
<1>. SUFFICES ASSUME stage = "done"
              PROVE  /\ y_shape = Onnx!LayerShape(layer, weight.shape, x_shape)
                     /\ {<<c, y[c]>> : c \in DOMAIN y} =
                          Onnx!LayerOutput(layer, weight.shape, x_shape)
  BY DEF SecuredNodeComputesItsLayer
<1>1. PICK l, k, x, ys, cells, bias :
        l = layer /\ k = kernel /\ x = x_shape /\ ys = y_shape /\ cells = y /\ bias = HasBias
  OBVIOUS
<1>2. FinishedCells(k, x, ys, cells, bias)
  BY <1>1 DEF CellsInv
<1>3. /\ k.shape = weight.shape /\ HasItsBias(l, bias)
      /\ l.op \in {"Gemm", "Conv", "ConvTranspose"}
      /\ l.op = "Gemm" => GemmRun(k, x, ys) /\ IsPlainGemm(l)
      /\ l.op \in {"Conv", "ConvTranspose"} => Convolves(k, x, ys, l)
  BY <1>1, RunningOperator
<1>4. ys = Onnx!LayerShape(l, k.shape, x)
  BY <1>1, <1>3, ShapesAgree
<1>5. CellsOf(cells) = Onnx!LayerOutput(l, k.shape, x)
  <2>1. CASE l.op = "Gemm"
    <3>1. GemmRun(k, x, ys)
      BY <1>3, <2>1
    <3>2. IsPlainGemm(l)
      BY <1>3, <2>1
    <3>3. HasItsBias(l, bias)
      BY <1>3
    <3>. QED
      BY <1>2, <1>4, <3>1, <3>2, <3>3, LinearOutputAgrees
  <2>2. CASE l.op \in {"Conv", "ConvTranspose"}
    <3>1. Convolves(k, x, ys, l) /\ HasItsBias(l, bias)
      BY <1>3, <2>2
    <3>. QED
      BY <1>2, <1>4, <3>1, ConvolutionOutputAgrees
  <2>. QED
    BY <1>3, <2>1, <2>2
<1>. QED
  BY <1>1, <1>3, <1>4, <1>5 DEF CellsOf

\* The pairs that are done, and the iterations that are left.
LEMMA RunningIterations ==
  ASSUME IInv, ExportedLayers, FullBatches, stage = "loop",
         NEW k, k = kernel, NEW x, x = x_shape
  PROVE  /\ left \subseteq Iterations(k, x)
         /\ UNION Iterations(k, x) = AllPairs(k, x)
         /\ k.op = "SecureConvTranspose" => Iterations(k, x) = {{p} : p \in AllPairs(k, x)}
<1>1. GemmRun(k, x, y_shape) \/ ConvRun(k, x, y_shape) \/ ConvTransposeRun(k, x, y_shape)
  BY RunningShapes
<1>2. x[1] \in Nat \ {0} /\ k.shape[1] \in Nat
  BY <1>1 DEF GemmRun, ConvRun, ConvTransposeRun
<1>3. UNION Iterations(k, x) = AllPairs(k, x)
  BY <1>2, IterationsArePairs DEF AllPairs
<1>4. k.op = "SecureConvTranspose" => Iterations(k, x) = {{p} : p \in AllPairs(k, x)}
  BY DEF Iterations, AllPairs
<1>. QED
  BY <1>3, <1>4 DEF IInv, KernelInv

\* Nothing but the loop changes the cells of an output.
LEMMA CellsStay ==
  ASSUME CellsInv, UNCHANGED operatorVars, UNCHANGED <<new_nodes, index>>
  PROVE  CellsInv'
BY DEF operatorVars, CellsInv, DonePairs, HasBias, node

LEMMA FeedKeepsCells ==
  ASSUME NEW input \in Inputs, Feed(input)
  PROVE  CellsInv'
<1>1. PICK x : GetOutput(x) /\ UNCHANGED <<graphVars, index>>
  BY DEF Feed
<1>2. PICK start, ys, k, bias :
        /\ start = IF kernel.op = "SecureConvTranspose" THEN EmptyBag ELSE Uninitialized
        /\ ys = OutputShape(kernel, x) /\ k = kernel /\ bias = HasBias'
  OBVIOUS
<1>3. PICK cells : cells = [c \in UpTo(Elements(ys)) |-> start]
  OBVIOUS
<1>4. /\ x_shape' = x /\ y_shape' = ys /\ y' = cells
      /\ left' = Iterations(k, x) /\ stage' = "loop" /\ kernel' = k
  BY <1>1, <1>2, <1>3 DEF GetOutput
<1>5. LoopCells(k, x, ys, cells, {}, bias)
  BY <1>2, <1>3, CellsBefore
<1>6. DonePairs' = {}
  BY <1>4 DEF DonePairs
<1>. QED
  BY <1>2, <1>4, <1>5, <1>6 DEF CellsInv

LEMMA LoopKeepsCells ==
  ASSUME IInv, CellsInv, ExportedLayers, SupportedLayers, FullBatches, Loop
  PROVE  CellsInv'
<1>1. UNCHANGED <<new_nodes, index>>
  BY DEF Loop, graphVars
<1>2. stage = "loop" /\ UNCHANGED <<kernel, x_shape, y_shape>>
  BY DEF Loop, Assign, Accumulate, FinishLoops
<1>3. PICK k, x, ys, cells, bias, rest, done, all :
        /\ k = kernel /\ x = x_shape /\ ys = y_shape /\ cells = y /\ bias = HasBias /\ rest = left
        /\ done = DonePairs /\ all = Iterations(k, x)
  OBVIOUS
<1>4. HasBias' = bias
  BY <1>1, <1>3 DEF HasBias, node
<1>5. LoopCells(k, x, ys, cells, done, bias)
  BY <1>2, <1>3 DEF CellsInv
<1>6. GemmRun(k, x, ys) \/ ConvRun(k, x, ys) \/ ConvTransposeRun(k, x, ys)
  BY <1>2, <1>3, RunningShapes
<1>7. /\ rest \subseteq all /\ UNION all = AllPairs(k, x)
      /\ k.op = "SecureConvTranspose" => all = {{p} : p \in AllPairs(k, x)}
  BY <1>2, <1>3, RunningIterations
<1>8. done = UNION (all \ rest)
  BY <1>3 DEF DonePairs
<1>9. ASSUME NEW it \in rest, left' = rest \ {it}
      PROVE  DonePairs' = done \cup it /\ it \subseteq AllPairs(k, x)
  <2>1. DonePairs' = UNION (all \ (rest \ {it}))
    BY <1>2, <1>3, <1>9 DEF DonePairs
  <2>2. UNION (all \ (rest \ {it})) = (UNION (all \ rest)) \cup it
    BY <1>7, MoreDone
  <2>. QED
    BY <1>7, <1>8, <2>1, <2>2
<1>10. CASE \E it \in left : Assign(it, HasBias)
  <2>1. PICK it \in rest : Assign(it, bias)
    BY <1>3, <1>10
  <2>2. PICK new : new = [c \in DOMAIN cells |->
                            IF Place(ys, c) \in it
                            THEN Terms(Products(k, x, ys, it), c) (+) Bias(ys, c, bias)
                            ELSE cells[c]]
    OBVIOUS
  <2>3. y' = new /\ left' = rest \ {it} /\ stage' = "loop" /\ k.op # "SecureConvTranspose"
    BY <1>2, <1>3, <2>1, <2>2 DEF Assign
  <2>4. DonePairs' = done \cup it /\ it \subseteq AllPairs(k, x)
    BY <1>9, <2>3
  <2>5. GemmRun(k, x, ys) \/ ConvRun(k, x, ys)
    BY <1>6, <2>3 DEF ConvTransposeRun
  <2>6. LoopCells(k, x, ys, new, done \cup it, bias)
    BY <1>5, <2>2, <2>4, <2>5, AssignedCells
  <2>. QED
    BY <1>2, <1>3, <1>4, <2>3, <2>4, <2>6 DEF CellsInv
<1>11. CASE \E it \in left : Accumulate(it)
  <2>1. PICK it \in rest : Accumulate(it)
    BY <1>3, <1>11
  <2>2. PICK new : new = [c \in DOMAIN cells |-> cells[c] (+) Terms(Products(k, x, ys, it), c)]
    OBVIOUS
  <2>3. y' = new /\ left' = rest \ {it} /\ stage' = "loop" /\ k.op = "SecureConvTranspose"
    BY <1>2, <1>3, <2>1, <2>2 DEF Accumulate
  <2>4. DonePairs' = done \cup it /\ it \subseteq AllPairs(k, x)
    BY <1>9, <2>3
  <2>5. ConvTransposeRun(k, x, ys)
    BY <1>6, <2>3 DEF GemmRun, ConvRun
  <2>6. done \subseteq AllPairs(k, x)
    BY <1>7, <1>8
  <2>7. it \cap done = {}
    <3>1. all = {{p} : p \in AllPairs(k, x)}
      BY <1>7, <2>3
    <3>2. PICK p : it = {p}
      BY <1>7, <3>1
    <3>3. ASSUME NEW other \in all, p \in other PROVE other = it
      BY <3>1, <3>2, <3>3
    <3>. QED
      BY <1>8, <3>2, <3>3
  <2>8. LoopCells(k, x, ys, new, done \cup it, bias)
    BY <1>5, <2>2, <2>4, <2>5, <2>6, <2>7, AccumulatedCells
  <2>. QED
    BY <1>2, <1>3, <1>4, <2>3, <2>4, <2>8 DEF CellsInv
<1>12. CASE FinishLoops(HasBias)
  <2>1. FinishLoops(bias)
    BY <1>3, <1>12
  <2>2. PICK new : new = IF k.op = "SecureConvTranspose"
                         THEN [c \in DOMAIN cells |-> cells[c] (+) Bias(ys, c, bias)] ELSE cells
    OBVIOUS
  <2>3. y' = new /\ rest = {} /\ stage' = "done"
    BY <1>3, <2>1, <2>2 DEF FinishLoops
  <2>4. done = AllPairs(k, x)
    BY <1>7, <1>8, <2>3
  <2>5. ConvRun(k, x, ys) => ys \in Nat \X Nat \X Nat \X Nat
    BY <1>2, <1>3, OutputHasCells
  <2>6. LoopCells(k, x, ys, cells, AllPairs(k, x), bias)
    BY <1>5, <2>4
  <2>7. FinishedCells(k, x, ys, new, bias)
    BY <1>6, <2>2, <2>5, <2>6, CellsAfter
  <2>. QED
    BY <1>2, <1>3, <1>4, <2>3, <2>7 DEF CellsInv
<1>. QED
  BY <1>10, <1>11, <1>12 DEF Loop

\* The cells are what the invariant says after every step.
LEMMA CellsHold ==
  ASSUME IInv, CellsInv, ExportedLayers, SupportedLayers, FullBatches, [Next]_vars
  PROVE  CellsInv'
<1>1. CASE RewriteStep
  <2>1. nodes # <<>> \/ ~saved
    BY <1>1 DEF RewriteStep, Rewrite, RewriteGemm, RewriteConv, KeepNode, Save
  <2>2. ~saved
    BY <2>1, LoopBeforeSaving
  <2>3. stage = "unloaded"
    BY <2>2 DEF IInv, KernelInv
  <2>4. stage' = stage
    BY <1>1 DEF RewriteStep, operatorVars
  <2>. QED
    BY <2>3, <2>4 DEF CellsInv
<1>2. CASE \E i \in DOMAIN new_nodes : CreateKernel(i)
  BY <1>2 DEF CreateKernel, CellsInv
<1>3. CASE Decrypt
  BY <1>3 DEF Decrypt, CellsInv
<1>4. CASE \E input \in Inputs : Feed(input)
  BY <1>4, FeedKeepsCells
<1>5. CASE Loop
  BY <1>5, LoopKeepsCells
<1>6. CASE UNCHANGED vars
  BY <1>6, CellsStay DEF vars, graphVars
<1>. QED
  BY <1>1, <1>2, <1>3, <1>4, <1>5, <1>6 DEF Next

-----------------------------------------------------------------------------
(***************************************************************************)
(* The theorems.                                                           *)
(***************************************************************************)

\* At every step of the rewriting and of the kernel, the graph and the new
\* nodes are those of the nodes that the loop has passed.
THEOREM OnnxInvariant == Spec => []IInv
BY InitHolds, StepHolds, PTL DEF Spec

\* The state of the rewriting and of the kernel is well formed.
THEOREM OnnxTypeOK == Spec => []TypeOK
BY OnnxInvariant, StateIsWellFormed, PTL

\* "Remove original plaintext initializer to prevent it from saving": for
\* every model and every list of layers, whichever nodes share a weight.
THEOREM OnnxNoPlaintextIsSaved == Spec => []NoPlaintextIsSaved
BY OnnxInvariant, PlaintextIsGone, PTL

\* The compiler's additional data and the kernel's are the same, for every
\* attribute that a node may carry: the tag of a saved model always matches.
THEOREM OnnxSecuredNodesAuthenticate == Spec => []SecuredNodesAuthenticate
<1>1. IInv => SecuredNodesAuthenticate
  BY DEF IInv, KernelInv, SecuredNodesAuthenticate
<1>. QED
  BY <1>1, OnnxInvariant, PTL

\* ONNX Runtime can load what was saved, if no weight is also the input of
\* another node and all are float32.
THEOREM OnnxSavedModelLoads ==
  ASSUME OwnWeights, SinglePrecision
  PROVE  Spec => []SavedModelLoads
<1>1. IInv => SavedModelLoads
  BY ModelLoads
<1>. QED
  BY <1>1, OnnxInvariant, PTL

\* The ciphertext fills the lease of the kernel, and the pool has slots for
\* it, if the weights are float32.
THEOREM OnnxLeaseHoldsTheWeight ==
  ASSUME SinglePrecision
  PROVE  Spec => []LeaseHoldsTheWeight
<1>1. IInv => LeaseHoldsTheWeight
  BY LeaseFits
<1>. QED
  BY <1>1, OnnxInvariant, PTL

\* No iteration of the parallel loops reads or writes outside its arrays,
\* for every stride, padding and dilation, if there is something in every
\* batch and the layers are those that torch.onnx.export writes.
THEOREM OnnxAccessInBounds ==
  ASSUME OwnWeights, ExportedLayers, FullBatches
  PROVE  Spec => []AccessInBounds
<1>1. IInv => AccessInBounds
  BY AccessesStayInside
<1>. QED
  BY <1>1, OnnxInvariant, PTL

\* The cells of an output are what the iterations that are done make them, in
\* whatever order the thread pool runs these.
THEOREM OnnxLoopInvariant ==
  ASSUME ExportedLayers, SupportedLayers, FullBatches
  PROVE  Spec => []LoopInv
<1>1. Init => CellsInv
  BY DEF Init, OperatorInit, CellsInv
<1>2. IInv /\ CellsInv /\ [Next]_vars => CellsInv'
  BY CellsHold
<1>3. Spec => []CellsInv
  BY <1>1, <1>2, OnnxInvariant, PTL DEF Spec
<1>4. IInv /\ CellsInv => LoopInv
  BY DEF LoopInv
<1>. QED
  BY <1>3, <1>4, OnnxInvariant, PTL

\* In the end the secured node has computed what ONNX says its layer does.
THEOREM OnnxSecuredNodeComputesItsLayer ==
  ASSUME ExportedLayers, SupportedLayers, FullBatches
  PROVE  Spec => []SecuredNodeComputesItsLayer
<1>1. LoopInv => SecuredNodeComputesItsLayer
  BY FinishedLayer DEF LoopInv
<1>. QED
  BY <1>1, OnnxLoopInvariant, PTL
==============================================================================
