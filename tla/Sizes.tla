------------------------------- MODULE Sizes -------------------------------
(***************************************************************************)
(* How large tensors and pools are: the arithmetic that the compilers, the *)
(* kernels and the native pool share.                                      *)
(***************************************************************************)
EXTENDS Integers, SequencesExt

\* 0, ..., n - 1
UpTo(n) == 0..(n - 1)

\* The product of the dimensions of a tensor.
Elements(shape) == FoldLeft(LAMBDA m, n : m * n, 1, shape)

\* Bytes of an element, and of a tensor (ndarray.nbytes).
ItemSize(dtype) == IF dtype = "float64" THEN 8 ELSE IF dtype = "float16" THEN 2 ELSE 4
NumBytes(shape, dtype) == Elements(shape) * ItemSize(dtype)

Total(sizes) == FoldLeft(LAMBDA m, n : m + n, 0, sizes)
=============================================================================
