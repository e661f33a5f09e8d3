---------------------------- MODULE TensorPasses ----------------------------
(***************************************************************************)
(* The passes around the one-dimensional transforms: those of real         *)
(* transforms (src/src/real_ir.rs), of the axes of a tensor (nd_ir.rs and  *)
(* r2r_ir.rs) and of zero padding (zero_pad_ir.rs).                        *)
(*                                                                         *)
(* A tensor has dimensions, the last of which varies fastest; a layout     *)
(* says where its element "local" of batch "batch" lies.                   *)
(***************************************************************************)
EXTENDS CosineTransforms

RECURSIVE Product(_)
Product(dims) == IF dims = << >> THEN 1 ELSE Head(dims) * Product(Tail(dims))

dense_axis_strides(dims) ==
  [axis \in DOMAIN dims |-> Product(SubSeq(dims, axis + 1, Len(dims)))]

Layout(dims, strides, batch_stride) ==
  [dims |-> dims, strides |-> strides, batchStride |-> batch_stride]

Dense(dims) == Layout(dims, dense_axis_strides(dims), Product(dims))

is_tightly_packed(layout) == layout = Dense(layout.dims)

\* The coordinate of element "local" along an axis.
Coordinate(dims, axis, local) ==
  (local \div dense_axis_strides(dims)[axis]) % dims[axis]

Address(layout, batch, local) ==
  LET terms == [a \in DOMAIN layout.dims |->
                  Coordinate(layout.dims, a, local) * layout.strides[a]]
      partial[a \in 0 .. Len(layout.dims)] == IF a = 0 THEN 0 ELSE partial[a - 1] + terms[a]
  IN  batch * layout.batchStride + partial[Len(layout.dims)]

-----------------------------------------------------------------------------
(* Real transforms of len points; a half spectrum has len \div 2 + 1. *)

half_spectrum_len(ir) == ir.len \div 2 + 1

PackEvenOdd(ir, batch, input) ==
  LET half == ir.len \div 2
  IN  {<<batch * half + i, EvenPair(half, batch, i, input)>> : i \in 0 .. half - 1}

PreprocessEvenHalf(ir, batch, input) ==
  LET half == ir.len \div 2
  IN  {<<batch * half + i, HalfSpectrumValue(half, ir.normalize, batch, i, input)>>
       : i \in 0 .. half - 1}

\* The half-size transform of a batch.
HalfTransform(ir, batch, input) ==
  [i \in 0 .. (ir.len \div 2) - 1 |-> At(input, batch * (ir.len \div 2) + i)]

PostprocessEvenHalf(ir, batch, input) ==
  EvenSpectrum(ir.len \div 2, batch, HalfTransform(ir, batch, input))

UnpackEvenOdd(ir, batch, input) ==
  EvenOddElements(ir.len \div 2, batch, HalfTransform(ir, batch, input))

\* PromoteFullComplex and FinalizeFullComplexReal.
RealParts(ir, batch, input) ==
  {<<batch * ir.len + i, RealPart(At(input, batch * ir.len + i))>> : i \in 0 .. ir.len - 1}

CompactHermitian(ir, batch, input) ==
  {<<batch * half_spectrum_len(ir) + k, At(input, batch * ir.len + k)>>
   : k \in 0 .. half_spectrum_len(ir) - 1}

ExpandHermitian(ir, batch, input) ==
  {<<batch * ir.len + k,
     IF k < half_spectrum_len(ir) THEN At(input, batch * half_spectrum_len(ir) + k)
     ELSE conj(At(input, batch * half_spectrum_len(ir) + ir.len - k))>> : k \in 0 .. ir.len - 1}

-----------------------------------------------------------------------------
(* The lines of an axis, gathered for its transforms and put back; copies   *)
(* between an external layout and a dense one; zero padding.                *)

LineElement(ir, transform, i) ==
  LET line == transform % ir.lines
  IN  (line \div ir.inner) * ir.len * ir.inner + i * ir.inner + (line % ir.inner)

NaturalIndex(ir, transform, i) ==
  Address(ir.layout, transform \div ir.lines, LineElement(ir, transform, i))

\* Whether an element of a tensor is padding: an axis without padding has the range
\* << >>.
contains_linear_index(dims, ranges, local) ==
  \E axis \in DOMAIN dims : InRange(ranges[axis], Coordinate(dims, axis, local))

\* A pass of the first or the last axis of a cosine or sine transform pads as well.
Unpadded(ir, transform, i, value) ==
  IF contains_linear_index(ir.layout.dims, ir.ranges, LineElement(ir, transform, i))
  THEN Zero ELSE value

PackAxis(ir, transform, input) ==
  {<<transform * ir.len + i,
     Unpadded(ir, transform, i, At(input, NaturalIndex(ir, transform, i)))>>
   : i \in 0 .. ir.len - 1}

ScatterAxis(ir, transform, input) ==
  {<<NaturalIndex(ir, transform, i),
     Unpadded(ir, transform, i, At(input, transform * ir.len + i))>> : i \in 0 .. ir.len - 1}

Locals(layout) == 0 .. Product(layout.dims) - 1

GatherExternalToDense(ir, batch, input) ==
  {<<Address(Dense(ir.layout.dims), batch, n), At(input, Address(ir.layout, batch, n))>>
   : n \in Locals(ir.layout)}

ScatterDenseToExternal(ir, batch, input) ==
  {<<Address(ir.layout, batch, n), At(input, Address(Dense(ir.layout.dims), batch, n))>>
   : n \in Locals(ir.layout)}

ZeroPad(ir, batch, input) ==
  {<<Address(Dense(ir.dims), batch, n),
     IF contains_linear_index(ir.dims, ir.ranges, n) THEN Zero
     ELSE At(input, Address(Dense(ir.dims), batch, n))>> : n \in 0 .. Product(ir.dims) - 1}

-----------------------------------------------------------------------------
TensorStores(pass, batch, memory) ==
  LET ir == pass.ir
      input == memory[pass.input]
  IN  CASE pass.kind = "PackEvenOdd" -> PackEvenOdd(ir, batch, input)
        [] pass.kind = "PreprocessEvenHalf" -> PreprocessEvenHalf(ir, batch, input)
        [] pass.kind = "PostprocessEvenHalf" -> PostprocessEvenHalf(ir, batch, input)
        [] pass.kind = "UnpackEvenOdd" -> UnpackEvenOdd(ir, batch, input)
        [] pass.kind \in {"PromoteFullComplex", "FinalizeFullComplexReal"} ->
             RealParts(ir, batch, input)
        [] pass.kind = "CompactHermitian" -> CompactHermitian(ir, batch, input)
        [] pass.kind = "ExpandHermitian" -> ExpandHermitian(ir, batch, input)
        [] pass.kind = "PackAxis" -> PackAxis(ir, batch, input)
        [] pass.kind = "ScatterAxis" -> ScatterAxis(ir, batch, input)
        [] pass.kind = "GatherExternalToDense" -> GatherExternalToDense(ir, batch, input)
        [] pass.kind = "ScatterDenseToExternal" -> ScatterDenseToExternal(ir, batch, input)
        [] pass.kind = "ZeroPad" -> ZeroPad(ir, batch, input)
        [] pass.kind = "R2rPreprocess" -> R2rPreprocess(ir, batch, input)
        [] pass.kind = "R2rPostprocess" -> R2rPostprocess(ir, batch, input)
        [] OTHER -> Stores(pass, batch, memory)

=============================================================================
