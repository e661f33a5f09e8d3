--------------------------- MODULE TensorPrograms ---------------------------
(***************************************************************************)
(* The programs of whole transforms (ProgramIr::one_dim_fft, nd_fft,       *)
(* real_fft, nd_real_fft, r2r and nd_r2r of src/src/program_ir.rs) from    *)
(* what the builders of nd_ir.rs, real_ir.rs, nd_real_ir.rs and r2r_ir.rs  *)
(* decided.                                                                *)
(*                                                                         *)
(* A transform is a record of                                              *)
(*   kind        "C2C", "R2C", "C2R" or "R2R"                              *)
(*   r2r         which one of the cosine and sine transforms an "R2R" is   *)
(*   dims        its dimensions; the last one is the real one              *)
(*   plans       the plan of each axis, or Omitted; that of a real axis or *)
(*               of a cosine or sine transform is the plan of the complex  *)
(*               transform behind it                                       *)
(*   even        whether a real axis goes through half its length          *)
(*   direction, batches, normalize                                         *)
(*   pads        the padded range of each axis, or << >>                   *)
(*   domain      which side is padded, "Spatial" or "Frequency"            *)
(*   mixed       the caller's buffers have another scalar type             *)
(*   inStrides, inBatch, outStrides, outBatch  the layouts of the caller   *)
(* and, once WithTransforms has built them, the transforms of its axes.    *)
(***************************************************************************)
EXTENDS FftIr, TensorPasses

Omitted == [algorithm |-> "Omitted"]

\* A half spectrum along the last axis.
Compact(dims) == [dims EXCEPT ![Len(dims)] = @ \div 2 + 1]

InputDims(c) == IF c.kind = "C2R" THEN Compact(c.dims) ELSE c.dims
OutputDims(c) == IF c.kind = "R2C" THEN Compact(c.dims) ELSE c.dims

InputLayout(c) == Layout(InputDims(c), c.inStrides, c.inBatch)
OutputLayout(c) == Layout(OutputDims(c), c.outStrides, c.outBatch)

\* The transforms of each axis: one for every line along it.
TransformBatches(c, axis) ==
  LET dims == IF c.kind \in {"R2C", "C2R"} THEN Compact(c.dims) ELSE c.dims
  IN  c.batches * (Product(dims) \div dims[axis])

EffectiveR2r(c) == effective_transform(c.r2r, c.direction)

\* The complex transform behind a cosine or sine transform has a direction of its own.
TransformDirection(c, axis) ==
  IF c.kind = "R2R" THEN fft_direction(EffectiveR2r(c), c.dims[axis]) ELSE c.direction

WithTransforms(c) ==
  [transforms |-> [axis \in DOMAIN c.dims |->
     IF c.plans[axis] = Omitted THEN Omitted
     ELSE build(c.plans[axis], TransformBatches(c, axis), TransformDirection(c, axis),
                c.kind # "R2R" /\ c.normalize)]] @@ c

-----------------------------------------------------------------------------
(* Which boundary of a transform is padded or copied. *)

Padded(c) == \E axis \in DOMAIN c.dims : c.pads[axis] # << >>

\* ZeroPadPassOperation::for_boundary.
is_input_boundary(c) == (c.direction = "Forward") = (c.domain = "Spatial")

\* Cosine and sine transforms need no pass for their padding.
PadsInput(c) == Padded(c) /\ is_input_boundary(c) /\ c.kind # "R2R"
PadsOutput(c) == Padded(c) /\ ~is_input_boundary(c) /\ c.kind # "R2R"

\* The first and the last pass of a complex transform reach an external layout by
\* themselves unless a padding pass stands before or behind them.
CopiesInput(c) == (c.kind = "C2C" => PadsInput(c)) /\ ~is_tightly_packed(InputLayout(c))
CopiesOutput(c) == (c.kind = "C2C" => PadsOutput(c)) /\ ~is_tightly_packed(OutputLayout(c))

-----------------------------------------------------------------------------
(* A builder on its way, and the resource where it has put the tensor; the  *)
(* transforms among its passes are flattened at the end.                    *)

State(b, natural) == [builder |-> b, natural |-> natural]

Then(b, step) == [b EXCEPT !.passes = Append(@, step)]

Flatten(b) == FoldLeft(flatten, [b EXCEPT !.passes = << >>], b.passes)

\* The resource to use next: "output", or a scratch of its own.
WithTarget(b, elements, output) ==
  IF output = NoResource
  THEN LET b1 == add_scratch(b, elements) IN State(b1, Newest(b1))
  ELSE State(b, output)

\* A pass from where the tensor is to the next resource.
Through(s, kind, ir, elements, output) ==
  LET t == WithTarget(s.builder, elements, output)
  IN  State(Then(t.builder, two_buffer_pass(kind, ir, s.natural, t.natural)), t.natural)

\* The same, where the pass is there at all.
Maybe(present, s, kind, ir, elements, output) ==
  IF present THEN Through(s, kind, ir, elements, output) ELSE s

PadIr(c) == [dims |-> c.dims, ranges |-> c.pads, batches |-> c.batches]
CopyIr(c, layout) == [layout |-> layout, batches |-> c.batches]

-----------------------------------------------------------------------------
(* The axes of a tensor, from the last to the first. *)

ActiveAxes(c, last) ==
  SelectSeq([i \in 1 .. last |-> last + 1 - i], LAMBDA axis : c.plans[axis] # Omitted)

Unpad(c) == [axis \in DOMAIN c.dims |-> << >>]

\* A cosine or sine transform along an axis of the tensor.
R2rIr(c, axis, input_padding, output_padding) ==
  [transform |-> EffectiveR2r(c), len |-> c.dims[axis],
   fftLen |-> fft_len(EffectiveR2r(c), c.dims[axis]),
   batches |-> TransformBatches(c, axis),
   normalize |-> c.direction = "Inverse" /\ c.normalize,
   inputPadding |-> input_padding, outputPadding |-> output_padding,
   fft |-> c.transforms[axis]]

flatten_r2r(b, ir, input, output) ==
  LET elements == ir.fftLen * ir.batches
      b1 == add_scratch(add_scratch(b, elements), elements)
      fft_input == Newest(b1) - 1
      fft_output == Newest(b1)
  IN  FoldLeft(Then, b1, <<two_buffer_pass("R2rPreprocess", ir, input, fft_input),
                           OneDim(ir.fft, fft_input, fft_output),
                           two_buffer_pass("R2rPostprocess", ir, fft_output, output)>>)

\* The passes and the transform of an axis; "from" and "to" are the layouts of the
\* tensor before and after it, and "first" and "last" tell whether the axis is the
\* first and the last one.
AxisIr(c, axis, from, to, first, last) ==
  LET dims == from.dims
      lines == Product(dims) \div dims[axis]
      Pads(here) == IF c.kind = "R2R" /\ here THEN c.pads ELSE Unpad(c)
      Lines(layout, ranges) ==
        [len |-> dims[axis], lines |-> lines, layout |-> layout, ranges |-> ranges,
         inner |-> dense_axis_strides(dims)[axis], batches |-> c.batches * lines]
  IN  [pack |-> Lines(from, Pads(first /\ c.direction = "Forward")),
       scatter |-> Lines(to, Pads(last /\ c.direction = "Inverse")),
       kind |-> c.kind,
       transform |-> IF c.kind = "R2R" THEN R2rIr(c, axis, << >>, << >>)
                     ELSE c.transforms[axis]]

AxisPasses(s, axis, elements, output) ==
  LET b1 == add_scratch(add_scratch(s.builder, elements), elements)
      packed_input == Newest(b1) - 1
      packed_output == Newest(b1)
      t == WithTarget(b1, elements, output)
      packed == Then(t.builder, two_buffer_pass("PackAxis", axis.pack, s.natural, packed_input))
      transformed == IF axis.kind = "R2R"
                     THEN flatten_r2r(packed, axis.transform, packed_input, packed_output)
                     ELSE Then(packed, OneDim(axis.transform, packed_input, packed_output))
  IN  State(Then(transformed,
                 two_buffer_pass("ScatterAxis", axis.scatter, packed_output, t.natural)),
            t.natural)

\* All axes up to "last"; the first of them reads the layout "first", the last of
\* them writes the layout "final" of the resource "output".
Axes(s, c, last, dims, first, final, output) ==
  LET axes == ActiveAxes(c, last)
      OneAxis(t, n) ==
        LET ends == n = Len(axes)
        IN  AxisPasses(t, AxisIr(c, axes[n], IF n = 1 THEN first ELSE Dense(dims),
                                 IF ends THEN final ELSE Dense(dims), n = 1, ends),
                       Product(dims) * c.batches, IF ends THEN output ELSE NoResource)
  IN  FoldLeft(OneAxis, s, [n \in DOMAIN axes |-> n])

-----------------------------------------------------------------------------
(* Real transforms of one axis. *)

\* Which sides of the real axis have the scalar type of the caller.
RealIr(c) ==
  LET last == Len(c.dims)
      axes == Len(ActiveAxes(c, last - 1)) > 0
      dense_in == PadsInput(c) \/ CopiesInput(c) \/ (c.kind = "C2R" /\ axes)
      dense_out == PadsOutput(c) \/ CopiesOutput(c) \/ (c.kind = "R2C" /\ axes)
      batches == c.batches * (Product(c.dims) \div c.dims[last])
  IN  [kind |-> c.kind, len |-> c.dims[last], even |-> c.even, batches |-> batches,
       normalize |-> c.normalize, mixed |-> c.mixed,
       mixedInput |-> c.mixed /\ ~(Len(c.dims) > 1 /\ dense_in),
       mixedOutput |-> c.mixed /\ ~(Len(c.dims) > 1 /\ dense_out),
       transform |-> c.transforms[last]]

FusesBoundaries(ir) == ir.even /\ ~ir.mixedInput /\ ~ir.mixedOutput

EvenInput(ir) == IF ir.kind = "R2C" THEN RealEvenPack ELSE RealEvenInversePreprocess(ir.normalize)
EvenOutput(ir) == IF ir.kind = "R2C" THEN RealEvenPostprocess ELSE RealEvenUnpack

\* The kind of the pass before and behind the complex transform, or "".
preprocess(ir) ==
  CASE ir.even -> IF ir.kind = "R2C" THEN "PackEvenOdd" ELSE "PreprocessEvenHalf"
    [] ~ir.even /\ ir.kind = "C2R" -> "ExpandHermitian"
    [] OTHER -> IF ir.mixed THEN "PromoteFullComplex" ELSE ""

postprocess(ir) ==
  CASE ir.even -> IF ir.kind = "R2C" THEN "PostprocessEvenHalf" ELSE "UnpackEvenOdd"
    [] ~ir.even /\ ir.kind = "R2C" -> "CompactHermitian"
    [] OTHER -> IF ir.mixed THEN "FinalizeFullComplexReal" ELSE ""

flatten_real_fft(b, ir, input, output) ==
  LET transform == ir.transform
      elements == transform.len * ir.batches
      scratch == add_scratch(b, elements)
      before == IF preprocess(ir) = "" THEN State(b, input)
                ELSE Through(State(b, input), preprocess(ir), ir, elements, NoResource)
      between == WithTarget(before.builder, elements,
                            IF postprocess(ir) = "" THEN output ELSE NoResource)
      transformed == Then(between.builder, OneDim(transform, before.natural, between.natural))
  IN  CASE FusesBoundaries(ir) /\ IsRecursive(transform, "Stockham") ->
             LET fused == [transform.root EXCEPT !.io = EvenInput(ir), !.modifier = EvenOutput(ir)]
             IN  IF ir.kind = "R2C"
                 THEN Then(scratch, Step("Stockham", fused, input, output, NoResource,
                                         Newest(scratch)))
                 ELSE Then(b, two_buffer_pass("Stockham", fused, input, output))
        [] FusesBoundaries(ir) /\ TakesBoundaries(transform) ->
             Then(b, two_buffer_pass("Boundaries",
                       [transform.root EXCEPT !.packIo = EvenInput(ir),
                                              !.modifier = EvenOutput(ir)], input, output))
        [] FusesBoundaries(ir) /\ transform.algorithm = "Bluestein" ->
             Then(b, OneDim([transform EXCEPT !.io = EvenInput(ir),
                                              !.modifier = EvenOutput(ir)], input, output))
        [] OTHER ->
             IF postprocess(ir) = "" THEN transformed
             ELSE Then(transformed, two_buffer_pass(postprocess(ir), ir, between.natural, output))

RealAxis(s, ir, elements, output) ==
  LET t == WithTarget(s.builder, elements, output)
  IN  State(flatten_real_fft(t.builder, ir, s.natural, t.natural), t.natural)

-----------------------------------------------------------------------------
(* Programs. *)

Externals(c) ==
  [resources |-> <<[elements |-> c.inBatch * c.batches, table |-> << >>],
                   [elements |-> c.outBatch * c.batches, table |-> << >>]>>,
   passes |-> << >>]

\* The dense tensor at the input, after the copy and the padding that it needs.
Entered(c) ==
  LET elements == Product(InputDims(c)) * c.batches
      copied == Maybe(CopiesInput(c), State(Externals(c), Input), "GatherExternalToDense",
                      CopyIr(c, InputLayout(c)), elements, NoResource)
  IN  Maybe(PadsInput(c), copied, "ZeroPad", PadIr(c), elements, NoResource)

\* Where the transform leaves the tensor: the output, or a scratch for what follows.
TransformTarget(c) == IF PadsOutput(c) \/ CopiesOutput(c) THEN NoResource ELSE Output

Left(c, s) ==
  LET elements == Product(OutputDims(c)) * c.batches
      padded == Maybe(PadsOutput(c), s, "ZeroPad", PadIr(c), elements,
                      IF CopiesOutput(c) THEN NoResource ELSE Output)
  IN  Maybe(CopiesOutput(c), padded, "ScatterDenseToExternal",
            CopyIr(c, OutputLayout(c)), elements, Output).builder

one_dim_fft(c) ==
  LET s == Entered(c)
      ir == c.transforms[1]
      t == WithTarget(s.builder, ir.len * c.batches, TransformTarget(c))
  IN  Left(c, State(Then(t.builder, OneDim(ir, s.natural, t.natural)), t.natural))

\* A cosine or sine transform of one axis pads in its own passes.
r2r(c) ==
  LET padding == c.pads[1]
      forward == c.direction = "Forward"
  IN  flatten_r2r(Externals(c), R2rIr(c, 1, IF forward THEN padding ELSE << >>,
                                            IF forward THEN << >> ELSE padding),
                  Input, Output)

\* ProgramIr::nd_fft and nd_r2r.
nd_fft(c) ==
  Left(c, Axes(Entered(c), c, Len(c.dims), c.dims,
               IF CopiesInput(c) THEN Dense(c.dims) ELSE InputLayout(c),
               IF CopiesOutput(c) THEN Dense(c.dims) ELSE OutputLayout(c),
               TransformTarget(c)))

\* The real axis comes first when its input is real, last when its output is.
nd_real_fft(c) ==
  LET last == Len(c.dims)
      compact == Compact(c.dims)
      axes == ActiveAxes(c, last - 1) # << >>
      ir == RealIr(c)
      elements == Product(OutputDims(c)) * c.batches
      ComplexAxes(s, output) ==
        IF axes THEN Axes(s, c, last - 1, compact, Dense(compact), Dense(compact), output) ELSE s
  IN  Left(c, IF c.kind = "R2C"
              THEN ComplexAxes(RealAxis(Entered(c), ir, elements,
                                        IF axes THEN NoResource ELSE TransformTarget(c)),
                               TransformTarget(c))
              ELSE RealAxis(ComplexAxes(Entered(c), NoResource), ir, elements,
                            TransformTarget(c)))

Unflattened(c) ==
  CASE c.kind = "C2C" /\ Len(c.dims) = 1 -> one_dim_fft(c)
    [] c.kind = "R2R" /\ Len(c.dims) = 1 -> r2r(c)
    [] c.kind \in {"C2C", "R2R"} /\ Len(c.dims) > 1 -> nd_fft(c)
    [] OTHER -> nd_real_fft(c)

=============================================================================
