------------------------------- MODULE FftIr --------------------------------
(***************************************************************************)
(* From the shape of a one-dimensional transform to the program of passes  *)
(* that computes it: the builders of src/src/recursive_ir.rs, rader_ir.rs  *)
(* and bluestein_ir.rs, and the RecursiveProgramBuilder of program_ir.rs.  *)
(*                                                                         *)
(* A shape is what the planner decided:                                    *)
(*   [node |-> "Stockham", radices]                                        *)
(*   [node |-> "DirectRader", prime, generator]                            *)
(*   [node |-> "FftRader", prime, generator, convolution]                  *)
(*   [node |-> "CooleyTukey", left, right]                                 *)
(* and a plan is a shape with the uploads it is split into (0, 2 or 3), or *)
(* a Bluestein length with the plan of its convolution:                    *)
(*   [algorithm |-> "Recursive", root, uploads, retagged]                  *)
(*   [algorithm |-> "Bluestein", len, convolution]                         *)
(* "retagged" says that the caller's buffers have another scalar type than *)
(* the computation.                                                        *)
(***************************************************************************)
EXTENDS FftPasses, SequencesExt

Input == 1
Output == 2

RECURSIVE Points(_)
Points(shape) ==
  CASE shape.node = "Stockham" -> stage_size(shape.radices, Len(shape.radices))
    [] shape.node \in {"DirectRader", "FftRader"} -> shape.prime
    [] shape.node = "CooleyTukey" -> Points(shape.left) * Points(shape.right)

Length(plan) == IF plan.algorithm = "Bluestein" THEN plan.len ELSE Points(plan.root)

-----------------------------------------------------------------------------
(* Nodes: a shape with its batches, direction and boundary modifiers. *)

IsRecursive(fft, node) == fft.algorithm = "Recursive" /\ fft.root.node = node

\* A Cooley-Tukey root that is not split into uploads takes boundary modifiers.
TakesBoundaries(fft) == IsRecursive(fft, "CooleyTukey") /\ fft.uploads = 0

-----------------------------------------------------------------------------
(* The components of a transform that is split into uploads. *)

\* An FFT-Rader component composes the caller's mapping into its first loads when
\* those are Stockham loads, and gives up the fusion into a Cooley-Tukey child.
RaderUpload(ir, io) ==
  CASE ir.strategy = "GeneratorOrderStockham" ->
         [ir EXCEPT !.io = io,
                    !.forward.root.io = RaderGenerator(ir.len, ir.generator, io)]
    [] ir.strategy = "GeneratorOrderRecursive" ->
         [ir EXCEPT !.io = io, !.strategy = "GatherReversePass",
                    !.forward.root.packIo = Contiguous,
                    !.inverse.root.packMultiply = FALSE,
                    !.inverse.root.modifier = NoModifier]
    [] OTHER -> [ir EXCEPT !.io = io]

map_upload_component(ir, io) ==
  CASE ir.node \in {"Stockham", "DirectRader"} -> [ir EXCEPT !.io = io]
    [] ir.node = "FftRader" -> RaderUpload(ir, io)
    [] ir.node = "CooleyTukey" ->
         [ir EXCEPT !.scatterIo = io,
                    !.packIo = IF io.kind \in {"FourStepRight", "ThreeUpload2"}
                               THEN io ELSE @]

upload_nodes(fft) ==
  LET a == fft.root.leftLen
      upper == fft.root.right
  IN  IF fft.uploads = 2
      THEN <<map_upload_component(upper, FourStepRight(a, fft.root.rightLen)),
             map_upload_component(fft.root.left, FourStepLeft(a, fft.root.rightLen))>>
      ELSE LET io(id) == ThreeUpload(id, a, upper.leftLen, upper.rightLen)
           IN  <<map_upload_component(upper.right, io(2)),
                 map_upload_component(upper.left, io(1)),
                 map_upload_component(fft.root.left, io(0))>>

-----------------------------------------------------------------------------
(* Boundary fusions of a Cooley-Tukey node whose right child is FFT-Rader. *)

fused_inverse_rader(ir) == ir.io = Contiguous /\ IsRecursive(ir.inverse, "Stockham")

fused_inverse_rader_kernel(ir) ==
  LET caller == ir.forward.root.io.caller
  IN  [ir.inverse.root EXCEPT
         !.multiply = TRUE,
         !.modifier = RaderScatter(ir.len, ir.generator, ir.normalize,
                                   IF caller.kind = "CooleyRight" THEN caller
                                   ELSE Contiguous)]

has_fused_recursive_inverse(ir) ==
  /\ ir.io = Contiguous
  /\ IsRecursive(ir.inverse, "CooleyTukey")
  /\ ir.inverse.root.packMultiply
  /\ ir.inverse.root.modifier # NoModifier

fuses_left_stockham(ir) ==
  /\ ir.leftLen \in {2, 3} /\ ir.len <= 128
  /\ ir.modifier = NoModifier /\ ir.scatterIo.kind \in {"Contiguous", "FourStepLeft"}
  /\ ir.left.node = "Stockham" /\ ir.right.node = "FftRader"

mapped_left(ir) ==
  [ir.left EXCEPT !.io = CooleyLeft(ir.leftLen, ir.rightLen, ir.scatterIo)]

fuses_right_rader(ir) ==
  /\ ir.packIo = Contiguous /\ ~ir.packMultiply
  /\ ir.right.strategy = "GeneratorOrderStockham"
  /\ fused_inverse_rader(ir.right)

mapped_right(ir) ==
  LET caller == CooleyRight(ir.leftLen, ir.rightLen)
  IN  [ir.right EXCEPT !.forward.root.io =
                         RaderGenerator(ir.right.len, ir.right.generator, caller)]

-----------------------------------------------------------------------------
(* RecursiveProgramBuilder: resources and passes.  A resource is its number *)
(* of elements and, for a lookup table, its contents.                       *)

add_scratch(b, elements) ==
  [b EXCEPT !.resources = Append(@, [elements |-> elements, table |-> << >>])]

\* Equal tables share one resource.
table_id(b, values) ==
  CHOOSE r \in DOMAIN b.resources : b.resources[r].table = values

add_lut(b, values) ==
  IF \E r \in DOMAIN b.resources : b.resources[r].table = values THEN b
  ELSE [b EXCEPT !.resources =
          Append(@, [elements |-> Cardinality(DOMAIN values), table |-> values])]

Newest(b) == Len(b.resources)

\* What there is to do, in order: a pass, or a transform ("OneDim", "Node") or a
\* Cooley-Tukey node with boundary resources ("Boundaries") to flatten into passes.
Step(kind, ir, input, output, lookup, auxiliary) ==
  [kind |-> kind, ir |-> ir, input |-> input, output |-> output,
   lookup |-> lookup, auxiliary |-> auxiliary]

two_buffer_pass(kind, ir, input, output) ==
  Step(kind, ir, input, output, NoResource, NoResource)

Node(ir, input, output) == two_buffer_pass("Node", ir, input, output)
OneDim(ir, input, output) == two_buffer_pass("OneDim", ir, input, output)

Flattened(b, steps) == [builder |-> b, steps |-> steps]

flatten_rader(b, ir, input, output) ==
  LET elements == (ir.len - 1) * ir.batches
      b1 == add_lut(add_scratch(add_scratch(b, elements), elements), ir.spectrum)
      scratch_a == Newest(b) + 1
      scratch_b == Newest(b) + 2
      lut == table_id(b1, ir.spectrum)
      gathers == ir.strategy = "GatherReversePass"
      gather == IF gathers THEN <<two_buffer_pass("RaderGather", ir, input, scratch_a)>>
                ELSE << >>
      forward == <<OneDim(ir.forward, IF gathers THEN scratch_a ELSE input, scratch_b)>>
      inverse ==
        CASE fused_inverse_rader(ir) ->
               <<Step("Stockham", fused_inverse_rader_kernel(ir), scratch_b, output, lut, input)>>
          [] has_fused_recursive_inverse(ir) ->
               <<Step("Boundaries", ir.inverse.root, scratch_b, output, lut, input)>>
          [] OTHER ->
               <<Step("RaderMultiply", ir, scratch_b, scratch_a, lut, NoResource),
                 OneDim(ir.inverse, scratch_a, scratch_b),
                 Step("RaderScatter", ir, scratch_b, output, NoResource, input)>>
  IN  Flattened(b1, gather \o forward \o inverse)

\* All five steps of a Cooley-Tukey node, each through its own scratch.
flatten_boundaries(b, ir, input, output, lookup, auxiliary) ==
  LET elements == ir.len * ir.batches
      right_input == Newest(b) + 1
      right_output == Newest(b) + 2
      left_input == Newest(b) + 3
      left_output == Newest(b) + 4
  IN  Flattened(
        add_scratch(add_scratch(add_scratch(add_scratch(b, elements), elements), elements),
                    elements),
        <<Step("PackRightInput", ir, input, right_input, lookup, NoResource),
          Node(ir.right, right_input, right_output),
          two_buffer_pass("TwiddleTranspose", ir, right_output, left_input),
          Node(ir.left, left_input, left_output),
          Step("ScatterOutput", ir, left_output, output, NoResource, auxiliary)>>)

flatten_cooley_tukey(b, ir, input, output) ==
  LET elements == ir.len * ir.batches
      first == Newest(b) + 1
      second == Newest(b) + 2
  IN  CASE ~fuses_left_stockham(ir) ->
             flatten_boundaries(b, ir, input, output, NoResource, NoResource)
        [] fuses_left_stockham(ir) /\ ~fuses_right_rader(ir) ->
             Flattened(add_scratch(add_scratch(b, elements), elements),
                       <<two_buffer_pass("PackRightInput", ir, input, first),
                         Node(ir.right, first, second),
                         two_buffer_pass("Stockham", mapped_left(ir), second, output)>>)
        [] OTHER ->
             Flattened(add_scratch(b, elements),
                       <<Node(mapped_right(ir), input, first),
                         two_buffer_pass("Stockham", mapped_left(ir), first, output)>>)

flatten_node(b, ir, input, output) ==
  CASE ir.node = "Stockham" ->
         Flattened(b, <<two_buffer_pass("Stockham", ir, input, output)>>)
    [] ir.node = "DirectRader" ->
         LET b1 == add_lut(b, ir.roots)
         IN  Flattened(b1, <<Step("RaderDirect", ir, input, output,
                                  table_id(b1, ir.roots), NoResource)>>)
    [] ir.node = "FftRader" -> flatten_rader(b, ir, input, output)
    [] ir.node = "CooleyTukey" -> flatten_cooley_tukey(b, ir, input, output)

flatten_bluestein(b, ir, input, output) ==
  LET elements == ir.convolutionLen * ir.batches
      scratch_a == Newest(b) + 1
      scratch_b == Newest(b) + 2
      b1 == add_lut(add_scratch(add_scratch(b, elements), elements), ir.spectrum)
      lut == table_id(b1, ir.spectrum)
      forward == <<two_buffer_pass("BluesteinPreprocess", ir, input, scratch_a),
                   OneDim(ir.forward, scratch_a, scratch_b)>>
      Postprocess(convolution) ==
        two_buffer_pass("BluesteinPostprocess", ir, convolution, output)
      inverse ==
        CASE IsRecursive(ir.inverse, "Stockham") ->
               <<Step("Stockham", [ir.inverse.root EXCEPT !.multiply = TRUE],
                      scratch_b, scratch_a, lut, NoResource),
                 Postprocess(scratch_a)>>
          [] TakesBoundaries(ir.inverse) ->
               <<Step("Boundaries", ir.inverse.root, scratch_b, scratch_a, lut, NoResource),
                 Postprocess(scratch_a)>>
          [] OTHER ->
               <<Step("BluesteinMultiply", ir, scratch_b, scratch_a, lut, NoResource),
                 OneDim(ir.inverse, scratch_a, scratch_b),
                 Postprocess(scratch_b)>>
  IN  Flattened(b1, forward \o inverse)

\* Three uploads pass through the output when its scalar type is the computation's.
flatten_recursive_ir(b, ir, input, output) ==
  LET elements == ir.len * ir.batches
      uploads == upload_nodes(ir)
      scratch == Newest(b) + 1
      scratch_b == Newest(b) + 2
      ThreeUploads(first, second) == <<Node(uploads[1], input, first),
                                       Node(uploads[2], first, second),
                                       Node(uploads[3], second, output)>>
  IN  CASE ir.uploads = 0 -> Flattened(b, <<Node(ir.root, input, output)>>)
        [] ir.uploads = 2 ->
             Flattened(add_scratch(b, elements), <<Node(uploads[1], input, scratch),
                                                   Node(uploads[2], scratch, output)>>)
        [] ir.uploads = 3 /\ ~(ir.retagged /\ output = Output) ->
             Flattened(add_scratch(b, elements), ThreeUploads(output, scratch))
        [] OTHER ->
             Flattened(add_scratch(add_scratch(b, elements), elements),
                       ThreeUploads(scratch, scratch_b))

flatten_one_dim(b, ir, input, output) ==
  IF ir.algorithm = "Bluestein" THEN flatten_bluestein(b, ir, input, output)
                                ELSE flatten_recursive_ir(b, ir, input, output)

RECURSIVE flatten(_, _)
flatten(b, step) ==
  LET AndThen(flattened) == FoldLeft(flatten, flattened.builder, flattened.steps)
  IN  CASE step.kind = "OneDim" ->
             AndThen(flatten_one_dim(b, step.ir, step.input, step.output))
        [] step.kind = "Node" -> AndThen(flatten_node(b, step.ir, step.input, step.output))
        [] step.kind = "Boundaries" ->
             AndThen(flatten_boundaries(b, step.ir, step.input, step.output,
                                        step.lookup, step.auxiliary))
        [] OTHER -> [b EXCEPT !.passes = Append(@, step)]

-----------------------------------------------------------------------------
(* Programs, and their execution one pass after the other. *)

program_ir(ir) ==
  LET external == [elements |-> ir.len * ir.batches, table |-> << >>]
  IN  flatten([resources |-> <<external, external>>, passes |-> << >>],
              OneDim(ir, Input, Output))

\* The contents of every resource before the first pass.
Prepared(program, values) ==
  [r \in DOMAIN program.resources |->
     LET resource == program.resources[r]
     IN  IF r = Input THEN values
         ELSE IF resource.table # << >> THEN resource.table
         ELSE [i \in 0 .. resource.elements - 1 |-> Unwritten]]

\* The output for the input "values".
execute(ir, values) ==
  LET program == program_ir(ir)
  IN  FoldLeft(AfterPass, Prepared(program, values), program.passes)[Output]

-----------------------------------------------------------------------------
(* The builders. *)

\* The FFT-Rader pipeline: which of the gather, the multiplication by the kernel
\* spectrum and the scatter are fused into the two convolution transforms.
RaderPipeline(shape, batches, direction, normalize, forward, inverse, spectrum) ==
  LET generator_mapping == RaderGenerator(shape.prime, shape.generator, Contiguous)
      strategy == CASE IsRecursive(forward, "Stockham") -> "GeneratorOrderStockham"
                    [] TakesBoundaries(forward) -> "GeneratorOrderRecursive"
                    [] OTHER -> "GatherReversePass"
      scatter == RaderScatter(shape.prime, shape.generator, normalize, Contiguous)
  IN  [node |-> "FftRader", len |-> shape.prime, generator |-> shape.generator,
       batches |-> batches, direction |-> direction, normalize |-> normalize,
       io |-> Contiguous, strategy |-> strategy, spectrum |-> spectrum,
       forward |-> CASE strategy = "GeneratorOrderStockham" ->
                          [forward EXCEPT !.root.io = generator_mapping]
                     [] strategy = "GeneratorOrderRecursive" ->
                          [forward EXCEPT !.root.packIo = generator_mapping]
                     [] OTHER -> forward,
       inverse |-> IF strategy = "GeneratorOrderRecursive" /\ TakesBoundaries(inverse)
                   THEN [inverse EXCEPT !.root.packMultiply = TRUE, !.root.modifier = scatter]
                   ELSE inverse]

BluesteinPipeline(plan, batches, direction, normalize, forward, inverse, spectrum) ==
  [algorithm |-> "Bluestein", len |-> plan.len, spectrum |-> spectrum,
   io |-> Contiguous, modifier |-> NoModifier,
   convolutionLen |-> Length(plan.convolution), batches |-> batches,
   direction |-> direction, normalize |-> normalize, forward |-> forward,
   inverse |-> IF TakesBoundaries(inverse)
               THEN [inverse EXCEPT !.root.packMultiply = TRUE] ELSE inverse]

\* The roots of unity of a prime transform in generator order (RaderTable).
RaderRoots(shape, direction) ==
  [e \in 0 .. shape.prime - 2 |->
     exp_i(exponent_sign(direction) * residue_at(shape.prime, shape.generator, e),
           shape.prime)]

\* The kernel of a Bluestein convolution (BluesteinTable): the inverse chirp at
\* every index and, from the end, at its opposite.
BluesteinKernel(plan, direction) ==
  LET convolution_len == Length(plan.convolution)
      InverseChirp(i) == conj(Chirp(plan.len, direction, i))
  IN  [i \in 0 .. convolution_len - 1 |->
         CASE i < plan.len -> InverseChirp(i)
           [] convolution_len - i < plan.len -> InverseChirp(convolution_len - i)
           [] OTHER -> Zero]

\* The spectrum of a convolution kernel is computed on the host, by the same passes.
RECURSIVE build_node(_, _, _, _), build(_, _, _, _)

build_node(shape, batches, direction, normalize) ==
  CASE shape.node = "Stockham" ->
         [node |-> "Stockham", len |-> Points(shape), radices |-> shape.radices,
          batches |-> batches, direction |-> direction,
          normalize |-> direction = "Inverse" /\ normalize,
          io |-> Contiguous, multiply |-> FALSE, modifier |-> NoModifier]
    [] shape.node = "DirectRader" ->
         [node |-> "DirectRader", len |-> shape.prime, generator |-> shape.generator,
          batches |-> batches, direction |-> direction,
          normalize |-> direction = "Inverse" /\ normalize, io |-> Contiguous,
          roots |-> RaderRoots(shape, direction)]
    [] shape.node = "FftRader" ->
         RaderPipeline(shape, batches, direction, direction = "Inverse" /\ normalize,
                       build(shape.convolution, batches, "Forward", FALSE),
                       build(shape.convolution, batches, "Inverse", TRUE),
                       execute(build(shape.convolution, 1, "Forward", FALSE),
                               RaderRoots(shape, direction)))
    [] shape.node = "CooleyTukey" ->
         LET left_len == Points(shape.left)
             right_len == Points(shape.right)
         IN  [node |-> "CooleyTukey", len |-> left_len * right_len,
              leftLen |-> left_len, rightLen |-> right_len,
              batches |-> batches, direction |-> direction,
              right |-> build_node(shape.right, batches * left_len, direction, normalize),
              left |-> build_node(shape.left, batches * right_len, direction, normalize),
              packIo |-> Contiguous, packMultiply |-> FALSE,
              scatterIo |-> Contiguous, modifier |-> NoModifier]

build(plan, batches, direction, normalize) ==
  IF plan.algorithm = "Recursive"
  THEN [algorithm |-> "Recursive", uploads |-> plan.uploads, retagged |-> plan.retagged,
        len |-> Length(plan), batches |-> batches,
        root |-> build_node(plan.root, batches, direction, normalize)]
  ELSE BluesteinPipeline(plan, batches, direction, direction = "Inverse" /\ normalize,
                         build(plan.convolution, batches, "Forward", FALSE),
                         build(plan.convolution, batches, "Inverse", TRUE),
                         execute(build(plan.convolution, 1, "Forward", FALSE),
                                 BluesteinKernel(plan, direction)))

=============================================================================
