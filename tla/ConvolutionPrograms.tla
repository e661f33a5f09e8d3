------------------------ MODULE ConvolutionPrograms -------------------------
(***************************************************************************)
(* Convolution with kernels whose spectra the caller supplies: the         *)
(* pipelines of src/src/convolution_ir.rs and their programs               *)
(* (ProgramIr::convolution, nd_convolution and nd_real_convolution of      *)
(* src/src/program_ir.rs).                                                 *)
(*                                                                         *)
(* A convolution is a record of                                            *)
(*   kind         "Convolution"                                            *)
(*   forward      the transform of its input, a record of TensorPrograms,  *)
(*                one for each batch and coordinate                        *)
(*   inverse      the transform of its output, one for each system         *)
(*   batches, coordinates, kernels                                         *)
(*   layout       "Scalar", "Independent", "Matrix" or "Symmetric": which  *)
(*                coordinates of the input an output coordinate takes      *)
(*   conj         the input's spectrum is conjugated                       *)
(*   fused        the device's shared memory and register schedule admit   *)
(*                the single pass for both transforms and the product      *)
(*   wide         it computes with F64                                     *)
(*   mixed        the caller's buffers have another scalar type            *)
(*   taps         the kernels: an element for each kernel, output and      *)
(*                input coordinate                                         *)
(*   spectrum     their spectra, kernel after kernel, plane after plane    *)
(* With several kernels one batch becomes a system for each kernel.        *)
(***************************************************************************)
EXTENDS TensorPrograms

IsConvolution(c) == c.kind = "Convolution"

output_batch_count(c) == IF c.kernels > 1 THEN c.kernels ELSE c.batches

\* What the passes that multiply know of the convolution; "size" is the number of
\* elements of a spectrum, a half spectrum for a real tensor.
multiply_ir(c) ==
  [layout |-> c.layout, coordinates |-> c.coordinates, kernels |-> c.kernels,
   conj |-> c.conj, size |-> Product(OutputDims(c.forward)), batches |-> output_batch_count(c)]

-----------------------------------------------------------------------------
(* The pointwise product of a spectrum with the kernels.  *)

is_matrix(c) == c.layout \in {"Matrix", "Symmetric"}

kernel_plane_count(c) ==
  CASE c.layout = "Scalar" -> 1
    [] c.layout = "Independent" -> c.coordinates
    [] c.layout = "Matrix" -> c.coordinates * c.coordinates
    [] c.layout = "Symmetric" -> (c.coordinates * (c.coordinates + 1)) \div 2

\* The plane that takes input coordinate l to output coordinate j; a symmetric
\* matrix stores its upper triangle, row after row.
kernel_plane_index(c, j, l) ==
  LET low == IF l < j THEN l ELSE j
      high == IF l < j THEN j ELSE l
  IN  CASE c.layout = "Scalar" -> 0
        [] c.layout = "Independent" -> j
        [] c.layout = "Matrix" -> j * c.coordinates + l
        [] c.layout = "Symmetric" -> low * c.coordinates - low * low + high

\* The input coordinates that output coordinate j takes.
feeds(c, j) == IF is_matrix(c) THEN 0 .. c.coordinates - 1 ELSE {j}

prepare_sequence(c, value) == IF c.conj THEN conj(value) ELSE value

\* Element "bin" of output coordinate j for a kernel, from the same element of each
\* input coordinate, spectra[l].
product_at(c, kernel, j, bin, spectra, kernels) ==
  FoldSet(LAMBDA l, partial :
            LET plane == kernel * kernel_plane_count(c) + kernel_plane_index(c, j, l)
            IN  Add(partial, Mul(prepare_sequence(c, spectra[l]),
                                 At(kernels, plane * c.size + bin))),
          Zero, feeds(c, j))

Systems(c) == 0 .. c.coordinates - 1

\* A workgroup for each output batch, or for each kernel of the only input batch.
ConvolutionMultiply(c, workgroup, input, kernels) ==
  LET kernel == IF c.kernels > 1 THEN workgroup ELSE 0
      batch == IF c.kernels > 1 THEN 0 ELSE workgroup
      size == c.size
  IN  {<<(workgroup * c.coordinates + j) * size + bin,
         product_at(c, kernel, j, bin,
                    [l \in Systems(c) |-> At(input, (batch * c.coordinates + l) * size + bin)],
                    kernels)>>
       : j \in Systems(c), bin \in 0 .. size - 1}

-----------------------------------------------------------------------------
(* Both transforms of a line and the product between them in one workgroup. *)

\* Op of every element of a sequence, evaluated once.
Each(Op(_), s) == FoldLeft(LAMBDA done, x : Append(done, Op(x)), << >>, s)

Indices(n) == [i \in 1 .. n |-> i - 1]

\* The elements 0 .. n - 1 from the pairs that a transform stores.
Line(stores, n) == Written([i \in 0 .. n - 1 |-> Unwritten], stores)

\* A prime transform with its convolution inside.
FftRaderLine(node, source, lookup) ==
  LET spectrum == Line(Stockham(node.forward.root, 0, source, << >>, << >>), node.len - 1)
  IN  Stockham(fused_inverse_rader_kernel(node), 0, spectrum, lookup, source)

\* The transform of a line by a node that a fused step takes, not normalised.
LineTransform(node, source, lookup) ==
  LET ir == [node EXCEPT !.io = Contiguous, !.normalize = FALSE]
  IN  Line(CASE ir.node = "Stockham" -> Stockham(ir, 0, source, << >>, << >>)
             [] ir.node = "DirectRader" -> RaderDirect(ir, 0, source, lookup)
             [] ir.node = "FftRader" -> FftRaderLine(ir, source, lookup),
           ir.len)

\* The inverse turns by the conjugates of the roots of a direct prime transform, and
\* has a kernel spectrum of its own for one by convolution.
InverseTable(ir, memory, forward_table) ==
  IF ir.inverse.node = "DirectRader"
  THEN [i \in DOMAIN forward_table |-> conj(forward_table[i])]
  ELSE IF ir.inverseTable = NoResource THEN << >> ELSE memory[ir.inverseTable]

\* The element of the spectrum that element i of a line of the last upload is.
SpectrumBin(ir, batch, i) ==
  output_index(ir.forward.io, ir.forward.len, batch, i) % ir.multiply.size

\* The spectra of the lines of a batch, one for each coordinate.
InputSpectra(pass, batch, memory, table) ==
  LET ir == pass.ir
      len == ir.forward.len
      InputLine(l) ==
        LineTransform(ir.forward,
          [i \in 0 .. len - 1 |->
             At(memory[pass.input], (batch * ir.multiply.coordinates + l) * len + i)], table)
  IN  Each(InputLine, Indices(ir.multiply.coordinates))

\* A workgroup transforms a line of every coordinate, multiplies it at the places it
\* has in the spectrum, and transforms the products for every kernel back.
ConvolutionStep(pass, batch, memory) ==
  LET ir == pass.ir
      c == ir.multiply
      len == ir.forward.len
      table == IF pass.auxiliary = NoResource THEN << >> ELSE memory[pass.auxiliary]
      spectra == InputSpectra(pass, batch, memory, table)
      \* The systems of a batch in the order of the output, kernel after kernel.
      OutputLine(system) ==
        LineTransform(ir.inverse,
          [i \in 0 .. len - 1 |->
             product_at(c, system \div c.coordinates, system % c.coordinates,
                        SpectrumBin(ir, batch, i),
                        [l \in Systems(c) |-> spectra[l + 1][i]], memory[pass.lookup])],
          InverseTable(ir, memory, table))
      lines == Each(OutputLine, Indices(c.kernels * c.coordinates))
  IN  {<<(((system \div c.coordinates) * ir.batches + batch) * c.coordinates
            + (system % c.coordinates)) * len + i,
         Shrink(lines[system + 1][i], c.size)>>
       : system \in 0 .. c.kernels * c.coordinates - 1, i \in 0 .. len - 1}

ConvolutionStores(pass, batch, memory) ==
  CASE pass.kind = "ConvolutionMultiply" ->
         ConvolutionMultiply(pass.ir, batch, memory[pass.input],
                             memory[pass.lookup])
    [] pass.kind = "ConvolutionStep" -> ConvolutionStep(pass, batch, memory)
    [] OTHER -> TensorStores(pass, batch, memory)

-----------------------------------------------------------------------------
(* Programs of one axis. *)

\* The transforms whose single pass the device and the pipeline admit.
FusesStockham(c, root) ==
  root.node = "Stockham" /\ c.layout = "Scalar" /\ c.kernels = 1 /\ ~c.wide

FusesMultiKernelStockham(c, root) ==
  root.node = "Stockham" /\ c.layout = "Scalar" /\ c.kernels > 1 /\ c.batches = 1

FusesMatrixStockham(c, root) ==
  root.node = "Stockham" /\ is_matrix(c) /\ c.batches = 1

FusesDirectRader(c, root) ==
  root.node = "DirectRader" /\ c.layout = "Scalar" /\ c.batches = 1

FusesFftRader(c, root) ==
  /\ root.node = "FftRader" /\ c.layout = "Scalar" /\ c.batches = 1
  /\ root.strategy = "GeneratorOrderStockham" /\ fused_inverse_rader(root)

FusesNode(c, fft) ==
  /\ c.fused /\ fft.algorithm = "Recursive" /\ fft.uploads = 0
  /\ \/ FusesStockham(c, fft.root)
     \/ FusesMultiKernelStockham(c, fft.root)
     \/ FusesMatrixStockham(c, fft.root)
     \/ FusesDirectRader(c, fft.root)
     \/ FusesFftRader(c, fft.root)

\* Uploads of Stockham transforms only.
FusesTwoUploads(c, fft) ==
  /\ c.fused /\ c.layout = "Scalar" /\ fft.algorithm = "Recursive" /\ fft.uploads = 2
  /\ \A n \in 1 .. 2 : upload_nodes(fft)[n].node = "Stockham"

FusesThreeUploads(c, fft) ==
  /\ c.fused /\ c.layout = "Scalar" /\ fft.algorithm = "Recursive" /\ fft.uploads = 3
  /\ ~c.wide
  /\ \A n \in 1 .. 3 : upload_nodes(fft)[n].node = "Stockham"

StepPass(c, forward, inverse, input, output, kernel, table, inverse_table) ==
  Step("ConvolutionStep",
       [multiply |-> multiply_ir(c), forward |-> forward, inverse |-> inverse,
        batches |-> forward.batches \div c.coordinates, inverseTable |-> inverse_table],
       input, output, kernel, table)

MultiplyPass(c, input, output, kernel) ==
  Step("ConvolutionMultiply", multiply_ir(c), input, output, kernel, NoResource)

InputElements(c) == Externals(c.forward).resources[Input].elements
OutputElements(c) == Externals(c.inverse).resources[Output].elements

\* One pass from the input to the output, behind the tables of its transforms.
direct_rader_step(c, b, kernel, forward, inverse) ==
  LET b1 == add_lut(b, forward.roots)
  IN  Then(b1, StepPass(c, forward, inverse, Input, Output, kernel,
                        table_id(b1, forward.roots), NoResource))

fft_rader_step(c, b, kernel, forward, inverse) ==
  LET b1 == add_lut(add_lut(b, forward.spectrum), inverse.spectrum)
  IN  Then(b1, StepPass(c, forward, inverse, Input, Output, kernel,
                        table_id(b1, forward.spectrum), table_id(b1, inverse.spectrum)))

fused_step(c, b, kernel, forward, inverse) ==
  CASE forward.node = "Stockham" ->
         Then(b, StepPass(c, forward, inverse, Input, Output, kernel, NoResource, NoResource))
    [] forward.node = "DirectRader" -> direct_rader_step(c, b, kernel, forward, inverse)
    [] forward.node = "FftRader" -> fft_rader_step(c, b, kernel, forward, inverse)

\* An inverse upload that reads the products: it turns as it reads, not as it stores,
\* and the fused pass has normalised.
with_pre_twiddle(node, stride, line) ==
  [node EXCEPT !.io = PreTwiddle(stride, line), !.normalize = FALSE]

\* The last upload forward, the product and the first upload back are one pass.
fused_two_upload(c, b, kernel, forward, inverse) ==
  LET up == upload_nodes(forward)
      down == upload_nodes(inverse)
      forward_mid == Newest(b) + 1
      inverse_mid == Newest(b) + 2
      b1 == add_scratch(add_scratch(b, InputElements(c)), OutputElements(c))
  IN  FoldLeft(Then, b1,
        <<Node(up[1], Input, forward_mid),
          StepPass(c, up[2], down[2], forward_mid, inverse_mid, kernel, NoResource, NoResource),
          Node(with_pre_twiddle(down[1], forward.root.leftLen, forward.len),
               inverse_mid, Output)>>)

\* With one kernel the output has as many elements as the input.
fused_three_upload(c, b, kernel, forward, inverse) ==
  LET up == upload_nodes(forward)
      down == upload_nodes(inverse)
      a == forward.root.leftLen
      ab == a * forward.root.right.leftLen
      scratch_a == Newest(b) + 1
      scratch_b == Newest(b) + 2
      b1 == add_scratch(add_scratch(b, OutputElements(c)), OutputElements(c))
  IN  FoldLeft(Then, b1,
        <<Node(up[1], Input, scratch_a),
          Node(up[2], scratch_a, scratch_b),
          StepPass(c, up[3], down[3], scratch_b, scratch_a, kernel, NoResource, NoResource),
          Node(with_pre_twiddle(down[2], a, ab), scratch_a, scratch_b),
          Node(with_pre_twiddle(down[1], ab, forward.len), scratch_b, Output)>>)

\* The inverse multiplies as it reads when it is one Stockham pass.
FusesProduct(c, inverse) ==
  c.layout = "Scalar" /\ c.kernels = 1 /\ ~c.conj /\ IsRecursive(inverse, "Stockham")

separate_passes(c, b, kernel, forward, inverse) ==
  LET b1 == add_scratch(b, InputElements(c))
      forward_spectrum == Newest(b1)
      transformed == Then(b1, OneDim(forward, Input, forward_spectrum))
      b2 == add_scratch(transformed, OutputElements(c))
  IN  IF FusesProduct(c, inverse)
      THEN Then(transformed, Step("Stockham", [inverse.root EXCEPT !.multiply = TRUE],
                                  forward_spectrum, Output, kernel, NoResource))
      ELSE FoldLeft(Then, b2, <<MultiplyPass(c, forward_spectrum, Newest(b2), kernel),
                                OneDim(inverse, Newest(b2), Output)>>)

\* The caller's buffers have another scalar type: copies around the separate passes.
mixed_passes(c, b, kernel, forward, inverse) ==
  LET input_compute == Newest(b) + 1
      output_compute == Newest(b) + 2
      forward_spectrum == Newest(b) + 3
      multiplied_spectrum == Newest(b) + 4
      b1 == FoldLeft(add_scratch, b, <<InputElements(c), OutputElements(c),
                                       InputElements(c), OutputElements(c)>>)
  IN  FoldLeft(Then, b1,
        <<two_buffer_pass("GatherExternalToDense", CopyIr(c.forward, InputLayout(c.forward)),
                          Input, input_compute),
          OneDim(forward, input_compute, forward_spectrum),
          MultiplyPass(c, forward_spectrum, multiplied_spectrum, kernel),
          OneDim(inverse, multiplied_spectrum, output_compute),
          two_buffer_pass("ScatterDenseToExternal", CopyIr(c.inverse, OutputLayout(c.inverse)),
                          output_compute, Output)>>)

ConvolutionExternals(c) ==
  [resources |-> <<Externals(c.forward).resources[Input], Externals(c.inverse).resources[Output]>>,
   passes |-> << >>]

\* "forward" and "inverse" are the transforms of the only axis.
one_dim_convolution(c, forward, inverse) ==
  LET b == add_lut(ConvolutionExternals(c), c.spectrum)
      kernel == table_id(b, c.spectrum)
  IN  CASE c.mixed -> mixed_passes(c, b, kernel, forward, inverse)
        [] ~c.mixed /\ FusesNode(c, forward) ->
             fused_step(c, b, kernel, forward.root, inverse.root)
        [] ~c.mixed /\ FusesTwoUploads(c, forward) ->
             fused_two_upload(c, b, kernel, forward, inverse)
        [] ~c.mixed /\ FusesThreeUploads(c, forward) ->
             fused_three_upload(c, b, kernel, forward, inverse)
        [] OTHER -> separate_passes(c, b, kernel, forward, inverse)

-----------------------------------------------------------------------------
(* Programs of several axes, from the programs of the two transforms. *)

\* A child's external resources become two of the parent's; its others are added.
append_child(b, child, input, output) ==
  LET Renamed(r) == CASE r = NoResource -> NoResource
                      [] r = Input -> input
                      [] r = Output -> output
                      [] OTHER -> r - Output + Len(b.resources)
  IN  [resources |-> b.resources \o SubSeq(child.resources, Output + 1, Len(child.resources)),
       passes |-> b.passes \o
         [n \in DOMAIN child.passes |->
            [child.passes[n] EXCEPT !.input = Renamed(@), !.output = Renamed(@),
                                    !.lookup = Renamed(@), !.auxiliary = Renamed(@)]]]

nd_convolution(c, forward, inverse) ==
  LET b == add_lut(ConvolutionExternals(c), c.spectrum)
      b1 == add_scratch(add_scratch(b, forward.resources[Output].elements),
                        inverse.resources[Input].elements)
      kernel == Newest(b)
      transformed == append_child(b1, forward, Input, kernel + 1)
  IN  append_child(Then(transformed, MultiplyPass(c, kernel + 1, kernel + 2, kernel)),
                   inverse, kernel + 2, Output)

\* The transforms that a program consists of, built; their programs, not yet flat; and
\* the program that they make up.
Parts(c) == IF IsConvolution(c) THEN <<c.forward, c.inverse>> ELSE <<c>>

HasOneAxis(c) == IsConvolution(c) /\ Len(c.forward.dims) = 1

Builders(c, built) ==
  IF HasOneAxis(c)
  THEN <<one_dim_convolution(c, built[1].transforms[1], built[2].transforms[1])>>
  ELSE Each(Unflattened, built)

Joined(c, programs) ==
  IF IsConvolution(c) /\ ~HasOneAxis(c) THEN nd_convolution(c, programs[1], programs[2])
  ELSE programs[1]

device_program(c) ==
  Joined(c, Each(Flatten, Builders(c, Each(WithTransforms, Parts(c)))))

=============================================================================
