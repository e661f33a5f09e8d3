----------------------------- MODULE FftProgram -----------------------------
(***************************************************************************)
(* The device of Dispatch executing the program of a transform or of a     *)
(* convolution.                                                            *)
(*                                                                         *)
(* The transforms are linear, so the input of a case ranges over a basis:  *)
(* one element of the input is 1 and the others are 0; in a half spectrum  *)
(* an element that has a mirror image may also be the imaginary unit, and  *)
(* a mirror image inside the half spectrum holds the conjugate.  A         *)
(* convolution that conjugates its input is linear over the reals only:    *)
(* its elements may be the imaginary unit as well.                         *)
(***************************************************************************)
EXTENDS ConvolutionPrograms, Dispatch

CONSTANT Cases      \* a sequence of transforms and convolutions

VARIABLES case,       \* the transform or convolution that is executed
          input       \* <<i, unit>>: element i of its input is unit, the others are 0

callVars == <<case, input>>
vars == <<callVars, deviceVars>>

\* The transforms whose input and output are those of the program.
Entry(c) == IF IsConvolution(c) THEN c.forward ELSE c
Exit(c) == IF IsConvolution(c) THEN c.inverse ELSE c

InputSize(c) == Product(InputDims(c))
OutputSize(c) == Product(OutputDims(c))

Coordinates(dims, local) == [axis \in DOMAIN dims |-> Coordinate(dims, axis, local)]

\* The spectrum of a real tensor has the conjugate of an element at its mirror image.
Mirror(c, k) == [axis \in DOMAIN k |-> IF c.plans[axis] = Omitted THEN k[axis]
                                       ELSE (c.dims[axis] - k[axis]) % c.dims[axis]]

InputCoordinates(c, i) == Coordinates(InputDims(c), i % InputSize(c))

HasImaginaryPart(c, i) ==
  CASE c.kind = "C2R" -> Mirror(c, InputCoordinates(c, i)) # InputCoordinates(c, i)
    [] IsConvolution(c) -> c.conj /\ c.forward.kind = "C2C"
    [] OTHER -> FALSE

Basis(c) ==
  LET elements == 0 .. Entry(c).batches * InputSize(Entry(c)) - 1
  IN  {<<i, One>> : i \in elements}
        \cup {<<i, ImaginaryUnit>> : i \in {j \in elements : HasImaginaryPart(c, j)}}

\* The elements of the full tensor that are not 0, pairs <<coordinates, value>>.
Support(c, v) ==
  LET k == InputCoordinates(c, v[1])
  IN  {<<k, v[2]>>}
        \cup (IF c.kind = "C2R" /\ Mirror(c, k) # k THEN {<<Mirror(c, k), conj(v[2])>>} ELSE {})

\* The memory of "layout" with the elements Value(batch, local), its gaps Unwritten.
Placed(layout, batches, Value(_, _)) ==
  Written([i \in 0 .. layout.batchStride * batches - 1 |-> Unwritten],
          {<<Address(layout, batch, n), Value(batch, n)>>
           : batch \in 0 .. batches - 1, n \in Locals(layout)})

InputMemory(c, v) ==
  LET Value(batch, n) ==
        LET at == {e \in Support(c, v) : e[1] = Coordinates(InputDims(c), n)}
        IN  IF batch = v[1] \div InputSize(c) /\ at # {} THEN (CHOOSE e \in at : TRUE)[2]
            ELSE Zero
  IN  Placed(InputLayout(c), c.batches, Value)

Init == /\ \E n \in DOMAIN Cases : case = Cases[n]
        /\ input \in Basis(case)
        /\ Submitted(device_program(case),
                     Prepared(device_program(case), InputMemory(Entry(case), input)))

Next == \/ Load(ConvolutionStores(Current, started, memory)) /\ UNCHANGED callVars
        \/ \E w \in DOMAIN inflight : Store(w) /\ UNCHANGED callVars
        \/ NextPass /\ UNCHANGED callVars

Spec == Init /\ [][Next]_vars

-----------------------------------------------------------------------------
\* The weight of input element n in element k of a cosine or sine transform of "len"
\* points (evaluate_bin of src/src/r2r_ir.rs, the definitions of FFTW): twice the
\* cosine or sine of an angle, but once the ends that a reflection does not repeat.
Cosine(t, len, n, k) ==
  LET angle == CASE t.type = 1 -> exp_i(n * k, 2 * (len - 1))
                 [] t.type = 2 -> exp_i((2 * n + 1) * k, 4 * len)
                 [] t.type = 3 -> exp_i(n * (2 * k + 1), 4 * len)
                 [] t.type = 4 -> exp_i((2 * n + 1) * (2 * k + 1), 8 * len)
      once == (t.type \in {1, 3} /\ n = 0) \/ (t.type = 1 /\ n = len - 1)
  IN  IF once THEN RealPart(angle) ELSE Doubled(RealPart(angle))

Sine(t, len, n, k) ==
  LET angle == CASE t.type = 1 -> exp_i((n + 1) * (k + 1), 2 * (len + 1))
                 [] t.type = 2 -> exp_i((2 * n + 1) * (k + 1), 4 * len)
                 [] t.type = 3 -> exp_i((n + 1) * (2 * k + 1), 4 * len)
                 [] t.type = 4 -> exp_i((2 * n + 1) * (2 * k + 1), 8 * len)
      once == t.type = 3 /\ n = len - 1
  IN  IF once THEN ImaginaryPart(angle) ELSE Doubled(ImaginaryPart(angle))

\* The inverse of type 2 is type 3 and the inverse of type 3 is type 2.
Weight(c, len, n, k) ==
  LET t == IF c.direction = "Inverse" /\ c.r2r.type \in {2, 3}
           THEN [c.r2r EXCEPT !.type = 5 - @] ELSE c.r2r
  IN  IF t.family = "Dct" THEN Cosine(t, len, n, k) ELSE Sine(t, len, n, k)

\* The weight of input element n in output element k: the product over the axes that
\* are transformed of a turn or of a cosine or sine; an element stays at its
\* coordinate along the others.
AxesWeight(c, n, k) ==
  LET sign == exponent_sign(c.direction)
      weight[a \in 0 .. Len(c.dims)] ==
        CASE a = 0 -> One
          [] a > 0 /\ c.plans[a] # Omitted ->
               Mul(weight[a - 1],
                   IF c.kind = "R2R" THEN Weight(c, c.dims[a], n[a], k[a])
                   ELSE exp_i(sign * n[a] * k[a], c.dims[a]))
          [] OTHER -> IF n[a] = k[a] THEN weight[a - 1] ELSE Zero
  IN  weight[Len(c.dims)]

\* What a transform along an axis and its inverse multiply by.
AxisPoints(c, len) ==
  CASE c.kind # "R2R" -> len
    [] c.kind = "R2R" /\ c.r2r.type = 1 -> IF c.r2r.family = "Dct" THEN 2 * (len - 1)
                                            ELSE 2 * (len + 1)
    [] OTHER -> 2 * len

TransformedPoints(c) ==
  Product([a \in DOMAIN c.dims |-> IF c.plans[a] = Omitted THEN 1 ELSE AxisPoints(c, c.dims[a])])

\* Whether a coordinate lies in the range [left, right) that an axis treats as 0.
IsPadding(c, k) ==
  \E axis \in DOMAIN k : c.pads[axis] # << >> /\ k[axis] \in c.pads[axis][1] .. c.pads[axis][2] - 1

\* Whether the padded side of the transform is its input: the tensor is spatial before
\* a forward transform and behind an inverse one, a spectrum on the other side.
InputIsPadded(c) ==
  \/ c.domain = "Spatial" /\ c.direction = "Forward"
  \/ c.domain = "Frequency" /\ c.direction = "Inverse"

\* The DFT of the input over the transformed axes (src/src/reference.rs), or its
\* cosine or sine transform, normalised when the plan says so, the padded elements 0.
Transform(c, v) ==
  LET read == {e \in Support(c, v) : ~(InputIsPadded(c) /\ IsPadding(c, e[1]))}
      Value(batch, n) ==
        LET k == Coordinates(OutputDims(c), n)
        IN  IF \/ batch # v[1] \div InputSize(c)
               \/ ~InputIsPadded(c) /\ IsPadding(c, k)
            THEN Zero
            ELSE Scaled(FoldSet(LAMBDA e, partial : Add(partial, Mul(e[2], AxesWeight(c, e[1], k))),
                                Zero, read),
                        c.direction = "Inverse" /\ c.normalize, TransformedPoints(c))
  IN  Placed(OutputLayout(c), c.batches, Value)

\* The circular convolution of the input with the kernels (the direct oracles of the
\* tests of src/src/convolution_ir.rs): for every system, the kernel or else the batch
\* of the input, and for every coordinate, the padded elements 0.
Convolution(c, v) ==
  LET m == InputCoordinates(c.forward, v[1])
      source == v[1] \div InputSize(c.forward)
      Offset(n) == [axis \in DOMAIN m |->
                      (IF c.conj THEN n[axis] + m[axis] ELSE n[axis] - m[axis])
                        % c.forward.dims[axis]]
      Value(batch, local) ==
        LET n == Coordinates(c.forward.dims, local)
            system == batch \div c.coordinates
            j == batch % c.coordinates
            l == source % c.coordinates
            kernel == IF c.kernels > 1 THEN system ELSE 0
        IN  IF \/ c.kernels = 1 /\ system # source \div c.coordinates
               \/ l \notin feeds(c, j)
               \/ IsPadding(c.forward, m) \/ IsPadding(c.forward, n)
            THEN Zero
            ELSE Mul(prepare_sequence(c, v[2]),
                     c.taps[kernel][j, l][Offset(n)])
  IN  Placed(OutputLayout(c.inverse), c.inverse.batches, Value)

Result(c, v) == IF IsConvolution(c) THEN Convolution(c, v) ELSE Transform(c, v)

\* When the last pass has ended, the output holds the transform of the input or its
\* convolution with every kernel, and nothing between the elements of the caller's
\* layout: the decompositions into axes,
\* stages, uploads, children and convolutions, the half-size transforms of real
\* tensors, the extensions and rotations of cosine and sine transforms, the fusions of
\* their boundaries, the copies and the paddings, the single passes that transform,
\* multiply and transform back, and the buffers they go through add up to it.
OutputIsTransform ==
  ~Running => memory[Output] = Result(case, input)

\* The uploads forward of one batch that three uploads convolve with several kernels
\* share the scratch of the systems that follow: it is longer than what they store.
ForwardUploadOfKernels(c) ==
  /\ IsConvolution(c) /\ c.kernels > 1
  /\ Current.kind = "Stockham" /\ Current.ir.direction = "Forward"
  /\ Current.ir.io.kind \in {"ThreeUpload1", "ThreeUpload2"}
  /\ \E p \in DOMAIN passes : passes[p].kind = "ConvolutionStep"

\* The elements of its output that a pass has to store: in the caller's output, every
\* element of the caller's layout.
OutputElementsOf(c) ==
  CASE Current.output = Output ->
         LET layout == OutputLayout(Exit(c))
         IN  {Address(layout, batch, n) : batch \in 0 .. Exit(c).batches - 1,
                                          n \in Locals(layout)}
    [] ForwardUploadOfKernels(c) -> DOMAIN memory[Input]
    [] OTHER -> DOMAIN memory[Current.output]

\* A pass that binds its output write-only stores every element of it, the contract
\* under which memory_plan of program_ir.rs gives it memory that is not cleared.  The
\* forward uploads of several kernels do not keep it, and nothing reads what they
\* leave; they store the whole of their one batch.
OutputsFullyOverwritten == PassFinished => stored = OutputElementsOf(case)

=============================================================================
