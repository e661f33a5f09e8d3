---------------------------- MODULE MCFftProgram ----------------------------
(* Plans small enough to execute for every unit vector. *)
EXTENDS FftProgram

MCRoot == <<16, 2362>>

Leaf(radices) == [node |-> "Stockham", radices |-> radices]
Direct(p, g) == [node |-> "DirectRader", prime |-> p, generator |-> g]
Convolved(p, g, plan) ==
  [node |-> "FftRader", prime |-> p, generator |-> g, convolution |-> plan]
Cooley(l, r) == [node |-> "CooleyTukey", left |-> l, right |-> r]

Uploads(n, root) ==
  [algorithm |-> "Recursive", root |-> root, uploads |-> n, retagged |-> FALSE]
Retagged(n, root) == [Uploads(n, root) EXCEPT !.retagged = TRUE]
Whole(root) == Uploads(0, root)
Bluestein(n, plan) == [algorithm |-> "Bluestein", len |-> n, convolution |-> plan]

Two == Leaf(<<2>>)
Three == Leaf(<<3>>)
Rader3 == Convolved(3, 2, Whole(Two))
Rader5 == Convolved(5, 2, Whole(Leaf(<<2, 2>>)))
Rader7(convolution) == Convolved(7, 3, convolution)

\* Transforms with the caller's tensors dense.
Tensor(kind, dims, plans, direction, batches) ==
  LET in == IF kind = "C2R" THEN Compact(dims) ELSE dims
      out == IF kind = "R2C" THEN Compact(dims) ELSE dims
  IN  [kind |-> kind, dims |-> dims, plans |-> plans, even |-> FALSE,
       direction |-> direction, batches |-> batches, normalize |-> TRUE,
       pads |-> [axis \in DOMAIN dims |-> << >>], domain |-> "Spatial", mixed |-> FALSE,
       inStrides |-> dense_axis_strides(in), inBatch |-> Product(in),
       outStrides |-> dense_axis_strides(out), outBatch |-> Product(out)]

Case(plan, direction, batches, normalize) ==
  [Tensor("C2C", <<Length(plan)>>, <<plan>>, direction, batches)
     EXCEPT !.normalize = normalize]

Both(plan, batches) == <<Case(plan, "Forward", batches, TRUE),
                         Case(plan, "Inverse", batches, TRUE)>>

Unscaled(plan) == <<Case(plan, "Inverse", 1, FALSE)>>

\* Stockham transforms, whole and in uploads.
StockhamCases ==
     Both(Whole(Leaf(<<4, 3>>)), 2)
  \o Both(Uploads(2, Cooley(Three, Leaf(<<2, 2>>))), 2)
  \o Both(Uploads(3, Cooley(Two, Cooley(Three, Two))), 2)
  \o Both(Retagged(3, Cooley(Three, Cooley(Two, Two))), 1)
  \o Both(Whole(Cooley(Two, Cooley(Three, Two))), 2)

\* Prime factors, with the fusions their neighbours allow.
RaderCases ==
     Both(Whole(Cooley(Two, Direct(5, 2))), 1)
  \o Both(Whole(Cooley(Two, Rader3)), 2)
  \o Both(Whole(Cooley(Rader3, Rader5)), 1)
  \o Both(Whole(Rader7(Whole(Leaf(<<3, 2>>)))), 2)
  \o Both(Whole(Rader7(Whole(Cooley(Two, Three)))), 2)
  \o Both(Whole(Rader7(Whole(Cooley(Two, Rader3)))), 1)
  \o Both(Whole(Rader7(Uploads(2, Cooley(Two, Three)))), 1)
  \o Both(Whole(Rader7(Bluestein(6, Whole(Leaf(<<4, 3>>))))), 1)

\* Prime factors inside uploads.
RaderUploadCases ==
     Both(Uploads(2, Cooley(Rader3, Direct(5, 2))), 1)
  \o Both(Uploads(2, Cooley(Direct(3, 2), Rader5)), 1)
  \o Both(Uploads(2, Cooley(Cooley(Two, Rader3), Two)), 1)
  \o Both(Uploads(2, Cooley(Two, Cooley(Two, Rader3))), 1)
  \o Both(Uploads(2, Cooley(Two, Rader7(Whole(Cooley(Two, Three))))), 1)
  \o Both(Uploads(3, Cooley(Two, Cooley(Two, Direct(5, 2)))), 1)
  \o Both(Uploads(3, Cooley(Rader5, Cooley(Direct(3, 2), Two))), 1)
  \o Both(Uploads(3, Cooley(Two, Cooley(Cooley(Two, Two), Rader3))), 1)

BluesteinCases ==
     Both(Bluestein(3, Whole(Leaf(<<2, 3>>))), 2)
  \o Both(Bluestein(3, Whole(Cooley(Two, Three))), 1)
  \o Both(Bluestein(3, Whole(Cooley(Two, Rader3))), 1)
  \o Both(Bluestein(3, Uploads(2, Cooley(Three, Two))), 1)
  \o Both(Bluestein(3, Uploads(3, Cooley(Two, Cooley(Two, Two)))), 1)
  \o Both(Bluestein(5, Whole(Leaf(<<4, 3>>))), 1)

UnscaledCases ==
     Unscaled(Uploads(2, Cooley(Three, Leaf(<<2, 2>>))))
  \o Unscaled(Whole(Cooley(Two, Rader3)))
  \o Unscaled(Whole(Rader7(Whole(Cooley(Two, Three)))))
  \o Unscaled(Uploads(2, Cooley(Two, Rader7(Whole(Cooley(Two, Three))))))
  \o Unscaled(Bluestein(3, Whole(Cooley(Two, Three))))

-----------------------------------------------------------------------------
(* Real transforms of one axis: by a complex transform of the same length, or of *)
(* half of it ("even").                                                          *)

Mixed(cases) == [n \in DOMAIN cases |-> [cases[n] EXCEPT !.mixed = TRUE]]
Unnormalized(cases) == [n \in DOMAIN cases |-> [cases[n] EXCEPT !.normalize = FALSE]]
Padding(pads, domain, cases) ==
  [n \in DOMAIN cases |-> [cases[n] EXCEPT !.pads = pads, !.domain = domain]]

Real(dims, plans, even, batches) ==
  <<[Tensor("R2C", dims, plans, "Forward", batches) EXCEPT !.even = even],
    [Tensor("C2R", dims, plans, "Inverse", batches) EXCEPT !.even = even]>>

Half(plan, batches) == Real(<<2 * Length(plan)>>, <<plan>>, TRUE, batches)
Full(plan, batches) == Real(<<Length(plan)>>, <<plan>>, FALSE, batches)

HalfStockham == Half(Whole(Leaf(<<2, 2>>)), 2)
HalfRecursive == Half(Whole(Cooley(Three, Two)), 1)
HalfBluestein == Half(Bluestein(3, Whole(Leaf(<<2, 3>>))), 2)

RealCases ==
     HalfStockham \o HalfRecursive \o HalfBluestein
  \o Full(Whole(Three), 2) \o Full(Whole(Cooley(Two, Two)), 1)
  \o Full(Bluestein(5, Whole(Leaf(<<4, 3>>))), 1)
  \o Half(Whole(Cooley(Two, Rader3)), 1)
  \o Half(Whole(Direct(5, 2)), 1)
  \o Half(Whole(Rader5), 1)
  \o Half(Uploads(2, Cooley(Three, Two)), 1)
  \o Half(Uploads(3, Cooley(Two, Cooley(Two, Two))), 1)
  \o Half(Bluestein(3, Whole(Cooley(Two, Three))), 1)
  \o Half(Bluestein(3, Uploads(2, Cooley(Three, Two))), 1)
  \o Mixed(HalfStockham \o HalfRecursive \o HalfBluestein \o Full(Whole(Three), 2))
  \o Unnormalized(Tail(HalfStockham) \o Tail(HalfRecursive) \o Tail(Full(Whole(Three), 2)))
  \o Padding(<<<<2, 5>>>>, "Spatial", HalfStockham \o Mixed(HalfBluestein))
  \o Padding(<<<<1, 2>>>>, "Spatial", Full(Whole(Three), 2))

-----------------------------------------------------------------------------
(* Tensors: omitted axes, the caller's layouts, padding. *)

Complex(dims, plans, batches) ==
  <<Tensor("C2C", dims, plans, "Forward", batches), Tensor("C2C", dims, plans, "Inverse", batches)>>

Layouts(in, inBatch, out, outBatch, cases) ==
  [n \in DOMAIN cases |->
     [cases[n] EXCEPT !.inStrides = in, !.inBatch = inBatch,
                      !.outStrides = out, !.outBatch = outBatch]]

WTwo == Whole(Two)
WThree == Whole(Three)
TwoByThree(batches) == Complex(<<2, 3>>, <<WTwo, WThree>>, batches)

\* Columns first with a gap behind each batch in the input, rows with a pitch of 4
\* in the output.
Formatted(cases) == Layouts(<<1, 2>>, 7, <<4, 1>>, 8, cases)

ComplexTensorCases ==
     TwoByThree(2)
  \o Formatted(TwoByThree(2))
  \o Complex(<<2, 3, 2>>, <<WTwo, WThree, WTwo>>, 1)
  \o Complex(<<3, 2>>, <<Bluestein(3, Whole(Leaf(<<2, 3>>))), WTwo>>, 1)
  \o Complex(<<2, 6>>, <<WTwo, Uploads(2, Cooley(Three, Two))>>, 1)
  \o Formatted(Complex(<<2, 3>>, <<Omitted, WThree>>, 2))
  \o Formatted(Complex(<<2, 3>>, <<WTwo, Omitted>>, 1))
  \o Padding(<<<< >>, <<1, 3>>>>, "Spatial", TwoByThree(1) \o Formatted(TwoByThree(2)))
  \o Padding(<<<<0, 1>>, <<1, 2>>>>, "Frequency", TwoByThree(1) \o Formatted(TwoByThree(2)))
  \o Padding(<<<<2, 4>>>>, "Spatial", Both(Whole(Leaf(<<3, 2>>)), 2))
  \o Padding(<<<<1, 4>>>>, "Frequency",
             Both(Whole(Leaf(<<2, 2>>)), 2) \o Both(Retagged(3, Cooley(Two, Cooley(Two, Two))), 1))

\* A half spectrum has 2 elements for a row of 3 and 3 for a row of 4.
OddRows(batches) == Real(<<2, 3>>, <<WTwo, WThree>>, FALSE, batches)
EvenRows(batches) == Real(<<3, 4>>, <<WThree, WTwo>>, TRUE, batches)

FormattedOddRows(batches) ==
  LET rows == OddRows(batches)
  IN  Layouts(<<1, 2>>, 7, <<3, 1>>, 6, <<rows[1]>>)
        \o Layouts(<<1, 2>>, 5, <<4, 1>>, 8, <<rows[2]>>)

FormattedEvenRows(batches) ==
  LET rows == EvenRows(batches)
  IN  Layouts(<<5, 1>>, 15, <<1, 3>>, 10, <<rows[1]>>)
        \o Layouts(<<4, 1>>, 12, <<1, 3>>, 13, <<rows[2]>>)

RealTensorCases ==
     OddRows(2) \o EvenRows(2)
  \o FormattedOddRows(2) \o FormattedEvenRows(1)
  \o Mixed(EvenRows(1) \o FormattedOddRows(1))
  \o Real(<<2, 2, 4>>, <<WTwo, Omitted, WTwo>>, TRUE, 1)
  \o Mixed(Real(<<2, 4>>, <<Omitted, WTwo>>, TRUE, 2))
  \o Padding(<<<< >>, <<1, 3>>>>, "Spatial",
             OddRows(1) \o EvenRows(1) \o FormattedOddRows(2) \o Mixed(FormattedEvenRows(1)))
  \o Unnormalized(Tail(EvenRows(1)))

-----------------------------------------------------------------------------
(* Cosine and sine transforms by complex transforms of their own lengths. *)

R2r(family, type) == [family |-> family, type |-> type]

R2rTensor(t, dims, plans, batches) ==
  LET Sided(direction) == Tensor("R2R", dims, plans, direction, batches) @@ [r2r |-> t]
  IN  <<Sided("Forward"), Sided("Inverse")>>

\* The shape of a complex transform of n points.
PlanOf(n) == Whole(CASE n = 6 -> Cooley(Two, Three)
                     [] n = 8 -> Leaf(<<4, 2>>)
                     [] n = 10 -> Cooley(Two, Leaf(<<5>>))
                     [] OTHER -> Leaf(<<n>>))

R2rLine(t, n, batches) ==
  R2rTensor(t, <<n>>, <<PlanOf(fft_len(t, n))>>, batches)

Families(type, n, batches) ==
  R2rLine(R2r("Dct", type), n, batches) \o R2rLine(R2r("Dst", type), n, batches)

R2rPlane(t, inner) ==
  R2rTensor(t, <<2, inner>>, <<PlanOf(fft_len(t, 2)), PlanOf(fft_len(t, inner))>>, 1)

R2rCases ==
     Families(1, 4, 2) \o Families(2, 4, 1) \o Families(3, 4, 1) \o Families(4, 4, 2)
  \o Families(2, 5, 2) \o Families(3, 5, 1) \o Families(4, 5, 1) \o Families(4, 3, 2)
  \o R2rLine(R2r("Dct", 1), 2, 1)
  \o R2rTensor(R2r("Dct", 2), <<3>>, <<Bluestein(3, Whole(Leaf(<<2, 3>>)))>>, 1)
  \o R2rTensor(R2r("Dst", 4), <<6>>, <<Whole(Rader3)>>, 1)
  \o R2rTensor(R2r("Dst", 3), <<6>>, <<Uploads(2, Cooley(Two, Three))>>, 1)
  \o R2rPlane(R2r("Dct", 2), 3) \o R2rPlane(R2r("Dst", 3), 3)
  \o R2rPlane(R2r("Dct", 1), 4) \o R2rTensor(R2r("Dst", 4), <<4, 3>>, <<PlanOf(2), PlanOf(6)>>, 1)
  \o Unnormalized(<<R2rLine(R2r("Dct", 2), 3, 1)[2], R2rPlane(R2r("Dst", 1), 3)[2]>>)
  \o Padding(<<<<1, 3>>>>, "Spatial", R2rLine(R2r("Dct", 2), 4, 2) \o R2rLine(R2r("Dst", 4), 5, 1))
  \o Padding(<<<<1, 2>>, <<0, 1>>>>, "Spatial",
             R2rPlane(R2r("Dct", 3), 3) \o Formatted(R2rPlane(R2r("Dst", 2), 3)))
  \o Formatted(R2rTensor(R2r("Dct", 4), <<2, 3>>, <<Omitted, PlanOf(6)>>, 1))

-----------------------------------------------------------------------------
(* Convolutions.  The taps of a kernel differ in every coordinate; those of a *)
(* complex tensor have an imaginary part.                                     *)

Tap(real, kernel, plane, local) ==
  <<(local + 1) * (local + 2) + 5 * kernel + 7 * plane, IF real THEN 0 ELSE local + plane>>

\* The entries of a matrix of kernels that the caller supplies, in their order.
Planes(layout, coordinates) ==
  CASE layout = "Scalar" -> <<<<0, 0>>>>
    [] layout = "Symmetric" -> <<<<0, 0>>, <<0, 1>>, <<1, 1>>>>
    [] layout = "Matrix" -> <<<<0, 0>>, <<0, 1>>, <<1, 0>>, <<1, 1>>>>
    [] layout = "Independent" -> [n \in 1 .. coordinates |-> <<n - 1, n - 1>>]

LocalOf(dims, n) == CHOOSE i \in 0 .. Product(dims) - 1 : Coordinates(dims, i) = n

\* A convolution without its kernels.
Convolve(forward, inverse, layout, kernels) ==
  LET coordinates == IF layout = "Scalar" THEN 1 ELSE 2
  IN  [kind |-> "Convolution", forward |-> forward, inverse |-> inverse,
       batches |-> forward.batches \div coordinates, coordinates |-> coordinates,
       kernels |-> kernels, layout |-> layout, conj |-> FALSE, fused |-> TRUE,
       wide |-> FALSE, mixed |-> FALSE]

WithKernels(c) ==
  LET planes == Planes(c.layout, c.coordinates)
      dims == c.forward.dims
      locals == 0 .. Product(dims) - 1
      Holds(p, pair) == \/ planes[p] = pair
                        \/ c.layout = "Symmetric" /\ planes[p] = <<pair[2], pair[1]>>
      Of(kernel, p, i) == Tap(c.forward.kind = "R2C", kernel, p, i)
      size == Product(OutputDims(c.forward))
      Bin(kernel, p, bin) ==
        FoldSet(LAMBDA i, partial :
                  Add(partial, Mul(Of(kernel, p, i),
                                   AxesWeight(c.forward, Coordinates(dims, i),
                                              Coordinates(OutputDims(c.forward), bin)))),
                Zero, locals)
      coordinates == 0 .. c.coordinates - 1
  IN  [taps |-> [kernel \in 0 .. c.kernels - 1 |->
                   [pair \in {q \in coordinates \X coordinates :
                               \E p \in DOMAIN planes : Holds(p, q)} |->
                      [n \in {Coordinates(dims, i) : i \in locals} |->
                         Of(kernel, CHOOSE p \in DOMAIN planes : Holds(p, pair),
                            LocalOf(dims, n))]]],
       spectrum |-> [i \in 0 .. c.kernels * Len(planes) * size - 1 |->
                       LET plane == i \div size
                       IN  Bin(plane \div Len(planes), (plane % Len(planes)) + 1, i % size)]]
        @@ c

\* Complex tensors of "batches" batches.
Filter(dims, plans, batches, layout, kernels) ==
  LET coordinates == IF layout = "Scalar" THEN 1 ELSE 2
      systems == IF kernels > 1 THEN kernels ELSE batches
  IN  Convolve(Tensor("C2C", dims, plans, "Forward", batches * coordinates),
               Tensor("C2C", dims, plans, "Inverse", systems * coordinates), layout, kernels)

Line1(plan, batches, layout, kernels) ==
  Filter(<<Length(plan)>>, <<plan>>, batches, layout, kernels)

Correlating(c) == [c EXCEPT !.conj = TRUE]
Unfused(c) == [c EXCEPT !.fused = FALSE]
Wide(c) == [c EXCEPT !.wide = TRUE]

Four == Whole(Leaf(<<2, 2>>))
TwoUploads == Uploads(2, Cooley(Two, Three))
ThreeUploads == Uploads(3, Cooley(Two, Cooley(Three, Two)))

ConvolutionCases ==
  <<Line1(Four, 2, "Scalar", 1),
    Correlating(Line1(Four, 1, "Scalar", 1)),
    Wide(Line1(Four, 2, "Scalar", 1)),
    Unfused(Correlating(Line1(Four, 2, "Scalar", 1))),
    Line1(Four, 1, "Scalar", 3),
    Unfused(Line1(Four, 1, "Scalar", 3)),
    [Line1(Four, 1, "Scalar", 1) EXCEPT !.mixed = TRUE],
    Line1(Whole(Three), 1, "Matrix", 1),
    Line1(Whole(Three), 1, "Matrix", 2),
    Correlating(Line1(Whole(Three), 1, "Symmetric", 2)),
    Line1(Whole(Three), 2, "Matrix", 1),
    Line1(Whole(Direct(5, 2)), 1, "Scalar", 1),
    Correlating(Line1(Whole(Direct(5, 2)), 1, "Scalar", 2)),
    Line1(Whole(Direct(5, 2)), 2, "Scalar", 1),
    Line1(Whole(Rader5), 1, "Scalar", 1),
    Correlating(Line1(Whole(Rader5), 1, "Scalar", 2)),
    Line1(Whole(Rader5), 2, "Scalar", 1),
    Line1(Whole(Rader7(Whole(Cooley(Two, Three)))), 1, "Scalar", 1),
    Line1(TwoUploads, 2, "Scalar", 1),
    Correlating(Line1(TwoUploads, 1, "Scalar", 3)),
    Line1(TwoUploads, 1, "Matrix", 1),
    Line1(ThreeUploads, 2, "Scalar", 1),
    Correlating(Line1(ThreeUploads, 1, "Scalar", 2)),
    Wide(Line1(ThreeUploads, 1, "Scalar", 2)),
    Line1(Whole(Cooley(Two, Three)), 1, "Scalar", 2),
    Line1(Uploads(2, Cooley(Rader3, Two)), 1, "Scalar", 1),
    Line1(Bluestein(3, Whole(Leaf(<<2, 3>>))), 2, "Scalar", 1)>>

ConvolutionTensorCases ==
  <<Filter(<<2, 3>>, <<WTwo, WThree>>, 2, "Scalar", 1),
    Correlating(Filter(<<2, 3>>, <<WTwo, WThree>>, 1, "Scalar", 2)),
    Filter(<<2, 3>>, <<WTwo, WThree>>, 1, "Symmetric", 1),
    Correlating(Filter(<<3, 2>>, <<Whole(Rader3), WTwo>>, 1, "Matrix", 1))>>

\* Real tensors; "rows" is a pair of transforms of one batch.
RealFilter(rows, layout, kernels) ==
  LET coordinates == IF layout = "Scalar" THEN 1 ELSE 2
  IN  Convolve([rows[1] EXCEPT !.batches = coordinates],
               [rows[2] EXCEPT !.batches = coordinates * kernels], layout, kernels)

RealConvolutionCases ==
  <<RealFilter(OddRows(1), "Scalar", 1),
    Correlating(RealFilter(EvenRows(1), "Scalar", 2)),
    RealFilter(OddRows(1), "Independent", 2),
    Correlating(RealFilter(OddRows(1), "Matrix", 2)),
    RealFilter(OddRows(1), "Symmetric", 1),
    RealFilter(Layouts(<<1, 2>>, 7, <<2, 1>>, 4, <<OddRows(1)[1]>>)
                 \o Layouts(<<2, 1>>, 4, <<4, 1>>, 8, <<OddRows(1)[2]>>), "Scalar", 1),
    RealFilter(Padding(<<<<0, 1>>, <<1, 3>>>>, "Spatial", OddRows(1)), "Independent", 1),
    RealFilter(Padding(<<<< >>, <<2, 3>>>>, "Spatial", OddRows(1)), "Matrix", 1)>>

Convolutions(cases) == Each(WithKernels, cases)

MCCases == StockhamCases \o RaderCases \o RaderUploadCases \o BluesteinCases
             \o UnscaledCases \o RealCases \o ComplexTensorCases \o RealTensorCases
             \o R2rCases
             \o Convolutions(ConvolutionCases \o ConvolutionTensorCases
                               \o RealConvolutionCases)

=============================================================================
