----------------------------- MODULE StockhamIo -----------------------------
(***************************************************************************)
(* Where a transform reads and stores its elements: StockhamIoMapping of   *)
(* src/src/kernel_ir.rs with the caller mappings composed with it, and the *)
(* equal mappings of the Cooley-Tukey pack and scatter passes              *)
(* (CooleyTukeyInputModifier, CooleyTukeyOutputModifier).                  *)
(*                                                                         *)
(* A mapping is a record whose "kind" selects the formula.  Transform      *)
(* number "batch" of "len" points reads its element i at input_index and   *)
(* stores it at output_index; both may turn the value by a fraction of a   *)
(* revolution, a pair <<numerator, denominator>>.                          *)
(***************************************************************************)
EXTENDS Integers

Contiguous == [kind |-> "Contiguous"]

\* The half-size transform of a real transform of even length.
RealEvenPack == [kind |-> "RealEvenPack"]
RealEvenInversePreprocess(normalize) ==
  [kind |-> "RealEvenInversePreprocess", normalize |-> normalize]

\* The two uploads of a transform of a * b points; upload 1 runs first.
FourStepRight(a, b) == [kind |-> "FourStepRight", a |-> a, b |-> b]
FourStepLeft(a, b) == [kind |-> "FourStepLeft", a |-> a, b |-> b]

\* Upload id of a transform of a * b * c points; upload 2 runs first.
ThreeUpload(id, a, b, c) ==
  [kind |-> <<"ThreeUpload0", "ThreeUpload1", "ThreeUpload2">>[id + 1],
   a |-> a, b |-> b, c |-> c]

\* An inverse upload behind a pointwise product: it reads every stride-th element of a
\* line, turned, and stores in place (FourStepPreTwiddleMapping,
\* ThreeUploadPreTwiddleMapping).
PreTwiddle(stride, line) == [kind |-> "PreTwiddle", stride |-> stride, line |-> line]

\* The right child, of b points, of a Cooley-Tukey parent of a * b points.
CooleyRight(a, b) == [kind |-> "CooleyRight", a |-> a, b |-> b]

\* The left child, of a points, of a Cooley-Tukey parent of a * b points whose
\* own result goes through the mapping "outer".
CooleyLeft(a, b, outer) == [kind |-> "CooleyLeft", a |-> a, b |-> b, outer |-> outer]

\* A transform of prime - 1 points whose element i is an element of a prime
\* transform, read through the mapping "caller".
RaderGenerator(prime, generator, caller) ==
  [kind |-> "RaderGenerator", prime |-> prime, generator |-> generator, caller |-> caller]

\* generator ^ exponent modulo prime.
residue_at(prime, generator, exponent) ==
  LET power[e \in 0 .. exponent] == IF e = 0 THEN 1 ELSE (power[e - 1] * generator) % prime
  IN  power[exponent]

\* The residue that slot i of the convolution reads: reversed generator order.
GeneratorSlot(prime, generator, i) ==
  residue_at(prime, generator, (prime - 1 - i) % (prime - 1))

\* Transform "batch" of those that share a line of "line" elements: its first
\* element is batch % stride, its elements are stride apart.
Strided(batch, i, stride, line) == (batch \div stride) * line + (batch % stride) + stride * i

PrimeIndex(io, prime, batch, i) ==
  CASE io.kind = "FourStepRight" -> Strided(batch, i, io.a, io.a * io.b)
    [] io.kind = "CooleyRight" -> Strided(batch, i, io.a, io.a * io.b)
    [] io.kind = "ThreeUpload2" -> Strided(batch, i, io.a * io.b, io.a * io.b * io.c)
    [] io.kind = "PreTwiddle" -> Strided(batch, i, io.stride, io.line)
    [] OTHER -> batch * prime + i

input_index(io, len, batch, i) ==
  CASE io.kind = "RaderGenerator" ->
         PrimeIndex(io.caller, io.prime, batch, GeneratorSlot(io.prime, io.generator, i))
    [] io.kind = "CooleyLeft" ->
         ((batch \div io.b) * io.a + i) * io.b + (batch % io.b)
    [] OTHER -> PrimeIndex(io, len, batch, i)

\* The turn applied to a value as it is read.
input_turn(io, batch, i) ==
  CASE io.kind = "CooleyLeft" -> <<i * (batch % io.b), io.a * io.b>>
    [] io.kind = "PreTwiddle" -> <<i * (batch % io.stride), io.line>>
    [] OTHER -> <<0, 1>>

\* Variant: the left upload advances by a transform, not by a line of transforms.
UploadIndexPerTransform(io, len, batch, i) ==
  IF io.kind = "FourStepLeft"
  THEN batch * (io.a * io.b) + (batch % io.b) + io.b * i
  ELSE batch * len + i

\* Where the uploads store: transposed for the next upload, or in natural order.
UploadIndex(io, len, batch, i) ==
  CASE io.kind \in {"FourStepRight", "ThreeUpload1"} ->
         ((batch \div io.a) * io.b + i) * io.a + (batch % io.a)
    [] io.kind = "FourStepLeft" ->
         (batch \div io.b) * (io.a * io.b) + (batch % io.b) + io.b * i
    [] io.kind = "ThreeUpload2" ->
         LET ab == io.a * io.b
             n12 == batch % ab
         IN  (((batch \div ab) * io.c + i) * io.a + (n12 % io.a)) * io.b + (n12 \div io.a)
    [] io.kind = "ThreeUpload0" ->
         LET group == batch \div io.b
         IN  (group \div io.c) * (io.a * io.b * io.c)
               + (group % io.c) + io.c * (batch % io.b) + io.c * io.b * i
    [] io.kind = "PreTwiddle" -> Strided(batch, i, io.stride, io.line)
    [] OTHER -> batch * len + i

\* Variant: the left child forgets which residue of the right child it transforms.
FirstResidueOnly(io, len, batch, i) ==
  IF io.kind = "CooleyLeft"
  THEN UploadIndex(io.outer, io.a * io.b, batch \div io.b, io.b * i)
  ELSE UploadIndex(io, len, batch, i)

output_index(io, len, batch, i) ==
  IF io.kind = "CooleyLeft"
  THEN UploadIndex(io.outer, io.a * io.b, batch \div io.b, (batch % io.b) + io.b * i)
  ELSE UploadIndex(io, len, batch, i)

\* Variant: the third upload turns as if the first two were not split.
InnerTurn(io, batch, i) ==
  IF io.kind \in {"FourStepRight", "ThreeUpload1", "ThreeUpload2"}
  THEN <<(batch % io.a) * i, io.a * io.b>> ELSE <<0, 1>>

\* The turn applied to a value as it is stored.
output_turn(io, batch, i) ==
  CASE io.kind \in {"FourStepRight", "ThreeUpload1"} -> <<(batch % io.a) * i, io.a * io.b>>
    [] io.kind = "ThreeUpload2" ->
         <<(batch % (io.a * io.b)) * i, io.a * io.b * io.c>>
    [] OTHER -> <<0, 1>>

=============================================================================
