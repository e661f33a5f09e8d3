----------------------------- MODULE FftPasses ------------------------------
(***************************************************************************)
(* What the workgroups of each kind of pass compute: the Stockham kernel   *)
(* (src/src/kernel_ir.rs), the Cooley-Tukey passes (recursive_ir.rs), the  *)
(* Rader passes (rader_ir.rs) and the Bluestein passes (bluestein_ir.rs).  *)
(*                                                                         *)
(* Memory is a function from 0 .. n - 1 to numbers.  The result of a       *)
(* workgroup is the set of pairs <<index, value>> it stores.               *)
(***************************************************************************)
EXTENDS UnitCircle, StockhamIo, Sequences

NoResource == 0

\* What a transform does to its result before it stores it.
NoModifier == [kind |-> "None"]
RaderScatter(prime, generator, normalize, auxiliary) ==
  [kind |-> "RaderScatter", prime |-> prime, generator |-> generator,
   normalize |-> normalize, auxiliary |-> auxiliary]
RealEvenPostprocess == [kind |-> "RealEvenPostprocess"]
RealEvenUnpack == [kind |-> "RealEvenUnpack"]

exponent_sign(direction) == IF direction = "Forward" THEN -1 ELSE 1

Turned(value, turn, direction) ==
  Mul(value, exp_i(exponent_sign(direction) * turn[1], turn[2]))

At(memory, i) == IF i \in DOMAIN memory THEN memory[i] ELSE Unwritten

Scaled(value, scale, n) == IF scale THEN Shrink(value, n) ELSE value

\* A real transform of 2 * half points by a complex one of half points, whose
\* element i is a pair of real elements (RealEvenPack), or is made of two elements
\* of a half spectrum (RealEvenInversePreprocess).
EvenPair(half, batch, i, input) ==
  Pair(At(input, batch * 2 * half + 2 * i), At(input, batch * 2 * half + 2 * i + 1))

HalfSpectrumValue(half, normalize, batch, i, input) ==
  LET x == At(input, batch * (half + 1) + i)
      mirrored == conj(At(input, batch * (half + 1) + half - i))
      rotated == Mul(exp_i(i, 2 * half), Sub(x, mirrored))
  IN  Scaled(Add(Add(x, mirrored), Mul(ImaginaryUnit, rotated)), normalize, 2)

\* Element i of transform "batch" as it enters the transform: read through the
\* mapping, turned, and multiplied by the lookup table when that is fused in.
InputValue(ir, io, multiply, batch, i, input, lookup) ==
  LET value ==
        CASE io.kind = "RealEvenPack" -> EvenPair(ir.len, batch, i, input)
          [] io.kind = "RealEvenInversePreprocess" ->
               HalfSpectrumValue(ir.len, io.normalize, batch, i, input)
          [] OTHER -> Turned(At(input, input_index(io, ir.len, batch, i)),
                             input_turn(io, batch, i), ir.direction)
  IN  IF multiply THEN Mul(value, At(lookup, i)) ELSE value

\* What a half-size transform z stores: the half spectrum of the real transform
\* (RealEvenPostprocess), or its pairs of real elements (RealEvenUnpack).
EvenSpectrum(half, batch, z) ==
  {<<batch * (half + 1) + k,
     LET a == z[k % half]
         b == conj(z[(half - k) % half])
         rotated == Mul(exp_i(-k, 2 * half), Sub(a, b))
     IN  Shrink(Add(Add(a, b), Mul(conj(ImaginaryUnit), rotated)), 2)>> : k \in 0 .. half}

EvenOddElements(half, batch, z) ==
  {<<batch * 2 * half + 2 * i, RealPart(z[i])>> : i \in 0 .. half - 1}
    \cup {<<batch * 2 * half + 2 * i + 1, ImaginaryPart(z[i])>> : i \in 0 .. half - 1}

\* The pairs stored when the elements of a transform, pairs <<i, value>>, leave it.
Mapped(io, len, direction, batch, elements) ==
  {<<output_index(io, len, batch, e[1]),
     Turned(e[2], output_turn(io, batch, e[1]), direction)>> : e \in elements}

\* The elements of a transform of "source", of prime length p, from the cyclic
\* convolution of its elements other than 0 with the roots of unity, both in
\* generator order.
RaderElements(p, generator, normalize, source, convolution) ==
  {<<0, Scaled(Sum(source, p), normalize, p)>>}
    \cup {<<residue_at(p, generator, e),
            Scaled(Add(source[0], convolution[e]), normalize, p)>> : e \in 0 .. p - 2}

-----------------------------------------------------------------------------
(* The Stockham transform: one stage per radix, in registers or shared memory. *)

\* The product of the first s radices: the length transformed before stage s + 1.
stage_size(radices, s) ==
  LET size[k \in 0 .. s] == IF k = 0 THEN 1 ELSE size[k - 1] * radices[k]
  IN  size[s]

\* Element j after a stage: butterfly and output lane are those that store to
\* j = stage_invocation + (butterfly - stage_invocation) * radix + lane * size.
StockhamStage(source, len, size, radix, direction) ==
  [j \in 0 .. len - 1 |->
     LET stage_invocation == j % size
         output_lane == (j \div size) % radix
         butterfly == stage_invocation + (j \div (size * radix)) * size
         lanes == [lane \in 0 .. radix - 1 |->
                     Turned(Turned(source[butterfly + lane * (len \div radix)],
                                   <<stage_invocation * lane, size * radix>>, direction),
                            <<output_lane * lane, radix>>, direction)]
     IN  Sum(lanes, radix)]

StockhamStages(source, len, radices, direction) ==
  LET stage[s \in 0 .. Len(radices)] ==
        IF s = 0 THEN source
        ELSE StockhamStage(stage[s - 1], len, stage_size(radices, s - 1),
                           radices[s], direction)
  IN  stage[Len(radices)]

\* What a transform stores: its elements through its mapping, or what its modifier
\* makes of them.
Outputs(io, modifier, ir, batch, value, auxiliary) ==
  CASE modifier.kind = "None" ->
         Mapped(io, ir.len, ir.direction, batch, {<<i, value[i]>> : i \in DOMAIN value})
    [] modifier.kind = "RaderScatter" ->
         LET source == [i \in 0 .. modifier.prime - 1 |->
                          At(auxiliary, PrimeIndex(modifier.auxiliary, modifier.prime, batch, i))]
         IN  Mapped(Contiguous, modifier.prime, ir.direction, batch,
                    RaderElements(modifier.prime, modifier.generator, modifier.normalize,
                                  source, value))
    [] modifier.kind = "RealEvenPostprocess" -> EvenSpectrum(ir.len, batch, value)
    [] modifier.kind = "RealEvenUnpack" -> EvenOddElements(ir.len, batch, value)

Stockham(ir, batch, input, lookup, auxiliary) ==
  LET source == [i \in 0 .. ir.len - 1 |->
                   InputValue(ir, ir.io, ir.multiply, batch, i, input, lookup)]
      result == StockhamStages(source, ir.len, ir.radices, ir.direction)
      value == [i \in 0 .. ir.len - 1 |-> Scaled(result[i], ir.normalize, ir.len)]
  IN  Outputs(ir.io, ir.modifier, ir, batch, value, auxiliary)

-----------------------------------------------------------------------------
(* The three passes of a Cooley-Tukey node of leftLen * rightLen points. *)

\* Variant: the lengths of the children are confused.
PackSquare(ir, batch, input, lookup) ==
  {<<(batch * ir.leftLen + n1) * ir.rightLen + n2,
     InputValue(ir, ir.packIo, ir.packMultiply, batch, n1 + ir.leftLen * n2, input, lookup)>>
   : n1 \in 0 .. ir.leftLen - 1, n2 \in 0 .. ir.leftLen - 1}

PackRightInput(ir, batch, input, lookup) ==
  {<<(batch * ir.leftLen + n1) * ir.rightLen + n2,
     InputValue(ir, ir.packIo, ir.packMultiply, batch, n1 + ir.leftLen * n2, input, lookup)>>
   : n1 \in 0 .. ir.leftLen - 1, n2 \in 0 .. ir.rightLen - 1}

TwiddleTranspose(ir, batch, input) ==
  {<<(batch * ir.rightLen + k2) * ir.leftLen + n1,
     Turned(At(input, (batch * ir.leftLen + n1) * ir.rightLen + k2),
            <<n1 * k2, ir.len>>, ir.direction)>>
   : n1 \in 0 .. ir.leftLen - 1, k2 \in 0 .. ir.rightLen - 1}

ScatterOutput(ir, batch, input, auxiliary) ==
  LET value == [k \in 0 .. ir.len - 1 |->
                  At(input, (batch * ir.rightLen + (k % ir.rightLen)) * ir.leftLen
                              + (k \div ir.rightLen))]
  IN  Outputs(ir.scatterIo, ir.modifier, ir, batch, value, auxiliary)

-----------------------------------------------------------------------------
(* A prime transform by direct multiplication, and the passes of the one by *)
(* convolution that its children could not take over.                       *)

RaderDirect(ir, batch, input, lookup) ==
  LET source == [i \in 0 .. ir.len - 1 |-> At(input, input_index(ir.io, ir.len, batch, i))]
      convolution ==
        [e \in 0 .. ir.len - 2 |->
           LET terms == [f \in 0 .. ir.len - 2 |->
                           Mul(source[residue_at(ir.len, ir.generator, f)],
                               At(lookup, (f + e) % (ir.len - 1)))]
           IN  Sum(terms, ir.len - 1)]
  IN  Mapped(ir.io, ir.len, ir.direction, batch,
             RaderElements(ir.len, ir.generator, ir.normalize, source, convolution))

RaderGather(ir, batch, input) ==
  {<<batch * (ir.len - 1) + slot,
     At(input, input_index(ir.io, ir.len, batch, GeneratorSlot(ir.len, ir.generator, slot)))>>
   : slot \in 0 .. ir.len - 2}

MultiplyKernelSpectrum(len, batch, input, lookup) ==
  {<<batch * len + i, Mul(At(input, batch * len + i), At(lookup, i))>> : i \in 0 .. len - 1}

RaderFinalScatter(ir, batch, input, auxiliary) ==
  LET source == [i \in 0 .. ir.len - 1 |->
                   At(auxiliary, input_index(ir.io, ir.len, batch, i))]
      convolution == [e \in 0 .. ir.len - 2 |-> At(input, batch * (ir.len - 1) + e)]
  IN  Mapped(ir.io, ir.len, ir.direction, batch,
             RaderElements(ir.len, ir.generator, ir.normalize, source, convolution))

-----------------------------------------------------------------------------
(* The first and the last pass of a Bluestein convolution of convolutionLen points. *)

Chirp(len, direction, i) == exp_i(exponent_sign(direction) * i * i, 2 * len)

\* Variant: the padding of the convolution is not written.
PreprocessUnpadded(ir, batch, input) ==
  {<<batch * ir.convolutionLen + i,
     Mul(InputValue(ir, ir.io, FALSE, batch, i, input, << >>),
         Chirp(ir.len, ir.direction, i))>>
   : i \in 0 .. ir.len - 1}

BluesteinPreprocess(ir, batch, input) ==
  {<<batch * ir.convolutionLen + i,
     IF i < ir.len THEN Mul(InputValue(ir, ir.io, FALSE, batch, i, input, << >>),
                            Chirp(ir.len, ir.direction, i))
                   ELSE Zero>> : i \in 0 .. ir.convolutionLen - 1}

BluesteinPostprocess(ir, batch, input) ==
  LET value == [i \in 0 .. ir.len - 1 |->
                  Scaled(Mul(At(input, batch * ir.convolutionLen + i),
                             Chirp(ir.len, ir.direction, i)), ir.normalize, ir.len)]
  IN  Outputs(Contiguous, ir.modifier, ir, batch, value, << >>)

-----------------------------------------------------------------------------
(* What workgroup "batch" of a pass stores when it reads "memory". *)

Stores(pass, batch, memory) ==
  LET ir == pass.ir
      Contents(r) == IF r = NoResource THEN << >> ELSE memory[r]
      input == Contents(pass.input)
      Lookup == Contents(pass.lookup)
      Auxiliary == Contents(pass.auxiliary)
  IN  CASE pass.kind = "Stockham" -> Stockham(ir, batch, input, Lookup, Auxiliary)
        [] pass.kind = "PackRightInput" -> PackRightInput(ir, batch, input, Lookup)
        [] pass.kind = "TwiddleTranspose" -> TwiddleTranspose(ir, batch, input)
        [] pass.kind = "ScatterOutput" -> ScatterOutput(ir, batch, input, Auxiliary)
        [] pass.kind = "RaderDirect" -> RaderDirect(ir, batch, input, Lookup)
        [] pass.kind = "RaderGather" -> RaderGather(ir, batch, input)
        [] pass.kind = "RaderMultiply" ->
             MultiplyKernelSpectrum(ir.len - 1, batch, input, Lookup)
        [] pass.kind = "RaderScatter" -> RaderFinalScatter(ir, batch, input, Auxiliary)
        [] pass.kind = "BluesteinPreprocess" -> BluesteinPreprocess(ir, batch, input)
        [] pass.kind = "BluesteinMultiply" ->
             MultiplyKernelSpectrum(ir.convolutionLen, batch, input, Lookup)
        [] pass.kind = "BluesteinPostprocess" -> BluesteinPostprocess(ir, batch, input)

\* The memory "cells" after the pairs "stores" are written to it.
Written(cells, stores) ==
  [i \in DOMAIN cells |-> IF \E s \in stores : s[1] = i
                          THEN (CHOOSE s \in stores : s[1] = i)[2] ELSE cells[i]]

Workgroups(pass) == 0 .. pass.ir.batches - 1

AfterPass(memory, pass) ==
  [memory EXCEPT ![pass.output] =
     Written(@, UNION {Stores(pass, batch, memory) : batch \in Workgroups(pass)})]

=============================================================================
