--------------------------------- MODULE Pts --------------------------------
(***************************************************************************)
(* A time stamp clock of the program: get_pts of conver_format.c, which    *)
(* stamps the pictures, or get_audio_pts of mpi_decoder.c, which stamps    *)
(* the audio.  Either keeps its stamp in an unsigned long of 64 bits and   *)
(* adds a float to it, so that every sum is rounded to a float: the stamp  *)
(* is a multiple of a spacing that doubles whenever the mantissa of the    *)
(* float is exhausted.  The stamp is coded in five bytes of a PES header,  *)
(* from which tcp_get_pts of gn_tcp.c reads it again.                      *)
(*                                                                         *)
(* The picture duration, 90000 / 29.97 as floats, is 3003.0032, so a sum   *)
(* is never half way between two floats; the audio's, 23040, is exact.     *)
(*                                                                         *)
(* An operator that a comment calls a mutant is not part of the            *)
(* specification: it is the definition after it with a bug in it, which    *)
(* the property named there must notice.                                   *)
(***************************************************************************)
EXTENDS Integers

CONSTANTS
  Mantissa,    \* 2^24
  pts_offset,  \* the duration without its fraction: 3003, or 23040
  Fraction,    \* the duration has a (small) fraction
  MaxFrames    \* bound: how many stamps are given

ASSUME MantissaAssumption == Mantissa \in Nat /\ Mantissa > 0 /\ Mantissa % 2 = 0
ASSUME OffsetAssumption == pts_offset \in Nat /\ 0 < pts_offset /\ pts_offset < Mantissa
ASSUME FractionAssumption == Fraction \in BOOLEAN
ASSUME FramesAssumption == MaxFrames \in Nat

VARIABLES
  pts,      \* the static pts
  spacing,  \* what floats of the size of pts are multiples of
  frames,   \* history: how many stamps were given
  stamp     \* the five bytes of the last one

ptsVars == <<pts, spacing, frames, stamp>>

\* Bits lo and up of n, for lo = 2^k, as a number below 2^width = size.
Bits(n, lo, size) == (n \div lo) % size

\* Mutant (Truthful): the bits of the third byte are one too high.
CodedShifted(n) ==
  <<33 + 2 * Bits(n, 1073741824, 8), Bits(n, 4194304, 256),
    1 + 2 * Bits(n, 65536, 128), Bits(n, 128, 256), 1 + 2 * Bits(n, 1, 128)>>

\* What get_pts makes of its stamp: bits 32..30, 29..22, 21..15, 14..7, 6..0,
\* with marker bits.
Coded(n) ==
  <<33 + 2 * Bits(n, 1073741824, 8), Bits(n, 4194304, 256),
    1 + 2 * Bits(n, 32768, 128), Bits(n, 128, 256), 1 + 2 * Bits(n, 1, 128)>>

tcp_get_pts(p) ==
  Bits(p[1], 2, 8) * 1073741824 + p[2] * 4194304 + (p[3] \div 2) * 32768
    + p[4] * 128 + p[5] \div 2

PtsInit ==
  /\ pts = 0 /\ spacing = 1 /\ frames = 0
  /\ stamp = Coded(0)

\* Mutant (Advances): the sum is cut off.
NearestBelow(n, unit) == n - (n % unit)

\* n, and the fraction, rounded to the nearest multiple of unit; one that is
\* half way goes to the even multiple.
Nearest(n, unit) ==
  LET over == n % unit
      tie == 2 * over = unit /\ (Fraction \/ (n \div unit) % 2 = 1)
  IN  IF 2 * over > unit \/ tie THEN n - over + unit ELSE n - over

\* Mutant (PtsTypeOK): the spacing stays what it was.
SpacingSame == spacing

\* The spacing of the floats where the sum is.
Spacing ==
  IF Nearest(pts + pts_offset, spacing) < Mantissa * spacing
    THEN spacing ELSE 2 * spacing

\* Mutant (DriftBounded): get_pts is called twice for a picture.
SumTwice == Nearest(Nearest(pts + pts_offset, Spacing) + pts_offset, Spacing)

\* Mutant (ClockStops): the sum is not a float.
SumInteger == pts + pts_offset

Sum == Nearest(pts + pts_offset, Spacing)

\* pts = pts + pts_offset, and the five bytes.
get_pts ==
  /\ frames < MaxFrames
  /\ frames' = frames + 1
  /\ pts' = Sum
  /\ spacing' = Spacing
  /\ stamp' = Coded(Sum)

Done == frames = MaxFrames /\ UNCHANGED ptsVars

PtsNext == get_pts \/ Done

PtsSpec == PtsInit /\ [][PtsNext]_ptsVars

\* The stream goes on.
PtsFairSpec == PtsSpec /\ WF_ptsVars(get_pts)
-----------------------------------------------------------------------------
(***************************************************************************)
(* Properties.                                                             *)
(***************************************************************************)
\* The stamp is a float: a mantissa that is not exhausted times the spacing.
PtsTypeOK ==
  /\ pts \in Nat /\ spacing \in Nat \ {0} /\ frames \in 0..MaxFrames
  /\ pts % spacing = 0 /\ pts < Mantissa * spacing
  /\ spacing > 1 => 2 * pts >= Mantissa * spacing
  /\ stamp[1] \in 0..255 /\ stamp[2] \in 0..255 /\ stamp[3] \in 0..255
  /\ stamp[4] \in 0..255 /\ stamp[5] \in 0..255

\* The sender reads what was stamped, modulo 2^33 (as 2^30 and 8, since TLC
\* counts in 32 bits).
Truthful ==
  /\ tcp_get_pts(stamp) % 1073741824 = pts % 1073741824
  /\ tcp_get_pts(stamp) \div 1073741824 = (pts \div 1073741824) % 8

\* The stamps are the true times as long as the mantissa holds them, for three
\* minutes of pictures.  From then on each adds at most half a spacing to the
\* error: the error per picture grows with the stamp, and the streams part.
DriftBounded ==
  /\ pts - pts_offset * frames <= (spacing \div 2) * frames
  /\ pts_offset * frames - pts <= (spacing \div 2) * frames

\* Every stamp is later than the one before it while the spacing is below
\* twice the duration of a picture.
Advances == [][spacing' < 2 * pts_offset => pts' > pts]_<<pts, spacing, frames>>

\* The clock comes to a stand: with 24 bits, after less than nine days.
ClockStops == <>[](Sum = pts)
=============================================================================
