----------------------------- MODULE Capability -----------------------------
(***************************************************************************)
(* What a module's service list says it supports, and which values the     *)
(* climate entity and the selects therefore offer, write and show          *)
(* (capability.py, select.py).  A descriptor is a service's two bytes:     *)
(* a minimum and a maximum, or a mask of supported values.                 *)
(***************************************************************************)
EXTENDS Integers, FiniteSets

Bytes == 0..255
Descriptors == [min : Bytes, max : Bytes]
CONSTANT NoInfo   \* a service the module does not list
ASSUME NoInfoAssumption == NoInfo \notin Descriptors

Bit(mask, i) == (mask \div 2^i) % 2 = 1
BitmaskValues(mask) == {i \in 0..15 : Bit(mask, i)}
Word(info) == info.min * 256 + info.max

LooksLikeBitmask(info) == info.min = 0 /\ info.max \in {2^i - 1 : i \in 1..8}

\* supported_values
SupportedValues(info, fallback) ==
  IF info = NoInfo THEN fallback
  ELSE IF LooksLikeBitmask(info) THEN BitmaskValues(info.max)
  ELSE IF info.min <= info.max /\ info.max - info.min <= 16 THEN info.min..info.max
  ELSE IF Word(info) = 0 THEN fallback ELSE BitmaskValues(Word(info))

-----------------------------------------------------------------------------
(* Set points: TaiSeiaSelect without a table *)

Signed(byte) == IF byte > 127 THEN byte - 256 ELSE byte

\* TaiSeiaSelect._options_map
SetPoints(info) ==
  IF info # NoInfo /\ info.min <= info.max /\ info.max - info.min < 80
  THEN Signed(info.min)..Signed(info.max)
  ELSE SupportedValues(info, -25..7)

\* Mutant: freezing set points are written as they are.
StoredUnsigned(point) == (IF point >= 0 THEN point ELSE -point) % 65536

\* async_select_option writes ...
Stored(point) == (IF point >= 0 THEN point ELSE point + 256) % 65536
\* ... and current_option shows what the module repeats.
Shown(raw) == IF raw > 200 THEN raw - 256 ELSE raw

\* Descriptors of set points on one side of zero, as cold as -55.
SetPointRanges ==
  {info \in Descriptors : /\ info.min <= info.max /\ info.max - info.min < 80
                          /\ info.max <= 127 \/ info.min >= 256 - 55}

\* Each point that is offered lies in the module's range, and once the module
\* repeats what was written the select shows that point (select.py 78-90, 110-128).
SetPointsShown ==
  \A info \in SetPointRanges, point \in -128..127 :
    point \in SetPoints(info) =>
      Signed(info.min) <= point /\ point <= Signed(info.max) /\ Shown(Stored(point)) = point
=============================================================================
