-------------------------- MODULE CapabilityProofs --------------------------
(***************************************************************************)
(* What the selects offer, write and show, for every descriptor.           *)
(***************************************************************************)
EXTENDS Capability, TLAPS

\* What async_select_option writes is a byte, and current_option reads it back
\* (select.py 110-128), for any point as cold as -55.
LEMMA PointReadBack ==
  ASSUME NEW point \in Int, -55 <= point, point <= 200
  PROVE  Stored(point) \in Bytes /\ Shown(Stored(point)) = point
<1>1. CASE point >= 0
  <2>1. Stored(point) = point
    BY <1>1 DEF Stored
  <2> QED BY <1>1, <2>1 DEF Shown, Bytes
<1>2. CASE point < 0
  <2>1. Stored(point) = point + 256
    BY <1>2 DEF Stored
  <2> QED BY <1>2, <2>1 DEF Shown, Bytes
<1> QED BY <1>1, <1>2

\* A range on one side of zero keeps its order when its bytes are read as signed.
LEMMA SignedRange ==
  ASSUME NEW lo \in 0..255, NEW hi \in 0..255, lo <= hi, hi <= 127 \/ lo >= 201,
         NEW point \in Signed(lo)..Signed(hi)
  PROVE  /\ point \in Int /\ -55 <= point /\ point <= 200
         /\ Signed(lo) <= point /\ point <= Signed(hi)
<1>1. CASE hi <= 127
  <2>1. Signed(lo) = lo /\ Signed(hi) = hi
    BY <1>1 DEF Signed
  <2> QED BY <2>1, <1>1
<1>2. CASE lo >= 201
  <2>1. Signed(lo) = lo - 256 /\ Signed(hi) = hi - 256
    BY <1>2 DEF Signed
  <2> QED BY <2>1, <1>2
<1> QED BY <1>1, <1>2

LEMMA OffersItsRange ==
  ASSUME NEW info \in SetPointRanges
  PROVE  /\ info.min \in 0..255 /\ info.max \in 0..255
         /\ info.min <= info.max /\ (info.max <= 127 \/ info.min >= 201)
         /\ SetPoints(info) = Signed(info.min)..Signed(info.max)
<1>1. /\ info \in [min : 0..255, max : 0..255] /\ info.min <= info.max
      /\ info.max - info.min < 80 /\ (info.max <= 127 \/ info.min >= 256 - 55)
  BY DEF SetPointRanges, Descriptors, Bytes
<1>2. info # NoInfo
  BY <1>1, NoInfoAssumption DEF Descriptors, Bytes
<1>3. SetPoints(info) = Signed(info.min)..Signed(info.max)
  BY <1>1, <1>2 DEF SetPoints
<1> QED BY <1>1, <1>3

\* Every set point a select offers, freezing ones too, lies in the range the
\* module lists, and is shown as itself once the module repeats what was
\* written (select.py 78-90, 110-128).
THEOREM SelectsShowWhatTheySet ==
  SetPointsShown
<1> SUFFICES ASSUME NEW info \in SetPointRanges, NEW point \in -128..127,
                    point \in SetPoints(info)
             PROVE  /\ Signed(info.min) <= point /\ point <= Signed(info.max)
                    /\ Shown(Stored(point)) = point
  BY DEF SetPointsShown
<1>1. /\ info.min \in 0..255 /\ info.max \in 0..255
      /\ info.min <= info.max /\ (info.max <= 127 \/ info.min >= 201)
      /\ point \in Signed(info.min)..Signed(info.max)
  BY OffersItsRange
<1>2. /\ point \in Int /\ -55 <= point /\ point <= 200
      /\ Signed(info.min) <= point /\ point <= Signed(info.max)
  BY <1>1, SignedRange
<1> QED BY <1>2, PointReadBack
=============================================================================
