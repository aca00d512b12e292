----------------------------- MODULE MCPredict -----------------------------
(* Instances of Predict for TLC. *)
EXTENDS Predict, TLC

(* With 8 significant bits: 1 and -1, whose neighbours are not equally far,
   an eighth, the next float after 1, and on either side of the border from
   which on 0.01 is less than half an ulp, 3, 4 and -4. *)
AmountSamples == {Unit, -Unit, Unit \div 8, Unit + Ulp(Unit),
                  3 * Unit, 4 * Unit, -4 * Unit}

Symmetry == Permutations(Procs) \cup Permutations(KeyIds)
=============================================================================
