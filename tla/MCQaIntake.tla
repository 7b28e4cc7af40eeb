----------------------------- MODULE MCQaIntake -----------------------------
(***************************************************************************)
(* Instances of QaIntake for TLC.                                          *)
(***************************************************************************)
EXTENDS QaIntake, TLC

CONSTANTS k1, k2, k3, k4, i1, i2, i3, i4, w1, w2, t1, t2, b1, b2

OneBase   == w1 :> b1 @@ w2 :> b1
TwoBases  == w1 :> b1 @@ w2 :> b2

Delivery(k, i, w, t) == [key |-> k, id |-> i, wp |-> w, tenant |-> t]

\* Two requests of one work package, the second delivered for either tenant, and
\* under the same key a request of a work package whose slug clashes with it.
SharedWork ==
  {Delivery(k1, i1, w1, t1), Delivery(k2, i2, w1, t1), Delivery(k2, i2, w1, t2),
   Delivery(k2, i2, w2, t2)}

\* Two requests of each of two work packages.
TwoPackages ==
  {Delivery(k1, i1, w1, None), Delivery(k2, i2, w1, None),
   Delivery(k3, i3, w2, None), Delivery(k4, i4, w2, None)}

Symmetry == Permutations(Requests)
=============================================================================
