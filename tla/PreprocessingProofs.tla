------------------------- MODULE PreprocessingProofs ------------------------
(***************************************************************************)
(* Whatever the options, their values and their order, process_args accepts*)
(* only parameters the threads can work with.                              *)
(***************************************************************************)
EXTENDS Preprocessing, TLAPS

(* The counts and bounds that the loop works with, before it gives up.     *)
UsableParams ==
  /\ \A f \in Counts : params[f] \in Nat \ {0}
  /\ params["papers_required_lower_bound"] <= params["papers_required_upper_bound"]

(* AcceptedParams is not inductive: it has to hold between options too,    *)
(* while a rejected option may leave a count that is not positive.         *)
ParamsInv ==
  /\ params \in [Fields -> Int]
  /\ outcome \in {"reading", "accepted"} => UsableParams

USE DEF Fields, Counts, Rates

LEMMA ParamsInit == Init => ParamsInv
  BY DEF Init, Defaults, ParamsInv, UsableParams

(* swap_bounds keeps the parameters positive and puts the bounds in order. *)
LEMMA SwapBoundsOrders ==
  ASSUME NEW p \in [Fields -> Int]
  PROVE  /\ SwapBounds(p) \in [Fields -> Int]
         /\ SwapBounds(p)["papers_required_lower_bound"]
              <= SwapBounds(p)["papers_required_upper_bound"]
         /\ (\A f \in Counts : p[f] \in Nat \ {0}) =>
              \A f \in Counts : SwapBounds(p)[f] \in Nat \ {0}
  <1>1. CASE p["papers_required_lower_bound"] > p["papers_required_upper_bound"]
    BY <1>1 DEF SwapBounds
  <1>2. CASE ~(p["papers_required_lower_bound"] > p["papers_required_upper_bound"])
    BY <1>2 DEF SwapBounds
  <1> QED
    BY <1>1, <1>2

LEMMA ParamsTake ==
  ASSUME ParamsInv, NEW f \in Fields, NEW value \in Int, TakeValue(f, value)
  PROVE  ParamsInv'
  <1> DEFINE p == [params EXCEPT ![f] = Stored(f, value)]
  <1>1. outcome = "reading" /\ value > 0
    BY DEF TakeValue, NextOption, IsPositive
  <1>2. Stored(f, value) \in Int /\ (f \in Counts => Stored(f, value) \in Nat \ {0})
    BY <1>1 DEF Stored
  <1>3. p \in [Fields -> Int] /\ \A g \in Counts : p[g] \in Nat \ {0}
    BY <1>1, <1>2 DEF ParamsInv, UsableParams
  <1>4. params' = SwapBounds(p)
    BY DEF TakeValue
  <1> HIDE DEF p
  <1> QED
    BY <1>3, <1>4, SwapBoundsOrders DEF ParamsInv, UsableParams

LEMMA ParamsReject ==
  ASSUME ParamsInv, NEW f \in Fields, NEW value \in Int, RejectValue(f, value)
  PROVE  ParamsInv'
  BY DEF RejectValue, ParamsInv

LEMMA ParamsDebug ==
  ASSUME ParamsInv, SetDebug
  PROVE  ParamsInv'
  BY SwapBoundsOrders DEF SetDebug, NextOption, ParamsInv, UsableParams

(* What process_args accepts is what the threads rely on, for every        *)
(* command line of any length.                                             *)
THEOREM ParamsAccepted ==
  ASSUME Values \subseteq Int
  PROVE  Spec => []AcceptedParams
  <1>1. ParamsInv /\ [Next]_vars => ParamsInv'
    <2> SUFFICES ASSUME ParamsInv, [Next]_vars PROVE ParamsInv'
      OBVIOUS
    <2>1. CASE \E f \in Fields, value \in Values : TakeValue(f, value) \/ RejectValue(f, value)
      BY <2>1, ParamsTake, ParamsReject
    <2>2. CASE SetDebug
      BY <2>2, ParamsDebug
    <2>3. CASE GiveUp
      BY <2>3 DEF GiveUp, ParamsInv
    <2>4. CASE EndOfArgs
      BY <2>4 DEF EndOfArgs, ParamsInv, UsableParams
    <2>5. CASE UNCHANGED vars
      BY <2>5 DEF vars, ParamsInv, UsableParams
    <2> QED
      BY <2>1, <2>2, <2>3, <2>4, <2>5 DEF Next
  <1>2. ParamsInv => AcceptedParams
    BY DEF ParamsInv, UsableParams, AcceptedParams
  <1> QED
    BY ParamsInit, <1>1, <1>2, PTL DEF Spec
=============================================================================
