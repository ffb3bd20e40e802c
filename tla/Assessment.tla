------------------------------ MODULE Assessment ------------------------------
(***************************************************************************)
(* What an assessment of one market comes to: calculate_depth and          *)
(* is_valid_opportunity, with prices and sizes abstracted to what the      *)
(* rules tell apart.  Scanner assesses markets by it; DepthProofs shows    *)
(* that the calculation of Depth, level by level, comes to the same.       *)
(***************************************************************************)

FeeStatus == {"KNOWN", "FEE_UNKNOWN"}
Status    == {"NO_ASKS", "FEE_UNKNOWN", "PARTIAL", "VALID"}

(* What the rules make of the net profit: there is none, it is below the     *)
(* minimum, it passes the minimum but another rule (the ROI, the quantity)   *)
(* refuses the result, or every rule passes, with one profit or another.     *)
Net       == {"none", "low", "refused", "good", "better"}
Result    == [status: Status, fee: FeeStatus, net: Net]

-----------------------------------------------------------------------------
(* Mutants of Assess: a missing fee counts as zero; a partial fill is        *)
(* refused.                                                                  *)
AssessFeeAsZero(pair, fee, net) ==
    [status |-> IF pair = "no_asks" THEN "NO_ASKS"
                ELSE IF pair = "partial" THEN "PARTIAL" ELSE "VALID",
     fee    |-> fee,
     net    |-> IF pair = "no_asks" THEN "none" ELSE net]

AssessAllOrNothing(pair, fee, net) ==
    [status |-> IF pair = "full" THEN "VALID" ELSE "PARTIAL_NOT_ALLOWED",
     fee    |-> fee, net |-> net]

(* calculate_depth: an empty ask side outranks an unknown fee, and only a  *)
(* pair with asks and a known fee has a net result.                        *)
Assess(pair, fee, net) ==
    [status |-> IF pair = "no_asks" THEN "NO_ASKS"
                ELSE IF fee = "FEE_UNKNOWN" THEN "FEE_UNKNOWN"
                ELSE IF pair = "partial" THEN "PARTIAL"
                ELSE "VALID",
     fee    |-> fee,
     net    |-> IF pair = "no_asks" \/ fee = "FEE_UNKNOWN" THEN "none" ELSE net]

(* is_valid_opportunity of a result. *)
Accepted(r) == r.status = "VALID" /\ r.net \in {"good", "better"}

=============================================================================
