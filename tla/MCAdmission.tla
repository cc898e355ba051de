---------------------------- MODULE MCAdmission ----------------------------
(***************************************************************************)
(* An instance of Admission for TLC: requests of different tiers against   *)
(* limits of one and two waiting jobs.                                     *)
(***************************************************************************)
EXTENDS Admission, TLC

CONSTANTS r1, r2, r3, r4, cat, dog

\* A standard client whose image may turn out to be invalid, an administrator
\* whose job goes to the plain wait list, a VIP, and a standard client who asks
\* for the VIP priority;  the first two name the same image.
Tiers    == r1 :> "standard" @@ r2 :> "admin" @@ r3 :> "vip" @@ r4 :> "standard"
Wishes   == r1 :> NotANumber @@ r2 :> 0 @@ r3 :> 5 @@ r4 :> 1
Pictures == r1 :> cat @@ r2 :> cat @@ r3 :> dog @@ r4 :> dog

=============================================================================
