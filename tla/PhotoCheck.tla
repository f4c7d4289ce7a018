------------------------------ MODULE PhotoCheck -----------------------------
(***************************************************************************)
(* What counts as a good photo: decide in                                  *)
(* src/app/routers/photo_validation.py, over the analysis that the vision  *)
(* model fills in.                                                         *)
(***************************************************************************)
EXTENDS Integers

CONSTANTS
    ChildMin, ChildMax,   \* CHILD_MIN_AGE, CHILD_MAX_AGE
    MinGap                \* MIN_PARENT_CHILD_AGE_GAP

ASSUME AgeAssumption == ChildMin \in Nat /\ ChildMax \in Nat /\ MinGap \in Nat
                        /\ ChildMax < MinGap

(* PhotoAnalysis.  The model estimates ages; they are not negative. *)
Analyses == [is_appropriate : BOOLEAN, is_real_photo : BOOLEAN, quality_ok : BOOLEAN,
             faces_unobstructed : BOOLEAN, faces_frontal : BOOLEAN,
             number_of_people : Int, parent_present : BOOLEAN, child_present : BOOLEAN,
             parent_estimated_age : Nat, child_estimated_age : Nat]

(* abs() of the difference. *)
AgeGap(a) == IF a.parent_estimated_age >= a.child_estimated_age
             THEN a.parent_estimated_age - a.child_estimated_age
             ELSE a.child_estimated_age - a.parent_estimated_age

(* Mutant of ChildAgeFits: the lower bound is forgotten. *)
ChildAgeBelowMax(a) == a.child_estimated_age <= ChildMax
ChildAgeFits(a) == ChildMin <= a.child_estimated_age /\ a.child_estimated_age <= ChildMax

(* The first objection counts. *)
Decide(a) ==
    IF ~a.is_appropriate THEN "REJECT_NSFW"
    ELSE IF ~a.is_real_photo THEN "REJECT_SCREENSHOT"
    ELSE IF ~a.quality_ok THEN "REJECT_UNCLEAR"
    ELSE IF ~a.faces_unobstructed THEN "REJECT_OBSTRUCTED"
    ELSE IF ~a.faces_frontal THEN "REJECT_NOT_FRONTAL"
    ELSE IF a.number_of_people > 2 THEN "REJECT_TOO_MANY_PEOPLE"
    ELSE IF a.number_of_people < 2 THEN "REJECT_TOO_FEW_PEOPLE"
    ELSE IF ~(a.parent_present /\ a.child_present) THEN "REJECT_NOT_PARENT_CHILD"
    ELSE IF ~ChildAgeFits(a) THEN "REJECT_CHILD_AGE"
    ELSE IF AgeGap(a) < MinGap THEN "REJECT_AGE_GAP"
    ELSE "APPROVED"

Labels == {"REJECT_NSFW", "REJECT_SCREENSHOT", "REJECT_UNCLEAR", "REJECT_OBSTRUCTED",
           "REJECT_NOT_FRONTAL", "REJECT_TOO_MANY_PEOPLE", "REJECT_TOO_FEW_PEOPLE",
           "REJECT_NOT_PARENT_CHILD", "REJECT_CHILD_AGE", "REJECT_AGE_GAP", "APPROVED"}

(* Nothing to object to in the picture itself. *)
IsClear(a) == /\ a.is_appropriate /\ a.is_real_photo /\ a.quality_ok
              /\ a.faces_unobstructed /\ a.faces_frontal

(* One child of the campaign's age and one adult who is old enough to be   *)
(* its parent: older, although the code compares the absolute difference.  *)
IsFamily(a) ==
    /\ a.number_of_people = 2 /\ a.parent_present /\ a.child_present
    /\ a.child_estimated_age \in ChildMin .. ChildMax
    /\ a.parent_estimated_age >= a.child_estimated_age + MinGap
=============================================================================
