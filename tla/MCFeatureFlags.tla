---------------------------- MODULE MCFeatureFlags ---------------------------
(* A small instance of FeatureFlags for TLC: every pair of ages around the *)
(* bounds in an otherwise good photo, and each objection by itself.        *)
EXTENDS FeatureFlags, TLC

Good == [is_appropriate |-> TRUE, is_real_photo |-> TRUE, quality_ok |-> TRUE,
         faces_unobstructed |-> TRUE, faces_frontal |-> TRUE, number_of_people |-> 2,
         parent_present |-> TRUE, child_present |-> TRUE,
         parent_estimated_age |-> 30, child_estimated_age |-> 7]

Aged    == {[Good EXCEPT !.parent_estimated_age = p, !.child_estimated_age = c] :
               p \in {0, 10, 15, 16, 22}, c \in {0, 3, 4, 10, 11, 30}}
Flawed  == {[Good EXCEPT ![f] = FALSE] :
               f \in {"is_appropriate", "is_real_photo", "quality_ok", "faces_unobstructed",
                      "faces_frontal", "parent_present", "child_present"}}
Crowded == {[Good EXCEPT !.number_of_people = n] : n \in {0, 1, 3}}

FewAnswers == {Good} \cup Aged \cup Flawed \cup Crowded

Alike == Permutations(Slots)
=============================================================================
