---------------------------- MODULE PhotoTickets ----------------------------
(***************************************************************************)
(* What the burst queue promises for each photo it takes in: the photo     *)
(* waits once, is worked on once, and then has its result or was given up  *)
(* for lack of capacity.  Nothing is promised for a photo that a fault hit *)
(* (a command sent twice, a crash of the worker that held it): such a one  *)
(* may be in several places, or in none.                                   *)
(*                                                                         *)
(* PhotoQueue implements it: one step of a process moves one photo on.     *)
(***************************************************************************)

CONSTANT Ids

VARIABLES place,   \* of each photo, the set of places it is in
          harmed   \* photos hit by a fault

Places == {"queue", "worker", "finished", "dropped"}

(* Where a photo goes from where it is: enqueue, dequeue, and the two ends *)
(* of process_single_item.                                                 *)
Onward(P) == CASE P = {}         -> {{"queue"}}
               [] P = {"queue"}  -> {{"worker"}}
               [] P = {"worker"} -> {{"finished"}, {"dropped"}}
               [] OTHER          -> {}

Init == place = [id \in Ids |-> {}] /\ harmed = {}

Moved == {id \in Ids \ harmed' : place'[id] # place[id]}

Next == /\ harmed \subseteq harmed' /\ harmed' \subseteq Ids
        /\ place' \in [Ids -> SUBSET Places]
        /\ \A id \in Moved : place'[id] \in Onward(place[id])
        /\ \A i, k \in Moved : i = k

Spec == Init /\ [][Next]_<<place, harmed>>
=============================================================================
