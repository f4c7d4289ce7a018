---------------------------- MODULE MCSubmission ----------------------------
(* Small instances of Submission for TLC. *)
EXTENDS SubmissionInv, TLC

\* Every typed number dials a phone of its own.
CleanApart == [n \in Numbers |-> n]

\* A limit that a second job reaches, for a number whose jobs are held, and
\* one that it does not.
OneAtATime == {[maxVideos |-> 1, allowMultiple |-> FALSE, held |-> Numbers, unlimited |-> {}],
               [maxVideos |-> 2, allowMultiple |-> FALSE, held |-> {}, unlimited |-> {}]}

\* Nothing special is set.
Plain == {[maxVideos |-> 2, allowMultiple |-> FALSE, held |-> {}, unlimited |-> {}]}

\* Request slots are interchangeable, and what is checked with them is safety.
Slots == Permutations(Requests)
=============================================================================
