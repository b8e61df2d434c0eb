--------------------------- MODULE OutputDirectory ---------------------------
(* What whoever looks into the destination directory may rely on, whatever   *)
(* happens in between: a file under a user's name appears at once and sound, *)
(* is never replaced, goes only while its job is not done, and a job that is *)
(* done has one, which stays.                                                *)
CONSTANTS Jobs, Names,
          Absent,     \* no file of that name
          Stranger    \* who else writes to the directory

VARIABLES output,     \* the file of each name, and who wrote it
          done        \* the jobs that are said to be completed

Sound(who) == [by |-> who, sound |-> TRUE]

HasOutput(j) == \E n \in Names : output[n] = Sound(j)

Init == output = [n \in Names |-> Absent] /\ done = {}

(* A job publishes, or somebody else puts a file there.                      *)
Appear(who, n) ==
    /\ who \notin done /\ output[n] = Absent
    /\ output' = [output EXCEPT ![n] = Sound(who)]
    /\ UNCHANGED done

(* A job that cannot finish takes back what it has published.                *)
Retract(j, n) ==
    /\ j \notin done /\ output[n] = Sound(j)
    /\ output' = [output EXCEPT ![n] = Absent]
    /\ UNCHANGED done

Complete(j) ==
    /\ j \notin done /\ HasOutput(j)
    /\ done' = done \cup {j}
    /\ UNCHANGED output

Next ==
    \/ \E n \in Names : \/ \E who \in Jobs \cup {Stranger} : Appear(who, n)
                        \/ \E j \in Jobs : Retract(j, n)
    \/ \E j \in Jobs : Complete(j)

Spec == Init /\ [][Next]_<<output, done>>
=============================================================================
