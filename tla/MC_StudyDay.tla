----------------------------- MODULE MC_StudyDay -----------------------------
(* A small instance of StudyDay: devices are interchangeable, and so are the *)
(* activities, which are all required.                                       *)
EXTENDS StudyDay, TLC

DaySymmetry == {p @@ q : p \in Permutations(Devices), q \in Permutations(Activities)}
=============================================================================
