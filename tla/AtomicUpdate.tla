---------------------------- MODULE AtomicUpdate ----------------------------
(***************************************************************************)
(* What package recovery promises the loader, which runs after it at every *)
(* boot: the files of a package are the old ones or the new ones, never a  *)
(* mixture, and a package that was applied or undone stays so.             *)
(*                                                                         *)
(* fate is what the journal has decided; seen is the set of versions the   *)
(* loader met among the files of the package at the last boot.             *)
(***************************************************************************)

VARIABLES fate, seen

Init == fate = "open" /\ seen = {"old"}

\* A package on trial can still be confirmed or rejected; the rest is final.
Decide ==
    /\ <<fate, fate'>> \in {<<"open", "trial">>, <<"open", "applied">>,
                            <<"open", "undoing">>, <<"trial", "applied">>,
                            <<"trial", "undoing">>, <<"undoing", "undone">>}
    /\ UNCHANGED seen

\* The loader never runs while the package is open or half undone.
Load ==
    /\ <<fate, seen'>> \in {<<"trial", {"new"}>>, <<"applied", {"new"}>>,
                            <<"undone", {"old"}>>}
    /\ UNCHANGED fate

Next == Decide \/ Load
Spec == Init /\ [][Next]_<<fate, seen>>
=============================================================================
