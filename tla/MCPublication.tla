--------------------------- MODULE MCPublication ---------------------------
(* Small instances of Publication for TLC. *)
EXTENDS Publication

Is(scope, supD, supC) == [scope |-> scope, supD |-> supD, supC |-> supC]

\* Shown in both places, moved to a chapter, and kept off both.
FewChoices == {Is("lug", FALSE, FALSE), Is("chap", FALSE, FALSE), Is("lug", TRUE, TRUE)}
=============================================================================
