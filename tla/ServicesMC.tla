------------------------------ MODULE ServicesMC ------------------------------
(* Values for model checking Services that a .cfg cannot write. *)
EXTENDS Services

MCTexts == {<<"a", "b">>, <<"c">>}
MCCrLf == <<"eol">>

=============================================================================
