--------------------------- MODULE MCSetupScreen ---------------------------
(* SetupScreen on a small instance: a model that can be read and one that      *)
(* cannot, and a machine whose chip has no profile at first and is not the one *)
(* the list falls back to.                                                     *)
EXTENDS SetupScreen

BeforeAutoscan == <<"other">>
AfterAutoscan == <<"other", "here">>

OpenedWith == {None, "m1"}
GivenChips == {None, "other"}
=============================================================================
