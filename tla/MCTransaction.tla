--------------------------- MODULE MCTransaction ---------------------------
(***************************************************************************)
(* Instances of Transaction for TLC.                                       *)
(***************************************************************************)
EXTENDS Transaction, TLC

\* An application and the library it needs.
Two == {"app", "lib"}
AppNeedsLib == {<<"app", "lib">>}

\* The new library holds what the application was; the application may be installed
\* twice.
LibObsoletesApp == {<<"lib", "app">>}
AppTwice == {"app"}
=============================================================================
