--------------------------- MODULE MCController ---------------------------
(* Three controllers: one renamed its autoinstall key (alias), one is     *)
(* only interactive for the desktop variant, one is a                     *)
(* NonInteractiveController without a model, shown for server only.       *)
EXTENDS Controller, TLC

CONSTANTS kernel, source, timezone, k1, k2, server, desktop

MCCtrls == {kernel, source, timezone}
MCKeys == {k1, k2}
MCVariants == {server, desktop}
MCKey == (source :> k1 @@ timezone :> k2 @@ kernel :> None)
MCAlias == (source :> k2 @@ timezone :> None @@ kernel :> None)
MCForVariants == (source :> None @@ timezone :> {desktop} @@ kernel :> {server})
MCHasModel == (source :> TRUE @@ timezone :> TRUE @@ kernel :> FALSE)
MCNonInteractive == {kernel}
MCHasDefault == (source :> FALSE @@ timezone :> TRUE @@ kernel :> TRUE)
MCHasSchema == (source :> TRUE @@ timezone :> TRUE @@ kernel :> FALSE)
(* Three server starts: a save, a save cut short, the start that reads it. *)
MCMaxBoots == 3
=============================================================================
