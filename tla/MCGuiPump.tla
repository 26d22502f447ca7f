----------------------------- MODULE MCGuiPump -----------------------------
(***************************************************************************)
(* The overview of the GUI while it moves from a host with a disk to one   *)
(* with a network interface.                                               *)
(***************************************************************************)
EXTENDS GuiPump

MCCatalogue == <<{"cap", "disk"}, {"cap", "net"}>>
=============================================================================
