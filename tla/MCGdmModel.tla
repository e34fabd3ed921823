---------------------------- MODULE MCGdmModel ----------------------------
(* Instance of GdmModel for TLC.                                          *)
EXTENDS GdmModel, TLC

=============================================================================
