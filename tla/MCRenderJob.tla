---------------------------- MODULE MCRenderJob ----------------------------
(* Instances of RenderJob for TLC.                                          *)
EXTENDS RenderJob

=============================================================================
