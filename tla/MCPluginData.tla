---------------------------- MODULE MCPluginData ----------------------------
(* The model-checking instances of PluginData. *)
EXTENDS PluginData
=============================================================================
