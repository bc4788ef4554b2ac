------------------------- MODULE MCPluginLifecycle -------------------------
(* The model-checking instances of PluginLifecycle. *)
EXTENDS PluginLifecycle

AllPolicies == {"always", "never", "onError"}
=============================================================================
