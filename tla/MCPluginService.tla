-------------------------- MODULE MCPluginService ---------------------------
(* An instance of PluginService for TLC: plugins are interchangeable.      *)
EXTENDS PluginService, TLC

Interchangeable == Permutations(Plugins)
=============================================================================
