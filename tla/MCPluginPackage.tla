-------------------------- MODULE MCPluginPackage ---------------------------
(* An instance of PluginPackage for TLC.                                   *)
EXTENDS PluginPackage, PluginExamples

MCPackages == Examples
MCModules == Replacements
MCTexts == {"hello", "again", "greet", "1.0.0", "hello.wasm",
            VersionExport, EnableHook, DisableHook}
=============================================================================
