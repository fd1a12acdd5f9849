--------------------------- MODULE PluginExamples ---------------------------
(* The packages that TLC installs: three that are right, one whose         *)
(* manifest grows over the limit when it is written anew, and one for each *)
(* thing that can be wrong with a package.                                 *)
EXTENDS PluginManifest, TLC

Hello == [name |-> "hello", export |-> "greet"]
Manifest(id, commands) ==
  [kind |-> "manifest", apiVersion |-> ApiVersion, id |-> id, name |-> "hello",
   version |-> "1.0.0", entrypoint |-> "hello.wasm", description |-> "hello",
   commands |-> commands, rewritten |-> MaxManifest]
WasmModule(functions) ==
  [kind |-> "module", imports |-> FALSE, instantiates |-> TRUE,
   functions |-> functions]

Reporting(f) == f @@ (VersionExport :> ReturnsApiVersion)
Greeting == WasmModule(Reporting("greet" :> "returns 1" @@ EnableHook :> "returns 0"))
Stubborn == WasmModule(Reporting("greet" :> "trap" @@ EnableHook :> "returns 1"
                                   @@ DisableHook :> "trap"))
Rubbish == [kind |-> "garbage"]

Package(manifest, module) ==
  [path |-> "absolute plugin.json", manifest |-> Regular(1, manifest),
   module |-> Regular(1, module)]
Right == Package(Manifest("shencom.a", <<Hello>>), Greeting)

WrongManifests ==
  LET right == Right.manifest.content
  IN  {[right EXCEPT !.apiVersion = 2], [right EXCEPT !.id = "shencom"],
       [right EXCEPT !.name = " hello"], [right EXCEPT !.version = "one"],
       [right EXCEPT !.commands = <<Hello, Hello>>],
       [right EXCEPT !.commands = <<Hello, [Hello EXCEPT !.name = "again"]>>],
       [right EXCEPT !.commands = <<[Hello EXCEPT !.export = EnableHook]>>],
       [right EXCEPT !.commands = <<Hello, Hello, Hello>>], Rubbish}

WrongModules ==
  {Rubbish, [Greeting EXCEPT !.imports = TRUE],
   [Greeting EXCEPT !.instantiates = FALSE],
   [Greeting EXCEPT !.functions[VersionExport] = "returns 0"],
   [Greeting EXCEPT !.functions[EnableHook] = "another type"],
   WasmModule(Reporting(EnableHook :> "returns 0"))}

Replacements == {Greeting, Stubborn, WasmModule("greet" :> "returns 0")}

Examples ==
  {Right,
   Package(Manifest("shencom.a", <<Hello, [name |-> "again", export |-> "hello"]>>),
           WasmModule(Reporting("greet" :> "returns 1" @@ "hello" :> "returns 0"))),
   Package([Manifest("shencom.a", <<Hello>>) EXCEPT !.rewritten = MaxManifest + 1], Greeting),
   Package(Manifest("shencom.a", <<Hello>>), Stubborn),
   [Right EXCEPT !.path = "relative plugin.json"],
   [Right EXCEPT !.manifest = NoFile],
   [Right EXCEPT !.manifest.kind = "link"],
   [Right EXCEPT !.manifest.size = 0],
   [Right EXCEPT !.manifest.size = MaxManifest + 1],
   [Right EXCEPT !.module.size = MaxModule + 1]}
    \cup {[Right EXCEPT !.manifest.content = manifest] : manifest \in WrongManifests}
    \cup {[Right EXCEPT !.module.content = module] : module \in WrongModules}

=============================================================================
