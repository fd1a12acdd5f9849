SPECIFICATION Spec
CONSTANTS
  Packages <- MCPackages
  Ids = {"shencom.a"}
  Texts <- MCTexts
  Calls = {"hello", "again"}
  Modules <- MCModules
  MaxManifest = 2
  MaxModule = 1
  MaxCommands = 2
  Times = {1, 2}
  MaxReplaced = 0
INVARIANTS
  EnabledPluginsReload
