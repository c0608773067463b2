-------------------------- MODULE MCExtensionStore --------------------------
(* An instance of ExtensionStore: an old build, the one that ships, one *)
(* that fails its last check, and a rebuild of it under the same version.   *)
EXTENDS ExtensionStore

CONSTANTS core, extra

MCBoth == {core, extra}
MCBuilds == 1 .. 4
MCVersion == <<1, 2, 3, 3>>
MCBroken == {3}
MCBundled == [id \in Ids |-> IF id = core THEN 2 ELSE NoBuild]
=============================================================================
