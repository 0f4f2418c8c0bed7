--------------------------- MODULE MCSettingsFiles --------------------------
(* Small instances of SettingsFiles: a plain value, an empty one and one   *)
(* with a "=".                                                             *)
EXTENDS SettingsFiles

CONSTANTS a, b, v, w

MCParts == {a, b, v, w, Empty, Cut}
MCTexts == {<<v>>, <<Empty>>, <<v, w>>}
=============================================================================
