---------------------------- MODULE MCToolUpdate ----------------------------
(* Values for the constants of ToolUpdate.                                  *)
EXTENDS ToolUpdate

CONSTANTS background, manual
TwoVersions == {1, 2}
ThreeVersions == {1, 2, 3}
OneManual   == {manual}
=============================================================================
