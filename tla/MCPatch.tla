------------------------------- MODULE MCPatch -------------------------------
(* The files and diffs of FilesData for Patch alone.                          *)
EXTENDS Patch, FilesData
=============================================================================
