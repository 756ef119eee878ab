--------------------------- MODULE MCToolMappings ---------------------------
(* Small instance of ToolMappings. *)
EXTENDS ToolMappings
=============================================================================
