------------------------------ MODULE MCCodegen ------------------------------
(***************************************************************************)
(* Codegen over every AST within the bounds of MCCodegen.cfg.              *)
(***************************************************************************)
EXTENDS Codegen
=============================================================================
