----------------------------- MODULE MCLspClient -----------------------------
(* Instances of LspClient. *)
EXTENDS LspClient
=============================================================================
