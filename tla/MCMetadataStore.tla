-------------------------- MODULE MCMetadataStore --------------------------
(* The metadata store alone, with small constants for TLC.                 *)
EXTENDS MetadataStore
=============================================================================
