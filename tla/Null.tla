-------------------------------- MODULE Null --------------------------------
(* The null pointer of the library's modules.                              *)
CONSTANT NULL
=============================================================================
