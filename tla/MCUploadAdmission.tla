------------------------- MODULE MCUploadAdmission -------------------------
(* A bundle of a file and an asset, the same file alone, and another file  *)
(* as large as the bundle.  Limit 3 admits the bundle and then its file,   *)
(* which is a duplicate, but not the bundle and the other file.            *)
EXTENDS UploadAdmission

CONSTANTS bundle, single, other

MCContent == [u \in Upload |-> IF u = other THEN "different" ELSE "same"]
MCParts == [u \in Upload |-> IF u = bundle THEN 2 ELSE 1]
MCSize == [u \in Upload |-> IF u = single THEN 1 ELSE 2]
===========================================================================
