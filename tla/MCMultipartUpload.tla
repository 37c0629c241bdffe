------------------------- MODULE MCMultipartUpload --------------------------
(***************************************************************************)
(* Three parts and two workers: both can be busy while a part is still to  *)
(* be taken, and one can be out while the other is not.                    *)
(***************************************************************************)
EXTENDS MultipartUpload
CONSTANTS w1, w2
MCWorkers == {w1, w2}
=============================================================================
