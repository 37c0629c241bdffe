---------------------------- MODULE AtomicUpload ----------------------------
(***************************************************************************)
(* What one upload promises its caller, whatever becomes of its parts: the *)
(* object appears at once and whole, or not at all; an upload reported as  *)
(* done has published it; a file's reported as cancelled never does.  One  *)
(* that is reported as failed, or whose tab is closed, promises neither;   *)
(* nor does a stream's cancelled: the paste it belongs to was cancelled,   *)
(* whatever its own calls came to.                                         *)
(***************************************************************************)
VARIABLES source, object, outcome

Init == source \in {"file", "stream"} /\ object = "absent" /\ outcome = "running"

Undecided ==
    {"running", "failed", "closed"} \cup {c \in {"cancelled"} : source = "stream"}

Publish ==
    /\ object = "absent" /\ outcome \in Undecided
    /\ object' = "whole"
    /\ UNCHANGED <<source, outcome>>

Settle ==
    /\ outcome = "running"
    /\ \/ outcome' = "done" /\ object = "whole"
       \/ outcome' = "cancelled" /\ (source = "file" => object = "absent")
       \/ outcome' \in {"failed", "closed"}
    /\ UNCHANGED <<source, object>>

Spec == Init /\ [][Publish \/ Settle]_<<source, object, outcome>>
=============================================================================
