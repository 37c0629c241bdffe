-------------------------- MODULE MCClipboardPaste --------------------------
(***************************************************************************)
(* Two objects, one of them in a folder, pasted twice: within the context  *)
(* of the clipboard, where one is in place already, and across contexts.   *)
(* All sizes are the same, so that a comparison of sizes proves as little  *)
(* as it can.                                                              *)
(***************************************************************************)
EXTENDS ClipboardPaste

CONSTANTS here, there

TwoPastes == {here, there}
OnePaste == {there}
PastePlaces == {"source1", "source2", "here1", "there1", "there2"}
Sources == <<"source1", "source2">>
Apart == [p \in TwoPastes |-> IF p = here THEN <<"here1", "source2">>
                             ELSE <<"there1", "there2">>]
SameSizes == <<1, 1>>
Folder == {2}

\* The other context reaches the very place the objects are in.
OntoItself == [p \in OnePaste |-> Sources]
=============================================================================
