---------------------------- MODULE MCAutoReplies ----------------------------
(***************************************************************************)
(* Small instances of AutoReplies for TLC.                                 *)
(***************************************************************************)
EXTENDS AutoReplies, TLC

CONSTANTS i1, i2, t1

OneThread == (i1 :> t1) @@ (i2 :> t1)

=============================================================================
