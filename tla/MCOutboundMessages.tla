------------------------- MODULE MCOutboundMessages -------------------------
(***************************************************************************)
(* Small instances of OutboundMessages for TLC.                            *)
(***************************************************************************)
EXTENDS OutboundMessages, TLC

CONSTANTS m1, m2, t1

OneThread == (m1 :> t1) @@ (m2 :> t1)
OneReply == m1 :> t1

Edited == m1 :> 2
EditFirst == (m1 :> 2) @@ (m2 :> 1)

=============================================================================
