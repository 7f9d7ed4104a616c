-------------------------- MODULE MCResponseDelivery --------------------------
(***************************************************************************)
(* The instance of ResponseDelivery that TLC checks; the configurations    *)
(* give its constants their values.                                        *)
(***************************************************************************)
EXTENDS ResponseDelivery
=============================================================================
