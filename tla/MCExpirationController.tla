----------------------- MODULE MCExpirationController -----------------------
(* Sizes for model checking ExpirationController. *)
EXTENDS ExpirationController

MCKeySize   == [k \in Key |-> 1]
MCValueSize == [v \in Value |-> 1]
=============================================================================
