---------------------------- MODULE MCHandshake ----------------------------
(* Instances of Handshake for TLC: packs of one and two faults, a limit    *)
(* that an int of four bits holds and one that it does not.                *)
EXTENDS Handshake

OneAndTwo == {<<"first">>, <<"first", "second">>}
Values    == {"first", "second", "other"}
=============================================================================
