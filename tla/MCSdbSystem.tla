---------------------------- MODULE MCSdbSystem ----------------------------
(* Instances of SdbSystem for TLC.                                         *)
EXTENDS SdbSystem

OneProcess == {"c1"}

AllVerbs == {"get", "create", "delete"}
=============================================================================
