--------------------------- MODULE MCClientsView ----------------------------
(* Clients at one address, at two, and at two others of the same fingerprint.  The hashes are those that          *)
(* addressFingerprint computes, in base 36.                                                                *)
EXTENDS ClientsView
SomeAddresses == {<<"10.0.0.1">>, <<"10.0.0.1", "110.0.0.2">>, <<"10.0.0.11", "10.0.0.2">>}
SomeHash == [text \in {"10.0.0.1", "10.0.0.1110.0.0.2"} |-> IF text = "10.0.0.1" THEN "14iiuqp" ELSE "1pyid1r"]
=============================================================================
