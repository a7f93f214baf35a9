----------------------------- MODULE MCPairing -----------------------------
EXTENDS Pairing

(* Step 1 is a CBOR map with a 64-byte key, step 3 one with a nonce and a  *)
(* tag, the commit one with a time and a tag: 4, 2 and 1 fragments.        *)
MCPkgLen == [step1 |-> 71, step3 |-> 26, commit |-> 18]

=============================================================================
