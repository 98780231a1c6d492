---------------------------- MODULE MCHandshake -----------------------------
(* A three-hop cpath, and key material of distinct bytes.                  *)
EXTENDS Handshake

MCPath == <<"r1", "r2", "r3">>

MCKeyMaterial == {<<1, 2, 3, 4, 5, 6>>, <<6, 5, 4, 3, 2, 1>>}
=============================================================================
