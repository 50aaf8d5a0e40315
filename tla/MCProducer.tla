----------------------------- MODULE MCProducer -----------------------------
(* Producer with a message left on disk and two or more new ones.          *)
EXTENDS Producer

CONSTANTS m0, m1, m2

ThreeMessages == {m0, m1, m2}
OneLeft       == <<m0>>
=============================================================================
