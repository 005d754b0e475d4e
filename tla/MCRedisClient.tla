----------------------------- MODULE MCRedisClient -----------------------------
(***************************************************************************)
(* RedisClient for TLC: two servers, one of them with requirepass, two     *)
(* contexts and two passwords, one of them wrong.                          *)
(***************************************************************************)
EXTENDS RedisClient, TLC

CONSTANTS open, locked, c1, c2, secret, wrong

MCEndpoint == {open, locked}
MCContext  == {c1, c2}
MCPassword == {secret, wrong}
MCRequirePass == (open :> NoPassword) @@ (locked :> secret)
=============================================================================
