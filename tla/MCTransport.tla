----------------------------- MODULE MCTransport -----------------------------
(***************************************************************************)
(* Two concurrent calls, short delays, and callbacks that keep the request *)
(* or replace its body as net/http asks (with its GetBody).                *)
(***************************************************************************)
EXTENDS RateLimitTransport

CONSTANTS c1, c2

MCTwoCalls == {c1, c2}
MCOneCall  == {c1}
MCBodies   == {"old", "new"}
MCDelays   == {0, 1, 2}
MCKeep     == {"keep", "replace", "unreadable"}
=============================================================================
