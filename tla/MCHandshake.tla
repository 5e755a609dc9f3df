---------------------------- MODULE MCHandshake -----------------------------
(****************************************************************************)
(* Zoom may name two hosts, so that the pong can send the bot to another    *)
(* host than the one pinged.                                                *)
(****************************************************************************)
EXTENDS Handshake

CONSTANTS h1, h2
==============================================================================
