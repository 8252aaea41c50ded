----------------------------- MODULE MCKeepalive -----------------------------
EXTENDS Keepalive
=============================================================================
