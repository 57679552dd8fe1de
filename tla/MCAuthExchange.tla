--------------------------- MODULE MCAuthExchange ---------------------------
\* AuthExchange with few clients, names and requests.
EXTENDS AuthExchange, TLC
=============================================================================
