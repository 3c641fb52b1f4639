----------------------------- MODULE MCWsQuotes -----------------------------
(***************************************************************************)
(* Two consumers; lists of one conid, of two, and with a duplicate.        *)
(***************************************************************************)
EXTENDS WsQuotes

CONSTANTS k1, k2

MCRequests == {<<k1>>, <<k1, k2>>, <<k2, k2>>}

SingleRequests == {<<k1>>, <<k2>>}
=============================================================================
