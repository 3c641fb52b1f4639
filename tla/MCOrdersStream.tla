--------------------------- MODULE MCOrdersStream ---------------------------
(***************************************************************************)
(* One SSE and one WebSocket connection on the stream of one order.        *)
(***************************************************************************)
EXTENDS OrdersStream
=============================================================================
