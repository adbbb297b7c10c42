--------------------------- MODULE MCInboundVault ----------------------------
(* A small instance of RecipientViews for TLC. *)
EXTENDS RecipientViews, MCInboundPath, MCRelayTransit, TLC

CONSTANTS t1, t2, t3, t4, w, m, n, c1, c2

Do(op, u) == [op |-> op, u |-> u]

\* Two Welcomes of two epochs, a receipt and a reader; one nonce over two transports, a reader and a
\* mark; two first sends of one entry, another one and a scan; a Welcome that overtakes
\* what belongs to it.
Mixes == {
    t1 :> Do("install", w) @@ t2 :> Do("install", m) @@ t3 :> Do("receive", n) @@ t4 :> Do("read", n),
    t1 :> Do("read", w) @@ t2 :> Do("receive", n) @@ t3 :> Do("receive", n) @@ t4 :> Do("mark", m),
    t1 :> Do("create", n) @@ t2 :> Do("create", n) @@ t3 :> Do("create", m) @@ t4 :> Do("scan", w),
    t1 :> Do("install", w) @@ t2 :> Do("receive", n) @@ t3 :> Do("mark", m) @@ t4 :> Do("scan", w)}
=============================================================================
