--------------------------- MODULE MCSocks5Client ----------------------------
EXTENDS Socks5Client

Chunks == [d \in Directions |-> IF d = "up" THEN 1 ELSE 2]
=============================================================================
