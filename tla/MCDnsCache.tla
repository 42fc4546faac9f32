----------------------------- MODULE MCDnsCache -----------------------------
(* A small instance of the DNS cache for TLC.                               *)
EXTENDS DnsCache

Answer(kind, ttl) == [type |-> kind, ttl |-> ttl]

\* An address; one reached through an alias that expires earlier; one that may
\* not be cached.
SomeResponses ==
  {[valid |-> TRUE, answers |-> {Answer("A", 2)}],
   [valid |-> TRUE, answers |-> {Answer("A", 2), Answer("CNAME", 1)}],
   [valid |-> TRUE, answers |-> {Answer("A", 0)}],
   [valid |-> TRUE, answers |-> {Answer("CNAME", 1)}],
   [valid |-> FALSE, answers |-> {Answer("A", 2)}]}
=============================================================================
