---------------------------- MODULE MCRateLimiter ----------------------------
(* RateLimiter for TLC, behind two proxies.                                *)
EXTENDS RateLimiter, TLC

CONSTANTS t1, ip1, ip2

Anonymous(address, sent) == [token |-> NoToken, address |-> address, sent |-> sent]

\* A caller with a token, one whose address alone is forwarded, and one that
\* sends a header with the other's address.
MCCaller ==
  { [token |-> t1, address |-> ip1, sent |-> <<>>],
    Anonymous(ip1, <<>>),
    Anonymous(ip2, <<ip1>>) }

Interchangeable == Permutations(Request)
=============================================================================
