------------------------------ MODULE MCAccess ------------------------------
(* Two concurrent requests: of the Web UI, whose token comes twice or beside *)
(* a rejected copy, of a handshake, of a pipeline, and of nobody.            *)
EXTENDS Access, TLC

CONSTANTS r1, r2

MCReq == {r1, r2}
From(kind, headers) == [kind |-> kind, headers |-> headers]
MCRequests == {From("read", {"oidc", "badToken"}), From("socket", {"subprotocol"}),
               From("socket", {"subprotocol", "badToken"}), From("lock", {"oidc", "legacy"}),
               From("deploy", {"legacy", "token"}), From("deploy", {"oidc", "badToken"}),
               From("deploy", {})}
Symmetry == Permutations(Req)
=============================================================================
