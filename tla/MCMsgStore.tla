----------------------------- MODULE MCMsgStore -----------------------------
(* Instances of MsgStore: who asks for what in each run.                   *)
EXTENDS MsgStore, TLC

CONSTANTS t1, t2, t3, u1, u2

Req(op, u, s) == [op |-> op, user |-> u, seq |-> s]
Three(a, b, c) == (t1 :> a) @@ (t2 :> b) @@ (t3 :> c)

Requests == {
    \* a user deletes and pulls, another one revokes the message next to it
    [req |-> Three(Req("delete", u1, 1), Req("revoke", u2, 2), Req("pull", u1, 1)), fails |-> F] :
        F \in {{"insert"}, {"evict"}, {"get"}}}
  \union {
    \* the same with a message that is removed for everyone
    [req |-> Three(Req("physical", u2, 1), Req("revoke", u2, 2), Req("pull", u1, 1)),
     fails |-> {"insert"}],
    \* a user clears the conversation while the cron task sweeps it and destructs
    \* the messages of another user
    [req |-> Three(Req("clear", u1, 1), Req("cron", u1, 1), Req("destruct", u2, 1)),
     fails |-> {"insert"}],
    \* a delete and a revocation of one message while the conversation is wiped
    [req |-> Three(Req("delete", u1, 2), Req("revoke", u2, 2), Req("wipe", u1, 1)),
     fails |-> {}]}

\* A delete and a revocation of the first messages while everything is cleared, or
\* while the deleting user pulls.
LiveRequests == {
    [req |-> Three(Req("delete", u1, 1), Req("revoke", u2, 2), Req("clearAll", u1, 1)),
     fails |-> {"insert"}],
    [req |-> Three(Req("delete", u1, 1), Req("revoke", u2, 1), Req("pull", u1, 1)),
     fails |-> {"evict"}]}

OneDelete == {[req |-> t1 :> Req("delete", u1, 1), fails |-> {}]}
=============================================================================
