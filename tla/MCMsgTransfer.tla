-------------------------- MODULE MCMsgTransfer --------------------------
(* Small instances of MsgTransfer: one or two keys on one partition, so    *)
(* that two conversations share the buffers and, where ChanOf says so, a   *)
(* worker.                                                                 *)
EXTENDS MsgTransfer

CONSTANTS i1, i2, p1, k1, k2, c1, c2, u1, u2

Msg(k, s, u, notification, history, sendMsg) ==
    [key |-> k, session |-> s, from |-> u, sorted |-> u = u1, notification |-> notification,
     history |-> history, sendMsg |-> sendMsg, reaction |-> FALSE]

OneKey    == {k1}
TwoKeys   == {k1, k2}
OnP1      == [k \in Key |-> p1]
OwnChan   == [k \in Key |-> IF k = k1 THEN c1 ELSE c2]

\* two users of a pair, and a group
Chats == {Msg(k1, "si", u1, FALSE, TRUE, FALSE), Msg(k2, "sg", u2, FALSE, TRUE, FALSE)}
\* the same and a message that is pushed but not stored
ChatsAndTyping == Chats \cup {Msg(k1, "si", u2, FALSE, FALSE, FALSE)}
\* a reaction, which is a notification, among ordinary messages
Reactions == {Msg(k1, "si", u1, FALSE, TRUE, FALSE),
              [Msg(k1, "si", u2, TRUE, TRUE, FALSE) EXCEPT !.reaction = TRUE]}
\* the two session types that share the key of a pair
Mixed == {Msg(k1, "si", u1, FALSE, TRUE, FALSE), Msg(k1, "sn", u2, FALSE, TRUE, FALSE)}
=============================================================================
