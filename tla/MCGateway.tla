----------------------------- MODULE MCGateway -----------------------------
(* Small instances of Gateway: two or three connections of one or two     *)
(* users.                                                                  *)
EXTENDS Gateway, TLC

CONSTANTS a, b, c, u1, u2, mobile, web, pc, r1

\* every connection logs in with a token of its own
OwnToken == [x \in Conn |-> x]

KickMobile == {<<u1, mobile>>}
NoTarget == {}
\* u1 logs in on its phone through another node, with c's token
RemoteMobile == {[user |-> u1, platform |-> mobile, token |-> c]}

\* all connections are of u1, on its phone
Phones == [user |-> [x \in Conn |-> u1], platform |-> [x \in Conn |-> mobile],
           policy |-> AllLoginButSameTermKick, chanCap |-> 3, poolReuse |-> FALSE,
           serviceFails |-> FALSE, talker |-> {}, remoteLogin |-> {}]

\* x and another one are of u1, x on the web; c is another user's
TwoUsers(x) ==
    [user |-> [y \in Conn |-> IF y = c THEN u2 ELSE u1],
     platform |-> [y \in Conn |-> IF y = x THEN web ELSE mobile],
     policy |-> DefalutNotKick, chanCap |-> 2, poolReuse |-> TRUE,
     serviceFails |-> TRUE, talker |-> {a, b} \ {x}, remoteLogin |-> {}]

\* no kicks, or kicks of the same platform with a login through another node;
\* the set is closed under the exchange of a and b
Logins == {TwoUsers(a), TwoUsers(b), [Phones EXCEPT !.remoteLogin = RemoteMobile]}
\* channels with a place for every sender, and channels that fill
Served == {[Phones EXCEPT !.chanCap = 1], [Phones EXCEPT !.chanCap = 4, !.talker = {a}]}
Repeated == {Phones}

\* two connections no RPC mentions
Twins == Permutations({a, b})
=============================================================================
