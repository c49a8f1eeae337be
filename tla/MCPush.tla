------------------------------- MODULE MCPush -------------------------------
(* Small instances of Group and Push: three users and three requests.     *)
EXTENDS Push, TLC

CONSTANTS a, b, c, g1, g2

\* b's role; a is the owner and c is outside
Start(r) == [u \in User |-> CASE u = a -> "owner" [] u = b -> r [] OTHER -> "none"]

\* a request with nothing to wait for
Ask(op, by, user) == [op |-> op, by |-> by, user |-> user, role |-> "ordinary", after |-> {}]
After(r, s) == [r EXCEPT !.after = s]
With(r, x) == [r EXCEPT !.role = x]

Requests(work) ==
    [start |-> Start("ordinary"), verification |-> Directly, work |-> work,
     fails |-> {}, settled |-> TRUE, moves |-> {}]

\* messages while b moves between the gateways and members come and go; or while keys
\* of a new group are not deleted; or while the calls of the push service fail
Delivery ==
    {[Requests(<<Ask("send", a, a), r>>) EXCEPT !.fails = {"gateway"}, !.moves = {b}]
        : r \in {Ask("single", a, b), Ask("join", c, c), Ask("quit", b, b)}}
    \union
    {[Requests(<<Ask("join", c, c), Ask("send", a, a)>>)
         EXCEPT !.fails = {"evict"}, !.settled = FALSE],
     [Requests(<<Ask("send", a, a), Ask("quit", b, b)>>) EXCEPT !.fails = {"rpc"}]}

\* b leaves and comes back, c enters and is removed: the service's cap fails, in a new
\* group, or its notices do, and the push service is late or its calls fail
Leaving ==
    {[Requests(w) EXCEPT !.fails = {"cap"}, !.settled = FALSE]
        : w \in {<<Ask("quit", b, b), After(Ask("join", b, b), {1})>>,
                 <<Ask("join", c, c), After(Ask("kick", a, c), {1})>>}}
    \union
    {[Requests(<<Ask("quit", b, b)>>) EXCEPT !.fails = {"notify", "late"}],
     [Requests(<<Ask("invite", a, c), After(Ask("kick", a, c), {1})>>)
         EXCEPT !.fails = {"notify", "rpc"}]}

\* a dismisses the group while b acts on it
Dismissal ==
    {[Requests(<<Ask("dismiss", a, a), r>>) EXCEPT !.start = Start("admin"), !.settled = s]
        : r \in {Ask("mute", b, b), Ask("unmute", b, b), Ask("send", b, b), Ask("invite", b, c)},
          s \in BOOLEAN}

\* requests to enter, answered twice or crossed by an invitation or a message
Entering ==
    {[Requests(<<Ask("invite", b, c), With(After(Ask("respond", a, c), {1}), x),
                 Ask("invite", a, c)>>)
         EXCEPT !.verification = AllNeedVerification] : x \in {"none", "ordinary"}}
    \union
    {[Requests(<<Ask("join", c, c), After(Ask("respond", a, c), {1}), Ask("send", a, a)>>)
         EXCEPT !.verification = ApplyNeedVerificationInviteDirectly]}

\* a gives the group to b, and at the same time a role, or removes b; or b quits, and
\* there is no owner to dismiss the group
Roles ==
    {Requests(<<Ask("transfer", a, b), r>>)
        : r \in {With(Ask("setRole", a, b), "admin"), Ask("kick", a, b)}}
    \union
    {Requests(<<Ask("transfer", a, b), Ask("quit", b, b), After(Ask("dismiss", a, a), {2})>>)}

Pushed == Delivery \union Leaving \union Dismissal \union Entering \union Roles

Owned == {Requests(<<Ask("transfer", a, b), Ask("quit", b, b)>>)}
=============================================================================
