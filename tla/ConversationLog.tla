-------------------------- MODULE ConversationLog --------------------------
(***************************************************************************)
(* What message transfer promises to everyone who reads a conversation: a  *)
(* log per conversation that only grows at its end, and messages that are  *)
(* announced to clients and to the document store only under the place     *)
(* they have in that log. Numbering, caching, batching, crashes and the    *)
(* move from redis to Mongo are not visible here.                          *)
(***************************************************************************)
EXTENDS Naturals, Sequences

CONSTANTS
    Conv    \* conversations

VARIABLES
    log,    \* per conversation: what a read of each seq returns, as a set
    told    \* what was announced: the message of a conversation under a seq

logVars == <<log, told>>

LogInit ==
    /\ log = [c \in Conv |-> <<>>]
    /\ told = {}

Grows(old, new) == Len(old) < Len(new) /\ SubSeq(new, 1, Len(old)) = old

\* a read returns exactly one message
Holes(l) == {s \in 1 .. Len(l) : \A m \in l[s] : l[s] # {m}}

\* a batch becomes readable at the end of one conversation
Extend(c) ==
    /\ Grows(log[c], log'[c]) /\ Holes(log'[c]) = {}
    /\ \A d \in Conv \ {c} : log'[d] = log[d]
    /\ UNCHANGED told

\* announced messages stand in the log under the seq they are announced with
Announce ==
    /\ told \subseteq told'
    /\ \A e \in told' \ told : e.seq \in 1 .. Len(log[e.conv]) /\ log[e.conv][e.seq] = {e.msg}
    /\ UNCHANGED log

LogNext == (\E c \in Conv : Extend(c)) \/ Announce

LogSpec == LogInit /\ [][LogNext]_logVars
=============================================================================
