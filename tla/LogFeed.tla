------------------------------- MODULE LogFeed -------------------------------
(***************************************************************************)
(* What a client of the StakeHub binding is promised: the logs it asked    *)
(* for, one at a time and in the order of the chain.                       *)
(***************************************************************************)
EXTENDS Naturals, Sequences

CONSTANT Clients

VARIABLES
    seen,     \* what each client has received
    wanted    \* what there is for it to receive

FeedInit ==
    /\ seen = [c \in Clients |-> <<>>]
    /\ wanted = [c \in Clients |-> <<>>]

\* More logs appear, for any of the clients, after those there were.
Grow ==
    /\ \A c \in Clients :
           /\ Len(wanted[c]) <= Len(wanted'[c])
           /\ \A n \in 1..Len(wanted[c]) : wanted'[c][n] = wanted[c][n]
    /\ UNCHANGED seen

\* A client receives the first log it has not received yet.
Deliver(c) ==
    /\ Len(seen[c]) < Len(wanted[c])
    /\ seen' = [seen EXCEPT ![c] = Append(@, wanted[c][Len(@) + 1])]
    /\ UNCHANGED wanted

FeedNext == Grow \/ \E c \in Clients : Deliver(c)

FeedSpec == FeedInit /\ [][FeedNext]_<<seen, wanted>>
=============================================================================
