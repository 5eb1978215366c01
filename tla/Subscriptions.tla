--------------------------- MODULE Subscriptions ---------------------------
(***************************************************************************)
(* What the hub promises to those who subscribe and to those who push,     *)
(* without saying how: no slices, no arrays, no locks.                     *)
(*                                                                         *)
(* A user has a set of streams; a stream joins and leaves in one instant.  *)
(* A push plans to visit the streams its user has at one instant of the    *)
(* call, each once, and returns when it has made as many visits.  It keeps *)
(* to its plan unless it is disturbed: a stream of the same user leaves    *)
(* meanwhile.  From then on a visit may go to any stream of that user      *)
(* (one twice, another never), but still to no other.                      *)
(***************************************************************************)
EXTENDS Naturals, Sequences

CONSTANTS
  Users,
  Streams,
  Pushers,    \* whoever pushes
  Nobody      \* no user

VARIABLES
  subscribers,  \* subscribers[u]: the streams of user u
  owner,        \* owner[s]: whose stream s is, or was
  target,       \* target[p]: the user p is pushing to, or Nobody
  plan,         \* plan[p]: the streams p is to visit, in this order
  sent,         \* sent[p]: the streams p has visited
  disturbed     \* disturbed[p]: a stream of the user has left meanwhile

boardVars == <<subscribers, owner, target, plan, sent, disturbed>>

Init ==
  /\ subscribers = [u \in Users |-> {}]
  /\ owner = [s \in Streams |-> Nobody]
  /\ target = [p \in Pushers |-> Nobody]
  /\ plan = [p \in Pushers |-> <<>>]
  /\ sent = [p \in Pushers |-> <<>>]
  /\ disturbed = [p \in Pushers |-> FALSE]

Join(s, u) ==
  /\ owner[s] = Nobody
  /\ owner' = [owner EXCEPT ![s] = u]
  /\ subscribers' = [subscribers EXCEPT ![u] = @ \cup {s}]
  /\ UNCHANGED <<target, plan, sent, disturbed>>

\* It may disturb some of the pushes to this user, and no others.
Leave(s, u) ==
  /\ s \in subscribers[u]
  /\ subscribers' = [subscribers EXCEPT ![u] = @ \ {s}]
  /\ \E D \in SUBSET {p \in Pushers : target[p] = u} :
       disturbed' = [p \in Pushers |-> disturbed[p] \/ p \in D]
  /\ UNCHANGED <<owner, target, plan, sent>>

\* A list of the elements of a set, each once.
Lists(list, S) ==
  /\ {list[k] : k \in DOMAIN list} = S
  /\ \A j, k \in DOMAIN list : list[j] = list[k] => j = k

Begin(p, u) ==
  /\ target[p] = Nobody
  /\ target' = [target EXCEPT ![p] = u]
  /\ Lists(plan'[p], subscribers[u])
  /\ plan' = [plan EXCEPT ![p] = plan'[p]]
  /\ UNCHANGED <<subscribers, owner, sent, disturbed>>

Visit(p, s) ==
  /\ target[p] # Nobody
  /\ owner[s] = target[p]
  /\ Len(sent[p]) < Len(plan[p])
  /\ disturbed[p] \/ s = plan[p][Len(sent[p]) + 1]
  /\ sent' = [sent EXCEPT ![p] = Append(@, s)]
  /\ UNCHANGED <<subscribers, owner, target, plan, disturbed>>

End(p) ==
  /\ target[p] # Nobody
  /\ Len(sent[p]) = Len(plan[p])
  /\ target' = [target EXCEPT ![p] = Nobody]
  /\ plan' = [plan EXCEPT ![p] = <<>>]
  /\ sent' = [sent EXCEPT ![p] = <<>>]
  /\ disturbed' = [disturbed EXCEPT ![p] = FALSE]
  /\ UNCHANGED <<subscribers, owner>>

Next ==
  \/ \E s \in Streams, u \in Users : Join(s, u) \/ Leave(s, u)
  \/ \E p \in Pushers, u \in Users : Begin(p, u)
  \/ \E p \in Pushers, s \in Streams : Visit(p, s)
  \/ \E p \in Pushers : End(p)

Spec == Init /\ [][Next]_boardVars
=============================================================================
