--------------------------- MODULE MCDispatchGuard ---------------------------
(* Small instances of DispatchGuard for TLC: one of what a call can spend, *)
(* one of what a delegation can allow.                                     *)
EXTENDS DispatchGuard, TLC

CONSTANTS p1, p2

Push == [type |-> "push", target |-> "main"]
MergeMain == [type |-> "merge", target |-> "main"]
Read == [type |-> "read", target |-> "repo"]

(* A guarded push, two guarded pushes in one action, a read that is only   *)
(* counted, and one that is only watched.                                  *)
SpendRequests ==
  {[actor |-> "agent", group |-> "g1", intents |-> <<Push>>, delegation |-> None],
   [actor |-> "agent", group |-> "g2", intents |-> <<Push, Push>>, delegation |-> None],
   [actor |-> "agent", group |-> "g3", intents |-> <<Read>>, delegation |-> None],
   [actor |-> "reader", group |-> "g4", intents |-> <<Read>>, delegation |-> None]}

(* An action in the root session, one in its child, and one of which       *)
(* nothing is asked: nothing in them is guarded, no budget is for their    *)
(* actors.                                                                 *)
DelegatedRequests ==
  {[actor |-> "deputy", group |-> "g1", intents |-> <<Read>>, delegation |-> "leaf"],
   [actor |-> "owner", group |-> "g2", intents |-> <<MergeMain>>, delegation |-> "root"],
   [actor |-> "deputy", group |-> "g3", intents |-> <<Read>>, delegation |-> None]}

AllRequests == SpendRequests \cup DelegatedRequests

ApprovalOfAgent ==
  [a \in Approvals |-> [actor |-> "agent", intent |-> Push, issued |-> 0, expires |-> 2,
                        sound |-> TRUE]]

CloudForPush == [c \in CloudApprovals |-> Push]

(* The leaf can be registered as a narrower or as a too long child.        *)
RootAndLeaf ==
  {[id |-> "root", parent |-> None, actor |-> "owner", expires |-> 3,
    scope |-> [types |-> {"merge", "read"}, targets |-> {"*"}]],
   [id |-> "leaf", parent |-> "root", actor |-> "deputy", expires |-> 2,
    scope |-> [types |-> {"read"}, targets |-> {"repo"}]],
   [id |-> "leaf", parent |-> "root", actor |-> "deputy", expires |-> 4,
    scope |-> [types |-> {"read"}, targets |-> {"*"}]],
   [id |-> "leaf", parent |-> "root", actor |-> "deputy", expires |-> 2,
    scope |-> [types |-> {"read", "write"}, targets |-> None]]}

NoGrants == {}

Workspace == [id \in Delegations |-> [intents |-> {MergeMain, Read}, expires |-> 3]]

(* A budget that enforces and one that only watches.                       *)
Policies ==
  [b \in Budgets |->
     [actor |-> IF b = "watch" THEN "reader" ELSE "agent", types |-> {"push", "read"},
      max |-> 1, window |-> 1, mode |-> IF b = "watch" THEN "monitor" ELSE "enforce",
      shared |-> FALSE, expires |-> 4, acked |-> TRUE]]

Patterns == {<<"*", t>> : t \in {"*", "main", "repo"}} \cup {<<t, t>> : t \in {"main", "repo"}}

Symmetry == Permutations(Procs)
=============================================================================
