---------------------------- MODULE RewardLedger ----------------------------
(***************************************************************************)
(* What the reward loop of the policy engine promises, without queues,     *)
(* polls or clocks: every selection the bandit acted on is settled at most *)
(* once, by one outcome row that settles nothing else or by a timeout, and *)
(* is otherwise still open or was lost with the process that held it.      *)
(***************************************************************************)
CONSTANTS
    Order,      \* the order ids the policy engine issues
    Row         \* the identities of exec_outcomes rows

VARIABLES
    open,       \* selections waiting for their reward
    settled,    \* selections that have been rewarded
    lost,       \* selections a stopped process took with it
    used        \* rows that have settled a selection

ledgerVars == <<open, settled, lost, used>>

Init ==
    /\ open = {}
    /\ settled = {}
    /\ lost = {}
    /\ used = {}

\* A plan is emitted and its selection starts to wait.
Issue(o) ==
    /\ o \notin open \cup settled \cup lost
    /\ open' = open \cup {o}
    /\ UNCHANGED <<settled, lost, used>>

\* A row that has settled nothing settles one open selection.
Settle(o, r) ==
    /\ o \in open
    /\ r \notin used
    /\ open' = open \ {o}
    /\ settled' = settled \cup {o}
    /\ used' = used \cup {r}
    /\ UNCHANGED lost

\* Open selections time out and are settled without a row.
Expire(S) ==
    /\ S \subseteq open
    /\ open' = open \ S
    /\ settled' = settled \cup S
    /\ UNCHANGED <<lost, used>>

\* The process stops: S is settled on the way out, the rest is lost.
Stop(S) ==
    /\ S \subseteq open
    /\ open' = {}
    /\ settled' = settled \cup S
    /\ lost' = lost \cup (open \ S)
    /\ UNCHANGED used

Next ==
    \/ \E o \in Order : Issue(o)
    \/ \E o \in Order, r \in Row : Settle(o, r)
    \/ \E S \in SUBSET Order : Expire(S) \/ Stop(S)

Spec == Init /\ [][Next]_ledgerVars
=============================================================================
