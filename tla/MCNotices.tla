------------------------------ MODULE MCNotices ------------------------------
(* TLC instance of Notices: one merchant, one month, one reminder. *)
EXTENDS Notices, TLC

CONSTANTS September, p1, p2

MCProcs == {p1, p2}
Either == Permutations(MCProcs)

MCPeriods == {September}
MCReminders == {<<1, 1>>}
MCKeys == MCReminders \union (MCPeriods \X Stages)
MCTemplates == {Plain(FALSE), Plain(TRUE)}

\* Wants no email, although an SMS would do; and does.
Silent == [consent |-> {"sms"}, addresses |-> Channels, optedOut |-> FALSE]
Willing == [consent |-> {"email"}, addresses |-> {"email"}, optedOut |-> FALSE]
\* Agreed to it once, and has unsubscribed since.
Unsubscribed == [consent |-> {"email"}, addresses |-> {"email"}, optedOut |-> TRUE]
MCCustomers == {Silent, Willing, Unsubscribed}

MCDeployments ==
  {[live |-> MCReminders, customer |-> c, template |-> t, optIns |-> 0] :
     c \in MCCustomers, t \in MCTemplates}
  \union
  {[live |-> MCPeriods \X Stages, customer |-> Silent, template |-> Plain(FALSE),
    optIns |-> 1]}
=============================================================================
