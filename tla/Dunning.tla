------------------------------ MODULE Dunning ------------------------------
(***************************************************************************)
(* Asking a customer to update a card: deliverDunning of the case service. *)
(*                                                                         *)
(* A try of the execute activity composes the message, passes it by the    *)
(* guardrail and delivers it.  What it knows of the customer came with the *)
(* webhook that opened the case and travels in the workflow's input.       *)
(***************************************************************************)
EXTENDS Delivery, Guardrail

CONSTANTS
  Reminders,  \* the messages: <<invoice, attempt>>
  Hours,      \* the local hours at which an activity may run
  Customers,  \* who they may go to: consent and addresses, per channel, and optedOut
  Templates,  \* what composeTemplate can make of this merchant's configuration
  channel     \* DunningCommsConfig.channel

ASSUME DunningAssumption ==
  /\ Customers \subseteq
       [consent : SUBSET Channels, addresses : SUBSET Channels, optedOut : BOOLEAN]
  /\ Templates \subseteq Texts /\ channel \in Channels /\ Hours \subseteq 0..23

VARIABLES
  customer,   \* the webhook's customer
  template    \* this merchant's

dunningVars == <<customer, template>>

QuietHours == [start |-> 21, end |-> 8]

\* The bug of a gate that asks for any consent.
GateAnyConsent(hour) ==
  [kind |-> "comms", hasConsent |-> customer.consent # {},
   globallyOptedOut |-> customer.optedOut, localHour |-> hour]

\* The bug of a gate that does not ask who has unsubscribed.
GateAnyoneWilling(hour) ==
  [kind |-> "comms", hasConsent |-> channel \in customer.consent,
   globallyOptedOut |-> FALSE, localHour |-> hour]

\* What deliverDunning proposes to the guardrail.
Gate(hour) ==
  [kind |-> "comms", hasConsent |-> channel \in customer.consent,
   globallyOptedOut |-> customer.optedOut, localHour |-> hour]

\* A try of the activity has a message for the customer: written by a model or from the
\* template, let through by the guardrail, and for a customer with an address.
Dun(p, k) ==
  /\ \E hour \in Hours : Allows(Gate(hour), [quietHours |-> QuietHours])
  /\ channel \in customer.addresses
  /\ \E written \in {{}, {Plain(FALSE)}} :
       Open(p, k, Sendable(channel, Compose(written, template), customer.addresses))
  /\ UNCHANGED dunningVars

\* Nobody is sent a message who had not consented to its channel, or had opted out, when
\* the case was opened.
OnlyWithConsent ==
  \A k \in Reminders : inbox[k] > 0 => channel \in customer.consent /\ ~customer.optedOut
=============================================================================
