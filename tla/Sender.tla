------------------------------- MODULE Sender -------------------------------
(***************************************************************************)
(* The transport of messages (packages/comms): what an agent composes,     *)
(* what a sender refuses to send, and what it makes of a provider's        *)
(* answer.  It keeps no state.                                             *)
(*                                                                         *)
(* Of a text only this matters: whether it is empty, whether it has the    *)
(* card-update link and the opt-out, and whether some run of digits in it  *)
(* looks like a card number, as an invoice id in the link can.             *)
(***************************************************************************)
EXTENDS Integers

Channels == {"email", "sms"}
Texts == [empty : BOOLEAN, complete : BOOLEAN, panLike : BOOLEAN]
Plain(panLike) == [empty |-> FALSE, complete |-> TRUE, panLike |-> panLike]

\* validateMessage.
Valid(text) == ~text.empty /\ text.complete /\ ~text.panLike

\* LlmDunningAgent: what the model wrote, if it is valid; the template otherwise, which
\* nobody validates.  {} is a model that failed, or none.
Compose(written, template) ==
  IF \E t \in written : Valid(t) THEN CHOOSE t \in written : Valid(t) ELSE template

\* assertSendable; addresses is the set of channels the recipient has an address for.
Sendable(channel, text, addresses) ==
  ~text.empty /\ ~text.panLike /\ channel \in addresses

(***************************************************************************)
(* A request reaches the provider's queue or not, whatever is answered: a  *)
(* 2xx says that it did, a 4xx that it did not, and after a 5xx, a 429, a  *)
(* network error or the ten seconds of the timeout nobody knows.           *)
(***************************************************************************)
ProviderAnswers ==
  {a \in [lands : BOOLEAN, says : {"sent", "refused", "busy", "silence"}] :
     /\ a.says = "sent" => a.lands
     /\ a.says = "refused" => ~a.lands}

Retriable(a) == a.says \in {"busy", "silence"}

\* The bug of a sender that tries once too often.
TriesAgainOnceMore(a, try, max) == Retriable(a) /\ try <= max

\* RetryingDunningSender: passing failures are tried again, as long as tries are left.
TriesAgain(a, try, max) == Retriable(a) /\ try < max
=============================================================================
