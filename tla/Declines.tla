------------------------------ MODULE Declines ------------------------------
(***************************************************************************)
(* What a processor's decline means: the tables that take its codes to     *)
(* canonical ones, and the rules that look for words in its texts.         *)
(*                                                                         *)
(* A table has the native codes of each canonical one.  A text is the set  *)
(* of the words that it contains, of those some rule looks for; rules are  *)
(* in their order, and the first that finds a word decides.  An event has  *)
(* its code or text under the first field that is there.                   *)
(***************************************************************************)
EXTENDS Adapter

HardCodes == {"lost_card", "stolen_card", "closed_account", "invalid_card", "pickup_card",
              "card_not_supported", "revocation_of_authorization"}

\* Whether the same card may be charged again at all.
RetriableCode(code) == code \notin HardCodes \cup {"expired_card", "fraudulent"}

ByTable(table, code) ==
  IF \E c \in DOMAIN table : code \in table[c]
  THEN CHOOSE c \in DOMAIN table : code \in table[c] ELSE "unknown"

ByRules(rules, text) ==
  LET i == SelectInSeq(rules, LAMBDA rule : rule[1] \cap text # {})
  IN IF i = 0 THEN "unknown" ELSE rules[i][2]

Or(code, other) == IF code # "unknown" THEN code ELSE other

Code(n, chain) == FirstOf(n, chain, "-")
Text(n, chain) == FirstOf(n, chain, {})

-----------------------------------------------------------------------------
(* Subscription billers                                                     *)

StripeDeclines ==
  [insufficient_funds |-> {"insufficient_funds"}, issuer_unavailable |-> {"issuer_not_available"},
   processing_error |-> {"processing_error"}, velocity_limit_exceeded |-> {"card_velocity_exceeded"},
   authentication_required |-> {"authentication_required"},
   try_again_later |-> {"try_again_later", "reenter_transaction"},
   lost_card |-> {"lost_card"}, stolen_card |-> {"stolen_card"}, closed_account |-> {"closed_account"},
   invalid_card |-> {"invalid_account", "invalid_number"}, pickup_card |-> {"pickup_card"},
   card_not_supported |-> {"card_not_supported"},
   revocation_of_authorization |-> {"revocation_of_authorization"},
   do_not_honor |-> {"do_not_honor"}, fraudulent |-> {"fraudulent", "merchant_blacklist"},
   expired_card |-> {"expired_card"}]

\* invoice.payment_failed says nothing of the decline.
StripeDecline(n) ==
  IF n.event = "charge.failed"
  THEN ByTable(StripeDeclines, Code(n, <<"decline_code", "failure_code", "outcome_reason">>))
  ELSE "unknown"

ChargebeeDeclines ==
  [insufficient_funds |-> {"insufficient_funds", "insufficient-funds"},
   issuer_unavailable |-> {"issuer_not_available", "issuer_unavailable",
                           "payment_gateway_currently_unreachable"},
   processing_error |-> {"processing_error"},
   try_again_later |-> {"try_again_later", "reenter_transaction"},
   velocity_limit_exceeded |-> {"card_velocity_exceeded", "approve_with_id"},
   authentication_required |-> {"authentication_required", "three_d_secure_failure"},
   lost_card |-> {"lost_card"}, stolen_card |-> {"stolen_card"}, pickup_card |-> {"pickup_card"},
   closed_account |-> {"closed_account"},
   invalid_card |-> {"invalid_account", "invalid_number", "invalid_card", "no_such_issuer"},
   card_not_supported |-> {"card_not_supported", "currency_not_supported"},
   revocation_of_authorization |->
     {"revocation_of_authorization", "revocation_of_all_authorizations"},
   do_not_honor |-> {"do_not_honor", "card_declined"},
   fraudulent |-> {"fraudulent", "fraudulent_transaction", "merchant_blacklist", "suspected_fraud"},
   expired_card |-> {"expired_card", "expired-card"}]
ChargebeeDecline(n) == ByTable(ChargebeeDeclines, Code(n, <<"error_code">>))

RecurlyDeclines ==
  [insufficient_funds |-> {"insufficient_funds"}, try_again_later |-> {"try_again_later"},
   authentication_required |-> {"authentication_required"}, expired_card |-> {"expired_card"},
   card_not_supported |-> {"card_not_supported"}, invalid_card |-> {"invalid_card", "invalid_number"},
   lost_card |-> {"lost_card"}, stolen_card |-> {"stolen_card"}, closed_account |-> {"closed_account"},
   do_not_honor |-> {"declined", "call_issuer"}, fraudulent |-> {"fraud"}]
RecurlyDecline(n) == ByTable(RecurlyDeclines, Code(n, <<"txn_error_code">>))

\* The bug of a general rule before the specific ones.
ZuoraRulesDeclinedFirst ==
  << <<{"insufficient"}, "insufficient_funds">>, <<{"expired"}, "expired_card">>,
     <<{"do not honor", "do not honour", "declined"}, "do_not_honor">>,
     <<{"lost"}, "lost_card">>, <<{"stolen"}, "stolen_card">>,
     <<{"pick up", "pickup"}, "pickup_card">>, <<{"invalid"}, "invalid_card">> >>
ZuoraRules ==
  << <<{"insufficient"}, "insufficient_funds">>, <<{"expired"}, "expired_card">>,
     <<{"lost"}, "lost_card">>, <<{"stolen"}, "stolen_card">>,
     <<{"pick up", "pickup"}, "pickup_card">>,
     <<{"do not honor", "do not honour", "declined"}, "do_not_honor">>,
     <<{"invalid"}, "invalid_card">> >>
ZuoraDecline(n) == ByRules(ZuoraRules, Text(n, <<"gatewayResponse", "gatewayResponseCode">>))

MaxioRules ==
  << <<{"insufficient"}, "insufficient_funds">>, <<{"expired"}, "expired_card">>,
     <<{"lost"}, "lost_card">>, <<{"stolen"}, "stolen_card">>,
     <<{"incorrect_number", "incorrect number", "invalid"}, "invalid_card">>,
     <<{"do not honor", "do not honour", "card_declined", "declined"}, "do_not_honor">> >>
MaxioDecline(n) == ByRules(MaxioRules, Text(n, <<"memo", "message">>))

GoCardlessCauses ==
  [insufficient_funds |-> {"insufficient_funds", "refer_to_payer"},
   closed_account |-> {"bank_account_closed", "account_closed"},
   processing_error |-> {"bank_account_transferred"},
   invalid_card |-> {"invalid_bank_details", "invalid_account_number"},
   revocation_of_authorization |->
     {"mandate_cancelled", "mandate_expired", "mandate_suspended", "payment_stopped",
      "user_cancelled", "customer_approval_denied"},
   do_not_honor |-> {"authorisation_disputed", "return_on_odfi_request"},
   velocity_limit_exceeded |-> {"debit_authority_limit_breached"},
   card_not_supported |-> {"direct_debit_not_enabled"}]
GoCardlessDecline(n) == ByTable(GoCardlessCauses, Code(n, <<"cause">>))

-----------------------------------------------------------------------------
(* Gateways                                                                 *)

\* The exact reason first, words of a longer one after it.
PayPalDeclines ==
  [do_not_honor |-> {"instrument_declined", "transaction_refused", "card_refused", "declined",
                     "do_not_honor", "05"},
   insufficient_funds |-> {"insufficient_funds", "51"},
   expired_card |-> {"expired_card", "card_expired", "54"},
   closed_account |-> {"card_closed", "closed_account"},
   authentication_required |-> {"authentication_required", "payer_action_required",
                                "3d_secure_required"},
   try_again_later |-> {"try_again_later", "reattempt_transaction"},
   issuer_unavailable |-> {"issuer_unavailable"}]
PayPalRules ==
  << <<{"authentication"}, "authentication_required">>, <<{"insufficient"}, "insufficient_funds">>,
     <<{"expired"}, "expired_card">>, <<{"closed"}, "closed_account">>,
     <<{"declined", "refused"}, "do_not_honor">> >>
PayPalDecline(n) ==
  LET reason == FirstOf(n, <<"status_reason", "reason">>, [code |-> "-", text |-> {}])
  IN Or(ByTable(PayPalDeclines, reason.code), ByRules(PayPalRules, reason.text))

CheckoutDeclines ==
  [insufficient_funds |-> {"20051"}, invalid_card |-> {"20005", "20014", "20055", "20012"},
   expired_card |-> {"20054"}, revocation_of_authorization |-> {"20001", "20002"},
   pickup_card |-> {"20004", "20007"}, lost_card |-> {"20041"},
   stolen_card |-> {"20042", "20059", "20063"}, do_not_honor |-> {"20006", "20046", "20087"},
   fraudulent |-> {"20093", "40101"}, issuer_unavailable |-> {"20068", "20091"},
   processing_error |-> {"30041"}, velocity_limit_exceeded |-> {"20061", "20065"},
   authentication_required |-> {"20150"}, card_not_supported |-> {"20057", "20058"}]
CheckoutDecline(n) == ByTable(CheckoutDeclines, Code(n, <<"response_code">>))

WorldpayDeclines ==
  [do_not_honor |-> {"01", "02", "05"}, pickup_card |-> {"04"},
   invalid_card |-> {"12", "14", "15", "75", "78"}, processing_error |-> {"13", "30", "96"},
   lost_card |-> {"41"}, stolen_card |-> {"43"}, insufficient_funds |-> {"51"},
   expired_card |-> {"54"}, card_not_supported |-> {"57", "58", "62"}, fraudulent |-> {"59"},
   velocity_limit_exceeded |-> {"61", "65"}, issuer_unavailable |-> {"91"}]
WorldpayRules ==
  << <<{"insufficient funds"}, "insufficient_funds">>, <<{"expired"}, "expired_card">>,
     <<{"lost card"}, "lost_card">>, <<{"stolen card"}, "stolen_card">>,
     <<{"pick up card", "pickup card"}, "pickup_card">>,
     <<{"do not honor", "do not honour", "refer to card issuer"}, "do_not_honor">>,
     <<{"invalid card number", "invalid card", "invalid transaction"}, "invalid_card">>,
     <<{"not permitted", "restricted card"}, "card_not_supported">>,
     <<{"suspected fraud", "fraud"}, "fraudulent">>, <<{"exceeds"}, "velocity_limit_exceeded">>,
     <<{"issuer"}, "issuer_unavailable">>, <<{"system malfunction"}, "processing_error">> >>
\* The code decides if it is a known one, else the description.
WorldpayDecline(n) ==
  Or(ByTable(WorldpayDeclines, Code(n, <<"refusalCode">>)),
     ByRules(WorldpayRules, Text(n, <<"refusalDescription">>)))

AdyenRules ==
  << <<{"not enough balance", "insufficient funds"}, "insufficient_funds">>,
     <<{"issuer unavailable"}, "issuer_unavailable">>, <<{"acquirer error"}, "processing_error">>,
     <<{"expired"}, "expired_card">>, <<{"invalid card number", "invalid card"}, "invalid_card">>,
     <<{"invalid amount"}, "processing_error">>,
     <<{"3d not authenticated", "not 3d authenticated"}, "authentication_required">>,
     <<{"blocked card"}, "pickup_card">>,
     <<{"restricted card", "not supported", "transaction not permitted"}, "card_not_supported">>,
     <<{"withdrawal amount exceeded", "withdrawal count exceeded"}, "velocity_limit_exceeded">>,
     <<{"revocation of auth"}, "revocation_of_authorization">>,
     <<{"cvc declined", "fraud"}, "fraudulent">>,
     <<{"referral", "declined non generic", "refused"}, "do_not_honor">> >>
AdyenDeclines ==
  [do_not_honor |-> {"2", "3", "27"}, processing_error |-> {"4"}, pickup_card |-> {"5"},
   expired_card |-> {"6"}, invalid_card |-> {"8"}, issuer_unavailable |-> {"9"},
   card_not_supported |-> {"10", "23", "25"}, authentication_required |-> {"11"},
   insufficient_funds |-> {"12"}, fraudulent |-> {"24"}, revocation_of_authorization |-> {"26"}]
\* The text decides, else the number it begins with.
AdyenDecline(n) ==
  LET reason == FirstOf(n, <<"reason", "refusalReasonRaw">>, [code |-> "-", text |-> {}])
  IN Or(ByRules(AdyenRules, reason.text), ByTable(AdyenDeclines, reason.code))

BraintreeDeclines ==
  [do_not_honor |-> {"2000", "2038", "2044", "2046"}, insufficient_funds |-> {"2001"},
   velocity_limit_exceeded |-> {"2002", "2003"}, expired_card |-> {"2004"},
   invalid_card |-> {"2005", "2006", "2008"}, closed_account |-> {"2007"},
   issuer_unavailable |-> {"2009"}, fraudulent |-> {"2010", "2014"},
   authentication_required |-> {"2011"}, lost_card |-> {"2012"}, stolen_card |-> {"2013"},
   card_not_supported |-> {"2015", "2024", "2057"}, processing_error |-> {"2019"},
   pickup_card |-> {"2047"}]
BraintreeDecline(n) == ByTable(BraintreeDeclines, Code(n, <<"processor_response_code">>))

-----------------------------------------------------------------------------
(* Shops                                                                    *)

ShopifyDeclines ==
  [do_not_honor |-> {"payment_method_declined", "card_declined"},
   insufficient_funds |-> {"insufficient_funds"}, expired_card |-> {"expired_payment_method"},
   invalid_card |-> {"invalid_payment_method", "payment_method_not_found"},
   authentication_required |-> {"authentication_error"}]
ShopifyDecline(n) == ByTable(ShopifyDeclines, Code(n, <<"error_code">>))

WooRules ==
  << <<{"insufficient"}, "insufficient_funds">>, <<{"expired"}, "expired_card">>,
     <<{"do not honor", "do not honour"}, "do_not_honor">>, <<{"lost"}, "lost_card">>,
     <<{"stolen"}, "stolen_card">>, <<{"invalid"}, "invalid_card">>,
     <<{"declined"}, "do_not_honor">> >>
WooDecline(n) ==
  ByRules(WooRules, Text(n, <<"failure_message", "failure_code", "customer_note">>))

\* Every advisory adapter has these rules, and no decline without a reason.
AdvisoryRules ==
  << <<{"insufficient"}, "insufficient_funds">>, <<{"expired"}, "expired_card">>,
     <<{"lost"}, "lost_card">>, <<{"stolen"}, "stolen_card">>, <<{"closed"}, "closed_account">>,
     <<{"pickup", "pick up"}, "pickup_card">>,
     <<{"not support", "unsupported"}, "card_not_supported">>,
     <<{"revok", "revoc"}, "revocation_of_authorization">>, <<{"fraud"}, "fraudulent">>,
     <<{"authentication", "3d"}, "authentication_required">>,
     <<{"velocity", "limit"}, "velocity_limit_exceeded">>,
     <<{"unavailable", "unreachable", "issuer"}, "issuer_unavailable">>,
     <<{"try again", "retry"}, "try_again_later">>, <<{"processing"}, "processing_error">>,
     <<{"invalid"}, "invalid_card">>,
     <<{"do not honor", "do_not_honor", "declined", "decline"}, "do_not_honor">> >>
BigCommerceDecline(n) == ByRules(AdvisoryRules, Text(n, <<"decline_reason", "payment_error">>))
ThriveCartDecline(n) ==
  ByRules(AdvisoryRules,
          Text(n, <<"decline_reason", "failure_reason", "order_decline_reason", "reason", "error">>))
KajabiDecline(n) == ByRules(AdvisoryRules, Text(n, <<"decline_code", "failure_reason">>))
SamCartDecline(n) == ByRules(AdvisoryRules, Text(n, <<"decline_reason", "failure_reason">>))
=============================================================================
