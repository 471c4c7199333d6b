------------------------------ MODULE Endpoints ------------------------------
(***************************************************************************)
(* The HTTP endpoints the client exposes (public.py, private.py; the async *)
(* mixins expose the same ones) and the way _transport.py classifies them. *)
(* What a method sends besides its path, and the model its answer is       *)
(* parsed into, do not matter to the request loop.                         *)
(***************************************************************************)

\* PublicAPI: unsigned reads.
PublicReads ==
  {"getmarkets", "getboard", "getticker", "getexecutions", "getboardstate",
   "gethealth", "getfundingrate", "getfundingratehistory",
   "getcorporateleverage", "getchats"}

\* PrivateAPI: signed reads of permissions, balances, addresses and deposits.
AccountReads ==
  {"me/getpermissions", "me/getbalance", "me/getcollateral",
   "me/getcollateralaccounts", "me/getaddresses", "me/getcoinins",
   "me/getcoinouts", "me/getbankaccounts", "me/getdeposits"}

\* PrivateAPI: the signed read of what was withdrawn.
WithdrawalReads == {"me/getwithdrawals"}

\* PrivateAPI: moves cash off the exchange.
Withdrawals == {"me/withdraw"}

\* PrivateAPI: places and cancels orders.
OrderWrites ==
  {"me/sendchildorder", "me/cancelchildorder", "me/sendparentorder",
   "me/cancelparentorder", "me/cancelallchildorders"}

\* PrivateAPI: signed reads of orders, executions and positions.
TradingReads ==
  {"me/getchildorders", "me/getparentorders", "me/getparentorder",
   "me/getexecutions", "me/getbalancehistory", "me/getpositions",
   "me/getcollateralhistory", "me/gettradingcommission"}

Writes == Withdrawals \cup OrderWrites

Endpoint ==
  PublicReads \cup AccountReads \cup WithdrawalReads \cup TradingReads \cup Writes

\* _get and _post of the engine: every write is a signed POST.
Method(e) == IF e \in Writes THEN "POST" ELSE "GET"

Private(e) == e \notin PublicReads

\* ORDER_PATHS: cancelling one order at a time is not metered.
OrderPaths == {"me/sendchildorder", "me/sendparentorder", "me/cancelallchildorders"}

\* NEVER_RETRY_PATHS
NeverRetryPaths == {"me/withdraw"}
=============================================================================
