----------------------------- MODULE OrderTypes -----------------------------
(***************************************************************************)
(* The vocabulary of backtester-core/src/types.rs: sides, order types, the *)
(* order state machine, and the two hash-map updates every component uses. *)
(***************************************************************************)
EXTENDS Integers

\* "None" is a legal side of a quote tick; such a tick matches nothing.
Side == {"Buy", "Sell", "None"}

\* The resting side an aggressor of side s trades against.
MakerSide(s) ==
  CASE s = "Buy"  -> "Sell"
    [] s = "Sell" -> "Buy"
    [] OTHER      -> "None"

OrderType == {"Limit", "Market"}

OrderState ==
  {"Created", "PendingNew", "Open", "PartiallyFilled", "PendingCancel",
   "Cancelled", "Filled", "Rejected"}

Terminal == {"Cancelled", "Filled", "Rejected"}

IsTerminal(s) == s \in Terminal

(***************************************************************************)
(* OrderState::can_transition_to.                                          *)
(***************************************************************************)
LegalTransition ==
  {<<"Created", "PendingNew">>,
   <<"PendingNew", "Open">>, <<"PendingNew", "Rejected">>,
   <<"PendingNew", "Filled">>, <<"PendingNew", "PartiallyFilled">>,
   <<"Open", "PartiallyFilled">>, <<"Open", "Filled">>,
   <<"Open", "PendingCancel">>,
   <<"PartiallyFilled", "PartiallyFilled">>, <<"PartiallyFilled", "Filled">>,
   <<"PartiallyFilled", "PendingCancel">>, <<"PartiallyFilled", "Cancelled">>,
   <<"PendingCancel", "Cancelled">>, <<"PendingCancel", "Filled">>}

CanTransitionTo(s, t) == <<s, t>> \in LegalTransition

Lesser(a, b) == IF a <= b THEN a ELSE b

\* HashMap::insert and HashMap::remove on partial functions.
Insert(f, k, v) == [x \in DOMAIN f \cup {k} |-> IF x = k THEN v ELSE f[x]]
Erase(f, k) == [x \in DOMAIN f \ {k} |-> f[x]]
=============================================================================
