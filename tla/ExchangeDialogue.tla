-------------------------- MODULE ExchangeDialogue --------------------------
(***************************************************************************)
(* Exchanging one currency for another (ExchangeHandler).  The direction   *)
(* and the amount are written by different steps; the amount's key is also *)
(* the one of transfers, requests and red packets.                         *)
(***************************************************************************)
EXTENDS PinPad

CONSTANTS Direction,        \* records [from, to]: the buttons of the dashboard
          ExchangeAmount,   \* amounts that may be typed
          MinExchange       \* the least amount in a currency

ASSUME ExchangeAssumption ==
  /\ ExchangeAmount \subseteq Nat
  /\ \A d \in Direction : MinExchange[d.from] \in Nat
  /\ {"from_currency", "to_currency", "amount"} \subseteq Key

\* The least amount goes with the currency and is not kept apart.
StartExchange(t, d) ==
  Begin(t, <<Put([module |-> "Exchange", step |-> "input_amount",
                  from_currency |-> d.from, to_currency |-> d.to])>>)

(* Without an amount, or without a pair on offer, the session is cleared.  *)
ExecuteExchange ==
  <<Get({"amount"}), Get({"from_currency"}), Get({"to_currency"}), Do("exchange")>>

ExchangeText(t) ==
  /\ Input(t, "Exchange")
  /\ \/ /\ At("Exchange", "input_amount")
        /\ \E a \in ExchangeAmount :
             Then(t, <<Get({"from_currency"}), Get({"to_currency"}), DoWith("exchange_amount", a)>>)
     \/ At("Exchange", "pin_verified") /\ Then(t, ExecuteExchange)

Offered(from, to) == \E d \in Direction : d.from = from /\ d.to = to

\* Unless the balance is too small or the pair is not offered.
ExchangeInputAmount(t) ==
  /\ Doing(t, "exchange_amount")
  /\ \/ Then(t, <<>>)
     \/ /\ Offered(Saw(t, "from_currency"), Saw(t, "to_currency"))
        /\ Given(t) >= MinExchange[Saw(t, "from_currency")]
        /\ Then(t, <<Put([module |-> "Exchange", step |-> "confirm", amount |-> Given(t)])>>)

\* The step is not looked at.
ConfirmExchange(t) ==
  Begin(t, <<Get({"amount"}), Get({"from_currency"}), Do("confirm_exchange")>>)

\* Faulty variant: the step after the PIN is written first, as payments do.
ExchangeConfirmedEarly(t) ==
  LET order == Order("exchange", session["to_currency"], Saw(t, "amount"), Saw(t, "from_currency"))
  IN  /\ Doing(t, "confirm_exchange")
      /\ \/ AskPIN(t, <<SetStep("Exchange", "pin_verified")>>
                           \o StartPINVerify("Exchange", "pin_verified"), order)
         \/ ~NeedPIN(order.currency, order.amount) /\ Then(t, ExecuteExchange)

ExchangeConfirmed(t) ==
  LET order == Order("exchange", session["to_currency"], Saw(t, "amount"), Saw(t, "from_currency"))
  IN  /\ Doing(t, "confirm_exchange")
      /\ \/ AskPIN(t, StartPINVerify("Exchange", "pin_verified"), order)
         \/ ~NeedPIN(order.currency, order.amount) /\ Then(t, ExecuteExchange)

\* A pair is looked up again; that may fail, too.
ExchangeRead(t) ==
  LET order == Order("exchange", Saw(t, "to_currency"), Saw(t, "amount"), Saw(t, "from_currency"))
  IN  /\ Doing(t, "exchange")
      /\ \/ Then(t, <<Clear>>)
         \/ /\ order.amount # None
            /\ Offered(order.currency, order.to)
            /\ Then(t, <<Submit(order), Clear>>)

ExchangeButton(t) ==
  \/ \E d \in Direction : StartExchange(t, d)
  \/ ConfirmExchange(t)

ExchangePart(t) ==
  \/ ExchangeText(t) \/ ExchangeInputAmount(t) \/ ExchangeConfirmed(t) \/ ExchangeRead(t)
=============================================================================
