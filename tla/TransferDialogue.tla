--------------------------- MODULE TransferDialogue ---------------------------
(***************************************************************************)
(* Sending money to another user (TransferHandler), asking another user    *)
(* for money and paying such a request (ReceiveHandler).  They share the   *)
(* data keys amount and currency.  A button can be pressed as long as its  *)
(* message exists, so only what a handler checks restricts when a callback *)
(* comes.  The order is read again after the PIN was judged.               *)
(***************************************************************************)
EXTENDS PinPad

CONSTANTS User,       \* users known to the bot, other than this one
          Amount,     \* amounts that may be typed or asked for
          Currency,   \* currencies offered on the buttons
          MinAmount,  \* the least amount of a transfer in a currency
          Request     \* what other users ask this one to pay

ASSUME TransferAssumption ==
  /\ Amount \subseteq Nat \ {0}
  /\ "USDT" \in Currency
  /\ MinAmount \in [Currency -> Nat]
  /\ None \notin User /\ None \notin Request
  /\ {"to", "amount", "currency", "pay_transfer_id"} \subseteq Key

VARIABLE request      \* transfers.status of the requests

TransferInit == request = [q \in Request |-> "Pending"]

RequestOrder(q) == Order("pay", q, q.amount, q.currency)

-----------------------------------------------------------------------------
(* Transfer. *)

ShowSendDashboard(t) == Begin(t, <<SetStep("Transfer", "select_recipient")>>)

(* The recipient is known by name, by id or by a forwarded message, and is *)
(* never the user himself.  The amount is judged as an amount of USDT      *)
(* until the currency is known; it is written before the step is.  Any     *)
(* message is taken as the word to go on after the PIN.                    *)
ExecuteTransfer == <<Get({"amount"}), Get({"currency"}), Get({"to"}), Do("transfer")>>

TransferText(t) ==
  /\ Input(t, "Transfer")
  /\ \/ /\ At("Transfer", "select_recipient")
        /\ \E u \in User :
             Then(t, <<Put([module |-> "Transfer", step |-> "input_amount", to |-> u])>>)
     \/ /\ At("Transfer", "input_amount")
        /\ \E a \in Amount :
             /\ a >= MinAmount["USDT"]
             /\ Then(t, <<Put([amount |-> a]), SetStep("Transfer", "select_currency")>>)
     \/ At("Transfer", "pin_verified") /\ Then(t, ExecuteTransfer)

SelectCurrency(t, c) == Begin(t, <<DoWith("select_currency", c)>>)

(* Unless the amount is too small for the currency or the balance.  The    *)
(* step is not looked at.                                                  *)
CurrencySelected(t) ==
  LET c == Given(t)
  IN  /\ Doing(t, "select_currency")
      /\ \/ Then(t, <<>>)
         \/ /\ session["amount"] # None
            /\ session["amount"] >= MinAmount[c]
            /\ Then(t, <<Put([currency |-> c]), SetStep("Transfer", "confirm")>>)

\* The step is not looked at.
ConfirmTransfer(t) == Begin(t, <<Get({"amount"}), Get({"currency"}), Do("confirm_transfer")>>)

\* Faulty variant: the limit is judged as if every amount were of USDT.
TransferConfirmedInUSDT(t) ==
  LET order == Order("transfer", session["to"], Saw(t, "amount"), Saw(t, "currency"))
  IN  /\ Doing(t, "confirm_transfer")
      /\ \/ AskPIN(t, StartPINVerify("Transfer", "pin_verified"), order)
         \/ ~NeedPIN("USDT", order.amount) /\ Then(t, ExecuteTransfer)

TransferConfirmed(t) ==
  LET order == Order("transfer", session["to"], Saw(t, "amount"), Saw(t, "currency"))
  IN  /\ Doing(t, "confirm_transfer")
      /\ \/ AskPIN(t, StartPINVerify("Transfer", "pin_verified"), order)
         \/ ~NeedPIN(order.currency, order.amount) /\ Then(t, ExecuteTransfer)

(* An amount that is missing leaves the session alone; a missing recipient *)
(* is not found by the service.                                            *)
TransferRead(t) ==
  LET order == Order("transfer", Saw(t, "to"), Saw(t, "amount"), Saw(t, "currency"))
  IN  /\ Doing(t, "transfer")
      /\ IF order.amount = None THEN Then(t, <<>>)
         ELSE IF order.to = None THEN Then(t, <<Clear>>)
         ELSE Then(t, <<Submit(order), Clear>>)

-----------------------------------------------------------------------------
(* Receive: asking for money, in USDT. *)

ShowReceiveDashboard(t) == Begin(t, <<SetStep("Receive", "input_amount")>>)

(* The session is cleared before the payment; the service reads the status *)
(* of the request again, and no payment ever changes it.                   *)
ExecuteReceivePayment == <<Do("pay")>>

ReceiveText(t) ==
  /\ Input(t, "Receive")
  /\ \/ /\ At("Receive", "input_amount")
        /\ \E a \in Amount :
             /\ a >= MinAmount["USDT"]
             /\ Then(t, <<Put([module |-> "Receive", step |-> "select_payer",
                               amount |-> a, currency |-> "USDT"]),
                          Show(Order("request", None, a, "USDT"))>>)
     \/ /\ At("Receive", "select_payer")
        /\ Then(t, <<Get({"amount"}), Get({"currency"}), Do("request")>>)
     \/ At("Receive", "execute_pay") /\ Then(t, ExecuteReceivePayment)

\* Without a currency it is USDT; without an amount the session is left alone.
RequestRead(t) ==
  LET currency == IF Saw(t, "currency") = None THEN "USDT" ELSE Saw(t, "currency")
  IN  /\ Doing(t, "request")
      /\ IF Saw(t, "amount") = None THEN Then(t, <<>>)
         ELSE Then(t, <<Submit(Order("request", None, Saw(t, "amount"), currency)), Clear>>)

\* Paying: the step is written before it is known whether a PIN is needed.
PayConfirm(t, q) ==
  /\ request[q] = "Pending"
  /\ Begin(t, <<Put([module |-> "Receive", step |-> "execute_pay", pay_transfer_id |-> q]),
                DoWith("pay_pin", q)>>)

PayConfirmed(t) ==
  LET order == RequestOrder(Given(t))
  IN  /\ Doing(t, "pay_pin")
      /\ \/ AskPIN(t, StartPINVerify("Receive", "execute_pay"), order)
         \/ ~NeedPIN(order.currency, order.amount) /\ Then(t, ExecuteReceivePayment)

PaymentRead(t) ==
  /\ Doing(t, "pay")
  /\ IF session["pay_transfer_id"] = None
       THEN Then(t, <<Clear>>)
       ELSE Then(t, <<Clear, Submit(RequestOrder(session["pay_transfer_id"]))>>)

\* Whoever presses; a request that is not pending is left as it is.
PayReject(q) ==
  /\ request[q] = "Pending"
  /\ request' = [request EXCEPT ![q] = "Rejected"]
  /\ UNCHANGED <<session, task, call, page, approval>>

TransferButton(t) ==
  \/ ShowSendDashboard(t)
  \/ \E c \in Currency : SelectCurrency(t, c)
  \/ ConfirmTransfer(t)

ReceiveButton(t) ==
  \/ ShowReceiveDashboard(t)
  \/ \E q \in Request : PayConfirm(t, q)

TransferPart(t) ==
  \/ TransferText(t) \/ CurrencySelected(t) \/ TransferConfirmed(t) \/ TransferRead(t)
  \/ ReceiveText(t) \/ RequestRead(t) \/ PayConfirmed(t) \/ PaymentRead(t)
=============================================================================
