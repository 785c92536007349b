-------------------------- MODULE WithdrawDialogue --------------------------
(***************************************************************************)
(* The withdrawal dialogue (WithdrawHandler) behind the Wallet callbacks   *)
(* (WalletCallbackHandler), which ask a user without a PIN to set one.     *)
(* Whether the PIN is needed is decided with the address and kept in the   *)
(* session; the confirmation is the only one that looks at the step.       *)
(***************************************************************************)
EXTENDS PinPad

CONSTANTS Address,           \* valid addresses a user may type
          WithdrawAmount,    \* amounts that ValidateAmount accepts
          WithdrawCurrency   \* USDT and TRX; CNY shows a placeholder

ASSUME WithdrawAssumption ==
  /\ WithdrawAmount \subseteq Nat \ {0}
  /\ None \notin Address /\ None \notin WithdrawCurrency
  /\ {"withdraw_currency", "withdraw_amount", "withdraw_address", "withdraw_need_pin"} \subseteq Key

\* Faulty variant: whoever comes to the wallet is asked to set a PIN.
WalletSetupAlways(t) == Begin(t, StartPINSetup("Wallet", "withdraw_menu"))

\* Any Wallet callback of a user who had no PIN when the update came in.
WalletSetup(t) == pin = None /\ Begin(t, StartPINSetup("Wallet", "withdraw_menu"))

StartWithdraw(t, c) ==
  /\ pin # None
  /\ Begin(t, <<Put([module |-> "Wallet", step |-> "withdraw_amount", withdraw_currency |-> c])>>)

WithdrawText(t) ==
  /\ Input(t, "Wallet")
  /\ \/ At("Wallet", "withdraw_amount") /\ Then(t, <<Do("withdraw_amount")>>)
     \/ /\ At("Wallet", "withdraw_address")
        /\ \E address \in Address :
             Then(t, <<Get({"withdraw_currency"}), Get({"withdraw_amount"}),
                       DoWith("withdraw_address", address)>>)

WithdrawAmountInput(t) ==
  /\ Doing(t, "withdraw_amount")
  /\ IF session["withdraw_currency"] = None
       THEN Then(t, <<Clear>>)
       ELSE \/ Then(t, <<>>)
            \/ \E a \in WithdrawAmount :
                 Then(t, <<Put([module |-> "Wallet", step |-> "withdraw_address",
                                withdraw_amount |-> a])>>)

WithdrawOrder(t, address) ==
  Order("withdraw", address, Saw(t, "withdraw_amount"), Saw(t, "withdraw_currency"))

\* The step to be confirmed, once the address is known; and the page.
WithdrawPage(order, need) ==
  <<Put([module |-> "Wallet", step |-> "withdraw_confirm",
         withdraw_address |-> order.to, withdraw_need_pin |-> need]),
    Show(order)>>

\* BuildConfirmInfo and the confirmation page, unless the database fails.
WithdrawAddressInput(t) ==
  LET order == WithdrawOrder(t, Given(t))
  IN  /\ Doing(t, "withdraw_address")
      /\ IF None \in {order.currency, order.amount}
           THEN Then(t, <<Clear>>)
           ELSE \/ Then(t, <<>>)
                \/ Then(t, WithdrawPage(order, NeedPIN(order.currency, order.amount)))

WithdrawConfirm(t) == pin # None /\ Begin(t, <<Do("withdraw_confirm")>>)

WithdrawConfirmed(t) ==
  /\ Doing(t, "withdraw_confirm")
  /\ IF At("Wallet", "withdraw_confirm") THEN Then(t, <<Do("withdraw_need_pin")>>)
                                         ELSE Then(t, <<>>)

(* need_pin is dropped before the keypad is entered and the step leaves    *)
(* this one; the keypad comes back to it only with the right PIN.          *)
WithdrawNeedsPIN(t) ==
  LET order == Order("withdraw", session["withdraw_address"], session["withdraw_amount"],
                     session["withdraw_currency"])
  IN  /\ Doing(t, "withdraw_need_pin")
      /\ IF session["withdraw_need_pin"] = TRUE
           THEN AskPIN(t, <<Put([withdraw_need_pin |-> FALSE])>>
                            \o StartPINVerify("Wallet", "withdraw_confirm"), order)
           ELSE Then(t, <<Get({"withdraw_currency"}), Get({"withdraw_amount"}),
                          Get({"withdraw_address"}), Do("withdraw")>>)

WithdrawalRead(t) ==
  LET order == WithdrawOrder(t, Saw(t, "withdraw_address"))
  IN  /\ Doing(t, "withdraw")
      /\ IF None \in {order.to, order.amount, order.currency}
           THEN Then(t, <<Clear>>)
           ELSE Then(t, <<Submit(order), Clear>>)

WalletButton(t) ==
  \/ WalletSetup(t)
  \/ \E c \in WithdrawCurrency : StartWithdraw(t, c)
  \/ WithdrawConfirm(t)

WithdrawPart(t) ==
  \/ WithdrawText(t) \/ WithdrawAmountInput(t) \/ WithdrawAddressInput(t)
  \/ WithdrawConfirmed(t) \/ WithdrawNeedsPIN(t) \/ WithdrawalRead(t)
=============================================================================
