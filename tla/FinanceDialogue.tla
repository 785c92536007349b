--------------------------- MODULE FinanceDialogue ---------------------------
(***************************************************************************)
(* Buying the daily-interest product (FinanceHandler) and the free limit   *)
(* of the personal page (ProfileHandler).                                  *)
(***************************************************************************)
EXTENDS PinPad

CONSTANTS InvestAmount,   \* amounts between the least and the largest
          NewLimit,       \* limits a user may type
          LimitCurrency   \* USDT and TRX

ASSUME FinanceAssumption ==
  /\ InvestAmount \subseteq Nat \ {0}
  /\ NewLimit \subseteq Nat
  /\ FreeLimit \in [LimitCurrency -> Nat] /\ None \notin LimitCurrency
  /\ {"invest_amount", "adjust_currency", "adjust_amount"} \subseteq Key

-----------------------------------------------------------------------------
(* Finance. *)

PromptInvestAmount(t) == Begin(t, <<SetStep("Finance", "invest_amount")>>)

InvestOrder(amount) == Order("invest", None, amount, "USDT")

DoInvest == <<Do("invest")>>

FinanceText(t) ==
  /\ Input(t, "Finance")
  /\ \/ /\ At("Finance", "invest_amount")
        /\ \E a \in InvestAmount :
             Then(t, <<Put([module |-> "Finance", step |-> "confirm_invest", invest_amount |-> a]),
                       Show(InvestOrder(a))>>)
     \/ At("Finance", "pin_verified") /\ Then(t, DoInvest)

\* The step is not looked at.
ConfirmInvest(t) == Begin(t, <<Get({"invest_amount"}), Do("confirm_invest")>>)

InvestConfirmed(t) ==
  LET order == InvestOrder(Saw(t, "invest_amount"))
  IN  /\ Doing(t, "confirm_invest")
      /\ IF order.amount = None
           THEN Then(t, <<Clear>>)
           ELSE \/ AskPIN(t, StartPINVerify("Finance", "pin_verified"), order)
                \/ ~NeedPIN("USDT", order.amount) /\ Then(t, DoInvest)

\* Neither the button nor the text after the PIN looks at anything else.
InvestRead(t) ==
  /\ Doing(t, "invest")
  /\ IF session["invest_amount"] = None
       THEN Then(t, <<Clear>>)
       ELSE Then(t, <<Submit(InvestOrder(session["invest_amount"])), Clear>>)

-----------------------------------------------------------------------------
(* The free limit. *)

ProfileSetup(t) == pin = None /\ Begin(t, StartPINSetup("Profile", "dashboard"))

StartAdjustLimit(t, c) ==
  Begin(t, <<Put([module |-> "Profile", step |-> "adjust_limit_input", adjust_currency |-> c])>>)

AdjustOrder(amount, currency) == Order("adjust", None, amount, currency)

ProfileText(t) ==
  /\ Input(t, "Profile")
  /\ \/ /\ At("Profile", "adjust_limit_input")
        /\ \E a \in NewLimit :
             AskPIN(t, <<Put([adjust_amount |-> a])>>
                         \o StartPINVerify("Profile", "adjust_limit_pin"),
                    AdjustOrder(a, session["adjust_currency"]))
     \/ /\ At("Profile", "adjust_limit_pin")
        /\ Then(t, <<Get({"adjust_currency"}), Get({"adjust_amount"}), Do("adjust")>>)

\* UpdateSmallFreeLimit; the session is cleared whether it succeeds or not.
AdjustRead(t) ==
  /\ Doing(t, "adjust")
  /\ Then(t, <<Clear>>)
  /\ \/ UNCHANGED limit
     \/ /\ Saw(t, "adjust_amount") # None
        /\ Saw(t, "adjust_currency") \in LimitCurrency
        /\ limit' = [limit EXCEPT ![Saw(t, "adjust_currency")] = Saw(t, "adjust_amount")]
  /\ UNCHANGED <<pin, locked>>

FinanceButton(t) ==
  \/ PromptInvestAmount(t)
  \/ ConfirmInvest(t)
  \/ Begin(t, DoInvest)

ProfileButton(t) ==
  \/ ProfileSetup(t)
  \/ \E c \in LimitCurrency : StartAdjustLimit(t, c)

FinancePart(t) == FinanceText(t) \/ InvestConfirmed(t) \/ InvestRead(t) \/ ProfileText(t)
=============================================================================
