---------------------------- MODULE ShopDialogue ----------------------------
(***************************************************************************)
(* The merchant pages (MerchantHandler): callbacks of the module Shop,     *)
(* text under the module Merchant.  A merchant is made as soon as the      *)
(* button after the PIN is pressed; name, webhook and addresses are asked  *)
(* for one at a time.  The rows are the subject of Records.                *)
(***************************************************************************)
EXTENDS PinPad

CONSTANT Shop    \* the merchants of the user

ASSUME ShopAssumption == "merchant_id" \in Key

\* The prompts, by the step that waits for the answer.
Field == {"set_name", "set_webhook", "add_ip"}

CreateOrder == Order("create_shop", None, None, None)

FieldOrder(m, field) == Order("shop", m, None, field)

\* For a user who had no PIN when the update came in, the keypad sets one.
StartCreateShop(t) ==
  IF pin = None THEN Begin(t, StartPINSetup("Shop", "pin_verified"))
                ELSE Begin(t, <<Do("create_shop")>>)

CreateShopAsks(t) ==
  /\ Doing(t, "create_shop")
  /\ AskPIN(t, StartPINVerify("Shop", "pin_verified"), CreateOrder)

\* Pressed at any step; the session is cleared first.
ShopPINVerified(t) == Begin(t, <<Clear, Submit(CreateOrder)>>)

\* The cancel buttons show a page of the merchant and leave the step.
PromptField(t, m, field) ==
  Begin(t, <<Put([module |-> "Merchant", step |-> field, merchant_id |-> m]),
             Show(FieldOrder(m, field))>>)

MerchantText(t) ==
  /\ Input(t, "Merchant")
  /\ \E field \in Field : At("Merchant", field) /\ Then(t, <<DoWith("field", field)>>)

\* A name that is too long is refused before the service is asked.
FieldInput(t) ==
  LET field == Given(t)
  IN  /\ Doing(t, "field")
      /\ IF session["merchant_id"] = None
           THEN Then(t, <<Clear>>)
           ELSE \/ field = "set_name" /\ Then(t, <<>>)
                \/ Then(t, <<Submit(FieldOrder(session["merchant_id"], field)),
                             DoWith("field_done", field)>>)

(* A webhook or an address that is refused leaves the step for another     *)
(* try; nothing else does.                                                 *)
FieldReturns(t) ==
  /\ Doing(t, "field_done") /\ call[t] = None
  /\ \/ Then(t, <<Clear>>)
     \/ Given(t) # "set_name" /\ Then(t, <<>>)

ShopButton(t) ==
  \/ StartCreateShop(t)
  \/ ShopPINVerified(t)
  \/ \E m \in Shop, field \in Field : PromptField(t, m, field)

ShopPart(t) == CreateShopAsks(t) \/ MerchantText(t) \/ FieldInput(t) \/ FieldReturns(t)
=============================================================================
