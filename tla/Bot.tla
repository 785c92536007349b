-------------------------------- MODULE Bot --------------------------------
(***************************************************************************)
(* One user and the bot: every dialogue works on the same session, any     *)
(* button that was ever shown may be pressed at any time, a text goes to   *)
(* the dialogue the session names (DefaultMessageHandler), and several     *)
(* updates may be handled at the same time.                                *)
(***************************************************************************)
EXTENDS TransferDialogue, WithdrawDialogue, ExchangeDialogue, FinanceDialogue,
        RedPacketDialogue, ShopDialogue

CONSTANTS Use,    \* bound: which dialogues a user goes through in one behaviour
          Once    \* bound: handlers meet, or Redis fails, once in a conversation

ASSUME BotAssumption ==
  /\ Use \subseteq SUBSET {"Transfer", "Receive", "Wallet", "Exchange", "Finance", "Profile",
                           "RedPacket", "Remark", "Shop"}
  /\ Once \in BOOLEAN

VARIABLE using    \* the dialogues of this behaviour

botVars == <<sessionVars, pinVars, request, using>>

BotInit ==
  /\ SessionInit
  /\ PinInit
  /\ TransferInit
  /\ using \in Use

-----------------------------------------------------------------------------
(* Updates that come in.  /start, the menu and every button that cancels a *)
(* dialogue only clear the session.                                        *)

StartsOver(t) == Begin(t, <<Clear>>)

Text(t) == Begin(t, <<Do("text")>>)

Button(t) ==
  \/ "Transfer" \in using /\ TransferButton(t)
  \/ "Receive" \in using /\ ReceiveButton(t)
  \/ "Wallet" \in using /\ WalletButton(t)
  \/ "Exchange" \in using /\ ExchangeButton(t)
  \/ "Finance" \in using /\ FinanceButton(t)
  \/ "Profile" \in using /\ ProfileButton(t)
  \/ "RedPacket" \in using /\ RedPacketButton(t)
  \/ "Remark" \in using /\ RemarkButton(t)
  \/ "Shop" \in using /\ ShopButton(t)

Bounded == Once /\ torn => Quiet

Update(t) == Bounded /\ (PINCallback(t) \/ StartsOver(t) \/ Text(t) \/ Button(t))

-----------------------------------------------------------------------------
(* A text: the keypad keeps it from everything else, then the session's    *)
(* module is read to choose the handler, which reads module and step.      *)

\* The steps at which a module takes a text, and those that may refuse it.
Judges == {<<"Transfer", "select_recipient">>, <<"Transfer", "input_amount">>,
           <<"Receive", "input_amount">>, <<"Receive", "select_payer">>,
           <<"Wallet", "withdraw_address">>, <<"Exchange", "input_amount">>,
           <<"Finance", "invest_amount">>, <<"Profile", "adjust_limit_input">>,
           <<"RedPacket", "count">>, <<"RedPacket", "remark">>,
           <<"RedPacket", "cover_upload">>}

Accepting == Judges \union
  {<<"Transfer", "pin_verified">>, <<"Receive", "execute_pay">>,
   <<"Wallet", "withdraw_amount">>, <<"Exchange", "pin_verified">>,
   <<"Finance", "pin_verified">>, <<"Profile", "adjust_limit_pin">>,
   <<"RedPacket", "amount">>}
  \union {<<"Merchant", field>> : field \in Field}

Here == <<session["module"], session["step"]>>

PINKeepsText(t) ==
  /\ Doing(t, "text")
  /\ Then(t, IF session["module"] = "PIN" THEN <<>> ELSE <<Do("dispatch")>>)

Dispatch(t) ==
  /\ Doing(t, "dispatch")
  /\ Then(t, IF session["module"] \in {"Wallet", "Transfer", "Receive", "Exchange", "Profile",
                                         "Finance", "Merchant", "RedPacket"}
               THEN <<DoWith("input", session["module"])>>
               ELSE <<Clear>>)

TextRefused(t) == Input(t, session["module"]) /\ Here \in Judges /\ Then(t, <<>>)

\* Answered with the menu.
TextNotTaken(t) ==
  /\ Doing(t, "input")
  /\ session["module"] # Given(t) \/ Here \notin Accepting
  /\ Then(t, <<Clear>>)

TextPart(t) == PINKeepsText(t) \/ Dispatch(t) \/ TextRefused(t) \/ TextNotTaken(t)

Part(t) ==
  \/ (PINPart(t) \/ AdjustRead(t)) /\ UNCHANGED request
  \/ /\ TextPart(t) \/ TransferPart(t) \/ WithdrawPart(t) \/ ExchangePart(t)
        \/ FinancePart(t) \/ RedPacketPart(t) \/ ShopPart(t)
     /\ UNCHANGED <<pinVars, request>>

-----------------------------------------------------------------------------
Others ==
  \/ LockEnds /\ UNCHANGED request
  \/ "Receive" \in using /\ (\E q \in Request : PayReject(q)) /\ UNCHANGED pinVars

Mishap ==
  /\ Bounded
  /\ \/ Expires
     \/ \E t \in Task : Loses(t)
  /\ UNCHANGED <<pinVars, request>>

BotNext ==
  /\ \/ \E t \in Task :
          /\ \/ (Update(t) \/ SessionStep(t)) /\ UNCHANGED <<pinVars, request>>
             \/ Part(t)
          /\ Ghosts(FALSE, CameBack(t))
     \/ Others /\ Ghosts(FALSE, {})
     \/ Mishap /\ Ghosts(TRUE, {})
  /\ UNCHANGED using

BotSpec == BotInit /\ [][BotNext]_botVars

-----------------------------------------------------------------------------
BotTypeOK ==
  /\ DOMAIN session = Key
  /\ Digits \in 0 .. PinLength
  /\ \A t \in Task : call[t] = None \/ call[t].kind \in OrderKind
  /\ \A k \in Paged : page[k] = None \/ page[k].kind = k
  /\ pin \in Pin \union {None}
  /\ locked \in BOOLEAN
  /\ DOMAIN limit = LimitCurrency
  /\ request \in [Request -> {"Pending", "Rejected"}]

(* Whatever handlers overlap, whatever they overwrite and whatever Redis   *)
(* loses: a dialogue only waits behind the keypad after the keypad took a  *)
(* right PIN and went back to this very step, and that since the session   *)
(* was last empty with no handler at work.                                 *)
Guarded == {<<"Transfer", "pin_verified">>, <<"Exchange", "pin_verified">>,
            <<"Finance", "pin_verified">>, <<"RedPacket", "pin_verified">>,
            <<"Shop", "pin_verified">>, <<"Profile", "adjust_limit_pin">>}

BehindKeypad == Here \in Guarded => Here \in passed

(* What the PIN protects: while no two handlers met on the session, no     *)
(* transfer, payment, withdrawal or exchange above the free limit reaches  *)
(* its service unless the PIN was given for exactly this order, whatever   *)
(* buttons of whatever dialogue were pressed between the question and the  *)
(* answer, and the limit itself is only changed to what the PIN was given  *)
(* for.                                                                    *)
PinGuardsMoney ==
  [][~torn =>
       /\ \A t \in Task, k \in {"transfer", "pay", "withdraw", "exchange"} :
            Starts(t, k) =>
              \/ ~NeedPIN(call'[t].currency, call'[t].amount)
              \/ Access(t).under = [order |-> call'[t], given |-> TRUE]
       /\ limit' # limit =>
            /\ approval.given
            /\ approval.order.kind = "adjust"
            /\ limit'[approval.order.currency] = approval.order.amount]_botVars

(* Withdrawals, investments, requests, remarks and merchant settings: while*)
(* no two handlers met, the service is asked for what the user's latest    *)
(* page or prompt of that kind said, though the parameters are read from   *)
(* the session, which every dialogue writes.                               *)
ConfirmedAsShown ==
  [][\A t \in Task, kind \in Paged :
       Starts(t, kind) /\ ~torn => call'[t] = page[kind]]_botVars

(* While no two handlers met, a step never waits without what the steps    *)
(* before it wrote: the keypad knows where to go on, and no dialogue finds *)
(* its own keys gone.                                                      *)
StepHasItsData ==
  ~torn =>
    /\ At("PIN", "verify") =>
         session["pin_callback_module"] # None /\ session["pin_callback_action"] # None
    /\ At("PIN", "set_confirm") => session["pin_first"] # None
    /\ At("Transfer", "select_currency") => session["to"] # None /\ session["amount"] # None
    /\ At("Receive", "execute_pay") => session["pay_transfer_id"] # None
    /\ At("Wallet", "withdraw_confirm") =>
         \A k \in {"withdraw_currency", "withdraw_amount", "withdraw_address",
                   "withdraw_need_pin"} : session[k] # None
    /\ At("Profile", "adjust_limit_pin") =>
         session["adjust_currency"] # None /\ session["adjust_amount"] # None

(* The keypad sets a first PIN and never another one: the dialogues that   *)
(* lead to it look whether there is a PIN when they begin, and none is set *)
(* behind their back while no two handlers met.                            *)
PinIsKept == [][pin # None /\ ~torn => pin' = pin]_botVars

(* The keypad is marked as passed before it is shown; read literally, the  *)
(* next property would have to hold whatever handlers meet.                *)

(* withdraw.go says of the confirmation that it asks for the PIN when one  *)
(* is needed, and executes at once only when none is.                      *)
WithdrawalWaitsForPIN ==
  [][\A t \in Task :
       Starts(t, "withdraw") => \/ ~NeedPIN(call'[t].currency, call'[t].amount)
                               \/ Access(t).under.given]_botVars
=============================================================================
