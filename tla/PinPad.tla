------------------------------- MODULE PinPad -------------------------------
(***************************************************************************)
(* The PIN keypad (PINHandler) and the PIN of the user's row               *)
(* (UserService): a dialogue that another one starts, to set a first PIN   *)
(* or to have the PIN verified, and that goes back to the step it was      *)
(* told.  The change of a PIN has no caller and is left out.               *)
(***************************************************************************)
EXTENDS Session

CONSTANTS Pin,        \* the PINs a user may enter
          PinLength,  \* digits of a PIN
          FreeLimit   \* the initial limits below which no PIN is asked

ASSUME PinAssumption ==
  /\ PinLength \in Nat \ {0}
  /\ None \notin Pin
  /\ None \notin {"pin_verified", "execute_pay", "withdraw_confirm", "adjust_limit_pin"}
  /\ {"pin_digits", "pin_first", "pin_callback_module", "pin_callback_action"} \subseteq Key

VARIABLES pin,        \* users.pin_hash
          locked,     \* users.pin_locked_until lies ahead
          limit       \* user_settings.small_free_<currency>

pinVars == <<pin, locked, limit>>

PinInit ==
  /\ pin \in Pin \union {None}
  /\ locked = FALSE
  /\ limit = FreeLimit

-----------------------------------------------------------------------------
(* UserService. *)

(* NeedPINForAmount compares this amount alone: nothing ever adds to the   *)
(* amount spent today.  An amount that is missing counts as zero.          *)
NeedPIN(currency, amount) ==
  \/ pin = None
  \/ currency \notin DOMAIN limit
  \/ limit[currency] = 0
  \/ amount # None /\ amount > limit[currency]

SetPIN(p) ==
  /\ pin' = p
  /\ locked' = FALSE
  /\ UNCHANGED limit

Accepts(p) == pin # None /\ ~locked /\ p = pin

\* A wrong PIN may be the one that locks; Records counts them.
VerifyPIN(p) ==
  /\ IF pin # None /\ ~locked /\ p # pin THEN locked' \in BOOLEAN ELSE UNCHANGED locked
  /\ UNCHANGED <<pin, limit>>

LockEnds ==
  /\ locked
  /\ locked' = FALSE
  /\ UNCHANGED <<session, task, call, page, approval, pin, limit>>

-----------------------------------------------------------------------------
(* Entering the keypad.  The id of its message is written afterwards.      *)

StartPINSetup(module, action) ==
  <<Put([module |-> "PIN", step |-> "set_input", pin_digits |-> None, pin_first |-> None,
         pin_callback_module |-> module, pin_callback_action |-> action]),
    Rewrite>>

StartPINVerify(module, action) ==
  <<Put([module |-> "PIN", step |-> "verify", pin_digits |-> None,
         pin_callback_module |-> module, pin_callback_action |-> action]),
    Rewrite>>

\* A handler goes to the keypad before it executes an order.
AskPIN(t, todo, order) ==
  /\ Continue(t, todo)
  /\ approval' = [order |-> order, given |-> FALSE]

-----------------------------------------------------------------------------
(* The keypad.  A digit is a press; the PIN that was typed is chosen when  *)
(* it is complete.  Text is not taken as a PIN: it is answered with a hint.*)
(* What the press is to do was decided with the step it found first.       *)

PINCallback(t) == Begin(t, <<Do("pin_press")>>)

PINPress(t) ==
  /\ Doing(t, "pin_press")
  /\ \/ session["module"] # "PIN" /\ Then(t, <<>>)
     \/ session["module"] = "PIN" /\ \/ Then(t, <<Clear>>)
                                     \/ Then(t, <<Do("pin_delete")>>)
                                     \/ Then(t, <<DoWith("pin_digit", session["step"])>>)
  /\ UNCHANGED pinVars

Digits == IF session["pin_digits"] = None THEN 0 ELSE session["pin_digits"]

PINDelete(t) ==
  /\ Doing(t, "pin_delete")
  /\ \/ Digits = 0 /\ Then(t, <<>>)
     \/ Digits = 1 /\ Then(t, <<Put([pin_digits |-> None])>>)
     \/ Digits > 1 /\ Then(t, <<Put([pin_digits |-> Digits - 1])>>)
  /\ UNCHANGED pinVars

\* Faulty variant: a pad that is full takes more digits.
PINDigitWhenFull(t) ==
  /\ Doing(t, "pin_digit")
  /\ \/ Digits + 1 # PinLength /\ Then(t, <<Put([pin_digits |-> Digits + 1])>>)
     \/ /\ Digits + 1 = PinLength
        /\ Then(t, <<Put([pin_digits |-> Digits + 1]), DoWith("pin_complete", Given(t))>>)
  /\ UNCHANGED pinVars

PINDigit(t) ==
  /\ Doing(t, "pin_digit")
  /\ \/ Digits + 1 > PinLength /\ Then(t, <<>>)
     \/ Digits + 1 < PinLength /\ Then(t, <<Put([pin_digits |-> Digits + 1])>>)
     \/ /\ Digits + 1 = PinLength
        /\ Then(t, <<Put([pin_digits |-> Digits + 1]), DoWith("pin_complete", Given(t))>>)
  /\ UNCHANGED pinVars

Completes(t, step) == Doing(t, "pin_complete") /\ Given(t) = step

OnSetInputComplete(t, p) ==
  /\ Completes(t, "set_input")
  /\ Then(t, <<Put([module |-> "PIN", step |-> "set_confirm",
                    pin_first |-> p, pin_digits |-> None])>>)
  /\ UNCHANGED pinVars

(* When the row cannot be written the digits stay, and the pad takes no    *)
(* further one until the user deletes.                                     *)
OnSetConfirmComplete(t, p) ==
  /\ Completes(t, "set_confirm")
  /\ \/ /\ p = session["pin_first"]
        /\ \/ SetPIN(p) /\ Then(t, <<Clear>>)
           \/ Then(t, <<>>) /\ UNCHANGED pinVars
     \/ /\ p # session["pin_first"]
        /\ Then(t, <<Put([module |-> "PIN", step |-> "set_input",
                          pin_digits |-> None, pin_first |-> None])>>)
        /\ UNCHANGED pinVars

(* VerifyPIN reports a wrong PIN as an error too, so any wrong PIN ends    *)
(* the dialogue; the branch that offers another try is never reached.      *)
(* What pin_return is given only feeds the ghost passed.                   *)
OnVerifyComplete(t, p) ==
  /\ Completes(t, "verify")
  /\ VerifyPIN(p)
  /\ \/ /\ Accepts(p)
        /\ Continue(t, <<Get({"pin_callback_module"}), Get({"pin_callback_action"}),
                         DoWith("pin_return", Accepts(p))>>)
        /\ approval' = [approval EXCEPT !.given = TRUE]
     \/ ~Accepts(p) /\ Then(t, <<Clear>>)

\* Back to the step that the keypad was called from.
PINReturn(t) ==
  /\ Doing(t, "pin_return")
  /\ IF Saw(t, "pin_callback_module") = None
       THEN Then(t, <<Clear>>)
       ELSE Then(t, <<SetStep(Saw(t, "pin_callback_module"), Saw(t, "pin_callback_action"))>>)
  /\ UNCHANGED pinVars

CameBack(t) == IF Doing(t, "pin_return") /\ Given(t)
                 THEN {<<Saw(t, "pin_callback_module"), Saw(t, "pin_callback_action")>>}
                 ELSE {}

PINPart(t) ==
  \/ PINPress(t) \/ PINDelete(t) \/ PINDigit(t) \/ PINReturn(t)
  \/ \E p \in Pin : \/ OnSetInputComplete(t, p)
                    \/ OnSetConfirmComplete(t, p)
                    \/ OnVerifyComplete(t, p)
=============================================================================
