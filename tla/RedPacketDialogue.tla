-------------------------- MODULE RedPacketDialogue --------------------------
(***************************************************************************)
(* Making red packets (RedPacketHandler): the dialogue that asks for       *)
(* currency, amount and number, the remarks of the user's packets, and the *)
(* covers.  What becomes of a packet is the subject of RedPacket.          *)
(***************************************************************************)
EXTENDS PinPad

CONSTANTS PacketCurrency,   \* USDT, TRX and CNY
          PacketAmount,     \* amounts within the balance
          PacketCount,      \* numbers from 1 to 100
          Packet            \* packets the user has made

ASSUME RedPacketDialogueAssumption ==
  /\ PacketAmount \subseteq Nat \ {0}
  /\ PacketCount \subseteq 1 .. 100
  /\ {"currency", "amount", "count", "remark_packet_id", "cover_file_id"} \subseteq Key

RemarkOrder(p) == Order("remark", p, None, None)

-----------------------------------------------------------------------------
(* The buttons.  They work whatever became of the packet, and at any step. *)

PromptPacketAmount(t, c) ==
  Begin(t, <<Put([module |-> "RedPacket", step |-> "amount", currency |-> c])>>)

ConfirmPacket(t) == Begin(t, <<Get({"amount"}), Get({"currency"}), Do("confirm_packet")>>)

\* Called by the confirmation and by the button after the PIN.
DoCreate == <<Get({"currency"}), Get({"amount"}), Get({"count"}), Do("create_packet")>>

\* Faulty variant: the prompt only names the packet when none was named yet.
PromptRemarkKeepsId(t, p) ==
  Begin(t, IF session["remark_packet_id"] = None
             THEN <<Put([module |-> "RedPacket", step |-> "remark", remark_packet_id |-> p]),
                    Show(RemarkOrder(p))>>
             ELSE <<SetStep("RedPacket", "remark"), Show(RemarkOrder(p))>>)

PromptRemark(t, p) ==
  Begin(t, <<Put([module |-> "RedPacket", step |-> "remark", remark_packet_id |-> p]),
             Show(RemarkOrder(p))>>)

PromptCoverUpload(t) == Begin(t, <<SetStep("RedPacket", "cover_upload")>>)

\* Kept with the session, not with the user: any Clear forgets it.
SelectCover(t) == Begin(t, <<Put([cover_file_id |-> TRUE])>>)

RedPacketButton(t) ==
  \/ \E c \in PacketCurrency : PromptPacketAmount(t, c)
  \/ ConfirmPacket(t)
  \/ Begin(t, DoCreate)

RemarkButton(t) ==
  \/ \E p \in Packet : PromptRemark(t, p)
  \/ PromptCoverUpload(t)
  \/ SelectCover(t)

-----------------------------------------------------------------------------
(* Text and pictures.  The cancel button of the remark shows the packet    *)
(* and leaves the step, so the next text is taken as a remark all the same.*)
(* A cover that is saved clears the session.                               *)

RedPacketText(t) ==
  /\ Input(t, "RedPacket")
  /\ \/ At("RedPacket", "amount") /\ Then(t, <<Do("packet_amount")>>)
     \/ /\ At("RedPacket", "count")
        /\ \E n \in PacketCount :
             Then(t, <<Put([module |-> "RedPacket", step |-> "confirm", count |-> n])>>)
     \/ At("RedPacket", "remark") /\ Then(t, <<Do("remark")>>)
     \/ At("RedPacket", "cover_upload") /\ Then(t, <<Clear>>)

\* Refused without a currency, or when the balance is too small.
PacketInputAmount(t) ==
  /\ Doing(t, "packet_amount")
  /\ \/ Then(t, <<>>)
     \/ /\ session["currency"] # None
        /\ \E a \in PacketAmount :
             Then(t, <<Put([module |-> "RedPacket", step |-> "count", amount |-> a])>>)

PacketConfirmed(t) ==
  LET order == Order("red_packet", session["count"], Saw(t, "amount"), Saw(t, "currency"))
  IN  /\ Doing(t, "confirm_packet")
      /\ \/ AskPIN(t, StartPINVerify("RedPacket", "pin_verified"), order)
         \/ ~NeedPIN(order.currency, order.amount) /\ Then(t, DoCreate)

(* An amount or number that is missing clears the session, a currency that *)
(* is missing makes the service fail.                                      *)
PacketRead(t) ==
  LET order == Order("red_packet", Saw(t, "count"), Saw(t, "amount"), Saw(t, "currency"))
  IN  /\ Doing(t, "create_packet")
      /\ IF None \in {order.amount, order.to} \/ order.currency = None
           THEN Then(t, <<Clear>>)
           ELSE Then(t, <<Submit(order), Clear>>)

PacketInputRemark(t) ==
  /\ Doing(t, "remark")
  /\ IF session["remark_packet_id"] = None
       THEN Then(t, <<>>)
       ELSE Then(t, <<Submit(RemarkOrder(session["remark_packet_id"])), Clear>>)

RedPacketPart(t) ==
  \/ RedPacketText(t) \/ PacketInputAmount(t) \/ PacketConfirmed(t)
  \/ PacketRead(t) \/ PacketInputRemark(t)
=============================================================================
