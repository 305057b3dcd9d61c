------------------------------ MODULE Dialogues ------------------------------
(***************************************************************************)
(* The conversations of one Telegram user with the bot: forms that are     *)
(* filled in step by step and then acted on (a card is stored, an invoice  *)
(* issued, a wallet credited, a release published).                        *)
(*                                                                         *)
(* A user has one state and one data dictionary for all forms; both live   *)
(* in the memory of the process and are lost when it ends.  Updates are    *)
(* handled concurrently and a handler is cut where it waits for the        *)
(* database or for Telegram: it writes the state first and its prompt is   *)
(* shown later, or never, in any order with the prompts of other taps.     *)
(* Every button ever shown can still be tapped, twice and while other taps *)
(* are being handled.  The user is assumed to type only when all earlier   *)
(* updates are answered and to wait for the answer, and Telegram to        *)
(* deliver an update once.                                                 *)
(*                                                                         *)
(* What is filled in is abstracted to where it comes from: each form the   *)
(* user begins has a number, and the value of a key is the number of the   *)
(* form that was being filled in when it was stored.  That is the form     *)
(* whose handler wrote the state last; the user answers the prompt seen    *)
(* last, which may be another form's.                                      *)
(***************************************************************************)
EXTENDS Naturals, FiniteSets, Sequences, Functions

CONSTANTS
    Taps,       \* taps handled at one time
    Kinds,      \* the forms the user begins, of AllKinds
    MaxForms,   \* bound on forms begun
    MaxLost     \* bound on commits whose answer is lost

VARIABLES
    state,      \* <<group, step>> or NoState
    data,       \* the dictionary: keys to numbers of forms
    tap,        \* [Taps -> Tap]: taps whose handlers wait
    forms,      \* the kinds of the forms begun, in order
    current,    \* the form whose handler wrote the state, 0 for NoState
    asked,      \* the form of the last prompt the user saw, 0 for none
    orderly,    \* history: no taps overlapped, and no prompt failed
    acts,       \* history: for each form, what it was acted on with
    previews,   \* history: for each form, how often its preview was shown
    lost        \* history: for each form, commits reported as failures

dialogueVars == <<state, data, tap, forms, current, asked, orderly, acts, previews, lost>>

-----------------------------------------------------------------------------
(* The forms: the group of states they use, the keys that the button       *)
(* beginning them writes, whether it clears the dictionary, and the steps  *)
(* that follow; what the last step asks for is used at once.               *)

Form(group, fresh, subject, steps) ==
    [group |-> group, fresh |-> fresh, subject |-> subject, steps |-> steps]

TopUp == Form("WalletTopUpState", FALSE, {}, <<"amount">>)
AddCard == Form("AddCardState", TRUE, {}, <<"bank", "card_number", "holder", "source_id">>)
ManualInvoice ==
    Form("ManualInvoiceState", TRUE, {},
         <<"amount_toman", "description", "fee_mode", "card", "confirm", "processing">>)
StoreCreate == Form("StoreCreateState", TRUE, {}, <<"store_name", "website">>)
StoreCallback == Form("StoreCallbackState", TRUE, {"store_id"}, <<"url">>)
CallbackConfig == Form("CallbackConfigState", FALSE, {}, <<"url">>)
WalletAdjust == Form("AdminWalletAdjustState", FALSE, {"merchant_id", "action"}, <<"amount">>)
MerchantFee == Form("AdminFeeState", FALSE, {"scope", "merchant_id"}, <<"amount">>)
GlobalFee_NoScope == Form("AdminFeeState", FALSE, {}, <<"amount">>)
GlobalFee == Form("AdminFeeState", FALSE, {"scope"}, <<"amount">>)
AppearanceEmoji == Form("AdminAppearanceEmojiState", FALSE, {"appearance_emoji"}, <<"emoji">>)
RequiredChannel == Form("AdminRequiredChannelState", FALSE, {}, <<"channel">>)
SmsApprove == Form("AdminSmsApproveState", FALSE, {"sms_id"}, <<"invoice_token">>)
Release == Form("AdminReleaseState", FALSE, {"release_target"}, <<"waiting_zip">>)

FormOf ==
    [topup |-> TopUp, card |-> AddCard, invoice |-> ManualInvoice, store |-> StoreCreate,
     store_callback |-> StoreCallback, callback |-> CallbackConfig, adjust |-> WalletAdjust,
     merchant_fee |-> MerchantFee, global_fee |-> GlobalFee, emoji |-> AppearanceEmoji,
     channel |-> RequiredChannel, sms |-> SmsApprove, staging |-> Release, production |-> Release]

AllKinds == DOMAIN FormOf
Invoice(step) == <<"ManualInvoiceState", step>>
InvoiceKeys == {"amount_toman", "description", "resolved_fee_mode", "selected_card_id"}

\* The keys a finished form of a kind was given, apart from the last answer.
Given(k) ==
    LET f == FormOf[k] IN
    IF k = "invoice" THEN InvoiceKeys
    ELSE f.subject \cup {f.steps[i] : i \in 1 .. Len(f.steps) - 1}

ASSUME DialoguesAssumption ==
    /\ IsFiniteSet(Taps) /\ Kinds \subseteq AllKinds
    /\ MaxForms \in Nat /\ MaxLost \in Nat

NoState == <<>>
NoData == [k \in {} |-> 0]
Numbers == 1..MaxForms
NoTap == [at |-> "idle", read |-> NoData, tag |-> 0]
Quiet == \A t \in Taps : tap[t] = NoTap

\* Something was asked for, and nothing is being handled.
Typing == Quiet /\ asked > 0

DialoguesInit ==
    /\ state = NoState /\ data = NoData
    /\ tap = [t \in Taps |-> NoTap]
    /\ forms = <<>> /\ current = 0 /\ asked = 0 /\ orderly = TRUE
    /\ acts = [d \in Numbers |-> <<>>]
    /\ previews = [d \in Numbers |-> 0]
    /\ lost = [d \in Numbers |-> 0]

\* update_data and state.clear
Put(keys, d, dict) == [k \in keys \cup DOMAIN dict |-> IF k \in keys THEN d ELSE dict[k]]
Update(keys, d) == Put(keys, d, data)
Clear == state' = NoState /\ data' = NoData /\ current' = 0

Act(d, form) == acts' = [acts EXCEPT ![d] = Append(@, form)]

-----------------------------------------------------------------------------
(* The handler of a tap: it has a slot from its first wait to its last. *)

Wait(t, at, read, tag) ==
    /\ tap[t] = NoTap
    /\ tap' = [tap EXCEPT ![t] = [at |-> at, read |-> read, tag |-> tag]]
    /\ orderly' = (orderly /\ Quiet)

Done(t) == tap' = [tap EXCEPT ![t] = NoTap]

\* The state is written; the prompt of a form, or a panel that asks for
\* nothing (0), is on its way.
Reply(t, d) == Wait(t, "prompt", NoData, d)
ReplyLater(t, d) == tap' = [tap EXCEPT ![t] = [at |-> "prompt", read |-> NoData, tag |-> d]]

Shown(t) ==
    /\ tap[t].at = "prompt"
    /\ asked' = tap[t].tag
    /\ Done(t)
    /\ UNCHANGED <<state, data, forms, current, orderly, acts, previews, lost>>

\* Telegram refuses the message or cannot be reached.
NotShown(t) ==
    /\ tap[t].at = "prompt"
    /\ orderly' = FALSE
    /\ Done(t)
    /\ UNCHANGED <<state, data, forms, current, asked, acts, previews, lost>>

-----------------------------------------------------------------------------
(* Buttons that begin or abandon a form, or choose a bank *)

Begin(t, k) ==
    LET f == FormOf[k]
        d == Len(forms) + 1
    IN
    /\ d <= MaxForms
    /\ forms' = Append(forms, k) /\ current' = d
    /\ data' = Put(f.subject, d, IF f.fresh THEN NoData ELSE data)
    /\ state' = <<f.group, f.steps[1]>>
    /\ Reply(t, d)
    /\ UNCHANGED <<asked, acts, previews, lost>>

\* A button with an amount: a top-up without further steps.
TopUpNow(t) ==
    LET d == Len(forms) + 1 IN
    /\ "topup" \in Kinds /\ d <= MaxForms
    /\ forms' = Append(forms, "topup")
    /\ Clear
    /\ Act(d, NoData) \/ UNCHANGED acts
    /\ Reply(t, 0)
    /\ UNCHANGED <<asked, previews, lost>>

\* Cancel, and the panels that clear the dictionary.
Cancel(t) ==
    /\ Clear
    /\ Reply(t, 0)
    /\ UNCHANGED <<forms, asked, acts, previews, lost>>

\* A bank of the list is stored; "other" only asks for its name.
TapBank(t) ==
    /\ state = <<"AddCardState", "bank">>
    /\ \/ state' = <<"AddCardState", "card_number">> /\ data' = Update({"bank"}, current)
       \/ UNCHANGED <<state, data>>
    /\ Reply(t, current)
    /\ UNCHANGED <<forms, current, asked, acts, previews, lost>>

-----------------------------------------------------------------------------
(* Text messages: only the handler of the state is called *)

\* The next prompt follows, unless it fails and the last one is still there.
AskNext == asked' \in {asked, current}

\* The answer to a step that is not the last: it is stored.
Answer(k) ==
    LET f == FormOf[k] IN
    /\ Typing
    /\ k # "invoice" \/ state = Invoice("amount_toman")
    /\ \E i \in 1 .. Len(f.steps) - 1 :
          /\ state = <<f.group, f.steps[i]>>
          /\ state' = <<f.group, f.steps[i + 1]>>
          /\ data' = Update({f.steps[i]}, current)
    /\ AskNext
    /\ UNCHANGED <<tap, forms, current, orderly, acts, previews, lost>>

\* An answer that is not accepted: the step is asked for again.
Refuse ==
    /\ Typing /\ state # NoState
    /\ AskNext
    /\ UNCHANGED <<state, data, tap, forms, current, orderly, acts, previews, lost>>

\* What the handler of the last step reads from the dictionary; without it
\* (but for the name of a store) it does not act.
ReadBy(k) ==
    IF FormOf[k].group # "AdminFeeState" THEN Given(k)
    ELSE IF "scope" \in DOMAIN data /\ forms[data.scope] = "global_fee"
           THEN {"scope"} ELSE {"scope", "merchant_id"}

ActsOn(k) ==
    /\ ReadBy(k) \subseteq DOMAIN data \cup {"store_name", "scope"}
    /\ Act(current, Restrict(data, ReadBy(k) \cap DOMAIN data))

\* The last answer. It is refused and the form cleared, the transaction
\* fails (the form is kept), or it commits, which the handler may not learn.
\* A top-up is cleared before its transaction.
Finish(k) ==
    LET f == FormOf[k] IN
    /\ Typing
    /\ k \notin {"invoice", "staging", "production"}
    /\ state = <<f.group, f.steps[Len(f.steps)]>>
    /\ \/ Clear /\ ActsOn(k) /\ UNCHANGED lost
       \/ Clear /\ UNCHANGED <<acts, lost>>
       \/ /\ lost[current] < MaxLost
          /\ lost' = [lost EXCEPT ![current] = @ + 1]
          /\ ActsOn(k)
          /\ IF k = "topup" THEN Clear ELSE UNCHANGED <<state, data, current>>
    /\ UNCHANGED <<tap, forms, asked, orderly, previews>>

\* A ZIP of an administrator who was asked for one, in whatever state: it is
\* published to the chosen branch, or to Production if none is chosen.
ReleaseUpload ==
    LET waited == state = <<"AdminReleaseState", "waiting_zip">> IN
    /\ Typing /\ forms[asked] \in {"staging", "production"}
    /\ \/ waited /\ Act(current, Restrict(data, {"release_target"}))
       \/ ~waited /\ Act(asked, NoData)
       \/ UNCHANGED acts
    /\ Clear /\ asked' = 0
    /\ UNCHANGED <<tap, forms, orderly, previews, lost>>

-----------------------------------------------------------------------------
(* The invoice form: typed steps *)

\* The cards are listed, or there is none and the form is cleared.
CardsOrNone(d, dict) ==
    \/ state' = Invoice("card") /\ data' = dict /\ current' = d
    \/ Clear

\* An account without a fee skips the next step.
InvoiceDescription ==
    /\ Typing /\ state = Invoice("description")
    /\ \/ /\ state' = Invoice("fee_mode") /\ data' = Update({"description"}, current)
          /\ UNCHANGED current
       \/ CardsOrNone(current, Update({"description", "fee_mode"}, current))
    /\ AskNext
    /\ UNCHANGED <<tap, forms, orderly, acts, previews, lost>>

InvoiceFeeModeText ==
    /\ Typing /\ state = Invoice("fee_mode")
    /\ CardsOrNone(current, Update({"fee_mode"}, current))
    /\ AskNext
    /\ UNCHANGED <<tap, forms, orderly, acts, previews, lost>>

\* The end of prepare_invoice_preview for a card that is there: read is the
\* dictionary as it was when the handler began.
ShowPreview(read, tag) ==
    /\ "amount_toman" \in DOMAIN read
    /\ state' = Invoice("confirm") /\ current' = tag
    /\ data' = Put({"resolved_fee_mode"}, IF "fee_mode" \in DOMAIN read THEN read.fee_mode ELSE tag,
                   Update({"selected_card_id"}, tag))
    /\ previews' = [previews EXCEPT ![read.amount_toman] = @ + 1]

InvoiceCardText ==
    /\ Typing /\ state = Invoice("card")
    /\ ShowPreview(data, current)
    /\ AskNext
    /\ UNCHANGED <<tap, forms, orderly, acts, lost>>

-----------------------------------------------------------------------------
(* The invoice form: buttons, handled concurrently *)

TapFeeMode(t) ==
    /\ state = Invoice("fee_mode")
    /\ data' = Update({"fee_mode"}, current)
    /\ Wait(t, "cards", NoData, current)
    /\ UNCHANGED <<state, forms, current, asked, acts, previews, lost>>

FeeModeCards(t) ==
    /\ tap[t].at = "cards"
    /\ CardsOrNone(tap[t].tag, data)
    /\ ReplyLater(t, current')
    /\ UNCHANGED <<forms, asked, orderly, acts, previews, lost>>

TapCard(t) ==
    /\ state = Invoice("card")
    /\ Wait(t, "preview", data, current)
    /\ UNCHANGED <<state, data, forms, current, asked, acts, previews, lost>>

\* The card is gone, the read dictionary has no amount, or the preview.
CardPreview(t) ==
    /\ tap[t].at = "preview"
    /\ \/ ShowPreview(tap[t].read, tap[t].tag)
       \/ UNCHANGED <<state, data, current, previews>>
    /\ ReplyLater(t, tap[t].tag)
    /\ UNCHANGED <<forms, asked, orderly, acts, lost>>

WhileIssuing_Confirm == Invoice("confirm")
WhileIssuing == Invoice("processing")

\* No wait between the test and set_state: a second tap is refused.
TapConfirm(t) ==
    /\ state = Invoice("confirm")
    /\ state' = WhileIssuing
    /\ Wait(t, "create", data, current)
    /\ UNCHANGED <<data, forms, current, asked, acts, previews, lost>>

\* create_invoice and the commit.
IssueInvoice(t) ==
    LET read == tap[t].read IN
    /\ tap[t].at = "create" /\ InvoiceKeys \subseteq DOMAIN read
    /\ Act(read.amount_toman, Restrict(read, InvoiceKeys))
    /\ tap' = [tap EXCEPT ![t].at = "issued"]
    /\ UNCHANGED <<state, data, forms, current, asked, orderly, previews, lost>>

ClearIssued(t) ==
    /\ tap[t].at = "issued"
    /\ Clear
    /\ tap' = [tap EXCEPT ![t].at = "answer"]
    /\ UNCHANGED <<forms, asked, orderly, acts, previews, lost>>

Answered(t) ==
    /\ tap[t].at = "answer"
    /\ Done(t)
    /\ UNCHANGED <<state, data, forms, current, asked, orderly, acts, previews, lost>>

AfterFailure_Processing == state
AfterFailure == Invoice("confirm")

\* Any exception between create_invoice and the answer, the answer included:
\* the user is told that the form is kept and may be confirmed again.
ConfirmFails(t) ==
    LET unknown == tap[t].at = "issued" IN
    /\ tap[t].at \in {"create", "issued", "answer"}
    /\ unknown => lost[tap[t].read.amount_toman] < MaxLost
    /\ lost' = IF unknown THEN [lost EXCEPT ![tap[t].read.amount_toman] = @ + 1] ELSE lost
    /\ state' = AfterFailure /\ current' = tap[t].tag
    /\ ReplyLater(t, tap[t].tag)
    /\ UNCHANGED <<data, forms, asked, orderly, acts, previews>>

InvoiceButtons(t) ==
    \/ TapFeeMode(t) \/ FeeModeCards(t) \/ TapCard(t) \/ CardPreview(t)
    \/ TapConfirm(t) \/ IssueInvoice(t) \/ ClearIssued(t) \/ Answered(t) \/ ConfirmFails(t)

-----------------------------------------------------------------------------
\* The process ends and another begins; the user does not know.
RestartProcess ==
    /\ Clear
    /\ tap' = [t \in Taps |-> NoTap]
    /\ UNCHANGED <<forms, asked, orderly, acts, previews, lost>>

Buttons(t) ==
    \/ \E k \in Kinds : Begin(t, k)
    \/ TopUpNow(t) \/ Cancel(t) \/ TapBank(t)
    \/ InvoiceButtons(t)
    \/ Shown(t) \/ NotShown(t)

Messages ==
    \/ \E k \in Kinds : Answer(k) \/ Finish(k)
    \/ Refuse \/ ReleaseUpload
    \/ InvoiceDescription \/ InvoiceFeeModeText \/ InvoiceCardText

DialoguesNext ==
    \/ \E t \in Taps : Buttons(t)
    \/ Messages
    \/ RestartProcess

DialoguesSpec == DialoguesInit /\ [][DialoguesNext]_dialogueVars

-----------------------------------------------------------------------------
(* Properties *)

IsForm(f) == Range(f) \subseteq Numbers

\* Types; and a user is never left in "processing", where no button and no
\* message is accepted, once the handler that set it has ended.
DialoguesTypeOK ==
    /\ state = NoState \/ \E k \in Kinds : /\ state[1] = FormOf[k].group
                                           /\ state[2] \in Range(FormOf[k].steps)
    /\ IsForm(data) /\ {current, asked} \subseteq 0 .. Len(forms) /\ orderly \in BOOLEAN
    /\ \A t \in Taps : IsForm(tap[t].read) /\ tap[t].tag \in 0 .. Len(forms)
    /\ state = Invoice("processing") => \E t \in Taps : tap[t].at \in {"create", "issued"}

\* However forms are begun, abandoned, mixed and resumed, what is acted on is
\* the complete form that was being filled in and nothing left over from
\* another: not the amount of an abandoned invoice, nor the merchant of an
\* earlier fee form. (A release that was sent after its choice was lost has
\* no form.) And what is being filled in is the form the user was asked for,
\* as long as the user taps one button at a time and every prompt arrives;
\* otherwise an answer may be taken for another form than it was meant for.
ActsOnWhatWasFilledIn ==
    /\ \A d \in 1 .. Len(forms) : \A form \in Range(acts[d]) :
          \/ form = [key \in Given(forms[d]) |-> d]
          \/ forms[d] \in {"staging", "production"} /\ form = NoData
    /\ orderly /\ Typing /\ state # NoState => current = asked

\* A preview is turned into at most one invoice, and any other form acted on
\* at most once, however often the buttons are tapped and failures retried;
\* only a commit whose answer was lost may be repeated.
OneActPerForm ==
    \A d \in 1 .. Len(forms) :
        Len(acts[d]) <= lost[d] + (IF forms[d] = "invoice" THEN previews[d] ELSE 1)

\* The update panel: a staging release leaves Production unchanged.
StagingStaysOffProduction ==
    \A d \in 1 .. Len(forms) : \A form \in Range(acts[d]) :
        forms[d] = "staging" => form # NoData /\ forms[form.release_target] = "staging"
=============================================================================
