\* Two forms of all kinds; two taps at one time.
SPECIFICATION DialoguesSpec
CONSTANTS
  Taps = {t1, t2}
  Kinds = {"topup", "card", "invoice", "store", "store_callback", "callback", "adjust",
           "merchant_fee", "global_fee", "emoji", "channel", "sms", "staging", "production"}
  MaxForms = 2
  MaxLost = 1
SYMMETRY TapIds
CHECK_DEADLOCK FALSE
INVARIANTS DialoguesTypeOK ActsOnWhatWasFilledIn OneActPerForm
