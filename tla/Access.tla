------------------------------- MODULE Access -------------------------------
(***************************************************************************)
(* The packages that decide who may do what: rules (casbinx), tokens       *)
(* (jwtx) and captchas (captchax).  They share no state and do not call    *)
(* each other, so nothing is lost when a behaviour exercises one of them   *)
(* and the others stay as they are.                                        *)
(***************************************************************************)
EXTENDS Policy, Token, Captcha

VARIABLE part

vars == <<part, policyVars, tokenVars, captchaVars>>

Init ==
  /\ part \in {"policy", "token", "captcha"}
  /\ PolicyInit /\ TokenInit /\ CaptchaInit

Next ==
  /\ UNCHANGED part
  /\ \/ part = "policy" /\ PolicyNext /\ UNCHANGED <<tokenVars, captchaVars>>
     \/ part = "token" /\ TokenNext /\ UNCHANGED <<policyVars, captchaVars>>
     \/ part = "captcha" /\ CaptchaNext /\ UNCHANGED <<policyVars, tokenVars>>

Spec == Init /\ [][Next]_vars

TypeOK ==
  /\ part \in {"policy", "token", "captcha"}
  /\ PolicyTypeOK /\ TokenTypeOK /\ CaptchaTypeOK

=============================================================================
