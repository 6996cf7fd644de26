------------------------------ MODULE Captcha -------------------------------
(***************************************************************************)
(* The captchas of the login form, which Redis keeps for five minutes.     *)
(* A right answer uses the captcha up: it is read with one command and     *)
(* deleted with another, and who reads it in between is let in as well.    *)
(***************************************************************************)
EXTENDS Naturals

CONSTANTS Captchas, Logins

ASSUME CaptchaAssumption == "idle" \notin Captchas

VARIABLES
  key,        \* the state of each captcha
  login,      \* the captcha a login has read and found right
  accepted,   \* the right answers each captcha was good for
  met         \* captchas that two logins had read at a time

captchaVars == <<key, login, accepted, met>>

CaptchaTypeOK ==
  /\ key \in [Captchas -> {"none", "stored", "gone"}]
  /\ login \in [Logins -> Captchas \cup {"idle"}]
  /\ accepted \in [Captchas -> Nat]
  /\ met \subseteq Captchas

-----------------------------------------------------------------------------
Set(c) ==
  /\ key[c] = "none"
  /\ key' = [key EXCEPT ![c] = "stored"]
  /\ UNCHANGED <<login, accepted, met>>

\* A wrong answer changes nothing: the captcha may be tried again.
VerifyGet(q, c) ==
  /\ login[q] = "idle" /\ key[c] = "stored"
  /\ login' = [login EXCEPT ![q] = c]
  /\ met' = IF \E o \in Logins : login[o] = c THEN met \cup {c} ELSE met
  /\ UNCHANGED <<key, accepted>>

\* Fault: the captcha is not cleared.
VerifyKeep(q) ==
  /\ login[q] # "idle"
  /\ accepted' = [accepted EXCEPT ![login[q]] = @ + 1]
  /\ login' = [login EXCEPT ![q] = "idle"]
  /\ UNCHANGED <<key, met>>

\* To delete what is no longer there is no error.
VerifyDel(q) ==
  /\ login[q] # "idle"
  /\ key' = [key EXCEPT ![login[q]] = "gone"]
  /\ accepted' = [accepted EXCEPT ![login[q]] = @ + 1]
  /\ login' = [login EXCEPT ![q] = "idle"]
  /\ UNCHANGED met

\* Redis fails: the answer does not count and the captcha may be tried again.
VerifyDelFails(q) ==
  /\ login[q] # "idle"
  /\ login' = [login EXCEPT ![q] = "idle"]
  /\ UNCHANGED <<key, accepted, met>>

Expire(c) ==
  /\ key[c] = "stored"
  /\ key' = [key EXCEPT ![c] = "gone"]
  /\ UNCHANGED <<login, accepted, met>>

CaptchaInit ==
  /\ key = [c \in Captchas |-> "none"]
  /\ login = [q \in Logins |-> "idle"]
  /\ accepted = [c \in Captchas |-> 0]
  /\ met = {}

CaptchaNext ==
  \/ \E c \in Captchas : Set(c) \/ Expire(c)
  \/ \E q \in Logins : VerifyDel(q) \/ VerifyDelFails(q) \/ \E c \in Captchas : VerifyGet(q, c)

CaptchaSpec == CaptchaInit /\ [][CaptchaNext]_captchaVars

-----------------------------------------------------------------------------
\* A captcha lets one login in, whichever of its two commands fail and whenever
\* it expires, unless two logins had read it before either deleted it.
AcceptedOnce == \A c \in Captchas \ met : accepted[c] <= 1
=============================================================================
