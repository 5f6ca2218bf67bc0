------------------------------- MODULE Accounts ------------------------------
(* Accounts and sessions: controllers/authController.js and
   services/companyRegistrationService.js for one user.  A session is a family
   of refresh tokens, each replaced by the next; a token presented a second
   time ends its family.  Verification and reset links are one-time tokens of
   the user's document, the company's e-mail code has a document of its own.
   Requests overlap at every await.                                          *)
EXTENDS Integers, FiniteSets

CONSTANTS Workers,     \* requests that may overlap
          Families,    \* sessions: one per login
          MaxTokens,   \* bound on the tokens ever issued
          MaxLinks,    \* bound on the links and codes ever sent
          MaxAttempts, \* MAX_VERIFY_ATTEMPTS
          MaxSends     \* MAX_SENDS_PER_WINDOW

VARIABLES tokens,   \* RefreshToken: token -> [family, live]
          user,     \* User: emailVerified and the current links, 0 for none
          sent,     \* the last link or code sent
          otp,      \* OTPVerification of the company registration
          request   \* what each request is doing

vars == <<tokens, user, sent, otp, request>>

Idle == [at |-> "idle", token |-> 0, link |-> 0]
RefreshToken == [family : Families, live : BOOLEAN]
User == [emailVerified : BOOLEAN, verification : 0 .. MaxLinks, reset : 0 .. MaxLinks]
OTPVerification == [code : 0 .. MaxLinks, attempts : 0 .. MaxAttempts, sendCount : 0 .. MaxSends, verified : BOOLEAN]

Issued == DOMAIN tokens
Live(f) == {t \in Issued : tokens[t].family = f /\ tokens[t].live}

TypeOK ==
    /\ Issued = 1 .. Cardinality(Issued) /\ \A t \in Issued : tokens[t] \in RefreshToken
    /\ user \in User /\ otp \in OTPVerification
    /\ sent \in 0 .. MaxLinks
    /\ \A r \in Workers : request[r].token \in {0} \cup Issued

Init ==
    /\ tokens = <<>>
    /\ user = [emailVerified |-> FALSE, verification |-> 0, reset |-> 0]
    /\ sent = 0
    /\ otp = [code |-> 0, attempts |-> 0, sendCount |-> 0, verified |-> FALSE]
    /\ request = [r \in Workers |-> Idle]

Becomes(r, step) == request' = [request EXCEPT ![r] = step]
Mail == <<user, sent, otp>>

-----------------------------------------------------------------------------
(* issueTokens: a login, a verified link or a rotation.                      *)
Issue(f) == /\ Cardinality(Issued) < MaxTokens
            /\ tokens' = [t \in 1 .. Cardinality(Issued) + 1 |->
                            IF t \in Issued THEN tokens[t] ELSE [family |-> f, live |-> TRUE]]

Revoke(f) == tokens' = [t \in Issued |-> IF tokens[t].family = f THEN [tokens[t] EXCEPT !.live = FALSE] ELSE tokens[t]]

Login(f) ==
    /\ \A t \in Issued : tokens[t].family # f
    /\ Issue(f)
    /\ UNCHANGED <<Mail, request>>

(* refresh: a token already rotated ends the family at once; a live one is
   read, claimed by an update that still requires it live, and replaced.     *)
Refresh(r, t) ==
    /\ request[r] = Idle
    /\ IF tokens[t].live
       THEN Becomes(r, [Idle EXCEPT !.at = "claim", !.token = t]) /\ UNCHANGED tokens
       ELSE Revoke(tokens[t].family) /\ UNCHANGED request
    /\ UNCHANGED Mail

\* As if the claim trusted the copy it has read.
ClaimUnread(r) ==
    /\ request[r].at = "claim"
    /\ tokens' = [tokens EXCEPT ![request[r].token].live = FALSE]
    /\ Becomes(r, [request[r] EXCEPT !.at = "replace"])
    /\ UNCHANGED Mail

Claim(r) ==
    LET t == request[r].token IN
    /\ request[r].at = "claim"
    /\ IF tokens[t].live
       THEN /\ tokens' = [tokens EXCEPT ![t].live = FALSE]
            /\ Becomes(r, [request[r] EXCEPT !.at = "replace"])
       ELSE Revoke(tokens[t].family) /\ Becomes(r, Idle)
    /\ UNCHANGED Mail

Replace(r) ==
    /\ request[r].at = "replace"
    /\ Issue(tokens[request[r].token].family)
    /\ Becomes(r, Idle)
    /\ UNCHANGED Mail

Logout(t) ==
    /\ tokens[t].live /\ Revoke(tokens[t].family)
    /\ UNCHANGED <<Mail, request>>

-----------------------------------------------------------------------------
(* Links: the newest replaces the one before, and leaves when it is used.    *)
Send == sent < MaxLinks /\ sent' = sent + 1

ForgotPassword == /\ Send /\ user' = [user EXCEPT !.reset = sent']
                  /\ UNCHANGED <<tokens, otp, request>>

ResendVerification == /\ ~user.emailVerified
                      /\ Send /\ user' = [user EXCEPT !.verification = sent']
                      /\ UNCHANGED <<tokens, otp, request>>

VerifyEmail(f) ==
    /\ user.verification # 0
    /\ user' = [user EXCEPT !.emailVerified = TRUE, !.verification = 0]
    /\ \A t \in Issued : tokens[t].family # f
    /\ Issue(f)
    /\ UNCHANGED <<sent, otp, request>>

(* resetPassword finds the user by the link, hashes, and saves both.         *)
LoadReset(r) ==
    /\ request[r] = Idle /\ user.reset # 0
    /\ Becomes(r, [Idle EXCEPT !.at = "hash", !.link = user.reset])
    /\ UNCHANGED <<tokens, Mail>>

ResetPassword(r) ==
    /\ request[r].at = "hash"
    /\ user' = [user EXCEPT !.reset = 0]
    /\ Becomes(r, Idle)
    /\ UNCHANGED <<tokens, sent, otp>>

-----------------------------------------------------------------------------
(* The company's code: sendCompanyOtp renews the open record and forgives
   its wrong guesses, verifyCompanyOtp counts them and closes it.            *)
SendCompanyOtp ==
    /\ ~user.emailVerified /\ Send
    /\ otp.verified \/ otp.sendCount < MaxSends
    /\ otp' = [code |-> sent', attempts |-> 0, verified |-> FALSE,
               sendCount |-> IF otp.verified THEN 1 ELSE otp.sendCount + 1]
    /\ UNCHANGED <<tokens, user, request>>

VerifyCompanyOtp ==
    /\ otp.code # 0 /\ ~otp.verified /\ otp.attempts < MaxAttempts
    /\ \/ otp' = [otp EXCEPT !.attempts = @ + 1] /\ UNCHANGED user
       \/ otp' = [otp EXCEPT !.verified = TRUE] /\ user' = [user EXCEPT !.emailVerified = TRUE]
    /\ UNCHANGED <<tokens, sent, request>>

Next ==
    \/ \E f \in Families : Login(f) \/ VerifyEmail(f)
    \/ \E t \in Issued : Logout(t) \/ \E r \in Workers : Refresh(r, t)
    \/ \E r \in Workers : Claim(r) \/ Replace(r) \/ LoadReset(r) \/ ResetPassword(r)
    \/ ForgotPassword \/ ResendVerification \/ SendCompanyOtp \/ VerifyCompanyOtp

Spec == Init /\ [][Next]_vars

(* However two tabs refresh one session, at most one of its tokens is good:
   the one replaced is dead before its successor exists, and the loser of the
   race ends the session instead of forking it (authController.js:330-343).  *)
SessionsDoNotFork ==
    \A f \in Families :
        Cardinality(Live(f)) + Cardinality({r \in Workers : request[r].at = "replace" /\ tokens[request[r].token].family = f}) <= 1
=============================================================================
