------------------------------- MODULE Access -------------------------------
(***************************************************************************)
(* Who may use the API: the operator password and its sessions (auth.py),  *)
(* the sessions and API tokens of one person who signs in through the      *)
(* identity provider (oidc.py, tokens.py), and the tokens of one service   *)
(* account.  A request reads, checks and writes in separate transactions,  *)
(* on any worker; nothing is cached, so workers do not appear.             *)
(*                                                                         *)
(* A session is a cookie sealed with the secret in the settings table.     *)
(* Passwords and secrets are numbers, 0 stands for none.                   *)
(***************************************************************************)
EXTENDS Integers, FiniteSets

CONSTANTS
  Request,    \* concurrent requests
  Token,      \* names of API tokens
  None,
  Ttl,        \* SESSION_TTL, in ticks; also the life of a token
  MaxClock,   \* bound: time, in seconds
  MaxCookies, \* bound: cookies at once
  MaxChanges, \* bound: changes of the operator password
  MaxFaults   \* bound: statements of a cut-off that fail

ASSUME AccessAssumption ==
  /\ None \notin Token
  /\ IsFiniteSet(Request)
  /\ {Ttl, MaxClock} \subseteq Nat \ {0}
  /\ {MaxCookies, MaxChanges, MaxFaults} \subseteq Nat

VARIABLES
  now,
  hash, secret,     \* settings auth_password_hash and auth_session_secret
  setups, changes,  \* history: initial passwords stored; passwords changed
  cookies,          \* session cookies issued
  cutoff,           \* session_cutoffs of the person
  tokens,           \* rows of api_tokens
  disabled,         \* service_accounts.disabled_at
  sso,              \* whether single sign-on is on and trusts the person's issuer
  refused,          \* history: cut off completely, and not let in since
  pc, arg,          \* each request: its next statement, and what it remembers
  faults

vars == <<now, hash, secret, setups, changes, cookies, cutoff, tokens, disabled, sso,
          refused, pc, arg, faults>>
browser == <<cookies, cutoff>>
settings == <<hash, secret, setups, changes>>
world == <<now, sso>>

Cookie == [how : {"password", "oidc"}, iat : Nat, sealed : Nat, proof : Nat, slipped : BOOLEAN]
Row == [owner : {"person", "account"}, expires : Nat, revoked : BOOLEAN, slipped : BOOLEAN]

\* What a request remembers: how its session came about, the password it verified or
\* the secret its flow cookie is sealed with; slipped once something it relies on was
\* taken back after it had checked it.
Memory == [how : {"password", "oidc", "account"}, proof : Nat, slipped : BOOLEAN]
Blank == [how |-> "password", proof |-> 0, slipped |-> FALSE]

TypeOK ==
  /\ now \in 0..MaxClock
  /\ hash \in Nat /\ secret \in Nat
  /\ setups \in Nat /\ changes \in Nat
  /\ cookies \subseteq Cookie /\ cutoff \in 0..MaxClock
  /\ tokens \in [Token -> Row \cup {None}]
  /\ disabled \in BOOLEAN /\ sso \in BOOLEAN /\ refused \in BOOLEAN
  /\ pc \in [Request -> {"idle", "initialise", "set", "seal", "mint", "away",
                         "cut", "revoke", "insert"}]
  /\ arg \in [Request -> Memory]
  /\ \A r \in Request : pc[r] = "seal" => arg[r].how # "account"
  /\ faults \in Nat

\* A fresh installation; the clock is not at zero, which stands for no cut-off.
Init ==
  /\ now = 1
  /\ hash = 0 /\ secret = 0 /\ setups = 0 /\ changes = 0
  /\ cookies = {} /\ cutoff = 0
  /\ tokens = [k \in Token |-> None]
  /\ disabled = FALSE /\ sso = TRUE /\ refused = FALSE
  /\ pc = [r \in Request |-> "idle"] /\ arg = [r \in Request |-> Blank]
  /\ faults = 0

-----------------------------------------------------------------------------
(* What is honoured *)

\* (mutant) a session issued in the second of the cut-off is let through
ValidSameSecond(c) ==
  /\ secret # 0 /\ c.sealed = secret /\ now - c.iat < Ttl
  /\ c.how = "oidc" => sso /\ c.iat >= cutoff

\* read_token: sealed with the current secret, young enough, and for a person: issued by
\* a provider still trusted, after the last cut-off.
Valid(c) ==
  /\ secret # 0 /\ c.sealed = secret /\ now - c.iat < Ttl
  /\ c.how = "oidc" => sso /\ c.iat > cutoff

\* authenticate and token_session.
Usable(k) ==
  /\ tokens[k] # None /\ ~tokens[k].revoked /\ tokens[k].expires > now
  /\ IF tokens[k].owner = "account" THEN ~disabled ELSE sso

Goto(r, where, what) ==
  /\ pc' = [pc EXCEPT ![r] = where]
  /\ arg' = [arg EXCEPT ![r] = what]
Done(r) == Goto(r, "idle", Blank)

\* Requests that are at one of these statements relied on what has just been taken back.
Slip(r, where, what, overtaken) ==
  /\ pc' = [pc EXCEPT ![r] = where]
  /\ arg' = [q \in Request |-> IF q = r THEN what
                               ELSE [arg[q] EXCEPT !.slipped = @ \/ q \in overtaken]]

-----------------------------------------------------------------------------
(* The operator password *)

\* Cookies that can never be honoured again are forgotten.
Keep(t, s) == cookies' = {c \in cookies : c.sealed = s /\ t - c.iat < Ttl}

\* A name nothing refers to.
Fresh ==
  LET used == {hash, secret} \cup {c.sealed : c \in cookies} \cup {c.proof : c \in cookies}
              \cup {arg[r].proof : r \in Request}
  IN  CHOOSE n \in 1..(Cardinality(used) + 1) : n \notin used

\* A new secret; set_password: the password and a new secret, in one transaction.
Draw == secret' = Fresh /\ Keep(now, Fresh)
Store == hash' = Fresh /\ Draw

\* setup, and bootstrap_from_env of a starting worker: is there a password yet?
Configured(r) ==
  /\ pc[r] = "idle" /\ hash = 0
  /\ Goto(r, "initialise", Blank)
  /\ UNCHANGED <<world, settings, browser, tokens, disabled, refused, faults>>

\* (mutant) stored without the guard
Initialise_unguarded(r, fromPage) ==
  /\ pc[r] = "initialise"
  /\ Store /\ setups' = setups + 1
  /\ IF fromPage THEN Goto(r, "seal", [Blank EXCEPT !.proof = hash']) ELSE Done(r)
  /\ UNCHANGED <<world, changes, cutoff, tokens, disabled, refused, faults>>

\* set_initial_password: the first one wins, whatever the check above said.
Initialise(r, fromPage) ==
  /\ pc[r] = "initialise"
  /\ IF hash = 0
     THEN /\ Store /\ setups' = setups + 1
          /\ IF fromPage THEN Goto(r, "seal", [Blank EXCEPT !.proof = hash']) ELSE Done(r)
          /\ UNCHANGED changes
     ELSE Done(r) /\ UNCHANGED <<settings, cookies>>
  /\ UNCHANGED <<world, cutoff, tokens, disabled, refused, faults>>

\* login by somebody who knows the current password; guesses are LoginLimiter's.
Login(r) ==
  /\ pc[r] = "idle" /\ hash # 0
  /\ Goto(r, "seal", [Blank EXCEPT !.proof = hash])
  /\ UNCHANGED <<world, settings, browser, tokens, disabled, refused, faults>>

\* change: a session and the current password, then the new one.
Change(r) ==
  /\ pc[r] = "idle" /\ hash # 0 /\ changes < MaxChanges
  /\ \E c \in cookies : Valid(c)
  /\ Goto(r, "set", Blank)
  /\ UNCHANGED <<world, settings, browser, tokens, disabled, refused, faults>>

\* (mutant) the secret stays
SetHashOnly(r) ==
  /\ pc[r] = "set"
  /\ hash' = Fresh /\ changes' = changes + 1
  /\ Slip(r, "seal", [Blank EXCEPT !.proof = hash'], {q \in Request : pc[q] = "seal"})
  /\ UNCHANGED <<world, secret, setups, browser, tokens, disabled, refused, faults>>

SetPassword(r) ==
  /\ pc[r] = "set"
  /\ Store /\ changes' = changes + 1
  /\ Slip(r, "seal", [Blank EXCEPT !.proof = hash'], {q \in Request : pc[q] = "seal"})
  /\ UNCHANGED <<world, setups, cutoff, tokens, disabled, refused, faults>>

\* issue_token: the session that was earned is sealed with the secret of this moment.
Seal(r) ==
  /\ pc[r] = "seal" /\ Cardinality(cookies) < MaxCookies
  /\ cookies' = cookies \cup {[how |-> arg[r].how, iat |-> now, sealed |-> secret,
                               proof |-> arg[r].proof, slipped |-> arg[r].slipped]}
  /\ Done(r)
  /\ UNCHANGED <<world, settings, cutoff, tokens, disabled, refused, faults>>

-----------------------------------------------------------------------------
(* Single sign-on *)

\* oidc_login: the flow cookie is sealed; without a secret yet, one is made.
BeginSignIn(r) ==
  /\ pc[r] = "idle" /\ sso
  /\ IF secret = 0 THEN Goto(r, "mint", Blank)
                   ELSE Goto(r, "away", [Blank EXCEPT !.proof = secret])
  /\ UNCHANGED <<world, settings, browser, tokens, disabled, refused, faults>>

\* _secret: stored without a look at whether another request has stored one since.
Mint(r) ==
  /\ pc[r] = "mint"
  /\ Draw
  /\ Goto(r, "away", [Blank EXCEPT !.proof = secret'])
  /\ UNCHANGED <<world, hash, setups, changes, cutoff, tokens, disabled, refused, faults>>

\* oidc_callback: the flow cookie opens, and the provider says who came and whether they
\* are in an admin group.  To be let in overtakes a cut-off that is under way.
Callback(r, member) ==
  /\ pc[r] = "away"
  /\ IF ~sso \/ arg[r].proof # secret
     THEN Done(r) /\ UNCHANGED refused
     ELSE IF member
     THEN /\ Slip(r, "seal", [Blank EXCEPT !.how = "oidc"], {q \in Request : pc[q] \in {"cut", "revoke"}})
          /\ refused' = FALSE
     ELSE Goto(r, "cut", Blank) /\ UNCHANGED refused
  /\ UNCHANGED <<world, settings, browser, tokens, disabled, faults>>

Later(t, u) == IF t < u THEN u ELSE t
Sealing == {q \in Request : pc[q] = "seal" /\ arg[q].how = "oidc"}
Inserting == {q \in Request : pc[q] = "insert" /\ arg[q].how = "oidc"}

\* _cut_off: end_sessions, then revoke_all, each tried whatever becomes of the other.
EndSessions(r, fails) ==
  /\ pc[r] = "cut"
  /\ IF fails
     THEN /\ faults < MaxFaults /\ faults' = faults + 1
          /\ UNCHANGED cutoff
          /\ Goto(r, "revoke", [arg[r] EXCEPT !.slipped = TRUE])
     ELSE /\ cutoff' = Later(cutoff, now)
          /\ Slip(r, "revoke", arg[r], Sealing)
          /\ UNCHANGED faults
  /\ UNCHANGED <<world, settings, cookies, tokens, disabled, refused>>

RevokeAll(r, fails) ==
  /\ pc[r] = "revoke"
  /\ IF fails
     THEN /\ faults < MaxFaults /\ faults' = faults + 1
          /\ Done(r) /\ UNCHANGED <<tokens, refused>>
     ELSE /\ tokens' = [k \in Token |-> IF tokens[k] # None /\ tokens[k].owner = "person"
                                        THEN [tokens[k] EXCEPT !.revoked = TRUE] ELSE tokens[k]]
          /\ refused' = (refused \/ ~arg[r].slipped)
          /\ Slip(r, "idle", Blank, Inserting)
          /\ UNCHANGED faults
  /\ UNCHANGED <<world, settings, browser, disabled>>

-----------------------------------------------------------------------------
(* API tokens and the service account *)

\* create_token of a person: only a session of single sign-on may.
AskToken(r, c) ==
  /\ pc[r] = "idle" /\ Valid(c) /\ c.how = "oidc"
  /\ Goto(r, "insert", [how |-> "oidc", proof |-> 0, slipped |-> c.slipped])
  /\ UNCHANGED <<world, settings, browser, tokens, disabled, refused, faults>>

\* create_token of the account: any browser session, while the account is enabled.
AskAccountToken(r, c) ==
  /\ pc[r] = "idle" /\ Valid(c) /\ ~disabled
  /\ Goto(r, "insert", [how |-> "account", proof |-> 0, slipped |-> FALSE])
  /\ UNCHANGED <<world, settings, browser, tokens, disabled, refused, faults>>

InsertToken(r, k) ==
  /\ pc[r] = "insert" /\ tokens[k] = None
  /\ tokens' = [tokens EXCEPT ![k] =
       [owner |-> IF arg[r].how = "oidc" THEN "person" ELSE "account",
        expires |-> now + Ttl, revoked |-> FALSE, slipped |-> arg[r].slipped]]
  /\ Done(r)
  /\ UNCHANGED <<world, settings, browser, disabled, refused, faults>>

\* revoke, revoke_for_account: by a session that may manage the token.
Revoke(c, k) ==
  /\ Valid(c) /\ tokens[k] # None /\ ~tokens[k].revoked
  /\ tokens[k].owner = "person" => c.how = "oidc"
  /\ tokens' = [tokens EXCEPT ![k].revoked = TRUE]
  /\ UNCHANGED <<world, settings, browser, disabled, refused, pc, arg, faults>>

SetDisabled(c) ==
  /\ Valid(c)
  /\ disabled' = ~disabled
  /\ UNCHANGED <<world, settings, browser, tokens, refused, pc, arg, faults>>

-----------------------------------------------------------------------------

\* Single sign-on is switched off, or on again.
SwitchSso ==
  /\ sso' = ~sso
  /\ UNCHANGED <<now, settings, browser, tokens, disabled, refused, pc, arg, faults>>

Tick ==
  /\ now < MaxClock
  /\ now' = now + 1
  /\ Keep(now', secret)
  /\ UNCHANGED <<sso, settings, cutoff, tokens, disabled, refused, pc, arg, faults>>

Next ==
  \/ \E r \in Request :
       \/ Configured(r) \/ Login(r) \/ Change(r) \/ SetPassword(r)
       \/ Seal(r) \/ BeginSignIn(r) \/ Mint(r)
       \/ \E b \in BOOLEAN : Initialise(r, b) \/ EndSessions(r, b) \/ RevokeAll(r, b)
                           \/ Callback(r, b)
       \/ \E c \in cookies : AskToken(r, c) \/ AskAccountToken(r, c)
       \/ \E k \in Token : InsertToken(r, k)
  \/ \E c \in cookies : SetDisabled(c) \/ \E k \in Token : Revoke(c, k)
  \/ SwitchSso \/ Tick

Spec == Init /\ [][Next]_vars

-----------------------------------------------------------------------------
(* What must hold *)

Held == {c \in cookies : Valid(c) /\ c.how = "oidc"}
Kept == {k \in Token : Usable(k) /\ tokens[k].owner = "person"}

\* SECURITY.md:52: a person refused at a later sign-in loses every token, and their old
\* sessions can no longer make new ones.
RefusedHoldsNoToken == refused => Kept = {}

\* What does hold: a refused person keeps only what a request obtained that had already
\* passed its check when the cut-off came, and what was made with that.
CutOffHolds ==
  refused => (\A c \in Held : c.slipped) /\ (\A k \in Kept : tokens[k].slipped)

\* set_password: no session of an older password outlives the change, except one that a
\* login was already issuing.
ChangeEndsSessions ==
  \A c \in cookies : Valid(c) /\ c.how = "password" => c.proof = hash \/ c.slipped

\* Of all visitors and workers that found no password, one sets it.
OneSetup == setups <= 1

-----------------------------------------------------------------------------
(* The inductive invariant behind them *)

FirstSetup == setups <= 1 /\ (hash = 0 => setups = 0)

\* Whoever proved a password that is no longer the current one was marked as overtaken.
PasswordsCurrent ==
  /\ \A c \in cookies : c.how = "password" /\ c.sealed = secret => c.proof = hash \/ c.slipped
  /\ \A r \in Request :
       pc[r] = "seal" /\ arg[r].how = "password" => arg[r].slipped \/ (arg[r].proof = hash /\ hash # 0)

\* Nothing that was earned before the cut-off lets anybody in, but what was overtaken.
SessionsOver ==
  /\ \A c \in cookies : c.how = "oidc" /\ c.iat > cutoff => c.slipped
  /\ \A r \in Request : pc[r] = "seal" /\ arg[r].how = "oidc" => arg[r].slipped

TokensOver ==
  /\ \A r \in Request : pc[r] = "insert" /\ arg[r].how = "oidc" => arg[r].slipped
  /\ \A k \in Token : tokens[k] # None /\ tokens[k].owner = "person" /\ ~tokens[k].revoked =>
                        tokens[k].slipped

CutOffs ==
  /\ \A c \in cookies : c.iat <= now
  /\ (\E r \in Request : pc[r] = "revoke" /\ ~arg[r].slipped) \/ refused => SessionsOver
  /\ refused => TokensOver

AccessInv ==
  TypeOK /\ IsFiniteSet(cookies) /\ FirstSetup /\ PasswordsCurrent /\ CutOffs

=============================================================================
