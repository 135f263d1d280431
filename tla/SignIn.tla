------------------------------- MODULE SignIn -------------------------------
(***************************************************************************)
(* Single sign-on (oidc.py, auth_router.py): from the redirect to the      *)
(* identity provider to the verified ID token.  Each worker process keeps  *)
(* the provider's discovery document and signing keys for METADATA_TTL;    *)
(* the provider rotates its keys when it likes.  What is done with the     *)
(* person who was verified, or refused, is Access.                         *)
(*                                                                         *)
(* Signing keys are numbers: the provider signs with `signing' and         *)
(* publishes the keys from `oldest' to `signing'.                          *)
(***************************************************************************)
EXTENDS Integers

CONSTANTS
  Server,       \* worker processes
  Browser,
  Flow,         \* sign-in attempts
  NoFlow,
  KeysTtl,      \* METADATA_TTL, in ticks
  FlowTtl,      \* FLOW_TTL, in ticks
  MaxMoment,    \* bound: time
  MaxKeys,      \* bound: signing keys
  MaxSwitches   \* bound: changes of the settings and of the provider being up

ASSUME SignInAssumption ==
  /\ NoFlow \notin Flow /\ Server # {} /\ Browser # {}
  /\ {KeysTtl, MaxKeys} \subseteq Nat \ {0} /\ {FlowTtl, MaxMoment, MaxSwitches} \subseteq Nat

VARIABLES
  moment,
  signing, oldest, \* the provider's keys
  withdrawn,       \* history: when the newest withdrawn key went
  up,              \* whether the provider answers
  trusted,         \* the settings: "here" (this provider), "elsewhere" or "off"
  metadata, keyset,\* _metadata_cache and _keys_cache of each server
  flowCookie,      \* the flow cookie of each browser
  flow,            \* each attempt
  switches

provider == <<signing, oldest, withdrawn>>
caches == <<metadata, keyset>>
signInVars == <<moment, provider, up, trusted, caches, flowCookie, flow, switches>>

NoKeys == [at |-> -1, newest |-> 0, from |-> 0]
NewFlow == LET b == CHOOSE x \in Browser : TRUE  p == CHOOSE x \in Server : TRUE
           IN  [stage |-> "new", from |-> b, into |-> b, server |-> p,
                began |-> 0, signer |-> 0, got |-> NoKeys, again |-> FALSE]

Moment == 0..MaxMoment
KeySets == [at : {-1} \cup Moment, newest : 0..MaxKeys, from : 0..MaxKeys]

SignInTypeOK ==
  /\ moment \in Moment
  /\ signing \in 1..MaxKeys /\ oldest \in 1..signing /\ withdrawn \in Moment
  /\ up \in BOOLEAN /\ trusted \in {"here", "elsewhere", "off"}
  /\ metadata \in [Server -> {-1} \cup Moment] /\ keyset \in [Server -> KeySets]
  /\ flowCookie \in [Browser -> Flow \cup {NoFlow}]
  /\ flow \in [Flow -> [stage : {"new", "away", "redeem", "verify", "fetch", "store",
                                 "admitted", "failed", "refused"},
                        from : Browser, into : Browser, server : Server, began : Moment,
                        signer : 0..MaxKeys, got : KeySets, again : BOOLEAN]]
  /\ switches \in Nat

SignInInit ==
  /\ moment = 0
  /\ signing = 1 /\ oldest = 1 /\ withdrawn = 0 /\ up = TRUE
  /\ trusted = "here"
  /\ metadata = [p \in Server |-> -1] /\ keyset = [p \in Server |-> NoKeys]
  /\ flowCookie = [b \in Browser |-> NoFlow]
  /\ flow = [f \in Flow |-> NewFlow]
  /\ switches = 0

\* What is left of an attempt that is over.
Over(a, how) ==
  IF how = "admitted" THEN [NewFlow EXCEPT !.stage = how, !.from = a.from, !.into = a.into]
  ELSE [NewFlow EXCEPT !.stage = how]

\* (mutant) a copy never grows old
YoungAlways(at) == at >= 0

Young(at) == at >= 0 /\ moment - at < KeysTtl

-----------------------------------------------------------------------------

\* oidc_login, begin: always asks the provider afresh; the flow cookie of the browser is
\* replaced, also when another tab is on its way.
BeginFlow(p, b, f) ==
  /\ flow[f].stage = "new" /\ trusted = "here" /\ up
  /\ metadata' = [metadata EXCEPT ![p] = moment]
  /\ flow' = [flow EXCEPT ![f] = [@ EXCEPT !.stage = "away", !.from = b, !.into = b, !.began = moment]]
  /\ flowCookie' = [flowCookie EXCEPT ![b] = f]
  /\ UNCHANGED <<moment, provider, up, trusted, keyset, switches>>

\* The checks of complete that need nobody else: the attempt is young, the provider is
\* still the one it began with, and the state is that of this browser's attempt.
Accepts(b, f) ==
  /\ trusted = "here" /\ flowCookie[b] = f
  /\ moment - flow[f].began <= FlowTtl

\* oidc_callback: the provider's answer to attempt f arrives in browser b, at any server.
\* Without a fresh copy the discovery document is read again.
StartComplete(p, b, f) ==
  /\ flow[f].stage = "away"
  /\ flowCookie' = [flowCookie EXCEPT ![b] = NoFlow]
  /\ IF Accepts(b, f) /\ (Young(metadata[p]) \/ up)
     THEN /\ flow' = [flow EXCEPT ![f] = [@ EXCEPT !.stage = "redeem", !.into = b, !.server = p]]
          /\ metadata' = [metadata EXCEPT ![p] = IF Young(@) THEN @ ELSE moment]
     ELSE /\ flow' = [flow EXCEPT ![f] = Over(@, IF Accepts(b, f) THEN "failed" ELSE "refused")]
          /\ UNCHANGED metadata
  /\ UNCHANGED <<moment, provider, up, trusted, keyset, switches>>

\* complete: the code is redeemed for an ID token, signed with the key of this moment.
Redeem(f) ==
  /\ flow[f].stage = "redeem"
  /\ flow' = [flow EXCEPT ![f] = IF up THEN [@ EXCEPT !.stage = "verify", !.signer = signing]
                                 ELSE Over(@, "refused")]
  /\ UNCHANGED <<moment, provider, up, trusted, caches, flowCookie, switches>>

Knows(keys, k) == keys.at >= 0 /\ k \in keys.from..keys.newest

\* (mutant) a key the cache lacks refuses the sign-in
VerifyOnce(f) ==
  /\ flow[f].stage = "verify"
  /\ LET keys == keyset[flow[f].server]
     IN  flow' = [flow EXCEPT ![f] =
                    IF ~Young(keys.at) THEN [@ EXCEPT !.stage = "fetch"]
                    ELSE Over(@, IF Knows(keys, flow[f].signer) THEN "admitted" ELSE "failed")]
  /\ UNCHANGED <<moment, provider, up, trusted, caches, flowCookie, switches>>

\* _verify_id_token, _keyset: a young copy of the keys decides, unless it lacks the key:
\* then they are fetched once more.
Verify(f) ==
  /\ flow[f].stage = "verify"
  /\ LET keys == keyset[flow[f].server]
     IN  flow' = [flow EXCEPT ![f] =
                    IF Young(keys.at) /\ Knows(keys, flow[f].signer)
                    THEN Over(@, "admitted")
                    ELSE [@ EXCEPT !.stage = "fetch", !.again = Young(keys.at)]]
  /\ UNCHANGED <<moment, provider, up, trusted, caches, flowCookie, switches>>

\* The request to jwks_uri.
FetchKeys(f) ==
  /\ flow[f].stage = "fetch"
  /\ flow' = [flow EXCEPT ![f] =
                IF up THEN [@ EXCEPT !.stage = "store",
                                     !.got = [at |-> moment, newest |-> signing, from |-> oldest]]
                ELSE Over(@, "refused")]
  /\ UNCHANGED <<moment, provider, up, trusted, caches, flowCookie, switches>>

\* Stored with the time after the answer; a request that was overtaken stores all the same.
StoreKeys(f) ==
  /\ flow[f].stage = "store"
  /\ keyset' = [keyset EXCEPT ![flow[f].server] = [flow[f].got EXCEPT !.at = moment]]
  /\ flow' = [flow EXCEPT ![f] =
                IF Knows(flow[f].got, flow[f].signer) THEN Over(@, "admitted")
                ELSE IF flow[f].again THEN Over(@, "failed")
                ELSE [@ EXCEPT !.stage = "fetch", !.again = TRUE, !.got = NoKeys]]
  /\ UNCHANGED <<moment, provider, up, trusted, metadata, flowCookie, switches>>

-----------------------------------------------------------------------------

\* put_oidc on one server: its caches are dropped, those of the others are not.
PutOidc(p, choice) ==
  /\ switches < MaxSwitches /\ switches' = switches + 1
  /\ trusted' = choice
  /\ metadata' = [metadata EXCEPT ![p] = -1] /\ keyset' = [keyset EXCEPT ![p] = NoKeys]
  /\ UNCHANGED <<moment, provider, up, flowCookie, flow>>

\* The provider begins to sign with a new key, which it publishes with the old ones.
Rotated ==
  /\ signing < MaxKeys /\ signing' = signing + 1
  /\ UNCHANGED <<moment, oldest, withdrawn, up, trusted, caches, flowCookie, flow, switches>>

\* It withdraws the keys it no longer signs with.
Withdrawn ==
  /\ oldest < signing /\ oldest' = signing /\ withdrawn' = moment
  /\ UNCHANGED <<moment, signing, up, trusted, caches, flowCookie, flow, switches>>

UpOrDown ==
  /\ switches < MaxSwitches /\ switches' = switches + 1
  /\ up' = ~up
  /\ UNCHANGED <<moment, provider, trusted, caches, flowCookie, flow>>

\* A request for the keys takes less than a tick (HTTP_TIMEOUT against METADATA_TTL).
MomentPasses ==
  /\ moment < MaxMoment /\ \A f \in Flow : flow[f].stage # "store" \/ flow[f].got.at = moment
  /\ moment' = moment + 1
  /\ UNCHANGED <<provider, up, trusted, caches, flowCookie, flow, switches>>

SignInNext ==
  \/ \E f \in Flow :
       \/ Redeem(f) \/ Verify(f) \/ FetchKeys(f) \/ StoreKeys(f)
       \/ \E p \in Server, b \in Browser : BeginFlow(p, b, f) \/ StartComplete(p, b, f)
  \/ \E p \in Server, choice \in {"here", "elsewhere", "off"} : PutOidc(p, choice)
  \/ Rotated \/ Withdrawn \/ UpOrDown \/ MomentPasses

SignInSpec == SignInInit /\ [][SignInNext]_signInVars

-----------------------------------------------------------------------------
(* What must hold *)

\* A key the provider has withdrawn lets nobody in for longer than the keys are kept plus
\* the time of one request, although an overtaken request stores what it got earlier
\* (oidc.py:60-62, 412-425).
WithdrawnKeyDies ==
  [][\A f \in Flow :
       flow[f].stage # "admitted" /\ flow'[f].stage = "admitted" /\ flow[f].signer < oldest =>
         moment - withdrawn <= KeysTtl]_signInVars

\* A genuine ID token is never refused because this server has old keys: when it is not
\* accepted, the provider has withdrawn its key since it signed, or did not answer
\* (oidc.py:482-486).
RotationNoticed ==
  [][\A f \in Flow :
       flow[f].stage # "failed" /\ flow'[f].stage = "failed" =>
         flow[f].stage = "away" \/ flow[f].signer < oldest]_signInVars

-----------------------------------------------------------------------------
(* The inductive invariant behind them *)

\* What was published before the newest withdrawal was asked for before it, and stored at
\* most one tick after it.
KeysKept ==
  /\ withdrawn <= moment
  /\ \A p \in Server :
       /\ keyset[p].at <= moment
       /\ keyset[p].at >= 0 /\ keyset[p].from < oldest => keyset[p].at <= withdrawn + 1
  /\ \A f \in Flow :
       /\ flow[f].stage \in {"verify", "fetch", "store"} => flow[f].signer <= signing
       /\ flow[f].stage = "store" =>
            /\ 0 <= flow[f].got.at /\ flow[f].got.at <= moment /\ moment <= flow[f].got.at + 1
            /\ flow[f].got.from <= oldest
            /\ flow[f].got.from < oldest => flow[f].got.at <= withdrawn
            /\ flow[f].signer <= flow[f].got.newest

SignInInv == SignInTypeOK /\ KeysKept

=============================================================================
