---------------------------- MODULE AccessProofs ----------------------------
(***************************************************************************)
(* What Access keeps for any number of requests, tokens, password changes  *)
(* and cut-offs: one initial password, no session of an older password,    *)
(* and nothing for a refused person but what was overtaken by the cut-off. *)
(***************************************************************************)
EXTENDS Access, FiniteSetTheorems, TLAPS

\* The values a finite set of records has at one field are finitely many.
LEMMA FiniteValues ==
  ASSUME NEW S, IsFiniteSet(S), NEW f, f = [x \in S |-> f[x]]
  PROVE  IsFiniteSet({f[x] : x \in S})
<1>1. f \in Surjection(S, {f[x] : x \in S}) BY DEF Surjection
<1>. QED BY <1>1, FS_Surjection

\* A fresh name is not zero, and nothing that is kept refers to it.
LEMMA FreshNew ==
  ASSUME TypeOK, IsFiniteSet(cookies)
  PROVE  Fresh \in Nat \ {0} /\ \A c \in cookies : c.sealed # Fresh
<1>. DEFINE sealings == {c.sealed : c \in cookies}
            proofs == {c.proof : c \in cookies}
            proved == {arg[r].proof : r \in Request}
            used == {hash, secret} \cup sealings \cup proofs \cup proved
<1>1. IsFiniteSet(sealings)
  <2>. DEFINE f == [c \in cookies |-> c.sealed]
  <2>1. IsFiniteSet({f[c] : c \in cookies})
    <3>1. f = [x \in cookies |-> f[x]] OBVIOUS
    <3>. HIDE DEF f
    <3>. QED BY <3>1, FiniteValues
  <2>2. {f[c] : c \in cookies} = sealings OBVIOUS
  <2>. QED BY <2>1, <2>2
<1>2. IsFiniteSet(proofs)
  <2>. DEFINE f == [c \in cookies |-> c.proof]
  <2>1. IsFiniteSet({f[c] : c \in cookies})
    <3>1. f = [x \in cookies |-> f[x]] OBVIOUS
    <3>. HIDE DEF f
    <3>. QED BY <3>1, FiniteValues
  <2>2. {f[c] : c \in cookies} = proofs OBVIOUS
  <2>. QED BY <2>1, <2>2
<1>3. IsFiniteSet(proved)
  <2>. DEFINE f == [r \in Request |-> arg[r].proof]
  <2>1. IsFiniteSet({f[r] : r \in Request})
    <3>1. f = [x \in Request |-> f[x]] OBVIOUS
    <3>. HIDE DEF f
    <3>. QED BY <3>1, AccessAssumption, FiniteValues
  <2>2. {f[r] : r \in Request} = proved OBVIOUS
  <2>. QED BY <2>1, <2>2
<1>4. IsFiniteSet({hash, secret})
  <2>1. IsFiniteSet({hash} \cup {secret}) BY FS_Singleton, FS_AddElement
  <2>2. {hash, secret} = {hash} \cup {secret} OBVIOUS
  <2>. QED BY <2>1, <2>2
<1>5. IsFiniteSet(used)
  <2>. HIDE DEF sealings, proofs, proved
  <2>1. IsFiniteSet({hash, secret} \cup sealings) BY <1>1, <1>4, FS_Union
  <2>2. IsFiniteSet(({hash, secret} \cup sealings) \cup proofs) BY <2>1, <1>2, FS_Union
  <2>3. IsFiniteSet((({hash, secret} \cup sealings) \cup proofs) \cup proved) BY <2>2, <1>3, FS_Union
  <2>. QED BY <2>3
<1>6. Fresh = CHOOSE n \in 1..(Cardinality(used) + 1) : n \notin used BY Zenon DEF Fresh
<1>7. \A c \in cookies : c.sealed \in used OBVIOUS
<1>. HIDE DEF used
<1>8. Cardinality(used) \in Nat BY <1>5, FS_CardinalityType
<1>9. \E n \in 1..(Cardinality(used) + 1) : n \notin used
  <2>. SUFFICES ASSUME 1..(Cardinality(used) + 1) \subseteq used PROVE FALSE OBVIOUS
  <2>1. Cardinality(1..(Cardinality(used) + 1)) = Cardinality(used) + 1
    BY <1>8, FS_Interval
  <2>2. Cardinality(1..(Cardinality(used) + 1)) <= Cardinality(used) BY <1>5, FS_Subset
  <2>. QED BY <1>8, <2>1, <2>2
<1>10. Fresh \in 1..(Cardinality(used) + 1) /\ Fresh \notin used BY <1>6, <1>9
<1>. QED BY <1>7, <1>8, <1>10

\* A new secret ends every session there is.
LEMMA DrawEnds ==
  ASSUME TypeOK, IsFiniteSet(cookies), Draw
  PROVE  secret' \in Nat /\ cookies' = {}
BY FreshNew DEF Draw, Keep

LEMMA StoreEnds ==
  ASSUME TypeOK, IsFiniteSet(cookies), Store
  PROVE  hash' \in Nat \ {0} /\ secret' \in Nat /\ cookies' = {}
BY FreshNew, DrawEnds DEF Store

-----------------------------------------------------------------------------
(* Types *)

Stages == {"idle", "initialise", "set", "seal", "mint", "away", "cut", "revoke", "insert"}
Requests == /\ pc \in [Request -> Stages] /\ arg \in [Request -> Memory]
            /\ \A r \in Request : pc[r] = "seal" => arg[r].how # "account"

LEMMA GotoTypes ==
  ASSUME TypeOK, NEW r \in Request, NEW what \in Memory, NEW where \in Stages,
         Goto(r, where, what), where = "seal" => what.how # "account"
  PROVE  Requests'
BY DEF TypeOK, Goto, Requests, Stages

LEMMA SlipTypes ==
  ASSUME TypeOK, NEW r \in Request, NEW what \in Memory, NEW S, NEW where \in Stages,
         Slip(r, where, what, S), where = "seal" => what.how # "account"
  PROVE  Requests'
<1>1. \A q \in Request : /\ [arg[q] EXCEPT !.slipped = @ \/ q \in S] \in Memory
                         /\ [arg[q] EXCEPT !.slipped = @ \/ q \in S].how = arg[q].how
  <2>1. ASSUME NEW q \in Request
        PROVE  /\ [arg[q] EXCEPT !.slipped = @ \/ q \in S] \in Memory
               /\ [arg[q] EXCEPT !.slipped = @ \/ q \in S].how = arg[q].how
    <3>1. \A b \in BOOLEAN : [arg[q] EXCEPT !.slipped = b] \in Memory BY DEF TypeOK, Memory
    <3>2. (arg[q].slipped \/ q \in S) \in BOOLEAN OBVIOUS
    <3>3. [arg[q] EXCEPT !.slipped = @ \/ q \in S].how = arg[q].how BY DEF TypeOK, Memory
    <3>. QED BY <3>1, <3>2, <3>3
  <2>. QED BY <2>1
<1>2. /\ pc' = [pc EXCEPT ![r] = where]
      /\ \A q \in Request : arg'[q] = IF q = r THEN what ELSE [arg[q] EXCEPT !.slipped = @ \/ q \in S]
      /\ arg' \in [Request -> Memory]
  BY <1>1 DEF Slip
<1>3. pc' \in [Request -> Stages] BY <1>2 DEF TypeOK, Stages
<1>4. ASSUME NEW q \in Request, pc'[q] = "seal" PROVE arg'[q].how # "account"
  <2>1. CASE q = r BY <1>2, <1>4, <2>1 DEF TypeOK
  <2>2. CASE q # r
    <3>1. pc[q] = "seal" BY <1>2, <1>4, <2>2 DEF TypeOK
    <3>. QED BY <1>1, <1>2, <2>2, <3>1 DEF TypeOK
  <2>. QED BY <2>1, <2>2
<1>. QED BY <1>2, <1>3, <1>4 DEF Requests

LEMMA BlankType ==
  /\ Blank \in Memory
  /\ \A n \in Nat : [Blank EXCEPT !.proof = n] \in Memory /\ [Blank EXCEPT !.proof = n].how = "password"
  /\ [Blank EXCEPT !.how = "oidc"] \in Memory /\ [Blank EXCEPT !.how = "oidc"].how = "oidc"
BY DEF Blank, Memory

\* Every action keeps every variable in its type and the sessions finitely many.
LEMMA AccessTypes ==
  ASSUME TypeOK, IsFiniteSet(cookies), [Next]_vars
  PROVE  TypeOK' /\ IsFiniteSet(cookies')
<1>. USE AccessAssumption, BlankType
<1>0. /\ \A r \in Request, where \in Stages, what \in Memory :
           Goto(r, where, what) /\ (where = "seal" => what.how # "account") => Requests'
      /\ \A r \in Request : Done(r) => Requests'
      /\ \A r \in Request, where \in Stages, what \in Memory : \A S :
           Slip(r, where, what, S) /\ (where = "seal" => what.how # "account") => Requests'
  <2>1. "idle" \in Stages BY DEF Stages
  <2>. QED BY <2>1, GotoTypes, SlipTypes DEF Done
<1>00. TypeOK' <=> /\ Requests'
                   /\ now' \in 0..MaxClock /\ hash' \in Nat /\ secret' \in Nat
                   /\ setups' \in Nat /\ changes' \in Nat
                   /\ cookies' \subseteq Cookie /\ cutoff' \in 0..MaxClock
                   /\ tokens' \in [Token -> Row \cup {None}]
                   /\ disabled' \in BOOLEAN /\ sso' \in BOOLEAN /\ refused' \in BOOLEAN
                   /\ faults' \in Nat
  BY DEF TypeOK, Requests, Stages
<1>000. /\ now \in 0..MaxClock /\ hash \in Nat /\ secret \in Nat
        /\ setups \in Nat /\ changes \in Nat
        /\ cookies \subseteq Cookie /\ cutoff \in 0..MaxClock
        /\ tokens \in [Token -> Row \cup {None}]
        /\ disabled \in BOOLEAN /\ sso \in BOOLEAN /\ refused \in BOOLEAN
        /\ faults \in Nat
        /\ arg \in [Request -> Memory]
        /\ \A r \in Request : pc[r] = "seal" => arg[r].how # "account"
        /\ Requests
  BY DEF TypeOK, Requests, Stages
<1>. USE DEF Stages
<1>1. ASSUME NEW r \in Request, Configured(r) PROVE TypeOK' /\ IsFiniteSet(cookies')
  <2>1. Requests' BY <1>0, <1>1 DEF Configured
  <2>. QED BY <1>00, <1>000, <1>1, <2>1 DEF Configured, world, settings, browser
<1>2. ASSUME NEW r \in Request, NEW b \in BOOLEAN, Initialise(r, b) PROVE TypeOK' /\ IsFiniteSet(cookies')
  <2>1. CASE hash = 0
    <3>1. hash' \in Nat \ {0} /\ secret' \in Nat /\ cookies' = {} BY <1>2, <2>1, StoreEnds DEF Initialise
    <3>2. Requests' BY <1>0, <1>2, <2>1, <3>1 DEF Initialise
    <3>. QED BY <1>00, <1>000, <1>2, <2>1, <3>1, <3>2, FS_EmptySet DEF Initialise, world
  <2>2. CASE hash # 0
    <3>1. Requests' BY <1>0, <1>2, <2>2 DEF Initialise
    <3>. QED BY <1>00, <1>000, <1>2, <2>2, <3>1 DEF Initialise, world, settings
  <2>. QED BY <2>1, <2>2
<1>3. ASSUME NEW r \in Request, Login(r) PROVE TypeOK' /\ IsFiniteSet(cookies')
  <2>1. Requests' BY <1>0, <1>000, <1>3 DEF Login
  <2>. QED BY <1>00, <1>000, <1>3, <2>1 DEF Login, world, settings, browser
<1>4. ASSUME NEW r \in Request, Change(r) PROVE TypeOK' /\ IsFiniteSet(cookies')
  <2>1. Requests' BY <1>0, <1>4 DEF Change
  <2>. QED BY <1>00, <1>000, <1>4, <2>1 DEF Change, world, settings, browser
<1>5. ASSUME NEW r \in Request, SetPassword(r) PROVE TypeOK' /\ IsFiniteSet(cookies')
  <2>1. hash' \in Nat \ {0} /\ secret' \in Nat /\ cookies' = {} BY <1>5, StoreEnds DEF SetPassword
  <2>2. Requests' BY <1>0, <1>5, <2>1 DEF SetPassword
  <2>. QED BY <1>00, <1>000, <1>5, <2>1, <2>2, FS_EmptySet DEF SetPassword, world
<1>6. ASSUME NEW r \in Request, Seal(r) PROVE TypeOK' /\ IsFiniteSet(cookies')
  <2>1. Requests' BY <1>0, <1>6 DEF Seal, Done
  <2>. DEFINE issued == [how |-> arg[r].how, iat |-> now, sealed |-> secret,
                         proof |-> arg[r].proof, slipped |-> arg[r].slipped]
  <2>4. arg[r].how \in {"password", "oidc"} /\ arg[r].proof \in Nat /\ arg[r].slipped \in BOOLEAN
    BY <1>000, <1>6 DEF Seal, Memory
  <2>5. now \in Nat BY <1>000
  <2>6. issued \in Cookie BY <1>000, <2>4, <2>5 DEF Cookie
  <2>7. cookies' = cookies \cup {issued} BY <1>6 DEF Seal
  <2>. HIDE DEF issued
  <2>2. PICK c \in Cookie : cookies' = cookies \cup {c} BY <2>6, <2>7
  <2>3. IsFiniteSet(cookies') BY <2>2, FS_AddElement
  <2>. QED BY <1>00, <1>000, <1>6, <2>1, <2>2, <2>3 DEF Seal, world, settings
<1>7. ASSUME NEW r \in Request, BeginSignIn(r) PROVE TypeOK' /\ IsFiniteSet(cookies')
  <2>1. Requests' BY <1>0, <1>000, <1>7 DEF BeginSignIn
  <2>. QED BY <1>00, <1>000, <1>7, <2>1 DEF BeginSignIn, world, settings, browser
<1>8. ASSUME NEW r \in Request, Mint(r) PROVE TypeOK' /\ IsFiniteSet(cookies')
  <2>1. secret' \in Nat /\ cookies' = {} BY <1>8, DrawEnds DEF Mint
  <2>2. Requests' BY <1>0, <1>8, <2>1 DEF Mint
  <2>. QED BY <1>00, <1>000, <1>8, <2>1, <2>2, FS_EmptySet DEF Mint, world
<1>9. ASSUME NEW r \in Request, NEW b \in BOOLEAN, Callback(r, b) PROVE TypeOK' /\ IsFiniteSet(cookies')
  <2>1. Requests' BY <1>0, <1>9 DEF Callback
  <2>2. refused' \in BOOLEAN BY <1>000, <1>9 DEF Callback
  <2>. QED BY <1>00, <1>000, <1>9, <2>1, <2>2 DEF Callback, world, settings, browser
<1>10. ASSUME NEW r \in Request, NEW b \in BOOLEAN, EndSessions(r, b) PROVE TypeOK' /\ IsFiniteSet(cookies')
  <2>1. arg[r] \in Memory /\ [arg[r] EXCEPT !.slipped = TRUE] \in Memory BY <1>000 DEF Memory
  <2>2. Requests' BY <1>0, <1>10, <2>1 DEF EndSessions
  <2>3. cutoff' \in 0..MaxClock /\ faults' \in Nat BY <1>000, <1>10 DEF EndSessions, Later
  <2>. QED BY <1>00, <1>000, <1>10, <2>2, <2>3 DEF EndSessions, world, settings
<1>11. ASSUME NEW r \in Request, NEW b \in BOOLEAN, RevokeAll(r, b) PROVE TypeOK' /\ IsFiniteSet(cookies')
  <2>1. Requests' BY <1>0, <1>11 DEF RevokeAll
  <2>2. tokens' \in [Token -> Row \cup {None}]
    <3>1. \A x \in Row : [x EXCEPT !.revoked = TRUE] \in Row BY DEF Row
    <3>. QED BY <1>000, <1>11, <3>1 DEF RevokeAll
  <2>4. faults' \in Nat BY <1>000, <1>11 DEF RevokeAll
  <2>5. (refused \/ ~ arg[r].slipped) \in BOOLEAN OBVIOUS
  <2>6. refused' = refused \/ refused' = (refused \/ ~ arg[r].slipped) BY <1>11, Zenon DEF RevokeAll
  <2>3. refused' \in BOOLEAN /\ faults' \in Nat BY <1>000, <2>4, <2>5, <2>6
  <2>. QED BY <1>00, <1>000, <1>11, <2>1, <2>2, <2>3 DEF RevokeAll, world, settings, browser
<1>12. ASSUME NEW r \in Request, NEW c \in cookies, AskToken(r, c) PROVE TypeOK' /\ IsFiniteSet(cookies')
  <2>1. [how |-> "oidc", proof |-> 0, slipped |-> c.slipped] \in Memory BY <1>000 DEF Cookie, Memory
  <2>2. Requests' BY <1>0, <1>12, <2>1 DEF AskToken
  <2>. QED BY <1>00, <1>000, <1>12, <2>2 DEF AskToken, world, settings, browser
<1>13. ASSUME NEW r \in Request, NEW c \in cookies, AskAccountToken(r, c) PROVE TypeOK' /\ IsFiniteSet(cookies')
  <2>1. [how |-> "account", proof |-> 0, slipped |-> FALSE] \in Memory BY DEF Memory
  <2>2. Requests' BY <1>0, <1>13, <2>1 DEF AskAccountToken
  <2>. QED BY <1>00, <1>000, <1>13, <2>2 DEF AskAccountToken, world, settings, browser
<1>14. ASSUME NEW r \in Request, NEW k \in Token, InsertToken(r, k) PROVE TypeOK' /\ IsFiniteSet(cookies')
  <2>1. Requests' BY <1>0, <1>14 DEF InsertToken
  <2>2. tokens' \in [Token -> Row \cup {None}]
    BY <1>000, <1>14 DEF InsertToken, Row, Memory
  <2>. QED BY <1>00, <1>000, <1>14, <2>1, <2>2 DEF InsertToken, world, settings, browser
<1>15. ASSUME NEW c \in cookies, SetDisabled(c) PROVE TypeOK' /\ IsFiniteSet(cookies')
  <2>1. Requests' BY <1>000, <1>15 DEF SetDisabled, Requests
  <2>. QED BY <1>00, <1>000, <1>15, <2>1 DEF SetDisabled, world, settings, browser
<1>16. ASSUME NEW c \in cookies, NEW k \in Token, Revoke(c, k) PROVE TypeOK' /\ IsFiniteSet(cookies')
  <2>1. Requests' BY <1>000, <1>16 DEF Revoke, Requests
  <2>2. tokens' \in [Token -> Row \cup {None}] BY <1>000, <1>16 DEF Revoke, Row
  <2>. QED BY <1>00, <1>000, <1>16, <2>1, <2>2 DEF Revoke, world, settings, browser
<1>17. CASE SwitchSso
  <2>1. Requests' BY <1>000, <1>17 DEF SwitchSso, Requests
  <2>. QED BY <1>00, <1>000, <1>17, <2>1 DEF SwitchSso, settings, browser
<1>18. CASE Tick
  <2>1. Requests' BY <1>000, <1>18 DEF Tick, Requests
  <2>2. cookies' \in SUBSET cookies BY <1>18 DEF Tick, Keep
  <2>3. IsFiniteSet(cookies') BY <2>2, FS_Subset
  <2>. QED BY <1>00, <1>000, <1>18, <2>1, <2>2, <2>3 DEF Tick, settings
<1>19. CASE UNCHANGED vars
  <2>1. Requests' BY <1>000, <1>19 DEF vars, Requests
  <2>. QED BY <1>00, <1>000, <1>19, <2>1 DEF vars
<1>. QED BY <1>1, <1>2, <1>3, <1>4, <1>5, <1>6, <1>7, <1>8, <1>9, <1>10, <1>11, <1>12, <1>13,
            <1>14, <1>15, <1>16, <1>17, <1>18, <1>19 DEF Next

-----------------------------------------------------------------------------
(* The initial password, and the sessions of older ones *)

LEMMA GotoEffect ==
  ASSUME TypeOK, NEW r \in Request, NEW where, NEW what, Goto(r, where, what)
  PROVE  \A q \in Request : /\ pc'[q] = IF q = r THEN where ELSE pc[q]
                            /\ arg'[q] = IF q = r THEN what ELSE arg[q]
BY DEF TypeOK, Goto

LEMMA SlipEffect ==
  ASSUME TypeOK, NEW r \in Request, NEW where, NEW what, NEW S, Slip(r, where, what, S)
  PROVE  /\ \A q \in Request : pc'[q] = IF q = r THEN where ELSE pc[q]
         /\ arg'[r] = what
         /\ \A q \in Request : q # r => /\ arg'[q].how = arg[q].how /\ arg'[q].proof = arg[q].proof
                                        /\ arg'[q].slipped <=> arg[q].slipped \/ q \in S
<1>1. \A q \in Request : pc'[q] = IF q = r THEN where ELSE pc[q] BY DEF TypeOK, Slip
<1>2. arg'[r] = what BY DEF Slip
<1>3. ASSUME NEW q \in Request, q # r
      PROVE  /\ arg'[q].how = arg[q].how /\ arg'[q].proof = arg[q].proof
             /\ arg'[q].slipped <=> arg[q].slipped \/ q \in S
  <2>1. arg'[q] = [arg[q] EXCEPT !.slipped = @ \/ q \in S] BY <1>3 DEF Slip
  <2>2. arg[q] \in [how : {"password", "oidc", "account"}, proof : Nat, slipped : BOOLEAN]
    BY DEF TypeOK, Memory
  <2>3. arg'[q].slipped = (arg[q].slipped \/ q \in S) BY <2>1, <2>2
  <2>. QED BY <2>1, <2>2, <2>3
<1>. QED BY <1>1, <1>2, <1>3

\* The initial password is stored once; from then on there is one.
LEMMA SetupSteps ==
  ASSUME AccessInv, [Next]_vars
  PROVE  FirstSetup'
<1>. USE DEF AccessInv, FirstSetup
<1>1. ASSUME NEW r \in Request, NEW b \in BOOLEAN, Initialise(r, b) PROVE FirstSetup'
  <2>1. CASE hash = 0
    <3>1. hash' \in Nat \ {0} BY <1>1, <2>1, StoreEnds DEF Initialise
    <3>2. setups' = 1 BY <1>1, <2>1 DEF Initialise
    <3>. QED BY <3>1, <3>2
  <2>2. CASE hash # 0 BY <1>1, <2>2 DEF Initialise, settings
  <2>. QED BY <2>1, <2>2
<1>2. ASSUME NEW r \in Request, SetPassword(r) PROVE FirstSetup'
  <2>1. hash' \in Nat \ {0} BY <1>2, StoreEnds DEF SetPassword
  <2>2. setups' = setups BY <1>2 DEF SetPassword
  <2>. QED BY <2>1, <2>2
<1>3. ASSUME UNCHANGED <<hash, setups>> PROVE FirstSetup' BY <1>3
<1>. QED BY <1>1, <1>2, <1>3
         DEF Next, vars, settings, Configured, Login, Change, Seal, BeginSignIn, Mint, EndSessions,
             RevokeAll, Callback, AskToken, AskAccountToken, InsertToken, SetDisabled, Revoke,
             SwitchSso, Tick

\* Whoever proved an older password is marked, or its session went with the secret.
LEMMA PasswordSteps ==
  ASSUME AccessInv, [Next]_vars
  PROVE  PasswordsCurrent'
<1>. USE DEF AccessInv
<1>0. ASSUME UNCHANGED <<hash, secret>>, cookies' \subseteq cookies,
             \A q \in Request : pc'[q] = "seal" /\ arg'[q].how = "password" =>
               \/ arg'[q].slipped
               \/ arg'[q].proof = hash /\ hash # 0
      PROVE  PasswordsCurrent'
  BY <1>0 DEF PasswordsCurrent
<1>00. ASSUME UNCHANGED <<hash, secret>>, cookies' \subseteq cookies,
              NEW r \in Request, NEW where, NEW what, Goto(r, where, what),
              where = "seal" /\ what.how = "password" => what.proof = hash /\ hash # 0
       PROVE  PasswordsCurrent'
  <2>1. \A q \in Request : /\ pc'[q] = IF q = r THEN where ELSE pc[q]
                           /\ arg'[q] = IF q = r THEN what ELSE arg[q]
    BY <1>00, GotoEffect
  <2>. QED BY <1>0, <1>00, <2>1 DEF PasswordsCurrent
<1>000. ASSUME UNCHANGED <<hash, secret>>, cookies' \subseteq cookies,
               NEW r \in Request, NEW where, NEW what, NEW S, Slip(r, where, what, S),
               where = "seal" => what.how # "password"
        PROVE  PasswordsCurrent'
  <2>1. /\ \A q \in Request : pc'[q] = IF q = r THEN where ELSE pc[q]
        /\ arg'[r] = what
        /\ \A q \in Request : q # r => /\ arg'[q].how = arg[q].how /\ arg'[q].proof = arg[q].proof
                                       /\ arg[q].slipped => arg'[q].slipped
    BY <1>000, SlipEffect
  <2>. QED BY <1>0, <1>000, <2>1 DEF PasswordsCurrent
<1>1. ASSUME NEW r \in Request, Configured(r) PROVE PasswordsCurrent'
  BY <1>1, <1>00 DEF Configured, settings, browser
<1>2. ASSUME NEW r \in Request, NEW b \in BOOLEAN, Initialise(r, b) PROVE PasswordsCurrent'
  <2>1. CASE hash = 0
    <3>1. hash' \in Nat \ {0} /\ cookies' = {} BY <1>2, <2>1, StoreEnds DEF Initialise
    <3>2. \A q \in Request : q # r => pc'[q] = pc[q] /\ arg'[q] = arg[q]
      BY <1>2, <2>1, GotoEffect DEF Initialise, Done
    <3>3. pc'[r] = "seal" => arg'[r].proof = hash'
      BY <1>2, <2>1, GotoEffect, BlankType DEF Initialise, Done, Blank
    <3>4. \A q \in Request : pc[q] = "seal" /\ arg[q].how = "password" => arg[q].slipped
      BY <2>1 DEF PasswordsCurrent
    <3>. QED BY <3>1, <3>2, <3>3, <3>4 DEF PasswordsCurrent
  <2>2. CASE hash # 0 BY <1>2, <2>2, <1>00 DEF Initialise, settings, Done
  <2>. QED BY <2>1, <2>2
<1>3. ASSUME NEW r \in Request, Login(r) PROVE PasswordsCurrent'
  BY <1>3, <1>00 DEF Login, settings, browser, Blank
<1>4. ASSUME NEW r \in Request, Change(r) PROVE PasswordsCurrent'
  BY <1>4, <1>00 DEF Change, settings, browser
<1>5. ASSUME NEW r \in Request, SetPassword(r) PROVE PasswordsCurrent'
  <2>1. hash' \in Nat \ {0} /\ cookies' = {} BY <1>5, StoreEnds DEF SetPassword
  <2>2. /\ \A q \in Request : pc'[q] = IF q = r THEN "seal" ELSE pc[q]
        /\ arg'[r] = [Blank EXCEPT !.proof = hash']
        /\ \A q \in Request : q # r => (pc[q] = "seal" => arg'[q].slipped)
    BY <1>5, SlipEffect DEF SetPassword
  <2>3. arg'[r].proof = hash' BY <2>2 DEF Blank
  <2>. QED BY <2>1, <2>2, <2>3 DEF PasswordsCurrent
<1>6. ASSUME NEW r \in Request, Seal(r) PROVE PasswordsCurrent'
  <2>1. \A q \in Request : /\ pc'[q] = IF q = r THEN "idle" ELSE pc[q]
                           /\ arg'[q] = IF q = r THEN Blank ELSE arg[q]
    BY <1>6, GotoEffect DEF Seal, Done
  <2>2. /\ pc[r] = "seal" /\ UNCHANGED <<hash, secret>>
        /\ cookies' = cookies \cup {[how |-> arg[r].how, iat |-> now, sealed |-> secret,
                                     proof |-> arg[r].proof, slipped |-> arg[r].slipped]}
    BY <1>6 DEF Seal, settings
  <2>3. ASSUME NEW c \in cookies', c.how = "password", c.sealed = secret
        PROVE  c.proof = hash \/ c.slipped
    <3>1. CASE c \in cookies BY <2>3, <3>1 DEF PasswordsCurrent
    <3>2. CASE c \notin cookies
      <4>1. c.how = arg[r].how /\ c.proof = arg[r].proof /\ c.slipped = arg[r].slipped BY <2>2, <3>2
      <4>. QED BY <2>2, <2>3, <4>1 DEF PasswordsCurrent
    <3>. QED BY <3>1, <3>2
  <2>. QED BY <2>1, <2>2, <2>3 DEF PasswordsCurrent
<1>7. ASSUME NEW r \in Request, BeginSignIn(r) PROVE PasswordsCurrent'
  BY <1>7, <1>00 DEF BeginSignIn, settings, browser
<1>8. ASSUME NEW r \in Request, Mint(r) PROVE PasswordsCurrent'
  <2>1. cookies' = {} /\ hash' = hash BY <1>8, DrawEnds DEF Mint
  <2>2. \A q \in Request : /\ pc'[q] = IF q = r THEN "away" ELSE pc[q]
                           /\ q # r => arg'[q] = arg[q]
    BY <1>8, GotoEffect DEF Mint
  <2>. QED BY <2>1, <2>2 DEF PasswordsCurrent
<1>9. ASSUME NEW r \in Request, NEW b \in BOOLEAN, Callback(r, b) PROVE PasswordsCurrent'
  <2>1. UNCHANGED <<hash, secret>> /\ cookies' = cookies BY <1>9 DEF Callback, settings, browser
  <2>. QED BY <1>9, <1>00, <1>000, <2>1, BlankType DEF Callback, Done
<1>10. ASSUME NEW r \in Request, NEW b \in BOOLEAN, EndSessions(r, b) PROVE PasswordsCurrent'
  <2>1. UNCHANGED <<hash, secret>> /\ cookies' = cookies BY <1>10 DEF EndSessions, settings
  <2>. QED BY <1>10, <1>00, <1>000, <2>1 DEF EndSessions
<1>11. ASSUME NEW r \in Request, NEW b \in BOOLEAN, RevokeAll(r, b) PROVE PasswordsCurrent'
  <2>1. UNCHANGED <<hash, secret>> /\ cookies' = cookies BY <1>11 DEF RevokeAll, settings, browser
  <2>. QED BY <1>11, <1>00, <1>000, <2>1 DEF RevokeAll, Done
<1>12. ASSUME NEW r \in Request, NEW c \in cookies, AskToken(r, c) PROVE PasswordsCurrent'
  BY <1>12, <1>00 DEF AskToken, settings, browser
<1>13. ASSUME NEW r \in Request, NEW c \in cookies, AskAccountToken(r, c) PROVE PasswordsCurrent'
  BY <1>13, <1>00 DEF AskAccountToken, settings, browser
<1>14. ASSUME NEW r \in Request, NEW k \in Token, InsertToken(r, k) PROVE PasswordsCurrent'
  BY <1>14, <1>00 DEF InsertToken, settings, browser, Done
<1>15. ASSUME UNCHANGED <<hash, secret, pc, arg>>, cookies' \subseteq cookies PROVE PasswordsCurrent'
  BY <1>15, <1>0 DEF PasswordsCurrent
<1>. QED BY <1>1, <1>2, <1>3, <1>4, <1>5, <1>6, <1>7, <1>8, <1>9, <1>10, <1>11, <1>12, <1>13,
            <1>14, <1>15
         DEF Next, vars, settings, browser, SetDisabled, Revoke, SwitchSso, Tick, Keep

-----------------------------------------------------------------------------
(* The cut-off of a refused person *)

\* What an earlier check let through is marked when the cut-off passes it.
LEMMA CutOffSteps ==
  ASSUME AccessInv, [Next]_vars
  PROVE  CutOffs'
<1>. USE DEF AccessInv
<1>0. ASSUME UNCHANGED <<cutoff, tokens>>, cookies' \subseteq cookies, now' \in Nat, now' >= now, refused' => refused,
             \A q \in Request : pc'[q] = "revoke" /\ ~ arg'[q].slipped => pc[q] = "revoke" /\ ~ arg[q].slipped,
             \A q \in Request : /\ pc'[q] = "seal" /\ arg'[q].how = "oidc" =>
                                     \/ arg'[q].slipped
                                     \/ pc[q] = "seal" /\ arg[q].how = "oidc" /\ ~ arg[q].slipped
                                /\ pc'[q] = "insert" /\ arg'[q].how = "oidc" =>
                                     \/ arg'[q].slipped
                                     \/ ~ SessionsOver
                                     \/ pc[q] = "insert" /\ arg[q].how = "oidc" /\ ~ arg[q].slipped
      PROVE  CutOffs'
  <2>1. ASSUME SessionsOver PROVE SessionsOver'
    BY <1>0, <2>1 DEF SessionsOver
  <2>2. ASSUME SessionsOver, TokensOver PROVE TokensOver'
    BY <1>0, <2>2 DEF SessionsOver, TokensOver
  <2>3. \A c \in cookies' : c.iat <= now' BY <1>0 DEF CutOffs, TypeOK, Cookie
  <2>4. (\E r \in Request : pc'[r] = "revoke" /\ ~ arg'[r].slipped) =>
          \E r \in Request : pc[r] = "revoke" /\ ~ arg[r].slipped
    BY <1>0
  <2>. QED BY <1>0, <2>1, <2>2, <2>3, <2>4 DEF CutOffs
<1>00. ASSUME UNCHANGED <<cutoff, tokens>>, cookies' \subseteq cookies, now' = now, refused' => refused,
              NEW r \in Request, NEW where, NEW what, Goto(r, where, what),
              where = "revoke" => what.slipped,
              where = "seal" => what.how # "oidc",
              where = "insert" /\ what.how = "oidc" => what.slipped \/ ~ SessionsOver
       PROVE  CutOffs'
  <2>1. \A q \in Request : /\ pc'[q] = IF q = r THEN where ELSE pc[q]
                           /\ arg'[q] = IF q = r THEN what ELSE arg[q]
    BY <1>00, GotoEffect
  <2>2. now' \in Nat /\ now' >= now BY <1>00 DEF TypeOK
  <2>3. ASSUME NEW q \in Request
        PROVE  /\ pc'[q] = "revoke" /\ ~ arg'[q].slipped => pc[q] = "revoke" /\ ~ arg[q].slipped
               /\ pc'[q] = "seal" /\ arg'[q].how = "oidc" =>
                    \/ arg'[q].slipped
                    \/ pc[q] = "seal" /\ arg[q].how = "oidc" /\ ~ arg[q].slipped
               /\ pc'[q] = "insert" /\ arg'[q].how = "oidc" =>
                    \/ arg'[q].slipped
                    \/ ~ SessionsOver
                    \/ pc[q] = "insert" /\ arg[q].how = "oidc" /\ ~ arg[q].slipped
    <3>1. CASE q = r BY <1>00, <2>1, <3>1
    <3>2. CASE q # r BY <2>1, <3>2
    <3>. QED BY <3>1, <3>2
  <2>. QED BY <1>0, <1>00, <2>2, <2>3
<1>1. ASSUME NEW r \in Request, Configured(r) PROVE CutOffs'
  BY <1>1, <1>00 DEF Configured, world, browser
<1>2. ASSUME NEW r \in Request, NEW b \in BOOLEAN, Initialise(r, b) PROVE CutOffs'
  <2>1. cookies' \subseteq cookies BY <1>2, StoreEnds DEF Initialise
  <2>2. CASE Done(r) BY <1>2, <1>00, <2>1, <2>2 DEF Initialise, world, Done
  <2>3. CASE Goto(r, "seal", [Blank EXCEPT !.proof = hash'])
    <3>1. [Blank EXCEPT !.proof = hash'].how # "oidc" BY DEF Blank
    <3>. QED BY <1>2, <1>00, <2>1, <2>3, <3>1 DEF Initialise, world
  <2>. QED BY <1>2, <2>2, <2>3 DEF Initialise
<1>3. ASSUME NEW r \in Request, Login(r) PROVE CutOffs'
  <2>1. [Blank EXCEPT !.proof = hash].how # "oidc" BY DEF Blank
  <2>. QED BY <1>3, <1>00, <2>1 DEF Login, world, browser
<1>4. ASSUME NEW r \in Request, Change(r) PROVE CutOffs'
  BY <1>4, <1>00 DEF Change, world, browser
<1>5. ASSUME NEW r \in Request, SetPassword(r) PROVE CutOffs'
  <2>1. cookies' = {} BY <1>5, StoreEnds DEF SetPassword
  <2>2. [Blank EXCEPT !.proof = hash'].how # "oidc" BY DEF Blank
  <2>3. /\ \A q \in Request : pc'[q] = IF q = r THEN "seal" ELSE pc[q]
        /\ arg'[r] = [Blank EXCEPT !.proof = hash']
        /\ \A q \in Request : q # r => /\ arg'[q].how = arg[q].how
                                       /\ arg[q].slipped => arg'[q].slipped
    BY <1>5, SlipEffect DEF SetPassword
  <2>4. UNCHANGED <<cutoff, tokens, refused, now>> /\ now' \in Nat /\ now' >= now BY <1>5 DEF SetPassword, world, TypeOK
  <2>. QED BY <1>0, <2>1, <2>2, <2>3, <2>4
<1>6. ASSUME NEW r \in Request, Seal(r) PROVE CutOffs'
  <2>1. \A q \in Request : /\ pc'[q] = IF q = r THEN "idle" ELSE pc[q]
                           /\ arg'[q] = IF q = r THEN Blank ELSE arg[q]
    BY <1>6, GotoEffect DEF Seal, Done
  <2>2. /\ pc[r] = "seal" /\ UNCHANGED <<now, cutoff, tokens, refused>>
        /\ cookies' = cookies \cup {[how |-> arg[r].how, iat |-> now, sealed |-> secret,
                                     proof |-> arg[r].proof, slipped |-> arg[r].slipped]}
    BY <1>6 DEF Seal, world
  <2>3. ASSUME NEW c \in cookies', c \notin cookies
        PROVE  c.how = arg[r].how /\ c.iat = now /\ c.slipped = arg[r].slipped
    BY <2>2, <2>3
  <2>4. \A c \in cookies' : c.iat <= now'
    <3>1. now <= now BY DEF TypeOK
    <3>. QED BY <2>2, <2>3, <3>1 DEF CutOffs
  <2>5. ASSUME SessionsOver PROVE SessionsOver'
    <3>1. ASSUME NEW c \in cookies', c.how = "oidc", c.iat > cutoff PROVE c.slipped
      <4>1. CASE c \in cookies BY <2>5, <3>1, <4>1 DEF SessionsOver
      <4>2. CASE c \notin cookies BY <2>2, <2>3, <2>5, <3>1, <4>2 DEF SessionsOver
      <4>. QED BY <4>1, <4>2
    <3>. QED BY <2>1, <2>2, <2>5, <3>1 DEF SessionsOver
  <2>6. TokensOver => TokensOver' BY <2>1, <2>2 DEF TokensOver
  <2>. QED BY <2>1, <2>2, <2>4, <2>5, <2>6 DEF CutOffs
<1>7. ASSUME NEW r \in Request, BeginSignIn(r) PROVE CutOffs'
  BY <1>7, <1>00 DEF BeginSignIn, world, browser
<1>8. ASSUME NEW r \in Request, Mint(r) PROVE CutOffs'
  <2>1. cookies' = {} BY <1>8, DrawEnds DEF Mint
  <2>. QED BY <1>8, <1>00, <2>1 DEF Mint, world
<1>9. ASSUME NEW r \in Request, NEW b \in BOOLEAN, Callback(r, b) PROVE CutOffs'
  <2>1. UNCHANGED <<cutoff, tokens, cookies, now>> BY <1>9 DEF Callback, world, browser
  <2>2. CASE Done(r) /\ UNCHANGED refused BY <1>00, <2>1, <2>2 DEF Done
  <2>3. CASE Goto(r, "cut", Blank) /\ UNCHANGED refused BY <1>00, <2>1, <2>3
  <2>4. CASE /\ Slip(r, "seal", [Blank EXCEPT !.how = "oidc"], {q \in Request : pc[q] \in {"cut", "revoke"}})
             /\ refused' = FALSE
    <3>1. /\ \A q \in Request : pc'[q] = IF q = r THEN "seal" ELSE pc[q]
          /\ \A q \in Request : q # r => (pc[q] = "revoke" => arg'[q].slipped)
      BY <2>4, SlipEffect
    <3>2. ~ \E q \in Request : pc'[q] = "revoke" /\ ~ arg'[q].slipped BY <3>1
    <3>. QED BY <2>1, <2>4, <3>2 DEF CutOffs
  <2>. QED BY <1>9, <2>2, <2>3, <2>4 DEF Callback
<1>10. ASSUME NEW r \in Request, NEW b \in BOOLEAN, EndSessions(r, b) PROVE CutOffs'
  <2>1. UNCHANGED <<cookies, tokens, now, refused>> BY <1>10 DEF EndSessions, world
  <2>2. CASE Goto(r, "revoke", [arg[r] EXCEPT !.slipped = TRUE]) /\ UNCHANGED cutoff
    <3>1. [arg[r] EXCEPT !.slipped = TRUE].slipped BY DEF TypeOK, Memory
    <3>. QED BY <1>00, <2>1, <2>2, <3>1
  <2>3. CASE cutoff' = Later(cutoff, now) /\ Slip(r, "revoke", arg[r], Sealing)
    <3>1. cutoff' \in Nat /\ cutoff' >= now /\ now \in Nat BY <2>3 DEF Later, TypeOK
    <3>2. /\ \A q \in Request : pc'[q] = IF q = r THEN "revoke" ELSE pc[q]
          /\ arg'[r] = arg[r]
          /\ \A q \in Request : q # r => /\ arg'[q].how = arg[q].how
                                         /\ arg[q].slipped => arg'[q].slipped
                                         /\ q \in Sealing => arg'[q].slipped
      BY <2>3, SlipEffect
    <3>3. SessionsOver'
      <4>1. \A c \in cookies' : ~ (c.iat > cutoff')
        <5>1. \A c \in cookies : c.iat \in Nat /\ c.iat <= now BY DEF CutOffs, TypeOK, Cookie
        <5>. QED BY <2>1, <3>1, <5>1
      <4>2. \A q \in Request : pc'[q] = "seal" /\ arg'[q].how = "oidc" => arg'[q].slipped
        BY <3>2 DEF Sealing
      <4>. QED BY <4>1, <4>2 DEF SessionsOver
    <3>4. TokensOver => TokensOver' BY <2>1, <3>2 DEF TokensOver
    <3>. QED BY <2>1, <3>3, <3>4 DEF CutOffs
  <2>. QED BY <1>10, <2>2, <2>3 DEF EndSessions
<1>11. ASSUME NEW r \in Request, NEW b \in BOOLEAN, RevokeAll(r, b) PROVE CutOffs'
  <2>1. UNCHANGED <<cookies, cutoff, now>> /\ pc[r] = "revoke" BY <1>11 DEF RevokeAll, world, browser
  <2>2. CASE Done(r) /\ UNCHANGED <<tokens, refused>> BY <1>00, <2>1, <2>2 DEF Done
  <2>3. CASE /\ tokens' = [k \in Token |-> IF tokens[k] # None /\ tokens[k].owner = "person"
                                           THEN [tokens[k] EXCEPT !.revoked = TRUE] ELSE tokens[k]]
             /\ refused' = (refused \/ ~ arg[r].slipped)
             /\ Slip(r, "idle", Blank, Inserting)
    <3>1. /\ \A q \in Request : pc'[q] = IF q = r THEN "idle" ELSE pc[q]
          /\ \A q \in Request : q # r => /\ arg'[q].how = arg[q].how
                                         /\ arg[q].slipped => arg'[q].slipped
                                         /\ arg'[q].slipped => arg[q].slipped \/ pc[q] = "insert"
                                         /\ q \in Inserting => arg'[q].slipped
      BY <2>3, SlipEffect DEF Inserting
    <3>2. SessionsOver => SessionsOver' BY <2>1, <3>1 DEF SessionsOver
    <3>3. TokensOver'
      <4>1. ASSUME NEW q \in Request, pc'[q] = "insert", arg'[q].how = "oidc" PROVE arg'[q].slipped
        BY <3>1, <4>1 DEF Inserting
      <4>2. ASSUME NEW k \in Token, tokens'[k] # None, tokens'[k].owner = "person", ~ tokens'[k].revoked
            PROVE  FALSE
        <5>1. CASE tokens[k] # None /\ tokens[k].owner = "person"
          <6>1. tokens[k] \in Row BY <5>1 DEF TypeOK
          <6>2. tokens'[k] = [tokens[k] EXCEPT !.revoked = TRUE] BY <2>3, <5>1
          <6>. QED BY <4>2, <6>1, <6>2 DEF Row
        <5>2. CASE ~ (tokens[k] # None /\ tokens[k].owner = "person")
          <6>1. tokens'[k] = tokens[k] BY <2>3, <5>2
          <6>. QED BY <4>2, <5>2, <6>1
        <5>. QED BY <5>1, <5>2
      <4>. QED BY <4>1, <4>2 DEF TokensOver
    <3>4. refused' => refused \/ ~ arg[r].slipped BY <2>3
    <3>5. refused' => SessionsOver BY <2>1, <3>4 DEF CutOffs
    <3>6. (\E q \in Request : pc'[q] = "revoke" /\ ~ arg'[q].slipped) => SessionsOver
      BY <3>1 DEF CutOffs
    <3>. QED BY <2>1, <3>2, <3>3, <3>5, <3>6 DEF CutOffs
  <2>. QED BY <1>11, <2>2, <2>3 DEF RevokeAll
<1>12. ASSUME NEW r \in Request, NEW c \in cookies, AskToken(r, c) PROVE CutOffs'
  <2>1. c.how = "oidc" /\ c.iat > cutoff BY <1>12 DEF AskToken, Valid
  <2>2. c.slipped \/ ~ SessionsOver BY <2>1 DEF SessionsOver
  <2>3. UNCHANGED <<cutoff, tokens, cookies, now, refused>>
        /\ Goto(r, "insert", [how |-> "oidc", proof |-> 0, slipped |-> c.slipped])
    BY <1>12 DEF AskToken, world, browser
  <2>4. cookies' \subseteq cookies /\ refused' => refused BY <2>3
  <2>. QED BY <1>00, <2>2, <2>3, <2>4
<1>13. ASSUME NEW r \in Request, NEW c \in cookies, AskAccountToken(r, c) PROVE CutOffs'
  <2>1. [how |-> "account", proof |-> 0, slipped |-> FALSE].how # "oidc" OBVIOUS
  <2>. QED BY <1>13, <1>00, <2>1 DEF AskAccountToken, world, browser
<1>14. ASSUME NEW r \in Request, NEW k \in Token, InsertToken(r, k) PROVE CutOffs'
  <2>1. \A q \in Request : /\ pc'[q] = IF q = r THEN "idle" ELSE pc[q]
                           /\ arg'[q] = IF q = r THEN Blank ELSE arg[q]
    BY <1>14, GotoEffect DEF InsertToken, Done
  <2>2. UNCHANGED <<cookies, cutoff, now, refused>> /\ pc[r] = "insert"
    BY <1>14 DEF InsertToken, world, browser
  <2>3. /\ \A j \in Token : j # k => tokens'[j] = tokens[j]
        /\ tokens'[k].owner = "person" => arg[r].how = "oidc"
        /\ tokens'[k].slipped = arg[r].slipped
    BY <1>14 DEF InsertToken, TypeOK
  <2>4. SessionsOver => SessionsOver' BY <2>1, <2>2 DEF SessionsOver
  <2>5. TokensOver => TokensOver' BY <2>1, <2>2, <2>3 DEF TokensOver
  <2>6. \A q \in Request : pc'[q] = "revoke" => pc[q] = "revoke" /\ arg'[q] = arg[q] BY <2>1
  <2>. QED BY <2>2, <2>4, <2>5, <2>6 DEF CutOffs
<1>15. ASSUME NEW c \in cookies, NEW k \in Token, Revoke(c, k) PROVE CutOffs'
  <2>1. UNCHANGED <<cookies, cutoff, now, refused, pc, arg>> BY <1>15 DEF Revoke, world, browser
  <2>2. /\ tokens[k] # None
        /\ \A j \in Token : j # k => tokens'[j] = tokens[j]
        /\ tokens'[k] = [tokens[k] EXCEPT !.revoked = TRUE]
    BY <1>15 DEF Revoke, TypeOK
  <2>3. tokens'[k].revoked
    <3>1. tokens[k] \in Row BY <2>2 DEF TypeOK
    <3>. QED BY <2>2, <3>1 DEF Row
  <2>4. SessionsOver => SessionsOver' BY <2>1 DEF SessionsOver
  <2>5. TokensOver => TokensOver' BY <2>1, <2>2, <2>3 DEF TokensOver
  <2>. QED BY <2>1, <2>4, <2>5 DEF CutOffs
<1>16. ASSUME UNCHANGED <<cutoff, tokens, pc, arg, refused>>, cookies' \subseteq cookies, now' \in Nat, now' >= now
       PROVE  CutOffs'
  BY <1>16, <1>0
<1>17. now \in Nat /\ now + 1 \in Nat /\ now >= now /\ now + 1 >= now BY DEF TypeOK
<1>. QED BY <1>1, <1>2, <1>3, <1>4, <1>5, <1>6, <1>7, <1>8, <1>9, <1>10, <1>11, <1>12, <1>13,
            <1>14, <1>15, <1>16, <1>17
         DEF Next, vars, settings, browser, world, SetDisabled, SwitchSso, Tick, Keep

-----------------------------------------------------------------------------

LEMMA AccessStart == Init => AccessInv
<1>. SUFFICES ASSUME Init PROVE AccessInv OBVIOUS
<1>. USE BlankType DEF Init
<1>1. now \in 0..MaxClock BY AccessAssumption
<1>2. TypeOK
  <2>1. cutoff \in 0..MaxClock BY AccessAssumption
  <2>2. tokens \in [Token -> Row \cup {None}] OBVIOUS
  <2>3. /\ pc \in [Request -> {"idle", "initialise", "set", "seal", "mint", "away",
                               "cut", "revoke", "insert"}]
        /\ \A r \in Request : pc[r] # "seal"
    OBVIOUS
  <2>4. arg \in [Request -> Memory] OBVIOUS
  <2>. QED BY <1>1, <2>1, <2>2, <2>3, <2>4 DEF TypeOK
<1>3. IsFiniteSet(cookies) BY FS_EmptySet
<1>. QED BY <1>2, <1>3 DEF AccessInv, FirstSetup, PasswordsCurrent, CutOffs

\* What sessions, tokens and requests keep between them.
LEMMA AccessInvariant == Spec => []AccessInv
<1>1. Init => AccessInv BY AccessStart
<1>2. ASSUME AccessInv, [Next]_vars PROVE AccessInv'
  <2>1. TypeOK' /\ IsFiniteSet(cookies') BY <1>2, AccessTypes DEF AccessInv
  <2>2. FirstSetup' BY <1>2, SetupSteps
  <2>3. PasswordsCurrent' BY <1>2, PasswordSteps
  <2>4. CutOffs' BY <1>2, CutOffSteps
  <2>. QED BY <2>1, <2>2, <2>3, <2>4 DEF AccessInv
<1>. QED BY <1>1, <1>2, PTL DEF Spec

\* Passwords, sessions, tokens and requests under way keep their types (Access.TypeOK over
\* auth.py, tokens.py and oidc.py), whatever requests and ticks interleave.
THEOREM Typing == Spec => []TypeOK
<1>1. AccessInv => TypeOK BY DEF AccessInv
<1>. QED BY <1>1, AccessInvariant, PTL

\* Of any number of visitors and workers that found no password, one sets it
\* (auth.py, set_initial_password).
THEOREM OneSetsThePassword == Spec => []OneSetup
<1>1. AccessInv => OneSetup BY DEF AccessInv, FirstSetup, OneSetup
<1>. QED BY <1>1, AccessInvariant, PTL

\* No session of an older password outlives a change, except one that a login was already
\* issuing (auth.py, set_password and issue_token).
THEOREM ChangesEndSessions == Spec => []ChangeEndsSessions
<1>1. AccessInv => ChangeEndsSessions
  BY DEF AccessInv, PasswordsCurrent, ChangeEndsSessions, Valid
<1>. QED BY <1>1, AccessInvariant, PTL

\* A refused person keeps only what a request obtained that had passed its check before
\* the cut-off, and what was made with that (oidc.py, _cut_off; tokens.py, revoke_all).
THEOREM CutOffsHold == Spec => []CutOffHolds
<1>1. AccessInv => CutOffHolds
  BY DEF AccessInv, CutOffs, SessionsOver, TokensOver, CutOffHolds, Held, Kept, Valid, Usable
<1>. QED BY <1>1, AccessInvariant, PTL

=============================================================================
