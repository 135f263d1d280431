----------------------------- MODULE MCServices -----------------------------
(* Instances of Vault, LoginLimiter, ProxySettings, SignIn and Import.     *)
(*                                                                         *)
(* They share no state: each takes its own tables and its own memory.  One *)
(* of them is chosen at the start and only its steps are taken, so the     *)
(* states are the sum of theirs, not the product, and every behaviour of   *)
(* every one of them is there.                                             *)
EXTENDS Vault, LoginLimiter, ProxySettings, SignIn, Import, TLC

VARIABLE chosen

servicesVars == <<vars, limiterVars, proxyVars, signInVars, importVars, chosen>>

\* The components that were not chosen all start in one state.
Still ==
  /\ chosen # "vault" => deploy.env = None /\ \A s \in Secret : meant[s] = CHOOSE t \in Text : TRUE
  /\ chosen # "import" => recorded = {}

ServicesInit ==
  /\ chosen \in {"vault", "limiter", "proxies", "sign-in", "import"}
  /\ Init /\ LimiterInit /\ ProxyInit /\ SignInInit /\ ImportInit
  /\ Still

ServicesNext ==
  /\ UNCHANGED chosen
  /\ \/ /\ chosen = "vault" /\ Next
        /\ UNCHANGED <<limiterVars, proxyVars, signInVars, importVars>>
     \/ /\ chosen = "limiter" /\ LimiterNext
        /\ UNCHANGED <<vars, proxyVars, signInVars, importVars>>
     \/ /\ chosen = "proxies" /\ ProxyNext
        /\ UNCHANGED <<vars, limiterVars, signInVars, importVars>>
     \/ /\ chosen = "sign-in" /\ SignInNext
        /\ UNCHANGED <<vars, limiterVars, proxyVars, importVars>>
     \/ /\ chosen = "import" /\ ImportNext
        /\ UNCHANGED <<vars, limiterVars, proxyVars, signInVars>>

ServicesSpec == ServicesInit /\ [][ServicesNext]_servicesVars

\* Every variable of every component has its type (vault.py, auth.py, proxies.py, oidc.py,
\* import_sqlite.py).
Typed ==
  /\ chosen = "vault"   => TypeOK
  /\ chosen = "limiter" => LimiterTypeOK
  /\ chosen = "proxies" => ProxyTypeOK
  /\ chosen = "sign-in" => SignInTypeOK
  /\ chosen = "import"  => ImportTypeOK

\* Generated keys are only compared; workers differ only in what they do.
ServicesSymmetry ==
  Permutations(Worker) \cup Permutations(FileKey) \cup Permutations(EnvKey)

=============================================================================
