------------------------------- MODULE Vault -------------------------------
(***************************************************************************)
(* Secrets at rest (backend/app/vault.py): the generated key file, the     *)
(* encryption of passwords an older build stored as plaintext, and the     *)
(* move of stored secrets from a previous key to the current one.          *)
(*                                                                         *)
(* Every worker runs vault_rekey and vault_plaintext at startup            *)
(* (scheduler.py), each again on a later pass if it raised.  Rewrites take *)
(* turns under the lock "vault"/"rewrite"; saving a secret does not.  The  *)
(* rewrites run at READ COMMITTED, so their read and their commit are two  *)
(* steps.                                                                  *)
(***************************************************************************)
EXTENDS Integers, Sequences, FiniteSets

CONSTANTS
  Worker,
  Secret,        \* stored secrets: a connection's password, the assistant's key
  Text,          \* what an operator may enter
  Lookalike,     \* texts that happen to start with the prefix of a token
  EnvKey,        \* keys an operator may configure
  FileKey,       \* keys a worker may generate
  None,
  RotateEarly,   \* whether an operator changes the key before every worker is ready
  MaxRotations,  \* bound: changes of the configured key
  MaxSaves,      \* bound: secrets entered
  MaxRestarts,   \* bound: restarts besides those of a rotation
  MaxFaults      \* bound: startup steps that raise, times the key file is unreadable

Key == EnvKey \cup FileKey
Step == {"vault_rekey", "vault_plaintext"}

ASSUME VaultAssumption ==
  /\ Lookalike \subseteq Text
  /\ EnvKey \cap FileKey = {} /\ IsFiniteSet(Secret)
  /\ None \notin Key \cup [by : Worker, job : Step \cup {"click"}]
  /\ RotateEarly \in BOOLEAN /\ Worker # {}
  /\ {MaxRotations, MaxSaves, MaxRestarts, MaxFaults} \subseteq Nat

VARIABLES
  keyFile, fileOk,   \* the generated key file, and whether it can be read
  drawn,             \* history: keys generated so far
  deploy,            \* the configuration a worker starts with: [env, prev]
  orphaned,          \* history: keys replaced without being handed over as previous
  env, prev,         \* VCF_DOCTOR_SECRET_KEY and ..._PREVIOUS of each worker
  cache, tmp,        \* _cache of each worker, and its private temporary key file
  at, pending, first,\* the startup pass of each worker; first_run
  holder, read,      \* the open rewrite: whose, and the rows it read
  row,               \* what is stored
  migrated,          \* setting vault_migrated
  outcome,           \* setting vault_rekey_last: how many were unreadable
  meant, exposed,    \* history: last entry; entries an open rewrite will overwrite
  late,              \* history: plaintext of an older build since the last migration
  rotations, saves, restarts, faults

files  == <<keyFile, fileOk, drawn>>
config == <<deploy, orphaned, env, prev>>
keys   == <<cache, tmp>>
pass   == <<at, pending, first>>
tx     == <<holder, read>>
tables == <<row, migrated, outcome>>
entered == <<meant, exposed, late>>
used   == <<rotations, saves, restarts, faults>>
vars   == <<files, config, keys, pass, tx, tables, entered, used>>

\* A stored value: a text under zero or more layers of encryption, outermost last.
Value == [text : Text, under : Seq(Key)]
Plain(t) == [text |-> t, under |-> <<>>]

TypeOK ==
  /\ keyFile \in FileKey \cup {None} /\ fileOk \in BOOLEAN /\ drawn \subseteq FileKey
  /\ deploy \in [env : EnvKey \cup {None}, prev : Key \cup {None}]
  /\ orphaned \subseteq Key
  /\ env \in [Worker -> EnvKey \cup {None}] /\ prev \in [Worker -> Key \cup {None}]
  /\ cache \in [Worker -> Key \cup {None}] /\ tmp \in [Worker -> FileKey \cup {None}]
  /\ at \in [Worker -> {"rekey", "moving", "read", "lock", "sealing", "idle"}]
  /\ pending \in [Worker -> SUBSET Step] /\ first \in [Worker -> BOOLEAN]
  /\ holder \in {None} \cup [by : Worker, job : Step \cup {"click"}]
  /\ read \in [Secret -> Value] /\ row \in [Secret -> Value]
  /\ migrated \in BOOLEAN /\ outcome \in Nat \cup {None}
  /\ meant \in [Secret -> Text] /\ exposed \subseteq Secret /\ late \subseteq Secret
  /\ rotations \in Nat /\ saves \in Nat /\ restarts \in Nat /\ faults \in Nat

\* A database of the build before the vault, passwords in plaintext.
Init ==
  /\ keyFile = None /\ fileOk = TRUE /\ drawn = {}
  /\ deploy \in [env : EnvKey \cup {None}, prev : {None}]
  /\ orphaned = {}
  /\ env = [w \in Worker |-> deploy.env] /\ prev = [w \in Worker |-> deploy.prev]
  /\ cache = [w \in Worker |-> None] /\ tmp = [w \in Worker |-> None]
  /\ at = [w \in Worker |-> "rekey"] /\ pending = [w \in Worker |-> Step]
  /\ first = [w \in Worker |-> FALSE]
  /\ meant \in [Secret -> Text]
  /\ row = [s \in Secret |-> Plain(meant[s])]
  /\ holder = None /\ read = row
  /\ migrated = FALSE /\ outcome = None
  /\ exposed = {} /\ late = {}
  /\ rotations = 0 /\ saves = 0 /\ restarts = 0 /\ faults = 0

IsEncrypted(v) == v.under # <<>> \/ v.text \in Lookalike

\* A key opens only what it produced: the tokens are authenticated.
Opens(k, v) == v.under # <<>> /\ v.under[Len(v.under)] = k

Encrypt(k, v) == [v EXCEPT !.under = Append(@, k)]
OpenWith(v) == [v EXCEPT !.under = SubSeq(@, 1, Len(@) - 1)]

-----------------------------------------------------------------------------
(* The key: _resolve, _load_or_create_key_file, _read_key_file *)

\* The environment wins; otherwise the key file, if it is there and can be read.
Resolve(w) ==
  /\ cache[w] = None
  /\ \/ env[w] # None /\ cache' = [cache EXCEPT ![w] = env[w]]
     \/ env[w] = None /\ keyFile # None /\ fileOk /\ tmp[w] = None
        /\ cache' = [cache EXCEPT ![w] = keyFile]
  /\ UNCHANGED <<files, config, tmp, pass, tx, tables, entered, used>>

\* No file yet: a new key goes into a private temporary file ...
Generate(w, k) ==
  /\ cache[w] = None /\ env[w] = None /\ keyFile = None /\ tmp[w] = None
  /\ k \notin drawn
  /\ drawn' = drawn \cup {k}
  /\ tmp' = [tmp EXCEPT ![w] = k]
  /\ UNCHANGED <<keyFile, fileOk, config, cache, pass, tx, tables, entered, used>>

\* (mutant) the temporary file is renamed into place
Rename(w) ==
  /\ tmp[w] # None
  /\ keyFile' = tmp[w] /\ cache' = [cache EXCEPT ![w] = tmp[w]]
  /\ tmp' = [tmp EXCEPT ![w] = None]
  /\ UNCHANGED <<fileOk, drawn, config, pass, tx, tables, entered, used>>

\* ... which is linked into place, exclusively: whoever comes second reads the first's.
Link(w) ==
  /\ tmp[w] # None
  /\ IF keyFile = None
     THEN keyFile' = tmp[w] /\ cache' = [cache EXCEPT ![w] = tmp[w]]
     ELSE cache' = [cache EXCEPT ![w] = IF fileOk THEN keyFile ELSE None] /\ UNCHANGED keyFile
  /\ tmp' = [tmp EXCEPT ![w] = None]
  /\ UNCHANGED <<fileOk, drawn, config, pass, tx, tables, entered, used>>

\* KeyUnavailable: there is a file, and it cannot be read.
Unusable(w) == cache[w] = None /\ env[w] = None /\ keyFile # None /\ ~fileOk

FileTrouble ==
  /\ \/ fileOk /\ keyFile # None /\ faults < MaxFaults
        /\ fileOk' = FALSE /\ faults' = faults + 1
     \/ ~fileOk /\ fileOk' = TRUE /\ UNCHANGED faults
  /\ UNCHANGED <<keyFile, drawn, config, keys, pass, tx, tables, entered,
                 rotations, saves, restarts>>

-----------------------------------------------------------------------------
(* rekey, at startup and from the settings page *)

Movable(k, old) == {s \in Secret : IsEncrypted(read[s]) /\ ~Opens(k, read[s]) /\ Opens(old, read[s])}
Unreadable(k, old) == {s \in Secret : IsEncrypted(read[s]) /\ ~Opens(k, read[s]) /\ ~Opens(old, read[s])}

Take(w, job) == holder = None /\ holder' = [by |-> w, job |-> job] /\ read' = row
Drop == holder' = None /\ read' = [s \in Secret |-> Plain(meant[s])]

\* (mutant) every row is written back as it was read
MoveAll(k, old) ==
  row' = [s \in Secret |-> IF s \in Movable(k, old) THEN Encrypt(k, OpenWith(read[s])) ELSE read[s]]

\* The rows that were read under the old key, written back under the current one.
Move(k, old) ==
  row' = [s \in Secret |-> IF s \in Movable(k, old) THEN Encrypt(k, OpenWith(read[s])) ELSE row[s]]

StartRekey(w) ==
  /\ at[w] = "rekey" /\ "vault_rekey" \in pending[w] /\ prev[w] # None /\ cache[w] # None
  /\ Take(w, "vault_rekey")
  /\ at' = [at EXCEPT ![w] = "moving"]
  /\ UNCHANGED <<files, config, keys, pending, first, tables, entered, used>>

CommitRekey(w) ==
  /\ at[w] = "moving"
  /\ Move(cache[w], prev[w])
  /\ outcome' = Cardinality(Unreadable(cache[w], prev[w]))
  /\ Drop
  /\ at' = [at EXCEPT ![w] = "read"]
  /\ pending' = [pending EXCEPT ![w] = @ \ {"vault_rekey"}]
  /\ UNCHANGED <<files, config, keys, first, migrated, meant, exposed, late, used>>

\* No previous key, or done on an earlier pass.
SkipRekey(w) ==
  /\ at[w] = "rekey" /\ (prev[w] = None \/ "vault_rekey" \notin pending[w])
  /\ at' = [at EXCEPT ![w] = "read"]
  /\ pending' = [pending EXCEPT ![w] = @ \ {"vault_rekey"}]
  /\ UNCHANGED <<files, config, keys, first, tx, tables, entered, used>>

\* The settings page moves the secrets from the key file a deployment left behind.
ClickRekey(w) ==
  /\ env[w] # None /\ cache[w] # None /\ keyFile # None /\ fileOk
  /\ Take(w, "click")
  /\ UNCHANGED <<files, config, keys, pass, tables, entered, used>>

CommitClick(w) ==
  /\ holder = [by |-> w, job |-> "click"]
  /\ Move(cache[w], keyFile)
  /\ outcome' = IF Movable(cache[w], keyFile) \cup Unreadable(cache[w], keyFile) = {}
                THEN outcome ELSE Cardinality(Unreadable(cache[w], keyFile))
  /\ Drop
  /\ UNCHANGED <<files, config, keys, pass, migrated, meant, exposed, late, used>>

-----------------------------------------------------------------------------
(* migrate_plaintext *)

\* (mutant) a first run goes by the prefix alone, as later runs do
NeedsByPrefix(w, v) == ~IsEncrypted(v)

\* (mutant) every run is taken to be a first run
NeedsAlways(w, v) == ~Opens(cache[w], v)

NeedsEncrypting(w, v) == IF first[w] THEN ~Opens(cache[w], v) ELSE ~IsEncrypted(v)

\* Whether this is the first run is read before the lock is taken.
ReadMarker(w) ==
  /\ at[w] = "read" /\ "vault_plaintext" \in pending[w]
  /\ first' = [first EXCEPT ![w] = ~migrated]
  /\ at' = [at EXCEPT ![w] = "lock"]
  /\ UNCHANGED <<files, config, keys, pending, tx, tables, entered, used>>

StartMigration(w) ==
  /\ at[w] = "lock" /\ (cache[w] # None \/ Unusable(w))
  /\ Take(w, "vault_plaintext")
  /\ at' = [at EXCEPT ![w] = "sealing"]
  /\ UNCHANGED <<files, config, keys, pending, first, tables, entered, used>>

\* (mutant) the first row is encrypted without a look at whether there is a key
CommitUnkeyed(w) ==
  /\ at[w] = "sealing"
  /\ row' = [s \in Secret |-> IF NeedsEncrypting(w, read[s]) THEN Encrypt(cache[w], read[s])
                             ELSE row[s]]
  /\ migrated' = (migrated \/ first[w])
  /\ late' = {s \in late : row[s] # read[s]}
  /\ Drop
  /\ at' = [at EXCEPT ![w] = "idle"]
  /\ pending' = [pending EXCEPT ![w] = @ \ {"vault_plaintext"}]
  /\ UNCHANGED <<files, config, keys, first, outcome, meant, exposed, used>>

CommitMigration(w) ==
  LET needs == {s \in Secret : NeedsEncrypting(w, read[s])} IN
  /\ at[w] = "sealing"
  /\ needs = {} \/ cache[w] # None
  /\ row' = [s \in Secret |-> IF s \in needs THEN Encrypt(cache[w], read[s]) ELSE row[s]]
  /\ migrated' = (migrated \/ first[w])
  /\ late' = {s \in late : row[s] # read[s]}
  /\ Drop
  /\ at' = [at EXCEPT ![w] = "idle"]
  /\ pending' = [pending EXCEPT ![w] = @ \ {"vault_plaintext"}]
  /\ UNCHANGED <<files, config, keys, first, outcome, meant, exposed, used>>

SkipMigration(w) ==
  /\ at[w] = "read" /\ "vault_plaintext" \notin pending[w]
  /\ at' = [at EXCEPT ![w] = "idle"]
  /\ UNCHANGED <<files, config, keys, pending, first, tx, tables, entered, used>>

-----------------------------------------------------------------------------
(* startup_maintenance and what happens around it *)

\* (mutant) a step that raised is not tried again
StepForgotten(w) ==
  /\ at[w] \in {"rekey", "moving", "lock", "sealing"}
  /\ faults < MaxFaults /\ faults' = faults + 1
  /\ at' = [at EXCEPT ![w] = IF @ \in {"rekey", "moving"} THEN "read" ELSE "idle"]
  /\ pending' = [pending EXCEPT ![w] =
                   @ \ {IF at[w] \in {"rekey", "moving"} THEN "vault_rekey" ELSE "vault_plaintext"}]
  /\ IF at[w] \in {"moving", "sealing"} THEN Drop ELSE UNCHANGED tx
  /\ UNCHANGED <<files, config, keys, first, tables, entered, rotations, saves, restarts>>

\* A step raises and is rolled back; the pass goes on with the next one.
StepRaises(w) ==
  /\ at[w] \in {"rekey", "moving", "lock", "sealing"}
  /\ at[w] = "rekey" => "vault_rekey" \in pending[w] /\ prev[w] # None
  /\ \/ Unusable(w) /\ UNCHANGED faults
     \/ faults < MaxFaults /\ faults' = faults + 1
  /\ at' = [at EXCEPT ![w] = IF @ \in {"rekey", "moving"} THEN "read" ELSE "idle"]
  /\ IF at[w] \in {"moving", "sealing"} THEN Drop ELSE UNCHANGED tx
  /\ UNCHANGED <<files, config, keys, pending, first, tables, entered,
                 rotations, saves, restarts>>

\* The maintenance job runs what is still pending.
NextPass(w) ==
  /\ at[w] = "idle" /\ pending[w] # {}
  /\ at' = [at EXCEPT ![w] = "rekey"]
  /\ UNCHANGED <<files, config, keys, pending, first, tx, tables, entered, used>>

\* A worker is stopped at any point and started with the current configuration.
Restart(w) ==
  /\ \/ <<env[w], prev[w]>> # <<deploy.env, deploy.prev>> /\ UNCHANGED restarts
     \/ restarts < MaxRestarts /\ restarts' = restarts + 1
  /\ env' = [env EXCEPT ![w] = deploy.env]
  /\ prev' = [prev EXCEPT ![w] = deploy.prev]
  /\ cache' = [cache EXCEPT ![w] = None] /\ tmp' = [tmp EXCEPT ![w] = None]
  /\ at' = [at EXCEPT ![w] = "rekey"] /\ pending' = [pending EXCEPT ![w] = Step]
  /\ first' = [first EXCEPT ![w] = FALSE]
  /\ IF holder # None /\ holder.by = w THEN Drop ELSE UNCHANGED tx
  /\ UNCHANGED <<files, deploy, orphaned, tables, entered, rotations, saves, faults>>

Ready == \A w \in Worker : env[w] = deploy.env /\ pending[w] = {}

\* An operator configures another key and hands over the old one, or leaves it to the
\* settings page.  Workers come back with it one by one.
Rotate(k, handOver) ==
  LET old == IF deploy.env = None THEN keyFile ELSE deploy.env IN
  /\ rotations < MaxRotations /\ rotations' = rotations + 1
  /\ k # deploy.env /\ k \notin orphaned
  /\ RotateEarly \/ Ready
  /\ handOver => old # None
  /\ deploy' = [env |-> k, prev |-> IF handOver THEN old ELSE None]
  /\ orphaned' = orphaned \cup (IF handOver \/ old = None THEN {} ELSE {old})
  /\ UNCHANGED <<files, env, prev, keys, pass, tx, tables, entered, saves, restarts, faults>>

\* The open rewrite has read this row and will write it back: a save that commits now
\* is overwritten.
Overwrites(s) ==
  /\ holder # None
  /\ CASE holder.job = "vault_rekey"     -> s \in Movable(cache[holder.by], prev[holder.by])
       [] holder.job = "click"           -> s \in Movable(cache[holder.by], keyFile)
       [] holder.job = "vault_plaintext" -> NeedsEncrypting(holder.by, read[s])
Exposed(s) == exposed' = IF Overwrites(s) THEN exposed \cup {s} ELSE exposed \ {s}

\* create_connection, update_connection, the assistant's settings.
Save(w, s, t) ==
  /\ cache[w] # None
  /\ saves < MaxSaves /\ saves' = saves + 1
  /\ row' = [row EXCEPT ![s] = Encrypt(cache[w], Plain(t))]
  /\ meant' = [meant EXCEPT ![s] = t]
  /\ Exposed(s)
  /\ late' = late \ {s}
  /\ UNCHANGED <<files, config, keys, pass, tx, migrated, outcome, rotations, restarts, faults>>

\* A worker of the older build still runs.  Once the migration has run, a text that
\* looks like a token is beyond recovery by design, so none is entered there.
OldBuildSaves(s, t) ==
  /\ saves < MaxSaves /\ saves' = saves + 1
  /\ rotations = 0 /\ \E w \in Worker : pending[w] # {}
  /\ migrated \/ holder # None => t \notin Lookalike
  /\ row' = [row EXCEPT ![s] = Plain(t)]
  /\ meant' = [meant EXCEPT ![s] = t]
  /\ Exposed(s)
  /\ late' = late \cup {s}
  /\ UNCHANGED <<files, config, keys, pass, tx, migrated, outcome, rotations, restarts, faults>>

Next ==
  \/ \E w \in Worker :
       \/ Resolve(w) \/ Link(w)
       \/ StartRekey(w) \/ CommitRekey(w) \/ SkipRekey(w)
       \/ ClickRekey(w) \/ CommitClick(w)
       \/ ReadMarker(w) \/ StartMigration(w) \/ CommitMigration(w) \/ SkipMigration(w)
       \/ StepRaises(w) \/ NextPass(w) \/ Restart(w)
       \/ \E k \in FileKey : Generate(w, k)
       \/ \E s \in Secret, t \in Text : Save(w, s, t)
  \/ FileTrouble
  \/ \E k \in EnvKey, handOver \in BOOLEAN : Rotate(k, handOver)
  \/ \E s \in Secret, t \in Text : OldBuildSaves(s, t)

Spec == Init /\ [][Next]_vars

-----------------------------------------------------------------------------
(* What must hold *)

\* No secret is ever under a key that is gone: every layer belongs to the key file or
\* to a key an operator configured.  Two workers of a fresh installation agree on one
\* key, whichever of them encrypts first (_load_or_create_key_file).
KeysOnRecord ==
  \A s \in Secret : \A i \in 1..Len(row[s].under) : row[s].under[i] \in EnvKey \cup {keyFile}

\* A secret is encrypted once: no run of migrate_plaintext, first or later, takes a
\* token for plaintext, also when rekey failed just before (vault.py:468-471).
EncryptedOnce == \A s \in Secret : Len(row[s].under) <= 1

\* No rewrite loses what an operator entered: the text of a stored secret is that of the
\* last save, unless the save fell between the read and the commit of a rewrite that
\* writes this very secret back.
LastEntryKept == \A s \in Secret \ exposed : row[s].text = meant[s]

\* Once the marker is set, plaintext is only what a worker of the older build has
\* written since the last migration, lookalikes included.
MarkerMeansSealed ==
  migrated => \A s \in Secret : row[s].under = <<>> => s \in late

\* When all workers run with the new key and were handed the old one, nothing is left
\* under a key they cannot open, except under keys never handed over.  It takes a
\* worker of the old key saving, stopping and coming back at any point of the others'
\* rewrites to break this.
RotationReachesAll ==
  (Ready /\ deploy.prev # None /\ \A w \in Worker : prev[w] = deploy.prev) =>
    \A s \in Secret : \A i \in 1..Len(row[s].under) :
      row[s].under[i] \in {deploy.env} \cup orphaned

-----------------------------------------------------------------------------
(* The inductive invariant behind all but the second and the last *)

\* The keys a layer may have been made with.
Known == EnvKey \cup ({keyFile} \ {None})
Sealed(v) == v \in [text : Text, under : Seq(Known)]

KeysHeld ==
  /\ \A w \in Worker : cache[w] \in Known \cup {None}
  /\ \A w \in Worker : tmp[w] # None => cache[w] = None /\ env[w] = None
  /\ \A s \in Secret : Sealed(row[s]) /\ Sealed(read[s])

\* Whose rewrite is open, and that the keys it goes by are there to stay.
OneRewrite ==
  /\ \A w \in Worker :
       /\ at[w] = "moving" <=> holder = [by |-> w, job |-> "vault_rekey"]
       /\ at[w] = "sealing" <=> holder = [by |-> w, job |-> "vault_plaintext"]
  /\ holder # None /\ holder.job # "vault_plaintext" => cache[holder.by] # None
  /\ holder # None /\ holder.job = "click" => keyFile # None

\* What an open rewrite will write back is what was last entered.
EntriesKept ==
  \A s \in Secret \ exposed :
    /\ row[s].text = meant[s]
    /\ Overwrites(s) => read[s].text = meant[s]

\* Plaintext that a migration has not seen, or does not see, is on record as such.
PlainOnRecord ==
  /\ \A s \in Secret :
       /\ row[s].under = <<>>
       /\ migrated \/ (holder # None /\ row[s] # read[s])
       => s \in late /\ row[s].text \notin Lookalike
  /\ \A w \in Worker : at[w] \in {"lock", "sealing"} /\ ~first[w] => migrated

VaultInv == TypeOK /\ KeysHeld /\ OneRewrite /\ EntriesKept /\ PlainOnRecord

-----------------------------------------------------------------------------
(* The inductive invariant behind those two, where no key is changed before every worker *)
(* is ready                                                                              *)

\* The key a worker configured last goes by, and the one worker w goes by.
Current == IF deploy.env = None THEN keyFile ELSE deploy.env
Own(w) == IF env[w] = None THEN keyFile ELSE env[w]

\* The keys a stored secret may be under.
Kept == ({Current, deploy.prev} \cup orphaned) \ {None}

\* At most one layer, made with one of the keys K.
Once(v, K) == v.under = <<>> \/ \E k \in K : v.under = <<k>>

\* This worker has yet to move the secrets to the configured key.
Lags(w) == env[w] # deploy.env \/ "vault_rekey" \in pending[w]

\* A step that is running is pending, and one that has run has set the marker: nobody
\* is in a first run once a key was changed.
FirstRuns ==
  \A w \in Worker :
    /\ at[w] = "moving" => "vault_rekey" \in pending[w]
    /\ at[w] \in {"lock", "sealing"} => "vault_plaintext" \in pending[w]
    /\ rotations > 0 \/ "vault_plaintext" \notin pending[w] => migrated
    /\ first[w] /\ at[w] \in {"lock", "sealing"} => rotations = 0

\* A worker is at most one change of the key behind, and goes by the key of its own
\* configuration, which was handed over or is on record as orphaned.
Behind ==
  /\ rotations = 0 => deploy.prev = None /\ orphaned = {} /\ \A w \in Worker : env[w] = deploy.env
  /\ rotations > 0 => deploy.env # None
  /\ \A w \in Worker :
       /\ env[w] = deploy.env => prev[w] = deploy.prev
       /\ cache[w] \in {None, Own(w)}
  /\ Secret # {} =>
       /\ migrated => Current # None
       /\ \A w \in Worker : env[w] # deploy.env => Own(w) \in Kept

\* One layer at most, in what is stored and in what an open rewrite has read; before
\* the first change of the key there is only one key.
Layered ==
  \A s \in Secret :
    /\ Once(row[s], Kept)
    /\ Once(read[s], Key)
    /\ rotations = 0 => Once(read[s], Kept)

\* A secret still under the previous key will be moved by a worker that lags, or by the
\* open move, which has read it.
YetToMove ==
  deploy.prev # None =>
    \A s \in Secret : ~Once(row[s], {deploy.env} \cup orphaned) =>
      /\ \E w \in Worker : Lags(w)
      /\ \A w \in Worker : at[w] = "moving" /\ env[w] = deploy.env =>
           read[s] = row[s] \/ \E u \in Worker \ {w} : Lags(u)

RotationInv == FirstRuns /\ Behind /\ Layered /\ YetToMove

=============================================================================
