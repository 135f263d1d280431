---------------------------- MODULE VaultProofs ----------------------------
(***************************************************************************)
(* What Vault keeps for any number of workers, secrets, keys, rotations    *)
(* and restarts: no secret is under a key that is gone, and no rewrite     *)
(* loses what was entered before it read the row.                          *)
(***************************************************************************)
EXTENDS Vault, FiniteSetTheorems, SequenceTheorems, TLAPS

Under(K) == [text : Text, under : Seq(K)]

\* Encryption puts one layer on, decryption takes one off; neither touches the text.
LEMMA Layers ==
  ASSUME NEW K, NEW v \in Under(K)
  PROVE  /\ \A k \in K : /\ Encrypt(k, v) \in Under(K) /\ Encrypt(k, v).text = v.text
                         /\ Encrypt(k, v).under # <<>>
         /\ v.under # <<>> => OpenWith(v) \in Under(K) /\ OpenWith(v).text = v.text
         /\ \A k : Opens(k, v) => k \in K /\ v.under # <<>>
<1>. USE DEF Under
<1>1. v.under \in Seq(K) /\ v.text \in Text OBVIOUS
<1>2. ASSUME NEW k \in K
      PROVE  Encrypt(k, v) \in Under(K) /\ Encrypt(k, v).text = v.text /\ Encrypt(k, v).under # <<>>
  <2>1. Append(v.under, k) \in Seq(K) /\ Append(v.under, k) # <<>> BY <1>1, AppendProperties
  <2>. QED BY <1>1, <2>1 DEF Encrypt
<1>3. ASSUME v.under # <<>> PROVE OpenWith(v) \in Under(K) /\ OpenWith(v).text = v.text
  <2>1. Len(v.under) \in Nat BY <1>1, LenProperties
  <2>2. \A i \in 1..(Len(v.under) - 1) : v.under[i] \in K
    <3>1. \A i \in 1..(Len(v.under) - 1) : i \in 1..Len(v.under) BY <2>1
    <3>. QED BY <1>1, <3>1, ElementOfSeq
  <2>3. SubSeq(v.under, 1, Len(v.under) - 1) \in Seq(K) BY <2>1, <2>2, SubSeqProperties
  <2>. QED BY <1>1, <2>3 DEF OpenWith
<1>4. ASSUME NEW k, Opens(k, v) PROVE k \in K /\ v.under # <<>>
  <2>1. v.under # <<>> /\ v.under[Len(v.under)] = k BY <1>4 DEF Opens
  <2>2. Len(v.under) \in 1..Len(v.under) BY <1>1, <2>1
  <2>. QED BY <1>1, <2>1, <2>2, ElementOfSeq
<1>. QED BY <1>2, <1>3, <1>4 DEF Opens

\* What was made with some keys was made with more keys.
LEMMA MoreKeys ==
  ASSUME NEW K, NEW L, K \subseteq L, NEW v \in Under(K)
  PROVE  v \in Under(L)
<1>1. v.under \in Seq(K) BY DEF Under
<1>2. v.under \in Seq(L) BY <1>1, SeqMonotonic
<1>. QED BY <1>2 DEF Under

LEMMA PlainText ==
  ASSUME NEW t \in Text, NEW K
  PROVE  Plain(t) \in Under(K) /\ Plain(t).text = t
BY EmptySeq DEF Plain, Under

\* The keys a layer may have been made with are keys, and None is not one of them.
LEMMA KnownKeys ==
  ASSUME keyFile \in FileKey \cup {None}
  PROVE  Known \subseteq Key /\ None \notin Known
BY VaultAssumption DEF Known, Key

\* What a row holds after the secrets were moved to key k ...
LEMMA MovedRows ==
  ASSUME TypeOK, KeysHeld, NEW k \in Known, NEW old, Move(k, old)
  PROVE  /\ row' \in [Secret -> Under(Known)]
         /\ \A s \in Secret : row'[s].text = IF s \in Movable(k, old) THEN read[s].text ELSE row[s].text
         /\ \A s \in Secret : row'[s].under # <<>> \/ row'[s] = row[s]
<1>1. ASSUME NEW s \in Secret, s \in Movable(k, old)
      PROVE  /\ Encrypt(k, OpenWith(read[s])) \in Under(Known)
             /\ Encrypt(k, OpenWith(read[s])).under # <<>>
             /\ Encrypt(k, OpenWith(read[s])).text = read[s].text
  <2>1. read[s] \in Under(Known) BY DEF KeysHeld, Sealed, Under
  <2>2. read[s].under # <<>> BY <1>1, <2>1, Layers DEF Movable
  <2>3. OpenWith(read[s]) \in Under(Known) /\ OpenWith(read[s]).text = read[s].text BY <2>1, <2>2, Layers
  <2>4. ASSUME NEW v, v \in Under(Known)
        PROVE  Encrypt(k, v) \in Under(Known) /\ Encrypt(k, v).under # <<>> /\ Encrypt(k, v).text = v.text
    BY <2>4, Layers
  <2>. QED BY <2>3, <2>4
<1>2. \A s \in Secret : row[s] \in Under(Known) BY DEF KeysHeld, Sealed, Under
<1>3. row' = [s \in Secret |-> IF s \in Movable(k, old) THEN Encrypt(k, OpenWith(read[s])) ELSE row[s]]
  BY DEF Move
<1>. QED BY <1>1, <1>2, <1>3

\* ... and after a worker has encrypted what it took for plaintext.
LEMMA SealedRows ==
  ASSUME TypeOK, KeysHeld, NEW w \in Worker, CommitMigration(w)
  PROVE  /\ row' \in [Secret -> Under(Known)]
         /\ \A s \in Secret : row'[s].text = IF NeedsEncrypting(w, read[s]) THEN read[s].text ELSE row[s].text
         /\ \A s \in Secret : IF NeedsEncrypting(w, read[s]) THEN row'[s].under # <<>> ELSE row'[s] = row[s]
<1>. DEFINE needs == {s \in Secret : NeedsEncrypting(w, read[s])}
<1>1. /\ needs = {} \/ cache[w] # None
      /\ row' = [s \in Secret |-> IF s \in needs THEN Encrypt(cache[w], read[s]) ELSE row[s]]
  BY DEF CommitMigration
<1>2. ASSUME NEW s \in Secret, s \in needs
      PROVE  /\ Encrypt(cache[w], read[s]) \in Under(Known) /\ Encrypt(cache[w], read[s]).text = read[s].text
             /\ Encrypt(cache[w], read[s]).under # <<>>
  <2>1. cache[w] \in Known BY <1>1, <1>2 DEF KeysHeld
  <2>2. read[s] \in Under(Known) BY DEF KeysHeld, Sealed, Under
  <2>3. ASSUME NEW v, v \in Under(Known), NEW k \in Known
        PROVE  Encrypt(k, v) \in Under(Known) /\ Encrypt(k, v).text = v.text /\ Encrypt(k, v).under # <<>>
    BY <2>3, Layers
  <2>. QED BY <2>1, <2>2, <2>3
<1>3. \A s \in Secret : row[s] \in Under(Known) BY DEF KeysHeld, Sealed, Under
<1>4. \A s \in Secret : s \in needs <=> NeedsEncrypting(w, read[s]) OBVIOUS
<1>. HIDE DEF needs
<1>. QED BY <1>1, <1>2, <1>3, <1>4

\* A saved secret is under the key of the worker that saved it.
LEMMA SavedRow ==
  ASSUME TypeOK, KeysHeld, NEW w \in Worker, NEW s \in Secret, NEW t \in Text, Save(w, s, t)
  PROVE  /\ row' \in [Secret -> Under(Known)] /\ row'[s].text = t /\ row'[s].under # <<>>
         /\ \A x \in Secret : x # s => row'[x] = row[x]
<1>1. cache[w] \in Known BY DEF Save, KeysHeld
<1>2. /\ Encrypt(cache[w], Plain(t)) \in Under(Known) /\ Encrypt(cache[w], Plain(t)).text = t
      /\ Encrypt(cache[w], Plain(t)).under # <<>>
  BY <1>1, PlainText, Layers
<1>3. row' = [row EXCEPT ![s] = Encrypt(cache[w], Plain(t))] BY DEF Save
<1>4. \A x \in Secret : row[x] \in Under(Known) BY DEF KeysHeld, Sealed, Under
<1>. QED BY <1>2, <1>3, <1>4 DEF TypeOK

LEMMA OldRow ==
  ASSUME TypeOK, KeysHeld, NEW s \in Secret, NEW t \in Text, OldBuildSaves(s, t)
  PROVE  row' \in [Secret -> Under(Known)] /\ row'[s].text = t /\ \A x \in Secret : x # s => row'[x] = row[x]
<1>2. Plain(t) \in Under(Known) /\ Plain(t).text = t BY PlainText
<1>3. row' = [row EXCEPT ![s] = Plain(t)] BY DEF OldBuildSaves
<1>4. \A x \in Secret : row[x] \in Under(Known) BY DEF KeysHeld, Sealed, Under
<1>. QED BY <1>2, <1>3, <1>4 DEF TypeOK

\* A rewrite that ends leaves nothing it has read behind.
LEMMA DropEffect ==
  ASSUME TypeOK, Drop
  PROVE  /\ holder' = None /\ read' \in [Secret -> Value]
         /\ \A K : read' \in [Secret -> Under(K)]
<1>1. \A s \in Secret : meant[s] \in Text BY DEF TypeOK
<1>2. ASSUME NEW K PROVE read' \in [Secret -> Under(K)]
  <2>1. \A s \in Secret : Plain(meant[s]) \in Under(K) BY <1>1, PlainText
  <2>. QED BY <2>1 DEF Drop
<1>3. Value = Under(Key) BY DEF Value, Under
<1>. QED BY <1>2, <1>3 DEF Drop

-----------------------------------------------------------------------------
(* Types *)

Passes == {"rekey", "moving", "read", "lock", "sealing", "idle"}
Jobs == [by : Worker, job : Step \cup {"click"}]

\* The number of unreadable secrets is a number.
LEMMA CountOfRows ==
  ASSUME NEW S \in SUBSET Secret
  PROVE  Cardinality(S) \in Nat
BY VaultAssumption, FS_Subset, FS_CardinalityType

LEMMA RowTypes ==
  ASSUME TypeOK, NEW f \in [Secret -> Under(Known)]
  PROVE  f \in [Secret -> Value]
<1>1. \A s \in Secret : f[s] \in Value
  <2>1. Known \subseteq Key BY KnownKeys DEF TypeOK
  <2>. QED BY <2>1, MoreKeys DEF Value, Under
<1>. QED BY <1>1

LEMMA TakeEffect ==
  ASSUME TypeOK, NEW w \in Worker, NEW job \in Step \cup {"click"}, Take(w, job)
  PROVE  /\ holder' = [by |-> w, job |-> job] /\ holder' \in Jobs /\ holder' # None /\ holder = None
         /\ read' = row /\ read' \in [Secret -> Value]
BY VaultAssumption DEF Take, TypeOK, Jobs

\* Every action keeps every variable in its type.
LEMMA VaultTypes ==
  ASSUME VaultInv, [Next]_vars
  PROVE  TypeOK'
<1>. USE DEF VaultInv
<1>0. /\ keyFile \in FileKey \cup {None} /\ fileOk \in BOOLEAN /\ drawn \subseteq FileKey
      /\ deploy \in [env : EnvKey \cup {None}, prev : Key \cup {None}]
      /\ orphaned \subseteq Key
      /\ env \in [Worker -> EnvKey \cup {None}] /\ prev \in [Worker -> Key \cup {None}]
      /\ cache \in [Worker -> Key \cup {None}] /\ tmp \in [Worker -> FileKey \cup {None}]
      /\ at \in [Worker -> Passes]
      /\ pending \in [Worker -> SUBSET Step] /\ first \in [Worker -> BOOLEAN]
      /\ holder \in {None} \cup Jobs
      /\ read \in [Secret -> Value] /\ row \in [Secret -> Value]
      /\ migrated \in BOOLEAN /\ outcome \in Nat \cup {None}
      /\ meant \in [Secret -> Text] /\ exposed \subseteq Secret /\ late \subseteq Secret
      /\ rotations \in Nat /\ saves \in Nat /\ restarts \in Nat /\ faults \in Nat
  BY DEF TypeOK, Passes, Jobs
<1>00. TypeOK' <=>
      /\ keyFile' \in FileKey \cup {None} /\ fileOk' \in BOOLEAN /\ drawn' \subseteq FileKey
      /\ deploy' \in [env : EnvKey \cup {None}, prev : Key \cup {None}]
      /\ orphaned' \subseteq Key
      /\ env' \in [Worker -> EnvKey \cup {None}] /\ prev' \in [Worker -> Key \cup {None}]
      /\ cache' \in [Worker -> Key \cup {None}] /\ tmp' \in [Worker -> FileKey \cup {None}]
      /\ at' \in [Worker -> Passes]
      /\ pending' \in [Worker -> SUBSET Step] /\ first' \in [Worker -> BOOLEAN]
      /\ holder' \in {None} \cup Jobs
      /\ read' \in [Secret -> Value] /\ row' \in [Secret -> Value]
      /\ migrated' \in BOOLEAN /\ outcome' \in Nat \cup {None}
      /\ meant' \in [Secret -> Text] /\ exposed' \subseteq Secret /\ late' \subseteq Secret
      /\ rotations' \in Nat /\ saves' \in Nat /\ restarts' \in Nat /\ faults' \in Nat
  BY DEF TypeOK, Passes, Jobs
<1>000. /\ EnvKey \subseteq Key /\ FileKey \subseteq Key
        /\ "vault_rekey" \in Step \cup {"click"} /\ "vault_plaintext" \in Step \cup {"click"}
        /\ "click" \in Step \cup {"click"}
        /\ \A S \in SUBSET Step : \A x : S \ {x} \in SUBSET Step
  BY DEF Key, Step
<1>0000. Drop => holder' = None /\ read' \in [Secret -> Value] BY DropEffect
<1>. HIDE DEF TypeOK
<1>1. ASSUME NEW w \in Worker, Resolve(w) PROVE TypeOK'
  BY <1>0, <1>00, <1>000, <1>1 DEF Resolve, files, config, pass, tx, tables, entered, used
<1>2. ASSUME NEW w \in Worker, Link(w) PROVE TypeOK'
  BY <1>0, <1>00, <1>000, <1>2 DEF Link, config, pass, tx, tables, entered, used
<1>3. ASSUME NEW w \in Worker, NEW k \in FileKey, Generate(w, k) PROVE TypeOK'
  BY <1>0, <1>00, <1>000, <1>3 DEF Generate, config, pass, tx, tables, entered, used
<1>4. ASSUME NEW w \in Worker, StartRekey(w) PROVE TypeOK'
  <2>1. holder' \in Jobs /\ read' \in [Secret -> Value] BY <1>4, <1>000, TakeEffect DEF StartRekey
  <2>. QED BY <1>0, <1>00, <2>1, <1>4 DEF StartRekey, Passes, files, config, keys, tables, entered, used
<1>5. ASSUME NEW w \in Worker, CommitRekey(w) PROVE TypeOK'
  <2>1. cache[w] \in Known
    <3>1. holder = [by |-> w, job |-> "vault_rekey"] /\ holder # None
      BY <1>5, VaultAssumption DEF CommitRekey, OneRewrite, Step
    <3>2. cache[w] # None BY <3>1 DEF OneRewrite
    <3>. QED BY <3>2 DEF KeysHeld
  <2>2. row' \in [Secret -> Value] BY <1>5, <2>1, MovedRows, RowTypes DEF CommitRekey
  <2>3. outcome' \in Nat
    <3>1. Unreadable(cache[w], prev[w]) \in SUBSET Secret BY DEF Unreadable
    <3>2. outcome' = Cardinality(Unreadable(cache[w], prev[w])) BY <1>5 DEF CommitRekey
    <3>. QED BY <3>1, <3>2, CountOfRows
  <2>4. /\ Drop
        /\ at' = [at EXCEPT ![w] = "read"]
        /\ pending' = [pending EXCEPT ![w] = pending[w] \ {"vault_rekey"}]
        /\ UNCHANGED <<files, config, keys, first, migrated, meant, exposed, late, used>>
    BY <1>5 DEF CommitRekey
  <2>5. pending' \in [Worker -> SUBSET Step] BY <1>0, <1>000, <2>4
  <2>. QED BY <1>0, <1>00, <1>0000, <2>2, <2>3, <2>4, <2>5 DEF Passes, files, config, keys, used
<1>6. ASSUME NEW w \in Worker, SkipRekey(w) PROVE TypeOK'
  <2>1. pending' \in [Worker -> SUBSET Step] BY <1>0, <1>000, <1>6 DEF SkipRekey
  <2>. QED BY <1>0, <1>00, <2>1, <1>6 DEF SkipRekey, Passes, files, config, keys, tx, tables, entered, used
<1>7. ASSUME NEW w \in Worker, ClickRekey(w) PROVE TypeOK'
  <2>1. holder' \in Jobs /\ read' \in [Secret -> Value] BY <1>7, <1>000, TakeEffect DEF ClickRekey
  <2>. QED BY <1>0, <1>00, <2>1, <1>7 DEF ClickRekey, files, config, keys, pass, tables, entered, used
<1>8. ASSUME NEW w \in Worker, CommitClick(w) PROVE TypeOK'
  <2>1. cache[w] \in Known
    <3>1. holder = [by |-> w, job |-> "click"] /\ holder # None
      BY <1>8, VaultAssumption DEF CommitClick
    <3>2. cache[w] # None BY <3>1 DEF OneRewrite
    <3>. QED BY <3>2 DEF KeysHeld
  <2>2. row' \in [Secret -> Value] BY <1>8, <2>1, MovedRows, RowTypes DEF CommitClick
  <2>3. outcome' \in Nat \cup {None}
    <3>1. Unreadable(cache[w], keyFile) \in SUBSET Secret BY DEF Unreadable
    <3>2. outcome' = outcome \/ outcome' = Cardinality(Unreadable(cache[w], keyFile)) BY <1>8 DEF CommitClick
    <3>. QED BY <1>0, <3>1, <3>2, CountOfRows
  <2>4. Drop /\ UNCHANGED <<files, config, keys, pass, migrated, meant, exposed, late, used>>
    BY <1>8 DEF CommitClick
  <2>. QED BY <1>0, <1>00, <1>0000, <2>2, <2>3, <2>4 DEF files, config, keys, pass, used
<1>9. ASSUME NEW w \in Worker, ReadMarker(w) PROVE TypeOK'
  <2>1. first' \in [Worker -> BOOLEAN] BY <1>0, <1>9 DEF ReadMarker
  <2>. QED BY <1>0, <1>00, <2>1, <1>9 DEF ReadMarker, Passes, files, config, keys, tx, tables, entered, used
<1>10. ASSUME NEW w \in Worker, StartMigration(w) PROVE TypeOK'
  <2>1. holder' \in Jobs /\ read' \in [Secret -> Value] BY <1>10, <1>000, TakeEffect DEF StartMigration
  <2>. QED BY <1>0, <1>00, <2>1, <1>10 DEF StartMigration, Passes, files, config, keys, tables, entered, used
<1>11. ASSUME NEW w \in Worker, CommitMigration(w) PROVE TypeOK'
  <2>2. row' \in [Secret -> Value] BY <1>11, SealedRows, RowTypes
  <2>3. (migrated \/ first[w]) \in BOOLEAN OBVIOUS
  <2>4. /\ Drop /\ migrated' = (migrated \/ first[w])
        /\ late' \subseteq late
        /\ at' = [at EXCEPT ![w] = "idle"]
        /\ pending' = [pending EXCEPT ![w] = pending[w] \ {"vault_plaintext"}]
        /\ UNCHANGED <<files, config, keys, first, outcome, meant, exposed, used>>
    BY <1>11 DEF CommitMigration
  <2>5. pending' \in [Worker -> SUBSET Step] BY <1>0, <1>000, <2>4
  <2>6. migrated' \in BOOLEAN BY <2>3, <2>4, Zenon
  <2>. QED BY <1>0, <1>00, <1>0000, <2>2, <2>4, <2>5, <2>6 DEF Passes, files, config, keys, used
<1>12. ASSUME NEW w \in Worker, SkipMigration(w) PROVE TypeOK'
  BY <1>0, <1>00, <1>12 DEF SkipMigration, Passes, files, config, keys, tx, tables, entered, used
<1>13. ASSUME NEW w \in Worker, StepRaises(w) PROVE TypeOK'
  <2>1. faults' \in Nat BY <1>0, <1>13 DEF StepRaises
  <2>2. holder' \in {None} \cup Jobs /\ read' \in [Secret -> Value]
    BY <1>0, <1>0000, <1>13 DEF StepRaises, tx
  <2>3. at' \in [Worker -> Passes] BY <1>0, <1>13 DEF StepRaises, Passes
  <2>. QED BY <1>0, <1>00, <2>1, <2>2, <2>3, <1>13 DEF StepRaises, files, config, keys, tables, entered
<1>14. ASSUME NEW w \in Worker, NextPass(w) PROVE TypeOK'
  BY <1>0, <1>00, <1>14 DEF NextPass, Passes, files, config, keys, tx, tables, entered, used
<1>15. ASSUME NEW w \in Worker, Restart(w) PROVE TypeOK'
  <2>1. restarts' \in Nat BY <1>0, <1>15 DEF Restart
  <2>2. holder' \in {None} \cup Jobs /\ read' \in [Secret -> Value]
    BY <1>0, <1>0000, <1>15 DEF Restart, tx
  <2>3. /\ at' \in [Worker -> Passes] /\ pending' \in [Worker -> SUBSET Step]
        /\ first' \in [Worker -> BOOLEAN]
        /\ env' \in [Worker -> EnvKey \cup {None}] /\ prev' \in [Worker -> Key \cup {None}]
        /\ cache' \in [Worker -> Key \cup {None}] /\ tmp' \in [Worker -> FileKey \cup {None}]
    BY <1>0, <1>15 DEF Restart, Passes
  <2>. QED BY <1>0, <1>00, <2>1, <2>2, <2>3, <1>15 DEF Restart, files, tables, entered
<1>16. ASSUME NEW w \in Worker, NEW s \in Secret, NEW t \in Text, Save(w, s, t) PROVE TypeOK'
  <2>1. row' \in [Secret -> Value] BY <1>16, SavedRow, RowTypes
  <2>2. exposed' \subseteq Secret BY <1>0, <1>16 DEF Save, Exposed
  <2>. QED BY <1>0, <1>00, <2>1, <2>2, <1>16 DEF Save, files, config, keys, pass, tx
<1>17. CASE FileTrouble
  <2>1. fileOk' \in BOOLEAN BY <1>17 DEF FileTrouble
  <2>2. faults' \in Nat BY <1>0, <1>17 DEF FileTrouble
  <2>3. UNCHANGED <<keyFile, drawn, config, keys, pass, tx, tables, entered, rotations, saves, restarts>>
    BY <1>17 DEF FileTrouble
  <2>. QED BY <1>0, <1>00, <2>1, <2>2, <2>3 DEF config, keys, pass, tx, tables, entered
<1>18. ASSUME NEW k \in EnvKey, NEW handOver \in BOOLEAN, Rotate(k, handOver) PROVE TypeOK'
  <2>. DEFINE old == IF deploy.env = None THEN keyFile ELSE deploy.env
  <2>1. old \in Key \cup {None} BY <1>0, <1>000
  <2>2. /\ deploy' = [env |-> k, prev |-> IF handOver THEN old ELSE None]
        /\ orphaned' = orphaned \cup (IF handOver \/ old = None THEN {} ELSE {old})
        /\ rotations' = rotations + 1
        /\ UNCHANGED <<files, env, prev, keys, pass, tx, tables, entered, saves, restarts, faults>>
    BY <1>18 DEF Rotate
  <2>. HIDE DEF old
  <2>3. deploy' \in [env : EnvKey \cup {None}, prev : Key \cup {None}] BY <2>1, <2>2
  <2>4. orphaned' \subseteq Key BY <1>0, <2>1, <2>2
  <2>. QED BY <1>0, <1>00, <2>2, <2>3, <2>4 DEF files, keys, pass, tx, tables, entered
<1>19. ASSUME NEW s \in Secret, NEW t \in Text, OldBuildSaves(s, t) PROVE TypeOK'
  <2>1. row' \in [Secret -> Value] BY <1>19, OldRow, RowTypes
  <2>2. exposed' \subseteq Secret BY <1>0, <1>19 DEF OldBuildSaves, Exposed
  <2>. QED BY <1>0, <1>00, <2>1, <2>2, <1>19 DEF OldBuildSaves, files, config, keys, pass, tx
<1>20. CASE UNCHANGED vars
  BY <1>0, <1>00, <1>20 DEF vars, files, config, keys, pass, tx, tables, entered, used
<1>. QED BY <1>1, <1>2, <1>3, <1>4, <1>5, <1>6, <1>7, <1>8, <1>9, <1>10, <1>11, <1>12, <1>13, <1>14,
            <1>15, <1>16, <1>17, <1>18, <1>19, <1>20
         DEF Next

-----------------------------------------------------------------------------
(* The keys *)

\* No action puts a secret, or a worker, under a key that is not there to stay.
LEMMA KeySteps ==
  ASSUME VaultInv, [Next]_vars
  PROVE  KeysHeld'
<1>. USE DEF VaultInv
<1>1. /\ row \in [Secret -> Under(Known)] /\ read \in [Secret -> Under(Known)]
      /\ \A w \in Worker : cache[w] \in Known \cup {None}
      /\ \A w \in Worker : tmp[w] # None => cache[w] = None /\ env[w] = None
      /\ None \notin Known
  BY KnownKeys DEF KeysHeld, Sealed, Under, TypeOK
<1>2. ASSUME Known \subseteq Known', row' \in [Secret -> Under(Known)], read' \in [Secret -> Under(Known)],
             \A w \in Worker : cache'[w] \in Known' \cup {None},
             \A w \in Worker : tmp'[w] # None => cache'[w] = None /\ env'[w] = None
      PROVE  KeysHeld'
  <2>1. ASSUME NEW s \in Secret PROVE row'[s] \in Under(Known') /\ read'[s] \in Under(Known')
    <3>1. row'[s] \in Under(Known) /\ read'[s] \in Under(Known) BY <1>2
    <3>. QED BY <1>2, <3>1, MoreKeys
  <2>2. \A s \in Secret : Sealed(row[s])' /\ Sealed(read[s])' BY <2>1 DEF Sealed, Under
  <2>. QED BY <1>2, <2>2 DEF KeysHeld
<1>3. keyFile' = keyFile => Known' = Known BY DEF Known
<1>4. ASSUME UNCHANGED <<keyFile, cache, tmp, env>>, row' \in [Secret -> Under(Known)],
             read' \in [Secret -> Under(Known)]
      PROVE  KeysHeld'
  BY <1>1, <1>2, <1>3, <1>4
<1>5. ASSUME UNCHANGED <<keyFile, cache, tmp, env, row, read>> PROVE KeysHeld'
  BY <1>1, <1>4, <1>5
<1>6. Drop => read' \in [Secret -> Under(Known)] BY DropEffect
<1>7. ASSUME NEW w \in Worker, NEW job, Take(w, job) PROVE read' \in [Secret -> Under(Known)]
  BY <1>1, <1>7 DEF Take
<1>11. ASSUME NEW w \in Worker, Resolve(w) PROVE KeysHeld'
  <2>1. UNCHANGED <<keyFile, tmp, env, row, read>> BY <1>11 DEF Resolve, files, config, tx, tables
  <2>2. env[w] # None => env[w] \in Known BY DEF Known, TypeOK
  <2>3. keyFile # None => keyFile \in Known BY DEF Known
  <2>4. /\ cache' = [cache EXCEPT ![w] = IF env[w] # None THEN env[w] ELSE keyFile]
        /\ env[w] # None \/ (keyFile # None /\ tmp[w] = None)
    BY <1>11 DEF Resolve
  <2>5. \A u \in Worker : cache'[u] \in Known' \cup {None}
    BY <1>1, <1>3, <2>1, <2>2, <2>3, <2>4 DEF TypeOK
  <2>6. \A u \in Worker : tmp'[u] # None => cache'[u] = None /\ env'[u] = None
    BY <1>1, <2>1, <2>4 DEF TypeOK
  <2>. QED BY <1>1, <1>2, <1>3, <2>1, <2>5, <2>6
<1>12. ASSUME NEW w \in Worker, Link(w) PROVE KeysHeld'
  <2>1. UNCHANGED <<env, row, read>> BY <1>12 DEF Link, config, tx, tables
  <2>2. tmp[w] # None /\ tmp' = [tmp EXCEPT ![w] = None] BY <1>12 DEF Link
  <2>3. CASE keyFile = None
    <3>1. keyFile' = tmp[w] /\ cache' = [cache EXCEPT ![w] = tmp[w]] BY <1>12, <2>3 DEF Link
    <3>2. Known \subseteq Known' /\ tmp[w] \in Known' BY <2>2, <2>3, <3>1 DEF Known
    <3>3. \A u \in Worker : cache'[u] \in Known' \cup {None} BY <1>1, <3>1, <3>2 DEF TypeOK
    <3>4. \A u \in Worker : tmp'[u] # None => cache'[u] = None /\ env'[u] = None
      BY <1>1, <2>1, <2>2, <3>1 DEF TypeOK
    <3>. QED BY <1>1, <1>2, <2>1, <3>2, <3>3, <3>4
  <2>4. CASE keyFile # None
    <3>1. keyFile' = keyFile /\ cache' = [cache EXCEPT ![w] = IF fileOk THEN keyFile ELSE None]
      BY <1>12, <2>4 DEF Link
    <3>2. keyFile \in Known BY <2>4 DEF Known
    <3>3. \A u \in Worker : cache'[u] \in Known' \cup {None} BY <1>1, <1>3, <3>1, <3>2 DEF TypeOK
    <3>4. \A u \in Worker : tmp'[u] # None => cache'[u] = None /\ env'[u] = None
      BY <1>1, <2>1, <2>2, <3>1 DEF TypeOK
    <3>. QED BY <1>1, <1>2, <1>3, <2>1, <3>1, <3>3, <3>4
  <2>. QED BY <2>3, <2>4
<1>13. ASSUME NEW w \in Worker, NEW k \in FileKey, Generate(w, k) PROVE KeysHeld'
  <2>1. UNCHANGED <<keyFile, cache, env, row, read>> BY <1>13 DEF Generate, config, tx, tables
  <2>2. /\ cache[w] = None /\ env[w] = None /\ tmp' = [tmp EXCEPT ![w] = k]
    BY <1>13 DEF Generate
  <2>3. \A u \in Worker : tmp'[u] # None => cache'[u] = None /\ env'[u] = None
    BY <1>1, <2>1, <2>2 DEF TypeOK
  <2>. QED BY <1>1, <1>2, <1>3, <2>1, <2>3
<1>14. ASSUME NEW w \in Worker, StartRekey(w) PROVE KeysHeld'
  BY <1>14, <1>1, <1>4, <1>7 DEF StartRekey, files, config, keys, tables
<1>15. ASSUME NEW w \in Worker, CommitRekey(w) PROVE KeysHeld'
  <2>1. holder = [by |-> w, job |-> "vault_rekey"] /\ holder # None
    BY <1>15, VaultAssumption DEF CommitRekey, OneRewrite, Step
  <2>2. cache[w] \in Known BY <1>1, <2>1 DEF OneRewrite
  <2>3. row' \in [Secret -> Under(Known)] BY <1>15, <2>2, MovedRows DEF CommitRekey
  <2>. QED BY <1>15, <1>4, <1>6, <2>3 DEF CommitRekey, files, config, keys
<1>16. ASSUME NEW w \in Worker, SkipRekey(w) PROVE KeysHeld'
  BY <1>16, <1>5 DEF SkipRekey, files, config, keys, tx, tables
<1>17. ASSUME NEW w \in Worker, ClickRekey(w) PROVE KeysHeld'
  BY <1>17, <1>1, <1>4, <1>7 DEF ClickRekey, files, config, keys, tables
<1>18. ASSUME NEW w \in Worker, CommitClick(w) PROVE KeysHeld'
  <2>1. holder = [by |-> w, job |-> "click"] /\ holder # None BY <1>18, VaultAssumption DEF CommitClick
  <2>2. cache[w] \in Known BY <1>1, <2>1 DEF OneRewrite
  <2>3. row' \in [Secret -> Under(Known)] BY <1>18, <2>2, MovedRows DEF CommitClick
  <2>. QED BY <1>18, <1>4, <1>6, <2>3 DEF CommitClick, files, config, keys
<1>19. ASSUME NEW w \in Worker, ReadMarker(w) PROVE KeysHeld'
  BY <1>19, <1>5 DEF ReadMarker, files, config, keys, tx, tables
<1>20. ASSUME NEW w \in Worker, StartMigration(w) PROVE KeysHeld'
  BY <1>20, <1>1, <1>4, <1>7 DEF StartMigration, files, config, keys, tables
<1>21. ASSUME NEW w \in Worker, CommitMigration(w) PROVE KeysHeld'
  <2>1. row' \in [Secret -> Under(Known)] BY <1>21, SealedRows
  <2>. QED BY <1>21, <1>4, <1>6, <2>1 DEF CommitMigration, files, config, keys
<1>22. ASSUME NEW w \in Worker, SkipMigration(w) PROVE KeysHeld'
  BY <1>22, <1>5 DEF SkipMigration, files, config, keys, tx, tables
<1>23. ASSUME NEW w \in Worker, StepRaises(w) PROVE KeysHeld'
  <2>1. read' \in [Secret -> Under(Known)] BY <1>23, <1>1, <1>6 DEF StepRaises, tx
  <2>. QED BY <1>23, <1>1, <1>4, <2>1 DEF StepRaises, files, config, keys, tables
<1>24. ASSUME NEW w \in Worker, NextPass(w) PROVE KeysHeld'
  BY <1>24, <1>5 DEF NextPass, files, config, keys, tx, tables
<1>25. ASSUME NEW w \in Worker, Restart(w) PROVE KeysHeld'
  <2>1. read' \in [Secret -> Under(Known)] BY <1>25, <1>1, <1>6 DEF Restart, tx
  <2>2. /\ UNCHANGED <<keyFile, row>>
        /\ env' = [env EXCEPT ![w] = deploy.env]
        /\ cache' = [cache EXCEPT ![w] = None] /\ tmp' = [tmp EXCEPT ![w] = None]
    BY <1>25 DEF Restart, files, tables
  <2>3. \A u \in Worker : cache'[u] \in Known' \cup {None} BY <1>1, <1>3, <2>2 DEF TypeOK
  <2>4. \A u \in Worker : tmp'[u] # None => cache'[u] = None /\ env'[u] = None BY <1>1, <2>2 DEF TypeOK
  <2>. QED BY <1>1, <1>2, <1>3, <2>1, <2>2, <2>3, <2>4
<1>26. ASSUME NEW w \in Worker, NEW s \in Secret, NEW t \in Text, Save(w, s, t) PROVE KeysHeld'
  <2>1. row' \in [Secret -> Under(Known)] BY <1>26, SavedRow
  <2>. QED BY <1>26, <1>1, <1>4, <2>1 DEF Save, files, config, keys, tx
<1>27. CASE FileTrouble
  BY <1>27, <1>5 DEF FileTrouble, config, keys, tx, tables
<1>28. ASSUME NEW k \in EnvKey, NEW handOver \in BOOLEAN, Rotate(k, handOver) PROVE KeysHeld'
  BY <1>28, <1>5 DEF Rotate, files, keys, tx, tables
<1>29. ASSUME NEW s \in Secret, NEW t \in Text, OldBuildSaves(s, t) PROVE KeysHeld'
  <2>1. row' \in [Secret -> Under(Known)] BY <1>29, OldRow
  <2>. QED BY <1>29, <1>1, <1>4, <2>1 DEF OldBuildSaves, files, config, keys, tx
<1>30. CASE UNCHANGED vars
  BY <1>30, <1>5 DEF vars, files, config, keys, tx, tables
<1>. QED BY <1>11, <1>12, <1>13, <1>14, <1>15, <1>16, <1>17, <1>18, <1>19, <1>20, <1>21, <1>22, <1>23,
            <1>24, <1>25, <1>26, <1>27, <1>28, <1>29, <1>30
         DEF Next

-----------------------------------------------------------------------------
(* The open rewrite *)

LEMMA Holders ==
  ASSUME TypeOK
  PROVE  /\ \A w \in Worker, job \in Step \cup {"click"} : [by |-> w, job |-> job] # None
         /\ holder # None => holder = [by |-> holder.by, job |-> holder.job]
                             /\ holder.by \in Worker /\ holder.job \in Step \cup {"click"}
         /\ Step = {"vault_rekey", "vault_plaintext"}
BY VaultAssumption DEF TypeOK, Step

\* A worker with no key yet has no rewrite open that goes by one.
LEMMA RewriteSteps ==
  ASSUME VaultInv, [Next]_vars
  PROVE  OneRewrite'
<1>. USE Holders DEF VaultInv
<1>1. /\ \A w \in Worker : /\ at[w] = "moving" <=> holder = [by |-> w, job |-> "vault_rekey"]
                           /\ at[w] = "sealing" <=> holder = [by |-> w, job |-> "vault_plaintext"]
      /\ holder # None /\ holder.job # "vault_plaintext" => cache[holder.by] # None
      /\ holder # None /\ holder.job = "click" => keyFile # None
      /\ at \in [Worker -> {"rekey", "moving", "read", "lock", "sealing", "idle"}]
  BY DEF OneRewrite, TypeOK
<1>2. ASSUME UNCHANGED <<at, holder, keyFile>>, \A w \in Worker : cache[w] # None => cache'[w] = cache[w]
      PROVE  OneRewrite'
  BY <1>1, <1>2 DEF OneRewrite
<1>3. ASSUME NEW w \in Worker, NEW x \in {"rekey", "read", "lock", "idle"}, at[w] \notin {"moving", "sealing"},
             at' = [at EXCEPT ![w] = x], UNCHANGED <<holder, keyFile, cache>>
      PROVE  OneRewrite'
  BY <1>1, <1>3 DEF OneRewrite
\* A rewrite is opened ...
<1>4. ASSUME NEW w \in Worker, NEW job \in Step \cup {"click"}, Take(w, job),
             \/ job = "vault_rekey" /\ cache[w] # None /\ at' = [at EXCEPT ![w] = "moving"]
             \/ job = "vault_plaintext" /\ at' = [at EXCEPT ![w] = "sealing"]
             \/ job = "click" /\ cache[w] # None /\ keyFile # None /\ at' = at,
             UNCHANGED <<keyFile, cache>>
      PROVE  OneRewrite'
  <2>1. holder = None /\ holder' = [by |-> w, job |-> job] BY <1>4 DEF Take
  <2>2. \A u \in Worker : at[u] \notin {"moving", "sealing"} BY <1>1, <2>1
  <2>3. holder'.by = w /\ holder'.job = job BY <2>1
  <2>4. CASE job = "vault_rekey" /\ cache[w] # None /\ at' = [at EXCEPT ![w] = "moving"]
    BY <1>1, <1>4, <2>1, <2>2, <2>3, <2>4 DEF OneRewrite
  <2>5. CASE job = "vault_plaintext" /\ at' = [at EXCEPT ![w] = "sealing"]
    BY <1>1, <1>4, <2>1, <2>2, <2>3, <2>5 DEF OneRewrite
  <2>6. CASE job = "click" /\ cache[w] # None /\ keyFile # None /\ at' = at
    BY <1>1, <1>4, <2>1, <2>2, <2>3, <2>6 DEF OneRewrite
  <2>. QED BY <1>4, <2>4, <2>5, <2>6
\* ... and closed.
<1>5. ASSUME NEW w \in Worker, holder # None, holder.by = w, Drop,
             \A u \in Worker : u # w => at'[u] = at[u],
             at'[w] \notin {"moving", "sealing"}
      PROVE  OneRewrite'
  <2>1. holder' = None BY <1>5 DEF Drop
  <2>2. \A u \in Worker : u # w => at[u] \notin {"moving", "sealing"}
    <3>1. ASSUME NEW u \in Worker, u # w, at[u] \in {"moving", "sealing"} PROVE FALSE
      <4>1. holder = [by |-> u, job |-> "vault_rekey"] \/ holder = [by |-> u, job |-> "vault_plaintext"]
        BY <1>1, <3>1
      <4>2. holder.by = u BY <4>1
      <4>. QED BY <1>5, <3>1, <4>2
    <3>. QED BY <3>1
  <2>3. \A u \in Worker : at'[u] \notin {"moving", "sealing"} BY <1>5, <2>2
  <2>. QED BY <2>1, <2>3 DEF OneRewrite
<1>11. ASSUME NEW w \in Worker, Resolve(w) PROVE OneRewrite'
  <2>1. UNCHANGED <<at, holder, keyFile>> BY <1>11 DEF Resolve, files, pass, tx
  <2>2. \A u \in Worker : cache[u] # None => cache'[u] = cache[u] BY <1>11 DEF Resolve, TypeOK
  <2>. QED BY <1>2, <2>1, <2>2
<1>12. ASSUME NEW w \in Worker, Link(w) PROVE OneRewrite'
  <2>1. UNCHANGED <<at, holder>> BY <1>12 DEF Link, pass, tx
  <2>2. cache[w] = None BY <1>12 DEF Link, KeysHeld
  <2>3. \A u \in Worker : cache[u] # None => cache'[u] = cache[u] BY <1>12, <2>2 DEF Link, TypeOK
  <2>4. keyFile # None => keyFile' = keyFile BY <1>12 DEF Link
  <2>. QED BY <1>1, <2>1, <2>3, <2>4 DEF OneRewrite
<1>13. ASSUME NEW w \in Worker, NEW k \in FileKey, Generate(w, k) PROVE OneRewrite'
  BY <1>13, <1>2 DEF Generate, pass, tx
<1>14. ASSUME NEW w \in Worker, StartRekey(w) PROVE OneRewrite'
  BY <1>14, <1>4 DEF StartRekey, files, keys
<1>15. ASSUME NEW w \in Worker, CommitRekey(w) PROVE OneRewrite'
  <2>1. holder = [by |-> w, job |-> "vault_rekey"] BY <1>15, <1>1 DEF CommitRekey
  <2>2. holder # None /\ holder.by = w BY <2>1
  <2>. QED BY <1>15, <1>1, <1>5, <2>2 DEF CommitRekey
<1>16. ASSUME NEW w \in Worker, SkipRekey(w) PROVE OneRewrite'
  BY <1>16, <1>3 DEF SkipRekey, files, keys, tx
<1>17. ASSUME NEW w \in Worker, ClickRekey(w) PROVE OneRewrite'
  BY <1>17, <1>4 DEF ClickRekey, files, keys, pass
<1>18. ASSUME NEW w \in Worker, CommitClick(w) PROVE OneRewrite'
  <2>1. holder = [by |-> w, job |-> "click"] /\ Drop /\ at' = at BY <1>18 DEF CommitClick, pass
  <2>2. holder # None /\ holder.by = w /\ holder.job = "click" BY <2>1
  <2>3. at[w] \notin {"moving", "sealing"} BY <1>1, <2>2
  <2>. QED BY <1>5, <2>1, <2>2, <2>3
<1>19. ASSUME NEW w \in Worker, ReadMarker(w) PROVE OneRewrite'
  BY <1>19, <1>3 DEF ReadMarker, files, keys, tx
<1>20. ASSUME NEW w \in Worker, StartMigration(w) PROVE OneRewrite'
  BY <1>20, <1>4 DEF StartMigration, files, keys
<1>21. ASSUME NEW w \in Worker, CommitMigration(w) PROVE OneRewrite'
  <2>1. holder = [by |-> w, job |-> "vault_plaintext"] BY <1>21, <1>1 DEF CommitMigration
  <2>2. holder # None /\ holder.by = w BY <2>1
  <2>. QED BY <1>21, <1>1, <1>5, <2>2 DEF CommitMigration
<1>22. ASSUME NEW w \in Worker, SkipMigration(w) PROVE OneRewrite'
  BY <1>22, <1>3 DEF SkipMigration, files, keys, tx
<1>23. ASSUME NEW w \in Worker, StepRaises(w) PROVE OneRewrite'
  <2>1. PICK x \in {"read", "idle"} : at' = [at EXCEPT ![w] = x] BY <1>23 DEF StepRaises
  <2>2. CASE at[w] \in {"moving", "sealing"}
    <3>1. holder # None /\ holder.by = w
      <4>1. holder = [by |-> w, job |-> "vault_rekey"] \/ holder = [by |-> w, job |-> "vault_plaintext"]
        BY <1>1, <2>2
      <4>. QED BY <4>1
    <3>2. Drop BY <1>23, <2>2 DEF StepRaises
    <3>. QED BY <1>1, <1>5, <2>1, <3>1, <3>2
  <2>3. CASE at[w] \notin {"moving", "sealing"}
    BY <1>23, <1>3, <2>1, <2>3 DEF StepRaises, files, keys, tx
  <2>. QED BY <2>2, <2>3
<1>24. ASSUME NEW w \in Worker, NextPass(w) PROVE OneRewrite'
  BY <1>24, <1>3 DEF NextPass, files, keys, tx
<1>25. ASSUME NEW w \in Worker, Restart(w) PROVE OneRewrite'
  <2>1. at' = [at EXCEPT ![w] = "rekey"] /\ cache' = [cache EXCEPT ![w] = None] /\ keyFile' = keyFile
    BY <1>25 DEF Restart, files
  <2>2. CASE holder # None /\ holder.by = w
    <3>1. Drop BY <1>25, <2>2 DEF Restart
    <3>. QED BY <1>1, <1>5, <2>1, <2>2, <3>1
  <2>3. CASE ~ (holder # None /\ holder.by = w)
    <3>1. holder' = holder BY <1>25, <2>3 DEF Restart, tx
    <3>2. holder # None => cache'[holder.by] = cache[holder.by] BY <2>1, <2>3 DEF TypeOK
    <3>3. holder # [by |-> w, job |-> "vault_rekey"] /\ holder # [by |-> w, job |-> "vault_plaintext"]
      BY <2>3
    <3>. QED BY <1>1, <2>1, <3>1, <3>2, <3>3 DEF OneRewrite
  <2>. QED BY <2>2, <2>3
<1>26. ASSUME NEW w \in Worker, NEW s \in Secret, NEW t \in Text, Save(w, s, t) PROVE OneRewrite'
  BY <1>26, <1>2 DEF Save, files, keys, pass, tx
<1>27. CASE FileTrouble
  BY <1>27, <1>2 DEF FileTrouble, keys, pass, tx
<1>28. ASSUME NEW k \in EnvKey, NEW handOver \in BOOLEAN, Rotate(k, handOver) PROVE OneRewrite'
  BY <1>28, <1>2 DEF Rotate, files, keys, pass, tx
<1>29. ASSUME NEW s \in Secret, NEW t \in Text, OldBuildSaves(s, t) PROVE OneRewrite'
  BY <1>29, <1>2 DEF OldBuildSaves, files, keys, pass, tx
<1>30. CASE UNCHANGED vars
  BY <1>30, <1>2 DEF vars, files, keys, pass, tx
<1>. QED BY <1>11, <1>12, <1>13, <1>14, <1>15, <1>16, <1>17, <1>18, <1>19, <1>20, <1>21, <1>22, <1>23,
            <1>24, <1>25, <1>26, <1>27, <1>28, <1>29, <1>30
         DEF Next

-----------------------------------------------------------------------------
(* What was entered *)

\* An open rewrite never comes to write back more rows than it would have.
LEMMA OverwritesLess ==
  ASSUME VaultInv, UNCHANGED <<holder, read>>,
         holder # None => /\ prev'[holder.by] = prev[holder.by]
                          /\ holder.job = "vault_plaintext" => first'[holder.by] = first[holder.by]
                          /\ cache[holder.by] # None => cache'[holder.by] = cache[holder.by]
                          /\ holder.job = "click" => keyFile' = keyFile,
         NEW s \in Secret, Overwrites(s)'
  PROVE  Overwrites(s)
<1>. USE DEF VaultInv
<1>. DEFINE h == holder.by
<1>1. holder # None BY DEF Overwrites
<1>2. holder.job \in {"vault_rekey", "vault_plaintext", "click"} BY <1>1, Holders
<1>3. CASE holder.job = "vault_rekey"
  <2>1. cache'[h] = cache[h] /\ prev'[h] = prev[h] BY <1>1, <1>3 DEF OneRewrite
  <2>. QED BY <1>1, <1>3, <2>1 DEF Overwrites, Movable
<1>4. CASE holder.job = "click"
  <2>1. cache'[h] = cache[h] /\ keyFile' = keyFile BY <1>1, <1>4 DEF OneRewrite
  <2>. QED BY <1>1, <1>4, <2>1 DEF Overwrites, Movable
<1>5. CASE holder.job = "vault_plaintext"
  <2>1. NeedsEncrypting(h, read[s])' BY <1>1, <1>5 DEF Overwrites
  <2>2. first'[h] = first[h] BY <1>1, <1>5
  <2>3. NeedsEncrypting(h, read[s])
    <3>1. CASE first[h]
      <4>1. CASE cache[h] # None BY <1>1, <2>1, <2>2, <3>1, <4>1 DEF NeedsEncrypting
      <4>2. CASE cache[h] = None
        <5>1. read[s] \in Under(Known) /\ None \notin Known BY KnownKeys DEF KeysHeld, Sealed, Under, TypeOK
        <5>2. ~ Opens(None, read[s]) BY <5>1, Layers
        <5>. QED BY <3>1, <4>2, <5>2 DEF NeedsEncrypting
      <4>. QED BY <4>1, <4>2
    <3>2. CASE ~ first[h] BY <2>1, <2>2, <3>2 DEF NeedsEncrypting
    <3>. QED BY <3>1, <3>2
  <2>. QED BY <1>1, <1>5, <2>3 DEF Overwrites
<1>. QED BY <1>2, <1>3, <1>4, <1>5

\* A rewrite writes back what it read only where the save that followed is exposed.
LEMMA EntrySteps ==
  ASSUME VaultInv, [Next]_vars
  PROVE  EntriesKept'
<1>. USE Holders DEF VaultInv
<1>2. ASSUME UNCHANGED <<holder, read, row, meant, exposed>>,
             holder # None => /\ prev'[holder.by] = prev[holder.by]
                              /\ holder.job = "vault_plaintext" => first'[holder.by] = first[holder.by]
                              /\ cache[holder.by] # None => cache'[holder.by] = cache[holder.by]
                              /\ holder.job = "click" => keyFile' = keyFile
      PROVE  EntriesKept'
  <2>1. \A s \in Secret : Overwrites(s)' => Overwrites(s) BY <1>2, OverwritesLess
  <2>. QED BY <1>2, <2>1 DEF EntriesKept
<1>3. ASSUME holder' = None, UNCHANGED <<meant, exposed>>,
             \A s \in Secret \ exposed : row'[s].text = meant[s]
      PROVE  EntriesKept'
  BY <1>3 DEF EntriesKept, Overwrites
<1>4. ASSUME NEW w \in Worker, NEW job, Take(w, job), UNCHANGED <<row, meant, exposed>> PROVE EntriesKept'
  <2>1. read' = row BY <1>4 DEF Take
  <2>. QED BY <1>4, <2>1 DEF EntriesKept
<1>5. Drop => holder' = None BY DEF Drop
<1>6. \A s \in Secret \ exposed : row[s].text = meant[s] BY DEF EntriesKept
<1>7. ASSUME NEW w \in Worker, UNCHANGED <<holder, read, row, meant, exposed, keyFile, cache, prev>>,
             first' = first \/ (at[w] \notin {"moving", "sealing"} /\ \A u \in Worker : u # w => first'[u] = first[u])
      PROVE  EntriesKept'
  <2>1. holder # None /\ holder.job = "vault_plaintext" => first'[holder.by] = first[holder.by]
    <3>1. ASSUME holder # None, holder.job = "vault_plaintext" PROVE at[holder.by] = "sealing"
      BY <3>1 DEF OneRewrite
    <3>. QED BY <1>7, <3>1
  <2>. QED BY <1>2, <1>7, <2>1
<1>11. ASSUME NEW w \in Worker, Resolve(w) PROVE EntriesKept'
  <2>1. UNCHANGED <<holder, read, row, meant, exposed, prev, first, keyFile>>
    BY <1>11 DEF Resolve, files, config, pass, tx, tables, entered
  <2>2. \A u \in Worker : cache[u] # None => cache'[u] = cache[u] BY <1>11 DEF Resolve, TypeOK
  <2>. QED BY <1>2, <2>1, <2>2
<1>12. ASSUME NEW w \in Worker, Link(w) PROVE EntriesKept'
  <2>1. UNCHANGED <<holder, read, row, meant, exposed, prev, first>>
    BY <1>12 DEF Link, config, pass, tx, tables, entered
  <2>2. cache[w] = None BY <1>12 DEF Link, KeysHeld
  <2>3. \A u \in Worker : cache[u] # None => cache'[u] = cache[u] BY <1>12, <2>2 DEF Link, TypeOK
  <2>4. keyFile # None => keyFile' = keyFile BY <1>12 DEF Link
  <2>5. holder # None /\ holder.job = "click" => keyFile' = keyFile BY <2>4 DEF OneRewrite
  <2>. QED BY <1>2, <2>1, <2>3, <2>5
<1>13. ASSUME NEW w \in Worker, NEW k \in FileKey, Generate(w, k) PROVE EntriesKept'
  BY <1>13, <1>7 DEF Generate, config, pass, tx, tables, entered
<1>14. ASSUME NEW w \in Worker, StartRekey(w) PROVE EntriesKept'
  BY <1>14, <1>4 DEF StartRekey, tables, entered
<1>15. ASSUME NEW w \in Worker, CommitRekey(w) PROVE EntriesKept'
  <2>1. holder = [by |-> w, job |-> "vault_rekey"] BY <1>15 DEF CommitRekey, OneRewrite
  <2>2. holder # None /\ holder.by = w /\ holder.job = "vault_rekey" BY <2>1
  <2>3. cache[w] \in Known BY <2>2 DEF OneRewrite, KeysHeld
  <2>4. \A s \in Secret : row'[s].text = IF s \in Movable(cache[w], prev[w]) THEN read[s].text ELSE row[s].text
    BY <1>15, <2>3, MovedRows DEF CommitRekey
  <2>5. \A s \in Secret : s \in Movable(cache[w], prev[w]) => Overwrites(s) BY <2>2 DEF Overwrites
  <2>6. \A s \in Secret \ exposed : row'[s].text = meant[s] BY <2>4, <2>5 DEF EntriesKept
  <2>. QED BY <1>15, <1>3, <1>5, <2>6 DEF CommitRekey
<1>16. ASSUME NEW w \in Worker, SkipRekey(w) PROVE EntriesKept'
  BY <1>16, <1>7 DEF SkipRekey, files, config, keys, tx, tables, entered
<1>17. ASSUME NEW w \in Worker, ClickRekey(w) PROVE EntriesKept'
  BY <1>17, <1>4 DEF ClickRekey, tables, entered
<1>18. ASSUME NEW w \in Worker, CommitClick(w) PROVE EntriesKept'
  <2>1. holder = [by |-> w, job |-> "click"] BY <1>18 DEF CommitClick
  <2>2. holder # None /\ holder.by = w /\ holder.job = "click" BY <2>1
  <2>3. cache[w] \in Known BY <2>2 DEF OneRewrite, KeysHeld
  <2>4. \A s \in Secret : row'[s].text = IF s \in Movable(cache[w], keyFile) THEN read[s].text ELSE row[s].text
    BY <1>18, <2>3, MovedRows DEF CommitClick
  <2>5. \A s \in Secret : s \in Movable(cache[w], keyFile) => Overwrites(s) BY <2>2 DEF Overwrites
  <2>6. \A s \in Secret \ exposed : row'[s].text = meant[s] BY <2>4, <2>5 DEF EntriesKept
  <2>. QED BY <1>18, <1>3, <1>5, <2>6 DEF CommitClick
<1>19. ASSUME NEW w \in Worker, ReadMarker(w) PROVE EntriesKept'
  <2>1. \A u \in Worker : u # w => first'[u] = first[u] BY <1>19 DEF ReadMarker
  <2>. QED BY <1>19, <1>7, <2>1 DEF ReadMarker, files, config, keys, tx, tables, entered
<1>20. ASSUME NEW w \in Worker, StartMigration(w) PROVE EntriesKept'
  BY <1>20, <1>4 DEF StartMigration, tables, entered
<1>21. ASSUME NEW w \in Worker, CommitMigration(w) PROVE EntriesKept'
  <2>1. holder = [by |-> w, job |-> "vault_plaintext"] BY <1>21 DEF CommitMigration, OneRewrite
  <2>2. holder # None /\ holder.by = w /\ holder.job = "vault_plaintext" BY <2>1
  <2>3. \A s \in Secret : row'[s].text = IF NeedsEncrypting(w, read[s]) THEN read[s].text ELSE row[s].text
    BY <1>21, SealedRows
  <2>4. \A s \in Secret : NeedsEncrypting(w, read[s]) => Overwrites(s) BY <2>2 DEF Overwrites
  <2>5. \A s \in Secret \ exposed : row'[s].text = meant[s] BY <2>3, <2>4 DEF EntriesKept
  <2>. QED BY <1>21, <1>3, <1>5, <2>5 DEF CommitMigration
<1>22. ASSUME NEW w \in Worker, SkipMigration(w) PROVE EntriesKept'
  BY <1>22, <1>7 DEF SkipMigration, files, config, keys, tx, tables, entered
<1>23. ASSUME NEW w \in Worker, StepRaises(w) PROVE EntriesKept'
  <2>1. UNCHANGED <<row, meant, exposed, keyFile, cache, prev, first>>
    BY <1>23 DEF StepRaises, files, config, keys, tables, entered
  <2>2. CASE Drop BY <1>3, <1>5, <1>6, <2>1, <2>2
  <2>3. CASE UNCHANGED tx BY <1>7, <2>1, <2>3 DEF tx
  <2>. QED BY <1>23, <2>2, <2>3 DEF StepRaises
<1>24. ASSUME NEW w \in Worker, NextPass(w) PROVE EntriesKept'
  BY <1>24, <1>7 DEF NextPass, files, config, keys, tx, tables, entered
<1>25. ASSUME NEW w \in Worker, Restart(w) PROVE EntriesKept'
  <2>1. UNCHANGED <<row, meant, exposed, keyFile>> BY <1>25 DEF Restart, files, tables, entered
  <2>2. CASE holder # None /\ holder.by = w
    <3>1. Drop BY <1>25, <2>2 DEF Restart
    <3>. QED BY <1>3, <1>5, <1>6, <2>1, <3>1
  <2>3. CASE ~ (holder # None /\ holder.by = w)
    <3>1. UNCHANGED <<holder, read>> BY <1>25, <2>3 DEF Restart, tx
    <3>2. \A u \in Worker : u # w => prev'[u] = prev[u] /\ first'[u] = first[u] /\ cache'[u] = cache[u]
      BY <1>25 DEF Restart, TypeOK
    <3>. QED BY <1>2, <2>1, <2>3, <3>1, <3>2
  <2>. QED BY <2>2, <2>3
<1>26. ASSUME NEW s \in Secret, NEW t, row'[s].text = t, \A x \in Secret : x # s => row'[x] = row[x],
              meant' = [meant EXCEPT ![s] = t], Exposed(s),
              UNCHANGED <<holder, read, keyFile, cache, prev, first>>
       PROVE  EntriesKept'
  <2>1. \A x \in Secret : Overwrites(x)' => Overwrites(x) BY <1>26, OverwritesLess
  <2>2. exposed' = IF Overwrites(s) THEN exposed \cup {s} ELSE exposed \ {s} BY <1>26 DEF Exposed
  <2>3. ASSUME NEW x \in Secret \ exposed'
        PROVE  row'[x].text = meant'[x] /\ (Overwrites(x)' => read'[x].text = meant'[x])
    <3>1. CASE x = s
      <4>1. ~ Overwrites(s) BY <2>2, <2>3, <3>1
      <4>. QED BY <1>26, <2>1, <3>1, <4>1 DEF TypeOK
    <3>2. CASE x # s
      <4>1. x \in Secret \ exposed BY <2>2, <2>3, <3>2
      <4>2. row'[x] = row[x] /\ meant'[x] = meant[x] /\ read'[x] = read[x] BY <1>26, <3>2 DEF TypeOK
      <4>. QED BY <2>1, <4>1, <4>2 DEF EntriesKept
    <3>. QED BY <3>1, <3>2
  <2>. QED BY <2>3 DEF EntriesKept
<1>27. ASSUME NEW w \in Worker, NEW s \in Secret, NEW t \in Text, Save(w, s, t) PROVE EntriesKept'
  <2>1. row'[s].text = t /\ \A x \in Secret : x # s => row'[x] = row[x] BY <1>27, SavedRow
  <2>. QED BY <1>27, <1>26, <2>1 DEF Save, files, config, keys, pass, tx
<1>28. ASSUME NEW s \in Secret, NEW t \in Text, OldBuildSaves(s, t) PROVE EntriesKept'
  <2>1. row'[s].text = t /\ \A x \in Secret : x # s => row'[x] = row[x] BY <1>28, OldRow
  <2>. QED BY <1>28, <1>26, <2>1 DEF OldBuildSaves, files, config, keys, pass, tx
<1>29. ASSUME UNCHANGED <<holder, read, row, meant, exposed, keyFile, cache, prev, first>> PROVE EntriesKept'
  BY <1>2, <1>29
<1>30. CASE FileTrouble
  BY <1>30, <1>29 DEF FileTrouble, config, keys, pass, tx, tables, entered
<1>31. ASSUME NEW k \in EnvKey, NEW handOver \in BOOLEAN, Rotate(k, handOver) PROVE EntriesKept'
  BY <1>31, <1>29 DEF Rotate, files, keys, pass, tx, tables, entered
<1>32. CASE UNCHANGED vars
  BY <1>32, <1>29 DEF vars, files, config, keys, pass, tx, tables, entered
<1>. QED BY <1>11, <1>12, <1>13, <1>14, <1>15, <1>16, <1>17, <1>18, <1>19, <1>20, <1>21, <1>22, <1>23,
            <1>24, <1>25, <1>27, <1>28, <1>30, <1>31, <1>32
         DEF Next

-----------------------------------------------------------------------------
(* Plaintext *)

\* Plaintext gets past a migration only where the older build wrote it since.
LEMMA PlainSteps ==
  ASSUME VaultInv, [Next]_vars
  PROVE  PlainOnRecord'
<1>. USE Holders DEF VaultInv
<1>1. /\ \A s \in Secret : row[s].under = <<>> /\ (migrated \/ (holder # None /\ row[s] # read[s])) =>
                             s \in late /\ row[s].text \notin Lookalike
      /\ \A w \in Worker : at[w] \in {"lock", "sealing"} /\ ~ first[w] => migrated
  BY DEF PlainOnRecord
<1>2. ASSUME UNCHANGED <<row, late, migrated>>,
             holder' = None \/ UNCHANGED <<holder, read>> \/ read' = row,
             \A w \in Worker : at'[w] \in {"lock", "sealing"} =>
               at[w] \in {"lock", "sealing"} /\ first'[w] = first[w]
      PROVE  PlainOnRecord'
  BY <1>1, <1>2 DEF PlainOnRecord
<1>3. Drop => holder' = None BY DEF Drop
<1>4. ASSUME NEW w, NEW job, Take(w, job) PROVE read' = row BY <1>4 DEF Take
<1>11. ASSUME NEW w \in Worker, Resolve(w) PROVE PlainOnRecord'
  BY <1>11, <1>2 DEF Resolve, pass, tx, tables, entered
<1>12. ASSUME NEW w \in Worker, Link(w) PROVE PlainOnRecord'
  BY <1>12, <1>2 DEF Link, pass, tx, tables, entered
<1>13. ASSUME NEW w \in Worker, NEW k \in FileKey, Generate(w, k) PROVE PlainOnRecord'
  BY <1>13, <1>2 DEF Generate, pass, tx, tables, entered
<1>14. ASSUME NEW w \in Worker, StartRekey(w) PROVE PlainOnRecord'
  BY <1>14, <1>2, <1>4 DEF StartRekey, tables, entered, TypeOK
<1>15. ASSUME NEW w \in Worker, CommitRekey(w) PROVE PlainOnRecord'
  <2>1. holder = [by |-> w, job |-> "vault_rekey"] BY <1>15 DEF CommitRekey, OneRewrite
  <2>2. holder # None /\ holder.by = w /\ holder.job = "vault_rekey" BY <2>1
  <2>3. cache[w] \in Known BY <2>2 DEF OneRewrite, KeysHeld
  <2>4. \A s \in Secret : row'[s].under # <<>> \/ row'[s] = row[s]
    BY <1>15, <2>3, MovedRows DEF CommitRekey
  <2>5. UNCHANGED <<late, migrated, first>> /\ holder' = None BY <1>15, <1>3 DEF CommitRekey
  <2>6. \A u \in Worker : at'[u] \in {"lock", "sealing"} => at[u] \in {"lock", "sealing"}
    BY <1>15 DEF CommitRekey, TypeOK
  <2>. QED BY <1>1, <2>4, <2>5, <2>6 DEF PlainOnRecord
<1>16. ASSUME NEW w \in Worker, SkipRekey(w) PROVE PlainOnRecord'
  BY <1>16, <1>2 DEF SkipRekey, tx, tables, entered, TypeOK
<1>17. ASSUME NEW w \in Worker, ClickRekey(w) PROVE PlainOnRecord'
  BY <1>17, <1>2, <1>4 DEF ClickRekey, pass, tables, entered
<1>18. ASSUME NEW w \in Worker, CommitClick(w) PROVE PlainOnRecord'
  <2>1. holder = [by |-> w, job |-> "click"] BY <1>18 DEF CommitClick
  <2>2. holder # None /\ holder.by = w /\ holder.job = "click" BY <2>1
  <2>3. cache[w] \in Known BY <2>2 DEF OneRewrite, KeysHeld
  <2>4. \A s \in Secret : row'[s].under # <<>> \/ row'[s] = row[s]
    BY <1>18, <2>3, MovedRows DEF CommitClick
  <2>5. UNCHANGED <<late, migrated, first, at>> /\ holder' = None BY <1>18, <1>3 DEF CommitClick, pass
  <2>. QED BY <1>1, <2>4, <2>5 DEF PlainOnRecord
<1>19. ASSUME NEW w \in Worker, ReadMarker(w) PROVE PlainOnRecord'
  <2>1. UNCHANGED <<row, late, migrated, holder, read>> BY <1>19 DEF ReadMarker, tx, tables, entered
  <2>2. first' = [first EXCEPT ![w] = ~ migrated] /\ at' = [at EXCEPT ![w] = "lock"] BY <1>19 DEF ReadMarker
  <2>3. first'[w] = ~ migrated BY <2>2 DEF TypeOK
  <2>4. ~ first'[w] => migrated BY <2>3
  <2>5. \A u \in Worker : u # w => at'[u] = at[u] /\ first'[u] = first[u] BY <2>2 DEF TypeOK
  <2>. QED BY <1>1, <2>1, <2>4, <2>5 DEF PlainOnRecord
<1>20. ASSUME NEW w \in Worker, StartMigration(w) PROVE PlainOnRecord'
  BY <1>20, <1>2, <1>4 DEF StartMigration, tables, entered, TypeOK
<1>21. ASSUME NEW w \in Worker, CommitMigration(w) PROVE PlainOnRecord'
  <2>1. holder = [by |-> w, job |-> "vault_plaintext"] BY <1>21 DEF CommitMigration, OneRewrite
  <2>2. holder # None BY <2>1
  <2>3. \A s \in Secret : IF NeedsEncrypting(w, read[s]) THEN row'[s].under # <<>> ELSE row'[s] = row[s]
    BY <1>21, SealedRows
  <2>4. /\ at[w] = "sealing" /\ holder' = None
        /\ late' = {s \in late : row[s] # read[s]}
        /\ at' = [at EXCEPT ![w] = "idle"] /\ first' = first
        /\ migrated' <=> migrated \/ first[w]
    BY <1>21, <1>3 DEF CommitMigration
  <2>5. ASSUME NEW s \in Secret, row'[s].under = <<>>
        PROVE  s \in late' /\ row'[s].text \notin Lookalike
    <3>1. ~ NeedsEncrypting(w, read[s]) /\ row'[s] = row[s] BY <2>3, <2>5
    <3>2. CASE first[w]
      <4>1. read[s].under # <<>> BY <3>1, <3>2 DEF NeedsEncrypting, Opens
      <4>2. row[s] # read[s] BY <2>5, <3>1, <4>1
      <4>. QED BY <1>1, <2>2, <2>4, <2>5, <3>1, <4>2
    <3>3. CASE ~ first[w]
      <4>1. migrated BY <1>1, <2>4, <3>3
      <4>2. s \in late /\ row[s].text \notin Lookalike BY <1>1, <2>5, <3>1, <4>1
      <4>3. read[s].under # <<>> \/ read[s].text \in Lookalike
        BY <3>1, <3>3 DEF NeedsEncrypting, IsEncrypted
      <4>4. row[s] # read[s] BY <2>5, <3>1, <4>2, <4>3
      <4>. QED BY <2>4, <3>1, <4>2, <4>4
    <3>. QED BY <3>2, <3>3
  <2>6. \A u \in Worker : at'[u] \in {"lock", "sealing"} /\ ~ first'[u] => migrated'
    BY <1>1, <2>4 DEF TypeOK
  <2>. QED BY <2>5, <2>6 DEF PlainOnRecord
<1>22. ASSUME NEW w \in Worker, SkipMigration(w) PROVE PlainOnRecord'
  BY <1>22, <1>2 DEF SkipMigration, tx, tables, entered, TypeOK
<1>23. ASSUME NEW w \in Worker, StepRaises(w) PROVE PlainOnRecord'
  <2>1. UNCHANGED <<row, late, migrated, first>> BY <1>23 DEF StepRaises, tables, entered
  <2>2. holder' = None \/ UNCHANGED <<holder, read>> BY <1>23, <1>3 DEF StepRaises, tx
  <2>3. \A u \in Worker : at'[u] \in {"lock", "sealing"} => at[u] \in {"lock", "sealing"}
    BY <1>23 DEF StepRaises, TypeOK
  <2>. QED BY <1>2, <2>1, <2>2, <2>3
<1>24. ASSUME NEW w \in Worker, NextPass(w) PROVE PlainOnRecord'
  BY <1>24, <1>2 DEF NextPass, tx, tables, entered, TypeOK
<1>25. ASSUME NEW w \in Worker, Restart(w) PROVE PlainOnRecord'
  <2>1. UNCHANGED <<row, late, migrated>> BY <1>25 DEF Restart, tables, entered
  <2>2. holder' = None \/ UNCHANGED <<holder, read>> BY <1>25, <1>3 DEF Restart, tx
  <2>3. \A u \in Worker : at'[u] \in {"lock", "sealing"} =>
          at[u] \in {"lock", "sealing"} /\ first'[u] = first[u]
    BY <1>25 DEF Restart, TypeOK
  <2>. QED BY <1>2, <2>1, <2>2, <2>3
<1>26. ASSUME NEW w \in Worker, NEW s \in Secret, NEW t \in Text, Save(w, s, t) PROVE PlainOnRecord'
  <2>1. row'[s].under # <<>> /\ \A x \in Secret : x # s => row'[x] = row[x] BY <1>26, SavedRow
  <2>2. UNCHANGED <<migrated, holder, read, at, first>> /\ late' = late \ {s}
    BY <1>26 DEF Save, pass, tx
  <2>. QED BY <1>1, <2>1, <2>2 DEF PlainOnRecord
<1>27. ASSUME NEW s \in Secret, NEW t \in Text, OldBuildSaves(s, t) PROVE PlainOnRecord'
  <2>1. row'[s].text = t /\ \A x \in Secret : x # s => row'[x] = row[x] BY <1>27, OldRow
  <2>2. UNCHANGED <<migrated, holder, read, at, first>> /\ late' = late \cup {s}
        /\ (migrated \/ holder # None => t \notin Lookalike)
    BY <1>27 DEF OldBuildSaves, pass, tx
  <2>. QED BY <1>1, <2>1, <2>2 DEF PlainOnRecord
<1>28. CASE FileTrouble
  BY <1>28, <1>2 DEF FileTrouble, pass, tx, tables, entered
<1>29. ASSUME NEW k \in EnvKey, NEW handOver \in BOOLEAN, Rotate(k, handOver) PROVE PlainOnRecord'
  BY <1>29, <1>2 DEF Rotate, pass, tx, tables, entered
<1>30. CASE UNCHANGED vars
  BY <1>30, <1>2 DEF vars, pass, tx, tables, entered
<1>. QED BY <1>11, <1>12, <1>13, <1>14, <1>15, <1>16, <1>17, <1>18, <1>19, <1>20, <1>21, <1>22, <1>23,
            <1>24, <1>25, <1>26, <1>27, <1>28, <1>29, <1>30
         DEF Next

-----------------------------------------------------------------------------

LEMMA VaultStart == Init => VaultInv
<1>. SUFFICES ASSUME Init PROVE VaultInv OBVIOUS
<1>1. row \in [Secret -> Under(Known)] /\ \A s \in Secret : row[s].text = meant[s]
  <2>1. \A s \in Secret : Plain(meant[s]) \in Under(Known) /\ Plain(meant[s]).text = meant[s]
    BY PlainText DEF Init
  <2>. QED BY <2>1 DEF Init
<1>2. row \in [Secret -> Value]
  <2>1. Known \subseteq Key BY KnownKeys DEF Init
  <2>. QED BY <1>1, <2>1, MoreKeys DEF Value, Under
<1>3. TypeOK
  <2>1. /\ keyFile \in FileKey \cup {None} /\ fileOk \in BOOLEAN /\ drawn \subseteq FileKey
        /\ deploy \in [env : EnvKey \cup {None}, prev : Key \cup {None}]
        /\ orphaned \subseteq Key
    BY DEF Init
  <2>2. /\ env \in [Worker -> EnvKey \cup {None}] /\ prev \in [Worker -> Key \cup {None}]
        /\ cache \in [Worker -> Key \cup {None}] /\ tmp \in [Worker -> FileKey \cup {None}]
    BY DEF Init
  <2>3. /\ at \in [Worker -> {"rekey", "moving", "read", "lock", "sealing", "idle"}]
        /\ pending \in [Worker -> SUBSET Step] /\ first \in [Worker -> BOOLEAN]
    BY DEF Init
  <2>4. read \in [Secret -> Value] /\ meant \in [Secret -> Text] BY <1>2 DEF Init
  <2>5. /\ holder = None /\ migrated \in BOOLEAN /\ outcome = None
        /\ exposed = {} /\ late = {}
        /\ rotations = 0 /\ saves = 0 /\ restarts = 0 /\ faults = 0
    BY DEF Init
  <2>. QED BY <1>2, <2>1, <2>2, <2>3, <2>4, <2>5 DEF TypeOK
<1>4. KeysHeld BY <1>1 DEF Init, KeysHeld, Sealed, Under
<1>5. OneRewrite
  <2>1. holder = None /\ \A w \in Worker : at[w] = "rekey" BY DEF Init
  <2>. QED BY <1>3, <2>1, Holders DEF OneRewrite
<1>6. EntriesKept BY <1>1 DEF Init, EntriesKept, Overwrites
<1>7. PlainOnRecord
  <2>1. migrated = FALSE /\ holder = None /\ \A w \in Worker : at[w] = "rekey" BY DEF Init
  <2>. QED BY <2>1 DEF PlainOnRecord
<1>. QED BY <1>3, <1>4, <1>5, <1>6, <1>7 DEF VaultInv

\* What keys, rewrites and rows keep between them.
LEMMA VaultInvariant == Spec => []VaultInv
<1>1. Init => VaultInv BY VaultStart
<1>2. ASSUME VaultInv, [Next]_vars PROVE VaultInv'
  <2>1. TypeOK' BY <1>2, VaultTypes
  <2>2. KeysHeld' BY <1>2, KeySteps
  <2>3. OneRewrite' BY <1>2, RewriteSteps
  <2>4. EntriesKept' BY <1>2, EntrySteps
  <2>5. PlainOnRecord' BY <1>2, PlainSteps
  <2>. QED BY <2>1, <2>2, <2>3, <2>4, <2>5 DEF VaultInv
<1>. QED BY <1>1, <1>2, PTL DEF Spec

\* Keys, entries, markers and the memory of every worker keep their types (Vault.TypeOK
\* over vault.py), whatever crashes and rewrites interleave.
THEOREM Typing == Spec => []TypeOK
<1>1. VaultInv => TypeOK BY DEF VaultInv
<1>. QED BY <1>1, VaultInvariant, PTL

\* No secret is ever under a key that is gone, whichever workers start, stop and generate
\* keys together (vault.py, _load_or_create_key_file).
THEOREM KeysStayOnRecord == Spec => []KeysOnRecord
<1>1. ASSUME VaultInv PROVE KeysOnRecord
  <2>1. ASSUME NEW s \in Secret, NEW i \in 1..Len(row[s].under)
        PROVE  row[s].under[i] \in EnvKey \cup {keyFile}
    <3>1. row[s].under \in Seq(Known) BY <1>1 DEF VaultInv, KeysHeld, Sealed
    <3>2. row[s].under[i] \in Known BY <3>1, ElementOfSeq
    <3>. QED BY <3>2 DEF Known
  <2>. QED BY <2>1 DEF KeysOnRecord
<1>. QED BY <1>1, VaultInvariant, PTL

\* No move of the secrets and no migration loses what an operator entered, but for a save
\* that fell between the read and the commit of a rewrite of that row (vault.py, rekey
\* and migrate_plaintext).
THEOREM RewritesKeepEntries == Spec => []LastEntryKept
<1>1. VaultInv => LastEntryKept BY DEF VaultInv, EntriesKept, LastEntryKept
<1>. QED BY <1>1, VaultInvariant, PTL

\* Once the marker is set, plaintext is only what a worker of the older build has written
\* since the last migration (vault.py, migrate_plaintext).
THEOREM MarkerIsKept == Spec => []MarkerMeansSealed
<1>1. VaultInv => MarkerMeansSealed BY DEF VaultInv, PlainOnRecord, MarkerMeansSealed
<1>. QED BY <1>1, VaultInvariant, PTL

-----------------------------------------------------------------------------
(* Changes of the key, where each waits until every worker is ready *)

\* Encrypting plaintext, and moving a token from the key that opens it, leave one layer.
LEMMA OneLayer ==
  ASSUME NEW v \in Value, NEW k
  PROVE  /\ v.under = <<>> => Encrypt(k, v).under = <<k>>
         /\ \A K, old : Once(v, K) /\ Opens(old, v) => Encrypt(k, OpenWith(v)).under = <<k>>
<1>1. v = [text |-> v.text, under |-> v.under] BY DEF Value
<1>2. ASSUME NEW x, x = [text |-> x.text, under |-> x.under], x.under = <<>>
      PROVE  Encrypt(k, x).under = <<k>>
  BY <1>2 DEF Encrypt
<1>3. ASSUME NEW K, NEW old, Once(v, K), Opens(old, v) PROVE Encrypt(k, OpenWith(v)).under = <<k>>
  <2>1. PICK j \in K : v.under = <<j>> BY <1>3 DEF Once, Opens
  <2>2. SubSeq(<<j>>, 1, Len(<<j>>) - 1) = <<>>
    <3>1. Len(<<j>>) - 1 = 0 OBVIOUS
    <3>2. SubSeq(<<j>>, 1, 0) = <<>> OBVIOUS
    <3>. QED BY <3>1, <3>2
  <2>3. OpenWith(v) = [text |-> v.text, under |-> <<>>] BY <1>1, <2>1, <2>2 DEF OpenWith
  <2>. QED BY <1>2, <2>3
<1>. QED BY <1>1, <1>2, <1>3

LEMMA OnceMore ==
  ASSUME NEW v, NEW K, NEW L, Once(v, K), K \subseteq L
  PROVE  Once(v, L)
BY DEF Once

\* A move puts what it moves under the current key and leaves the rest.
LEMMA MovedLayers ==
  ASSUME VaultInv, Layered, NEW k, NEW old, Move(k, old), NEW s \in Secret
  PROVE  IF s \in Movable(k, old) THEN row'[s].under = <<k>> ELSE row'[s] = row[s]
<1>1. read[s] \in Value /\ Once(read[s], Key) BY DEF VaultInv, TypeOK, Layered
<1>2. s \in Movable(k, old) => Opens(old, read[s]) BY DEF Movable
<1>3. s \in Movable(k, old) => Encrypt(k, OpenWith(read[s])).under = <<k>> BY <1>1, <1>2, OneLayer
<1>. QED BY <1>3 DEF Move

LEMMA OneKey ==
  ASSUME NEW v, NEW k, v.under = <<k>>
  PROVE  Opens(k, v)
<1>1. Len(<<k>>) = 1 /\ <<k>>[1] = k OBVIOUS
<1>2. <<k>> # <<>> OBVIOUS
<1>. QED BY <1>1, <1>2 DEF Opens

\* A migration takes no token for plaintext: in a first run there is but one key.
LEMMA SealedLayers ==
  ASSUME VaultInv, RotationInv, NEW w \in Worker, CommitMigration(w), NEW s \in Secret
  PROVE  IF NeedsEncrypting(w, read[s])
         THEN read[s].under = <<>> /\ cache[w] # None /\ row'[s].under = <<cache[w]>>
         ELSE row'[s] = row[s]
<1>1. /\ at[w] = "sealing"
      /\ {x \in Secret : NeedsEncrypting(w, read[x])} = {} \/ cache[w] # None
      /\ row' = [x \in Secret |-> IF x \in {y \in Secret : NeedsEncrypting(w, read[y])}
                                  THEN Encrypt(cache[w], read[x]) ELSE row[x]]
  BY DEF CommitMigration
<1>2. row'[s] = IF NeedsEncrypting(w, read[s]) THEN Encrypt(cache[w], read[s]) ELSE row[s] BY <1>1
<1>3. ASSUME NeedsEncrypting(w, read[s]) PROVE read[s].under = <<>> /\ cache[w] # None
  <2>1. cache[w] # None BY <1>1, <1>3
  <2>2. CASE ~ first[w] BY <1>3, <2>1, <2>2 DEF NeedsEncrypting, IsEncrypted
  <2>3. CASE first[w]
    <3>1. rotations = 0 BY <1>1, <2>3 DEF RotationInv, FirstRuns
    <3>2. /\ deploy.prev = None /\ orphaned = {} /\ env[w] = deploy.env /\ cache[w] = Own(w)
      BY <2>1, <3>1 DEF RotationInv, Behind
    <3>3. Current = cache[w] BY <3>2 DEF Own, Current
    <3>4. Kept \subseteq {cache[w]} BY <3>2, <3>3 DEF Kept
    <3>5. Once(read[s], {cache[w]}) BY <3>1, <3>4, OnceMore DEF RotationInv, Layered
    <3>6. read[s].under = <<cache[w]>> => Opens(cache[w], read[s]) BY OneKey
    <3>7. ~ Opens(cache[w], read[s]) BY <1>3, <2>3 DEF NeedsEncrypting
    <3>. QED BY <2>1, <3>5, <3>6, <3>7 DEF Once
  <2>. QED BY <2>2, <2>3
<1>4. read[s] \in Value BY DEF VaultInv, TypeOK
<1>. QED BY <1>2, <1>3, <1>4, OneLayer

\* A saved secret is under one layer, plaintext of the older build under none.
LEMMA SavedLayer ==
  ASSUME TypeOK, NEW w \in Worker, NEW s \in Secret, NEW t \in Text, Save(w, s, t)
  PROVE  row'[s].under = <<cache[w]>> /\ \A x \in Secret : x # s => row'[x] = row[x]
<1>1. Plain(t) \in Value /\ Plain(t).under = <<>> BY PlainText DEF Value, Under, Plain
<1>2. Encrypt(cache[w], Plain(t)).under = <<cache[w]>> BY <1>1, OneLayer
<1>3. row' = [row EXCEPT ![s] = Encrypt(cache[w], Plain(t))] BY DEF Save
<1>. QED BY <1>2, <1>3 DEF TypeOK

LEMMA OldLayer ==
  ASSUME TypeOK, NEW s \in Secret, NEW t \in Text, OldBuildSaves(s, t)
  PROVE  row'[s].under = <<>> /\ \A x \in Secret : x # s => row'[x] = row[x]
<1>1. row' = [row EXCEPT ![s] = Plain(t)] /\ Plain(t).under = <<>> BY DEF OldBuildSaves, Plain
<1>. QED BY <1>1 DEF TypeOK

\* The key a worker goes by is one that secrets may be under.
LEMMA CacheKept ==
  ASSUME VaultInv, Behind, NEW s \in Secret, NEW w \in Worker, cache[w] # None
  PROVE  cache[w] \in Kept
<1>1. cache[w] = Own(w) BY DEF Behind
<1>2. CASE env[w] = deploy.env BY <1>1, <1>2 DEF Own, Kept, Current
<1>3. CASE env[w] # deploy.env BY <1>1, <1>3 DEF Behind
<1>. QED BY <1>2, <1>3

-----------------------------------------------------------------------------

LEMMA FirstRunSteps ==
  ASSUME ~ RotateEarly, VaultInv, FirstRuns, [Next]_vars
  PROVE  FirstRuns'
<1>. USE DEF VaultInv
<1>1. /\ at \in [Worker -> Passes] /\ pending \in [Worker -> SUBSET Step] /\ first \in [Worker -> BOOLEAN]
      /\ rotations \in Nat
  BY DEF TypeOK, Passes
<1>2. \A w \in Worker :
        /\ at[w] = "moving" => "vault_rekey" \in pending[w]
        /\ at[w] \in {"lock", "sealing"} => "vault_plaintext" \in pending[w]
        /\ rotations > 0 \/ "vault_plaintext" \notin pending[w] => migrated
        /\ first[w] /\ at[w] \in {"lock", "sealing"} => rotations = 0
  BY DEF FirstRuns
<1>3. ASSUME UNCHANGED <<at, pending, first, migrated, rotations>> PROVE FirstRuns'
  BY <1>2, <1>3 DEF FirstRuns
\* A step is over, or another begins.
<1>4. ASSUME NEW w \in Worker, UNCHANGED <<first, migrated, rotations>>,
             NEW x \in Passes, at' = [at EXCEPT ![w] = x],
             x = "moving" => "vault_rekey" \in pending[w],
             x # "lock", x = "sealing" => at[w] = "lock",
             \/ pending' = pending
             \/ pending' = [pending EXCEPT ![w] = pending[w] \ {"vault_rekey"}] /\ x = "read"
      PROVE  FirstRuns'
  BY <1>1, <1>2, <1>4 DEF FirstRuns, Passes
<1>11. ASSUME NEW w \in Worker, Resolve(w) PROVE FirstRuns'
  BY <1>11, <1>3 DEF Resolve, pass, tables, used
<1>12. ASSUME NEW w \in Worker, Link(w) PROVE FirstRuns'
  BY <1>12, <1>3 DEF Link, pass, tables, used
<1>13. ASSUME NEW w \in Worker, NEW k \in FileKey, Generate(w, k) PROVE FirstRuns'
  BY <1>13, <1>3 DEF Generate, pass, tables, used
<1>14. ASSUME NEW w \in Worker, StartRekey(w) PROVE FirstRuns'
  BY <1>14, <1>4 DEF StartRekey, tables, used, Passes
<1>15. ASSUME NEW w \in Worker, CommitRekey(w) PROVE FirstRuns'
  BY <1>15, <1>4 DEF CommitRekey, used, Passes
<1>16. ASSUME NEW w \in Worker, SkipRekey(w) PROVE FirstRuns'
  BY <1>16, <1>4 DEF SkipRekey, tables, used, Passes
<1>17. ASSUME NEW w \in Worker, ClickRekey(w) PROVE FirstRuns'
  BY <1>17, <1>3 DEF ClickRekey, pass, tables, used
<1>18. ASSUME NEW w \in Worker, CommitClick(w) PROVE FirstRuns'
  BY <1>18, <1>3 DEF CommitClick, pass, used
<1>19. ASSUME NEW w \in Worker, ReadMarker(w) PROVE FirstRuns'
  <2>1. /\ "vault_plaintext" \in pending[w] /\ UNCHANGED <<pending, migrated, rotations>>
        /\ first' = [first EXCEPT ![w] = ~ migrated] /\ at' = [at EXCEPT ![w] = "lock"]
    BY <1>19 DEF ReadMarker, tables, used
  <2>2. first'[w] => ~ migrated BY <1>1, <2>1
  <2>3. \A u \in Worker : u # w => first'[u] = first[u] /\ at'[u] = at[u] BY <1>1, <2>1
  <2>4. at'[w] = "lock" BY <1>1, <2>1
  <2>5. ~ migrated => rotations = 0 BY <1>1, <1>2
  <2>. QED BY <1>2, <2>1, <2>2, <2>3, <2>4, <2>5 DEF FirstRuns
<1>20. ASSUME NEW w \in Worker, StartMigration(w) PROVE FirstRuns'
  BY <1>20, <1>4 DEF StartMigration, tables, used, Passes
<1>21. ASSUME NEW w \in Worker, CommitMigration(w) PROVE FirstRuns'
  <2>1. /\ at[w] = "sealing" /\ first' = first /\ rotations' = rotations
        /\ migrated' <=> migrated \/ first[w]
        /\ at' = [at EXCEPT ![w] = "idle"]
        /\ pending' = [pending EXCEPT ![w] = pending[w] \ {"vault_plaintext"}]
    BY <1>21 DEF CommitMigration, used
  <2>2. migrated' BY <2>1 DEF PlainOnRecord
  <2>. QED BY <1>1, <1>2, <2>1, <2>2 DEF FirstRuns
<1>22. ASSUME NEW w \in Worker, SkipMigration(w) PROVE FirstRuns'
  BY <1>22, <1>4 DEF SkipMigration, tables, used, Passes
<1>23. ASSUME NEW w \in Worker, StepRaises(w) PROVE FirstRuns'
  BY <1>23, <1>4 DEF StepRaises, tables, Passes
<1>24. ASSUME NEW w \in Worker, NextPass(w) PROVE FirstRuns'
  BY <1>24, <1>4 DEF NextPass, tables, used, Passes
<1>25. ASSUME NEW w \in Worker, Restart(w) PROVE FirstRuns'
  <2>1. /\ at' = [at EXCEPT ![w] = "rekey"] /\ pending' = [pending EXCEPT ![w] = Step]
        /\ first' = [first EXCEPT ![w] = FALSE] /\ UNCHANGED <<migrated, rotations>>
    BY <1>25 DEF Restart, tables
  <2>. QED BY <1>1, <1>2, <2>1 DEF FirstRuns, Step
<1>26. ASSUME NEW w \in Worker, NEW s \in Secret, NEW t \in Text, Save(w, s, t) PROVE FirstRuns'
  BY <1>26, <1>3 DEF Save, pass
<1>27. ASSUME NEW s \in Secret, NEW t \in Text, OldBuildSaves(s, t) PROVE FirstRuns'
  BY <1>27, <1>3 DEF OldBuildSaves, pass
<1>28. CASE FileTrouble
  BY <1>28, <1>3 DEF FileTrouble, pass, tables
<1>29. ASSUME NEW k \in EnvKey, NEW handOver \in BOOLEAN, Rotate(k, handOver) PROVE FirstRuns'
  <2>1. Ready /\ UNCHANGED <<at, pending, first, migrated>> BY <1>29 DEF Rotate, pass, tables
  <2>2. \A w \in Worker : pending[w] = {} BY <2>1 DEF Ready
  <2>. QED BY <1>2, <2>1, <2>2 DEF FirstRuns
<1>30. CASE UNCHANGED vars
  BY <1>30, <1>3 DEF vars, pass, tables, used
<1>. QED BY <1>11, <1>12, <1>13, <1>14, <1>15, <1>16, <1>17, <1>18, <1>19, <1>20, <1>21, <1>22, <1>23,
            <1>24, <1>25, <1>26, <1>27, <1>28, <1>29, <1>30
         DEF Next

\* Nobody is more than one change of the key behind: an operator waits for all.
LEMMA BehindSteps ==
  ASSUME ~ RotateEarly, VaultInv, RotationInv, [Next]_vars
  PROVE  Behind'
<1>. USE DEF VaultInv, RotationInv
<1>1. /\ keyFile \in FileKey \cup {None} /\ orphaned \subseteq Key
      /\ deploy \in [env : EnvKey \cup {None}, prev : Key \cup {None}]
      /\ env \in [Worker -> EnvKey \cup {None}] /\ prev \in [Worker -> Key \cup {None}]
      /\ cache \in [Worker -> Key \cup {None}] /\ tmp \in [Worker -> FileKey \cup {None}]
      /\ rotations \in Nat
  BY DEF TypeOK
<1>2. /\ rotations = 0 => deploy.prev = None /\ orphaned = {} /\ \A w \in Worker : env[w] = deploy.env
      /\ rotations > 0 => deploy.env # None
      /\ \A w \in Worker : env[w] = deploy.env => prev[w] = deploy.prev
      /\ \A w \in Worker : cache[w] \in {None, Own(w)}
      /\ Secret # {} /\ migrated => Current # None
      /\ Secret # {} => \A w \in Worker : env[w] # deploy.env => Own(w) \in Kept
  BY DEF Behind
\* The configuration of the deployment stays, and so does a key file that is there.
<1>3. ASSUME UNCHANGED <<deploy, orphaned, rotations>>, keyFile # None => keyFile' = keyFile,
             \A w \in Worker : (env'[w] = deploy.env /\ prev'[w] = deploy.prev)
                              \/ (env'[w] = env[w] /\ prev'[w] = prev[w]),
             \A w \in Worker : cache'[w] \in {None, Own(w)'},
             Secret # {} /\ migrated' => migrated \/ Current # None
      PROVE  Behind'
  <2>1. Current # None => Current' = Current BY <1>3 DEF Current
  <2>2. Kept \subseteq Kept' BY <1>3, <2>1 DEF Kept
  <2>3. ASSUME Secret # {}, NEW w \in Worker, env'[w] # deploy'.env PROVE Own(w)' \in Kept'
    <3>1. env'[w] = env[w] /\ env[w] # deploy.env BY <1>3, <2>3
    <3>2. Own(w) \in Kept BY <1>2, <2>3, <3>1
    <3>3. Own(w) # None BY <3>2 DEF Kept
    <3>4. Own(w)' = Own(w) BY <1>3, <3>1, <3>3 DEF Own
    <3>. QED BY <2>2, <3>2, <3>4
  <2>4. Secret # {} /\ migrated' => Current' # None BY <1>2, <1>3, <2>1
  <2>. QED BY <1>2, <1>3, <2>3, <2>4 DEF Behind
<1>4. ASSUME UNCHANGED <<deploy, orphaned, rotations, keyFile, env, prev, cache, migrated>> PROVE Behind'
  <2>1. \A w \in Worker : Own(w)' = Own(w) BY <1>4 DEF Own
  <2>. QED BY <1>2, <1>3, <1>4, <2>1
<1>11. ASSUME NEW w \in Worker, Resolve(w) PROVE Behind'
  <2>1. UNCHANGED <<keyFile, deploy, orphaned, env, prev, migrated, rotations>>
    BY <1>11 DEF Resolve, files, config, tables, used
  <2>2. cache' = [cache EXCEPT ![w] = Own(w)] BY <1>11 DEF Resolve, Own
  <2>3. \A u \in Worker : Own(u)' = Own(u) BY <2>1 DEF Own
  <2>4. \A u \in Worker : cache'[u] \in {None, Own(u)'} BY <1>1, <1>2, <2>2, <2>3
  <2>. QED BY <1>2, <1>3, <2>1, <2>4
<1>12. ASSUME NEW w \in Worker, Link(w) PROVE Behind'
  <2>1. UNCHANGED <<deploy, orphaned, env, prev, migrated, rotations>> /\ tmp[w] # None
    BY <1>12 DEF Link, config, tables, used
  <2>2. env[w] = None BY <2>1 DEF KeysHeld
  <2>3. /\ keyFile # None => keyFile' = keyFile
        /\ cache' = [cache EXCEPT ![w] = cache'[w]] /\ cache'[w] \in {None, keyFile'}
    BY <1>1, <1>12 DEF Link
  <2>4. \A u \in Worker : cache'[u] \in {None, Own(u)'}
    BY <1>1, <1>2, <2>1, <2>2, <2>3 DEF Own
  <2>. QED BY <1>2, <1>3, <2>1, <2>3, <2>4
<1>13. ASSUME NEW w \in Worker, NEW k \in FileKey, Generate(w, k) PROVE Behind'
  BY <1>13, <1>4 DEF Generate, config, tables, used
<1>14. ASSUME NEW w \in Worker, StartRekey(w) PROVE Behind'
  BY <1>14, <1>4 DEF StartRekey, files, config, keys, tables, used
<1>15. ASSUME NEW w \in Worker, CommitRekey(w) PROVE Behind'
  BY <1>15, <1>4 DEF CommitRekey, files, config, keys, used
<1>16. ASSUME NEW w \in Worker, SkipRekey(w) PROVE Behind'
  BY <1>16, <1>4 DEF SkipRekey, files, config, keys, tables, used
<1>17. ASSUME NEW w \in Worker, ClickRekey(w) PROVE Behind'
  BY <1>17, <1>4 DEF ClickRekey, files, config, keys, tables, used
<1>18. ASSUME NEW w \in Worker, CommitClick(w) PROVE Behind'
  BY <1>18, <1>4 DEF CommitClick, files, config, keys, used
<1>19. ASSUME NEW w \in Worker, ReadMarker(w) PROVE Behind'
  BY <1>19, <1>4 DEF ReadMarker, files, config, keys, tables, used
<1>20. ASSUME NEW w \in Worker, StartMigration(w) PROVE Behind'
  BY <1>20, <1>4 DEF StartMigration, files, config, keys, tables, used
<1>21. ASSUME NEW w \in Worker, CommitMigration(w) PROVE Behind'
  <2>1. UNCHANGED <<keyFile, deploy, orphaned, env, prev, cache, rotations>>
        /\ at[w] = "sealing" /\ (migrated' <=> migrated \/ first[w])
        /\ ({s \in Secret : NeedsEncrypting(w, read[s])} = {} \/ cache[w] # None)
    BY <1>21 DEF CommitMigration, files, config, keys, used
  <2>2. ASSUME NEW s \in Secret, first[w] PROVE Current # None
    <3>1. rotations = 0 BY <2>1, <2>2 DEF FirstRuns
    <3>2. env[w] = deploy.env /\ cache[w] \in {None, Current} BY <1>2, <3>1 DEF Own, Current
    <3>3. CASE cache[w] # None BY <3>2, <3>3
    <3>4. CASE cache[w] = None
      <4>1. read[s] \in Under(Known) BY DEF KeysHeld, Sealed, Under
      <4>2. None \notin Known BY <1>1, KnownKeys
      <4>3. ~ Opens(None, read[s]) BY <4>1, <4>2, Layers
      <4>4. NeedsEncrypting(w, read[s]) BY <2>2, <3>4, <4>3 DEF NeedsEncrypting
      <4>. QED BY <2>1, <3>4, <4>4
    <3>. QED BY <3>3, <3>4
  <2>3. \A u \in Worker : Own(u)' = Own(u) BY <2>1 DEF Own
  <2>. QED BY <1>2, <1>3, <2>1, <2>2, <2>3
<1>22. ASSUME NEW w \in Worker, SkipMigration(w) PROVE Behind'
  BY <1>22, <1>4 DEF SkipMigration, files, config, keys, tables, used
<1>23. ASSUME NEW w \in Worker, StepRaises(w) PROVE Behind'
  BY <1>23, <1>4 DEF StepRaises, files, config, keys, tables
<1>24. ASSUME NEW w \in Worker, NextPass(w) PROVE Behind'
  BY <1>24, <1>4 DEF NextPass, files, config, keys, tables, used
<1>25. ASSUME NEW w \in Worker, Restart(w) PROVE Behind'
  <2>1. /\ UNCHANGED <<keyFile, deploy, orphaned, migrated, rotations>>
        /\ env' = [env EXCEPT ![w] = deploy.env] /\ prev' = [prev EXCEPT ![w] = deploy.prev]
        /\ cache' = [cache EXCEPT ![w] = None]
    BY <1>25 DEF Restart, files, tables
  <2>2. \A u \in Worker : u # w => Own(u)' = Own(u) /\ cache'[u] = cache[u]
    BY <1>1, <2>1 DEF Own
  <2>3. \A u \in Worker : cache'[u] \in {None, Own(u)'} BY <1>1, <1>2, <2>1, <2>2
  <2>4. \A u \in Worker : (env'[u] = deploy.env /\ prev'[u] = deploy.prev)
                         \/ (env'[u] = env[u] /\ prev'[u] = prev[u])
    BY <1>1, <2>1
  <2>. QED BY <1>3, <2>1, <2>3, <2>4
<1>26. ASSUME NEW w \in Worker, NEW s \in Secret, NEW t \in Text, Save(w, s, t) PROVE Behind'
  BY <1>26, <1>4 DEF Save, files, config, keys
<1>27. ASSUME NEW s \in Secret, NEW t \in Text, OldBuildSaves(s, t) PROVE Behind'
  BY <1>27, <1>4 DEF OldBuildSaves, files, config, keys
<1>28. CASE FileTrouble
  BY <1>28, <1>4 DEF FileTrouble, config, keys, tables
<1>29. ASSUME NEW k \in EnvKey, NEW handOver \in BOOLEAN, Rotate(k, handOver) PROVE Behind'
  <2>1. /\ deploy' = [env |-> k, prev |-> IF handOver THEN Current ELSE None]
        /\ orphaned' = orphaned \cup (IF handOver \/ Current = None THEN {} ELSE {Current})
        /\ k # deploy.env /\ Ready /\ rotations' = rotations + 1
        /\ UNCHANGED <<keyFile, env, prev, cache, migrated>>
    BY <1>29 DEF Rotate, Current, files, keys, tables
  <2>2. \A w \in Worker : env[w] = deploy.env /\ pending[w] = {} BY <2>1 DEF Ready
  <2>3. migrated BY <2>2, VaultAssumption DEF FirstRuns
  <2>4. k # None BY VaultAssumption DEF Key
  <2>5. \A w \in Worker : Own(w)' = Own(w) /\ Own(w) = Current /\ env'[w] # deploy'.env
    BY <2>1, <2>2 DEF Own, Current
  <2>6. Secret # {} => Current \in Kept'
    <3>1. Secret # {} => Current # None BY <1>2, <2>3
    <3>2. handOver => deploy'.prev = Current BY <2>1
    <3>3. ~ handOver /\ Current # None => Current \in orphaned' BY <2>1
    <3>. QED BY <3>1, <3>2, <3>3 DEF Kept
  <2>7. Current' # None BY <2>1, <2>4 DEF Current
  <2>8. rotations' # 0 /\ deploy'.env # None BY <1>1, <2>1, <2>4
  <2>9. \A w \in Worker : cache'[w] \in {None, Own(w)'} BY <1>2, <2>1, <2>5
  <2>. QED BY <2>5, <2>6, <2>7, <2>8, <2>9 DEF Behind
<1>30. CASE UNCHANGED vars
  BY <1>30, <1>4 DEF vars, files, config, keys, tables, used
<1>. QED BY <1>11, <1>12, <1>13, <1>14, <1>15, <1>16, <1>17, <1>18, <1>19, <1>20, <1>21, <1>22, <1>23,
            <1>24, <1>25, <1>26, <1>27, <1>28, <1>29, <1>30
         DEF Next

\* One layer, made with a key that is still around.
LEMMA LayerSteps ==
  ASSUME ~ RotateEarly, VaultInv, RotationInv, [Next]_vars
  PROVE  Layered'
<1>. USE DEF VaultInv, RotationInv
<1>1. \A s \in Secret : /\ Once(row[s], Kept) /\ Once(read[s], Key)
                        /\ rotations = 0 => Once(read[s], Kept)
  BY DEF Layered
<1>2. Kept \subseteq Key /\ None \notin Kept /\ keyFile \in FileKey \cup {None}
  BY DEF TypeOK, Kept, Current, Key
<1>3. \A K : \A v : v.under = <<>> => Once(v, K) BY DEF Once
<1>4. Drop => \A K : \A s \in Secret : Once(read'[s], K) BY DEF Drop, Once, Plain
<1>5. ASSUME NEW w, NEW job, Take(w, job) PROVE read' = row BY <1>5 DEF Take
<1>6. ASSUME NEW s \in Secret, NEW w \in Worker, cache[w] # None, row'[s].under = <<cache[w]>>
      PROVE  Once(row'[s], Kept)
  BY <1>6, CacheKept DEF Once
\* No key is changed; a key file may appear.
<1>7. ASSUME UNCHANGED <<deploy, orphaned, rotations>>, keyFile # None => keyFile' = keyFile,
             \A s \in Secret : Once(row'[s], Kept),
             read' = read \/ read' = row \/ Drop
      PROVE  Layered'
  <2>1. Kept \subseteq Kept' BY <1>7 DEF Kept, Current
  <2>2. ASSUME NEW s \in Secret PROVE Once(row'[s], Kept') BY <1>7, <2>1, OnceMore
  <2>3. ASSUME NEW s \in Secret PROVE Once(read'[s], Key) /\ (rotations = 0 => Once(read'[s], Kept'))
    <3>1. CASE read' = read \/ read' = row BY <1>1, <1>2, <2>1, <3>1, OnceMore
    <3>2. CASE Drop BY <1>4, <3>2
    <3>. QED BY <1>7, <3>1, <3>2
  <2>. QED BY <1>7, <2>2, <2>3 DEF Layered, Once, Key
<1>8. ASSUME UNCHANGED <<deploy, orphaned, rotations, keyFile, row>>, read' = read \/ read' = row \/ Drop
      PROVE  Layered'
  BY <1>1, <1>7, <1>8
<1>11. ASSUME NEW w \in Worker, Resolve(w) PROVE Layered'
  BY <1>11, <1>8 DEF Resolve, files, config, tx, tables, used
<1>12. ASSUME NEW w \in Worker, Link(w) PROVE Layered'
  BY <1>12, <1>1, <1>7 DEF Link, config, tx, tables, used
<1>13. ASSUME NEW w \in Worker, NEW k \in FileKey, Generate(w, k) PROVE Layered'
  BY <1>13, <1>8 DEF Generate, config, tx, tables, used
<1>14. ASSUME NEW w \in Worker, StartRekey(w) PROVE Layered'
  BY <1>14, <1>5, <1>8 DEF StartRekey, files, config, tables, used
<1>15. ASSUME NEW w \in Worker, CommitRekey(w) PROVE Layered'
  <2>1. holder = [by |-> w, job |-> "vault_rekey"] BY <1>15, Holders DEF CommitRekey, OneRewrite
  <2>2. cache[w] # None BY <2>1, Holders DEF OneRewrite
  <2>3. \A s \in Secret : row'[s].under = <<cache[w]>> \/ row'[s] = row[s]
    BY <1>15, MovedLayers DEF CommitRekey
  <2>4. \A s \in Secret : Once(row'[s], Kept) BY <1>1, <1>6, <2>2, <2>3
  <2>. QED BY <1>15, <1>7, <2>4 DEF CommitRekey, files, config, used
<1>16. ASSUME NEW w \in Worker, SkipRekey(w) PROVE Layered'
  BY <1>16, <1>8 DEF SkipRekey, files, config, tx, tables, used
<1>17. ASSUME NEW w \in Worker, ClickRekey(w) PROVE Layered'
  BY <1>17, <1>5, <1>8 DEF ClickRekey, files, config, tables, used
<1>18. ASSUME NEW w \in Worker, CommitClick(w) PROVE Layered'
  <2>1. holder = [by |-> w, job |-> "click"] BY <1>18 DEF CommitClick
  <2>2. cache[w] # None BY <2>1, Holders DEF OneRewrite
  <2>3. \A s \in Secret : row'[s].under = <<cache[w]>> \/ row'[s] = row[s]
    BY <1>18, MovedLayers DEF CommitClick
  <2>4. \A s \in Secret : Once(row'[s], Kept) BY <1>1, <1>6, <2>2, <2>3
  <2>. QED BY <1>18, <1>7, <2>4 DEF CommitClick, files, config, used
<1>19. ASSUME NEW w \in Worker, ReadMarker(w) PROVE Layered'
  BY <1>19, <1>8 DEF ReadMarker, files, config, tx, tables, used
<1>20. ASSUME NEW w \in Worker, StartMigration(w) PROVE Layered'
  BY <1>20, <1>5, <1>8 DEF StartMigration, files, config, tables, used
<1>21. ASSUME NEW w \in Worker, CommitMigration(w) PROVE Layered'
  <2>1. ASSUME NEW s \in Secret PROVE Once(row'[s], Kept)
    <3>1. row'[s] = row[s] \/ (cache[w] # None /\ row'[s].under = <<cache[w]>>)
      BY <1>21, SealedLayers
    <3>. QED BY <1>1, <1>6, <3>1
  <2>. QED BY <1>21, <1>7, <2>1 DEF CommitMigration, files, config, used
<1>22. ASSUME NEW w \in Worker, SkipMigration(w) PROVE Layered'
  BY <1>22, <1>8 DEF SkipMigration, files, config, tx, tables, used
<1>23. ASSUME NEW w \in Worker, StepRaises(w) PROVE Layered'
  BY <1>23, <1>8 DEF StepRaises, files, config, tx, tables
<1>24. ASSUME NEW w \in Worker, NextPass(w) PROVE Layered'
  BY <1>24, <1>8 DEF NextPass, files, config, tx, tables, used
<1>25. ASSUME NEW w \in Worker, Restart(w) PROVE Layered'
  BY <1>25, <1>8 DEF Restart, files, tx, tables
<1>26. ASSUME NEW w \in Worker, NEW s \in Secret, NEW t \in Text, Save(w, s, t) PROVE Layered'
  <2>1. row'[s].under = <<cache[w]>> /\ \A x \in Secret : x # s => row'[x] = row[x]
    BY <1>26, SavedLayer
  <2>2. cache[w] # None BY <1>26 DEF Save
  <2>3. \A x \in Secret : Once(row'[x], Kept) BY <1>1, <1>6, <2>1, <2>2
  <2>. QED BY <1>26, <1>7, <2>3 DEF Save, files, config, tx
<1>27. ASSUME NEW s \in Secret, NEW t \in Text, OldBuildSaves(s, t) PROVE Layered'
  <2>1. row'[s].under = <<>> /\ \A x \in Secret : x # s => row'[x] = row[x] BY <1>27, OldLayer
  <2>2. \A x \in Secret : Once(row'[x], Kept) BY <1>1, <1>3, <2>1
  <2>. QED BY <1>27, <1>7, <2>2 DEF OldBuildSaves, files, config, tx
<1>28. CASE FileTrouble
  BY <1>28, <1>8 DEF FileTrouble, config, tx, tables
<1>29. ASSUME NEW k \in EnvKey, NEW handOver \in BOOLEAN, Rotate(k, handOver) PROVE Layered'
  <2>1. /\ deploy' = [env |-> k, prev |-> IF handOver THEN Current ELSE None]
        /\ orphaned' = orphaned \cup (IF handOver \/ Current = None THEN {} ELSE {Current})
        /\ Ready /\ rotations' = rotations + 1 /\ UNCHANGED <<row, read>>
    BY <1>29 DEF Rotate, Current, tx, tables
  <2>2. \A w \in Worker : ~ Lags(w) BY <2>1 DEF Ready, Lags
  <2>3. ({Current} \cup orphaned) \ {None} \subseteq Kept'
    <3>1. Current # None => Current \in {deploy'.prev} \cup orphaned' BY <2>1
    <3>2. orphaned \subseteq orphaned' BY <2>1
    <3>. QED BY <3>1, <3>2 DEF Kept
  <2>4. ASSUME NEW s \in Secret PROVE Once(row[s], ({Current} \cup orphaned) \ {None})
    <3>1. CASE deploy.prev = None
      <4>1. Kept \subseteq ({Current} \cup orphaned) \ {None} BY <3>1 DEF Kept
      <4>. QED BY <1>1, <4>1, OnceMore
    <3>2. CASE deploy.prev # None
      <4>1. Once(row[s], {deploy.env} \cup orphaned) BY <2>2, <3>2 DEF YetToMove
      <4>2. rotations > 0 BY <3>2 DEF Behind, TypeOK
      <4>3. deploy.env # None BY <4>2 DEF Behind
      <4>4. None \notin orphaned BY VaultAssumption DEF TypeOK
      <4>5. {deploy.env} \cup orphaned \subseteq ({Current} \cup orphaned) \ {None}
        BY <4>3, <4>4 DEF Current
      <4>. QED BY <4>1, <4>5, OnceMore
    <3>. QED BY <3>1, <3>2
  <2>5. \A s \in Secret : Once(row'[s], Kept') BY <2>1, <2>3, <2>4, OnceMore
  <2>6. rotations' # 0 BY <2>1 DEF TypeOK
  <2>. QED BY <1>1, <2>1, <2>5, <2>6 DEF Layered, Once, Key
<1>30. CASE UNCHANGED vars
  BY <1>30, <1>8 DEF vars, files, config, tx, tables, used
<1>. QED BY <1>11, <1>12, <1>13, <1>14, <1>15, <1>16, <1>17, <1>18, <1>19, <1>20, <1>21, <1>22, <1>23,
            <1>24, <1>25, <1>26, <1>27, <1>28, <1>29, <1>30
         DEF Next

\* A secret under the previous key is still to be moved, by a worker that has not got
\* round to it or by the open move.
LEMMA MoveSteps ==
  ASSUME ~ RotateEarly, VaultInv, RotationInv, [Next]_vars
  PROVE  YetToMove'
<1>. USE DEF VaultInv, RotationInv
<1>. DEFINE Fine(v) == Once(v, {deploy.env} \cup orphaned)
            Left(s, w) == read[s] = row[s] \/ \E u \in Worker \ {w} : Lags(u)
<1>1. deploy.prev # None =>
        \A s \in Secret : ~ Fine(row[s]) =>
          /\ \E w \in Worker : Lags(w)
          /\ \A w \in Worker : at[w] = "moving" /\ env[w] = deploy.env => Left(s, w)
  BY DEF YetToMove
<1>2. /\ at \in [Worker -> Passes] /\ pending \in [Worker -> SUBSET Step]
      /\ env \in [Worker -> EnvKey \cup {None}] /\ prev \in [Worker -> Key \cup {None}]
      /\ row \in [Secret -> Value] /\ rotations \in Nat
  BY DEF TypeOK, Passes
<1>3. deploy.prev # None => deploy.env # None BY <1>2 DEF Behind
\* A worker that goes by the configured key only makes secrets fine.
<1>4. ASSUME deploy.prev # None, NEW w \in Worker, env[w] = deploy.env, cache[w] # None,
             NEW v, v.under = <<cache[w]>>
      PROVE  Fine(v)
  <2>1. cache[w] = deploy.env BY <1>3, <1>4 DEF Behind, Own
  <2>. QED BY <1>4, <2>1 DEF Once
<1>. HIDE DEF Fine
\* Nobody stops lagging, and no open move loses sight of a secret.
<1>5. ASSUME UNCHANGED <<deploy, orphaned>>,
             \A u \in Worker : Lags(u) => Lags(u)',
             \A s \in Secret : row'[s] = row[s] \/ (deploy.prev # None => Fine(row'[s])),
             \A w \in Worker : at'[w] = "moving" =>
               at[w] = "moving" /\ env'[w] = env[w] /\ read' = read
      PROVE  YetToMove'
  <2>2. ASSUME deploy.prev # None, NEW s \in Secret, ~ Once(row'[s], {deploy.env} \cup orphaned)
        PROVE  /\ \E w \in Worker : Lags(w)'
               /\ \A w \in Worker : at'[w] = "moving" /\ env'[w] = deploy.env =>
                    read'[s] = row'[s] \/ \E u \in Worker \ {w} : Lags(u)'
    <3>1. row'[s] = row[s] /\ ~ Fine(row[s]) BY <1>5, <2>2 DEF Fine
    <3>. QED BY <1>1, <1>5, <2>2, <3>1
  <2>. QED BY <1>5, <2>2 DEF YetToMove
<1>6. ASSUME UNCHANGED <<deploy, orphaned, env, pending, row>>,
             \A w \in Worker : at'[w] = "moving" => at[w] = "moving" /\ read' = read
      PROVE  YetToMove'
  <2>1. \A u \in Worker : Lags(u) => Lags(u)' BY <1>6 DEF Lags
  <2>. QED BY <1>5, <1>6, <2>1
\* A rewrite by somebody else is closed: nobody moves.
<1>7. ASSUME NEW w \in Worker, NEW job \in Step \cup {"click"}, holder = [by |-> w, job |-> job],
             job # "vault_rekey", NEW u \in Worker, at[u] = "moving"
      PROVE  FALSE
  <2>1. holder = [by |-> u, job |-> "vault_rekey"] BY <1>7 DEF OneRewrite
  <2>. QED BY <1>7, <2>1
<1>11. ASSUME NEW w \in Worker, Resolve(w) PROVE YetToMove'
  BY <1>11, <1>6 DEF Resolve, config, pass, tx, tables
<1>12. ASSUME NEW w \in Worker, Link(w) PROVE YetToMove'
  BY <1>12, <1>6 DEF Link, config, pass, tx, tables
<1>13. ASSUME NEW w \in Worker, NEW k \in FileKey, Generate(w, k) PROVE YetToMove'
  BY <1>13, <1>6 DEF Generate, config, pass, tx, tables
<1>14. ASSUME NEW w \in Worker, StartRekey(w) PROVE YetToMove'
  <2>1. UNCHANGED <<deploy, orphaned, env, pending, row>> /\ read' = row
    BY <1>14 DEF StartRekey, Take, config, tables
  <2>2. \A u \in Worker : Lags(u)' <=> Lags(u) BY <2>1 DEF Lags
  <2>. QED BY <1>1, <2>1, <2>2 DEF YetToMove, Fine
<1>15. ASSUME NEW w \in Worker, CommitRekey(w) PROVE YetToMove'
  <2>1. /\ at[w] = "moving" /\ Move(cache[w], prev[w]) /\ UNCHANGED <<deploy, orphaned, env>>
        /\ at' = [at EXCEPT ![w] = "read"]
        /\ pending' = [pending EXCEPT ![w] = pending[w] \ {"vault_rekey"}]
    BY <1>15 DEF CommitRekey, config
  <2>2. holder = [by |-> w, job |-> "vault_rekey"] BY <2>1 DEF OneRewrite
  <2>3. cache[w] # None BY <2>2, Holders DEF OneRewrite
  <2>4. \A u \in Worker : at'[u] # "moving"
    <3>1. ASSUME NEW u \in Worker, u # w, at[u] = "moving" PROVE FALSE
      <4>1. holder = [by |-> u, job |-> "vault_rekey"] BY <3>1 DEF OneRewrite
      <4>. QED BY <2>2, <3>1, <4>1
    <3>. QED BY <1>2, <2>1, <3>1
  <2>5. \A u \in Worker : u # w => (Lags(u)' <=> Lags(u)) BY <1>2, <2>1 DEF Lags
  <2>6. ASSUME deploy.prev # None, NEW s \in Secret, ~ Fine(row'[s]) PROVE \E u \in Worker : Lags(u)'
    <3>1. CASE env[w] # deploy.env BY <2>1, <3>1 DEF Lags
    <3>2. CASE env[w] = deploy.env
      <4>1. prev[w] = deploy.prev /\ cache[w] = deploy.env
        BY <1>3, <2>3, <2>6, <3>2 DEF Behind, Own
      <4>2. IF s \in Movable(cache[w], prev[w]) THEN row'[s].under = <<cache[w]>> ELSE row'[s] = row[s]
        BY <2>1, MovedLayers
      <4>3. s \notin Movable(cache[w], prev[w]) /\ row'[s] = row[s] /\ ~ Fine(row[s])
        BY <1>4, <2>3, <2>6, <3>2, <4>2
      <4>4. read[s] # row[s]
        <5>1. Once(row[s], Kept) BY DEF Layered
        <5>2. Kept \subseteq ({deploy.env} \cup orphaned) \cup {deploy.prev} BY <1>3, <2>6 DEF Kept, Current
        <5>3. row[s].under = <<deploy.prev>> BY <4>3, <5>1, <5>2 DEF Once, Fine
        <5>4. row[s].under # <<deploy.env>> BY <4>3 DEF Once, Fine
        <5>5. row[s].under # <<>> BY <4>3 DEF Once, Fine
        <5>6. Opens(deploy.prev, row[s]) BY <5>3, OneKey
        <5>7. ~ Opens(deploy.env, row[s])
          <6>1. Len(<<deploy.prev>>) = 1 /\ <<deploy.prev>>[1] = deploy.prev OBVIOUS
          <6>2. deploy.env # deploy.prev BY <5>3, <5>4
          <6>. QED BY <5>3, <6>1, <6>2 DEF Opens
        <5>8. IsEncrypted(row[s]) BY <5>5 DEF IsEncrypted
        <5>. QED BY <4>1, <4>3, <5>6, <5>7, <5>8 DEF Movable
      <4>5. \E u \in Worker \ {w} : Lags(u) BY <1>1, <2>1, <2>6, <3>2, <4>3, <4>4
      <4>. QED BY <2>5, <4>5
    <3>. QED BY <3>1, <3>2
  <2>. QED BY <2>1, <2>4, <2>6 DEF YetToMove, Fine
<1>16. ASSUME NEW w \in Worker, SkipRekey(w) PROVE YetToMove'
  <2>1. /\ UNCHANGED <<deploy, orphaned, env, row, read>> /\ at' = [at EXCEPT ![w] = "read"]
        /\ pending' = [pending EXCEPT ![w] = pending[w] \ {"vault_rekey"}]
        /\ prev[w] = None \/ "vault_rekey" \notin pending[w]
    BY <1>16 DEF SkipRekey, config, tx, tables
  <2>2. CASE deploy.prev = None BY <2>1, <2>2 DEF YetToMove
  <2>3. CASE deploy.prev # None
    <3>1. Lags(w) => env[w] # deploy.env BY <2>1, <2>3 DEF Behind, Lags
    <3>2. \A u \in Worker : Lags(u) => Lags(u)' BY <1>2, <2>1, <3>1 DEF Lags
    <3>. QED BY <1>2, <1>5, <2>1, <3>2
  <2>. QED BY <2>2, <2>3
<1>17. ASSUME NEW w \in Worker, ClickRekey(w) PROVE YetToMove'
  <2>1. holder = None /\ UNCHANGED <<deploy, orphaned, env, pending, row, at>>
    BY <1>17 DEF ClickRekey, Take, config, pass, tables
  <2>2. \A u \in Worker : at[u] # "moving" BY <2>1, Holders DEF OneRewrite
  <2>. QED BY <1>6, <2>1, <2>2
<1>18. ASSUME NEW w \in Worker, CommitClick(w) PROVE YetToMove'
  <2>1. holder = [by |-> w, job |-> "click"] /\ UNCHANGED <<deploy, orphaned, env, pending, at>>
    BY <1>18 DEF CommitClick, config, pass
  <2>2. cache[w] # None BY <2>1, Holders DEF OneRewrite
  <2>3. \A s \in Secret : row'[s].under = <<cache[w]>> \/ row'[s] = row[s]
    BY <1>18, MovedLayers DEF CommitClick
  <2>4. \A u \in Worker : at'[u] # "moving" BY <1>7, <2>1
  <2>5. \A u \in Worker : Lags(u)' <=> Lags(u) BY <2>1 DEF Lags
  <2>. QED BY <1>1, <1>4, <2>1, <2>2, <2>3, <2>4, <2>5 DEF YetToMove, Fine, Lags
<1>19. ASSUME NEW w \in Worker, ReadMarker(w) PROVE YetToMove'
  BY <1>19, <1>2, <1>6 DEF ReadMarker, config, tx, tables
<1>20. ASSUME NEW w \in Worker, StartMigration(w) PROVE YetToMove'
  <2>1. holder = None /\ UNCHANGED <<deploy, orphaned, env, pending, row>>
        /\ at' = [at EXCEPT ![w] = "sealing"]
    BY <1>20 DEF StartMigration, Take, config, tables
  <2>2. \A u \in Worker : at[u] # "moving" BY <2>1, Holders DEF OneRewrite
  <2>3. \A u \in Worker : at'[u] # "moving" BY <1>2, <2>1, <2>2
  <2>. QED BY <1>6, <2>1, <2>3
<1>21. ASSUME NEW w \in Worker, CommitMigration(w) PROVE YetToMove'
  <2>1. /\ UNCHANGED <<deploy, orphaned, env>> /\ at[w] = "sealing"
        /\ at' = [at EXCEPT ![w] = "idle"]
        /\ pending' = [pending EXCEPT ![w] = pending[w] \ {"vault_plaintext"}]
    BY <1>21 DEF CommitMigration, config
  <2>2. holder = [by |-> w, job |-> "vault_plaintext"] BY <2>1 DEF OneRewrite
  <2>3. \A u \in Worker : at'[u] # "moving" BY <1>2, <1>7, <2>1, <2>2 DEF Step
  <2>4. \A u \in Worker : Lags(u) <=> Lags(u)' BY <1>2, <2>1 DEF Lags
  <2>5. ASSUME deploy.prev # None, NEW s \in Secret, ~ Fine(row'[s]) PROVE \E u \in Worker : Lags(u)
    <3>1. row'[s] = row[s] \/ (cache[w] # None /\ row'[s].under = <<cache[w]>>)
      BY <1>21, SealedLayers
    <3>2. CASE row'[s] = row[s] BY <1>1, <2>5, <3>2
    <3>3. CASE cache[w] # None /\ row'[s].under = <<cache[w]>> BY <1>4, <2>5, <3>3 DEF Lags
    <3>. QED BY <3>1, <3>2, <3>3
  <2>. QED BY <2>1, <2>3, <2>4, <2>5 DEF YetToMove, Fine
<1>22. ASSUME NEW w \in Worker, SkipMigration(w) PROVE YetToMove'
  BY <1>22, <1>2, <1>6 DEF SkipMigration, config, tx, tables
<1>23. ASSUME NEW w \in Worker, StepRaises(w) PROVE YetToMove'
  <2>1. UNCHANGED <<deploy, orphaned, env, pending, row>> BY <1>23 DEF StepRaises, config, tables
  <2>2. CASE at[w] \in {"moving", "sealing"}
    <3>1. \A u \in Worker : u # w => at[u] # "moving" BY <2>2, Holders DEF OneRewrite
    <3>2. \A u \in Worker : at'[u] # "moving" BY <1>2, <1>23, <3>1 DEF StepRaises
    <3>. QED BY <1>6, <2>1, <3>2
  <2>3. CASE at[w] \notin {"moving", "sealing"}
    BY <1>2, <1>6, <1>23, <2>1, <2>3 DEF StepRaises, tx
  <2>. QED BY <2>2, <2>3
<1>24. ASSUME NEW w \in Worker, NextPass(w) PROVE YetToMove'
  BY <1>24, <1>2, <1>6 DEF NextPass, config, tx, tables
<1>25. ASSUME NEW w \in Worker, Restart(w) PROVE YetToMove'
  <2>1. /\ UNCHANGED <<deploy, orphaned, row>> /\ env' = [env EXCEPT ![w] = deploy.env]
        /\ at' = [at EXCEPT ![w] = "rekey"] /\ pending' = [pending EXCEPT ![w] = Step]
        /\ IF holder # None /\ holder.by = w THEN Drop ELSE UNCHANGED tx
    BY <1>25 DEF Restart, tables
  <2>2. \A u \in Worker : u # w => env'[u] = env[u] /\ at'[u] = at[u] /\ pending'[u] = pending[u]
    BY <1>2, <2>1
  <2>3. Lags(w)' BY <1>2, <2>1 DEF Lags, Step
  <2>4. \A u \in Worker : Lags(u) => Lags(u)' BY <2>1, <2>2, <2>3 DEF Lags
  <2>5. ASSUME NEW u \in Worker, at'[u] = "moving" PROVE at[u] = "moving" /\ env'[u] = env[u] /\ read' = read
    <3>1. u # w /\ at[u] = "moving" BY <1>2, <2>1, <2>5
    <3>2. holder = [by |-> u, job |-> "vault_rekey"] BY <3>1 DEF OneRewrite
    <3>3. holder.by # w BY <3>1, <3>2
    <3>. QED BY <2>1, <2>2, <3>1, <3>3 DEF tx
  <2>. QED BY <1>5, <2>1, <2>4, <2>5
<1>26. ASSUME NEW w \in Worker, NEW s \in Secret, NEW t \in Text, Save(w, s, t) PROVE YetToMove'
  <2>1. row'[s].under = <<cache[w]>> /\ \A x \in Secret : x # s => row'[x] = row[x]
    BY <1>26, SavedLayer
  <2>2. cache[w] # None /\ UNCHANGED <<deploy, orphaned, env, pending, at, read>>
    BY <1>26 DEF Save, config, pass, tx
  <2>3. \A u \in Worker : Lags(u) <=> Lags(u)' BY <2>2 DEF Lags
  <2>4. CASE env[w] = deploy.env
    <3>1. deploy.prev # None => Fine(row'[s]) BY <1>4, <2>1, <2>2, <2>4
    <3>. QED BY <1>5, <2>1, <2>2, <2>3, <3>1
  <2>5. CASE env[w] # deploy.env
    <3>1. Lags(w) BY <2>5 DEF Lags
    <3>2. ASSUME deploy.prev # None, NEW x \in Secret, ~ Fine(row'[x]), NEW u \in Worker,
                 at[u] = "moving", env[u] = deploy.env
          PROVE  \/ read[x] = row'[x]
                 \/ \E v \in Worker \ {u} : Lags(v)
      BY <2>5, <3>1, <3>2
    <3>. QED BY <2>2, <2>3, <3>1, <3>2 DEF YetToMove, Fine
  <2>. QED BY <2>4, <2>5
<1>27. ASSUME NEW s \in Secret, NEW t \in Text, OldBuildSaves(s, t) PROVE YetToMove'
  <2>1. rotations = 0 /\ UNCHANGED <<deploy>> BY <1>27 DEF OldBuildSaves, config
  <2>. QED BY <2>1 DEF YetToMove, Behind
<1>28. CASE FileTrouble
  BY <1>28, <1>6 DEF FileTrouble, config, pass, tx, tables
<1>29. ASSUME NEW k \in EnvKey, NEW handOver \in BOOLEAN, Rotate(k, handOver) PROVE YetToMove'
  <2>1. deploy'.env = k /\ k # deploy.env /\ Ready /\ UNCHANGED <<env, pending, at>>
    BY <1>29 DEF Rotate, pass
  <2>2. \A w \in Worker : env[w] = deploy.env /\ pending[w] = {} BY <2>1 DEF Ready
  <2>3. \A w \in Worker : Lags(w)' /\ at'[w] # "moving" BY <2>1, <2>2 DEF Lags, FirstRuns
  <2>. QED BY <2>3, VaultAssumption DEF YetToMove
<1>30. CASE UNCHANGED vars
  BY <1>30, <1>6 DEF vars, config, pass, tx, tables
<1>. QED BY <1>11, <1>12, <1>13, <1>14, <1>15, <1>16, <1>17, <1>18, <1>19, <1>20, <1>21, <1>22, <1>23,
            <1>24, <1>25, <1>26, <1>27, <1>28, <1>29, <1>30
         DEF Next

LEMMA RotationStart == Init => RotationInv
<1>. SUFFICES ASSUME Init PROVE RotationInv OBVIOUS
<1>1. FirstRuns BY DEF Init, FirstRuns, Step
<1>2. deploy.prev = None /\ orphaned = {} /\ rotations = 0 /\ migrated = FALSE BY DEF Init
<1>3. Behind BY <1>2 DEF Init, Behind
<1>4. Layered BY DEF Init, Layered, Once, Plain
<1>5. YetToMove BY <1>2 DEF YetToMove
<1>. QED BY <1>1, <1>3, <1>4, <1>5 DEF RotationInv

\* What the first runs and the moves keep, while no key is changed before every worker
\* has come to work with the one before it.
LEMMA RotationInvariant ==
  ASSUME ~ RotateEarly
  PROVE  Spec => []RotationInv
<1>1. Init => RotationInv BY RotationStart
<1>2. ASSUME VaultInv, RotationInv, [Next]_vars PROVE RotationInv'
  <2>1. FirstRuns' BY <1>2, FirstRunSteps DEF RotationInv
  <2>2. Behind' BY <1>2, BehindSteps
  <2>3. Layered' BY <1>2, LayerSteps
  <2>4. YetToMove' BY <1>2, MoveSteps
  <2>. QED BY <2>1, <2>2, <2>3, <2>4 DEF RotationInv
<1>. QED BY <1>1, <1>2, VaultInvariant, PTL DEF Spec

\* Where an operator waits with the next key until every worker is through with the last
\* one, no run of migrate_plaintext, first or later, encrypts a token once more, whatever
\* fails, restarts and saves come between (vault.py, migrate_plaintext).
THEOREM TokensAreNotSealed ==
  ASSUME ~ RotateEarly
  PROVE  Spec => []EncryptedOnce
<1>1. RotationInv => EncryptedOnce
  <2>1. ASSUME NEW s \in Secret, Once(row[s], Kept) PROVE Len(row[s].under) <= 1
    <3>1. CASE row[s].under = <<>> BY <3>1
    <3>2. ASSUME NEW k \in Kept, row[s].under = <<k>> PROVE Len(row[s].under) <= 1 BY <3>2
    <3>. QED BY <2>1, <3>1, <3>2 DEF Once
  <2>. QED BY <2>1 DEF RotationInv, Layered, EncryptedOnce
<1>. QED BY <1>1, RotationInvariant, PTL

\* And once every worker is through, no secret is left under a key that was handed over
\* (vault.py, rekey): a worker of the old key that saves, stops and comes back makes the
\* move again itself.
THEOREM RotationCompletes ==
  ASSUME ~ RotateEarly
  PROVE  Spec => []RotationReachesAll
<1>1. ASSUME RotationInv PROVE RotationReachesAll
  <2>1. ASSUME Ready, deploy.prev # None, NEW s \in Secret, NEW i \in 1..Len(row[s].under)
        PROVE  row[s].under[i] \in {deploy.env} \cup orphaned
    <3>1. \A w \in Worker : ~ Lags(w) BY <2>1 DEF Ready, Lags
    <3>2. Once(row[s], {deploy.env} \cup orphaned) BY <1>1, <2>1, <3>1 DEF RotationInv, YetToMove
    <3>3. row[s].under # <<>> BY <2>1
    <3>4. PICK k \in {deploy.env} \cup orphaned : row[s].under = <<k>> BY <3>2, <3>3 DEF Once
    <3>5. i = 1 BY <2>1, <3>4
    <3>. QED BY <3>4, <3>5
  <2>. QED BY <2>1 DEF RotationReachesAll
<1>. QED BY <1>1, RotationInvariant, PTL

=============================================================================
