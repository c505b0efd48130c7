-------------------------- MODULE Settings_proofs --------------------------
(* The configuration transactions are atomic changes of the settings on disk;  *)
(* between them the file, the daemon and its client agree; a configuration     *)
(* that refers to the keychain finds its entry there; and the password of the  *)
(* environment is stored nowhere.                                              *)
(*                                                                             *)
(* The argument: the holder of config_transactions is the only task past the   *)
(* wait (Locked); until it commits, live and its snapshot agree with the file  *)
(* (SnapshotIsDisk), so its candidate is the asked change of what is on disk   *)
(* (CandidateIsChange). A candidate that refers to the keychain has its entry  *)
(* filed (CandidateFiled) before it is written.                                *)
EXTENDS Settings, TLAPS

Pcs == Transacting \cup {"idle", "wait", "mirror", "ok", "err"}

PcTyped == pc \in [Tasks -> Pcs]

Locked == \A t \in Tasks : pc[t] \in Transacting => config_transactions = t

AskedTyped ==
    /\ asked \in [Tasks -> Changes \cup {None}]
    /\ \A t \in Tasks : pc[t] # "idle" => asked[t] \in Changes

KeychainTyped ==
    /\ keychain \in [Accounts -> Secrets]
    /\ disk.keyring => disk.values.account \in Accounts

(* Before the commit the live configuration and the snapshot are the file's.   *)
Uncommitted == \A t \in Tasks : pc[t] # "commit"

SnapshotIsDisk ==
    /\ Uncommitted => live.values = disk.values /\ live.keyring = disk.keyring
    /\ \A t \in Tasks : pc[t] \in {"place", "save", "commit"} => before = live
    /\ \A t \in Tasks : pc[t] \in {"commit", "forget"} =>
          candidate.values = disk.values /\ candidate.keyring = disk.keyring

CandidateIsChange ==
    \A t \in Tasks : pc[t] \in {"place", "save"} =>
        /\ pc[t] = "place" => asked[t].op = "server"
        /\ candidate.values = Mutate(asked[t], live.values)
        /\ asked[t].op # "server" => candidate.keyring = live.keyring
                                  /\ candidate.values.account = live.values.account

CandidateFiled ==
    \A t \in Tasks : pc[t] = "save" /\ candidate.keyring =>
        candidate.values.account \in Accounts /\ keychain[candidate.values.account] # None

IInv ==
    /\ PcTyped /\ Locked /\ AskedTyped /\ KeychainTyped
    /\ SnapshotIsDisk /\ CandidateIsChange /\ CandidateFiled
    /\ CredentialIsFiled

-----------------------------------------------------------------------------
LEMMA SwitchTyped ==
    ASSUME NEW c \in Changes, c.op = "server"
    PROVE  c.account \in Accounts /\ c.password \in Passwords
BY DEF Changes, Switches, Toggles, Picks

LEMMA MutateKeepsAccount ==
    ASSUME NEW c, c.op # "server", NEW v
    PROVE  Mutate(c, v).account = v.account
BY DEF Mutate

LEMMA NoneIsNoTask == None \notin Tasks
BY SettingsAssumption

LEMMA NoneIsNoPassword == None \notin Passwords
BY SettingsAssumption

(* Nobody else is inside a transaction.                                        *)
LEMMA OnlyHolder ==
    ASSUME Locked, NEW t \in Tasks, config_transactions = t \/ config_transactions = None,
           NEW u \in Tasks, u # t
    PROVE  pc[u] \notin Transacting
BY NoneIsNoTask DEF Locked

LEMMA InitIInv == Init => IInv
BY DEF Init, IInv, PcTyped, Pcs, Transacting, Locked, AskedTyped, KeychainTyped, Secrets,
       SnapshotIsDisk, Uncommitted, CandidateIsChange, CandidateFiled, CredentialIsFiled,
       load_from_file

(* A step that leaves the shared state alone and moves t outside the lock.     *)
LEMMA OutsideStep ==
    ASSUME IInv, NEW t \in Tasks, pc[t] \notin Transacting,
           NEW x \in Pcs \ Transacting, pc' = [pc EXCEPT ![t] = x],
           asked' \in [Tasks -> Changes \cup {None}],
           \A u \in Tasks \ {t} : asked'[u] = asked[u],
           x # "idle" => asked'[t] \in Changes,
           UNCHANGED <<disk, keychain, live, config_transactions, before, candidate>>
    PROVE  IInv'
<1> USE DEF IInv
<1>1. \A u \in Tasks : pc'[u] \in Transacting => u # t /\ pc[u] = pc'[u] /\ asked'[u] = asked[u]
  BY DEF PcTyped
<1>2. PcTyped' /\ Locked'
  BY <1>1 DEF PcTyped, Locked
<1>3. AskedTyped'
  BY DEF AskedTyped, PcTyped
<1>4. \A u \in Tasks : pc[u] \in Transacting => pc'[u] = pc[u]
  BY DEF PcTyped
<1>5. SnapshotIsDisk'
  BY <1>1, <1>4 DEF SnapshotIsDisk, Uncommitted, Transacting
<1>6. CandidateIsChange' /\ CandidateFiled'
  BY <1>1 DEF CandidateIsChange, CandidateFiled, Transacting
<1>7. KeychainTyped' /\ CredentialIsFiled'
  BY DEF KeychainTyped, CredentialIsFiled
<1> QED BY <1>2, <1>3, <1>5, <1>6, <1>7

(* A step of the holder, or of the task that becomes the holder.               *)
LEMMA HolderStep ==
    ASSUME IInv, NEW t \in Tasks, config_transactions = t \/ config_transactions = None,
           NEW x \in Pcs, pc' = [pc EXCEPT ![t] = x],
           x \in Transacting => config_transactions' = t,
           x # "idle", asked' = asked, pc[t] # "idle"
    PROVE  /\ PcTyped' /\ Locked' /\ AskedTyped'
           /\ asked[t] \in Changes
           /\ pc'[t] = x
           /\ \A u \in Tasks \ {t} : pc'[u] \notin Transacting /\ pc[u] \notin Transacting
<1> USE DEF IInv
<1>1. pc'[t] = x /\ \A u \in Tasks \ {t} : pc'[u] = pc[u]
  BY DEF PcTyped
<1>2. \A u \in Tasks \ {t} : pc[u] \notin Transacting
  BY OnlyHolder
<1>3. PcTyped'
  BY DEF PcTyped
<1>4. Locked'
  BY <1>1, <1>2 DEF Locked
<1>5. AskedTyped'
  BY <1>1 DEF AskedTyped
<1> QED BY <1>1, <1>2, <1>3, <1>4, <1>5 DEF AskedTyped

LEMMA BeginStep == ASSUME IInv, NEW t \in Tasks, Begin(t) PROVE IInv'
<1> DEFINE x == IF asked[t].op = "server" THEN "place" ELSE "save"
<1>1. /\ pc[t] = "wait" /\ pc' = [pc EXCEPT ![t] = x]
      /\ config_transactions = None /\ config_transactions' = t
      /\ asked' = asked /\ before' = live
      /\ UNCHANGED <<disk, keychain, live>>
      /\ candidate'.values = Mutate(asked[t], live.values)
      /\ candidate'.keyring = live.keyring
  BY DEF Begin, Goto, stores
<1>2. x \in {"place", "save"} /\ x \in Pcs /\ x \in Transacting /\ x # "idle"
  BY DEF Pcs, Transacting
<1>3. /\ PcTyped' /\ Locked' /\ AskedTyped'
      /\ asked[t] \in Changes /\ pc'[t] = x
      /\ \A u \in Tasks \ {t} : pc'[u] \notin Transacting /\ pc[u] \notin Transacting
  <2> HIDE DEF x
  <2> QED BY <1>1, <1>2, HolderStep
<1>4. Uncommitted /\ Uncommitted'
  BY <1>1, <1>2, <1>3 DEF Uncommitted, Transacting
<1>5. live.values = disk.values /\ live.keyring = disk.keyring
  BY <1>4 DEF IInv, SnapshotIsDisk
<1>6. SnapshotIsDisk'
  BY <1>1, <1>2, <1>3, <1>4, <1>5 DEF SnapshotIsDisk, Transacting
<1>7. CandidateIsChange'
  BY <1>1, <1>2, <1>3, MutateKeepsAccount DEF CandidateIsChange, Transacting
<1>8. CandidateFiled'
  <2>1. CASE asked[t].op = "server"
    BY <2>1, <1>3 DEF CandidateFiled, Transacting
  <2>2. CASE asked[t].op # "server"
    <3>1. candidate'.values.account = disk.values.account
      BY <2>2, <1>1, <1>5, MutateKeepsAccount
    <3> QED BY <3>1, <1>1, <1>3, <1>5 DEF IInv, KeychainTyped, CandidateFiled, CredentialIsFiled, Transacting
  <2> QED BY <2>1, <2>2
<1>9. KeychainTyped' /\ CredentialIsFiled'
  BY <1>1 DEF IInv, KeychainTyped, CredentialIsFiled
<1> QED BY <1>3, <1>6, <1>7, <1>8, <1>9 DEF IInv

(* The four ways of putting the password away.                                 *)
LEMMA PlacedStep ==
    ASSUME IInv, NEW t \in Tasks, pc[t] = "place", NEW k, NEW p, Placed(t, k, p),
           KeychainTyped', disk.keyring => keychain'[disk.values.account] # None,
           k => candidate.values.account \in Accounts /\ keychain'[candidate.values.account] # None,
           asked[t].op = "server"
    PROVE  IInv'
<1>1. config_transactions = t
  BY DEF IInv, Locked, Transacting
<1>2. /\ pc' = [pc EXCEPT ![t] = "save"] /\ config_transactions' = t
      /\ UNCHANGED <<disk, live, before, asked>>
      /\ candidate'.values = candidate.values /\ candidate'.keyring = k
  BY <1>1 DEF Placed, Goto
<1>3. /\ PcTyped' /\ Locked' /\ AskedTyped'
      /\ asked[t] \in Changes /\ pc'[t] = "save"
      /\ \A u \in Tasks \ {t} : pc'[u] \notin Transacting /\ pc[u] \notin Transacting
  BY <1>1, <1>2, HolderStep DEF Pcs, Transacting
<1>4. SnapshotIsDisk'
  BY <1>2, <1>3 DEF IInv, SnapshotIsDisk, Uncommitted, Transacting
<1>5. CandidateIsChange'
  BY <1>2, <1>3 DEF IInv, CandidateIsChange, Transacting
<1>6. CandidateFiled'
  BY <1>2, <1>3 DEF CandidateFiled, Transacting
<1>7. CredentialIsFiled'
  BY <1>2 DEF CredentialIsFiled
<1> QED BY <1>3, <1>4, <1>5, <1>6, <1>7 DEF IInv

(* The end of a transaction, or a step in it that no other task can see.       *)
LEMMA RestStep ==
    ASSUME IInv, NEW t \in Tasks, pc[t] \in {"place", "save", "forget", "swap"},
           NEW x \in {"swap", "ok", "err"}, pc' = [pc EXCEPT ![t] = x],
           IF x = "swap" THEN config_transactions' = t ELSE config_transactions' = None,
           UNCHANGED <<disk, live, asked>>,
           KeychainTyped', disk.keyring => keychain'[disk.values.account] # None
    PROVE  IInv'
<1>1. config_transactions = t
  BY DEF IInv, Locked, Transacting
<1>2. /\ PcTyped' /\ Locked' /\ AskedTyped'
      /\ asked[t] \in Changes /\ pc'[t] = x
      /\ \A u \in Tasks \ {t} : pc'[u] \notin Transacting /\ pc[u] \notin Transacting
  BY <1>1, HolderStep DEF Pcs, Transacting
<1>3. SnapshotIsDisk'
  BY <1>2 DEF IInv, SnapshotIsDisk, Uncommitted, Transacting
<1>4. CandidateIsChange' /\ CandidateFiled'
  BY <1>2 DEF CandidateIsChange, CandidateFiled, Transacting
<1>5. CredentialIsFiled'
  BY DEF CredentialIsFiled
<1> QED BY <1>2, <1>3, <1>4, <1>5 DEF IInv

LEMMA SaveStep == ASSUME IInv, NEW t \in Tasks, save_default(t) PROVE IInv'
<1>1. /\ pc[t] = "save" /\ pc' = [pc EXCEPT ![t] = "commit"]
      /\ config_transactions = t /\ config_transactions' = t
      /\ UNCHANGED <<keychain, live, before, candidate, asked>>
      /\ disk'.values = candidate.values /\ disk'.keyring = candidate.keyring
  BY DEF IInv, Locked, Transacting, save_default, Goto, stores, as_on_disk
<1>2. /\ PcTyped' /\ Locked' /\ AskedTyped' /\ pc'[t] = "commit"
      /\ \A u \in Tasks \ {t} : pc'[u] \notin Transacting /\ pc[u] \notin Transacting
  BY <1>1, HolderStep DEF Pcs, Transacting
<1>3. SnapshotIsDisk'
  BY <1>1, <1>2 DEF IInv, SnapshotIsDisk, Uncommitted, Transacting
<1>4. CandidateIsChange' /\ CandidateFiled'
  BY <1>2 DEF CandidateIsChange, CandidateFiled, Transacting
<1>5. KeychainTyped' /\ CredentialIsFiled'
  BY <1>1 DEF IInv, KeychainTyped, CandidateFiled, CredentialIsFiled
<1> QED BY <1>2, <1>3, <1>4, <1>5 DEF IInv

LEMMA CommitStep == ASSUME IInv, NEW t \in Tasks, Commit(t) PROVE IInv'
<1> DEFINE x == IF asked[t].op = "offline_cache" THEN "mirror"
                ELSE IF asked[t].op = "server" THEN "forget" ELSE "swap"
<1>1. /\ pc[t] = "commit" /\ pc' = [pc EXCEPT ![t] = x]
      /\ config_transactions = t
      /\ x = "mirror" \/ (config_transactions' = t /\ UNCHANGED candidate)
      /\ UNCHANGED <<disk, keychain, asked>>
      /\ live'.values = candidate.values /\ live'.keyring = candidate.keyring
  BY DEF IInv, Locked, Transacting, Commit, Committed, stores
<1>2. x \in Pcs /\ (x \in Transacting => x # "mirror") /\ x \notin {"idle", "place", "save", "commit"}
  BY DEF Pcs, Transacting
<1>3. /\ PcTyped' /\ Locked' /\ AskedTyped' /\ pc'[t] = x
      /\ \A u \in Tasks \ {t} : pc'[u] \notin Transacting /\ pc[u] \notin Transacting
  <2> HIDE DEF x
  <2> QED BY <1>1, <1>2, HolderStep DEF Transacting
<1>4. candidate.values = disk.values /\ candidate.keyring = disk.keyring
  BY <1>1 DEF IInv, SnapshotIsDisk
<1>5. SnapshotIsDisk'
  <2> HIDE DEF x
  <2>1. \A u \in Tasks : pc'[u] \notin {"place", "save", "commit"}
    BY <1>2, <1>3 DEF Transacting
  <2>2. \A u \in Tasks : pc'[u] = "forget" => u = t /\ x = "forget"
    BY <1>3 DEF Transacting
  <2> QED BY <1>1, <1>4, <2>1, <2>2 DEF SnapshotIsDisk
<1>6. CandidateIsChange' /\ CandidateFiled'
  <2> HIDE DEF x
  <2> QED BY <1>2, <1>3 DEF CandidateIsChange, CandidateFiled, Transacting
<1>7. KeychainTyped' /\ CredentialIsFiled'
  BY <1>1 DEF IInv, KeychainTyped, CredentialIsFiled
<1> QED BY <1>3, <1>5, <1>6, <1>7 DEF IInv

LEMMA RestartStep == ASSUME IInv, Restart PROVE IInv'
<1>1. /\ pc' = [t \in Tasks |-> "idle"] /\ asked' = [t \in Tasks |-> None]
      /\ UNCHANGED <<disk, keychain>>
      /\ live'.values = disk.values /\ live'.keyring = disk.keyring
  BY DEF Restart, stores, load_from_file
<1>2. PcTyped' /\ Locked' /\ AskedTyped'
  BY <1>1 DEF PcTyped, Pcs, Locked, Transacting, AskedTyped
<1>3. SnapshotIsDisk' /\ CandidateIsChange' /\ CandidateFiled'
  BY <1>1 DEF SnapshotIsDisk, CandidateIsChange, CandidateFiled
<1>4. KeychainTyped' /\ CredentialIsFiled'
  BY <1>1 DEF IInv, KeychainTyped, CredentialIsFiled
<1> QED BY <1>2, <1>3, <1>4 DEF IInv

LEMMA TaskStepIInv == ASSUME IInv, NEW t \in Tasks, TaskStep(t) PROVE IInv'
<1> USE DEF stores
<1>1. CASE Request(t)
  BY <1>1, OutsideStep DEF Request, Goto, IInv, AskedTyped, Pcs, Transacting
<1>2. CASE refresh_music_folders(t)
  <2>1. asked'[t] \in Changes
    BY <1>2, SettingsAssumption DEF refresh_music_folders, Changes, Picks, IInv, AskedTyped
  <2> QED BY <1>2, <2>1, OutsideStep
          DEF refresh_music_folders, Goto, IInv, AskedTyped, Pcs, Transacting
<1>3. CASE Begin(t)
  BY <1>3, BeginStep
<1>4. CASE Reject(t)
  BY <1>4, RestStep DEF Reject, Goto, Unlock, IInv, KeychainTyped, CredentialIsFiled
<1>5. CASE PlaceNowhere(t)
  <2>1. pc[t] = "place" /\ asked[t].op = "server"
    BY <1>5 DEF PlaceNowhere, Placed, Goto, IInv, CandidateIsChange
  <2> QED BY <1>5, <2>1, PlacedStep DEF PlaceNowhere, Placed, IInv, KeychainTyped, CredentialIsFiled
<1>6. CASE write_password_file_atomic(t)
  <2>1. pc[t] = "place" /\ asked[t].op = "server"
    BY <1>6 DEF write_password_file_atomic, Placed, Goto, IInv, CandidateIsChange
  <2> QED BY <1>6, <2>1, PlacedStep
          DEF write_password_file_atomic, Placed, IInv, KeychainTyped, CredentialIsFiled
<1>7. CASE store(t)
  <2>1. /\ pc[t] = "place" /\ asked[t].op = "server" /\ asked[t] \in Changes
        /\ candidate.values = Mutate(asked[t], live.values)
        /\ keychain' = [keychain EXCEPT ![asked[t].account] = asked[t].password]
        /\ Placed(t, TRUE, None)
    BY <1>7 DEF store, Placed, Goto, IInv, CandidateIsChange, AskedTyped
  <2>2. asked[t].account \in Accounts /\ asked[t].password \in Passwords
    BY <2>1, SwitchTyped
  <2>3. asked[t].password # None /\ asked[t].password \in Secrets
    BY <2>2, NoneIsNoPassword DEF Secrets
  <2>4. KeychainTyped'
    BY <2>1, <2>2, <2>3 DEF Placed, IInv, KeychainTyped
  <2>5. candidate.values.account = asked[t].account
    BY <2>1 DEF Mutate
  <2>6. candidate.values.account \in Accounts /\ keychain'[candidate.values.account] # None
    BY <2>1, <2>2, <2>3, <2>5 DEF IInv, KeychainTyped
  <2>7. disk.keyring => keychain'[disk.values.account] # None
    BY <2>1, <2>2, <2>3 DEF IInv, KeychainTyped, CredentialIsFiled
  <2> QED BY <2>1, <2>4, <2>6, <2>7, PlacedStep
<1>8. CASE KeychainUnavailable(t)
  <2>1. pc[t] = "place" /\ asked[t].op = "server"
    BY <1>8 DEF KeychainUnavailable, IInv, CandidateIsChange
  <2> QED BY <1>8, <2>1, PlacedStep DEF KeychainUnavailable, Placed, IInv, KeychainTyped, CredentialIsFiled
<1>9. CASE save_default(t)
  BY <1>9, SaveStep
<1>10. CASE SaveFails(t)
  <2>1. pc[t] = "save" /\ config_transactions = t
    BY <1>10 DEF SaveFails, Goto, Unlock
  <2>2. Uncommitted
    BY <2>1, OnlyHolder DEF IInv, Uncommitted, Transacting
  <2>3. before.values = disk.values
    BY <2>1, <2>2 DEF IInv, SnapshotIsDisk
  <2>4. KeychainTyped' /\ (disk.keyring => keychain'[disk.values.account] # None)
    BY <1>10, <2>3 DEF SaveFails, Orphaned, IInv, KeychainTyped, CredentialIsFiled, Secrets
  <2> QED BY <1>10, <2>4, RestStep DEF SaveFails, Goto, Unlock
<1>11. CASE Commit(t)
  BY <1>11, CommitStep
<1>12. CASE ForgetOldEntry(t)
  <2>1. pc[t] = "forget"
    BY <1>12 DEF ForgetOldEntry, Goto
  <2>2. candidate.values = disk.values /\ candidate.keyring = disk.keyring
    BY <2>1 DEF IInv, SnapshotIsDisk
  <2>3. KeychainTyped' /\ (disk.keyring => keychain'[disk.values.account] # None)
    BY <1>12, <2>2 DEF ForgetOldEntry, Superseded, IInv, KeychainTyped, CredentialIsFiled, Secrets
  <2>4. config_transactions = t /\ config_transactions' = t
    BY <1>12, <2>1 DEF ForgetOldEntry, IInv, Locked, Transacting
  <2> QED BY <1>12, <2>3, <2>4, RestStep DEF ForgetOldEntry, Goto
<1>13. CASE SwapClient(t)
  BY <1>13, RestStep DEF SwapClient, Goto, Unlock, IInv, KeychainTyped, CredentialIsFiled
<1>14. CASE StoreCopy(t)
  BY <1>14, OutsideStep DEF StoreCopy, Goto, IInv, AskedTyped, Pcs, Transacting
<1>15. CASE Reply(t)
  BY <1>15, OutsideStep DEF Reply, IInv, AskedTyped, Pcs, Transacting
<1> QED BY <1>1, <1>2, <1>3, <1>4, <1>5, <1>6, <1>7, <1>8, <1>9, <1>10, <1>11, <1>12,
           <1>13, <1>14, <1>15 DEF TaskStep

LEMMA StepIInv == IInv /\ [Next]_vars => IInv'
<1> SUFFICES ASSUME IInv, [Next]_vars PROVE IInv'
  OBVIOUS
<1>1. CASE UNCHANGED vars
  BY <1>1 DEF vars, IInv, PcTyped, Locked, AskedTyped, KeychainTyped, SnapshotIsDisk,
              Uncommitted, CandidateIsChange, CandidateFiled, CredentialIsFiled
<1> QED BY <1>1, TaskStepIInv, RestartStep DEF Next

LEMMA InductiveInvariant == Spec => []IInv
BY InitIInv, StepIInv, PTL DEF Spec

(* Whenever the daemon may be killed, a configuration that refers to the       *)
(* keychain finds a password there: storing and removing entries is ordered    *)
(* around the save as update_server_config orders it.                          *)
THEOREM CredentialAlwaysFiled == Spec => []CredentialIsFiled
<1>1. IInv => CredentialIsFiled
  BY DEF IInv
<1> QED BY <1>1, InductiveInvariant, PTL

-----------------------------------------------------------------------------
(* Types. The snapshot and the candidate are configurations while their        *)
(* transaction lasts; only a switch of the cache is copied to the atomic.       *)
Snapshots ==
    \A t \in Tasks :
        /\ pc[t] \in Transacting => before \in Configs /\ candidate \in Configs
        /\ pc[t] = "mirror" => asked[t].op = "offline_cache"

Typed == TypeOK /\ Snapshots

LEMMA NoneIsNoClient == None \notin Clients
BY SettingsAssumption

LEMMA MutateTyped ==
    ASSUME NEW c \in Changes, NEW v \in Values PROVE Mutate(c, v) \in Values
BY DEF Changes, Switches, Toggles, Picks, Mutate, Values

LEMMA LoadTyped ==
    ASSUME Typed, NEW d \in OnDiskConfigs, d.keyring => d.values.account \in Accounts,
           NEW env \in {EnvPassword, None}, NEW readable \in BOOLEAN
    PROVE  load_from_file(d, env, readable) \in Configs
<1>1. resolve_password(d, env, readable) \in Secrets
  BY DEF resolve_password, Typed, TypeOK, OnDiskConfigs, Secrets
<1> QED BY <1>1 DEF load_from_file, Configs, OnDiskConfigs

LEMMA ClientTyped == ASSUME NEW c \in Configs PROVE client_of(c) \in Clients \cup {None}
BY DEF client_of, Clients, Configs, Values, Secrets

LEMMA InitTyped == Init => Typed
<1> SUFFICES ASSUME Init PROVE Typed
  OBVIOUS
<1>1. Default \in Values /\ None \in Secrets
  BY DEF Default, Values, Secrets
<1>2. disk \in OnDiskConfigs /\ ~disk.keyring
  BY <1>1 DEF Init, OnDiskConfigs
<1>3. live \in Configs
  <2>1. PICK env \in {EnvPassword, None}, readable \in BOOLEAN :
          live = load_from_file(disk, env, readable)
    BY DEF Init
  <2>2. resolve_password(disk, env, readable) \in Secrets
    BY <1>1, <1>2 DEF resolve_password, Init, OnDiskConfigs, Secrets
  <2> QED BY <1>2, <2>1, <2>2 DEF load_from_file, Configs, OnDiskConfigs
<1> QED BY <1>1, <1>2, <1>3 DEF Init, Typed, TypeOK, Snapshots, Transacting

(* What the holder of the lock does keeps the types if what it writes does.    *)
LEMMA TypedStep ==
    ASSUME IInv, IInv', Typed, NEW t \in Tasks, pc[t] \in Transacting \/ before' \in Configs,
           config_transactions = t \/ config_transactions = None,
           config_transactions' \in {t, None},
           \/ config_transactions' = None /\ before' = None /\ candidate' = None
              /\ pc'[t] \notin Transacting
           \/ before' \in Configs /\ candidate' \in Configs,
           \A u \in Tasks \ {t} : pc'[u] = pc[u],
           pc'[t] = "mirror" => asked[t].op = "offline_cache",
           UNCHANGED <<source, asked>>,
           disk' \in OnDiskConfigs, keychain' \in [Accounts -> Secrets],
           password_file' \in Secrets, live' \in Configs,
           subsonic' \in Clients \cup {None}, UNCHANGED offline_cache_enabled
    PROVE  Typed'
<1>1. \A u \in Tasks \ {t} : pc'[u] \notin Transacting
  BY OnlyHolder DEF IInv
<1>2. Snapshots'
  BY <1>1 DEF Typed, Snapshots
<1>3. before' \in Configs \cup {None} /\ candidate' \in Configs \cup {None}
  OBVIOUS
<1>4. config_transactions' \in Tasks \cup {None}
  OBVIOUS
<1>5. TypeOK'
  BY <1>3, <1>4 DEF IInv, PcTyped, Pcs, Locked, AskedTyped, Typed, TypeOK
<1> QED BY <1>2, <1>5 DEF Typed

LEMMA TypedOutside ==
    ASSUME IInv, IInv', Typed, NEW t \in Tasks, pc'[t] \notin Transacting \cup {"mirror"},
           \A u \in Tasks \ {t} : pc'[u] = pc[u] /\ asked'[u] = asked[u],
           UNCHANGED <<source, disk, keychain, password_file, live, subsonic,
                       config_transactions, before, candidate>>,
           offline_cache_enabled' \in BOOLEAN
    PROVE  Typed'
<1>1. Snapshots'
  BY DEF Typed, Snapshots
<1>2. TypeOK'
  BY DEF IInv, PcTyped, Pcs, Locked, AskedTyped, Typed, TypeOK
<1> QED BY <1>1, <1>2 DEF Typed

(* Where the password is put, and the candidate that says so.                  *)
LEMMA PlacedTyped ==
    ASSUME IInv, IInv', Typed, NEW t \in Tasks, NEW k \in BOOLEAN, NEW p \in Secrets,
           Placed(t, k, p), keychain' \in [Accounts -> Secrets], password_file' \in Secrets
    PROVE  Typed'
<1>1. pc[t] = "place" /\ config_transactions = t /\ pc[t] \in Transacting
  BY DEF Placed, Goto, IInv, Locked, Transacting
<1>2. before \in Configs /\ candidate \in Configs
  BY <1>1 DEF Typed, Snapshots
<1>3. candidate' \in Configs
  BY <1>2 DEF Placed, Configs
<1> QED BY <1>1, <1>2, <1>3, TypedStep DEF Placed, Goto, IInv, PcTyped, Typed, TypeOK

LEMMA BeginTyped == ASSUME IInv, IInv', Typed, NEW t \in Tasks, Begin(t) PROVE Typed'
<1>1. asked[t] \in Changes
  BY DEF Begin, Goto, IInv, AskedTyped
<1>2. live \in Configs /\ live.values \in Values
  BY DEF Typed, TypeOK, Configs
<1>3. Mutate(asked[t], live.values) \in Values
  BY <1>1, <1>2, MutateTyped
<1>4. candidate' \in Configs
  BY <1>2, <1>3 DEF Begin, Configs
<1>5. \A u \in Tasks \ {t} : pc'[u] = pc[u]
  BY DEF Begin, Goto, IInv, PcTyped
<1>6. pc'[t] # "mirror"
  BY DEF Begin, Goto, IInv, PcTyped
<1> QED BY <1>2, <1>4, <1>5, <1>6, TypedStep DEF Begin, Typed, TypeOK, stores

LEMMA TaskStepTyped == ASSUME IInv, IInv', Typed, NEW t \in Tasks, TaskStep(t) PROVE Typed'
<1> USE DEF stores, Goto
<1>0. /\ pc \in [Tasks -> Pcs] /\ keychain \in [Accounts -> Secrets]
      /\ disk \in OnDiskConfigs /\ password_file \in Secrets /\ live \in Configs
      /\ subsonic \in Clients \cup {None} /\ offline_cache_enabled \in BOOLEAN
      /\ asked \in [Tasks -> Changes \cup {None}]
  BY DEF IInv, PcTyped, AskedTyped, Typed, TypeOK
<1>h. ASSUME pc[t] \in Transacting
      PROVE  /\ config_transactions = t /\ before \in Configs /\ candidate \in Configs
             /\ asked[t] \in Changes
  BY <1>h DEF IInv, Locked, Typed, Snapshots, AskedTyped, Transacting
<1>n. None \in Secrets
  BY DEF Secrets
<1>p. ASSUME pc[t] = "place" PROVE asked[t].account \in Accounts /\ asked[t].password \in Secrets
  <2>1. asked[t].op = "server" /\ asked[t] \in Changes
    BY <1>p, <1>h DEF IInv, CandidateIsChange, Transacting
  <2> QED BY <2>1, SwitchTyped DEF Secrets
<1>1. CASE Request(t)
  BY <1>0, <1>1, TypedOutside DEF Request, Transacting
<1>2. CASE refresh_music_folders(t)
  BY <1>0, <1>2, TypedOutside DEF refresh_music_folders, Transacting
<1>3. CASE Begin(t)
  BY <1>3, BeginTyped
<1>4. CASE Reject(t)
  BY <1>0, <1>4, <1>h, TypedStep DEF Reject, Unlock, Transacting
<1>5. CASE PlaceNowhere(t)
  BY <1>0, <1>5, <1>n, PlacedTyped DEF PlaceNowhere
<1>6. CASE write_password_file_atomic(t)
  <2>1. pc[t] = "place"
    BY <1>6 DEF write_password_file_atomic, Placed
  <2> QED BY <1>0, <1>6, <1>n, <1>p, <2>1, PlacedTyped DEF write_password_file_atomic
<1>7. CASE store(t)
  <2>1. pc[t] = "place"
    BY <1>7 DEF store, Placed
  <2>2. keychain' \in [Accounts -> Secrets]
    BY <1>0, <1>7, <1>p, <2>1 DEF store
  <2> QED BY <1>0, <1>7, <1>n, <2>2, PlacedTyped DEF store
<1>8. CASE KeychainUnavailable(t)
  BY <1>0, <1>8, <1>p, PlacedTyped DEF KeychainUnavailable
<1>9. CASE save_default(t)
  <2>1. pc[t] \in Transacting /\ pc'[t] \in Transacting /\ \A u \in Tasks \ {t} : pc'[u] = pc[u]
    BY <1>0, <1>9 DEF save_default, Transacting
  <2>2. disk' \in OnDiskConfigs
    BY <1>9, <1>h, <1>n, <2>1 DEF save_default, as_on_disk, Configs, OnDiskConfigs
  <2> QED BY <1>0, <1>9, <1>h, <2>1, <2>2, TypedStep DEF save_default
<1>10. CASE SaveFails(t)
  <2>1. pc[t] \in Transacting /\ pc'[t] \notin Transacting /\ \A u \in Tasks \ {t} : pc'[u] = pc[u]
    BY <1>0, <1>10 DEF SaveFails, Transacting
  <2>2. keychain' \in [Accounts -> Secrets]
    BY <1>0, <1>10, <1>n DEF SaveFails
  <2> QED BY <1>0, <1>10, <1>h, <2>1, <2>2, TypedStep DEF SaveFails, Unlock
<1>11. CASE Commit(t)
  <2>1. pc[t] \in Transacting /\ \A u \in Tasks \ {t} : pc'[u] = pc[u]
    BY <1>0, <1>11 DEF Commit, Transacting
  <2>2. asked[t].op = "server" => asked[t].password \in Secrets
    BY <1>h, <2>1, SwitchTyped DEF Secrets
  <2>3. live' \in Configs
    BY <1>11, <1>h, <2>1, <2>2 DEF Commit, Committed, Configs
  <2>4. CASE asked[t].op = "offline_cache"
    <3>1. pc'[t] \notin Transacting
      BY <1>0, <1>11, <2>4 DEF Commit, Transacting
    <3> QED BY <1>0, <1>11, <1>h, <2>1, <2>3, <2>4, <3>1, TypedStep DEF Commit, Unlock
  <2>5. CASE asked[t].op # "offline_cache"
    BY <1>0, <1>11, <1>h, <2>1, <2>3, <2>5, TypedStep DEF Commit
  <2> QED BY <2>4, <2>5
<1>12. CASE ForgetOldEntry(t)
  <2>1. pc[t] \in Transacting /\ \A u \in Tasks \ {t} : pc'[u] = pc[u]
    BY <1>0, <1>12 DEF ForgetOldEntry, Transacting
  <2>2. keychain' \in [Accounts -> Secrets]
    BY <1>0, <1>12, <1>n DEF ForgetOldEntry
  <2> QED BY <1>0, <1>12, <1>h, <2>1, <2>2, TypedStep DEF ForgetOldEntry
<1>13. CASE SwapClient(t)
  <2>1. pc[t] \in Transacting /\ pc'[t] \notin Transacting /\ \A u \in Tasks \ {t} : pc'[u] = pc[u]
    BY <1>0, <1>13 DEF SwapClient, Transacting
  <2>2. subsonic' \in Clients \cup {None}
    <3>1. CASE asked[t].op = "server"
      <4>1. asked[t].account \in Accounts /\ asked[t].password \in Passwords
        BY <1>h, <2>1, <3>1, SwitchTyped
      <4>2. before.values.music_folder_id \in Folders \cup {None}
        BY <1>h, <2>1 DEF Configs, Values
      <4> QED BY <1>13, <3>1, <4>1, <4>2 DEF SwapClient, Clients
    <3>2. CASE asked[t].op = "folder" /\ subsonic # None
      <4>1. asked[t].id \in Folders \cup {None}
        BY <1>h, <2>1, <3>2 DEF Changes, Switches, Toggles, Picks
      <4> QED BY <1>0, <1>13, <3>2, <4>1 DEF SwapClient, Clients
    <3>3. CASE asked[t].op # "server" /\ ~(asked[t].op = "folder" /\ subsonic # None)
      BY <1>0, <1>13, <3>3 DEF SwapClient
    <3> QED BY <3>1, <3>2, <3>3
  <2> QED BY <1>0, <1>13, <1>h, <2>1, <2>2, TypedStep DEF SwapClient, Unlock
<1>14. CASE StoreCopy(t)
  <2>1. asked[t].on \in BOOLEAN
    BY <1>14 DEF StoreCopy, Typed, Snapshots, IInv, AskedTyped, Changes, Switches, Toggles, Picks
  <2> QED BY <1>0, <1>14, <2>1, TypedOutside DEF StoreCopy, Transacting
<1>15. CASE Reply(t)
  BY <1>0, <1>15, TypedOutside DEF Reply, Transacting
<1> QED BY <1>1, <1>2, <1>3, <1>4, <1>5, <1>6, <1>7, <1>8, <1>9, <1>10, <1>11, <1>12,
           <1>13, <1>14, <1>15 DEF TaskStep

LEMMA RestartTyped == ASSUME IInv, IInv', Typed, Restart PROVE Typed'
<1> USE DEF stores
<1>1. disk \in OnDiskConfigs /\ (disk.keyring => disk.values.account \in Accounts)
  BY DEF IInv, KeychainTyped, Typed, TypeOK
<1>2. live' \in Configs
  BY <1>1, LoadTyped DEF Restart
<1>3. subsonic' \in Clients \cup {None}
  BY <1>2, ClientTyped DEF Restart
<1>4. offline_cache_enabled' \in BOOLEAN
  BY <1>1 DEF Restart, OnDiskConfigs, Values
<1>5. Snapshots'
  BY DEF Restart, Snapshots, Transacting
<1>6. /\ UNCHANGED <<source, disk, keychain, password_file>>
      /\ config_transactions' = None /\ before' = None /\ candidate' = None
  BY DEF Restart
<1>7. TypeOK'
  BY <1>2, <1>3, <1>4, <1>6 DEF IInv, PcTyped, Pcs, Locked, AskedTyped, Typed, TypeOK
<1> QED BY <1>5, <1>7 DEF Typed

LEMMA StepTyped == IInv /\ IInv' /\ Typed /\ [Next]_vars => Typed'
<1> SUFFICES ASSUME IInv, IInv', Typed, [Next]_vars PROVE Typed'
  OBVIOUS
<1>1. CASE UNCHANGED vars
  BY <1>1 DEF vars, Typed, TypeOK, Snapshots
<1> QED BY <1>1, TaskStepTyped, RestartTyped DEF Next

(* The settings are well typed, and a task that has got past the wait holds    *)
(* the lock.                                                                   *)
THEOREM TypeCorrect == Spec => []TypeOK
<1>1. Typed => TypeOK
  BY DEF Typed
<1> QED BY <1>1, InitTyped, StepTyped, InductiveInvariant, PTL DEF Spec

-----------------------------------------------------------------------------
(* The second part of the argument. The file is what as_on_disk makes of the   *)
(* configuration the daemon believes (DiskFollows); the client is the one of   *)
(* the configuration until a transaction has committed and not yet swapped it  *)
(* (ClientFollows); and a password that came from the variable is marked       *)
(* from_env wherever it could be written to the file (EnvMarked).              *)
Unswapped == \A t \in Tasks : pc[t] \notin {"forget", "swap"}

CandidateSound ==
    \A t \in Tasks : pc[t] \in {"place", "save", "commit"} =>
        /\ candidate.values = Mutate(asked[t], before.values)
        /\ asked[t].op = "server" =>
              /\ ~candidate.from_env
              /\ \/ pc[t] = "place" \/ source # "none" \/ candidate.keyring
                 \/ candidate.password = asked[t].password
        /\ asked[t].op # "server" =>
              candidate.password = before.password /\ candidate.from_env = before.from_env

ExternalIsHidden == source # "none" \/ disk.keyring => disk.password = None

DiskFollows ==
    /\ Uncommitted => live.from_env \/ disk = as_on_disk(live)
    /\ \A t \in Tasks : pc[t] = "commit" => disk = as_on_disk(candidate)

ClientFollows ==
    /\ Unswapped => subsonic = client_of(live)
    /\ \A t \in Tasks : pc[t] \in {"forget", "swap"} =>
          /\ live.values = Mutate(asked[t], before.values)
          /\ asked[t].op = "server" => live.password = asked[t].password
          /\ asked[t].op # "server" =>
                /\ pc[t] = "swap" /\ asked[t].op = "folder"
                /\ live.password = before.password
                /\ subsonic = client_of(before)

EnvMarked == live.password = EnvPassword => live.from_env \/ source = "eval"

Follows ==
    /\ CandidateSound /\ ExternalIsHidden /\ DiskFollows /\ ClientFollows /\ EnvMarked
    /\ EnvStaysTransient

LEMMA Secretive ==
    /\ None # EnvPassword
    /\ \A p \in Passwords : p # EnvPassword /\ p # None
BY SettingsAssumption

(* The client depends on these parts of the configuration only.                *)
LEMMA ClientOf ==
    ASSUME NEW c, NEW d, c.values.account = d.values.account, c.password = d.password,
           c.values.music_folder_id = d.values.music_folder_id
    PROVE  client_of(c) = client_of(d)
BY DEF client_of

LEMMA MutateFields ==
    ASSUME NEW c, NEW v
    PROVE  /\ c.op = "server" => Mutate(c, v).account = c.account
                              /\ Mutate(c, v).music_folder_id = v.music_folder_id
           /\ c.op = "folder" => Mutate(c, v).account = v.account
                              /\ Mutate(c, v).music_folder_id = c.id
           /\ c.op = "offline_cache" => Mutate(c, v).account = v.account
                                     /\ Mutate(c, v).music_folder_id = v.music_folder_id
BY DEF Mutate

(* A password loaded from where the file says it is has the variable's value   *)
(* only if it came from the variable or from the command; and what would be    *)
(* written of it is what the file holds.                                       *)
LEMMA LoadFollows ==
    ASSUME IInv, Typed, ExternalIsHidden, EnvStaysTransient,
           NEW env \in {EnvPassword, None}, NEW readable \in BOOLEAN,
           NEW c, c = load_from_file(disk, env, readable)
    PROVE  /\ c.password = EnvPassword => c.from_env \/ source = "eval"
           /\ c.from_env \/ disk = as_on_disk(c)
<1>1. CASE env # None
  BY <1>1 DEF load_from_file
<1>2. CASE env = None
  <2>1. c.password = resolve_password(disk, None, readable) /\ ~c.from_env
        /\ c.values = disk.values /\ c.keyring = disk.keyring
    BY <1>2 DEF load_from_file
  <2>2. source \in {"none", "file", "eval"}
    BY DEF Typed, TypeOK
  <2>3. source # "eval" => c.password # EnvPassword
    <3>1. CASE source = "file"
      BY <2>1, <3>1, Secretive DEF resolve_password, EnvStaysTransient
    <3>2. CASE source = "none" /\ disk.keyring
      <4>1. disk.values.account \in Accounts
        BY <3>2 DEF IInv, KeychainTyped
      <4> QED BY <2>1, <3>2, <4>1, Secretive DEF resolve_password, EnvStaysTransient
    <3>3. CASE source = "none" /\ ~disk.keyring
      BY <2>1, <3>3 DEF resolve_password, EnvStaysTransient
    <3> QED BY <2>2, <3>1, <3>2, <3>3
  <2>4. source = "none" /\ ~disk.keyring => c.password = disk.password
    BY <2>1 DEF resolve_password
  <2>5. disk = [values |-> disk.values, keyring |-> disk.keyring, password |-> disk.password]
    BY DEF Typed, TypeOK, OnDiskConfigs
  <2>6. disk = as_on_disk(c)
    BY <2>1, <2>2, <2>4, <2>5 DEF as_on_disk, ExternalIsHidden
  <2> QED BY <2>3, <2>6
<1> QED BY <1>1, <1>2

LEMMA InitFollows == Init => Follows
<1> SUFFICES ASSUME Init PROVE Follows
  OBVIOUS
<1>1. Typed /\ IInv
  BY InitTyped, InitIInv
<1>2. ExternalIsHidden /\ EnvStaysTransient
  BY Secretive DEF Init, ExternalIsHidden, EnvStaysTransient
<1>3. PICK env \in {EnvPassword, None}, readable \in BOOLEAN :
        live = load_from_file(disk, env, readable)
  BY DEF Init
<1>4. EnvMarked /\ (live.from_env \/ disk = as_on_disk(live))
  BY <1>1, <1>2, <1>3, LoadFollows DEF EnvMarked
<1>5. \A t \in Tasks : pc[t] = "idle"
  BY DEF Init
<1>6. subsonic = client_of(live)
  BY <1>3 DEF Init, load_from_file, client_of, Default
<1> QED BY <1>2, <1>4, <1>5, <1>6
        DEF Follows, CandidateSound, DiskFollows, ClientFollows, Unswapped

LEMMA RestartFollows == ASSUME IInv, Typed, Follows, Restart PROVE Follows'
<1>1. ExternalIsHidden' /\ EnvStaysTransient'
  BY DEF Restart, Follows, stores, ExternalIsHidden, EnvStaysTransient
<1>2. PICK env \in {EnvPassword, None}, readable \in BOOLEAN :
        live' = load_from_file(disk, env, readable)
  BY DEF Restart
<1>3. UNCHANGED <<source, disk>>
  BY DEF Restart
<1>4. EnvMarked' /\ (live'.from_env \/ disk = as_on_disk(live'))
  BY <1>2, <1>3, LoadFollows DEF EnvMarked, Follows
<1>5. as_on_disk(live)' = as_on_disk(live')
  BY <1>3 DEF as_on_disk
<1>6. \A t \in Tasks : pc'[t] = "idle"
  BY DEF Restart
<1>7. subsonic' = client_of(live)'
  BY DEF Restart, client_of
<1> QED BY <1>1, <1>3, <1>4, <1>5, <1>6, <1>7
        DEF Follows, CandidateSound, DiskFollows, ClientFollows, Unswapped

(* A step outside the lock.                                                    *)
LEMMA FollowsOutside ==
    ASSUME IInv, IInv', Follows, NEW t \in Tasks,
           pc[t] \notin Transacting, pc'[t] \notin Transacting,
           \A u \in Tasks \ {t} : pc'[u] = pc[u] /\ asked'[u] = asked[u],
           UNCHANGED <<source, disk, keychain, password_file, live, subsonic, before, candidate>>
    PROVE  Follows'
<1>1. \A u \in Tasks : pc'[u] \in Transacting => u # t /\ pc[u] = pc'[u] /\ asked'[u] = asked[u]
  OBVIOUS
<1>2. \A u \in Tasks : pc[u] \in Transacting => pc'[u] = pc[u]
  OBVIOUS
<1>3. as_on_disk(live)' = as_on_disk(live) /\ as_on_disk(candidate)' = as_on_disk(candidate)
  BY DEF as_on_disk
<1>4. client_of(live)' = client_of(live) /\ client_of(before)' = client_of(before)
  BY DEF client_of
<1>5. CandidateSound'
  BY <1>1 DEF Follows, CandidateSound, Transacting, Mutate
<1>6. DiskFollows'
  BY <1>1, <1>2, <1>3 DEF Follows, DiskFollows, Uncommitted, Transacting
<1>7. ClientFollows'
  <2>1. Unswapped' => Unswapped
    BY <1>2 DEF Unswapped, Transacting
  <2>2. Unswapped' => (subsonic = client_of(live))'
    BY <1>4, <2>1 DEF Follows, ClientFollows
  <2> QED BY <1>1, <1>4, <2>2 DEF Follows, ClientFollows, Transacting, Mutate
<1>8. ExternalIsHidden' /\ EnvMarked' /\ EnvStaysTransient'
  BY DEF Follows, ExternalIsHidden, EnvMarked, EnvStaysTransient
<1> QED BY <1>5, <1>6, <1>7, <1>8 DEF Follows

(* A step of the holder that neither writes the file nor changes live nor the  *)
(* client, nor gets past the commit: it opens, prepares, or gives up.          *)
LEMMA FollowsPreparing ==
    ASSUME IInv, IInv', Follows, NEW t \in Tasks,
           pc[t] \in {"wait", "place", "save"}, pc'[t] \in {"place", "save", "err"},
           config_transactions = t \/ config_transactions = None,
           \A u \in Tasks \ {t} : pc'[u] = pc[u],
           UNCHANGED <<source, disk, live, subsonic>>,
           CandidateSound', EnvStaysTransient'
    PROVE  Follows'
<1>1. \A u \in Tasks \ {t} : pc'[u] \notin Transacting /\ pc[u] \notin Transacting
  BY OnlyHolder DEF IInv
<1>2. Uncommitted /\ Uncommitted' /\ Unswapped /\ Unswapped'
  BY <1>1 DEF Uncommitted, Unswapped, Transacting
<1>3. as_on_disk(live)' = as_on_disk(live) /\ client_of(live)' = client_of(live)
  BY DEF as_on_disk, client_of
<1>4. DiskFollows'
  BY <1>2, <1>3 DEF Follows, DiskFollows, Uncommitted
<1>5. ClientFollows'
  BY <1>2, <1>3 DEF Follows, ClientFollows, Unswapped
<1>6. ExternalIsHidden' /\ EnvMarked'
  BY DEF Follows, ExternalIsHidden, EnvMarked
<1> QED BY <1>4, <1>5, <1>6 DEF Follows

(* A candidate that is sound for the holder is sound: nobody else has one.     *)
LEMMA SoundOfHolder ==
    ASSUME NEW t \in Tasks, \A u \in Tasks \ {t} : pc'[u] \notin Transacting,
           pc'[t] \in {"place", "save", "commit"} =>
             /\ candidate'.values = Mutate(asked'[t], before'.values)
             /\ asked'[t].op = "server" =>
                   /\ ~candidate'.from_env
                   /\ \/ pc'[t] = "place" \/ source' # "none" \/ candidate'.keyring
                      \/ candidate'.password = asked'[t].password
             /\ asked'[t].op # "server" =>
                   candidate'.password = before'.password /\ candidate'.from_env = before'.from_env
    PROVE  CandidateSound'
BY DEF CandidateSound, Transacting, Mutate

LEMMA BeginFollows ==
    ASSUME IInv, IInv', Typed, Follows, NEW t \in Tasks, Begin(t) PROVE Follows'
<1>1. /\ pc[t] = "wait" /\ pc'[t] \in {"place", "save"}
      /\ asked[t].op = "server" => pc'[t] = "place"
      /\ config_transactions = None
      /\ \A u \in Tasks \ {t} : pc'[u] = pc[u]
      /\ UNCHANGED <<source, disk, keychain, password_file, live, subsonic, asked>>
  BY DEF Begin, Goto, IInv, PcTyped, stores
<1>2. \A u \in Tasks \ {t} : pc'[u] \notin Transacting
  BY <1>1, OnlyHolder DEF IInv
<1>3. live.from_env \in BOOLEAN
  BY DEF Typed, TypeOK, Configs
<1>4. /\ candidate'.values = Mutate(asked[t], live.values) /\ before' = live
      /\ asked[t].op = "server" => ~candidate'.from_env
      /\ asked[t].op # "server" =>
            candidate'.password = live.password /\ candidate'.from_env = live.from_env
  BY <1>3 DEF Begin
<1>5. CandidateSound'
  BY <1>1, <1>2, <1>4, SoundOfHolder
<1>6. EnvStaysTransient'
  BY <1>1 DEF Follows, EnvStaysTransient
<1> QED BY <1>1, <1>5, <1>6, FollowsPreparing

(* The transaction ends without a change of the file.                          *)
LEMMA GiveUpFollows ==
    ASSUME IInv, IInv', Follows, NEW t \in Tasks, Reject(t) \/ SaveFails(t) PROVE Follows'
<1>1. /\ pc[t] \in {"place", "save"} /\ pc'[t] = "err" /\ config_transactions = t
      /\ \A u \in Tasks \ {t} : pc'[u] = pc[u]
      /\ UNCHANGED <<source, disk, live, subsonic, password_file>>
  BY DEF Reject, SaveFails, Unlock, Goto, IInv, PcTyped, stores
<1>2. \A u \in Tasks \ {t} : pc'[u] \notin Transacting
  BY <1>1, OnlyHolder DEF IInv
<1>3. CandidateSound'
  BY <1>1, <1>2 DEF CandidateSound, Transacting
<1>4. EnvStaysTransient'
  BY <1>1, Secretive DEF Reject, SaveFails, stores, IInv, KeychainTyped, Follows, EnvStaysTransient
<1> QED BY <1>1, <1>3, <1>4, FollowsPreparing

LEMMA PlacedFollows ==
    ASSUME IInv, IInv', Typed, Follows, NEW t \in Tasks, NEW k \in BOOLEAN, NEW p,
           Placed(t, k, p), source # "none" \/ k \/ p = asked[t].password, EnvStaysTransient'
    PROVE  Follows'
<1>1. /\ pc[t] = "place" /\ pc'[t] = "save"
      /\ \A u \in Tasks \ {t} : pc'[u] = pc[u]
      /\ UNCHANGED <<source, disk, live, subsonic, asked, config_transactions, before>>
      /\ candidate'.values = candidate.values /\ candidate'.keyring = k
      /\ candidate'.password = p /\ candidate'.from_env = candidate.from_env
  BY DEF Placed, Goto, IInv, PcTyped
<1>2. config_transactions = t
  BY <1>1 DEF IInv, Locked, Transacting
<1>3. \A u \in Tasks \ {t} : pc'[u] \notin Transacting
  BY <1>1, <1>2, OnlyHolder DEF IInv
<1>4. asked[t].op = "server" /\ candidate.values = Mutate(asked[t], before.values)
  BY <1>1 DEF IInv, CandidateIsChange, Follows, CandidateSound
<1>5. ~candidate.from_env
  BY <1>1, <1>4 DEF Follows, CandidateSound
<1>6. CandidateSound'
  BY <1>1, <1>3, <1>4, <1>5, SoundOfHolder
<1> QED BY <1>1, <1>2, <1>6, FollowsPreparing

(* The file is written: what reaches it is what as_on_disk lets through.       *)
LEMMA SaveFollows ==
    ASSUME IInv, IInv', Follows, NEW t \in Tasks, save_default(t) PROVE Follows'
<1>1. /\ pc[t] = "save" /\ pc'[t] = "commit" /\ disk' = as_on_disk(candidate)
      /\ \A u \in Tasks \ {t} : pc'[u] = pc[u]
      /\ UNCHANGED <<source, keychain, password_file, live, subsonic, before, candidate, asked>>
  BY DEF save_default, Goto, IInv, PcTyped, stores
<1>2. config_transactions = t /\ asked[t] \in Changes /\ before = live
  BY <1>1 DEF IInv, Locked, AskedTyped, SnapshotIsDisk, Transacting
<1>3. \A u \in Tasks \ {t} : pc'[u] \notin Transacting /\ pc[u] \notin Transacting
  BY <1>1, <1>2, OnlyHolder DEF IInv
<1>4. /\ asked[t].op = "server" =>
            source # "none" \/ candidate.keyring \/ candidate.password = asked[t].password
      /\ asked[t].op # "server" =>
            candidate.password = live.password /\ candidate.from_env = live.from_env
  BY <1>1, <1>2 DEF Follows, CandidateSound
<1>5. CandidateSound'
  BY <1>1, <1>3, SoundOfHolder DEF Follows, CandidateSound
<1>6. EnvStaysTransient'
  <2>1. CASE source # "none" \/ candidate.keyring \/ candidate.from_env
    BY <1>1, <2>1, Secretive DEF as_on_disk, Follows, EnvStaysTransient
  <2>2. CASE ~(source # "none" \/ candidate.keyring \/ candidate.from_env)
    <3>1. candidate.password # EnvPassword
      BY <1>2, <1>4, <2>2, SwitchTyped, Secretive DEF Follows, EnvMarked
    <3> QED BY <1>1, <2>2, <3>1 DEF as_on_disk, Follows, EnvStaysTransient
  <2> QED BY <2>1, <2>2
<1>7. ExternalIsHidden'
  BY <1>1 DEF as_on_disk, ExternalIsHidden
<1>8. as_on_disk(candidate)' = as_on_disk(candidate) /\ client_of(live)' = client_of(live)
  BY <1>1 DEF as_on_disk, client_of
<1>9. DiskFollows'
  BY <1>1, <1>8 DEF DiskFollows, Uncommitted
<1>10. ClientFollows'
  BY <1>1, <1>3, <1>8 DEF Follows, ClientFollows, Unswapped, Transacting
<1>11. EnvMarked'
  BY <1>1 DEF Follows, EnvMarked
<1> QED BY <1>5, <1>6, <1>7, <1>9, <1>10, <1>11 DEF Follows

(* The daemon believes what it wrote; its client is still the old one, except  *)
(* that a change of another setting needs no new client.                       *)
LEMMA CommitFollows ==
    ASSUME IInv, IInv', Follows, NEW t \in Tasks, Commit(t) PROVE Follows'
<1>1. /\ pc[t] = "commit"
      /\ pc'[t] = (IF asked[t].op = "offline_cache" THEN "mirror"
                   ELSE IF asked[t].op = "server" THEN "forget" ELSE "swap")
      /\ \A u \in Tasks \ {t} : pc'[u] = pc[u]
      /\ live'.values = candidate.values /\ live'.keyring = candidate.keyring
      /\ live'.from_env = candidate.from_env
      /\ live'.password = (IF asked[t].op = "server" THEN asked[t].password ELSE candidate.password)
      /\ UNCHANGED <<source, disk, keychain, password_file, subsonic, asked>>
      /\ asked[t].op # "offline_cache" => UNCHANGED before
  BY DEF Commit, Committed, IInv, PcTyped, stores
<1>2. config_transactions = t /\ asked[t] \in Changes /\ before = live
  BY <1>1 DEF IInv, Locked, AskedTyped, SnapshotIsDisk, Transacting
<1>3. \A u \in Tasks \ {t} : pc'[u] \notin Transacting /\ pc[u] \notin Transacting
  BY <1>1, <1>2, OnlyHolder DEF IInv
<1>4. /\ candidate.values = Mutate(asked[t], live.values)
      /\ asked[t].op = "server" =>
            source # "none" \/ candidate.keyring \/ candidate.password = asked[t].password
      /\ asked[t].op # "server" =>
            candidate.password = live.password /\ candidate.from_env = live.from_env
  BY <1>1, <1>2 DEF Follows, CandidateSound
<1>5. Unswapped /\ subsonic = client_of(live)
  BY <1>1, <1>3 DEF Follows, ClientFollows, Unswapped, Transacting
<1>6. CandidateSound'
  BY <1>1, <1>3 DEF CandidateSound, Transacting
<1>7. DiskFollows'
  <2>1. disk = as_on_disk(candidate)
    BY <1>1 DEF Follows, DiskFollows
  <2>2. live'.from_env \/ as_on_disk(live)' = as_on_disk(candidate)
    BY <1>1, <1>4 DEF as_on_disk
  <2> QED BY <1>1, <1>3, <2>1, <2>2 DEF DiskFollows, Transacting
<1>8. EnvMarked'
  BY <1>1, <1>2, <1>4, SwitchTyped, Secretive DEF Follows, EnvMarked
<1>9. asked[t].op \in {"server", "offline_cache", "folder"}
  BY <1>2 DEF Changes, Switches, Toggles, Picks
<1>10. ClientFollows'
  <2>1. CASE asked[t].op = "offline_cache"
    <3>1. client_of(live)' = client_of(live)
      <4>1. /\ live'.values.account = live.values.account /\ live'.password = live.password
            /\ live'.values.music_folder_id = live.values.music_folder_id
        BY <1>1, <1>4, <2>1, MutateFields
      <4> QED BY <4>1 DEF client_of
    <3> QED BY <1>1, <1>3, <1>5, <2>1, <3>1 DEF ClientFollows, Transacting
  <2>2. CASE asked[t].op # "offline_cache"
    <3>1. client_of(before)' = client_of(live)
      BY <1>1, <1>2, <2>2 DEF client_of
    <3>2. pc'[t] \in {"forget", "swap"}
      BY <1>1, <2>2
    <3>3. live'.values = Mutate(asked[t], before'.values)
      BY <1>1, <1>2, <1>4, <2>2
    <3>4. asked[t].op # "server" => live'.password = before'.password /\ pc'[t] = "swap"
      BY <1>1, <1>2, <1>4, <2>2
    <3> QED BY <1>1, <1>3, <1>5, <1>9, <2>2, <3>1, <3>2, <3>3, <3>4
            DEF ClientFollows, Unswapped, Transacting, Mutate
  <2> QED BY <2>1, <2>2
<1>11. ExternalIsHidden' /\ EnvStaysTransient'
  BY <1>1 DEF Follows, ExternalIsHidden, EnvStaysTransient
<1> QED BY <1>6, <1>7, <1>8, <1>10, <1>11 DEF Follows

LEMMA ForgetFollows ==
    ASSUME IInv, IInv', Follows, NEW t \in Tasks, ForgetOldEntry(t) PROVE Follows'
<1>1. /\ pc[t] = "forget" /\ pc'[t] = "swap"
      /\ \A u \in Tasks \ {t} : pc'[u] = pc[u]
      /\ UNCHANGED <<source, disk, password_file, live, subsonic, before, candidate, asked>>
  BY DEF ForgetOldEntry, Goto, IInv, PcTyped
<1>2. config_transactions = t
  BY <1>1 DEF IInv, Locked, Transacting
<1>3. \A u \in Tasks \ {t} : pc'[u] \notin Transacting /\ pc[u] \notin Transacting
  BY <1>1, <1>2, OnlyHolder DEF IInv
<1>4. as_on_disk(live)' = as_on_disk(live)
  BY <1>1 DEF as_on_disk
<1>5. DiskFollows'
  BY <1>1, <1>3, <1>4 DEF Follows, DiskFollows, Uncommitted, Transacting
<1>6. asked[t].op = "server"
  BY <1>1 DEF Follows, ClientFollows
<1>7. ClientFollows'
  BY <1>1, <1>3, <1>6 DEF Follows, ClientFollows, Unswapped, Transacting, Mutate
<1>8. EnvStaysTransient'
  BY <1>1, Secretive DEF ForgetOldEntry, IInv, KeychainTyped, Follows, EnvStaysTransient
<1>9. CandidateSound'
  BY <1>1, <1>3 DEF CandidateSound, Transacting
<1>10. ExternalIsHidden' /\ EnvMarked'
  BY <1>1 DEF Follows, ExternalIsHidden, EnvMarked
<1> QED BY <1>5, <1>7, <1>8, <1>9, <1>10 DEF Follows

(* The new client is the one of the new configuration.                         *)
LEMMA SwapFollows ==
    ASSUME IInv, IInv', Typed, Follows, NEW t \in Tasks, SwapClient(t) PROVE Follows'
<1>1. /\ pc[t] = "swap" /\ pc'[t] = "ok"
      /\ \A u \in Tasks \ {t} : pc'[u] = pc[u]
      /\ UNCHANGED <<source, disk, keychain, password_file, live, asked>>
  BY DEF SwapClient, Goto, IInv, PcTyped, stores
<1>2. config_transactions = t /\ asked[t] \in Changes /\ before \in Configs
  BY <1>1 DEF IInv, Locked, AskedTyped, Typed, Snapshots, Transacting
<1>3. \A u \in Tasks \ {t} : pc'[u] \notin Transacting /\ pc[u] \notin Transacting
  BY <1>1, <1>2, OnlyHolder DEF IInv
<1>4. /\ live.values = Mutate(asked[t], before.values)
      /\ asked[t].op = "server" => live.password = asked[t].password
      /\ asked[t].op # "server" =>
            asked[t].op = "folder" /\ live.password = before.password /\ subsonic = client_of(before)
  BY <1>1 DEF Follows, ClientFollows
<1>5. subsonic' = client_of(live)
  <2>1. CASE asked[t].op = "server"
    <3>1. asked[t].account # None /\ asked[t].password # None
      BY <1>2, <2>1, SwitchTyped, SettingsAssumption
    <3>2. /\ live.values.account = asked[t].account
          /\ live.values.music_folder_id = before.values.music_folder_id
      BY <1>4, <2>1, MutateFields
    <3> QED BY <1>4, <2>1, <3>1, <3>2 DEF SwapClient, client_of
  <2>2. CASE asked[t].op = "folder"
    <3>1. /\ live.values.account = before.values.account /\ live.password = before.password
          /\ live.values.music_folder_id = asked[t].id
      BY <1>4, <2>2, MutateFields
    <3>2. CASE before.values.account = None \/ before.password = None
      <4>1. subsonic = None /\ client_of(live) = None
        BY <1>4, <2>2, <3>1, <3>2 DEF client_of
      <4> QED BY <2>2, <4>1 DEF SwapClient
    <3>3. CASE ~(before.values.account = None \/ before.password = None)
      <4>1. subsonic = [account |-> before.values.account, password |-> before.password,
                        music_folder |-> before.values.music_folder_id]
        BY <1>4, <2>2, <3>3 DEF client_of
      <4>2. subsonic \in Clients
        BY <1>2, <3>3, <4>1 DEF Clients, Configs, Values, Secrets
      <4>3. subsonic' = [subsonic EXCEPT !.music_folder = asked[t].id]
        BY <2>2, <4>2, NoneIsNoClient DEF SwapClient
      <4> QED BY <3>1, <3>3, <4>1, <4>3 DEF client_of
    <3> QED BY <3>2, <3>3
  <2> QED BY <1>4, <2>1, <2>2
<1>6. as_on_disk(live)' = as_on_disk(live) /\ client_of(live)' = client_of(live)
  BY <1>1 DEF as_on_disk, client_of
<1>7. DiskFollows'
  BY <1>1, <1>3, <1>6 DEF Follows, DiskFollows, Uncommitted, Transacting
<1>8. ClientFollows'
  BY <1>1, <1>3, <1>5, <1>6 DEF ClientFollows, Transacting
<1>9. CandidateSound'
  BY <1>1, <1>3 DEF CandidateSound, Transacting
<1>10. ExternalIsHidden' /\ EnvMarked' /\ EnvStaysTransient'
  BY <1>1 DEF Follows, ExternalIsHidden, EnvMarked, EnvStaysTransient
<1> QED BY <1>7, <1>8, <1>9, <1>10 DEF Follows

LEMMA TaskStepFollows ==
    ASSUME IInv, IInv', Typed, Follows, NEW t \in Tasks, TaskStep(t) PROVE Follows'
<1> USE DEF stores, Goto
<1>0. pc \in [Tasks -> Pcs] /\ asked \in [Tasks -> Changes \cup {None}]
  BY DEF IInv, PcTyped, AskedTyped
<1>1. CASE Request(t)
  BY <1>0, <1>1, FollowsOutside DEF Request, Transacting
<1>2. CASE refresh_music_folders(t)
  BY <1>0, <1>2, FollowsOutside DEF refresh_music_folders, Transacting
<1>3. CASE Begin(t)
  BY <1>3, BeginFollows
<1>4. CASE Reject(t) \/ SaveFails(t)
  BY <1>4, GiveUpFollows
<1>5. CASE PlaceNowhere(t)
  <2>1. EnvStaysTransient'
    BY <1>5 DEF PlaceNowhere, Placed, Follows, EnvStaysTransient
  <2> QED BY <1>5, <2>1, PlacedFollows DEF PlaceNowhere
<1>6. CASE write_password_file_atomic(t) \/ store(t) \/ KeychainUnavailable(t)
  <2>1. pc[t] = "place" /\ asked[t] \in Changes /\ asked[t].op = "server"
    BY <1>6 DEF write_password_file_atomic, store, KeychainUnavailable, Placed,
                IInv, CandidateIsChange, AskedTyped
  <2>2. asked[t].account \in Accounts /\ asked[t].password \in Passwords
    BY <2>1, SwitchTyped
  <2>3. EnvStaysTransient'
    BY <1>6, <2>2, Secretive
       DEF write_password_file_atomic, store, KeychainUnavailable, Placed,
           Follows, EnvStaysTransient, IInv, KeychainTyped
  <2> QED BY <1>6, <2>3, PlacedFollows DEF write_password_file_atomic, store, KeychainUnavailable
<1>7. CASE save_default(t)
  BY <1>7, SaveFollows
<1>8. CASE Commit(t)
  BY <1>8, CommitFollows
<1>9. CASE ForgetOldEntry(t)
  BY <1>9, ForgetFollows
<1>10. CASE SwapClient(t)
  BY <1>10, SwapFollows
<1>11. CASE StoreCopy(t)
  BY <1>0, <1>11, FollowsOutside DEF StoreCopy, Transacting
<1>12. CASE Reply(t)
  BY <1>0, <1>12, FollowsOutside DEF Reply, Transacting
<1> QED BY <1>1, <1>2, <1>3, <1>4, <1>5, <1>6, <1>7, <1>8, <1>9, <1>10, <1>11, <1>12 DEF TaskStep

LEMMA StepFollows == IInv /\ IInv' /\ Typed /\ Follows /\ [Next]_vars => Follows'
<1> SUFFICES ASSUME IInv, IInv', Typed, Follows, [Next]_vars PROVE Follows'
  OBVIOUS
<1>1. CASE UNCHANGED vars
  BY <1>1 DEF vars, Follows, CandidateSound, ExternalIsHidden, DiskFollows, Uncommitted,
              ClientFollows, Unswapped, EnvMarked, EnvStaysTransient, as_on_disk, client_of, Mutate
<1> QED BY <1>1, TaskStepFollows, RestartFollows DEF Next

LEMMA FollowsInvariant == Spec => [](IInv /\ Follows)
<1>1. Init => Typed /\ Follows
  BY InitTyped, InitFollows
<1>2. IInv /\ IInv' /\ (Typed /\ Follows) /\ [Next]_vars => (Typed /\ Follows)'
  BY StepTyped, StepFollows
<1> QED BY <1>1, <1>2, InductiveInvariant, PTL DEF Spec

(* Between transactions the file says what the daemon believes, and the client *)
(* serves the account, password and folder of that configuration: whichever    *)
(* changes interleave, whichever step fails, and wherever the daemon was       *)
(* killed and restarted.                                                       *)
THEOREM SettingsAlwaysAgree == Spec => []SettingsAgree
<1>1. IInv /\ Follows => SettingsAgree
  <2> SUFFICES ASSUME IInv, Follows, config_transactions = None
               PROVE  DiskIsLive /\ ClientIsLive
    BY DEF SettingsAgree, DiskIsLive, ClientIsLive
  <2>1. \A t \in Tasks : pc[t] \notin Transacting
    BY NoneIsNoTask DEF IInv, Locked
  <2>2. Uncommitted /\ Unswapped
    BY <2>1 DEF Uncommitted, Unswapped, Transacting
  <2> QED BY <2>2 DEF IInv, SnapshotIsDisk, Follows, DiskFollows, ClientFollows,
                      DiskIsLive, ClientIsLive
<1> QED BY <1>1, FollowsInvariant, PTL

(* The value of FERROSONIC_PASSWORD reaches no store, at no instant: not the   *)
(* file, nor the keychain, nor PasswordFile.                                   *)
THEOREM EnvNeverStored == Spec => []EnvStaysTransient
<1>1. IInv /\ Follows => EnvStaysTransient
  BY DEF Follows
<1> QED BY <1>1, FollowsInvariant, PTL

-----------------------------------------------------------------------------
(* What the task's step looks like from AtomicConfig.                          *)
OutcomeMap == [t \in Tasks |-> Outcome(pc[t])]

LEMMA OutcomeStep ==
    ASSUME PcTyped, NEW t \in Tasks, NEW x, pc' = [pc EXCEPT ![t] = x]
    PROVE  OutcomeMap[t] = Outcome(pc[t]) /\ OutcomeMap' = [OutcomeMap EXCEPT ![t] = Outcome(x)]
BY DEF OutcomeMap, PcTyped

LEMMA OutcomeValues ==
    /\ Outcome("idle") = "idle"
    /\ \A x \in {"wait", "place", "save"} : Outcome(x) = "open"
    /\ Outcome("err") = "failed"
    /\ \A x \in {"commit", "forget", "swap", "mirror", "ok"} : Outcome(x) = "done"
BY DEF Outcome

(* A step within a stage changes nothing the abstraction sees.                 *)
LEMMA Stutter ==
    ASSUME PcTyped, NEW t \in Tasks, NEW x, pc' = [pc EXCEPT ![t] = x],
           Outcome(x) = Outcome(pc[t]), UNCHANGED <<disk, asked>>
    PROVE  UNCHANGED Atomic!vars
<1>1. OutcomeMap' = OutcomeMap
  BY OutcomeStep DEF OutcomeMap, PcTyped
<1> QED BY <1>1 DEF Atomic!vars, OutcomeMap

LEMMA InitMaps == Init => Atomic!Init
BY OutcomeValues DEF Init, Atomic!Init

LEMMA AskMaps ==
    ASSUME PcTyped, NEW t \in Tasks, pc[t] = "idle", pc' = [pc EXCEPT ![t] = "wait"],
           NEW c \in Changes, asked' = [asked EXCEPT ![t] = c], UNCHANGED disk
    PROVE  Atomic!Ask(t)
<1>1. OutcomeMap[t] = "idle" /\ OutcomeMap' = [OutcomeMap EXCEPT ![t] = "open"]
  <2>1. OutcomeMap[t] = Outcome(pc[t]) /\ OutcomeMap' = [OutcomeMap EXCEPT ![t] = Outcome("wait")]
    BY OutcomeStep
  <2> QED BY <2>1, OutcomeValues
<1> QED BY <1>1 DEF Atomic!Ask, OutcomeMap

LEMMA RefuseMaps ==
    ASSUME PcTyped, NEW t \in Tasks, pc[t] \in {"place", "save"},
           pc' = [pc EXCEPT ![t] = "err"], UNCHANGED <<disk, asked>>
    PROVE  Atomic!Refuse(t)
<1>1. OutcomeMap[t] = "open" /\ OutcomeMap' = [OutcomeMap EXCEPT ![t] = "failed"]
  <2>1. OutcomeMap[t] = Outcome(pc[t]) /\ OutcomeMap' = [OutcomeMap EXCEPT ![t] = Outcome("err")]
    BY OutcomeStep
  <2> QED BY <2>1, OutcomeValues
<1> QED BY <1>1 DEF Atomic!Refuse, OutcomeMap

(* The write of the file is the instant of the change.                         *)
LEMMA SaveMaps == ASSUME IInv, NEW t \in Tasks, save_default(t) PROVE Atomic!Change(t)
<1>1. pc[t] = "save" /\ pc' = [pc EXCEPT ![t] = "commit"] /\ config_transactions = t
      /\ asked' = asked /\ disk'.values = candidate.values
  BY DEF IInv, Locked, Transacting, save_default, Goto, as_on_disk
<1>2. OutcomeMap[t] = "open" /\ OutcomeMap' = [OutcomeMap EXCEPT ![t] = "done"]
  <2>1. OutcomeMap[t] = Outcome(pc[t]) /\ OutcomeMap' = [OutcomeMap EXCEPT ![t] = Outcome("commit")]
    BY <1>1, OutcomeStep DEF IInv
  <2> QED BY <1>1, <2>1, OutcomeValues
<1>3. Uncommitted
  BY <1>1, OnlyHolder DEF IInv, Uncommitted, Transacting
<1>4. disk'.values = Mutate(asked[t], disk.values)
  BY <1>1, <1>3 DEF IInv, SnapshotIsDisk, CandidateIsChange
<1> QED BY <1>1, <1>2, <1>4 DEF Atomic!Change, OutcomeMap

LEMMA AnswerMaps == ASSUME IInv, NEW t \in Tasks, Reply(t) PROVE Atomic!Answer(t)
<1>1. pc[t] \in {"ok", "err"} /\ pc' = [pc EXCEPT ![t] = "idle"]
      /\ asked' = [asked EXCEPT ![t] = None] /\ UNCHANGED disk
  BY DEF Reply
<1>2. OutcomeMap[t] \in {"done", "failed"} /\ OutcomeMap' = [OutcomeMap EXCEPT ![t] = "idle"]
  <2>1. OutcomeMap[t] = Outcome(pc[t]) /\ OutcomeMap' = [OutcomeMap EXCEPT ![t] = Outcome("idle")]
    BY <1>1, OutcomeStep DEF IInv
  <2> QED BY <1>1, <2>1, OutcomeValues
<1> QED BY <1>1, <1>2 DEF Atomic!Answer, OutcomeMap

LEMMA TaskStepMaps ==
    ASSUME IInv, NEW t \in Tasks, TaskStep(t) PROVE [Atomic!Next]_(Atomic!vars)
<1> USE DEF stores
<1>0. PcTyped
  BY DEF IInv
<1>1. CASE Request(t)
  <2>1. PICK c \in Changes : asked' = [asked EXCEPT ![t] = c]
    BY <1>1 DEF Request
  <2> QED BY <1>0, <1>1, <2>1, AskMaps DEF Request, Goto, Atomic!Next
<1>2. CASE refresh_music_folders(t)
  <2>1. [op |-> "folder", id |-> FirstFolder, user_chosen |-> FALSE] \in Changes
    BY SettingsAssumption DEF Changes, Picks
  <2> QED BY <1>0, <1>2, <2>1, AskMaps DEF refresh_music_folders, Goto, Atomic!Next
<1>3. CASE Begin(t)
  <2> DEFINE x == IF asked[t].op = "server" THEN "place" ELSE "save"
  <2>1. pc[t] = "wait" /\ pc' = [pc EXCEPT ![t] = x] /\ UNCHANGED <<disk, asked>>
    BY <1>3 DEF Begin, Goto
  <2>2. Outcome(x) = Outcome(pc[t])
    BY <2>1, OutcomeValues
  <2> HIDE DEF x
  <2> QED BY <1>0, <2>1, <2>2, Stutter
<1>4. CASE Reject(t)
  BY <1>0, <1>4, RefuseMaps DEF Reject, Goto, Atomic!Next
<1>5. CASE \E k, p : Placed(t, k, p)
  <2>1. pc[t] = "place" /\ pc' = [pc EXCEPT ![t] = "save"] /\ UNCHANGED <<disk, asked>>
    BY <1>5 DEF Placed, Goto
  <2> QED BY <1>0, <2>1, Stutter, OutcomeValues
<1>6. CASE save_default(t)
  BY <1>6, SaveMaps DEF Atomic!Next
<1>7. CASE SaveFails(t)
  BY <1>0, <1>7, RefuseMaps DEF SaveFails, Goto, Atomic!Next
<1>8. CASE Commit(t)
  <2>1. PICK x \in {"mirror", "forget", "swap"} :
          pc' = [pc EXCEPT ![t] = x] /\ pc[t] = "commit" /\ UNCHANGED <<disk, asked>>
    BY <1>8 DEF Commit
  <2> QED BY <1>0, <2>1, Stutter, OutcomeValues
<1>9. CASE ForgetOldEntry(t)
  BY <1>0, <1>9, Stutter, OutcomeValues DEF ForgetOldEntry, Goto
<1>10. CASE SwapClient(t)
  BY <1>0, <1>10, Stutter, OutcomeValues DEF SwapClient, Goto
<1>11. CASE StoreCopy(t)
  BY <1>0, <1>11, Stutter, OutcomeValues DEF StoreCopy, Goto
<1>12. CASE Reply(t)
  BY <1>12, AnswerMaps DEF Atomic!Next
<1>13. PlaceNowhere(t) \/ write_password_file_atomic(t) \/ store(t) \/ KeychainUnavailable(t)
         => \E k, p : Placed(t, k, p)
  BY DEF PlaceNowhere, write_password_file_atomic, store, KeychainUnavailable
<1> QED BY <1>1, <1>2, <1>3, <1>4, <1>5, <1>6, <1>7, <1>8, <1>9, <1>10, <1>11, <1>12, <1>13
        DEF TaskStep

LEMMA RestartMaps == ASSUME Restart PROVE Atomic!Crash
BY OutcomeValues DEF Restart, Atomic!Crash

LEMMA StepMaps == ASSUME IInv, [Next]_vars PROVE [Atomic!Next]_(Atomic!vars)
<1>1. CASE UNCHANGED vars
  BY <1>1 DEF vars, Atomic!vars
<1> QED BY <1>1, TaskStepMaps, RestartMaps DEF Next, Atomic!Next

(* The setters implement AtomicConfig, whatever they are, however they         *)
(* interleave, and whenever the daemon is killed: no change is lost, none is   *)
(* half made, and the answer to a request is true of the file.                 *)
THEOREM SettersAreAtomic == Spec => AtomicSpec
<1>1. IInv /\ [Next]_vars => [Atomic!Next]_(Atomic!vars)
  BY StepMaps
<1> QED BY <1>1, InitMaps, InductiveInvariant, PTL DEF Spec, AtomicSpec, Atomic!Spec

============================================================================
