------------------------------ MODULE Settings ------------------------------
(* Changes of the configuration: the setters of src/src/daemon/settings_ops.rs *)
(* and the library choice of library_ops.rs, over the configuration file       *)
(* (config/mod.rs), the keychain (secret_store.rs) and the live state. A save  *)
(* may fail, the keychain may be absent or failing, and the daemon may be      *)
(* killed between any two steps and restarted.                                 *)
(*                                                                             *)
(* A configuration is abstracted to the login (account: URL and user), where   *)
(* the password is kept, the library folder, and one other setting, the        *)
(* offline cache switch, which stands for every simple setter.                 *)
EXTENDS FiniteSets

CONSTANTS
    Tasks,         \* IPC requests and background refreshes
    Accounts,      \* the accounts of secret_store.rs: user@url
    Passwords,     \* what users type
    EnvPassword,   \* the value of FERROSONIC_PASSWORD
    EvalPassword,  \* what the PasswordEval command prints
    Folders,       \* the music folders of the server
    FirstFolder,   \* the first of them, its default
    None

(* A client logs in as an account and asks for one folder, or for all of them. *)
Clients == [account : Accounts, password : Passwords \cup {EnvPassword, EvalPassword},
            music_folder : Folders \cup {None}]

ASSUME SettingsAssumption ==
    /\ FirstFolder \in Folders
    /\ None \notin Accounts \cup Passwords \cup Folders \cup Tasks \cup Clients
    /\ EnvPassword \notin Passwords \cup {None}
    /\ EvalPassword \notin Passwords \cup {None}

VARIABLES
    source,         \* what the file's author chose: "none", PasswordFile or PasswordEval
    disk,           \* config.toml
    keychain,       \* the password stored for each account, or None
    password_file,  \* the contents of PasswordFile
    live,           \* DaemonState.config
    offline_cache_enabled, \* the atomic copy of the setting in DaemonCore
    subsonic,       \* the client: the account, password and folder it uses, or None
    config_transactions,   \* the task that holds the lock, or None
    before,         \* the configuration its holder read
    candidate,      \* the configuration its holder is about to write
    pc, asked

vars == <<source, disk, keychain, password_file, live, offline_cache_enabled,
          subsonic, config_transactions, before, candidate, pc, asked>>

Values == [account : Accounts \cup {None}, music_folder_id : Folders \cup {None},
           music_folder_chosen : BOOLEAN, offline_cache : BOOLEAN]

Default == [account |-> None, music_folder_id |-> None,
            music_folder_chosen |-> FALSE, offline_cache |-> FALSE]

Secrets == Passwords \cup {EnvPassword, EvalPassword, None}

Configs == [values : Values, keyring : BOOLEAN, password : Secrets,
            from_env : BOOLEAN]

OnDiskConfigs == [values : Values, keyring : BOOLEAN, password : Secrets]

(* update_server_config, set_offline_cache_enabled and set_music_folder with   *)
(* their arguments; the last with user_chosen = FALSE is the first-run default *)
Switches == [op : {"server"}, account : Accounts, password : Passwords]
Toggles == [op : {"offline_cache"}, on : BOOLEAN]
Picks == [op : {"folder"}, id : Folders \cup {None}, user_chosen : BOOLEAN]
Changes == Switches \cup Toggles \cup Picks

(* The closures the setters pass to persist_config.                            *)
Mutate(c, v) ==
    [account |-> IF c.op = "server" THEN c.account ELSE v.account,
     music_folder_id |-> IF c.op = "folder" THEN c.id ELSE v.music_folder_id,
     music_folder_chosen |-> v.music_folder_chosen \/ (c.op = "folder" /\ c.user_chosen),
     offline_cache |-> IF c.op = "offline_cache" THEN c.on ELSE v.offline_cache]

as_on_disk_with_env(c) == \* Fault: the value of the variable is saved
    [values |-> c.values, keyring |-> c.keyring,
     password |-> IF source # "none" \/ c.keyring THEN None ELSE c.password]

(* as_on_disk: a password that lives elsewhere is not written to the file.     *)
as_on_disk(c) ==
    LET secret_external == source # "none" \/ c.keyring \/ c.from_env IN
    [values |-> c.values, keyring |-> c.keyring,
     password |-> IF secret_external THEN None ELSE c.password]

(* resolve_password: the variable, the command, the file, the keychain and the *)
(* inline value, in this order; a source that cannot be read gives no password *)
resolve_password(d, env, readable) ==
    CASE env # None -> env
      [] env = None /\ source = "eval" -> IF readable THEN EvalPassword ELSE None
      [] env = None /\ source = "file" -> IF readable THEN password_file ELSE None
      [] env = None /\ source = "none" /\ d.keyring ->
            IF readable THEN keychain[d.values.account] ELSE None
      [] OTHER -> d.password

load_from_file(d, env, readable) ==
    [values |-> d.values, keyring |-> d.keyring,
     password |-> resolve_password(d, env, readable), from_env |-> env # None]

(* DaemonCore::new: a client when the login is complete.                       *)
client_of(c) ==
    IF c.values.account = None \/ c.password = None THEN None
    ELSE [account |-> c.values.account, password |-> c.password,
          music_folder |-> c.values.music_folder_id]
-----------------------------------------------------------------------------
(* A first start: no login yet, and perhaps a hand-written PasswordFile or     *)
(* PasswordEval.                                                               *)
Init ==
    /\ source \in {"none", "file", "eval"}
    /\ disk = [values |-> Default, keyring |-> FALSE, password |-> None]
    /\ keychain = [a \in Accounts |-> None]
    /\ password_file = None
    /\ \E env \in {EnvPassword, None}, readable \in BOOLEAN :
          live = load_from_file(disk, env, readable)
    /\ offline_cache_enabled = FALSE
    /\ subsonic = None
    /\ config_transactions = None
    /\ before = None
    /\ candidate = None
    /\ pc = [t \in Tasks |-> "idle"]
    /\ asked = [t \in Tasks |-> None]

Goto(t, from, to) == pc[t] = from /\ pc' = [pc EXCEPT ![t] = to]

Unlock(t) ==
    /\ config_transactions = t
    /\ config_transactions' = None
    /\ before' = None
    /\ candidate' = None

stores == <<keychain, password_file>>

(* A request of a user.                                                        *)
Request(t) ==
    /\ Goto(t, "idle", "wait")
    /\ \E c \in {c \in Changes : c.op = "folder" => c.user_chosen} :
          asked' = [asked EXCEPT ![t] = c]
    /\ UNCHANGED <<source, disk, stores, live, offline_cache_enabled, subsonic,
                   config_transactions, before, candidate>>

(* refresh_music_folders: no library has been chosen, the server's first one   *)
(* becomes the default. The answer of the server was awaited before this step. *)
refresh_music_folders(t) ==
    /\ subsonic # None
    /\ ~live.values.music_folder_chosen
    /\ live.values.music_folder_id # FirstFolder
    /\ Goto(t, "idle", "wait")
    /\ asked' = [asked EXCEPT ![t] =
          [op |-> "folder", id |-> FirstFolder, user_chosen |-> FALSE]]
    /\ UNCHANGED <<source, disk, stores, live, offline_cache_enabled, subsonic,
                   config_transactions, before, candidate>>

Begin_unlocked(t) == \* Fault: the configuration is cloned without the lock
    /\ LET c == asked[t] IN
       /\ Goto(t, "wait", IF c.op = "server" THEN "place" ELSE "save")
       /\ candidate' =
            [values |-> Mutate(c, live.values), keyring |-> live.keyring,
             password |-> live.password,
             from_env |-> live.from_env /\ c.op # "server"]
    /\ before' = live
    /\ config_transactions' = t
    /\ UNCHANGED <<source, disk, stores, live, offline_cache_enabled, subsonic, asked>>

(* The transaction begins: lock, then clone the configuration.                 *)
Begin(t) ==
    /\ config_transactions = None
    /\ LET c == asked[t] IN
       /\ Goto(t, "wait", IF c.op = "server" THEN "place" ELSE "save")
       /\ candidate' =
            [values |-> Mutate(c, live.values), keyring |-> live.keyring,
             password |-> live.password,
             from_env |-> live.from_env /\ c.op # "server"]
    /\ before' = live
    /\ config_transactions' = t
    /\ UNCHANGED <<source, disk, stores, live, offline_cache_enabled, subsonic, asked>>

(* The URL is malformed, or the place the password goes to reports an error.   *)
Reject(t) ==
    /\ Goto(t, "place", "err")
    /\ Unlock(t)
    /\ UNCHANGED <<source, disk, stores, live, offline_cache_enabled, subsonic, asked>>

(* The password is put where this configuration keeps it.                      *)
Placed(t, keyring, password) ==
    /\ Goto(t, "place", "save")
    /\ candidate' = [values |-> candidate.values, keyring |-> keyring,
                     password |-> password, from_env |-> candidate.from_env]
    /\ UNCHANGED <<source, disk, live, offline_cache_enabled, subsonic,
                   config_transactions, before, asked>>

PlaceNowhere(t) ==
    /\ source = "eval"
    /\ Placed(t, FALSE, None)
    /\ UNCHANGED stores

write_password_file_atomic(t) ==
    /\ source = "file"
    /\ Placed(t, FALSE, None)
    /\ password_file' = asked[t].password
    /\ UNCHANGED keychain

store(t) ==
    /\ source = "none"
    /\ Placed(t, TRUE, None)
    /\ keychain' = [keychain EXCEPT ![asked[t].account] = asked[t].password]
    /\ UNCHANGED password_file

KeychainUnavailable(t) ==
    /\ source = "none"
    /\ pc[t] = "place"
    /\ Placed(t, FALSE, asked[t].password)
    /\ UNCHANGED stores

(* save_default: temporary file, fsync, rename.                                *)
save_default(t) ==
    /\ Goto(t, "save", "commit")
    /\ disk' = as_on_disk(candidate)
    /\ UNCHANGED <<source, stores, live, offline_cache_enabled, subsonic,
                   config_transactions, before, candidate, asked>>

Orphaned_always(t) == \* Fault: also the entry the old configuration refers to
    asked[t].op = "server" /\ candidate.keyring

(* A new account's keychain entry has no configuration to refer to it now.     *)
Orphaned(t) ==
    /\ asked[t].op = "server"
    /\ candidate.keyring
    /\ candidate.values.account # before.values.account

SaveFails(t) ==
    /\ Goto(t, "save", "err")
    /\ \/ /\ Orphaned(t)
          /\ keychain' = [keychain EXCEPT ![candidate.values.account] = None]
       \/ UNCHANGED keychain
    /\ Unlock(t)
    /\ UNCHANGED <<source, disk, password_file, live, offline_cache_enabled,
                   subsonic, asked>>

Committed_values_only(t) == \* Fault: where the password is kept is not committed
    [live EXCEPT !.values = candidate.values]

(* The live configuration becomes the one on disk, with the typed password.    *)
Committed(t) ==
    [values |-> candidate.values, keyring |-> candidate.keyring,
     password |-> IF asked[t].op = "server" THEN asked[t].password
                  ELSE candidate.password,
     from_env |-> candidate.from_env]

Commit(t) ==
    LET c == asked[t] IN
    /\ pc[t] = "commit"
    /\ live' = Committed(t)
    /\ UNCHANGED <<source, disk, stores, offline_cache_enabled, subsonic, asked>>
    /\ IF c.op = "offline_cache"
       THEN pc' = [pc EXCEPT ![t] = "mirror"] /\ Unlock(t)
       ELSE /\ pc' = [pc EXCEPT ![t] = IF c.op = "server" THEN "forget" ELSE "swap"]
            /\ UNCHANGED <<config_transactions, before, candidate>>

(* The keychain entry of the old login is removed, if the keychain answers.    *)
Superseded ==
    /\ before.keyring
    /\ ~candidate.keyring \/ candidate.values.account # before.values.account

ForgetOldEntry(t) ==
    /\ Goto(t, "forget", "swap")
    /\ \/ /\ Superseded
          /\ keychain' = [keychain EXCEPT ![before.values.account] = None]
       \/ UNCHANGED keychain
    /\ UNCHANGED <<source, disk, password_file, live, offline_cache_enabled,
                   subsonic, config_transactions, before, candidate, asked>>

SwapClient_unscoped(t) == \* Fault: a new client browses every folder
    LET c == asked[t] IN
    /\ Goto(t, "swap", "ok")
    /\ subsonic' =
         CASE c.op = "server" ->
                [account |-> c.account, password |-> c.password,
                 music_folder |-> None]
           [] c.op = "folder" /\ subsonic # None ->
                [subsonic EXCEPT !.music_folder = c.id]
           [] OTHER -> subsonic
    /\ Unlock(t)
    /\ UNCHANGED <<source, disk, stores, live, offline_cache_enabled, asked>>

(* The client is replaced or scoped to the folder, with a new config_gen.      *)
SwapClient(t) ==
    LET c == asked[t] IN
    /\ Goto(t, "swap", "ok")
    /\ subsonic' =
         CASE c.op = "server" ->
                [account |-> c.account, password |-> c.password,
                 music_folder |-> before.values.music_folder_id]
           [] c.op = "folder" /\ subsonic # None ->
                [subsonic EXCEPT !.music_folder = c.id]
           [] OTHER -> subsonic
    /\ Unlock(t)
    /\ UNCHANGED <<source, disk, stores, live, offline_cache_enabled, asked>>

(* set_offline_cache_enabled: the atomic copy is stored after the transaction. *)
StoreCopy(t) ==
    /\ Goto(t, "mirror", "ok")
    /\ offline_cache_enabled' = asked[t].on
    /\ UNCHANGED <<source, disk, stores, live, subsonic, config_transactions,
                   before, candidate, asked>>

Reply(t) ==
    /\ pc[t] \in {"ok", "err"}
    /\ pc' = [pc EXCEPT ![t] = "idle"]
    /\ asked' = [asked EXCEPT ![t] = None]
    /\ UNCHANGED <<source, disk, stores, live, offline_cache_enabled, subsonic,
                   config_transactions, before, candidate>>

(* The process dies and is started again, with or without the variable and     *)
(* with a password source that can be read or not.                             *)
Restart ==
    /\ \E env \in {EnvPassword, None}, readable \in BOOLEAN :
          live' = load_from_file(disk, env, readable)
    /\ subsonic' = client_of(live')
    /\ offline_cache_enabled' = disk.values.offline_cache
    /\ config_transactions' = None
    /\ before' = None
    /\ candidate' = None
    /\ pc' = [t \in Tasks |-> "idle"]
    /\ asked' = [t \in Tasks |-> None]
    /\ UNCHANGED <<source, disk, stores>>

TaskStep(t) ==
    \/ Request(t)
    \/ refresh_music_folders(t)
    \/ Begin(t)
    \/ Reject(t)
    \/ PlaceNowhere(t)
    \/ write_password_file_atomic(t)
    \/ store(t)
    \/ KeychainUnavailable(t)
    \/ save_default(t)
    \/ SaveFails(t)
    \/ Commit(t)
    \/ ForgetOldEntry(t)
    \/ SwapClient(t)
    \/ StoreCopy(t)
    \/ Reply(t)

Next == (\E t \in Tasks : TaskStep(t)) \/ Restart

Spec == Init /\ [][Next]_vars
-----------------------------------------------------------------------------
(* Types; a task that has got past the wait holds the lock until it is done.   *)
Transacting == {"place", "save", "commit", "forget", "swap"}

TypeOK ==
    /\ source \in {"none", "file", "eval"}
    /\ disk \in OnDiskConfigs
    /\ keychain \in [Accounts -> Secrets]
    /\ password_file \in Secrets
    /\ live \in Configs
    /\ offline_cache_enabled \in BOOLEAN
    /\ subsonic \in Clients \cup {None}
    /\ config_transactions \in Tasks \cup {None}
    /\ before \in Configs \cup {None}
    /\ candidate \in Configs \cup {None}
    /\ pc \in [Tasks -> Transacting \cup {"idle", "wait", "mirror", "ok", "err"}]
    /\ asked \in [Tasks -> Changes \cup {None}]
    /\ \A t \in Tasks : pc[t] \in Transacting => config_transactions = t

(* While no transaction is open the file says what the daemon believes: a      *)
(* restart changes no setting (settings_ops.rs:200).                           *)
DiskIsLive ==
    config_transactions = None =>
        /\ disk.values = live.values
        /\ disk.keyring = live.keyring
        /\ live.from_env \/ disk = as_on_disk(live)

(* A configuration that refers to the keychain finds its password there, at    *)
(* any instant the daemon may be killed: an entry is stored before the file    *)
(* refers to it, and removed only after the file no longer does.               *)
CredentialIsFiled ==
    disk.keyring => keychain[disk.values.account] # None

(* The transient FERROSONIC_PASSWORD reaches neither the file, nor the         *)
(* keychain, nor PasswordFile (config/mod.rs:926).                             *)
EnvStaysTransient ==
    /\ disk.password # EnvPassword
    /\ password_file # EnvPassword
    /\ \A a \in Accounts : keychain[a] # EnvPassword

(* Nor does the client that serves the library differ from what the            *)
(* configuration describes: same account, same password, same folder.          *)
ClientIsLive ==
    config_transactions = None => subsonic = client_of(live)

(* Between transactions the file, the daemon and its client agree.             *)
SettingsAgree == DiskIsLive /\ ClientIsLive

(* The settings on disk change as AtomicConfig says: a change replaces only    *)
(* what was asked for, in whatever state other changes have left the rest, and *)
(* a request that was answered has taken effect or failed accordingly.         *)
Outcome(p) ==
    CASE p = "idle" -> "idle"
      [] p \in {"wait", "place", "save"} -> "open"
      [] p = "err" -> "failed"
      [] OTHER -> "done"

Atomic == INSTANCE AtomicConfig WITH settings <- disk.values, NoChange <- None,
                outcome <- [t \in Tasks |-> Outcome(pc[t])]
AtomicSpec == Atomic!Spec
=============================================================================
