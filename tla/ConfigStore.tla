------------------------------ MODULE ConfigStore ------------------------------
(***************************************************************************)
(* The configuration file that all entries of the integration share        *)
(* (password_manager.py, config_manager.py), from the set-up of an entry   *)
(* to its removal (__init__.py), and the encryption of its password in the *)
(* config flow (flow_manager.py).                                          *)
(*                                                                         *)
(* The file holds one encryption key and the data of every entry.  Every   *)
(* save reads the whole file, changes a part and writes the whole file;    *)
(* between reading and writing other coroutines run.  The writes of one    *)
(* Store, that is of one ConfigManager, happen one after the other; the    *)
(* Stores of other managers know nothing of them.  Each set-up of an entry *)
(* makes a new ConfigManager; the old one lives on in the coroutines that  *)
(* an unload leaves behind.  The data of an entry are written as a version *)
(* number: every change of them is a new version, 1 are the defaults.      *)
(***************************************************************************)
EXTENDS Integers, Sequences

CONSTANTS
    Entry,          \* the entries (accounts)
    Flow,           \* the config flow, which encrypts the password of an entry
    Key,            \* encryption keys: a bound on how many are generated
    NoKey,          \* stands for no key
    NoFile,         \* stands for the file before the first save
    AtOnce,         \* may coroutines look for a key at the same time before
                    \* there is one?
    MaxSetUps,      \* bound on the set-ups of one entry
    MaxVersion,     \* bound on the changes of the data of one entry
    MaxPending,     \* bound on the writes of one Store that are under way
    MaxCrashes      \* bound on the restarts of Home Assistant

ASSUME StoreAssumption ==
    /\ Flow \notin Entry /\ NoKey \notin Key
    /\ AtOnce \in BOOLEAN
    /\ {MaxSetUps, MaxVersion, MaxPending} \subseteq Nat \ {0}
    /\ MaxCrashes \in Nat

NoData   == 0
Defaults == 1
Version  == NoData .. MaxVersion
Manager  == Entry \X (1 .. MaxSetUps)
Proc     == Entry \cup {Flow}

(* The file: the key, the key that an old version kept with an entry, and  *)
(* the data of the entries.                                                *)
Content == [key : Key \cup {NoKey}, own : [Entry -> Key \cup {NoKey}], data : [Entry -> Version]]
Empty   == [key |-> NoKey, own |-> [e \in Entry |-> NoKey], data |-> [e \in Entry |-> NoData]]

ASSUME FileAssumption == NoFile \notin Content

VARIABLES
    file,       \* the file
    legacy,     \* the key in the file of an old version, or NoKey
    proc,       \* the coroutines that look for the key, set up or remove
    entry,      \* Home Assistant's state of each entry
    password,   \* the key that the password of each entry is encrypted with
    setUps,     \* how often each entry has been set up: its present manager
    memory,     \* ConfigManager._data of every manager
    pending,    \* the writes of every manager that are under way
    version,    \* the last version of the data of each entry
    undone,     \* history: entries whose data on file another manager has set
    lost,       \* history: keys that were lost in a crash
    crashes     \* restarts that are left

storeVars == <<file, legacy, proc, entry, password, setUps, memory, pending, version,
               undone, lost, crashes>>
disk      == <<file, legacy>>
managers  == <<setUps, memory, pending, version>>
history   == <<undone, lost, crashes>>

-------------------------------------------------------------------------------
Idle == [pc |-> "idle", key |-> NoKey, content |-> Empty]

(* What async_load returns, None as the empty file.                        *)
Loaded    == IF file = NoFile THEN Empty ELSE file
KeyOnFile == Loaded.key

(* A fresh key is one that nobody has ever had.                            *)
Held     == {KeyOnFile, legacy} \cup {Loaded.own[e] : e \in Entry}
                \cup {proc[p].key : p \in Proc} \cup {password[e] : e \in Entry} \cup lost
FreshKey == Key \ Held

OldFile(e, k) == [key |-> NoKey, own |-> [x \in Entry |-> IF x = e THEN k ELSE NoKey],
                  data |-> [x \in Entry |-> IF x = e THEN Defaults ELSE NoData]]

(* From an old installation: nothing, a key in a file of its own, or a     *)
(* file with the key in the data of one entry; entries that were encrypted *)
(* with that key.                                                          *)
StoreInit ==
    \E old \in {"none", "legacy", "own"}, k \in Key, e \in Entry :
        /\ file = IF old = "own" THEN OldFile(e, k) ELSE NoFile
        /\ legacy = IF old = "legacy" THEN k ELSE NoKey
        /\ entry = [x \in Entry |-> IF x = e /\ old # "none" THEN "unloaded" ELSE "none"]
        /\ password = [x \in Entry |-> IF x = e /\ old # "none" THEN k ELSE NoKey]
        /\ proc = [p \in Proc |-> Idle]
        /\ setUps = [x \in Entry |-> 0]
        /\ memory = [m \in Manager |-> NoData] /\ pending = [m \in Manager |-> <<>>]
        /\ version = [x \in Entry |-> Defaults]
        /\ undone = {} /\ lost = {} /\ crashes = MaxCrashes

-------------------------------------------------------------------------------
(* PasswordManager.initialize, for the set-up of an entry or for the flow. *)
Searching(p) == proc[p].pc \in {"keyLoad", "keyImport", "keySave", "keyWrite"}
MaySearch    == AtOnce \/ KeyOnFile # NoKey \/ \A p \in Proc : ~Searching(p)

Go(p, pc)           == proc' = [proc EXCEPT ![p].pc = pc]
GoWith(p, pc, key)  == proc' = [proc EXCEPT ![p].pc = pc, ![p].key = key]

(* async_setup_entry.                                                      *)
SetUp(e) ==
    /\ proc[e].pc = "idle" /\ entry[e] = "unloaded" /\ setUps[e] < MaxSetUps
    /\ MaySearch
    /\ Go(e, "keyLoad")
    /\ UNCHANGED <<disk, entry, password, managers, history>>

(* The user opens the options of an entry (decrypt) or submits the form    *)
(* (encrypt).  Options are offered of an entry that has been set up, so    *)
(* that there is a key on file: the id of the entry, which only decrypt    *)
(* passes, makes no difference then.                                       *)
Submit ==
    /\ proc[Flow].pc = "idle"
    /\ MaySearch
    /\ Go(Flow, "keyLoad")
    /\ UNCHANGED <<disk, entry, password, managers, history>>

(* Mutant: the data of the entry are taken for its key.                    *)
KeyLoadOfSection(p) ==
    /\ proc[p].pc = "keyLoad"
    /\ CASE file = NoFile -> Go(p, "keyImport")
         [] file # NoFile /\ file.key # NoKey -> GoWith(p, "keySave", file.key)
         [] file # NoFile /\ file.key = NoKey -> GoWith(p, "keySave", file.own)
    /\ UNCHANGED <<disk, entry, password, managers, history>>

(* The first load of _load_encryption_key.                                 *)
KeyLoad(p) ==
    /\ proc[p].pc = "keyLoad"
    /\ CASE file = NoFile -> Go(p, "keyImport")
         [] file # NoFile /\ file.key # NoKey -> GoWith(p, "keySave", file.key)
         [] file # NoFile /\ file.key = NoKey ->
                IF p \in Entry /\ Loaded.own[p] # NoKey
                THEN GoWith(p, "keySave", Loaded.own[p])
                ELSE \E k \in FreshKey : GoWith(p, "keySave", k)
    /\ UNCHANGED <<disk, entry, password, managers, history>>

(* Mutant: the old file is removed before its key is read.                 *)
KeyImportTooLate(p) ==
    /\ proc[p].pc = "keyImport"
    /\ \E k \in FreshKey : GoWith(p, "keySave", k)
    /\ legacy' = NoKey
    /\ UNCHANGED <<file, entry, password, managers, history>>

(* _import_encryption_key takes the key of an old version and removes its  *)
(* file; without one, a key is generated.                                  *)
KeyImport(p) ==
    /\ proc[p].pc = "keyImport"
    /\ IF legacy # NoKey THEN GoWith(p, "keySave", legacy)
                         ELSE \E k \in FreshKey : GoWith(p, "keySave", k)
    /\ legacy' = NoKey
    /\ UNCHANGED <<file, entry, password, managers, history>>

(* PasswordManager._save: the key on file is compared and replaced.        *)
KeySave(p) ==
    /\ proc[p].pc = "keySave"
    /\ IF KeyOnFile = proc[p].key
       THEN Go(p, "ready")
       ELSE proc' = [proc EXCEPT ![p].pc = "keyWrite",
                                 ![p].content = [Loaded EXCEPT !.key = proc[p].key]]
    /\ UNCHANGED <<disk, entry, password, managers, history>>

KeyWrite(p) ==
    /\ proc[p].pc = "keyWrite"
    /\ file' = proc[p].content
    /\ proc' = [proc EXCEPT ![p].pc = "ready", ![p].content = Empty]
    /\ undone' = undone \cup {e \in Entry : proc[p].content.data[e] # Loaded.data[e]}
    /\ UNCHANGED <<legacy, entry, password, managers, lost, crashes>>

(* The flow encrypts the password, of a new entry or of one whose options  *)
(* are changed.                                                            *)
Encrypt(e) ==
    /\ proc[Flow].pc = "ready"
    /\ entry[e] # "removed"
    /\ password' = [password EXCEPT ![e] = proc[Flow].key]
    /\ entry' = [entry EXCEPT ![e] = IF entry[e] = "none" THEN "unloaded" ELSE entry[e]]
    /\ proc' = [proc EXCEPT ![Flow] = Idle]
    /\ UNCHANGED <<disk, managers, history>>

(* The form of the options shows the password, or the error that it cannot *)
(* be read.                                                                *)
ShowForm ==
    /\ proc[Flow].pc = "ready"
    /\ proc' = [proc EXCEPT ![Flow] = Idle]
    /\ UNCHANGED <<disk, entry, password, managers, history>>

(* The set-up decrypts the password; an InvalidToken ends it.              *)
Decrypt(e) ==
    /\ proc[e].pc = "ready"
    /\ IF proc[e].key = password[e] THEN Go(e, "dataLoad")
                                    ELSE proc' = [proc EXCEPT ![e] = Idle]
    /\ UNCHANGED <<disk, entry, password, managers, history>>

-------------------------------------------------------------------------------
(* The ConfigManager of a set-up.                                          *)
Present(e)  == <<e, setUps[e]>>

(* Mutant: what other entries and the password manager have put into the   *)
(* file is not taken over.                                                 *)
ComposedAlone(m, v) ==
    IF Loaded.data[m[1]] = v THEN <<>> ELSE <<[Empty EXCEPT !.data[m[1]] = v]>>

(* Mutant: only what is not on file yet is saved.                          *)
ComposedOnce(m, v) ==
    IF Loaded.data[m[1]] # NoData THEN <<>> ELSE <<[Loaded EXCEPT !.data[m[1]] = v]>>

(* What _save makes of the file for a manager with these data: nothing if  *)
(* they are on file already.                                               *)
Composed(m, v) ==
    IF Loaded.data[m[1]] = v THEN <<>> ELSE <<[Loaded EXCEPT !.data[m[1]] = v]>>

(* ConfigManager._load: defaults are saved before the set-up goes on.      *)
DataLoad(e) ==
    LET m == <<e, setUps[e] + 1>>
        v == IF Loaded.data[e] = NoData THEN Defaults ELSE Loaded.data[e]
    IN  /\ proc[e].pc = "dataLoad" /\ setUps[e] < MaxSetUps
        /\ setUps' = [setUps EXCEPT ![e] = @ + 1]
        /\ memory' = [memory EXCEPT ![m] = v]
        /\ pending' = [pending EXCEPT ![m] = Composed(m, v)]
        /\ undone' = undone \ {e}
        /\ Go(e, "defaults")
        /\ UNCHANGED <<disk, entry, password, version, lost, crashes>>

(* The end of the set-up, once the defaults are saved.  When the           *)
(* coordinator raises an error, the set-up has failed, but the coordinator *)
(* is in hass.data.                                                        *)
Initialized(e) ==
    /\ proc[e].pc = "defaults" /\ pending[Present(e)] = <<>>
    /\ \E state \in {"loaded", "failed"} : entry' = [entry EXCEPT ![e] = state]
    /\ proc' = [proc EXCEPT ![e] = Idle]
    /\ UNCHANGED <<disk, password, managers, history>>

(* The data of a manager change and are saved: tokens, serial numbers,     *)
(* cycle times, locating.  A manager of an earlier set-up does so in the   *)
(* coroutines that outlive an unload.                                      *)
Change(m) ==
    LET e == m[1]
        v == version[e] + 1
    IN  /\ memory[m] # NoData /\ v <= MaxVersion /\ Len(pending[m]) < MaxPending
        /\ ~(m = Present(e) /\ proc[e].pc = "defaults")
        /\ version' = [version EXCEPT ![e] = v]
        /\ memory' = [memory EXCEPT ![m] = v]
        /\ pending' = [pending EXCEPT ![m] = @ \o Composed(m, v)]
        /\ UNCHANGED <<disk, proc, entry, password, setUps, history>>

(* A write of a manager reaches the disk.                                  *)
Write(m) ==
    LET e == m[1]
        content == Head(pending[m])
    IN  /\ pending[m] # <<>>
        /\ file' = content
        /\ pending' = [pending EXCEPT ![m] = Tail(@)]
        /\ undone' = IF m = Present(e) THEN (undone \ {e}) \cup {x \in Entry \ {e} : content.data[x] # Loaded.data[x]}
                                       ELSE undone \cup {x \in Entry : content.data[x] # Loaded.data[x]}
        /\ UNCHANGED <<legacy, proc, entry, password, setUps, memory, version, lost, crashes>>

-------------------------------------------------------------------------------
(* async_unload_entry.                                                     *)
Unload(e) ==
    /\ entry[e] = "loaded"
    /\ entry' = [entry EXCEPT ![e] = "unloaded"]
    /\ UNCHANGED <<disk, proc, password, managers, history>>

(* Home Assistant unloads an entry before it removes it; async_remove_entry*)
(* then finds no coordinator, and the data stay on file.                   *)
Remove(e) ==
    /\ entry[e] = "unloaded" /\ proc[e].pc = "idle"
    /\ entry' = [entry EXCEPT ![e] = "removed"]
    /\ password' = [password EXCEPT ![e] = NoKey]
    /\ UNCHANGED <<disk, proc, managers, history>>

(* An entry whose set-up has failed is not unloaded: its coordinator is    *)
(* found, and ConfigManager.remove takes the data off the file.            *)
RemoveFailed(e) ==
    /\ entry[e] = "failed" /\ proc[e].pc = "idle"
    /\ entry' = [entry EXCEPT ![e] = "removed"]
    /\ password' = [password EXCEPT ![e] = NoKey]
    /\ LET m == Present(e) IN
       pending' = IF file # NoFile /\ file.data[e] # NoData
                  THEN [pending EXCEPT ![m] = Append(@, [file EXCEPT !.data[e] = NoData, !.own[e] = NoKey])]
                  ELSE pending
    /\ UNCHANGED <<disk, proc, setUps, memory, version, history>>

(* Home Assistant stops in the middle of anything and starts again.  A key *)
(* that has been taken from its old place and not been written is lost.    *)
Crash ==
    /\ crashes > 0
    /\ crashes' = crashes - 1
    /\ lost' = lost \cup ({proc[p].key : p \in {q \in Proc : Searching(q)}} \ {NoKey, KeyOnFile})
    /\ proc' = [p \in Proc |-> Idle]
    /\ entry' = [e \in Entry |-> IF entry[e] \in {"loaded", "failed"} THEN "unloaded" ELSE entry[e]]
    /\ setUps' = [e \in Entry |-> 0]
    /\ memory' = [m \in Manager |-> NoData]
    /\ pending' = [m \in Manager |-> <<>>]
    /\ UNCHANGED <<disk, password, version, undone>>

StoreNext ==
    \/ \E e \in Entry : \/ SetUp(e) \/ Encrypt(e) \/ Decrypt(e) \/ DataLoad(e) \/ Initialized(e)
                        \/ Unload(e) \/ Remove(e) \/ RemoveFailed(e)
    \/ Submit \/ ShowForm
    \/ \E p \in Proc : KeyLoad(p) \/ KeyImport(p) \/ KeySave(p) \/ KeyWrite(p)
    \/ \E m \in Manager : Change(m) \/ Write(m)
    \/ Crash

StoreSpec == StoreInit /\ [][StoreNext]_storeVars

-------------------------------------------------------------------------------
StoreTypeOK ==
    /\ file \in Content \cup {NoFile}
    /\ legacy \in Key \cup {NoKey}
    /\ proc \in [Proc -> [pc : {"idle", "keyLoad", "keyImport", "keySave", "keyWrite", "ready", "dataLoad", "defaults"},
                          key : Key \cup {NoKey}, content : Content]]
    /\ entry \in [Entry -> {"none", "unloaded", "loaded", "failed", "removed"}]
    /\ password \in [Entry -> Key \cup {NoKey}]
    /\ setUps \in [Entry -> 0 .. MaxSetUps]
    /\ memory \in [Manager -> Version]
    /\ pending \in [Manager -> Seq(Content)]
    /\ version \in [Entry -> Version]
    /\ undone \subseteq Entry /\ lost \subseteq Key
    /\ crashes \in 0 .. MaxCrashes

(* A password that Home Assistant stores can be read: its key is the one   *)
(* on file or that of an old version; or a coroutine is about to write it, *)
(* or a crash has lost it between its removal and its writing.             *)
PasswordsReadable ==
    \A e \in Entry : password[e] # NoKey =>
        password[e] \in lost \cup {Loaded.own[e]} \cup
            IF KeyOnFile # NoKey THEN {KeyOnFile}
                                 ELSE {legacy} \cup {proc[p].key : p \in Proc}

(* When no save is under way, what is on file of an entry that is set up   *)
(* is what its manager has in memory, unless another manager that had read *)
(* the file before has put older data back.                                *)
SavedAtRest ==
    \A e \in Entry :
        /\ entry[e] \in {"loaded", "failed"} /\ setUps[e] > 0 /\ e \notin undone
        /\ \A m \in Manager : pending[m] = <<>>
        => Loaded.data[e] = memory[Present(e)]

(* The key on file is chosen once and stays (WriteOnce).                   *)
Written == INSTANCE WriteOnce WITH value <- KeyOnFile, Values <- Key, None <- NoKey
KeyStays == Written!Spec

================================================================================
