--------------------------- MODULE ConfigStoreProofs --------------------------
(***************************************************************************)
(* Proofs about ConfigStore for any entries and keys and any number of     *)
(* set-ups, saves and restarts.  What is proved of the key needs that no   *)
(* two coroutines look for one at the same time before there is one.       *)
(***************************************************************************)
EXTENDS ConfigStore, TLAPS

-------------------------------------------------------------------------------
(* The file and the states of the coroutines.                              *)
State == {"idle", "keyLoad", "keyImport", "keySave", "keyWrite", "ready", "dataLoad", "defaults"}

LEMMA EmptyType == Empty \in Content
  BY StoreAssumption DEF Empty, Content, Version, NoData

LEMMA LoadedType ==
    ASSUME StoreTypeOK
    PROVE  Loaded \in Content
  BY EmptyType DEF StoreTypeOK, Loaded

LEMMA FreshKeyType == FreshKey \subseteq Key
  BY DEF FreshKey

LEMMA GoType ==
    ASSUME StoreTypeOK, NEW p \in Proc, NEW pc \in State, NEW key \in Key \cup {NoKey},
           Go(p, pc) \/ GoWith(p, pc, key)
    PROVE  proc' \in [Proc -> [pc : State, key : Key \cup {NoKey}, content : Content]]
<1>1. CASE Go(p, pc)
  BY <1>1 DEF StoreTypeOK, Go, State
<1>2. CASE GoWith(p, pc, key)
  <2> DEFINE r == [proc[p] EXCEPT !.pc = pc, !.key = key]
  <2>1. proc[p] \in [pc : State, key : Key \cup {NoKey}, content : Content]
    BY DEF StoreTypeOK, State
  <2>2. r \in [pc : State, key : Key \cup {NoKey}, content : Content]
    BY <2>1
  <2>3. proc' = [proc EXCEPT ![p] = r]
    BY <1>2, <2>1 DEF GoWith, StoreTypeOK
  <2> HIDE DEF r
  <2> QED BY <2>2, <2>3 DEF StoreTypeOK, State
<1> QED BY <1>1, <1>2

LEMMA IdleType ==
    ASSUME StoreTypeOK, NEW p \in Proc, proc' = [proc EXCEPT ![p] = Idle]
    PROVE  proc' \in [Proc -> [pc : State, key : Key \cup {NoKey}, content : Content]]
  BY EmptyType DEF StoreTypeOK, Idle, State

LEMMA ComposedType ==
    ASSUME StoreTypeOK, NEW m \in Manager, NEW v \in Version
    PROVE  Composed(m, v) \in Seq(Content)
<1>1. [Loaded EXCEPT !.data[m[1]] = v] \in Content
  BY LoadedType DEF Content, Manager
<1> QED BY <1>1 DEF Composed

LEMMA PresentType ==
    ASSUME StoreTypeOK, NEW e \in Entry
    PROVE  /\ setUps[e] > 0 => Present(e) \in Manager
           /\ setUps[e] < MaxSetUps => <<e, setUps[e] + 1>> \in Manager
  BY StoreAssumption DEF StoreTypeOK, Present, Manager

-------------------------------------------------------------------------------
LEMMA SearchType ==
    ASSUME StoreTypeOK, NEW p \in Proc,
           (p \in Entry /\ SetUp(p)) \/ Submit \/ ShowForm \/ KeyLoad(p) \/ KeyImport(p) \/ KeySave(p) \/ KeyWrite(p)
    PROVE  StoreTypeOK'
<1>1. CASE p \in Entry /\ SetUp(p)
  <2>1. proc' \in [Proc -> [pc : State, key : Key \cup {NoKey}, content : Content]]
    BY <1>1, GoType DEF SetUp, State
  <2> QED BY <1>1, <2>1 DEF SetUp, StoreTypeOK, State, disk, managers, history
<1>2. CASE Submit
  <2>1. proc' \in [Proc -> [pc : State, key : Key \cup {NoKey}, content : Content]]
    BY <1>2, GoType DEF Submit, State, Proc
  <2> QED BY <1>2, <2>1 DEF Submit, StoreTypeOK, State, disk, managers, history
<1>3. CASE KeyLoad(p)
  <2>1. \/ Go(p, "keyImport")
        \/ \E k \in Key : GoWith(p, "keySave", k)
    <3>1. file # NoFile => file \in Content
      BY DEF StoreTypeOK
    <3>2. p \in Entry => Loaded.own[p] \in Key \cup {NoKey}
      BY LoadedType DEF Content
    <3> QED BY <1>3, <3>1, <3>2, FreshKeyType DEF KeyLoad, Content
  <2>2. proc' \in [Proc -> [pc : State, key : Key \cup {NoKey}, content : Content]]
    BY <2>1, GoType DEF State
  <2> QED BY <1>3, <2>2 DEF KeyLoad, StoreTypeOK, State, disk, managers, history
<1>4. CASE KeyImport(p)
  <2>1. \E k \in Key : GoWith(p, "keySave", k)
    BY <1>4, FreshKeyType DEF KeyImport, StoreTypeOK
  <2>2. proc' \in [Proc -> [pc : State, key : Key \cup {NoKey}, content : Content]]
    BY <2>1, GoType DEF State
  <2> QED BY <1>4, <2>2 DEF KeyImport, StoreTypeOK, State, managers, history
<1>5. CASE KeySave(p)
  <2>1. proc' \in [Proc -> [pc : State, key : Key \cup {NoKey}, content : Content]]
    <3>1. CASE Go(p, "ready")
      BY <3>1, GoType DEF State
    <3>2. CASE ~Go(p, "ready")
      <4>1. [Loaded EXCEPT !.key = proc[p].key] \in Content
        BY LoadedType DEF StoreTypeOK, Content
      <4> DEFINE c == [Loaded EXCEPT !.key = proc[p].key]
                 r == [proc[p] EXCEPT !.pc = "keyWrite", !.content = c]
      <4>2. proc[p] \in [pc : State, key : Key \cup {NoKey}, content : Content]
        BY DEF StoreTypeOK, State
      <4>3. c \in Content
        BY <4>1
      <4>4. proc' = [proc EXCEPT ![p].pc = "keyWrite", ![p].content = c]
        BY <1>5, <3>2 DEF KeySave
      <4> HIDE DEF c
      <4>5. r \in [pc : State, key : Key \cup {NoKey}, content : Content]
        BY <4>2, <4>3 DEF State
      <4>6. proc' = [proc EXCEPT ![p] = r]
        BY <4>2, <4>4 DEF StoreTypeOK
      <4> HIDE DEF r
      <4> QED BY <4>5, <4>6 DEF StoreTypeOK, State
    <3> QED BY <3>1, <3>2
  <2> QED BY <1>5, <2>1 DEF KeySave, StoreTypeOK, State, disk, managers, history
<1>6. CASE KeyWrite(p)
  <2>1. proc' \in [Proc -> [pc : State, key : Key \cup {NoKey}, content : Content]]
    BY <1>6, EmptyType DEF KeyWrite, StoreTypeOK, State
  <2>2. file' \in Content /\ undone' \subseteq Entry
    BY <1>6 DEF KeyWrite, StoreTypeOK
  <2> QED BY <1>6, <2>1, <2>2 DEF KeyWrite, StoreTypeOK, State, managers
<1>7. CASE ShowForm
  <2>1. proc' \in [Proc -> [pc : State, key : Key \cup {NoKey}, content : Content]]
    BY <1>7, IdleType DEF ShowForm, Proc
  <2> QED BY <1>7, <2>1 DEF ShowForm, StoreTypeOK, State, disk, managers, history
<1> QED BY <1>1, <1>2, <1>3, <1>4, <1>5, <1>6, <1>7

LEMMA EntryType ==
    ASSUME StoreTypeOK, NEW e \in Entry,
           Encrypt(e) \/ Decrypt(e) \/ DataLoad(e) \/ Initialized(e) \/ Unload(e) \/ Remove(e) \/ RemoveFailed(e)
    PROVE  StoreTypeOK'
<1> e \in Proc /\ Flow \in Proc
  BY DEF Proc
<1>1. CASE Encrypt(e)
  <2>1. proc' \in [Proc -> [pc : State, key : Key \cup {NoKey}, content : Content]]
    BY <1>1, IdleType DEF Encrypt
  <2>2. /\ password' \in [Entry -> Key \cup {NoKey}]
        /\ entry' \in [Entry -> {"none", "unloaded", "loaded", "failed", "removed"}]
    BY <1>1 DEF Encrypt, StoreTypeOK
  <2> QED BY <1>1, <2>1, <2>2 DEF Encrypt, StoreTypeOK, State, disk, managers, history
<1>2. CASE Decrypt(e)
  <2>1. proc' \in [Proc -> [pc : State, key : Key \cup {NoKey}, content : Content]]
    BY <1>2, IdleType, GoType DEF Decrypt, State
  <2> QED BY <1>2, <2>1 DEF Decrypt, StoreTypeOK, State, disk, managers, history
<1>3. CASE DataLoad(e)
  <2> DEFINE m == <<e, setUps[e] + 1>>
             v == IF Loaded.data[e] = NoData THEN Defaults ELSE Loaded.data[e]
  <2>1. m \in Manager /\ v \in Version
    BY <1>3, PresentType, LoadedType, StoreAssumption DEF DataLoad, Content, Version, Defaults, NoData
  <2>2. Composed(m, v) \in Seq(Content)
    BY <2>1, ComposedType
  <2>3. proc' \in [Proc -> [pc : State, key : Key \cup {NoKey}, content : Content]]
    BY <1>3, GoType DEF DataLoad, State
  <2>4. /\ setUps' = [setUps EXCEPT ![e] = @ + 1] /\ setUps[e] < MaxSetUps
        /\ memory' = [memory EXCEPT ![m] = v]
        /\ pending' = [pending EXCEPT ![m] = Composed(m, v)] /\ undone' = undone \ {e}
        /\ UNCHANGED <<disk, entry, password, version, lost, crashes>>
    BY <1>3 DEF DataLoad
  <2> HIDE DEF m, v
  <2>5. setUps' \in [Entry -> 0 .. MaxSetUps]
    BY <2>4, StoreAssumption DEF StoreTypeOK
  <2> QED BY <2>1, <2>2, <2>3, <2>4, <2>5 DEF StoreTypeOK, State, disk
<1>4. CASE Initialized(e)
  <2>1. proc' \in [Proc -> [pc : State, key : Key \cup {NoKey}, content : Content]]
    BY <1>4, IdleType DEF Initialized
  <2>2. entry' \in [Entry -> {"none", "unloaded", "loaded", "failed", "removed"}]
    BY <1>4 DEF Initialized, StoreTypeOK
  <2> QED BY <1>4, <2>1, <2>2 DEF Initialized, StoreTypeOK, State, disk, managers, history
<1>5. CASE Unload(e) \/ Remove(e)
  BY <1>5 DEF Unload, Remove, StoreTypeOK, disk, managers, history
<1>6. CASE RemoveFailed(e)
  <2>1. pending' \in [Manager -> Seq(Content)]
    <3>1. CASE file # NoFile /\ file.data[e] # NoData
      <4> DEFINE c == [file EXCEPT !.data[e] = NoData, !.own[e] = NoKey]
                 m == Present(e)
      <4>1. c \in Content
        <5>1. /\ file \in [key : Key \cup {NoKey}, own : [Entry -> Key \cup {NoKey}], data : [Entry -> Version]]
              /\ NoData \in Version
          BY <3>1, StoreAssumption DEF StoreTypeOK, Content, Version, NoData
        <5>2. /\ [file.own EXCEPT ![e] = NoKey] \in [Entry -> Key \cup {NoKey}]
              /\ [file.data EXCEPT ![e] = NoData] \in [Entry -> Version]
          BY <5>1
        <5>3. c = [file EXCEPT !.data = [file.data EXCEPT ![e] = NoData], !.own = [file.own EXCEPT ![e] = NoKey]]
          BY <5>1
        <5> HIDE DEF c
        <5> QED BY <5>1, <5>2, <5>3 DEF Content
      <4>2. pending' = [pending EXCEPT ![m] = Append(@, c)]
        BY <1>6, <3>1 DEF RemoveFailed
      <4> HIDE DEF c, m
      <4>3. m \in Manager => Append(pending[m], c) \in Seq(Content)
        BY <4>1 DEF StoreTypeOK
      <4> QED BY <4>2, <4>3 DEF StoreTypeOK
    <3>2. CASE ~(file # NoFile /\ file.data[e] # NoData)
      BY <1>6, <3>2 DEF RemoveFailed, StoreTypeOK
    <3> QED BY <3>1, <3>2
  <2> QED BY <1>6, <2>1 DEF RemoveFailed, StoreTypeOK, disk, history
<1> QED BY <1>1, <1>2, <1>3, <1>4, <1>5, <1>6

LEMMA ManagerType ==
    ASSUME StoreTypeOK, NEW m \in Manager, Change(m) \/ Write(m)
    PROVE  StoreTypeOK'
<1>1. m[1] \in Entry
  BY DEF Manager
<1>2. CASE Change(m)
  <2> DEFINE v == version[m[1]] + 1
  <2>1. v \in Version
    BY <1>1, <1>2, StoreAssumption DEF Change, StoreTypeOK, Version, NoData
  <2>2. Composed(m, v) \in Seq(Content)
    BY <2>1, ComposedType
  <2>3. /\ version' = [version EXCEPT ![m[1]] = v] /\ memory' = [memory EXCEPT ![m] = v]
        /\ pending' = [pending EXCEPT ![m] = @ \o Composed(m, v)]
        /\ UNCHANGED <<disk, proc, entry, password, setUps, history>>
    BY <1>2 DEF Change
  <2> HIDE DEF v
  <2>4. pending' \in [Manager -> Seq(Content)]
    BY <2>2, <2>3 DEF StoreTypeOK
  <2> QED BY <2>1, <2>3, <2>4 DEF StoreTypeOK, disk, history
<1>3. CASE Write(m)
  <2>1. pending[m] \in Seq(Content) /\ pending[m] # <<>>
    BY <1>3 DEF Write, StoreTypeOK
  <2>2. Head(pending[m]) \in Content /\ Tail(pending[m]) \in Seq(Content)
    BY <2>1
  <2>3. undone' \subseteq Entry
    BY <1>3 DEF Write, StoreTypeOK
  <2>4. pending' \in [Manager -> Seq(Content)]
    BY <1>3, <2>2 DEF Write, StoreTypeOK
  <2> QED BY <1>3, <2>2, <2>3, <2>4 DEF Write, StoreTypeOK
<1> QED BY <1>2, <1>3

LEMMA CrashType ==
    ASSUME StoreTypeOK, Crash
    PROVE  StoreTypeOK'
<1>1. proc' \in [Proc -> [pc : State, key : Key \cup {NoKey}, content : Content]]
  BY EmptyType DEF Crash, Idle, State
<1>2. /\ setUps' \in [Entry -> 0 .. MaxSetUps] /\ memory' \in [Manager -> Version]
      /\ pending' \in [Manager -> Seq(Content)] /\ crashes' \in 0 .. MaxCrashes
  BY StoreAssumption DEF Crash, StoreTypeOK, Version, NoData
<1>3. lost' \subseteq Key
  BY DEF Crash, StoreTypeOK
<1>4. entry' \in [Entry -> {"none", "unloaded", "loaded", "failed", "removed"}]
  BY DEF Crash, StoreTypeOK
<1> QED BY <1>1, <1>2, <1>3, <1>4 DEF Crash, StoreTypeOK, State, disk

LEMMA StoreTypeStep ==
    ASSUME StoreTypeOK, [StoreNext]_storeVars
    PROVE  StoreTypeOK'
<1>1. CASE UNCHANGED storeVars
  BY <1>1 DEF storeVars, StoreTypeOK
<1>2. CASE StoreNext
  <2>1. Entry \subseteq Proc /\ Flow \in Proc
    BY DEF Proc
  <2> QED BY <1>2, <2>1, SearchType, EntryType, ManagerType, CrashType DEF StoreNext
<1> QED BY <1>1, <1>2

LEMMA OldFileType ==
    ASSUME NEW e \in Entry, NEW k \in Key
    PROVE  OldFile(e, k) \in Content
<1>1. Defaults \in Version /\ NoData \in Version
  BY StoreAssumption DEF Version, Defaults, NoData
<1> QED BY <1>1 DEF OldFile, Content

LEMMA StoreInitType ==
    ASSUME StoreInit
    PROVE  StoreTypeOK
<1>1. PICK old \in {"none", "legacy", "own"}, k \in Key, e \in Entry :
        /\ file = IF old = "own" THEN OldFile(e, k) ELSE NoFile
        /\ legacy = IF old = "legacy" THEN k ELSE NoKey
        /\ entry = [x \in Entry |-> IF x = e /\ old # "none" THEN "unloaded" ELSE "none"]
        /\ password = [x \in Entry |-> IF x = e /\ old # "none" THEN k ELSE NoKey]
        /\ proc = [p \in Proc |-> Idle]
        /\ setUps = [x \in Entry |-> 0]
        /\ memory = [m \in Manager |-> NoData] /\ pending = [m \in Manager |-> <<>>]
        /\ version = [x \in Entry |-> Defaults]
        /\ undone = {} /\ lost = {} /\ crashes = MaxCrashes
  BY Zenon DEF StoreInit
<1>2. file \in Content \cup {NoFile}
  BY <1>1, OldFileType
<1>3. /\ legacy \in Key \cup {NoKey} /\ password \in [Entry -> Key \cup {NoKey}]
      /\ entry \in [Entry -> {"none", "unloaded", "loaded", "failed", "removed"}]
  BY <1>1
<1>4. proc \in [Proc -> [pc : State, key : Key \cup {NoKey}, content : Content]]
  BY <1>1, EmptyType DEF Idle, State
<1>5. /\ setUps \in [Entry -> 0 .. MaxSetUps] /\ memory \in [Manager -> Version]
      /\ pending \in [Manager -> Seq(Content)] /\ version \in [Entry -> Version]
      /\ crashes \in 0 .. MaxCrashes /\ undone = {} /\ lost = {}
  BY <1>1, StoreAssumption DEF Version, NoData, Defaults
<1> QED BY <1>2, <1>3, <1>4, <1>5 DEF StoreTypeOK, State

(* Every variable keeps its type: what is on file, what is being written,  *)
(* the states of the entries.                                              *)
THEOREM StoreTypes == StoreSpec => []StoreTypeOK
<1>1. StoreInit => StoreTypeOK
  BY StoreInitType
<1>2. StoreTypeOK /\ [StoreNext]_storeVars => StoreTypeOK'
  BY StoreTypeStep
<1> QED BY <1>1, <1>2, PTL DEF StoreSpec

-------------------------------------------------------------------------------
(* The writes that are under way.                                          *)
Writes(m) == {pending[m][i] : i \in 1 .. Len(pending[m])}

(* While there is no key on file, one coroutine at most looks for it, and  *)
(* no manager exists; once there is one, everything that is about to be    *)
(* written carries it.                                                     *)
SearchersInv ==
    /\ \A p \in Proc : proc[p].pc \in {"idle", "keyLoad", "keyImport"} => proc[p].key = NoKey
    /\ \A p \in Proc : proc[p].pc \in {"keySave", "keyWrite"} => proc[p].key # NoKey
    /\ \A p \in Proc : proc[p].pc = "keyImport" => file = NoFile
    /\ \A p \in Proc : proc[p].pc = "keyWrite" =>
            /\ KeyOnFile = NoKey /\ proc[p].content.key = proc[p].key
            /\ \A x \in Entry : proc[p].content.own[x] = Loaded.own[x]
    /\ \A p \in Proc : proc[p].pc \in {"keySave", "ready"} /\ KeyOnFile # NoKey => proc[p].key = KeyOnFile
    /\ \A p \in Proc : proc[p].pc \in {"ready", "dataLoad", "defaults"} => KeyOnFile # NoKey
    /\ KeyOnFile = NoKey => \A p, q \in Proc : Searching(p) /\ Searching(q) => p = q

LegacyInv ==
    legacy # NoKey => file = NoFile /\ \A p \in Proc : proc[p].pc \notin {"keySave", "keyWrite"}

EntriesInv ==
    /\ \A e \in Entry : entry[e] \in {"loaded", "failed"} => KeyOnFile # NoKey
    /\ \A e \in Entry : proc[e].pc # "idle" => entry[e] = "unloaded"
    /\ \A e \in Entry : password[e] # NoKey => entry[e] # "removed"

WritesInv ==
    /\ \A m \in Manager : memory[m] # NoData => KeyOnFile # NoKey
    /\ \A m \in Manager : \A c \in Writes(m) :
            /\ KeyOnFile # NoKey /\ c.key = KeyOnFile
            /\ \A x \in Entry : entry[x] # "removed" => c.own[x] = Loaded.own[x]

KeyInv == SearchersInv /\ LegacyInv /\ EntriesInv /\ WritesInv

LEMMA Appended ==
    ASSUME StoreTypeOK, NEW m \in Manager, NEW n \in Manager, NEW c \in Content,
           pending' = [pending EXCEPT ![n] = @ \o <<c>>]
    PROVE  /\ Writes(m)' \subseteq Writes(m) \cup {c}
           /\ m # n => pending'[m] = pending[m]
           /\ pending'[n] # <<>> /\ pending'[n][Len(pending'[n])] = c
<1> DEFINE s == pending[n]
<1>1. s \in Seq(Content)
  BY DEF StoreTypeOK
<1>2. pending'[n] = s \o <<c>> /\ (m # n => pending'[m] = pending[m])
  BY DEF StoreTypeOK
<1> HIDE DEF s
<1>3. /\ Len(s) \in Nat /\ Len(s \o <<c>>) = Len(s) + 1 /\ (s \o <<c>>)[Len(s) + 1] = c
      /\ s \o <<c>> # <<>> /\ \A i \in 1 .. Len(s) : (s \o <<c>>)[i] = s[i]
  BY <1>1
<1>4. CASE m # n
  BY <1>2, <1>3, <1>4 DEF Writes
<1>5. CASE m = n
  <2>1. ASSUME NEW i \in 1 .. Len(s) + 1
        PROVE  (s \o <<c>>)[i] \in Writes(n) \cup {c}
    BY <1>3 DEF Writes, s
  <2> QED BY <1>2, <1>3, <1>5, <2>1 DEF Writes
<1> QED BY <1>4, <1>5

LEMMA Shortened ==
    ASSUME StoreTypeOK, NEW m \in Manager, NEW n \in Manager, pending[n] # <<>>,
           pending' = [pending EXCEPT ![n] = Tail(@)]
    PROVE  /\ Writes(m)' \subseteq Writes(m) /\ Head(pending[n]) \in Writes(n)
           /\ m # n => pending'[m] = pending[m]
           /\ Head(pending[n]) \in Content
           /\ pending'[n] # <<>> => pending'[n][Len(pending'[n])] = pending[n][Len(pending[n])]
           /\ pending'[n] = <<>> => Head(pending[n]) = pending[n][Len(pending[n])]
<1> DEFINE s == pending[n]
<1>1. s \in Seq(Content) /\ s # <<>>
  BY DEF StoreTypeOK
<1>2. pending'[n] = Tail(s) /\ (m # n => pending'[m] = pending[m])
  BY DEF StoreTypeOK
<1> HIDE DEF s
<1>3. /\ Len(s) \in Nat \ {0} /\ Len(Tail(s)) = Len(s) - 1 /\ Head(s) = s[1] /\ s[1] \in Content
      /\ \A i \in 1 .. Len(s) - 1 : Tail(s)[i] = s[i + 1]
      /\ Tail(s) = <<>> => Len(s) = 1
      /\ Tail(s) # <<>> => Len(s) > 1
  <2>1. Len(s) \in Nat \ {0}
    BY <1>1
  <2>2. Len(Tail(s)) = Len(s) - 1 /\ Head(s) = s[1] /\ Tail(s) \in Seq(Content)
    BY <1>1, <2>1
  <2>3. s[1] \in Content
    BY <1>1, <2>1
  <2>4. \A i \in 1 .. Len(s) - 1 : Tail(s)[i] = s[i + 1]
    BY <1>1, <2>1
  <2>5. Tail(s) = <<>> <=> Len(Tail(s)) = 0
    BY <2>2
  <2> QED BY <2>1, <2>2, <2>3, <2>4, <2>5
<1>4. Writes(n)' \subseteq Writes(n) /\ Head(s) \in Writes(n)
  <2>1. Writes(n)' = {Tail(s)[i] : i \in 1 .. Len(s) - 1}
    BY <1>2, <1>3 DEF Writes
  <2>2. \A i \in 1 .. Len(s) - 1 : i + 1 \in 1 .. Len(s)
    BY <1>3
  <2>3. 1 \in 1 .. Len(s)
    BY <1>3
  <2> QED BY <1>3, <2>1, <2>2, <2>3 DEF Writes, s
<1>5. m # n => Writes(m)' = Writes(m)
  BY <1>2 DEF Writes
<1>6. Tail(s) # <<>> => Tail(s)[Len(Tail(s))] = s[Len(s)]
  BY <1>3
<1> QED BY <1>2, <1>3, <1>4, <1>5, <1>6 DEF s

(* What is on file after a write.                                          *)
LEMMA LoadedAfter ==
    ASSUME file' \in Content
    PROVE  Loaded' = file' /\ KeyOnFile' = file'.key
  BY FileAssumption DEF Loaded, KeyOnFile

LEMMA LoadedSame ==
    ASSUME file' = file
    PROVE  Loaded' = Loaded /\ KeyOnFile' = KeyOnFile
  BY DEF Loaded, KeyOnFile

LEMMA NoKeyInNoFile == file = NoFile => KeyOnFile = NoKey
  BY DEF KeyOnFile, Loaded, Empty

LEMMA WritesSame ==
    ASSUME pending' = pending
    PROVE  \A m \in Manager : Writes(m)' = Writes(m)
  BY DEF Writes

LEMMA Members ==
    /\ Entry \subseteq Proc /\ Flow \in Proc /\ Flow \notin Entry /\ NoKey \notin Key
    /\ FreshKey \subseteq Key
  BY StoreAssumption DEF Proc, FreshKey

(* What becomes of the coroutines when one goes on.                        *)
LEMMA GoEffect ==
    ASSUME StoreTypeOK, NEW p \in Proc, NEW pc, Go(p, pc), NEW q \in Proc
    PROVE  /\ proc'[q].pc = IF q = p THEN pc ELSE proc[q].pc
           /\ proc'[q].key = proc[q].key /\ proc'[q].content = proc[q].content
  BY DEF StoreTypeOK, Go

LEMMA GoWithEffect ==
    ASSUME StoreTypeOK, NEW p \in Proc, NEW pc, NEW key, GoWith(p, pc, key), NEW q \in Proc
    PROVE  /\ proc'[q].pc = IF q = p THEN pc ELSE proc[q].pc
           /\ proc'[q].key = IF q = p THEN key ELSE proc[q].key
           /\ proc'[q].content = proc[q].content
<1> DEFINE r == [proc[p] EXCEPT !.pc = pc, !.key = key]
<1>1. proc[p] \in [pc : State, key : Key \cup {NoKey}, content : Content]
  BY DEF StoreTypeOK, State
<1>2. r.pc = pc /\ r.key = key /\ r.content = proc[p].content
  BY <1>1
<1>3. proc' = [proc EXCEPT ![p] = r]
  BY <1>1 DEF GoWith, StoreTypeOK
<1> HIDE DEF r
<1> QED BY <1>2, <1>3 DEF StoreTypeOK

LEMMA IdleEffect ==
    ASSUME StoreTypeOK, NEW p \in Proc, proc' = [proc EXCEPT ![p] = Idle], NEW q \in Proc
    PROVE  /\ proc'[q].pc = IF q = p THEN "idle" ELSE proc[q].pc
           /\ proc'[q].key = IF q = p THEN NoKey ELSE proc[q].key
           /\ q # p => proc'[q].content = proc[q].content
  BY DEF StoreTypeOK, Idle

-------------------------------------------------------------------------------
(* The invariant of the key, action by action.                             *)
LEMMA SearchBegins ==
    ASSUME StoreTypeOK, KeyInv, ~AtOnce, NEW p \in Proc, proc[p].pc = "idle", MaySearch,
           Go(p, "keyLoad"), p \in Entry => entry[p] = "unloaded",
           UNCHANGED <<disk, entry, password, managers, history>>
    PROVE  KeyInv'
<1>1. Loaded' = Loaded /\ KeyOnFile' = KeyOnFile
  BY LoadedSame DEF disk
<1>2. \A m \in Manager : Writes(m)' = Writes(m)
  BY WritesSame DEF managers
<1>3. SearchersInv'
  BY <1>1, GoEffect DEF KeyInv, SearchersInv, Searching, MaySearch, disk
<1>4. LegacyInv' /\ EntriesInv'
  BY <1>1, GoEffect, Members DEF KeyInv, LegacyInv, EntriesInv, disk
<1>5. WritesInv'
  BY <1>1, <1>2 DEF KeyInv, WritesInv, managers
<1> QED BY <1>3, <1>4, <1>5 DEF KeyInv

LEMMA KeyLoadKeeps ==
    ASSUME StoreTypeOK, KeyInv, NEW p \in Proc, KeyLoad(p)
    PROVE  KeyInv'
<1>1. Loaded' = Loaded /\ KeyOnFile' = KeyOnFile
  BY LoadedSame DEF KeyLoad, disk
<1>2. \A m \in Manager : Writes(m)' = Writes(m)
  BY WritesSame DEF KeyLoad, managers
<1>3. WritesInv'
  BY <1>1, <1>2 DEF KeyInv, WritesInv, managers, KeyLoad
<1>4. CASE file = NoFile
  <2>1. Go(p, "keyImport")
    BY <1>4 DEF KeyLoad
  <2>2. SearchersInv'
    BY <1>1, <1>4, <2>1, GoEffect DEF KeyInv, SearchersInv, Searching, KeyLoad, disk
  <2>3. LegacyInv' /\ EntriesInv'
    BY <1>1, <2>1, GoEffect, Members DEF KeyInv, LegacyInv, EntriesInv, KeyLoad, disk
  <2> QED BY <1>3, <2>2, <2>3 DEF KeyInv
<1>5. CASE file # NoFile
  <2>1. PICK k \in Key : GoWith(p, "keySave", k) /\ (KeyOnFile # NoKey => k = KeyOnFile)
    <3>1. Loaded = file /\ KeyOnFile = file.key /\ file \in Content
      BY <1>5 DEF Loaded, KeyOnFile, StoreTypeOK
    <3>2. /\ file.key \in Key \cup {NoKey}
          /\ p \in Entry => Loaded.own[p] \in Key \cup {NoKey}
      BY <3>1 DEF Content
    <3>3. CASE file.key # NoKey
      BY <1>5, <3>1, <3>2, <3>3 DEF KeyLoad
    <3>4. CASE file.key = NoKey /\ p \in Entry /\ Loaded.own[p] # NoKey
      BY <1>5, <3>1, <3>2, <3>4 DEF KeyLoad
    <3>5. CASE file.key = NoKey /\ ~(p \in Entry /\ Loaded.own[p] # NoKey)
      BY <1>5, <3>1, <3>5, Members DEF KeyLoad
    <3> QED BY <3>3, <3>4, <3>5
  <2>2. proc[p].pc = "keyLoad"
    BY DEF KeyLoad
  <2>3. SearchersInv'
    BY <1>1, <1>5, <2>1, <2>2, GoWithEffect, Members DEF KeyInv, SearchersInv, Searching, KeyLoad, disk
  <2>4. LegacyInv' /\ EntriesInv'
    BY <1>1, <1>5, <2>1, <2>2, GoWithEffect, Members DEF KeyInv, LegacyInv, EntriesInv, KeyLoad, disk
  <2> QED BY <1>3, <2>3, <2>4 DEF KeyInv
<1> QED BY <1>4, <1>5

LEMMA KeyImportKeeps ==
    ASSUME StoreTypeOK, KeyInv, NEW p \in Proc, KeyImport(p)
    PROVE  KeyInv'
<1>1. Loaded' = Loaded /\ KeyOnFile' = KeyOnFile
  BY LoadedSame DEF KeyImport
<1>2. \A m \in Manager : Writes(m)' = Writes(m)
  BY WritesSame DEF KeyImport, managers
<1>3. PICK k \in Key : GoWith(p, "keySave", k)
  BY Members DEF KeyImport, StoreTypeOK
<1>4. proc[p].pc = "keyImport" /\ KeyOnFile = NoKey
  BY NoKeyInNoFile DEF KeyImport, KeyInv, SearchersInv
<1>5. SearchersInv'
  BY <1>1, <1>3, <1>4, GoWithEffect, Members DEF KeyInv, SearchersInv, Searching, KeyImport
<1>6. LegacyInv'
  BY DEF LegacyInv, KeyImport
<1>7. EntriesInv'
  BY <1>1, <1>3, <1>4, GoWithEffect, Members DEF KeyInv, EntriesInv, KeyImport
<1>8. WritesInv'
  BY <1>1, <1>2 DEF KeyInv, WritesInv, managers, KeyImport
<1> QED BY <1>5, <1>6, <1>7, <1>8 DEF KeyInv

LEMMA KeySaveKeeps ==
    ASSUME StoreTypeOK, KeyInv, NEW p \in Proc, KeySave(p)
    PROVE  KeyInv'
<1>1. Loaded' = Loaded /\ KeyOnFile' = KeyOnFile
  BY LoadedSame DEF KeySave, disk
<1>2. \A m \in Manager : Writes(m)' = Writes(m)
  BY WritesSame DEF KeySave, managers
<1>3. WritesInv'
  BY <1>1, <1>2 DEF KeyInv, WritesInv, managers, KeySave
<1>4. proc[p].pc = "keySave" /\ proc[p].key # NoKey
  BY DEF KeySave, KeyInv, SearchersInv
<1>5. CASE KeyOnFile = proc[p].key
  <2>1. Go(p, "ready")
    BY <1>5 DEF KeySave
  <2>2. SearchersInv'
    BY <1>1, <1>4, <1>5, <2>1, GoEffect DEF KeyInv, SearchersInv, Searching, KeySave, disk
  <2>3. LegacyInv' /\ EntriesInv'
    BY <1>1, <1>4, <2>1, GoEffect, Members DEF KeyInv, LegacyInv, EntriesInv, KeySave, disk
  <2> QED BY <1>3, <2>2, <2>3 DEF KeyInv
<1>6. CASE KeyOnFile # proc[p].key
  <2> DEFINE c == [Loaded EXCEPT !.key = proc[p].key]
  <2>1. KeyOnFile = NoKey
    BY <1>4, <1>6 DEF KeyInv, SearchersInv
  <2>2. c.key = proc[p].key /\ c.own = Loaded.own
    BY LoadedType DEF Content
  <2>3. \A q \in Proc : /\ proc'[q].pc = IF q = p THEN "keyWrite" ELSE proc[q].pc
                        /\ proc'[q].key = proc[q].key
                        /\ proc'[q].content = IF q = p THEN c ELSE proc[q].content
    <3> DEFINE r == [proc[p] EXCEPT !.pc = "keyWrite", !.content = c]
    <3>1. proc[p] \in [pc : State, key : Key \cup {NoKey}, content : Content]
      BY DEF StoreTypeOK, State
    <3>2. proc' = [proc EXCEPT ![p].pc = "keyWrite", ![p].content = c]
      BY <1>6 DEF KeySave
    <3> HIDE DEF c
    <3>3. r.pc = "keyWrite" /\ r.key = proc[p].key /\ r.content = c
      BY <3>1
    <3>4. proc' = [proc EXCEPT ![p] = r]
      BY <3>1, <3>2 DEF StoreTypeOK
    <3> HIDE DEF r
    <3> QED BY <3>3, <3>4 DEF StoreTypeOK
  <2> HIDE DEF c
  <2>4. SearchersInv'
    BY <1>1, <1>4, <2>1, <2>2, <2>3 DEF KeyInv, SearchersInv, Searching, KeySave, disk
  <2>5. LegacyInv' /\ EntriesInv'
    BY <1>1, <1>4, <2>3, Members DEF KeyInv, LegacyInv, EntriesInv, KeySave, disk
  <2> QED BY <1>3, <2>4, <2>5 DEF KeyInv
<1> QED BY <1>5, <1>6

LEMMA KeyWriteKeeps ==
    ASSUME StoreTypeOK, KeyInv, NEW p \in Proc, KeyWrite(p)
    PROVE  /\ KeyInv' /\ KeyOnFile = NoKey /\ KeyOnFile' = proc[p].key
           /\ \A x \in Entry : Loaded'.own[x] = Loaded.own[x]
           /\ \A q \in Proc : q # p => proc[q].key = NoKey
           /\ legacy = NoKey
<1>1. /\ proc[p].pc = "keyWrite" /\ KeyOnFile = NoKey /\ proc[p].key # NoKey
      /\ proc[p].content.key = proc[p].key
      /\ \A x \in Entry : proc[p].content.own[x] = Loaded.own[x]
      /\ legacy = NoKey
  BY DEF KeyWrite, KeyInv, SearchersInv, LegacyInv
<1>2. \A q \in Proc : q # p => proc[q].pc = "idle" /\ proc[q].key = NoKey
  <2>1. ASSUME NEW q \in Proc, q # p
        PROVE  proc[q].pc \notin {"keyLoad", "keyImport", "keySave", "keyWrite", "ready", "dataLoad", "defaults"}
    BY <1>1, <2>1 DEF KeyInv, SearchersInv, Searching
  <2>2. \A q \in Proc : proc[q].pc \in State
    BY DEF StoreTypeOK, State
  <2> QED BY <2>1, <2>2 DEF KeyInv, SearchersInv, State
<1>3. Loaded' = proc[p].content /\ KeyOnFile' = proc[p].key
  <2>1. proc[p].content \in Content
    BY DEF StoreTypeOK
  <2> QED BY <1>1, <2>1, LoadedAfter DEF KeyWrite
<1>4. \A q \in Proc : /\ proc'[q].pc = IF q = p THEN "ready" ELSE proc[q].pc
                      /\ proc'[q].key = proc[q].key
  <2> DEFINE r == [proc[p] EXCEPT !.pc = "ready", !.content = Empty]
  <2>1. proc[p] \in [pc : State, key : Key \cup {NoKey}, content : Content]
    BY DEF StoreTypeOK, State
  <2>2. proc' = [proc EXCEPT ![p].pc = "ready", ![p].content = Empty]
    BY DEF KeyWrite
  <2>3. r.pc = "ready" /\ r.key = proc[p].key
    BY <2>1
  <2>4. proc' = [proc EXCEPT ![p] = r]
    BY <2>1, <2>2 DEF StoreTypeOK
  <2> HIDE DEF r
  <2> QED BY <2>3, <2>4 DEF StoreTypeOK
<1>5. SearchersInv'
  BY <1>1, <1>2, <1>3, <1>4 DEF SearchersInv, Searching
<1>6. LegacyInv'
  BY <1>1 DEF LegacyInv, KeyWrite
<1>7. EntriesInv'
  BY <1>1, <1>2, <1>3, <1>4, Members DEF KeyInv, EntriesInv, KeyWrite
<1>8. WritesInv'
  <2>1. \A m \in Manager : Writes(m) = {}
    BY <1>1 DEF KeyInv, WritesInv
  <2>2. \A m \in Manager : Writes(m)' = {}
    BY <2>1, WritesSame DEF KeyWrite, managers
  <2> QED BY <1>1, <1>3, <2>2 DEF KeyInv, WritesInv, KeyWrite, managers
<1> QED BY <1>1, <1>2, <1>3, <1>5, <1>6, <1>7, <1>8 DEF KeyInv

LEMMA EncryptKeeps ==
    ASSUME StoreTypeOK, KeyInv, NEW e \in Entry, Encrypt(e)
    PROVE  KeyInv'
<1>1. Loaded' = Loaded /\ KeyOnFile' = KeyOnFile
  BY LoadedSame DEF Encrypt, disk
<1>2. \A m \in Manager : Writes(m)' = Writes(m)
  BY WritesSame DEF Encrypt, managers
<1>3. \A q \in Proc : /\ proc'[q].pc = IF q = Flow THEN "idle" ELSE proc[q].pc
                      /\ proc'[q].key = IF q = Flow THEN NoKey ELSE proc[q].key
                      /\ q # Flow => proc'[q].content = proc[q].content
  <2>1. proc' = [proc EXCEPT ![Flow] = Idle]
    BY DEF Encrypt
  <2> QED BY <2>1, IdleEffect, Members
<1>4. SearchersInv'
  BY <1>1, <1>3, Members DEF KeyInv, SearchersInv, Searching, Encrypt, disk
<1>5. LegacyInv'
  BY <1>3, Members DEF KeyInv, LegacyInv, Encrypt, disk
<1>6. \A x \in Entry : /\ entry'[x] = IF x = e /\ entry[x] = "none" THEN "unloaded" ELSE entry[x]
                       /\ password'[x] # NoKey => x = e \/ password[x] # NoKey
  BY DEF Encrypt, StoreTypeOK
<1>7. EntriesInv'
  BY <1>1, <1>3, <1>6, Members DEF KeyInv, EntriesInv, Encrypt
<1>8. WritesInv'
  BY <1>1, <1>2, <1>6 DEF KeyInv, WritesInv, managers, Encrypt
<1> QED BY <1>4, <1>5, <1>7, <1>8 DEF KeyInv

LEMMA ShowFormKeeps ==
    ASSUME StoreTypeOK, KeyInv, ShowForm
    PROVE  KeyInv'
<1>1. Loaded' = Loaded /\ KeyOnFile' = KeyOnFile
  BY LoadedSame DEF ShowForm, disk
<1>2. \A m \in Manager : Writes(m)' = Writes(m)
  BY WritesSame DEF ShowForm, managers
<1>3. \A q \in Proc : /\ proc'[q].pc = IF q = Flow THEN "idle" ELSE proc[q].pc
                      /\ proc'[q].key = IF q = Flow THEN NoKey ELSE proc[q].key
                      /\ q # Flow => proc'[q].content = proc[q].content
  <2>1. proc' = [proc EXCEPT ![Flow] = Idle]
    BY DEF ShowForm
  <2> QED BY <2>1, IdleEffect, Members
<1>4. SearchersInv'
  BY <1>1, <1>3, Members DEF KeyInv, SearchersInv, Searching, ShowForm, disk
<1>5. LegacyInv'
  BY <1>3, Members DEF KeyInv, LegacyInv, ShowForm, disk
<1>6. EntriesInv' /\ WritesInv'
  BY <1>1, <1>2, <1>3, Members DEF KeyInv, EntriesInv, WritesInv, ShowForm, managers
<1> QED BY <1>4, <1>5, <1>6 DEF KeyInv

LEMMA DecryptKeeps ==
    ASSUME StoreTypeOK, KeyInv, NEW e \in Entry, Decrypt(e)
    PROVE  KeyInv'
<1>1. Loaded' = Loaded /\ KeyOnFile' = KeyOnFile
  BY LoadedSame DEF Decrypt, disk
<1>2. \A m \in Manager : Writes(m)' = Writes(m)
  BY WritesSame DEF Decrypt, managers
<1>3. WritesInv'
  BY <1>1, <1>2 DEF KeyInv, WritesInv, managers, Decrypt
<1>4. proc[e].pc = "ready" /\ (Go(e, "dataLoad") \/ proc' = [proc EXCEPT ![e] = Idle])
  BY DEF Decrypt
<1>5. CASE Go(e, "dataLoad")
  <2>1. SearchersInv'
    BY <1>1, <1>4, <1>5, GoEffect, Members DEF KeyInv, SearchersInv, Searching, Decrypt, disk
  <2>2. LegacyInv' /\ EntriesInv'
    BY <1>1, <1>4, <1>5, GoEffect, Members DEF KeyInv, LegacyInv, EntriesInv, Decrypt, disk
  <2> QED BY <1>3, <2>1, <2>2 DEF KeyInv
<1>6. CASE proc' = [proc EXCEPT ![e] = Idle]
  <2>0. \A q \in Proc : /\ proc'[q].pc = IF q = e THEN "idle" ELSE proc[q].pc
                        /\ proc'[q].key = IF q = e THEN NoKey ELSE proc[q].key
                        /\ q # e => proc'[q].content = proc[q].content
    BY <1>6, IdleEffect, Members
  <2>1. SearchersInv'
    BY <1>1, <2>0, Members DEF KeyInv, SearchersInv, Searching, Decrypt, disk
  <2>2. LegacyInv' /\ EntriesInv'
    BY <1>1, <2>0, Members DEF KeyInv, LegacyInv, EntriesInv, Decrypt, disk
  <2> QED BY <1>3, <2>1, <2>2 DEF KeyInv
<1> QED BY <1>4, <1>5, <1>6

LEMMA ComposedContent ==
    ASSUME StoreTypeOK, NEW m \in Manager, NEW v \in Version
    PROVE  \/ Composed(m, v) = <<>> /\ Loaded.data[m[1]] = v
           \/ \E c \in Content : /\ Composed(m, v) = <<c>>
                                 /\ c.key = KeyOnFile /\ c.own = Loaded.own
                                 /\ c.data = [Loaded.data EXCEPT ![m[1]] = v]
<1>1. [Loaded EXCEPT !.data[m[1]] = v] \in Content
  BY LoadedType DEF Content, Manager
<1>2. /\ [Loaded EXCEPT !.data[m[1]] = v].key = KeyOnFile
      /\ [Loaded EXCEPT !.data[m[1]] = v].own = Loaded.own
      /\ [Loaded EXCEPT !.data[m[1]] = v].data = [Loaded.data EXCEPT ![m[1]] = v]
  BY LoadedType DEF Content, KeyOnFile
<1> QED BY <1>1, <1>2 DEF Composed

LEMMA DataLoadKeeps ==
    ASSUME StoreTypeOK, KeyInv, NEW e \in Entry, DataLoad(e)
    PROVE  KeyInv'
<1>0. PICK m \in Manager : m = <<e, setUps[e] + 1>>
  BY PresentType DEF DataLoad
<1> DEFINE v == IF Loaded.data[e] = NoData THEN Defaults ELSE Loaded.data[e]
<1>1. Loaded' = Loaded /\ KeyOnFile' = KeyOnFile
  BY LoadedSame DEF DataLoad, disk
<1>2. proc[e].pc = "dataLoad" /\ Go(e, "defaults")
  BY DEF DataLoad
<1>3. SearchersInv'
  BY <1>1, <1>2, GoEffect, Members DEF KeyInv, SearchersInv, Searching, DataLoad, disk
<1>4. LegacyInv' /\ EntriesInv'
  BY <1>1, <1>2, GoEffect, Members DEF KeyInv, LegacyInv, EntriesInv, DataLoad, disk
<1>5. KeyOnFile # NoKey
  BY <1>2, Members DEF KeyInv, SearchersInv
<1>6. \A n \in Manager : \A c \in Writes(n)' : c \in Writes(n) \/ (c.key = KeyOnFile /\ c.own = Loaded.own)
  <2>1. v \in Version
    BY LoadedType, StoreAssumption DEF Content, Version, Defaults, NoData
  <2>2. \/ Composed(m, v) = <<>>
        \/ \E c \in Content : Composed(m, v) = <<c>> /\ c.key = KeyOnFile /\ c.own = Loaded.own
    BY <2>1, ComposedContent
  <2>3. pending' = [pending EXCEPT ![m] = Composed(m, v)]
    BY <1>0 DEF DataLoad
  <2> HIDE DEF v
  <2>4. ASSUME NEW n \in Manager, n # m
        PROVE  Writes(n)' = Writes(n)
    <3>1. pending'[n] = pending[n]
      BY <2>3, <2>4 DEF StoreTypeOK
    <3> QED BY <3>1 DEF Writes
  <2>5. Writes(m)' = {Composed(m, v)[i] : i \in 1 .. Len(Composed(m, v))}
    <3>1. pending'[m] = Composed(m, v)
      BY <2>3 DEF StoreTypeOK
    <3> QED BY <3>1 DEF Writes
  <2>6. \A c \in Writes(m)' : c.key = KeyOnFile /\ c.own = Loaded.own
    BY <2>2, <2>5
  <2>7. ASSUME NEW n \in Manager, NEW c \in Writes(n)'
        PROVE  c \in Writes(n) \/ (c.key = KeyOnFile /\ c.own = Loaded.own)
    BY <2>4, <2>6, <2>7
  <2> QED BY <2>7
<1>7. WritesInv'
  BY <1>1, <1>5, <1>6 DEF KeyInv, WritesInv, DataLoad
<1> QED BY <1>3, <1>4, <1>7 DEF KeyInv

LEMMA InitializedKeeps ==
    ASSUME StoreTypeOK, KeyInv, NEW e \in Entry, Initialized(e)
    PROVE  KeyInv'
<1>1. Loaded' = Loaded /\ KeyOnFile' = KeyOnFile
  BY LoadedSame DEF Initialized, disk
<1>2. \A m \in Manager : Writes(m)' = Writes(m)
  BY WritesSame DEF Initialized, managers
<1>3. \A q \in Proc : /\ proc'[q].pc = IF q = e THEN "idle" ELSE proc[q].pc
                      /\ proc'[q].key = IF q = e THEN NoKey ELSE proc[q].key
                      /\ q # e => proc'[q].content = proc[q].content
  <2>1. proc' = [proc EXCEPT ![e] = Idle]
    BY DEF Initialized
  <2> QED BY <2>1, IdleEffect, Members
<1>4. KeyOnFile # NoKey /\ entry[e] = "unloaded"
  BY Members DEF Initialized, KeyInv, SearchersInv, EntriesInv
<1>5. \A x \in Entry : IF x = e THEN entry'[x] \in {"loaded", "failed"} ELSE entry'[x] = entry[x]
  BY DEF Initialized, StoreTypeOK
<1>6. SearchersInv'
  BY <1>1, <1>3, Members DEF KeyInv, SearchersInv, Searching, Initialized, disk
<1>7. LegacyInv'
  BY <1>3, Members DEF KeyInv, LegacyInv, Initialized, disk
<1>8. EntriesInv'
  BY <1>1, <1>3, <1>4, <1>5, Members DEF KeyInv, EntriesInv, Initialized
<1>9. WritesInv'
  BY <1>1, <1>2, <1>4, <1>5 DEF KeyInv, WritesInv, managers, Initialized
<1> QED BY <1>6, <1>7, <1>8, <1>9 DEF KeyInv

(* What a manager appends carries the key.                                 *)
LEMMA AppendKeeps ==
    ASSUME StoreTypeOK, NEW m \in Manager, NEW c \in Content,
           pending' = [pending EXCEPT ![m] = @ \o <<c>>],
           KeyInv, KeyOnFile # NoKey, c.key = KeyOnFile,
           UNCHANGED <<disk, proc, password>>,
           \A n \in Manager : memory'[n] # NoData => n = m \/ memory[n] # NoData,
           \A x \in Entry : entry'[x] = entry[x] \/ (entry'[x] = "removed" /\ password'[x] = NoKey /\ proc[x].pc = "idle"),
           \A x \in Entry : entry'[x] # "removed" => c.own[x] = Loaded.own[x]
    PROVE  KeyInv'
<1>1. Loaded' = Loaded /\ KeyOnFile' = KeyOnFile
  BY LoadedSame DEF disk
<1>2. SearchersInv' /\ LegacyInv'
  BY <1>1 DEF KeyInv, SearchersInv, Searching, LegacyInv, disk
<1>3. EntriesInv'
  BY <1>1 DEF KeyInv, EntriesInv
<1>4. WritesInv'
  <2>1. \A n \in Manager : Writes(n)' \subseteq Writes(n) \cup {c}
    BY Appended
  <2> QED BY <1>1, <2>1 DEF KeyInv, WritesInv
<1> QED BY <1>2, <1>3, <1>4 DEF KeyInv

LEMMA ChangeKeeps ==
    ASSUME StoreTypeOK, KeyInv, NEW m \in Manager, Change(m)
    PROVE  KeyInv'
<1> DEFINE e == m[1]
           v == version[e] + 1
<1>1. v \in Version /\ memory[m] # NoData
  BY DEF Change, StoreTypeOK, Version, NoData, Manager
<1>2. KeyOnFile # NoKey
  BY <1>1 DEF KeyInv, WritesInv
<1>3. /\ pending' = [pending EXCEPT ![m] = @ \o Composed(m, v)]
      /\ memory' = [memory EXCEPT ![m] = v]
      /\ UNCHANGED <<disk, proc, entry, password, setUps, history>>
  BY DEF Change
<1>4. \A n \in Manager : memory'[n] # NoData => memory[n] # NoData
  BY <1>1, <1>3 DEF StoreTypeOK
<1> HIDE DEF v
<1>5. CASE Composed(m, v) = <<>>
  <2>1. pending[m] \o <<>> = pending[m]
    BY DEF StoreTypeOK
  <2>2. pending' = pending
    BY <1>3, <1>5, <2>1 DEF StoreTypeOK
  <2>3. \A n \in Manager : Writes(n)' = Writes(n)
    BY <2>2, WritesSame
  <2>4. Loaded' = Loaded /\ KeyOnFile' = KeyOnFile
    BY <1>3, LoadedSame DEF disk
  <2> QED BY <1>3, <1>4, <2>3, <2>4 DEF KeyInv, SearchersInv, Searching, LegacyInv, EntriesInv, WritesInv, disk
<1>6. CASE Composed(m, v) # <<>>
  <2>1. PICK c \in Content : Composed(m, v) = <<c>> /\ c.key = KeyOnFile /\ c.own = Loaded.own
    BY <1>1, <1>6, ComposedContent
  <2>2. pending' = [pending EXCEPT ![m] = @ \o <<c>>]
    BY <1>3, <2>1
  <2> QED BY <1>2, <1>3, <1>4, <2>1, <2>2, AppendKeeps
<1> QED BY <1>5, <1>6

LEMMA WriteKeeps ==
    ASSUME StoreTypeOK, KeyInv, NEW m \in Manager, Write(m)
    PROVE  /\ KeyInv' /\ KeyOnFile # NoKey /\ KeyOnFile' = KeyOnFile
           /\ \A x \in Entry : entry[x] # "removed" => Loaded'.own[x] = Loaded.own[x]
<1>1. PICK c \in Content : c = Head(pending[m]) /\ c \in Writes(m)
  BY Shortened DEF Write
<1>2. /\ KeyOnFile # NoKey /\ c.key = KeyOnFile
      /\ \A x \in Entry : entry[x] # "removed" => c.own[x] = Loaded.own[x]
  BY <1>1 DEF KeyInv, WritesInv
<1>3. Loaded' = c /\ KeyOnFile' = KeyOnFile /\ file' # NoFile
  <2>1. file' = c
    BY <1>1 DEF Write
  <2> QED BY <1>2, <2>1, LoadedAfter, FileAssumption
<1>4. UNCHANGED <<legacy, proc, entry, password, memory>>
  BY DEF Write
<1>5. \A p \in Proc : proc[p].pc # "keyWrite" /\ proc[p].pc # "keyImport"
  BY <1>2, NoKeyInNoFile DEF KeyInv, SearchersInv
<1>6. SearchersInv'
  BY <1>2, <1>3, <1>4, <1>5 DEF KeyInv, SearchersInv, Searching
<1>7. LegacyInv' /\ EntriesInv'
  BY <1>2, <1>3, <1>4, NoKeyInNoFile DEF KeyInv, LegacyInv, EntriesInv
<1>8. WritesInv'
  <2>1. \A n \in Manager : Writes(n)' \subseteq Writes(n)
    BY Shortened DEF Write
  <2> QED BY <1>2, <1>3, <1>4, <2>1 DEF KeyInv, WritesInv
<1> QED BY <1>2, <1>3, <1>6, <1>7, <1>8 DEF KeyInv

LEMMA UnloadKeeps ==
    ASSUME StoreTypeOK, KeyInv, NEW e \in Entry, Unload(e) \/ Remove(e)
    PROVE  KeyInv'
<1>1. Loaded' = Loaded /\ KeyOnFile' = KeyOnFile
  BY LoadedSame DEF Unload, Remove, disk
<1>2. \A m \in Manager : Writes(m)' = Writes(m)
  BY WritesSame DEF Unload, Remove, managers
<1>3. UNCHANGED <<disk, proc, memory>>
  BY DEF Unload, Remove, managers
<1>4. \A x \in Entry : /\ entry'[x] = entry[x] \/ (x = e /\ entry'[x] = "unloaded" /\ entry[x] = "loaded")
                                               \/ (x = e /\ entry'[x] = "removed" /\ proc[x].pc = "idle" /\ password'[x] = NoKey)
                       /\ password'[x] # NoKey => password[x] # NoKey
  BY DEF Unload, Remove, StoreTypeOK
<1>5. SearchersInv' /\ LegacyInv'
  BY <1>1, <1>3 DEF KeyInv, SearchersInv, Searching, LegacyInv, disk
<1>6. EntriesInv'
  BY <1>1, <1>3, <1>4 DEF KeyInv, EntriesInv
<1>7. WritesInv'
  BY <1>1, <1>2, <1>3, <1>4 DEF KeyInv, WritesInv
<1> QED BY <1>5, <1>6, <1>7 DEF KeyInv

LEMMA RemoveFailedKeeps ==
    ASSUME StoreTypeOK, KeyInv, NEW e \in Entry, RemoveFailed(e)
    PROVE  KeyInv'
<1>1. KeyOnFile # NoKey /\ entry[e] = "failed" /\ proc[e].pc = "idle"
  BY DEF RemoveFailed, KeyInv, EntriesInv
<1>2. UNCHANGED <<disk, proc, memory>>
  BY DEF RemoveFailed
<1>3. \A x \in Entry : IF x = e THEN entry'[x] = "removed" /\ password'[x] = NoKey
                                ELSE entry'[x] = entry[x] /\ password'[x] = password[x]
  BY DEF RemoveFailed, StoreTypeOK
<1>4. PICK m : m = Present(e)
  OBVIOUS
<1> DEFINE c == [file EXCEPT !.data[e] = NoData, !.own[e] = NoKey]
<1>5. CASE pending' = pending
  <2>1. Loaded' = Loaded /\ KeyOnFile' = KeyOnFile
    BY <1>2, LoadedSame DEF disk
  <2>2. \A n \in Manager : Writes(n)' = Writes(n)
    BY <1>5, WritesSame
  <2>3. SearchersInv' /\ LegacyInv'
    BY <1>2, <2>1 DEF KeyInv, SearchersInv, Searching, LegacyInv, disk
  <2>4. EntriesInv'
    BY <1>1, <1>2, <1>3, <2>1 DEF KeyInv, EntriesInv
  <2>5. WritesInv'
    BY <1>2, <1>3, <2>1, <2>2 DEF KeyInv, WritesInv
  <2> QED BY <2>3, <2>4, <2>5 DEF KeyInv
<1>6. CASE pending' # pending
  <2>1. pending' = [pending EXCEPT ![m] = Append(@, c)] /\ file # NoFile
    BY <1>4, <1>6 DEF RemoveFailed
  <2>2. file \in Content /\ Loaded = file
    BY <2>1 DEF StoreTypeOK, Loaded
  <2>3. c \in Content /\ c.key = KeyOnFile /\ \A x \in Entry : x # e => c.own[x] = Loaded.own[x]
    <3>1. NoData \in Version
      BY StoreAssumption DEF Version, NoData
    <3> QED BY <2>2, <3>1 DEF Content, KeyOnFile
  <2> HIDE DEF c
  <2>4. m \in Manager
    BY <1>6, <2>1 DEF StoreTypeOK
  <2>5. Append(pending[m], c) = pending[m] \o <<c>>
    <3>1. pending[m] \in Seq(Content)
      BY <2>4 DEF StoreTypeOK
    <3> QED BY <2>3, <3>1
  <2>6. pending' = [pending EXCEPT ![m] = @ \o <<c>>]
    BY <2>1, <2>4, <2>5 DEF StoreTypeOK
  <2>7. \A n \in Manager : Writes(n)' \subseteq Writes(n) \cup {c}
    BY <2>3, <2>4, <2>6, Appended
  <2>8. Loaded' = Loaded /\ KeyOnFile' = KeyOnFile
    BY <1>2, LoadedSame DEF disk
  <2>9. SearchersInv' /\ LegacyInv'
    BY <1>2, <2>8 DEF KeyInv, SearchersInv, Searching, LegacyInv, disk
  <2>10. EntriesInv'
    BY <1>1, <1>2, <1>3, <2>8 DEF KeyInv, EntriesInv
  <2>11. WritesInv'
    BY <1>1, <1>2, <1>3, <2>3, <2>7, <2>8 DEF KeyInv, WritesInv
  <2> QED BY <2>9, <2>10, <2>11 DEF KeyInv
<1> QED BY <1>5, <1>6

LEMMA CrashKeeps ==
    ASSUME StoreTypeOK, KeyInv, Crash
    PROVE  KeyInv'
<1>1. Loaded' = Loaded /\ KeyOnFile' = KeyOnFile
  BY LoadedSame DEF Crash, disk
<1>2. \A p \in Proc : proc'[p].pc = "idle" /\ proc'[p].key = NoKey
  BY DEF Crash, Idle
<1>3. \A m \in Manager : memory'[m] = NoData /\ Writes(m)' = {}
  BY DEF Crash, Writes
<1>4. \A e \in Entry : /\ entry'[e] = IF entry[e] \in {"loaded", "failed"} THEN "unloaded" ELSE entry[e]
                       /\ password'[e] = password[e]
  BY DEF Crash
<1>5. SearchersInv'
  BY <1>2 DEF SearchersInv, Searching
<1>6. LegacyInv' /\ EntriesInv'
  BY <1>1, <1>2, <1>4, Members DEF KeyInv, LegacyInv, EntriesInv, Crash, disk
<1>7. WritesInv'
  BY <1>3 DEF WritesInv
<1> QED BY <1>5, <1>6, <1>7 DEF KeyInv

LEMMA KeyInit ==
    ASSUME StoreInit
    PROVE  KeyInv /\ PasswordsReadable
<1>1. PICK old \in {"none", "legacy", "own"}, k \in Key, e \in Entry :
        /\ file = IF old = "own" THEN OldFile(e, k) ELSE NoFile
        /\ legacy = IF old = "legacy" THEN k ELSE NoKey
        /\ entry = [x \in Entry |-> IF x = e /\ old # "none" THEN "unloaded" ELSE "none"]
        /\ password = [x \in Entry |-> IF x = e /\ old # "none" THEN k ELSE NoKey]
        /\ proc = [p \in Proc |-> Idle]
        /\ setUps = [x \in Entry |-> 0]
        /\ memory = [m \in Manager |-> NoData] /\ pending = [m \in Manager |-> <<>>]
        /\ version = [x \in Entry |-> Defaults]
        /\ undone = {} /\ lost = {} /\ crashes = MaxCrashes
  BY Zenon DEF StoreInit
<1>2. \A p \in Proc : proc[p].pc = "idle" /\ proc[p].key = NoKey
  BY <1>1 DEF Idle
<1>3. \A m \in Manager : Writes(m) = {} /\ memory[m] = NoData
  BY <1>1 DEF Writes
<1>4. legacy # NoKey => file = NoFile
  BY <1>1
<1>5. SearchersInv /\ LegacyInv
  BY <1>2, <1>4 DEF SearchersInv, LegacyInv, Searching
<1>6. EntriesInv /\ WritesInv
  BY <1>1, <1>2, <1>3, Members DEF EntriesInv, WritesInv
<1>7. PasswordsReadable
  <2>1. \A x \in Entry : password[x] = IF x = e /\ old # "none" THEN k ELSE NoKey
    BY <1>1
  <2>2. KeyOnFile = NoKey
    <3>1. CASE file = NoFile
      BY <3>1, NoKeyInNoFile
    <3>2. CASE file # NoFile
      BY <1>1, <3>2 DEF OldFile, KeyOnFile, Loaded
    <3> QED BY <3>1, <3>2
  <2>3. old = "own" => Loaded.own[e] = k
    <3>1. ASSUME old = "own"
          PROVE  Loaded = OldFile(e, k)
      BY <1>1, <3>1, OldFileType, FileAssumption DEF Loaded
    <3> QED BY <3>1 DEF OldFile
  <2> QED BY <1>1, <2>1, <2>2, <2>3 DEF PasswordsReadable
<1> QED BY <1>5, <1>6, <1>7 DEF KeyInv

LEMMA KeyStep ==
    ASSUME StoreTypeOK, KeyInv, ~AtOnce, [StoreNext]_storeVars
    PROVE  KeyInv'
<1>1. CASE UNCHANGED storeVars
  <2>1. Loaded' = Loaded /\ KeyOnFile' = KeyOnFile /\ \A m \in Manager : Writes(m)' = Writes(m)
    BY <1>1, LoadedSame, WritesSame DEF storeVars
  <2> QED BY <1>1, <2>1 DEF KeyInv, SearchersInv, Searching, LegacyInv, EntriesInv, WritesInv, storeVars
<1>2. ASSUME NEW e \in Entry, SetUp(e)
      PROVE  KeyInv'
  BY <1>2, SearchBegins, Members DEF SetUp
<1>3. CASE Submit
  BY <1>3, SearchBegins, Members DEF Submit
<1>4. CASE StoreNext
  BY <1>2, <1>3, <1>4, KeyLoadKeeps, KeyImportKeeps, KeySaveKeeps, KeyWriteKeeps, EncryptKeeps, ShowFormKeeps, DecryptKeeps,
     DataLoadKeeps, InitializedKeeps, ChangeKeeps, WriteKeeps, UnloadKeeps, RemoveFailedKeeps, CrashKeeps
     DEF StoreNext
<1> QED BY <1>1, <1>4

(* The key on file is chosen once, and never changes or goes away (the     *)
(* file implements WriteOnce): however the set-ups, the saves and the      *)
(* restarts of the entries interleave, once there is no race for the first *)
(* key.                                                                    *)
THEOREM KeyIsWrittenOnce == ~AtOnce => (StoreSpec => KeyStays)
<1> SUFFICES ASSUME ~AtOnce
             PROVE  StoreSpec => KeyStays
  OBVIOUS
<1>1. StoreInit => StoreTypeOK /\ KeyInv
  BY StoreInitType, KeyInit
<1>2. StoreTypeOK /\ KeyInv /\ [StoreNext]_storeVars => (StoreTypeOK /\ KeyInv)'
  BY StoreTypeStep, KeyStep
<1>3. StoreInit => KeyOnFile \in Key \cup {NoKey}
  BY StoreInitType, LoadedType DEF KeyOnFile, Content
<1>4. StoreTypeOK /\ KeyInv /\ [StoreNext]_storeVars => [Written!Choose]_KeyOnFile
  <2> SUFFICES ASSUME StoreTypeOK, KeyInv, [StoreNext]_storeVars
               PROVE  KeyOnFile' = KeyOnFile \/ (KeyOnFile = NoKey /\ KeyOnFile' \in Key)
    BY DEF Written!Choose
  <2>1. CASE UNCHANGED file
    BY <2>1, LoadedSame
  <2>2. ASSUME NEW p \in Proc, KeyWrite(p)
        PROVE  KeyOnFile = NoKey /\ KeyOnFile' \in Key
    <3>1. KeyOnFile = NoKey /\ KeyOnFile' = proc[p].key
      BY <2>2, KeyWriteKeeps
    <3>2. proc[p].key \in Key \cup {NoKey} /\ proc[p].key # NoKey
      BY <2>2 DEF StoreTypeOK, KeyInv, SearchersInv, KeyWrite
    <3> QED BY <3>1, <3>2
  <2>3. ASSUME NEW m \in Manager, Write(m)
        PROVE  KeyOnFile' = KeyOnFile
    BY <2>3, WriteKeeps
  <2>4. UNCHANGED file \/ (\E p \in Proc : KeyWrite(p)) \/ (\E m \in Manager : Write(m))
    BY DEF StoreNext, storeVars, disk, SetUp, Submit, ShowForm, KeyLoad, KeyImport, KeySave, Encrypt, Decrypt, DataLoad,
           Initialized, Change, Unload, Remove, RemoveFailed, Crash
  <2> QED BY <2>1, <2>2, <2>3, <2>4
<1> QED BY <1>1, <1>2, <1>3, <1>4, PTL DEF StoreSpec, KeyStays, Written!Spec

-------------------------------------------------------------------------------
(* The keys of the passwords.                                              *)
Readable(e) ==
    password[e] # NoKey =>
        password[e] \in lost \cup {Loaded.own[e]} \cup
            IF KeyOnFile # NoKey THEN {KeyOnFile}
                                 ELSE {legacy} \cup {proc[p].key : p \in Proc}

(* What a coroutine that looks for the key does keeps it reachable.        *)
LEMMA ReadableSearching ==
    ASSUME StoreTypeOK, KeyInv, PasswordsReadable,
           NEW p \in Proc, KeyLoad(p) \/ KeyImport(p) \/ KeySave(p) \/ KeyWrite(p)
    PROVE  PasswordsReadable'
<1> SUFFICES ASSUME NEW e \in Entry, password'[e] # NoKey
             PROVE  Readable(e)'
  BY DEF PasswordsReadable, Readable
<1>1. UNCHANGED <<password, lost>> /\ password[e] # NoKey /\ Readable(e)
  BY DEF KeyLoad, KeyImport, KeySave, KeyWrite, history, PasswordsReadable, Readable
<1>2. CASE KeyWrite(p)
  <2>1. /\ KeyOnFile = NoKey /\ KeyOnFile' = proc[p].key /\ proc[p].key # NoKey
        /\ \A x \in Entry : Loaded'.own[x] = Loaded.own[x]
        /\ \A q \in Proc : q # p => proc[q].key = NoKey
        /\ legacy = NoKey
    BY <1>2, KeyWriteKeeps DEF KeyInv, SearchersInv, KeyWrite
  <2>2. password[e] \in lost \cup {Loaded.own[e]} \cup {proc[p].key}
    BY <1>1, <2>1 DEF Readable
  <2> QED BY <1>1, <2>1, <2>2 DEF Readable
<1>3. CASE ~KeyWrite(p) /\ KeyOnFile # NoKey
  <2>1. Loaded' = Loaded /\ KeyOnFile' = KeyOnFile
    BY <1>3, LoadedSame DEF KeyLoad, KeyImport, KeySave, disk
  <2> QED BY <1>1, <1>3, <2>1 DEF Readable
<1>4. CASE ~KeyWrite(p) /\ KeyOnFile = NoKey
  <2>1. Loaded' = Loaded /\ KeyOnFile' = KeyOnFile
    BY <1>4, LoadedSame DEF KeyLoad, KeyImport, KeySave, disk
  <2>2. ASSUME NEW q \in Proc, proc[q].key # NoKey
        PROVE  proc'[q].key = proc[q].key
    <3>1. CASE KeyLoad(p) \/ KeyImport(p)
      <4>1. q # p
        BY <2>2, <3>1 DEF KeyInv, SearchersInv, KeyLoad, KeyImport
      <4> QED BY <3>1, <4>1 DEF KeyLoad, KeyImport, Go, GoWith, StoreTypeOK
    <3>2. CASE KeySave(p)
      <4> DEFINE r == [proc[p] EXCEPT !.pc = "keyWrite",
                                      !.content = [Loaded EXCEPT !.key = proc[p].key]]
      <4>1. proc[p] \in [pc : State, key : Key \cup {NoKey}, content : Content]
        BY DEF StoreTypeOK, State
      <4>2. r.key = proc[p].key
        BY <4>1
      <4>3. Go(p, "ready") \/ proc' = [proc EXCEPT ![p] = r]
        BY <3>2, <4>1 DEF KeySave, StoreTypeOK
      <4> HIDE DEF r
      <4> QED BY <4>2, <4>3, GoEffect DEF StoreTypeOK
    <3> QED BY <1>4, <3>1, <3>2
  <2>3. legacy # NoKey => legacy' = legacy \/ proc'[p].key = legacy
    <3>1. CASE KeyLoad(p) \/ KeySave(p)
      BY <3>1 DEF KeyLoad, KeySave, disk
    <3>2. CASE KeyImport(p) /\ legacy # NoKey
      <4>1. GoWith(p, "keySave", legacy)
        BY <3>2 DEF KeyImport
      <4> QED BY <4>1, GoWithEffect
    <3> QED BY <1>4, <3>1, <3>2
  <2> QED BY <1>1, <1>4, <2>1, <2>2, <2>3 DEF Readable
<1> QED BY <1>2, <1>3, <1>4

LEMMA ReadableStep ==
    ASSUME StoreTypeOK, KeyInv, PasswordsReadable, [StoreNext]_storeVars
    PROVE  PasswordsReadable'
<1>1. CASE UNCHANGED storeVars
  <2>1. Loaded' = Loaded /\ KeyOnFile' = KeyOnFile
    BY <1>1, LoadedSame DEF storeVars
  <2> QED BY <1>1, <2>1 DEF PasswordsReadable, storeVars
<1>2. ASSUME NEW p \in Proc, KeyLoad(p) \/ KeyImport(p) \/ KeySave(p) \/ KeyWrite(p)
      PROVE  PasswordsReadable'
  BY <1>2, ReadableSearching
<1>3. ASSUME NEW m \in Manager, Write(m)
      PROVE  PasswordsReadable'
  <2>1. /\ KeyOnFile # NoKey /\ KeyOnFile' = KeyOnFile
        /\ \A x \in Entry : entry[x] # "removed" => Loaded'.own[x] = Loaded.own[x]
    BY <1>3, WriteKeeps
  <2>2. UNCHANGED <<password, lost>>
    BY <1>3 DEF Write
  <2> QED BY <2>1, <2>2 DEF PasswordsReadable, KeyInv, EntriesInv
<1>4. ASSUME NEW e \in Entry, Encrypt(e)
      PROVE  PasswordsReadable'
  <2>1. Loaded' = Loaded /\ KeyOnFile' = KeyOnFile /\ lost' = lost
    BY <1>4, LoadedSame DEF Encrypt, disk, history
  <2>2. KeyOnFile # NoKey /\ proc[Flow].key = KeyOnFile
    BY <1>4, Members DEF Encrypt, KeyInv, SearchersInv
  <2>3. \A x \in Entry : password'[x] = IF x = e THEN KeyOnFile ELSE password[x]
    BY <1>4, <2>2 DEF Encrypt, StoreTypeOK
  <2> QED BY <2>1, <2>2, <2>3 DEF PasswordsReadable
<1>5. ASSUME NEW e \in Entry, SetUp(e) \/ Decrypt(e) \/ DataLoad(e) \/ Initialized(e)
      PROVE  PasswordsReadable'
  <2>1. /\ Loaded' = Loaded /\ KeyOnFile' = KeyOnFile
        /\ UNCHANGED <<legacy, password, lost>>
    BY <1>5, LoadedSame DEF SetUp, Decrypt, DataLoad, Initialized, disk, history
  <2>2. KeyOnFile = NoKey => SetUp(e)
    BY <1>5, Members DEF Decrypt, DataLoad, Initialized, KeyInv, SearchersInv
  <2>3. SetUp(e) => \A q \in Proc : proc'[q].key = proc[q].key
    BY GoEffect, Members DEF SetUp
  <2> QED BY <2>1, <2>2, <2>3 DEF PasswordsReadable
<1>6. ASSUME NEW e \in Entry, Unload(e) \/ Remove(e) \/ RemoveFailed(e)
      PROVE  PasswordsReadable'
  <2>1. Loaded' = Loaded /\ KeyOnFile' = KeyOnFile /\ UNCHANGED <<legacy, proc, lost>>
    BY <1>6, LoadedSame DEF Unload, Remove, RemoveFailed, disk, history
  <2>2. \A x \in Entry : password'[x] # NoKey => password'[x] = password[x]
    BY <1>6 DEF Unload, Remove, RemoveFailed, StoreTypeOK
  <2> QED BY <2>1, <2>2 DEF PasswordsReadable
<1>7. CASE Submit
  <2>1. Loaded' = Loaded /\ KeyOnFile' = KeyOnFile /\ UNCHANGED <<legacy, password, lost>>
    BY <1>7, LoadedSame DEF Submit, disk, history
  <2>2. \A q \in Proc : proc'[q].key = proc[q].key
    BY <1>7, GoEffect, Members DEF Submit
  <2> QED BY <2>1, <2>2 DEF PasswordsReadable
<1>8. ASSUME NEW m \in Manager, Change(m)
      PROVE  PasswordsReadable'
  <2>1. Loaded' = Loaded /\ KeyOnFile' = KeyOnFile /\ UNCHANGED <<legacy, password, lost, proc>>
    BY <1>8, LoadedSame DEF Change, disk, history
  <2> QED BY <2>1 DEF PasswordsReadable
<1>9. CASE Crash
  <2>1. Loaded' = Loaded /\ KeyOnFile' = KeyOnFile /\ UNCHANGED <<legacy, password>>
    BY <1>9, LoadedSame DEF Crash, disk
  <2>2. lost \subseteq lost'
    BY <1>9 DEF Crash
  <2>3. ASSUME KeyOnFile = NoKey, NEW p \in Proc, proc[p].key # NoKey
        PROVE  proc[p].key \in lost'
    <3>1. Searching(p)
      <4>1. proc[p].pc \in State
        BY DEF StoreTypeOK, State
      <4> QED BY <2>3, <4>1 DEF KeyInv, SearchersInv, Searching, State
    <3> QED BY <1>9, <2>3, <3>1 DEF Crash
  <2> QED BY <2>1, <2>2, <2>3 DEF PasswordsReadable
<1>10. CASE ShowForm
  <2>1. Loaded' = Loaded /\ KeyOnFile' = KeyOnFile /\ UNCHANGED <<legacy, password, lost>>
    BY <1>10, LoadedSame DEF ShowForm, disk, history
  <2>2. KeyOnFile # NoKey
    BY <1>10, Members DEF ShowForm, KeyInv, SearchersInv
  <2> QED BY <2>1, <2>2 DEF PasswordsReadable
<1> QED BY <1>1, <1>2, <1>3, <1>4, <1>5, <1>6, <1>7, <1>8, <1>9, <1>10 DEF StoreNext

(* A password that Home Assistant stores can be read with a key that is on *)
(* file, in the file of an old version or about to be written, unless a    *)
(* crash has lost the key between its removal and its writing.             *)
THEOREM PasswordsStayReadable == ~AtOnce => (StoreSpec => []PasswordsReadable)
<1> SUFFICES ASSUME ~AtOnce
             PROVE  StoreSpec => []PasswordsReadable
  OBVIOUS
<1>1. StoreInit => StoreTypeOK /\ KeyInv /\ PasswordsReadable
  BY StoreInitType, KeyInit
<1>2. StoreTypeOK /\ KeyInv /\ PasswordsReadable /\ [StoreNext]_storeVars
        => (StoreTypeOK /\ KeyInv /\ PasswordsReadable)'
  BY StoreTypeStep, KeyStep, ReadableStep
<1> QED BY <1>1, <1>2, PTL DEF StoreSpec

-------------------------------------------------------------------------------
(* What is saved.  No file, read or about to be written, has data of an    *)
(* entry that are newer than its last change.                              *)
VersionInv ==
    \A e \in Entry :
        /\ version[e] >= Defaults /\ Loaded.data[e] <= version[e]
        /\ \A m \in Manager : \A c \in Writes(m) : c.data[e] <= version[e]
        /\ \A p \in Proc : proc[p].content.data[e] <= version[e]

(* The last write that a present manager has under way carries what it has *)
(* in memory; without one, that is on file, unless another manager has put *)
(* older data back.                                                        *)
LastInv ==
    \A e \in Entry : setUps[e] > 0 /\ entry[e] # "removed" =>
        LET m == Present(e) IN
        /\ pending[m] # <<>> => pending[m][Len(pending[m])].data[e] = memory[m]
        /\ pending[m] = <<>> /\ e \notin undone => Loaded.data[e] = memory[m]

LEMMA WritesType ==
    ASSUME StoreTypeOK, NEW m \in Manager
    PROVE  Writes(m) \subseteq Content
<1>1. pending[m] \in Seq(Content)
  BY DEF StoreTypeOK
<1> QED BY <1>1 DEF Writes

(* Steps that write nothing and change no version.                         *)
LEMMA VersionSame ==
    ASSUME StoreTypeOK, VersionInv, UNCHANGED <<file, version>>,
           \A m \in Manager : \A c \in Writes(m)' : c \in Writes(m) \/ \A x \in Entry : c.data[x] <= version[x],
           \A p \in Proc : \/ proc'[p].content = proc[p].content
                           \/ \A x \in Entry : proc'[p].content.data[x] <= version[x]
    PROVE  VersionInv'
<1>1. Loaded' = Loaded
  BY LoadedSame
<1> QED BY <1>1 DEF VersionInv

LEMMA EmptyVersion ==
    ASSUME StoreTypeOK, VersionInv
    PROVE  \A x \in Entry : Empty.data[x] <= version[x]
  BY DEF Empty, NoData, VersionInv, Defaults, StoreTypeOK, Version

LEMMA VersionSearching ==
    ASSUME StoreTypeOK, VersionInv, NEW p \in Proc, KeyLoad(p) \/ KeyImport(p) \/ KeySave(p) \/ KeyWrite(p)
    PROVE  VersionInv'
<1>1. UNCHANGED version /\ \A m \in Manager : Writes(m)' = Writes(m)
  BY WritesSame DEF KeyLoad, KeyImport, KeySave, KeyWrite, managers
<1>2. proc[p] \in [pc : State, key : Key \cup {NoKey}, content : Content]
  BY DEF StoreTypeOK, State
<1>3. CASE KeyLoad(p) \/ KeyImport(p)
  <2>1. \A q \in Proc : proc'[q].content = proc[q].content
    BY <1>3, GoEffect, GoWithEffect DEF KeyLoad, KeyImport
  <2>2. UNCHANGED file
    BY <1>3 DEF KeyLoad, KeyImport, disk
  <2> QED BY <1>1, <2>1, <2>2, VersionSame
<1>4. CASE KeySave(p)
  <2> DEFINE c == [Loaded EXCEPT !.key = proc[p].key]
             r == [proc[p] EXCEPT !.pc = "keyWrite", !.content = c]
  <2>1. c.data = Loaded.data
    BY LoadedType DEF Content
  <2> HIDE DEF c
  <2>2. r.content = c
    BY <1>2
  <2>3. Go(p, "ready") \/ proc' = [proc EXCEPT ![p] = r]
    BY <1>2, <1>4 DEF KeySave, StoreTypeOK, c
  <2> HIDE DEF r
  <2>4. \A q \in Proc : proc'[q].content = proc[q].content \/ proc'[q].content = c
    BY <2>2, <2>3, GoEffect DEF StoreTypeOK
  <2>5. UNCHANGED file
    BY <1>4 DEF KeySave, disk
  <2>6. \A x \in Entry : c.data[x] <= version[x]
    BY <2>1 DEF VersionInv
  <2>7. \A q \in Proc : proc'[q].content = proc[q].content \/ \A x \in Entry : proc'[q].content.data[x] <= version[x]
    BY <2>4, <2>6
  <2> QED BY <1>1, <2>5, <2>7, VersionSame
<1>5. CASE KeyWrite(p)
  <2> DEFINE r == [proc[p] EXCEPT !.pc = "ready", !.content = Empty]
  <2>1. Loaded' = proc[p].content
    BY <1>2, <1>5, LoadedAfter DEF KeyWrite
  <2>2. proc' = [proc EXCEPT ![p] = r] /\ r.content = Empty
    BY <1>2, <1>5 DEF KeyWrite, StoreTypeOK
  <2> HIDE DEF r
  <2>3. \A q \in Proc : proc'[q].content = proc[q].content \/ proc'[q].content = Empty
    BY <2>2 DEF StoreTypeOK
  <2>4. \A x \in Entry : Empty.data[x] <= version[x]
    BY EmptyVersion
  <2> QED BY <1>1, <2>1, <2>3, <2>4 DEF VersionInv
<1> QED BY <1>3, <1>4, <1>5

LEMMA ContentKept ==
    ASSUME StoreTypeOK, NEW p \in Proc,
           (\E pc \in State : Go(p, pc)) \/ proc' = [proc EXCEPT ![p] = Idle], NEW q \in Proc
    PROVE  proc'[q].content = proc[q].content \/ proc'[q].content = Empty
<1>1. CASE \E pc \in State : Go(p, pc)
  BY <1>1, GoEffect
<1>2. CASE proc' = [proc EXCEPT ![p] = Idle]
  BY <1>2 DEF StoreTypeOK, Idle
<1> QED BY <1>1, <1>2

(* What an append of a manager adds.                                       *)
LEMMA ComposedVersion ==
    ASSUME StoreTypeOK, VersionInv, NEW m \in Manager, NEW v \in Version, v <= version[m[1]], NEW c \in Content,
           Composed(m, v) = <<c>>
    PROVE  /\ c.data[m[1]] = v
           /\ \A x \in Entry : c.data[x] <= version[x]
<1>1. m[1] \in Entry
  BY DEF Manager
<1>2. c.data = [Loaded.data EXCEPT ![m[1]] = v]
  BY ComposedContent
<1>3. Loaded.data \in [Entry -> Version]
  BY LoadedType DEF Content
<1> QED BY <1>1, <1>2, <1>3 DEF VersionInv

LEMMA VersionEntry ==
    ASSUME StoreTypeOK, VersionInv, NEW e \in Entry,
           SetUp(e) \/ Encrypt(e) \/ Decrypt(e) \/ Initialized(e) \/ Unload(e) \/ Remove(e)
    PROVE  VersionInv'
<1>1. UNCHANGED <<file, version, pending>>
  BY DEF SetUp, Encrypt, Decrypt, Initialized, Unload, Remove, disk, managers
<1>2. \/ proc' = proc
      \/ \E p \in Proc : (\E pc \in State : Go(p, pc)) \/ proc' = [proc EXCEPT ![p] = Idle]
  BY Members DEF SetUp, Encrypt, Decrypt, Initialized, Unload, Remove, State
<1>3. \A q \in Proc : proc'[q].content = proc[q].content \/ proc'[q].content = Empty
  BY <1>2, ContentKept
<1> QED BY <1>1, <1>3, EmptyVersion, WritesSame, VersionSame

LEMMA VersionDataLoad ==
    ASSUME StoreTypeOK, VersionInv, NEW e \in Entry, DataLoad(e)
    PROVE  VersionInv'
<1>1. PICK m \in Manager : m = <<e, setUps[e] + 1>>
  BY PresentType DEF DataLoad
<1>2. PICK v \in Version : v = (IF Loaded.data[e] = NoData THEN Defaults ELSE Loaded.data[e])
  BY LoadedType, StoreAssumption DEF Content, Version, Defaults, NoData
<1>3. v <= version[m[1]]
  BY <1>1, <1>2 DEF VersionInv
<1>4. pending' = [pending EXCEPT ![m] = Composed(m, v)] /\ UNCHANGED <<file, version>> /\ Go(e, "defaults")
  BY <1>1, <1>2 DEF DataLoad, disk
<1>5. \A q \in Proc : proc'[q].content = proc[q].content
  BY <1>4, GoEffect, Members
<1>6. ASSUME NEW n \in Manager, NEW c \in Writes(n)'
      PROVE  c \in Writes(n) \/ \A x \in Entry : c.data[x] <= version[x]
  <2>1. CASE n # m
    <3>1. pending'[n] = pending[n]
      BY <1>4, <2>1 DEF StoreTypeOK
    <3> QED BY <1>6, <3>1 DEF Writes
  <2>2. CASE n = m
    <3>1. pending'[m] = Composed(m, v)
      BY <1>4 DEF StoreTypeOK
    <3>2. PICK i \in 1 .. Len(Composed(m, v)) : c = Composed(m, v)[i]
      BY <1>6, <2>2, <3>1 DEF Writes
    <3>3. PICK d \in Content : Composed(m, v) = <<d>>
      <4>1. Composed(m, v) # <<>>
        BY <3>2
      <4> QED BY <4>1, ComposedContent
    <3>4. c = d
      BY <3>2, <3>3
    <3> QED BY <1>3, <3>3, <3>4, ComposedVersion
  <2> QED BY <2>1, <2>2
<1> QED BY <1>4, <1>5, <1>6, VersionSame

LEMMA VersionChange ==
    ASSUME StoreTypeOK, VersionInv, NEW m \in Manager, Change(m)
    PROVE  VersionInv'
<1>1. PICK e \in Entry : e = m[1]
  BY DEF Manager
<1>2. PICK v \in Version : v = version[e] + 1
  BY <1>1 DEF Change, StoreTypeOK, Version, NoData
<1>3. /\ pending' = [pending EXCEPT ![m] = @ \o Composed(m, v)] /\ UNCHANGED <<file, proc>>
      /\ version' = [version EXCEPT ![e] = v]
  BY <1>1, <1>2 DEF Change, disk
<1>4. Loaded' = Loaded
  BY <1>3, LoadedSame
<1>5. \A x \in Entry : /\ version[x] \in Nat /\ version'[x] \in Nat /\ version[x] <= version'[x]
                       /\ x = e => version'[x] = v
  BY <1>2, <1>3 DEF StoreTypeOK, Version, NoData
<1>6. \A x \in Entry : Loaded.data[x] \in Nat
  BY LoadedType DEF Content, Version, NoData
<1>7. ASSUME NEW n \in Manager, NEW c \in Writes(n)', NEW x \in Entry
      PROVE  c.data[x] <= version'[x]
  <2>1. CASE c \in Writes(n)
    <3>1. c.data[x] <= version[x] /\ c.data[x] \in Nat
      BY <2>1, WritesType DEF VersionInv, Content, Version, NoData
    <3> QED BY <1>5, <3>1
  <2>2. CASE c \notin Writes(n)
    <3>1. CASE Composed(m, v) = <<>>
      <4>1. pending[m] \o <<>> = pending[m]
        BY DEF StoreTypeOK
      <4>2. pending' = pending
        BY <1>3, <3>1, <4>1 DEF StoreTypeOK
      <4> QED BY <1>7, <2>2, <4>2, WritesSame
    <3>2. CASE Composed(m, v) # <<>>
      <4>1. PICK d \in Content : Composed(m, v) = <<d>> /\ d.data = [Loaded.data EXCEPT ![m[1]] = v]
        BY <3>2, ComposedContent
      <4>2. pending' = [pending EXCEPT ![m] = @ \o <<d>>]
        BY <1>3, <4>1
      <4>3. c = d
        <5>1. Writes(n)' \subseteq Writes(n) \cup {d}
          BY <4>2, Appended
        <5> QED BY <1>7, <2>2, <5>1
      <4>4. Loaded.data \in [Entry -> Version]
        BY LoadedType DEF Content
      <4>5. x # e => c.data[x] = Loaded.data[x]
        BY <1>1, <4>1, <4>3, <4>4
      <4>6. x = e => c.data[x] = v
        BY <1>1, <4>1, <4>3, <4>4
      <4>7. Loaded.data[x] <= version[x]
        BY DEF VersionInv
      <4> QED BY <1>2, <1>5, <1>6, <4>5, <4>6, <4>7 DEF Version, NoData
    <3> QED BY <3>1, <3>2
  <2> QED BY <2>1, <2>2
<1>8. ASSUME NEW q \in Proc, NEW x \in Entry
      PROVE  proc'[q].content.data[x] <= version'[x]
  <2>1. proc[q].content.data[x] <= version[x] /\ proc[q].content.data[x] \in Nat
    BY DEF VersionInv, StoreTypeOK, Content, Version, NoData
  <2> QED BY <1>3, <1>5, <2>1
<1>9. \A x \in Entry : version'[x] >= Defaults /\ Loaded'.data[x] <= version'[x]
  BY <1>4, <1>5, <1>6 DEF VersionInv, Defaults
<1> QED BY <1>7, <1>8, <1>9 DEF VersionInv

LEMMA VersionWrite ==
    ASSUME StoreTypeOK, VersionInv, NEW m \in Manager, Write(m)
    PROVE  VersionInv'
<1>1. /\ Head(pending[m]) \in Writes(m) /\ Head(pending[m]) \in Content
      /\ \A n \in Manager : Writes(n)' \subseteq Writes(n)
  BY Shortened DEF Write
<1>2. UNCHANGED <<proc, version>> /\ Loaded' = Head(pending[m])
  BY <1>1, LoadedAfter DEF Write
<1> QED BY <1>1, <1>2 DEF VersionInv

(* What the removal of a failed entry adds.                                *)
LEMMA RemovalWritten ==
    ASSUME StoreTypeOK, NEW e \in Entry, RemoveFailed(e), pending' # pending
    PROVE  \E c \in Content :
              /\ pending' = [pending EXCEPT ![Present(e)] = @ \o <<c>>] /\ Present(e) \in Manager
              /\ \A x \in Entry : c.data[x] = Loaded.data[x] \/ c.data[x] = NoData
<1>1. PICK m : m = Present(e)
  OBVIOUS
<1> DEFINE c == [file EXCEPT !.data[e] = NoData, !.own[e] = NoKey]
<1>2. pending' = [pending EXCEPT ![m] = Append(@, c)] /\ file # NoFile
  BY <1>1 DEF RemoveFailed
<1>3. file \in Content /\ Loaded = file
  BY <1>2 DEF StoreTypeOK, Loaded
<1>4. c \in Content /\ \A x \in Entry : c.data[x] = Loaded.data[x] \/ c.data[x] = NoData
  <2>1. NoData \in Version
    BY StoreAssumption DEF Version, NoData
  <2> QED BY <1>3, <2>1 DEF Content
<1> HIDE DEF c
<1>5. m \in Manager
  BY <1>2 DEF StoreTypeOK
<1>6. Append(pending[m], c) = pending[m] \o <<c>>
  <2>1. pending[m] \in Seq(Content)
    BY <1>5 DEF StoreTypeOK
  <2> QED BY <1>4, <2>1
<1>7. pending' = [pending EXCEPT ![m] = @ \o <<c>>]
  BY <1>2, <1>5, <1>6 DEF StoreTypeOK
<1> QED BY <1>1, <1>4, <1>5, <1>7

LEMMA VersionRemoveFailed ==
    ASSUME StoreTypeOK, VersionInv, NEW e \in Entry, RemoveFailed(e)
    PROVE  VersionInv'
<1>1. UNCHANGED <<file, version, proc>>
  BY DEF RemoveFailed, disk
<1>2. CASE pending' = pending
  BY <1>1, <1>2, WritesSame, VersionSame
<1>3. CASE pending' # pending
  <2>1. PICK m \in Manager, c \in Content :
            /\ pending' = [pending EXCEPT ![m] = @ \o <<c>>]
            /\ \A x \in Entry : c.data[x] = Loaded.data[x] \/ c.data[x] = NoData
    BY <1>3, RemovalWritten
  <2>2. \A n \in Manager : Writes(n)' \subseteq Writes(n) \cup {c}
    BY <2>1, Appended
  <2>3. ASSUME NEW x \in Entry
        PROVE  c.data[x] <= version[x]
    <3>1. version[x] \in Nat /\ Loaded.data[x] <= version[x]
      BY DEF VersionInv, StoreTypeOK, Version, NoData
    <3> QED BY <2>1, <3>1 DEF NoData
  <2>4. \A n \in Manager : \A d \in Writes(n)' : d \in Writes(n) \/ \A x \in Entry : d.data[x] <= version[x]
    BY <2>2, <2>3
  <2> QED BY <1>1, <2>4, VersionSame
<1> QED BY <1>2, <1>3

LEMMA VersionCrash ==
    ASSUME StoreTypeOK, VersionInv, Crash
    PROVE  VersionInv'
<1>1. UNCHANGED <<file, version>> /\ \A p \in Proc : proc'[p].content = Empty
  BY DEF Crash, disk, Idle
<1>2. \A m \in Manager : Writes(m)' = {}
  BY DEF Crash, Writes
<1> QED BY <1>1, <1>2, EmptyVersion, VersionSame

LEMMA VersionStep ==
    ASSUME StoreTypeOK, VersionInv, [StoreNext]_storeVars
    PROVE  VersionInv'
<1>1. CASE UNCHANGED storeVars
  BY <1>1, WritesSame, VersionSame DEF storeVars
<1>2. CASE Submit \/ ShowForm
  <2>1. UNCHANGED <<file, version, pending>>
    BY <1>2 DEF Submit, ShowForm, disk, managers
  <2>2. (\E pc \in State : Go(Flow, pc)) \/ proc' = [proc EXCEPT ![Flow] = Idle]
    BY <1>2 DEF Submit, ShowForm, State
  <2>3. \A q \in Proc : proc'[q].content = proc[q].content \/ proc'[q].content = Empty
    BY <2>2, ContentKept, Members
  <2> QED BY <2>1, <2>3, EmptyVersion, WritesSame, VersionSame
<1>3. CASE StoreNext
  BY <1>2, <1>3, VersionSearching, VersionEntry, VersionDataLoad, VersionChange, VersionWrite, VersionRemoveFailed,
     VersionCrash DEF StoreNext
<1> QED BY <1>1, <1>3

-------------------------------------------------------------------------------
(* An entry is unloaded while it is set up.                                *)
SetUpInv == \A e \in Entry : proc[e].pc # "idle" => entry[e] = "unloaded"

LEMMA SetUpStep ==
    ASSUME StoreTypeOK, SetUpInv, [StoreNext]_storeVars
    PROVE  SetUpInv'
<1>1. CASE UNCHANGED <<proc, entry>>
  BY <1>1 DEF SetUpInv
<1>2. ASSUME NEW p \in Proc, KeyLoad(p) \/ KeyImport(p) \/ KeySave(p) \/ KeyWrite(p)
      PROVE  SetUpInv'
  <2>1. UNCHANGED entry /\ proc[p].pc # "idle"
    BY <1>2 DEF KeyLoad, KeyImport, KeySave, KeyWrite
  <2>2. \A q \in Proc : q # p => proc'[q] = proc[q]
    BY <1>2 DEF KeyLoad, KeyImport, KeySave, KeyWrite, Go, GoWith, StoreTypeOK
  <2> QED BY <2>1, <2>2, Members DEF SetUpInv
<1>3. ASSUME NEW e \in Entry, SetUp(e) \/ Decrypt(e) \/ DataLoad(e)
      PROVE  SetUpInv'
  <2>1. UNCHANGED entry /\ entry[e] = "unloaded"
    BY <1>3, Members DEF SetUp, Decrypt, DataLoad, SetUpInv
  <2>2. \A q \in Proc : q # e => proc'[q] = proc[q]
    BY <1>3, Members DEF SetUp, Decrypt, DataLoad, Go, StoreTypeOK
  <2> QED BY <2>1, <2>2, Members DEF SetUpInv
<1>4. ASSUME NEW e \in Entry, Initialized(e) \/ Unload(e) \/ Remove(e) \/ RemoveFailed(e)
      PROVE  SetUpInv'
  <2>1. \A x \in Entry : x # e => entry'[x] = entry[x] /\ proc'[x] = proc[x]
    BY <1>4, Members DEF Initialized, Unload, Remove, RemoveFailed, StoreTypeOK
  <2>2. proc'[e].pc = "idle" \/ (proc'[e] = proc[e] /\ entry'[e] = "unloaded")
    BY <1>4, Members DEF Initialized, Unload, Remove, RemoveFailed, StoreTypeOK, Idle
  <2> QED BY <2>1, <2>2 DEF SetUpInv
<1>5. ASSUME NEW e \in Entry, Encrypt(e)
      PROVE  SetUpInv'
  <2>1. \A x \in Entry : proc'[x] = proc[x]
    BY <1>5, Members DEF Encrypt, StoreTypeOK
  <2>2. \A x \in Entry : entry[x] = "unloaded" => entry'[x] = "unloaded"
    BY <1>5 DEF Encrypt, StoreTypeOK
  <2> QED BY <2>1, <2>2 DEF SetUpInv
<1>6. CASE Submit \/ ShowForm
  <2>1. \A x \in Entry : proc'[x] = proc[x]
    BY <1>6, Members DEF Submit, ShowForm, Go, StoreTypeOK
  <2> QED BY <1>6, <2>1 DEF SetUpInv, Submit, ShowForm
<1>7. CASE Crash
  BY <1>7, Members DEF SetUpInv, Crash, Idle
<1>8. ASSUME NEW m \in Manager, Change(m) \/ Write(m)
      PROVE  UNCHANGED <<proc, entry>>
  BY <1>8 DEF Change, Write
<1> QED BY <1>1, <1>2, <1>3, <1>4, <1>5, <1>6, <1>7, <1>8 DEF StoreNext, storeVars

(* The last write of a present manager.                                    *)
LEMMA LastSame ==
    ASSUME LastInv, UNCHANGED <<file, setUps, memory, pending, undone>>,
           \A e \in Entry : entry'[e] # "removed" => entry[e] # "removed"
    PROVE  LastInv'
<1>1. Loaded' = Loaded
  BY LoadedSame
<1> QED BY <1>1 DEF LastInv, Present

LEMMA LastQuiet ==
    ASSUME StoreTypeOK, SetUpInv, LastInv, NEW e \in Entry,
           SetUp(e) \/ Encrypt(e) \/ Decrypt(e) \/ Initialized(e) \/ Unload(e) \/ Remove(e)
    PROVE  LastInv'
<1>1. UNCHANGED <<file, setUps, memory, pending, undone>>
  BY DEF SetUp, Encrypt, Decrypt, Initialized, Unload, Remove, disk, managers, history
<1>2. \A x \in Entry : entry'[x] # "removed" => entry[x] # "removed"
  <2>1. CASE UNCHANGED entry
    BY <2>1
  <2>2. CASE Encrypt(e)
    BY <2>2 DEF Encrypt, StoreTypeOK
  <2>3. CASE Initialized(e)
    BY <2>3, Members DEF Initialized, SetUpInv, StoreTypeOK
  <2>4. CASE Unload(e) \/ Remove(e)
    BY <2>4 DEF Unload, Remove, StoreTypeOK
  <2> QED BY <2>1, <2>2, <2>3, <2>4 DEF SetUp, Decrypt
<1> QED BY <1>1, <1>2, LastSame

LEMMA LastKeyWrite ==
    ASSUME StoreTypeOK, LastInv, NEW p \in Proc, KeyWrite(p)
    PROVE  LastInv'
<1>1. Loaded' = proc[p].content
  <2>1. proc[p].content \in Content
    BY DEF StoreTypeOK
  <2> QED BY <2>1, LoadedAfter DEF KeyWrite
<1>2. UNCHANGED <<setUps, memory, pending, entry>>
  BY DEF KeyWrite, managers
<1>3. \A x \in Entry : x \notin undone' => x \notin undone /\ Loaded'.data[x] = Loaded.data[x]
  BY <1>1 DEF KeyWrite
<1> QED BY <1>2, <1>3 DEF LastInv, Present

LEMMA LastDataLoad ==
    ASSUME StoreTypeOK, VersionInv, LastInv, NEW e \in Entry, DataLoad(e)
    PROVE  LastInv'
<1>1. PICK m \in Manager : m = <<e, setUps[e] + 1>>
  BY PresentType DEF DataLoad
<1>2. PICK v \in Version : v = (IF Loaded.data[e] = NoData THEN Defaults ELSE Loaded.data[e])
  BY LoadedType, StoreAssumption DEF Content, Version, Defaults, NoData
<1>3. /\ pending' = [pending EXCEPT ![m] = Composed(m, v)] /\ memory' = [memory EXCEPT ![m] = v]
      /\ setUps' = [setUps EXCEPT ![e] = @ + 1] /\ undone' = undone \ {e}
      /\ UNCHANGED <<file, entry, version>>
  BY <1>1, <1>2 DEF DataLoad, disk
<1>4. Loaded' = Loaded
  BY <1>3, LoadedSame
<1>5. ASSUME NEW x \in Entry, x # e, setUps'[x] > 0, entry'[x] # "removed"
      PROVE  LET n == Present(x)' IN
             /\ pending'[n] # <<>> => pending'[n][Len(pending'[n])].data[x] = memory'[n]
             /\ pending'[n] = <<>> /\ x \notin undone' => Loaded'.data[x] = memory'[n]
  <2>1. PICK n \in Manager : n = Present(x) /\ n = Present(x)' /\ setUps[x] > 0
    BY <1>3, <1>5, PresentType DEF Present, StoreTypeOK
  <2>2. n # m
    BY <1>1, <1>5, <2>1 DEF Present
  <2>3. pending'[n] = pending[n] /\ memory'[n] = memory[n]
    BY <1>3, <2>2 DEF StoreTypeOK
  <2>4. x \in undone' <=> x \in undone
    BY <1>3, <1>5
  <2> QED BY <1>3, <1>4, <1>5, <2>1, <2>3, <2>4 DEF LastInv
<1>6. ASSUME entry'[e] # "removed"
      PROVE  LET n == Present(e)' IN
             /\ pending'[n] # <<>> => pending'[n][Len(pending'[n])].data[e] = memory'[n]
             /\ pending'[n] = <<>> /\ e \notin undone' => Loaded'.data[e] = memory'[n]
  <2>1. m = Present(e)'
    BY <1>1, <1>3 DEF Present, StoreTypeOK
  <2>2. pending'[m] = Composed(m, v) /\ memory'[m] = v
    BY <1>3 DEF StoreTypeOK
  <2>3. m[1] = e /\ v <= version[m[1]]
    BY <1>1, <1>2 DEF VersionInv
  <2>4. CASE Composed(m, v) = <<>>
    <3>2. Loaded.data[m[1]] = v
      <4> SUFFICES ASSUME Loaded.data[m[1]] # v
                   PROVE  FALSE
        OBVIOUS
      <4>1. PICK c \in Content : Composed(m, v) = <<c>>
        BY ComposedContent
      <4>2. Len(<<c>>) = 1 /\ Len(<<>>) = 0
        OBVIOUS
      <4> QED BY <2>4, <4>1, <4>2
    <3>3. Loaded.data[e] = v
      BY <2>3, <3>2
    <3> QED BY <1>4, <2>1, <2>2, <2>4, <3>3
  <2>5. CASE Composed(m, v) # <<>>
    <3>1. PICK c \in Content : Composed(m, v) = <<c>>
      BY <2>5, ComposedContent
    <3>2. c.data[e] = v
      BY <2>3, <3>1, ComposedVersion
    <3>3. pending'[m][Len(pending'[m])] = c /\ pending'[m] # <<>>
      BY <2>2, <3>1
    <3> QED BY <2>1, <2>2, <3>2, <3>3
  <2> QED BY <2>4, <2>5
<1> QED BY <1>5, <1>6 DEF LastInv

LEMMA LastChange ==
    ASSUME StoreTypeOK, VersionInv, LastInv, NEW m \in Manager, Change(m)
    PROVE  LastInv'
<1>1. PICK e \in Entry : e = m[1]
  BY DEF Manager
<1>2. PICK v \in Version : v = version[e] + 1
  BY <1>1 DEF Change, StoreTypeOK, Version, NoData
<1>3. /\ pending' = [pending EXCEPT ![m] = @ \o Composed(m, v)] /\ memory' = [memory EXCEPT ![m] = v]
      /\ UNCHANGED <<file, entry, setUps, undone>>
  BY <1>1, <1>2 DEF Change, disk, history
<1>4. Loaded' = Loaded
  BY <1>3, LoadedSame
<1>5. PICK c \in Content : Composed(m, v) = <<c>> /\ c.data = [Loaded.data EXCEPT ![m[1]] = v]
  <2>1. Loaded.data[e] <= version[e]
    BY DEF VersionInv
  <2>3. version[e] \in Nat
    BY DEF StoreTypeOK, Version, NoData
  <2>4. Loaded.data[e] \in Nat
    BY LoadedType DEF Content, Version, NoData
  <2>2. Loaded.data[m[1]] # v
    BY <1>1, <1>2, <2>1, <2>3, <2>4
  <2> QED BY <2>2, ComposedContent
<1>6. c.data[e] = v
  <2>1. Loaded.data \in [Entry -> Version]
    BY LoadedType DEF Content
  <2> QED BY <1>1, <1>5, <2>1
<1>7. /\ pending'[m] # <<>> /\ pending'[m][Len(pending'[m])] = c
      /\ \A n \in Manager : n # m => pending'[n] = pending[n]
  <2>1. pending' = [pending EXCEPT ![m] = @ \o <<c>>]
    BY <1>3, <1>5
  <2> QED BY <2>1, Appended
<1>8. memory'[m] = v /\ \A n \in Manager : n # m => memory'[n] = memory[n]
  BY <1>3 DEF StoreTypeOK
<1>9. ASSUME NEW x \in Entry, setUps'[x] > 0, entry'[x] # "removed"
      PROVE  LET n == Present(x)' IN
             /\ pending'[n] # <<>> => pending'[n][Len(pending'[n])].data[x] = memory'[n]
             /\ pending'[n] = <<>> /\ x \notin undone' => Loaded'.data[x] = memory'[n]
  <2>1. PICK n \in Manager : n = Present(x) /\ n = Present(x)' /\ n[1] = x
    BY <1>3, <1>9, PresentType DEF Present, StoreTypeOK
  <2>2. CASE n = m
    BY <1>1, <1>6, <1>7, <1>8, <2>1, <2>2
  <2>3. CASE n # m
    <3>1. /\ pending[n] # <<>> => pending[n][Len(pending[n])].data[x] = memory[n]
          /\ pending[n] = <<>> /\ x \notin undone => Loaded.data[x] = memory[n]
      BY <1>3, <1>9, <2>1 DEF LastInv
    <3>2. pending'[n] = pending[n] /\ memory'[n] = memory[n] /\ Loaded' = Loaded /\ undone' = undone
      BY <1>3, <1>4, <1>7, <1>8, <2>3
    <3> QED BY <2>1, <3>1, <3>2
  <2> QED BY <2>2, <2>3
<1> QED BY <1>9 DEF LastInv

LEMMA LastWrite ==
    ASSUME StoreTypeOK, LastInv, NEW m \in Manager, Write(m)
    PROVE  LastInv'
<1>1. PICK c \in Content : c = Head(pending[m])
  BY Shortened DEF Write
<1>2. /\ \A n \in Manager : n # m => pending'[n] = pending[n]
      /\ pending'[m] # <<>> => pending'[m][Len(pending'[m])] = pending[m][Len(pending[m])]
      /\ pending'[m] = <<>> => c = pending[m][Len(pending[m])]
      /\ pending[m] # <<>>
  BY <1>1, Shortened DEF Write
<1>3. Loaded' = c /\ UNCHANGED <<entry, setUps, memory>>
  BY <1>1, LoadedAfter DEF Write
<1>4. \A x \in Entry : x \notin undone' =>
          (m # Present(x) \/ m[1] # x => x \notin undone /\ Loaded'.data[x] = Loaded.data[x])
  BY <1>1, <1>3 DEF Write, Present, Manager
<1>5. ASSUME NEW x \in Entry, setUps'[x] > 0, entry'[x] # "removed"
      PROVE  LET n == Present(x)' IN
             /\ pending'[n] # <<>> => pending'[n][Len(pending'[n])].data[x] = memory'[n]
             /\ pending'[n] = <<>> /\ x \notin undone' => Loaded'.data[x] = memory'[n]
  <2>1. PICK n \in Manager : n = Present(x) /\ n = Present(x)'
    BY <1>3, <1>5, PresentType DEF Present
  <2>2. CASE n = m
    BY <1>2, <1>3, <1>5, <2>1, <2>2 DEF LastInv
  <2>3. CASE n # m
    BY <1>2, <1>3, <1>4, <1>5, <2>1, <2>3 DEF LastInv
  <2> QED BY <2>2, <2>3
<1> QED BY <1>5 DEF LastInv

LEMMA LastRemoveFailed ==
    ASSUME StoreTypeOK, LastInv, NEW e \in Entry, RemoveFailed(e)
    PROVE  LastInv'
<1>1. UNCHANGED <<file, setUps, memory, undone>>
  BY DEF RemoveFailed, disk, history
<1>2. Loaded' = Loaded
  BY <1>1, LoadedSame
<1>3. entry'[e] = "removed" /\ \A x \in Entry : x # e => entry'[x] = entry[x]
  BY DEF RemoveFailed, StoreTypeOK
<1>4. ASSUME NEW x \in Entry, setUps'[x] > 0, entry'[x] # "removed"
      PROVE  LET n == Present(x)' IN
             /\ pending'[n] # <<>> => pending'[n][Len(pending'[n])].data[x] = memory'[n]
             /\ pending'[n] = <<>> /\ x \notin undone' => Loaded'.data[x] = memory'[n]
  <2>1. PICK n \in Manager : n = Present(x) /\ n = Present(x)'
    BY <1>1, <1>4, PresentType DEF Present
  <2>2. x # e /\ n # Present(e)
    BY <1>3, <1>4, <2>1 DEF Present
  <2>3. pending'[n] = pending[n]
    <3>1. CASE pending' = pending
      BY <3>1
    <3>2. CASE pending' # pending
      BY <2>2, <3>2, RemovalWritten DEF StoreTypeOK
    <3> QED BY <3>1, <3>2
  <2> QED BY <1>1, <1>2, <1>3, <1>4, <2>1, <2>2, <2>3 DEF LastInv
<1> QED BY <1>4 DEF LastInv

LEMMA LastStep ==
    ASSUME StoreTypeOK, SetUpInv, VersionInv, LastInv, [StoreNext]_storeVars
    PROVE  LastInv'
<1>1. CASE UNCHANGED storeVars
  BY <1>1, LastSame DEF storeVars
<1>2. CASE Submit \/ ShowForm \/ \E p \in Proc : KeyLoad(p) \/ KeyImport(p) \/ KeySave(p)
  BY <1>2, LastSame DEF Submit, ShowForm, KeyLoad, KeyImport, KeySave, disk, managers, history
<1>3. CASE Crash
  <2>1. \A x \in Entry : ~(setUps'[x] > 0)
    BY <1>3 DEF Crash
  <2> QED BY <2>1 DEF LastInv
<1>4. CASE StoreNext
  BY <1>2, <1>3, <1>4, LastQuiet, LastKeyWrite, LastDataLoad, LastChange, LastWrite, LastRemoveFailed, Members DEF StoreNext
<1> QED BY <1>1, <1>4

LEMMA SavedInit ==
    ASSUME StoreInit
    PROVE  SetUpInv /\ VersionInv /\ LastInv
<1>1. PICK old \in {"none", "legacy", "own"}, k \in Key, e \in Entry :
        /\ file = IF old = "own" THEN OldFile(e, k) ELSE NoFile
        /\ legacy = IF old = "legacy" THEN k ELSE NoKey
        /\ entry = [x \in Entry |-> IF x = e /\ old # "none" THEN "unloaded" ELSE "none"]
        /\ password = [x \in Entry |-> IF x = e /\ old # "none" THEN k ELSE NoKey]
        /\ proc = [p \in Proc |-> Idle]
        /\ setUps = [x \in Entry |-> 0]
        /\ memory = [m \in Manager |-> NoData] /\ pending = [m \in Manager |-> <<>>]
        /\ version = [x \in Entry |-> Defaults]
        /\ undone = {} /\ lost = {} /\ crashes = MaxCrashes
  BY Zenon DEF StoreInit
<1>2. SetUpInv
  BY <1>1, Members DEF SetUpInv, Idle
<1>3. \A x \in Entry : ~(setUps[x] > 0)
  <2>1. setUps = [x \in Entry |-> 0]
    BY <1>1
  <2>2. ASSUME NEW x \in Entry
        PROVE  setUps[x] = 0
    BY <2>1
  <2>3. ~(0 > 0)
    OBVIOUS
  <2> QED BY <2>2, <2>3
<1>4. LastInv
  BY <1>3 DEF LastInv
<1>5. \A x \in Entry : Loaded.data[x] \in {NoData, Defaults}
  <2>1. CASE file = NoFile
    BY <2>1 DEF Loaded, Empty
  <2>2. CASE file # NoFile
    <3>1. Loaded = OldFile(e, k)
      BY <1>1, <2>2 DEF Loaded
    <3> QED BY <3>1 DEF OldFile
  <2> QED BY <2>1, <2>2
<1>6. \A m \in Manager : Writes(m) = {}
  BY <1>1 DEF Writes
<1>7. \A p \in Proc : \A x \in Entry : proc[p].content.data[x] = NoData
  BY <1>1 DEF Idle, Empty
<1>8. VersionInv
  BY <1>1, <1>5, <1>6, <1>7 DEF VersionInv, Defaults, NoData
<1> QED BY <1>2, <1>4, <1>8

(* When no save is under way, what is on file of an entry that is set up   *)
(* is what its manager has in memory, unless another manager has put older *)
(* data back: no change of the tokens, the serial numbers or the settings  *)
(* goes unsaved.                                                           *)
THEOREM DataAreSaved == StoreSpec => []SavedAtRest
<1>1. StoreInit => StoreTypeOK /\ SetUpInv /\ VersionInv /\ LastInv
  BY StoreInitType, SavedInit
<1>2. StoreTypeOK /\ SetUpInv /\ VersionInv /\ LastInv /\ [StoreNext]_storeVars
        => (StoreTypeOK /\ SetUpInv /\ VersionInv /\ LastInv)'
  BY StoreTypeStep, SetUpStep, VersionStep, LastStep
<1>3. StoreTypeOK /\ LastInv => SavedAtRest
  <2> SUFFICES ASSUME StoreTypeOK, LastInv, NEW e \in Entry, entry[e] \in {"loaded", "failed"}, setUps[e] > 0,
                      e \notin undone, \A m \in Manager : pending[m] = <<>>
               PROVE  Loaded.data[e] = memory[Present(e)]
    BY DEF SavedAtRest
  <2> QED BY PresentType DEF LastInv
<1> QED BY <1>1, <1>2, <1>3, PTL DEF StoreSpec

===============================================================================
