------------------------------- MODULE Secrets -------------------------------
(***************************************************************************)
(* Saved hosts (hoststore.cpp) and keys (keystore.cpp), which are lists    *)
(* saved in files, beside the passwords and private keys of theirs, which  *)
(* are secrets of the system's vault (secretvault.cpp), and the backups    *)
(* that hold both (backup.cpp).  The lists change at once, the vault's     *)
(* answers come later, in the order of the requests, each with success or  *)
(* not.  All of it runs in the thread of the user interface, except that   *)
(* keys are made, and backups encrypted, by a thread of a pool.            *)
(***************************************************************************)
EXTENDS Naturals, Sequences, FiniteSets, SequencesExt

CONSTANTS
    HostIds, KeyIds,    \* bound: the ids there are to give away
    None,
    MaxKeys,
    Scopes              \* the instances to check, see scope

Password(h) == <<"pw", h>>

ASSUME SecretsAssumption ==
    /\ None \notin HostIds \cup KeyIds /\ HostIds \cap KeyIds = {}
    /\ \A h \in HostIds : Password(h) \notin KeyIds
    /\ IsFiniteSet(HostIds) /\ IsFiniteSet(KeyIds) /\ MaxKeys \in Nat
    /\ Scopes \subseteq [maxHosts : Nat, maxAsked : Nat]

VARIABLES
    scope,      \* MaxHosts, and as a bound how much is done from outside, kills included
    hosts,      \* m_hosts, and hosts.conf: by id, the key it uses and hasPassword
    keys,       \* m_keys, and the index file: their ids
    making,     \* m_generating: keys on their way from the pool
    requests,   \* the vault's requests, the oldest first, with what their answer is for
    secrets,    \* what the vault holds
    backup,     \* Backup's export or import under way
    file,       \* the contents of a backup file, or None
    unused,     \* ids not given away, of hosts and of keys
    asked,
    history     \* what the properties ask about earlier states

MaxHosts == scope.maxHosts

MaxAsked == scope.maxAsked

vars == <<scope, hosts, keys, making, requests, secrets, backup, file, unused, asked, history>>

Hosts == [key : KeyIds \cup {None}, hasPassword : BOOLEAN]
SecretIds == {Password(h) : h \in HostIds} \cup KeyIds
Contents == [hosts : UNION {[ids -> Hosts] : ids \in SUBSET HostIds},
             keys : Seq(KeyIds), secrets : SUBSET SecretIds]
Request(op, id, use) == [op |-> op, id |-> id, use |-> use]
Requests == [op : {"create", "store", "fetch", "remove"}, id : SecretIds,
             use : {"host", "key", "restore", "export", "none"}]
Idle == [phase |-> "idle", contents |-> None, rest |-> {}]

TypeOK ==
    /\ scope \in Scopes
    /\ hosts \in UNION {[ids -> Hosts] : ids \in SUBSET HostIds}
    /\ Cardinality(DOMAIN hosts) <= MaxHosts
    /\ keys \in Seq(KeyIds)
    /\ making \in Nat
    /\ requests \in Seq(Requests)
    /\ secrets \subseteq SecretIds
    /\ backup = Idle \/
       /\ backup.phase \in {"fetching", "sealing", "opening", "storing"}
       /\ backup.contents \in Contents /\ backup.rest \subseteq SecretIds
    /\ file = None \/ file \in Contents
    /\ unused \subseteq HostIds \cup KeyIds
    /\ asked \in 0..MaxAsked
    \* Backups ask one by one
    /\ Cardinality({i \in DOMAIN requests : requests[i].use \in {"restore", "export"}}) <= 1

Init ==
    /\ scope \in Scopes
    /\ hosts = <<>> /\ keys = <<>> /\ making = 0 /\ requests = <<>> /\ secrets = {}
    /\ backup = Idle /\ file = None /\ unused = HostIds \cup KeyIds /\ asked = 0
    /\ history = [crossed |-> {}, left |-> {}, crowded |-> FALSE]

---------------------------------------------------------------------------
(* The vault (secretvault.cpp) *)

\* store() asks for the collection first
Store(queue, id, use) == Append(queue, Request("create", id, use))

Storing(queue, id) == \E i \in DOMAIN queue : queue[i].id = id /\ queue[i].op \in {"create", "store"}

\* Nobody waits for the end of it
Drop(queue, ids) ==
    queue \o [i \in 1..Cardinality(ids) |-> Request("remove", SetToSeq(ids)[i], "none")]

\* Noted: a secret is dropped while it is stored, or restored from a backup
Crossed(past, queue, ids) ==
    [past EXCEPT !.crossed = @ \cup {id \in ids :
        Storing(queue, id) \/ (backup.phase = "storing" /\ id \in backup.contents.secrets)}]

---------------------------------------------------------------------------
(* Hosts (hoststore.cpp) *)

Changed(h, host) == [id \in DOMAIN hosts \cup {h} |-> IF id = h THEN host ELSE hosts[id]]

Ask == asked < MaxAsked /\ asked' = asked + 1 /\ UNCHANGED scope

\* A new id: which one says nothing
Fresh(ids, id) == ids \cap unused # {} /\ id = CHOOSE x \in ids \cap unused : TRUE

\* The end of saveHost(), with the host as the dialog has it, and of setKey()
SaveHost(h, key, hasPassword, password, remember) ==
    LET keep == key = None /\ remember /\ password
        forget == (key # None \/ ~remember) /\ hasPassword
    IN  /\ hosts' = Changed(h, [key |-> key, hasPassword |-> hasPassword /\ ~forget])
        /\ requests' = IF keep THEN Store(requests, Password(h), "host")
                       ELSE Drop(requests, IF forget THEN {Password(h)} ELSE {})
        /\ history' = Crossed(history, requests, IF forget THEN {Password(h)} ELSE {})

OthersUnchanged == UNCHANGED <<keys, making, secrets, backup, file>>

\* With a password typed or not
AddHost ==
    /\ Ask /\ Cardinality(DOMAIN hosts) < MaxHosts
    /\ \E h \in HostIds, key \in Range(keys) \cup {None}, password, remember \in BOOLEAN :
         /\ Fresh(HostIds, h)
         /\ unused' = unused \ {h}
         /\ SaveHost(h, key, FALSE, password, remember)
    /\ OthersUnchanged

EditHost ==
    /\ Ask
    /\ \E h \in DOMAIN hosts, key \in Range(keys) \cup {None}, password, remember \in BOOLEAN :
         SaveHost(h, key, hosts[h].hasPassword, password, remember)
    /\ OthersUnchanged /\ UNCHANGED unused

\* A session has installed the key on the server, which takes a while
SetKey ==
    /\ Ask
    /\ \E h \in DOMAIN hosts, key \in KeyIds \ unused :
         /\ hosts[h].key # key
         /\ SaveHost(h, key, hosts[h].hasPassword, FALSE, FALSE)
    /\ OthersUnchanged /\ UNCHANGED unused

\* Typed while connecting
RememberPassword ==
    /\ Ask
    /\ \E h \in DOMAIN hosts :
         /\ hosts[h].key = None
         /\ requests' = Store(requests, Password(h), "host")
    /\ OthersUnchanged /\ UNCHANGED <<hosts, unused, history>>

RemoveHost ==
    /\ Ask
    /\ \E h \in DOMAIN hosts :
         LET dropped == IF hosts[h].hasPassword THEN {Password(h)} ELSE {}
         IN  /\ hosts' = [id \in DOMAIN hosts \ {h} |-> hosts[id]]
             /\ requests' = Drop(requests, dropped)
             /\ history' = Crossed(history, requests, dropped)
    /\ OthersUnchanged /\ UNCHANGED unused

DuplicateHost ==
    /\ Ask /\ Cardinality(DOMAIN hosts) < MaxHosts
    /\ \E h \in DOMAIN hosts, copy \in HostIds :
         /\ Fresh(HostIds, copy)
         /\ hosts' = Changed(copy, [key |-> hosts[h].key, hasPassword |-> FALSE])
         /\ unused' = unused \ {copy}
    /\ OthersUnchanged /\ UNCHANGED <<requests, history>>

\* The hosts of a text: those known by name are saved again as they are, so
\* one with a key loses a password it was left with, and new ones are added as
\* long as there is room
ImportConfig ==
    /\ Ask
    /\ \E named \in SUBSET DOMAIN hosts, new \in SUBSET {h \in HostIds : Fresh(HostIds, h)} :
         LET cleared == {h \in named : hosts[h].key # None /\ hosts[h].hasPassword}
             ids == {Password(h) : h \in cleared}
         IN  /\ named \cup new # {}
             /\ Cardinality(DOMAIN hosts \cup new) <= MaxHosts
             /\ hosts' = [h \in DOMAIN hosts \cup new |->
                    IF h \in new THEN [key |-> None, hasPassword |-> FALSE]
                    ELSE [hosts[h] EXCEPT !.hasPassword = @ /\ h \notin cleared]]
             /\ unused' = unused \ new
             /\ requests' = Drop(requests, ids)
             /\ history' = Crossed(history, requests, ids)
    /\ OthersUnchanged

\* forgetKey(), of every host that uses the key
Without(key) == [h \in DOMAIN hosts |->
    IF hosts[h].key = key THEN [hosts[h] EXCEPT !.key = None] ELSE hosts[h]]

---------------------------------------------------------------------------
(* Keys (keystore.cpp) *)

\* The elements of a sequence at some places, which one sequence has in their order
InOrder(seq, places) ==
    {[i \in 1..Cardinality(places) |-> seq[at[i]]] :
        at \in {a \in [1..Cardinality(places) -> places] :
                  \A i, j \in DOMAIN a : i < j => a[i] < a[j]}}

\* Bug: generateKey() and importKey() do not look at the limit
AddsAlways == TRUE

MayAddKey == Len(keys) < MaxKeys

\* Keys that are made, or wait for the vault
KeysUnderWay == making + Cardinality({i \in DOMAIN requests : requests[i].use = "key"})

Crowds(more) == [history EXCEPT !.crowded = @ \/ KeysUnderWay + more > 1]

\* generateKey(), or importKey() of a key with a passphrase to take off
MakeKey ==
    /\ Ask /\ MayAddKey
    /\ making' = making + 1
    /\ history' = Crowds(1)
    /\ UNCHANGED <<hosts, keys, requests, secrets, backup, file, unused>>

\* storeKey() of a new key: it is listed once it is stored
StoreKey ==
    \E key \in KeyIds :
        /\ Fresh(KeyIds, key)
        /\ unused' = unused \ {key}
        /\ requests' = Store(requests, key, "key")

\* The pool made it, or could not, and addKey()
KeyMade ==
    /\ making > 0
    /\ making' = making - 1
    /\ StoreKey \/ UNCHANGED <<requests, unused>>
    /\ UNCHANGED <<hosts, keys, secrets, backup, file, scope, asked, history>>

\* importKey() of one that stays encrypted
ImportEncryptedKey ==
    /\ Ask /\ MayAddKey
    /\ StoreKey
    /\ history' = Crowds(1)
    /\ UNCHANGED <<hosts, keys, making, secrets, backup, file>>

\* The first of that id, of which a backup restored twice may leave two
RemoveKey ==
    /\ Ask
    /\ \E key \in Range(keys) :
         /\ keys' = RemoveFirst(keys, key)
         /\ hosts' = Without(key)
         /\ requests' = Append(requests, Request("remove", key, "none"))
         /\ history' = [Crossed(history, requests, {key}) EXCEPT
                !.crossed = @ \cup ({key} \cap Range(keys'))]
    /\ UNCHANGED <<making, secrets, backup, file, unused>>

---------------------------------------------------------------------------
(* Backups (backup.cpp) *)

NotBusy == backup = Idle

\* Asks for the next one, if there is one left
FetchNext(queue, rest) ==
    IF rest = {} THEN queue ELSE Append(queue, Request("fetch", CHOOSE id \in rest : TRUE, "export"))

Fetching(contents, rest) ==
    /\ backup' = [phase |-> IF rest = {} THEN "sealing" ELSE "fetching",
                  contents |-> contents, rest |-> rest]

ExportBackup ==
    /\ Ask /\ NotBusy
    /\ LET rest == Range(keys) \cup {Password(h) : h \in {g \in DOMAIN hosts : hosts[g].hasPassword}}
       IN  /\ Fetching([hosts |-> hosts, keys |-> keys, secrets |-> {}], rest)
           /\ requests' = FetchNext(requests, rest)
    /\ UNCHANGED <<hosts, keys, making, secrets, file, unused, history>>

\* Encrypted and written, or not
Sealed ==
    /\ backup.phase = "sealing"
    /\ file' \in {file, backup.contents}
    /\ backup' = Idle
    /\ UNCHANGED <<hosts, keys, making, requests, secrets, unused, scope, asked, history>>

ImportBackup ==
    /\ Ask /\ NotBusy /\ file # None
    /\ backup' = [phase |-> "opening", contents |-> file, rest |-> {}]
    /\ UNCHANGED <<hosts, keys, making, requests, secrets, file, unused, history>>

\* restoreHost() of each host of the backup there is room for.  With a key it
\* drops the password it has.
RestoreHosts(queue, contents, past) ==
    LET given == DOMAIN contents.hosts
        cleared == {Password(h) : h \in {g \in given \cap DOMAIN hosts :
                        contents.hosts[g].key # None /\ hosts[g].hasPassword}}
    IN  \E new \in SUBSET (given \ DOMAIN hosts) :
          /\ Cardinality(DOMAIN hosts \cup new) <= MaxHosts
          /\ new = given \ DOMAIN hosts \/ Cardinality(DOMAIN hosts \cup new) = MaxHosts
          /\ hosts' = [h \in DOMAIN hosts \cup new |->
                 IF h \notin given THEN hosts[h]
                 ELSE [key |-> contents.hosts[h].key,
                       hasPassword |-> /\ contents.hosts[h].key = None
                                       /\ Password(h) \in contents.secrets]]
          /\ requests' = Drop(queue, cleared)
          /\ backup' = Idle
          /\ history' = [Crossed(past, queue, cleared) EXCEPT
                 !.left = @ \cup {Password(h) : h \in {g \in given :
                                      ~(g \in DOMAIN hosts' /\ hosts'[g].hasPassword)}}]

\* storeSecrets(): the next of the passwords, and in the end the hosts
StoreNext(queue, rest, contents, past) ==
    IF rest = {} THEN RestoreHosts(queue, contents, past)
    ELSE /\ LET id == CHOOSE id \in rest : TRUE
            IN  /\ requests' = Store(queue, id, "restore")
                /\ backup' = [phase |-> "storing", contents |-> contents, rest |-> rest \ {id}]
         /\ history' = past
         /\ UNCHANGED hosts

\* Keys whose private part the backup has and the phone has not
Lacking == {i \in DOMAIN backup.contents.keys :
    backup.contents.keys[i] \in backup.contents.secrets \ Range(keys)}

\* The passphrase was wrong, or the keys lacking are stored, and then the passwords one
\* by one
Opened ==
    /\ backup.phase = "opening"
    /\ \/ backup' = Idle /\ UNCHANGED <<hosts, requests, history>>
       \/ \E restored \in IF MayAddKey THEN InOrder(backup.contents.keys, Lacking) ELSE {<<>>} :
          LET contents == backup.contents
          IN  StoreNext(requests \o [i \in DOMAIN restored |-> Request("create", restored[i], "key")],
                        {Password(h) : h \in DOMAIN contents.hosts} \cap contents.secrets,
                        contents, Crowds(Len(restored)))
    /\ UNCHANGED <<keys, making, secrets, file, unused, scope, asked>>

---------------------------------------------------------------------------
(* The vault's answers *)

Answered == Head(requests)

\* Bug: the password of a host removed meanwhile stays
PasswordStoredAnyway(ok, h) ==
    /\ hosts' = IF ok /\ h \in DOMAIN hosts THEN [hosts EXCEPT ![h].hasPassword = TRUE] ELSE hosts
    /\ requests' = Tail(requests)
    /\ UNCHANGED <<keys, backup, history>>

\* The callback of a password that was to be kept
PasswordStored(ok, h) ==
    LET gone == IF ok /\ h \notin DOMAIN hosts THEN {Password(h)} ELSE {}
    IN  /\ hosts' = IF ok /\ h \in DOMAIN hosts THEN [hosts EXCEPT ![h].hasPassword = TRUE] ELSE hosts
        /\ requests' = Drop(Tail(requests), gone)
        /\ history' = Crossed(history, Tail(requests), gone)
        /\ UNCHANGED <<keys, backup>>

\* Bug: a key is listed although it could not be stored
KeyStoredAnyway(ok) ==
    /\ keys' = Append(keys, Answered.id)
    /\ requests' = Tail(requests)
    /\ UNCHANGED <<hosts, backup, history>>

KeyStored(ok) ==
    /\ keys' = IF ok THEN Append(keys, Answered.id) ELSE keys
    /\ requests' = Tail(requests)
    /\ UNCHANGED <<hosts, backup, history>>

\* Bug: the import stops at the first error
StopsAtError(ok) ==
    /\ IF ok THEN StoreNext(Tail(requests), backup.rest, backup.contents, history)
       ELSE requests' = Tail(requests) /\ UNCHANGED <<hosts, backup, history>>
    /\ UNCHANGED keys

\* An error is not looked at
RestoredStored(ok) ==
    /\ StoreNext(Tail(requests), backup.rest, backup.contents,
                 [history EXCEPT !.crossed = @ \cup IF ok THEN {} ELSE {Answered.id}])
    /\ UNCHANGED keys

StoreEnds(ok) ==
    \/ /\ Answered.use = "host"
       /\ \E h \in HostIds : Password(h) = Answered.id /\ PasswordStored(ok, h)
    \/ Answered.use = "key" /\ KeyStored(ok)
    \/ Answered.use = "restore" /\ RestoredStored(ok)

AnswerCreate ==
    /\ requests # <<>> /\ Answered.op = "create"
    /\ \/ /\ requests' = Append(Tail(requests), [Answered EXCEPT !.op = "store"])
          /\ UNCHANGED <<hosts, keys, backup, history>>
       \/ StoreEnds(FALSE)
    /\ UNCHANGED <<making, secrets, file, unused, scope, asked>>

AnswerStore ==
    /\ requests # <<>> /\ Answered.op = "store"
    /\ \E ok \in BOOLEAN :
         /\ secrets' = secrets \cup IF ok THEN {Answered.id} ELSE {}
         /\ StoreEnds(ok)
    /\ UNCHANGED <<making, file, unused, scope, asked>>

AnswerRemove ==
    /\ requests # <<>> /\ Answered.op = "remove"
    /\ \/ secrets' = secrets \ {Answered.id} /\ UNCHANGED history
       \/ UNCHANGED secrets /\ history' = [history EXCEPT !.left = @ \cup {Answered.id}]
    /\ requests' = Tail(requests)
    /\ UNCHANGED <<hosts, keys, making, backup, file, unused, scope, asked>>

\* A secret that cannot be read is left out of the backup
AnswerFetch ==
    /\ requests # <<>> /\ Answered.op = "fetch"
    /\ \E read \in {{}, {Answered.id} \cap secrets} :
         /\ Fetching([backup.contents EXCEPT !.secrets = @ \cup read], backup.rest \ {Answered.id})
         /\ requests' = FetchNext(Tail(requests), backup.rest \ {Answered.id})
    /\ UNCHANGED <<hosts, keys, making, secrets, file, unused, scope, asked, history>>

---------------------------------------------------------------------------
(* The app is killed and started again *)

Removes(i, id) == requests[i].op = "remove" /\ requests[i].id = id

\* What the vault holds when it has done the first n of the requests it was handed
Done(n) ==
    {id \in SecretIds :
        \/ id \in secrets /\ \A i \in 1..n : ~Removes(i, id)
        \/ \E i \in 1..n : /\ requests[i].op = "store" /\ requests[i].id = id
                          /\ \A j \in i + 1..n : ~Removes(j, id)}

\* loadIndex(): as many as may be kept, each once
Loaded ==
    LET size == IF Len(keys) < MaxKeys THEN Len(keys) ELSE MaxKeys
    IN  InOrder(keys, {i \in 1..size : \A j \in 1..i - 1 : keys[j] # keys[i]})

Restart ==
    /\ Ask
    /\ \E n \in 0..Len(requests) : secrets' = Done(n)
    /\ keys' \in Loaded
    /\ making' = 0 /\ requests' = <<>> /\ backup' = Idle
    /\ history' = [history EXCEPT
           !.left = @ \cup {requests[i].id : i \in DOMAIN requests}
                      \cup (IF backup.phase = "storing" THEN backup.contents.secrets ELSE {})
                      \cup (Range(keys) \ Range(keys')),
           !.crowded = FALSE]
    /\ UNCHANGED <<hosts, file, unused>>

Next ==
    \/ AddHost \/ EditHost \/ SetKey \/ RememberPassword \/ RemoveHost \/ DuplicateHost \/ ImportConfig
    \/ MakeKey \/ KeyMade \/ ImportEncryptedKey \/ RemoveKey
    \/ ExportBackup \/ Sealed \/ ImportBackup \/ Opened
    \/ AnswerCreate \/ AnswerStore \/ AnswerRemove \/ AnswerFetch
    \/ Restart

Answers == AnswerCreate \/ AnswerStore \/ AnswerRemove \/ AnswerFetch

Spec ==
    /\ Init /\ [][Next]_vars
    /\ WF_vars(Answers) /\ WF_vars(Sealed) /\ WF_vars(Opened)

---------------------------------------------------------------------------
(* Properties *)

\* A host said to have a password has one in the vault, and a key listed has its
\* private part there, whatever ends in which order and whenever the app is killed:
\* the lists say so after the vault has it, and no longer before it is dropped.
\* Not so when it is dropped as it is being stored, or a backup's store fails.
PromisedIsThere ==
    /\ \A h \in DOMAIN hosts :
         hosts[h].hasPassword => Password(h) \in secrets \cup history.crossed
    /\ \A i \in DOMAIN keys : keys[i] \in secrets \cup history.crossed

\* When the vault has nothing to do, it holds nothing that is of no host and no
\* key, unless the app was killed, a removal failed or a backup left it.
NothingIsLeftBehind ==
    requests = <<>> /\ backup = Idle =>
        \A id \in secrets \ history.left :
            \/ id \in Range(keys)
            \/ \E h \in DOMAIN hosts : id = Password(h) /\ hosts[h].hasPassword

\* The limit of the keys holds, and no key is listed twice, as long as one is asked for
\* at a time.
KeysFit == history.crowded \/ (Len(keys) <= MaxKeys /\ Cardinality(Range(keys)) = Len(keys))

\* An export or import ends, so that another can be started, also when no secret can be
\* read or stored.
BackupEnds == backup # Idle ~> backup = Idle
=============================================================================
