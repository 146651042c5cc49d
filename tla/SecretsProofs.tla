--------------------------- MODULE SecretsProofs ---------------------------
(***************************************************************************)
(* Proofs about Secrets: what the lists of hosts and keys promise is in    *)
(* the vault, what nobody promises leaves it, and the keys fit, however    *)
(* the requests to the vault interleave with changes to the lists.         *)
(*                                                                         *)
(* The argument is about sets of ids: those the lists promise, those the   *)
(* queue of requests will drop, those on their way in, and those a restore *)
(* has stored for hosts it has yet to add.                                 *)
(***************************************************************************)
EXTENDS Secrets, FiniteSetTheorems, SequenceTheorems, TLAPS

---------------------------------------------------------------------------
(* What a queue of requests says of ids *)

\* The ids it drops, the ids it stores, and those it stores for a use.
Dropped(queue) == {r.id : r \in {x \in Range(queue) : x.op = "remove"}}

Stored(queue) == {r.id : r \in {x \in Range(queue) : x.op \in {"create", "store"}}}

AskedFor(queue, use) == {r.id : r \in {x \in Range(queue) : x.use = use}}

\* The ids it stores and then drops, which a store that is refused until the end
\* does the other way round.
Overtaken(queue) ==
    {id \in SecretIds : \E i, j \in DOMAIN queue :
        /\ i < j /\ queue[i].id = id /\ queue[j].id = id
        /\ queue[i].op \in {"create", "store"} /\ queue[j].op = "remove"}

\* At most one of its requests is for these uses.
OneFor(queue, uses) ==
    \A i, j \in DOMAIN queue : queue[i].use \in uses /\ queue[j].use \in uses => i = j

---------------------------------------------------------------------------
(* The inductive invariant *)

HostLists == UNION {[ids -> Hosts] : ids \in SUBSET HostIds}

Backups == [phase : {"fetching", "sealing", "opening", "storing"},
            contents : Contents, rest : SUBSET SecretIds]

Histories == [crossed : SUBSET SecretIds, left : SUBSET SecretIds, crowded : BOOLEAN]

Types ==
    /\ hosts \in HostLists /\ keys \in Seq(KeyIds) /\ making \in Nat
    /\ requests \in Seq(Requests) /\ secrets \in SUBSET SecretIds
    /\ backup \in Backups \cup {Idle} /\ file \in Contents \cup {None}
    /\ history \in Histories

\* Each request is of a kind its caller makes.
Fits(r) ==
    /\ r.use \in {"host", "key", "restore"} <=> r.op \in {"create", "store"}
    /\ r.use = "export" <=> r.op = "fetch"
    /\ r.use = "key" => r.id \in KeyIds
    /\ r.use \in {"host", "restore"} => r.id \in {Password(h) : h \in HostIds}

AllFit(queue) == \A r \in Range(queue) : Fits(r)

\* The passwords a backup being restored has for its hosts.
BackedUp(contents) == {Password(h) : h \in DOMAIN contents.hosts} \cap contents.secrets

\* Those a restore has asked the vault to store, and whose hosts are yet to be added.
Restored == IF backup.phase = "storing" THEN BackedUp(backup.contents) \ backup.rest ELSE {}

\* A backup asks for one thing at a time, and only while it is at it.
OneByOne ==
    /\ OneFor(requests, {"restore", "export"})
    /\ AskedFor(requests, "restore") \subseteq Restored
    /\ AskedFor(requests, "export") # {} => backup.phase = "fetching"
    /\ backup.phase = "storing" => backup.rest \subseteq BackedUp(backup.contents)

\* What was given away is not given away again.
GivenBy(contents) == DOMAIN contents.hosts \cup Range(contents.keys)

Given ==
    /\ DOMAIN hosts \cap unused = {} /\ Range(keys) \cap unused = {}
    /\ AskedFor(requests, "key") \cap unused = {}
    /\ backup # Idle => GivenBy(backup.contents) \cap unused = {}
    /\ file # None => GivenBy(file) \cap unused = {}

\* The ids that a host or a key says are in the vault.
Passwords == {Password(h) : h \in {g \in DOMAIN hosts : hosts[g].hasPassword}}

Promised == Passwords \cup Range(keys)

\* What the vault keeps and the ids promised or restored have to do with each
\* other and with a queue: a drop behind a store is known to have crossed it,
\* what is promised or restored is there and will stay, and what is there is
\* wanted, or will go, or is known to be left.
Held(promised, restored, queue, kept, past) ==
    /\ Overtaken(queue) \subseteq past.crossed
    /\ promised \subseteq past.crossed \cup (kept \ Dropped(queue))
    /\ restored \subseteq AskedFor(queue, "restore") \cup past.crossed \cup (kept \ Dropped(queue))
    /\ kept \subseteq past.left \cup promised \cup Dropped(queue) \cup restored

\* With one key at a time, the one under way has room and is not listed yet.
OneKey(underway, queue, list, crowded) ==
    ~crowded =>
        /\ underway \in {0, 1} /\ OneFor(queue, {"key"})
        /\ underway = 1 => AskedFor(queue, "key") = {}
        /\ underway = 1 \/ AskedFor(queue, "key") # {} => Len(list) < MaxKeys
        /\ AskedFor(queue, "key") \cap Range(list) = {}
        /\ \A i, j \in DOMAIN list : list[i] = list[j] => i = j
        /\ Len(list) <= MaxKeys

IInv ==
    /\ Types /\ AllFit(requests) /\ OneByOne /\ Given
    /\ Held(Promised, Restored, requests, secrets, history)
    /\ OneKey(making, requests, keys, history.crowded)

---------------------------------------------------------------------------
(* Lemmas about queues of requests *)

\* What a queue says when more is asked behind it.
LEMMA Joined ==
  ASSUME NEW queue \in Seq(Requests), NEW more \in Seq(Requests)
  PROVE  /\ queue \o more \in Seq(Requests)
         /\ Range(queue \o more) = Range(queue) \cup Range(more)
         /\ Dropped(queue \o more) = Dropped(queue) \cup Dropped(more)
         /\ Stored(queue \o more) = Stored(queue) \cup Stored(more)
         /\ \A use : AskedFor(queue \o more, use) = AskedFor(queue, use) \cup AskedFor(more, use)
         /\ Overtaken(queue \o more) \subseteq
                Overtaken(queue) \cup Overtaken(more) \cup (Stored(queue) \cap Dropped(more))
         /\ \A uses :
              /\ OneFor(queue, uses) /\ OneFor(more, uses)
              /\ (\A use \in uses : AskedFor(queue, use) = {}) \/ (\A use \in uses : AskedFor(more, use) = {})
              => OneFor(queue \o more, uses)
<1> DEFINE both == queue \o more
           m == Len(queue)
<1>1. /\ both \in Seq(Requests) /\ m \in Nat /\ Len(more) \in Nat
      /\ Len(both) = m + Len(more)
      /\ DOMAIN queue = 1..m /\ DOMAIN more = 1..Len(more) /\ DOMAIN both = 1..m + Len(more)
      /\ \A i \in 1..m + Len(more) : both[i] = IF i <= m THEN queue[i] ELSE more[i - m]
  BY ConcatProperties, LenProperties
<1>2. Range(both) = Range(queue) \cup Range(more)
  BY RangeConcatenation
<1>3. /\ Dropped(both) = Dropped(queue) \cup Dropped(more)
      /\ Stored(both) = Stored(queue) \cup Stored(more)
      /\ \A use : AskedFor(both, use) = AskedFor(queue, use) \cup AskedFor(more, use)
  BY <1>2 DEF Dropped, Stored, AskedFor
<1> HIDE DEF both, m
<1>4. ASSUME NEW id \in Overtaken(both)
      PROVE  id \in Overtaken(queue) \cup Overtaken(more) \cup (Stored(queue) \cap Dropped(more))
  <2>1. PICK i \in DOMAIN both, j \in DOMAIN both :
          /\ i < j /\ both[i].id = id /\ both[j].id = id
          /\ both[i].op \in {"create", "store"} /\ both[j].op = "remove"
    BY <1>4 DEF Overtaken
  <2>2. id \in SecretIds
    BY <1>4 DEF Overtaken
  <2>3. CASE j <= m
    <3>1. i \in DOMAIN queue /\ j \in DOMAIN queue /\ both[i] = queue[i] /\ both[j] = queue[j]
      BY <1>1, <2>1, <2>3
    <3> QED
      BY <2>1, <2>2, <3>1 DEF Overtaken
  <2>4. CASE i > m
    <3>1. /\ i - m \in DOMAIN more /\ j - m \in DOMAIN more /\ i - m < j - m
          /\ both[i] = more[i - m] /\ both[j] = more[j - m]
      BY <1>1, <2>1, <2>4
    <3> QED
      BY <2>1, <2>2, <3>1 DEF Overtaken
  <2>5. CASE i <= m /\ j > m
    <3>1. i \in DOMAIN queue /\ j - m \in DOMAIN more /\ both[i] = queue[i] /\ both[j] = more[j - m]
      BY <1>1, <2>1, <2>5
    <3>2. queue[i] \in Range(queue) /\ more[j - m] \in Range(more)
      BY <3>1 DEF Range
    <3> QED
      BY <2>1, <3>1, <3>2 DEF Stored, Dropped
  <2> QED
    BY <1>1, <2>1, <2>3, <2>4, <2>5
<1>5. ASSUME NEW uses, OneFor(queue, uses), OneFor(more, uses),
             \/ \A use \in uses : AskedFor(queue, use) = {}
             \/ \A use \in uses : AskedFor(more, use) = {}
      PROVE  OneFor(both, uses)
  <2>1. \A i \in DOMAIN queue : queue[i].id \in AskedFor(queue, queue[i].use)
    BY DEF AskedFor, Range
  <2>2. \A i \in DOMAIN more : more[i].id \in AskedFor(more, more[i].use)
    BY DEF AskedFor, Range
  <2>3. ASSUME NEW i \in DOMAIN both, NEW j \in DOMAIN both, both[i].use \in uses, both[j].use \in uses
        PROVE  i = j
    <3>1. CASE i <= m /\ j <= m
      BY <1>1, <1>5, <2>3, <3>1 DEF OneFor
    <3>2. CASE i > m /\ j > m
      <4>1. /\ i - m \in DOMAIN more /\ j - m \in DOMAIN more
            /\ both[i] = more[i - m] /\ both[j] = more[j - m]
        BY <1>1, <3>2
      <4>2. i - m = j - m
        BY <1>5, <2>3, <4>1 DEF OneFor
      <4> QED
        BY <1>1, <4>2
    <3>3. ASSUME NEW a \in DOMAIN both, NEW b \in DOMAIN both, a <= m, b > m,
                 both[a].use \in uses, both[b].use \in uses
          PROVE  FALSE
      <4>1. a \in DOMAIN queue /\ b - m \in DOMAIN more /\ both[a] = queue[a] /\ both[b] = more[b - m]
        BY <1>1, <3>3
      <4> QED
        BY <1>5, <2>1, <2>2, <3>3, <4>1
    <3> QED
      BY <1>1, <2>3, <3>1, <3>2, <3>3
  <2> QED
    BY <2>3 DEF OneFor
<1> QED
  BY <1>1, <1>2, <1>3, <1>4, <1>5 DEF both

\* What one request says.
LEMMA Single ==
  ASSUME NEW r \in Requests
  PROVE  /\ <<r>> \in Seq(Requests) /\ Range(<<r>>) = {r}
         /\ Dropped(<<r>>) = IF r.op = "remove" THEN {r.id} ELSE {}
         /\ Stored(<<r>>) = IF r.op \in {"create", "store"} THEN {r.id} ELSE {}
         /\ \A use : AskedFor(<<r>>, use) = IF r.use = use THEN {r.id} ELSE {}
         /\ Overtaken(<<r>>) = {}
         /\ \A uses : OneFor(<<r>>, uses)
<1>1. <<r>> \in Seq(Requests) /\ Len(<<r>>) = 1 /\ DOMAIN <<r>> = {1} /\ <<r>>[1] = r
  OBVIOUS
<1>2. Range(<<r>>) = {r}
  BY <1>1 DEF Range
<1>3. Overtaken(<<r>>) = {} /\ \A uses : OneFor(<<r>>, uses)
  BY <1>1 DEF Overtaken, OneFor
<1> QED
  BY <1>1, <1>2, <1>3 DEF Dropped, Stored, AskedFor

\* What a queue says when one more is asked behind it.
LEMMA Appended ==
  ASSUME NEW queue \in Seq(Requests), NEW r \in Requests
  PROVE  LET more == Append(queue, r)
         IN  /\ more \in Seq(Requests)
             /\ Range(more) = Range(queue) \cup {r}
             /\ Dropped(more) = Dropped(queue) \cup IF r.op = "remove" THEN {r.id} ELSE {}
             /\ \A use : AskedFor(more, use) = AskedFor(queue, use) \cup IF r.use = use THEN {r.id} ELSE {}
             /\ Overtaken(more) \subseteq
                    Overtaken(queue) \cup IF r.op = "remove" THEN Stored(queue) \cap {r.id} ELSE {}
             /\ \A uses :
                  OneFor(queue, uses) /\ (r.use \in uses => \A use \in uses : AskedFor(queue, use) = {})
                  => OneFor(more, uses)
<1>1. Append(queue, r) = queue \o <<r>>
  BY AppendIsConcat
<1>2. ASSUME NEW uses, OneFor(queue, uses), r.use \in uses => \A use \in uses : AskedFor(queue, use) = {}
      PROVE  OneFor(queue \o <<r>>, uses)
  <2>1. <<r>> \in Seq(Requests) /\ OneFor(<<r>>, uses)
    BY Single
  <2>2. \/ \A use \in uses : AskedFor(queue, use) = {}
        \/ \A use \in uses : AskedFor(<<r>>, use) = {}
    <3>1. CASE r.use \in uses
      BY <1>2, <3>1
    <3>2. CASE r.use \notin uses
      BY <3>2, Single
    <3> QED
      BY <3>1, <3>2
  <2> QED
    BY <1>2, <2>1, <2>2, Joined
<1>3. /\ <<r>> \in Seq(Requests) /\ Range(<<r>>) = {r}
      /\ Dropped(<<r>>) = IF r.op = "remove" THEN {r.id} ELSE {}
      /\ \A use : AskedFor(<<r>>, use) = IF r.use = use THEN {r.id} ELSE {}
      /\ Overtaken(<<r>>) = {}
  BY Single
<1>4. /\ queue \o <<r>> \in Seq(Requests)
      /\ Range(queue \o <<r>>) = Range(queue) \cup Range(<<r>>)
      /\ Dropped(queue \o <<r>>) = Dropped(queue) \cup Dropped(<<r>>)
      /\ \A use : AskedFor(queue \o <<r>>, use) = AskedFor(queue, use) \cup AskedFor(<<r>>, use)
      /\ Overtaken(queue \o <<r>>) \subseteq
             Overtaken(queue) \cup Overtaken(<<r>>) \cup (Stored(queue) \cap Dropped(<<r>>))
  BY <1>3, Joined
<1> QED
  BY <1>1, <1>2, <1>3, <1>4

\* What is left of a queue when its head is answered.
LEMMA Answering ==
  ASSUME NEW queue \in Seq(Requests), queue # <<>>
  PROVE  LET head == Head(queue)
             tail == Tail(queue)
         IN  /\ head \in Requests /\ tail \in Seq(Requests)
             /\ Range(queue) = {head} \cup Range(tail)
             /\ Dropped(queue) = Dropped(tail) \cup IF head.op = "remove" THEN {head.id} ELSE {}
             /\ \A use : AskedFor(queue, use) = AskedFor(tail, use) \cup IF head.use = use THEN {head.id} ELSE {}
             /\ Overtaken(tail) \subseteq Overtaken(queue)
             /\ head.op \in {"create", "store"} /\ head.id \in Dropped(tail) => head.id \in Overtaken(queue)
             /\ \A uses : OneFor(queue, uses) =>
                  /\ OneFor(tail, uses)
                  /\ head.use \in uses => \A use \in uses : AskedFor(tail, use) = {}
<1> DEFINE head == Head(queue)
           tail == Tail(queue)
           m == Len(queue)
<1>1. /\ head \in Requests /\ tail \in Seq(Requests) /\ m \in Nat /\ m > 0
      /\ DOMAIN queue = 1..m /\ DOMAIN tail = 1..m - 1
      /\ head = queue[1] /\ \A i \in 1..m - 1 : tail[i] = queue[i + 1]
  BY HeadTailProperties, LenProperties, EmptySeq
<1>2. Range(queue) = {head} \cup Range(tail)
  <2>1. ASSUME NEW i \in DOMAIN queue
        PROVE  queue[i] \in {head} \cup Range(tail)
    <3>1. CASE i = 1
      BY <1>1, <3>1
    <3>2. CASE i # 1
      <4>1. i - 1 \in DOMAIN tail /\ tail[i - 1] = queue[i]
        BY <1>1, <3>2
      <4> QED
        BY <4>1 DEF Range
    <3> QED
      BY <3>1, <3>2
  <2>2. \A i \in DOMAIN tail : i + 1 \in DOMAIN queue /\ tail[i] = queue[i + 1]
    BY <1>1
  <2>3. 1 \in DOMAIN queue
    BY <1>1
  <2> HIDE DEF head, tail, m
  <2> QED
    BY <1>1, <2>1, <2>2, <2>3, SMTT(40) DEF Range
<1> HIDE DEF head, tail, m
<1>3. /\ Dropped(queue) = Dropped(tail) \cup IF head.op = "remove" THEN {head.id} ELSE {}
      /\ \A use : AskedFor(queue, use) = AskedFor(tail, use) \cup IF head.use = use THEN {head.id} ELSE {}
  BY <1>2 DEF Dropped, AskedFor
<1>4. \A i \in DOMAIN tail : i + 1 \in DOMAIN queue /\ tail[i] = queue[i + 1]
  BY <1>1
<1>5. ASSUME NEW id \in Overtaken(tail)
      PROVE  id \in Overtaken(queue)
  <2>1. PICK i \in DOMAIN tail, j \in DOMAIN tail :
          /\ i < j /\ tail[i].id = id /\ tail[j].id = id
          /\ tail[i].op \in {"create", "store"} /\ tail[j].op = "remove"
    BY <1>5 DEF Overtaken
  <2>2. /\ i + 1 \in DOMAIN queue /\ j + 1 \in DOMAIN queue /\ i + 1 < j + 1
        /\ tail[i] = queue[i + 1] /\ tail[j] = queue[j + 1]
    BY <1>1, <1>4, <2>1
  <2>3. id \in SecretIds
    BY <1>5 DEF Overtaken
  <2> QED
    BY <2>1, <2>2, <2>3 DEF Overtaken
<1>6. ASSUME head.op \in {"create", "store"}, head.id \in Dropped(tail)
      PROVE  head.id \in Overtaken(queue)
  <2>1. PICK j \in DOMAIN tail : tail[j].op = "remove" /\ tail[j].id = head.id
    BY <1>6 DEF Dropped, Range
  <2>2. /\ 1 \in DOMAIN queue /\ j + 1 \in DOMAIN queue /\ 1 < j + 1
        /\ queue[1] = head /\ queue[j + 1] = tail[j]
    BY <1>1, <1>4, <2>1
  <2>3. head.id \in SecretIds
    BY <1>1 DEF Requests
  <2> QED
    BY <1>6, <2>1, <2>2, <2>3 DEF Overtaken
<1>7. ASSUME NEW uses, OneFor(queue, uses)
      PROVE  /\ OneFor(tail, uses)
             /\ head.use \in uses => \A use \in uses : AskedFor(tail, use) = {}
  <2>1. ASSUME NEW i \in DOMAIN tail, NEW j \in DOMAIN tail, tail[i].use \in uses, tail[j].use \in uses
        PROVE  i = j
    <3>1. i + 1 = j + 1
      BY <1>4, <1>7, <2>1 DEF OneFor
    <3> QED
      BY <1>1, <3>1
  <2>2. ASSUME head.use \in uses, NEW i \in DOMAIN tail, tail[i].use \in uses
        PROVE  FALSE
    <3>1. 1 \in DOMAIN queue /\ queue[1] = head
      BY <1>1
    <3>2. i + 1 = 1
      BY <1>4, <1>7, <2>2, <3>1 DEF OneFor
    <3> QED
      BY <1>1, <3>2
  <2> QED
    BY <2>1, <2>2 DEF OneFor, AskedFor, Range
<1> QED
  BY <1>1, <1>2, <1>3, <1>5, <1>6, <1>7 DEF head, tail

---------------------------------------------------------------------------
(* Lemmas about the model's operators *)

\* The secrets are finitely many, and a password is of one host and is no key.
LEMMA SecretIdsAre ==
  /\ IsFiniteSet(SecretIds)
  /\ \A h \in HostIds : Password(h) \in SecretIds /\ Password(h) \notin KeyIds
  /\ KeyIds \subseteq SecretIds
  /\ \A g, h \in HostIds : Password(g) = Password(h) => g = h
<1> DEFINE passwords == {Password(h) : h \in HostIds}
           of == [h \in HostIds |-> Password(h)]
<1>1. of \in Surjection(HostIds, passwords)
  <2>1. of \in [HostIds -> passwords] /\ \A t \in passwords : \E h \in HostIds : of[h] = t
    OBVIOUS
  <2> QED
    BY <2>1 DEF Surjection
<1>2. IsFiniteSet(passwords)
  BY <1>1, SecretsAssumption, FS_Surjection
<1>3. IsFiniteSet(SecretIds)
  BY <1>2, SecretsAssumption, FS_Union DEF SecretIds
<1>4. \A g, h : Password(g) = Password(h) => g = h
  BY DEF Password
<1> QED
  BY <1>3, <1>4, SecretsAssumption DEF SecretIds

\* SetToSeq() counts a set: it goes over all of it.
LEMMA Counting ==
  ASSUME NEW S, IsFiniteSet(S)
  PROVE  /\ Cardinality(S) \in Nat
         /\ SetToSeq(S) \in [1..Cardinality(S) -> S]
         /\ \A x \in S : \E i \in 1..Cardinality(S) : SetToSeq(S)[i] = x
<1> DEFINE n == Cardinality(S)
<1>1. n \in Nat /\ ExistsBijection(1..n, S)
  BY FS_CardinalityType
<1>2. PICK b \in Bijection(1..n, S) : TRUE
  BY <1>1 DEF ExistsBijection
<1>3. b \in [1..n -> S] /\ IsInjective(b)
  BY <1>2 DEF Bijection, Injection
<1>4. SetToSeq(S) \in [1..n -> S] /\ IsInjective(SetToSeq(S))
  <2>1. \E f \in [1..n -> S] : IsInjective(f)
    BY <1>3
  <2> QED
    BY <2>1 DEF SetToSeq
<1>5. SetToSeq(S) \in Injection(1..n, S)
  BY <1>4 DEF Injection
<1>6. IsFiniteSet(1..n) /\ Cardinality(1..n) = n
  BY <1>1, FS_Interval
<1>7. SetToSeq(S) \in Surjection(1..n, S)
  BY <1>5, <1>6, FS_Injection
<1> QED
  BY <1>1, <1>4, <1>7 DEF Surjection

\* Drop() asks to remove each of the ids, and nothing else.
LEMMA Dropping ==
  ASSUME NEW queue \in Seq(Requests), NEW ids \in SUBSET SecretIds
  PROVE  LET more == Drop(queue, ids)
         IN  /\ more \in Seq(Requests)
             /\ \A r \in Range(more) : r \in Range(queue) \/ Fits(r)
             /\ Dropped(more) = Dropped(queue) \cup ids
             /\ \A use : use # "none" => AskedFor(more, use) = AskedFor(queue, use)
             /\ Overtaken(more) \subseteq Overtaken(queue) \cup (Stored(queue) \cap ids)
             /\ \A uses : "none" \notin uses /\ OneFor(queue, uses) => OneFor(more, uses)
<1> DEFINE n == Cardinality(ids)
           each == SetToSeq(ids)
           more == [i \in 1..n |-> Request("remove", each[i], "none")]
<1>1. n \in Nat /\ each \in [1..n -> ids] /\ \A x \in ids : \E i \in 1..n : each[i] = x
  <2>1. IsFiniteSet(ids)
    BY SecretIdsAre, FS_Subset
  <2> QED
    BY <2>1, Counting
<1>2. Drop(queue, ids) = queue \o more
  BY DEF Drop
<1> HIDE DEF n, each
<1>3. \A i \in 1..n : /\ more[i] \in Requests /\ more[i].op = "remove" /\ more[i].use = "none"
                      /\ more[i].id = each[i]
  BY <1>1 DEF Request, Requests
<1>4. more \in Seq(Requests) /\ DOMAIN more = 1..n /\ Len(more) = n
  BY <1>1, <1>3
<1> HIDE DEF more
<1>5. \A r \in Range(more) : r.op = "remove" /\ r.use = "none" /\ r.id \in ids
  BY <1>1, <1>3, <1>4 DEF Range
<1>6. Dropped(more) = ids
  <2>1. ASSUME NEW x \in ids
        PROVE  x \in Dropped(more)
    <3>1. PICK i \in 1..n : each[i] = x
      BY <1>1
    <3>2. more[i] \in Range(more) /\ more[i].op = "remove" /\ more[i].id = x
      BY <1>3, <1>4, <3>1 DEF Range
    <3> QED
      BY <3>2 DEF Dropped
  <2> QED
    BY <1>5, <2>1 DEF Dropped
<1>7. /\ \A use : use # "none" => AskedFor(more, use) = {}
      /\ Overtaken(more) = {}
      /\ \A uses : "none" \notin uses => OneFor(more, uses)
  <2>1. \A i \in DOMAIN more : more[i].op = "remove" /\ more[i].use = "none"
    BY <1>3, <1>4
  <2> QED
    BY <1>5, <2>1 DEF AskedFor, Overtaken, OneFor
<1>8. \A r \in Range(more) : Fits(r)
  BY <1>5 DEF Fits
<1>9. ASSUME NEW uses, "none" \notin uses, OneFor(queue, uses)
      PROVE  OneFor(queue \o more, uses)
  <2>1. OneFor(more, uses) /\ \A use \in uses : AskedFor(more, use) = {}
    BY <1>7, <1>9
  <2> QED
    BY <1>4, <1>9, <2>1, Joined
<1>10. /\ queue \o more \in Seq(Requests)
       /\ Range(queue \o more) = Range(queue) \cup Range(more)
       /\ Dropped(queue \o more) = Dropped(queue) \cup Dropped(more)
       /\ \A use : AskedFor(queue \o more, use) = AskedFor(queue, use) \cup AskedFor(more, use)
       /\ Overtaken(queue \o more) \subseteq
              Overtaken(queue) \cup Overtaken(more) \cup (Stored(queue) \cap Dropped(more))
  BY <1>4, Joined
<1>11. \A use : use # "none" => AskedFor(queue \o more, use) = AskedFor(queue, use)
  BY <1>7, <1>10
<1> QED
  BY <1>2, <1>6, <1>7, <1>8, <1>9, <1>10, <1>11

\* The elements of a sequence at some places: as many as there are, in their order.
LEMMA Selecting ==
  ASSUME NEW S, NEW seq \in Seq(S), NEW places \in SUBSET DOMAIN seq,
         NEW some \in InOrder(seq, places)
  PROVE  /\ IsFiniteSet(places) /\ Cardinality(places) \in Nat
         /\ some \in Seq(S) /\ Len(some) = Cardinality(places)
         /\ \A i \in DOMAIN some : \E p \in places : some[i] = seq[p]
         /\ (\A p, r \in places : seq[p] = seq[r] => p = r)
            => \A i, j \in DOMAIN some : some[i] = some[j] => i = j
<1> DEFINE n == Cardinality(places)
<1>1. IsFiniteSet(places) /\ n \in Nat
  <2>1. DOMAIN seq = 1..Len(seq) /\ Len(seq) \in Nat
    BY LenProperties
  <2>2. IsFiniteSet(1..Len(seq))
    BY <2>1, FS_Interval
  <2> QED
    BY <2>1, <2>2, FS_Subset, FS_CardinalityType
<1>2. PICK at \in [1..n -> places] :
        /\ \A i, j \in DOMAIN at : i < j => at[i] < at[j]
        /\ some = [i \in 1..n |-> seq[at[i]]]
  BY DEF InOrder
<1> HIDE DEF n
<1>3. /\ \A i \in 1..n : at[i] \in places /\ at[i] \in DOMAIN seq /\ seq[at[i]] \in S /\ at[i] \in Nat
      /\ DOMAIN at = 1..n
  BY <1>2
<1>4. some \in Seq(S) /\ Len(some) = n /\ DOMAIN some = 1..n /\ \A i \in 1..n : some[i] = seq[at[i]]
  BY <1>1, <1>2, <1>3
<1>5. ASSUME \A p, r \in places : seq[p] = seq[r] => p = r,
             NEW i \in DOMAIN some, NEW j \in DOMAIN some, some[i] = some[j]
      PROVE  i = j
  <2>1. at[i] = at[j] /\ at[i] \in Nat /\ at[j] \in Nat /\ i \in 1..n /\ j \in 1..n
    BY <1>3, <1>4, <1>5
  <2>2. ~ (i < j) /\ ~ (j < i)
    BY <1>2, <1>3, <2>1
  <2> QED
    BY <1>1, <2>1, <2>2
<1> QED
  BY <1>1, <1>3, <1>4, <1>5 DEF n

\* A set of naturals that has a member has a least one, which Min() picks.
LEMMA Least ==
  ASSUME NEW T, T \subseteq Nat, T # {}
  PROVE  Min(T) \in T
<1> DEFINE R == {p \in Nat \X Nat : p[1] < p[2]}
<1>1. IsWellFoundedOn(R, Nat)
  BY NatLessThanWellFounded DEF OpToRel
<1>2. PICK x \in T : \A y \in T : ~ (<<y, x>> \in R)
  BY <1>1, WFMin
<1>3. ASSUME NEW y \in T
      PROVE  x <= y
  <2>1. x \in Nat /\ y \in Nat /\ ~ (<<y, x>> \in R)
    BY <1>2
  <2> QED
    BY <2>1
<1> QED
  BY <1>3 DEF Min

\* removeAt(): one element less, in the order of the rest.
LEMMA Removing ==
  ASSUME NEW S, NEW seq \in Seq(S), NEW e \in Range(seq)
  PROVE  LET rest == RemoveFirst(seq, e)
         IN  /\ rest \in Seq(S) /\ Len(rest) + 1 = Len(seq)
             /\ Range(rest) \subseteq Range(seq) /\ Range(seq) \subseteq Range(rest) \cup {e}
             /\ (\A i, j \in DOMAIN seq : seq[i] = seq[j] => i = j)
                => \A i, j \in DOMAIN rest : rest[i] = rest[j] => i = j
<1> DEFINE n == Len(seq)
           I == {i \in 1..n : seq[i] = e}
           k == Min(I)
           rest == RemoveFirst(seq, e)
           front == SubSeq(seq, 1, k - 1)
           back == SubSeq(seq, k + 1, n)
<1>1. n \in Nat /\ DOMAIN seq = 1..n /\ \A i \in 1..n : seq[i] \in S
  BY LenProperties, ElementOfSeq
<1>2. I # {} /\ I \subseteq Nat
  BY <1>1 DEF Range
<1>3. k \in 1..n /\ seq[k] = e
  BY <1>2, Least
<1>4. rest = front \o back
  <2>1. \E i \in 1..Len(seq) : seq[i] = e
    BY <1>2
  <2>2. SelectInSeq(seq, LAMBDA v : v = e) = k
    BY <1>2 DEF SelectInSeq
  <2> QED
    BY <2>1, <2>2 DEF RemoveFirst, RemoveAt
<1> HIDE DEF k, I, n
<1>5. /\ front \in Seq(S) /\ Len(front) = k - 1 /\ \A i \in 1..k - 1 : front[i] = seq[i]
      /\ back \in Seq(S) /\ Len(back) = n - k /\ \A i \in 1..n - k : back[i] = seq[k + i]
  <2>1. k \in Int /\ k - 1 \in Int /\ k + 1 \in Int /\ n \in Int
    BY <1>1, <1>3
  <2>2. /\ \A i \in 1..k - 1 : seq[i] \in S
        /\ \A i \in k + 1..n : seq[i] \in S
    BY <1>1, <1>3
  <2>3. /\ front \in Seq(S)
        /\ Len(front) = IF 1 <= k - 1 THEN (k - 1) - 1 + 1 ELSE 0
        /\ \A i \in 1..(k - 1) - 1 + 1 : front[i] = seq[1 + i - 1]
    BY <2>1, <2>2, SubSeqProperties
  <2>4. /\ back \in Seq(S)
        /\ Len(back) = IF k + 1 <= n THEN n - (k + 1) + 1 ELSE 0
        /\ \A i \in 1..n - (k + 1) + 1 : back[i] = seq[(k + 1) + i - 1]
    BY <2>1, <2>2, SubSeqProperties
  <2> HIDE DEF front, back
  <2>5. Len(front) = k - 1 /\ \A i \in 1..k - 1 : front[i] = seq[i]
    BY <1>3, <2>1, <2>3
  <2>6. Len(back) = n - k
    BY <1>3, <2>1, <2>4
  <2>7. \A i \in 1..n - k : i \in 1..n - (k + 1) + 1 /\ (k + 1) + i - 1 = k + i
    BY <2>1
  <2> QED
    BY <2>3, <2>4, <2>5, <2>6, <2>7
<1> HIDE DEF front, back, rest
<1>6. /\ rest \in Seq(S) /\ Len(rest) = n - 1 /\ DOMAIN rest = 1..n - 1
      /\ \A i \in 1..n - 1 : rest[i] = IF i < k THEN seq[i] ELSE seq[i + 1]
  <2>0. /\ front \o back \in Seq(S)
        /\ Len(front \o back) = Len(front) + Len(back)
        /\ \A i \in 1..Len(front) + Len(back) :
             (front \o back)[i] = IF i <= Len(front) THEN front[i] ELSE back[i - Len(front)]
    BY <1>5, ConcatProperties
  <2>1. /\ rest \in Seq(S) /\ Len(rest) = (k - 1) + (n - k)
        /\ \A i \in 1..Len(rest) : rest[i] = IF i <= k - 1 THEN front[i] ELSE back[i - (k - 1)]
    BY <1>4, <1>5, <2>0
  <2>2. Len(rest) = n - 1 /\ DOMAIN rest = 1..n - 1
    BY <1>1, <1>3, <2>1, LenProperties
  <2>3. ASSUME NEW i \in 1..n - 1
        PROVE  rest[i] = IF i < k THEN seq[i] ELSE seq[i + 1]
    <3>1. CASE i < k
      <4>1. i \in 1..Len(rest) /\ i <= k - 1 /\ i \in 1..k - 1
        BY <1>1, <1>3, <2>2, <3>1
      <4> QED
        BY <1>5, <2>1, <3>1, <4>1
    <3>2. CASE ~ (i < k)
      <4>1. /\ i \in 1..Len(rest) /\ ~ (i <= k - 1) /\ i - (k - 1) \in 1..n - k
            /\ k + (i - (k - 1)) = i + 1
        BY <1>1, <1>3, <2>2, <3>2
      <4>2. rest[i] = back[i - (k - 1)]
        BY <2>1, <4>1
      <4>3. back[i - (k - 1)] = seq[k + (i - (k - 1))]
        BY <1>5, <4>1
      <4> QED
        BY <3>2, <4>1, <4>2, <4>3
    <3> QED
      BY <3>1, <3>2
  <2> QED
    BY <2>1, <2>2, <2>3
<1>7. ASSUME NEW i \in 1..n - 1
      PROVE  \E j \in 1..n : rest[i] = seq[j]
  BY <1>1, <1>6
<1>8. ASSUME NEW j \in 1..n, j # k
      PROVE  \E i \in 1..n - 1 : rest[i] = seq[j]
  <2>1. CASE j < k
    <3>1. j \in 1..n - 1 /\ rest[j] = seq[j]
      BY <1>1, <1>3, <1>6, <2>1
    <3> QED
      BY <3>1
  <2>2. CASE j > k
    <3>1. j - 1 \in 1..n - 1 /\ ~ (j - 1 < k) /\ (j - 1) + 1 = j
      BY <1>1, <1>3, <2>2
    <3>2. rest[j - 1] = seq[j]
      BY <1>6, <3>1
    <3> QED
      BY <3>1, <3>2
  <2> QED
    BY <1>1, <1>3, <1>8, <2>1, <2>2
<1>9. Range(rest) \subseteq Range(seq) /\ Range(seq) \subseteq Range(rest) \cup {e}
  <2>1. ASSUME NEW x \in Range(rest)
        PROVE  x \in Range(seq)
    <3>1. PICK i \in 1..n - 1 : x = rest[i]
      BY <1>6, <2>1 DEF Range
    <3>2. PICK j \in 1..n : x = seq[j]
      BY <1>7, <3>1
    <3> QED
      BY <1>1, <3>2 DEF Range
  <2>2. ASSUME NEW x \in Range(seq), x # e
        PROVE  x \in Range(rest)
    <3>1. PICK j \in 1..n : x = seq[j]
      BY <1>1 DEF Range
    <3>2. j # k
      BY <1>3, <2>2, <3>1
    <3>3. PICK i \in 1..n - 1 : rest[i] = x
      BY <1>8, <3>1, <3>2
    <3> QED
      BY <1>6, <3>3 DEF Range
  <2> QED
    BY <2>1, <2>2
<1>10. ASSUME \A i, j \in DOMAIN seq : seq[i] = seq[j] => i = j,
              NEW i \in DOMAIN rest, NEW j \in DOMAIN rest, rest[i] = rest[j]
       PROVE  i = j
  <2> DEFINE a == IF i < k THEN i ELSE i + 1
             b == IF j < k THEN j ELSE j + 1
  <2>1. a \in 1..n /\ b \in 1..n
    BY <1>1, <1>3, <1>6
  <2>2. seq[a] = seq[b]
    BY <1>6, <1>10
  <2>3. a = b
    BY <1>1, <1>10, <2>1, <2>2
  <2> QED
    BY <1>1, <1>3, <1>6, <2>3
<1>11. Len(rest) + 1 = n
  BY <1>1, <1>6
<1> QED
  BY <1>6, <1>9, <1>10, <1>11 DEF rest, n

---------------------------------------------------------------------------
(* Lemmas about the invariant *)

\* What a list of hosts is.
LEMMA HostListIs ==
  ASSUME NEW list
  PROVE  list \in HostLists <=> list \in [DOMAIN list -> Hosts] /\ DOMAIN list \subseteq HostIds
BY DEF HostLists

\* What is noted when ids are dropped.
LEMMA Noting ==
  ASSUME NEW past \in Histories, NEW queue \in Seq(Requests), NEW ids \in SUBSET SecretIds
  PROVE  LET noted == Crossed(past, queue, ids)
         IN  /\ noted \in Histories /\ noted.left = past.left /\ noted.crowded = past.crowded
             /\ past.crossed \subseteq noted.crossed
             /\ Stored(queue) \cap ids \subseteq noted.crossed
             /\ backup.phase = "storing" => ids \cap backup.contents.secrets \subseteq noted.crossed
<1>1. \A id \in Stored(queue) : Storing(queue, id)
  BY DEF Stored, Storing, Range
<1> QED
  BY <1>1 DEF Crossed, Histories

\* Ids are dropped that nobody promises any more.
LEMMA DropHeld ==
  ASSUME NEW past \in Histories, NEW queue \in Seq(Requests), NEW ids \in SUBSET SecretIds,
         NEW old, NEW promised, NEW kept,
         Held(old, Restored, queue, kept, past),
         promised \subseteq past.crossed \cup (kept \ Dropped(queue)), promised \cap ids = {},
         old \subseteq promised \cup ids
  PROVE  Held(promised, Restored, Drop(queue, ids), kept, Crossed(past, queue, ids))
<1> DEFINE more == Drop(queue, ids)
           noted == Crossed(past, queue, ids)
<1>1. /\ Dropped(more) = Dropped(queue) \cup ids
      /\ AskedFor(more, "restore") = AskedFor(queue, "restore")
      /\ Overtaken(more) \subseteq Overtaken(queue) \cup (Stored(queue) \cap ids)
  BY Dropping
<1>2. /\ noted.left = past.left /\ past.crossed \subseteq noted.crossed
      /\ Stored(queue) \cap ids \subseteq noted.crossed
      /\ backup.phase = "storing" => ids \cap backup.contents.secrets \subseteq noted.crossed
  BY Noting
<1>3. ids \cap Restored \subseteq noted.crossed
  BY <1>2 DEF Restored, BackedUp
<1> HIDE DEF more, noted
<1> QED
  BY <1>1, <1>2, <1>3 DEF Held, more, noted

\* The lists of hosts and keys stay what they are for the vault when the queue
\* is only asked to drop more.
LEMMA DropKeeps ==
  ASSUME NEW queue \in Seq(Requests), NEW ids \in SUBSET SecretIds,
         NEW underway, NEW list, NEW crowded, OneKey(underway, queue, list, crowded)
  PROVE  OneKey(underway, Drop(queue, ids), list, crowded)
<1>1. AskedFor(Drop(queue, ids), "key") = AskedFor(queue, "key")
  BY Dropping
<1>2. OneFor(queue, {"key"}) => OneFor(Drop(queue, ids), {"key"})
  BY Dropping
<1> QED
  BY <1>1, <1>2 DEF OneKey

\* The hosts change, and the passwords they no longer need are dropped.
LEMMA HostsStep ==
  ASSUME Types, OneByOne, Given, NEW ids \in SUBSET SecretIds,
         NEW queue \in Seq(Requests), AllFit(queue), OneFor(queue, {"restore", "export"}),
         \A use : use # "none" => AskedFor(queue, use) \subseteq AskedFor(requests, use),
         NEW old, Held(old, Restored, queue, secrets', history),
         OneKey(making, queue, keys, history.crowded),
         secrets' \in SUBSET SecretIds,
         hosts' \in HostLists, unused' \subseteq unused, DOMAIN hosts' \cap unused' = {},
         requests' = Drop(queue, ids), history' = Crossed(history, queue, ids),
         UNCHANGED <<keys, making, backup, file>>,
         Promised' \subseteq old, old \subseteq Promised' \cup ids, Promised' \cap ids = {}
  PROVE  IInv'
<1>1. /\ requests' \in Seq(Requests)
      /\ \A r \in Range(requests') : r \in Range(queue) \/ Fits(r)
      /\ \A use : use # "none" => AskedFor(requests', use) = AskedFor(queue, use)
      /\ OneFor(requests', {"restore", "export"})
  BY Dropping
<1>2. history \in Histories
  BY DEF Types
<1>3. history' \in Histories /\ history'.crowded = history.crowded
  BY <1>2, Noting
<1>4. Types'
  BY <1>1, <1>3 DEF Types
<1>5. AllFit(requests')
  BY <1>1 DEF AllFit
<1>6. Restored' = Restored
  BY DEF Restored
<1>7. OneByOne'
  BY <1>1, <1>6 DEF OneByOne
<1>8. Given'
  BY <1>1 DEF Given
<1>9. Held(Promised', Restored', requests', secrets', history')
  <2>1. Promised' \subseteq history.crossed \cup (secrets' \ Dropped(queue))
    BY DEF Held
  <2> QED
    BY <1>2, <1>6, <2>1, DropHeld
<1>10. OneKey(making', requests', keys', history'.crowded)
  BY <1>3, DropKeeps
<1> QED
  BY <1>4, <1>5, <1>7, <1>8, <1>9, <1>10 DEF IInv

\* The hosts change, and a password they do not say they have yet is stored.
LEMMA AskHost ==
  ASSUME IInv, NEW h \in HostIds, requests' = Store(requests, Password(h), "host"),
         hosts' \in HostLists, unused' \subseteq unused, DOMAIN hosts' \cap unused' = {},
         Promised' = Promised, history' \in Histories,
         history'.crossed = history.crossed, history'.left = history.left, history'.crowded = history.crowded,
         UNCHANGED <<keys, making, secrets, backup, file>>
  PROVE  IInv'
<1> DEFINE r == Request("create", Password(h), "host")
<1>1. /\ r \in Requests /\ r.op = "create" /\ r.use = "host" /\ Fits(r)
  BY SecretIdsAre DEF Request, Requests, Fits
<1>2. requests \in Seq(Requests) /\ requests' = Append(requests, r)
  BY DEF IInv, Types, Store
<1> HIDE DEF r
<1>3. /\ requests' \in Seq(Requests) /\ Range(requests') = Range(requests) \cup {r}
      /\ Dropped(requests') = Dropped(requests)
      /\ \A use : use # "host" => AskedFor(requests', use) = AskedFor(requests, use)
      /\ Overtaken(requests') \subseteq Overtaken(requests)
      /\ \A uses : OneFor(requests, uses) /\ "host" \notin uses => OneFor(requests', uses)
  <2> DEFINE more == Append(requests, r)
  <2>1. /\ more \in Seq(Requests) /\ Range(more) = Range(requests) \cup {r}
        /\ Dropped(more) = Dropped(requests) \cup IF r.op = "remove" THEN {r.id} ELSE {}
        /\ \A use : AskedFor(more, use) = AskedFor(requests, use) \cup IF r.use = use THEN {r.id} ELSE {}
        /\ Overtaken(more) \subseteq
               Overtaken(requests) \cup IF r.op = "remove" THEN Stored(requests) \cap {r.id} ELSE {}
    BY <1>1, <1>2, Appended
  <2>2. \A uses : OneFor(requests, uses) /\ "host" \notin uses => OneFor(more, uses)
    BY <1>1, <1>2, Appended
  <2> HIDE DEF more
  <2>3. Dropped(more) = Dropped(requests) /\ Overtaken(more) \subseteq Overtaken(requests)
    BY <1>1, <2>1
  <2>4. ASSUME NEW use, use # "host"
        PROVE  AskedFor(more, use) = AskedFor(requests, use)
    <3>1. r.use # use
      BY <1>1, <2>4
    <3> QED
      BY <2>1, <3>1
  <2> QED
    BY <1>2, <2>1, <2>2, <2>3, <2>4 DEF more
<1>4. Types'
  BY <1>3 DEF IInv, Types
<1>5. AllFit(requests')
  BY <1>1, <1>3 DEF IInv, AllFit
<1>6. Restored' = Restored
  BY DEF Restored
<1>7. OneByOne'
  BY <1>3, <1>6 DEF IInv, OneByOne
<1>8. Given'
  BY <1>3 DEF IInv, Given
<1>9. Held(Promised', Restored', requests', secrets', history')
  BY <1>3, <1>6 DEF IInv, Held
<1>10. OneKey(making', requests', keys', history'.crowded)
  <2>1. OneKey(making, requests, keys, history.crowded)
    BY DEF IInv
  <2>2. /\ AskedFor(requests', "key") = AskedFor(requests, "key")
        /\ OneFor(requests, {"key"}) => OneFor(requests', {"key"})
    BY <1>3
  <2> QED
    BY <2>1, <2>2 DEF OneKey
<1> QED
  BY <1>4, <1>5, <1>7, <1>8, <1>9, <1>10 DEF IInv

---------------------------------------------------------------------------
(* Steps of the hosts *)

\* The queue and what the vault holds are as they were.
LEMMA HostsStepNow ==
  ASSUME IInv, NEW ids \in SUBSET SecretIds,
         hosts' \in HostLists, unused' \subseteq unused, DOMAIN hosts' \cap unused' = {},
         requests' = Drop(requests, ids), history' = Crossed(history, requests, ids),
         UNCHANGED <<keys, making, secrets, backup, file>>,
         Promised' \subseteq Promised, Promised' \cap ids = {}, Promised \subseteq Promised' \cup ids
  PROVE  IInv'
<1>1. Types /\ OneByOne /\ Given /\ requests \in Seq(Requests) /\ AllFit(requests)
  BY DEF IInv, Types
<1>2. OneFor(requests, {"restore", "export"})
  BY DEF IInv, OneByOne
<1>3. Held(Promised, Restored, requests, secrets', history) /\ OneKey(making, requests, keys, history.crowded)
  BY DEF IInv
<1>4. secrets' \in SUBSET SecretIds
  BY DEF IInv, Types
<1> QED
  BY <1>1, <1>2, <1>3, <1>4, HostsStep

\* A host is saved, new or not, or gets another key.
LEMMA SaveHostStep ==
  ASSUME IInv, NEW h \in HostIds, NEW key \in KeyIds \cup {None}, NEW had \in BOOLEAN,
         NEW password \in BOOLEAN, NEW remember \in BOOLEAN,
         had = (h \in DOMAIN hosts /\ hosts[h].hasPassword),
         SaveHost(h, key, had, password, remember),
         unused' \subseteq unused, h \notin unused',
         UNCHANGED <<keys, making, secrets, backup, file>>
  PROVE  IInv'
<1> DEFINE keep == key = None /\ remember /\ password
           forget == (key # None \/ ~remember) /\ had
           ids == IF forget THEN {Password(h)} ELSE {}
           host == [key |-> key, hasPassword |-> had /\ ~forget]
<1>1. /\ hosts' = Changed(h, host)
      /\ requests' = IF keep THEN Store(requests, Password(h), "host") ELSE Drop(requests, ids)
      /\ history' = Crossed(history, requests, ids)
  BY DEF SaveHost
<1>2. hosts \in [DOMAIN hosts -> Hosts] /\ DOMAIN hosts \subseteq HostIds /\ history \in Histories
  BY HostListIs DEF IInv, Types
<1>3. host \in Hosts
  BY DEF Hosts
<1>4. /\ DOMAIN hosts' = DOMAIN hosts \cup {h} /\ hosts' \in [DOMAIN hosts' -> Hosts]
      /\ hosts'[h] = host /\ \A g \in DOMAIN hosts : g # h => hosts'[g] = hosts[g]
  BY <1>1, <1>2, <1>3 DEF Changed
<1>5. hosts' \in HostLists
  BY <1>2, <1>4, HostListIs
<1>6. DOMAIN hosts' \cap unused' = {}
  BY <1>4 DEF IInv, Given
<1>7. \A g \in DOMAIN hosts' : hosts'[g].hasPassword <=>
        g \in DOMAIN hosts /\ hosts[g].hasPassword /\ ~ (g = h /\ forget)
  <2>1. host.hasPassword = (had /\ ~forget)
    OBVIOUS
  <2> HIDE DEF host, forget
  <2> QED
    BY <1>4, <2>1
<1>8. ids \in SUBSET SecretIds
  BY SecretIdsAre
<1>9. /\ Passwords' \subseteq Passwords /\ Passwords \subseteq Passwords' \cup ids
      /\ Passwords' \cap ids = {} /\ ids \cap KeyIds = {}
  <2>1. \A g \in DOMAIN hosts' : Password(g) = Password(h) => g = h
    BY <1>2, <1>4, SecretIdsAre
  <2>2. ids \cap KeyIds = {}
    BY SecretIdsAre
  <2>3. Password(h) \in ids <=> forget
    BY Zenon
  <2>4. ids \subseteq {Password(h)}
    OBVIOUS
  <2> HIDE DEF ids, forget
  <2>5. Passwords' \subseteq Passwords
    BY <1>4, <1>7 DEF Passwords
  <2>6. Passwords \subseteq Passwords' \cup ids
    <3>1. ASSUME NEW g \in DOMAIN hosts, hosts[g].hasPassword
          PROVE  Password(g) \in Passwords' \cup ids
      <4>1. CASE g = h /\ forget
        BY <2>3, <4>1
      <4>2. CASE ~ (g = h /\ forget)
        <5>1. g \in DOMAIN hosts' /\ hosts'[g].hasPassword
          BY <1>4, <1>7, <3>1, <4>2
        <5> QED
          BY <5>1 DEF Passwords
      <4> QED
        BY <4>1, <4>2
    <3> QED
      BY <3>1 DEF Passwords
  <2>7. Passwords' \cap ids = {}
    <3>1. ASSUME NEW g \in DOMAIN hosts', hosts'[g].hasPassword, Password(g) \in ids
          PROVE  FALSE
      <4>1. g = h /\ forget
        BY <2>1, <2>3, <2>4, <3>1
      <4> QED
        BY <1>7, <3>1, <4>1
    <3> QED
      BY <3>1 DEF Passwords
  <2> QED
    BY <2>2, <2>5, <2>6, <2>7
<1>10. Range(keys) \subseteq KeyIds /\ Range(keys') = Range(keys)
  BY RangeOfSeq DEF IInv, Types
<1>11. CASE keep
  <2>1. ids = {}
    BY <1>11
  <2>2. Promised' = Promised
    BY <1>9, <1>10, <2>1 DEF Promised
  <2>3. /\ history' \in Histories /\ history'.left = history.left /\ history'.crowded = history.crowded
        /\ history'.crossed = history.crossed
    BY <1>1, <1>2, <2>1 DEF Crossed, Histories
  <2>4. requests' = Store(requests, Password(h), "host")
    BY <1>1, <1>11
  <2> QED
    BY <1>5, <1>6, <2>2, <2>3, <2>4, AskHost
<1>12. CASE ~keep
  <2>1. Promised' \subseteq Promised /\ Promised' \cap ids = {} /\ Promised \subseteq Promised' \cup ids
    <3> HIDE DEF ids
    <3> QED
      BY <1>9, <1>10 DEF Promised
  <2>2. requests' = Drop(requests, ids)
    BY <1>1, <1>12
  <2> HIDE DEF ids
  <2> QED
    BY <1>1, <1>5, <1>6, <1>8, <2>1, <2>2, HostsStepNow
<1> QED
  BY <1>11, <1>12

\* A host there is, and one that is new.
LEMMA HostOf ==
  ASSUME IInv, NEW h \in DOMAIN hosts
  PROVE  h \in HostIds /\ h \notin unused /\ hosts[h].hasPassword \in BOOLEAN /\ hosts[h] \in Hosts
<1>1. hosts \in [DOMAIN hosts -> Hosts] /\ DOMAIN hosts \subseteq HostIds
  BY HostListIs DEF IInv, Types
<1> QED
  BY <1>1 DEF Hosts, IInv, Given

LEMMA FreshIs ==
  ASSUME NEW ids, NEW id \in ids, Fresh(ids, id)
  PROVE  id \in unused
BY DEF Fresh

LEMMA KeysAre ==
  ASSUME IInv
  PROVE  Range(keys) \subseteq KeyIds
BY RangeOfSeq DEF IInv, Types

LEMMA AddHostStep ==
  ASSUME IInv, AddHost
  PROVE  IInv'
<1>1. PICK h \in HostIds, key \in Range(keys) \cup {None}, password \in BOOLEAN, remember \in BOOLEAN :
        Fresh(HostIds, h) /\ unused' = unused \ {h} /\ SaveHost(h, key, FALSE, password, remember)
  BY DEF AddHost
<1>2. h \in unused /\ h \notin DOMAIN hosts
  BY <1>1, FreshIs, HostOf
<1>3. key \in KeyIds \cup {None}
  BY KeysAre
<1>4. UNCHANGED <<keys, making, secrets, backup, file>>
  BY DEF AddHost, OthersUnchanged
<1> QED
  BY <1>1, <1>2, <1>3, <1>4, SaveHostStep

LEMMA EditHostStep ==
  ASSUME IInv, EditHost
  PROVE  IInv'
<1>1. PICK h \in DOMAIN hosts, key \in Range(keys) \cup {None}, password \in BOOLEAN, remember \in BOOLEAN :
        SaveHost(h, key, hosts[h].hasPassword, password, remember)
  BY DEF EditHost
<1>2. h \in HostIds /\ h \notin unused /\ hosts[h].hasPassword \in BOOLEAN
  BY HostOf
<1>3. key \in KeyIds \cup {None}
  BY KeysAre
<1>4. UNCHANGED <<keys, making, secrets, backup, file, unused>>
  BY DEF EditHost, OthersUnchanged
<1> QED
  BY <1>1, <1>2, <1>3, <1>4, SaveHostStep

LEMMA SetKeyStep ==
  ASSUME IInv, SetKey
  PROVE  IInv'
<1>1. PICK h \in DOMAIN hosts, key \in KeyIds \ unused :
        SaveHost(h, key, hosts[h].hasPassword, FALSE, FALSE)
  BY DEF SetKey
<1>2. h \in HostIds /\ h \notin unused /\ hosts[h].hasPassword \in BOOLEAN
  BY HostOf
<1>3. UNCHANGED <<keys, making, secrets, backup, file, unused>>
  BY DEF SetKey, OthersUnchanged
<1> QED
  BY <1>1, <1>2, <1>3, SaveHostStep

LEMMA RememberPasswordStep ==
  ASSUME IInv, RememberPassword
  PROVE  IInv'
<1>1. PICK h \in DOMAIN hosts : requests' = Store(requests, Password(h), "host")
  BY DEF RememberPassword
<1>2. h \in HostIds
  BY HostOf
<1>3. UNCHANGED <<keys, making, secrets, backup, file, hosts, unused, history>>
  BY DEF RememberPassword, OthersUnchanged
<1>4. Promised' = Promised
  BY <1>3 DEF Promised, Passwords
<1>5. hosts' \in HostLists /\ DOMAIN hosts' \cap unused' = {} /\ history' \in Histories
  BY <1>3 DEF IInv, Types, Given
<1> QED
  BY <1>1, <1>2, <1>3, <1>4, <1>5, AskHost

LEMMA RemoveHostStep ==
  ASSUME IInv, RemoveHost
  PROVE  IInv'
<1>1. PICK h \in DOMAIN hosts :
        LET dropped == IF hosts[h].hasPassword THEN {Password(h)} ELSE {}
        IN  /\ hosts' = [id \in DOMAIN hosts \ {h} |-> hosts[id]]
            /\ requests' = Drop(requests, dropped)
            /\ history' = Crossed(history, requests, dropped)
  BY DEF RemoveHost
<1> DEFINE ids == IF hosts[h].hasPassword THEN {Password(h)} ELSE {}
<1>2. UNCHANGED <<keys, making, secrets, backup, file, unused>>
  BY DEF RemoveHost, OthersUnchanged
<1>3. /\ DOMAIN hosts' = DOMAIN hosts \ {h} /\ \A g \in DOMAIN hosts' : hosts'[g] = hosts[g]
      /\ hosts' \in HostLists
  <2>1. hosts \in [DOMAIN hosts -> Hosts] /\ DOMAIN hosts \subseteq HostIds
    BY HostListIs DEF IInv, Types
  <2>2. DOMAIN hosts' = DOMAIN hosts \ {h} /\ hosts' \in [DOMAIN hosts' -> Hosts]
    BY <1>1, <2>1
  <2> QED
    BY <1>1, <2>1, <2>2, HostListIs
<1>4. ids \in SUBSET SecretIds /\ ids \cap KeyIds = {} /\ \A g \in DOMAIN hosts' : Password(g) \notin ids
  BY <1>3, HostOf, SecretIdsAre
<1>5. Passwords \subseteq Passwords' \cup ids
  <2>1. ASSUME NEW g \in DOMAIN hosts, hosts[g].hasPassword
        PROVE  Password(g) \in Passwords' \cup ids
    <3>1. CASE g = h
      BY <2>1, <3>1
    <3>2. CASE g # h
      <4>1. g \in DOMAIN hosts' /\ hosts'[g].hasPassword
        BY <1>3, <2>1, <3>2
      <4> QED
        BY <4>1 DEF Passwords
    <3> QED
      BY <3>1, <3>2
  <2> QED
    BY <2>1 DEF Passwords
<1> HIDE DEF ids
<1>6. Passwords' \subseteq Passwords /\ Passwords' \cap ids = {}
  BY <1>3, <1>4 DEF Passwords
<1>7. Range(keys') = Range(keys) /\ Range(keys) \subseteq KeyIds
  BY <1>2, KeysAre
<1>8. Promised' \subseteq Promised /\ Promised' \cap ids = {} /\ Promised \subseteq Promised' \cup ids
  BY <1>4, <1>5, <1>6, <1>7 DEF Promised
<1>9. DOMAIN hosts' \cap unused' = {}
  BY <1>2, <1>3 DEF IInv, Given
<1>10. requests' = Drop(requests, ids) /\ history' = Crossed(history, requests, ids)
  BY <1>1 DEF ids
<1> QED
  BY <1>2, <1>3, <1>4, <1>8, <1>9, <1>10, HostsStepNow

LEMMA DuplicateHostStep ==
  ASSUME IInv, DuplicateHost
  PROVE  IInv'
<1>1. PICK h \in DOMAIN hosts, copy \in HostIds :
        /\ Fresh(HostIds, copy)
        /\ hosts' = Changed(copy, [key |-> hosts[h].key, hasPassword |-> FALSE])
        /\ unused' = unused \ {copy}
  BY DEF DuplicateHost
<1> DEFINE host == [key |-> hosts[h].key, hasPassword |-> FALSE]
<1>2. UNCHANGED <<keys, making, secrets, backup, file, requests, history>>
  BY DEF DuplicateHost, OthersUnchanged
<1>3. copy \in unused /\ copy \notin DOMAIN hosts
  BY <1>1, FreshIs, HostOf
<1>4. host \in Hosts /\ host.hasPassword = FALSE
  BY HostOf DEF Hosts
<1> HIDE DEF host
<1>5. /\ DOMAIN hosts' = DOMAIN hosts \cup {copy} /\ hosts'[copy] = host
      /\ \A g \in DOMAIN hosts : hosts'[g] = hosts[g]
      /\ hosts' \in HostLists
  <2>1. hosts \in [DOMAIN hosts -> Hosts] /\ DOMAIN hosts \subseteq HostIds
    BY HostListIs DEF IInv, Types
  <2>2. DOMAIN hosts' = DOMAIN hosts \cup {copy} /\ hosts' \in [DOMAIN hosts' -> Hosts]
    BY <1>1, <1>4, <2>1 DEF Changed, host
  <2> QED
    BY <1>1, <1>3, <2>1, <2>2, HostListIs DEF Changed, host
<1>6. Passwords' = Passwords
  BY <1>4, <1>5 DEF Passwords
<1>7. Promised' = Promised /\ Restored' = Restored
  BY <1>2, <1>6 DEF Promised, Restored
<1>8. Types' /\ AllFit(requests') /\ OneByOne'
  BY <1>2, <1>5, <1>7 DEF IInv, Types, OneByOne
<1>9. Given'
  BY <1>1, <1>2, <1>5 DEF IInv, Given
<1>10. Held(Promised', Restored', requests', secrets', history')
  BY <1>2, <1>7 DEF IInv
<1>11. OneKey(making', requests', keys', history'.crowded)
  BY <1>2 DEF IInv
<1> QED
  BY <1>8, <1>9, <1>10, <1>11 DEF IInv

LEMMA ImportConfigStep ==
  ASSUME IInv, ImportConfig
  PROVE  IInv'
<1>1. PICK named \in SUBSET DOMAIN hosts, new \in SUBSET {h \in HostIds : Fresh(HostIds, h)} :
        LET cleared == {h \in named : hosts[h].key # None /\ hosts[h].hasPassword}
            ids == {Password(h) : h \in cleared}
        IN  /\ hosts' = [h \in DOMAIN hosts \cup new |->
                   IF h \in new THEN [key |-> None, hasPassword |-> FALSE]
                   ELSE [hosts[h] EXCEPT !.hasPassword = @ /\ h \notin cleared]]
            /\ unused' = unused \ new
            /\ requests' = Drop(requests, ids)
            /\ history' = Crossed(history, requests, ids)
  BY DEF ImportConfig
<1> DEFINE cleared == {h \in named : hosts[h].key # None /\ hosts[h].hasPassword}
           ids == {Password(h) : h \in cleared}
           host == [key |-> None, hasPassword |-> FALSE]
<1>2. UNCHANGED <<keys, making, secrets, backup, file>>
  BY DEF ImportConfig, OthersUnchanged
<1>3. hosts \in [DOMAIN hosts -> Hosts] /\ DOMAIN hosts \subseteq HostIds
  BY HostListIs DEF IInv, Types
<1>4. new \subseteq HostIds /\ new \subseteq unused /\ new \cap DOMAIN hosts = {}
  BY FreshIs, HostOf
<1>5. cleared \subseteq DOMAIN hosts /\ \A h \in cleared : hosts[h].hasPassword
  OBVIOUS
<1>6. /\ hosts' = [h \in DOMAIN hosts \cup new |->
             IF h \in new THEN host ELSE [hosts[h] EXCEPT !.hasPassword = @ /\ h \notin cleared]]
      /\ unused' = unused \ new
      /\ requests' = Drop(requests, ids)
      /\ history' = Crossed(history, requests, ids)
  BY <1>1
<1>7. host \in Hosts /\ host.hasPassword = FALSE
  BY DEF Hosts
<1> HIDE DEF cleared, host
<1>8. ASSUME NEW h \in DOMAIN hosts
      PROVE  LET kept == [hosts[h] EXCEPT !.hasPassword = @ /\ h \notin cleared]
             IN  kept \in Hosts /\ kept.hasPassword = (hosts[h].hasPassword /\ h \notin cleared)
  BY <1>3 DEF Hosts
<1>9. /\ DOMAIN hosts' = DOMAIN hosts \cup new
      /\ \A h \in new : hosts'[h] = host
      /\ \A h \in DOMAIN hosts : hosts'[h].hasPassword = (hosts[h].hasPassword /\ h \notin cleared)
      /\ hosts' \in [DOMAIN hosts' -> Hosts]
  <2>1. DOMAIN hosts' = DOMAIN hosts \cup new /\ \A h \in new : hosts'[h] = host
    BY <1>6
  <2>2. \A h \in DOMAIN hosts : hosts'[h] = [hosts[h] EXCEPT !.hasPassword = @ /\ h \notin cleared]
    BY <1>4, <1>6
  <2>3. \A h \in DOMAIN hosts : hosts'[h] \in Hosts
    BY <1>8, <2>2
  <2>4. ASSUME NEW h \in DOMAIN hosts
        PROVE  hosts'[h].hasPassword = (hosts[h].hasPassword /\ h \notin cleared)
    <3> DEFINE kept == [hosts[h] EXCEPT !.hasPassword = @ /\ h \notin cleared]
    <3>1. hosts'[h] = kept
      BY <2>2
    <3>2. kept.hasPassword = (hosts[h].hasPassword /\ h \notin cleared)
      BY <1>8
    <3> HIDE DEF kept
    <3> QED
      BY <3>1, <3>2
  <2>5. hosts' \in [DOMAIN hosts' -> Hosts]
    BY <1>6, <1>7, <2>1, <2>3
  <2> QED
    BY <2>1, <2>4, <2>5
<1>10. hosts' \in HostLists /\ DOMAIN hosts' \cap unused' = {} /\ unused' \subseteq unused
  BY <1>3, <1>4, <1>6, <1>9, HostListIs DEF IInv, Given
<1>11. ids \in SUBSET SecretIds /\ ids \cap KeyIds = {}
  BY <1>3, <1>5, SecretIdsAre
<1>12. \A g \in HostIds : Password(g) \in ids => g \in cleared
  BY <1>3, <1>5, SecretIdsAre
<1>13. \A g \in cleared : Password(g) \in ids
  OBVIOUS
<1> HIDE DEF ids
<1>14. Passwords' \subseteq Passwords /\ Passwords' \cap ids = {} /\ Passwords \subseteq Passwords' \cup ids
  <2>1. ASSUME NEW g \in DOMAIN hosts', hosts'[g].hasPassword
        PROVE  g \in DOMAIN hosts /\ hosts[g].hasPassword /\ Password(g) \notin ids
    BY <1>3, <1>4, <1>7, <1>9, <1>12, <2>1
  <2>2. ASSUME NEW g \in DOMAIN hosts, hosts[g].hasPassword
        PROVE  Password(g) \in ids \/ (g \in DOMAIN hosts' /\ hosts'[g].hasPassword)
    BY <1>9, <1>13, <2>2
  <2> QED
    BY <2>1, <2>2 DEF Passwords
<1>15. Range(keys') = Range(keys) /\ Range(keys) \subseteq KeyIds
  BY <1>2, KeysAre
<1>16. Promised' \subseteq Promised /\ Promised' \cap ids = {} /\ Promised \subseteq Promised' \cup ids
  BY <1>11, <1>14, <1>15 DEF Promised
<1> QED
  BY <1>2, <1>6, <1>10, <1>11, <1>16, HostsStepNow

---------------------------------------------------------------------------
(* Steps of the keys *)

\* A key more is counted: when there is no crowd, it is the only one.
LEMMA Crowding ==
  ASSUME IInv, NEW more \in Nat
  PROVE  /\ Crowds(more) \in Histories
         /\ Crowds(more).crossed = history.crossed /\ Crowds(more).left = history.left
         /\ ~Crowds(more).crowded =>
              /\ ~history.crowded /\ more \in {0, 1}
              /\ more = 1 => making = 0 /\ AskedFor(requests, "key") = {}
<1> DEFINE under == {i \in DOMAIN requests : requests[i].use = "key"}
<1>1. history \in Histories /\ making \in Nat /\ requests \in Seq(Requests)
  BY DEF IInv, Types
<1>2. IsFiniteSet(under) /\ Cardinality(under) \in Nat
  <2>1. DOMAIN requests = 1..Len(requests) /\ Len(requests) \in Nat
    BY <1>1, LenProperties
  <2>2. IsFiniteSet(1..Len(requests))
    BY <2>1, FS_Interval
  <2> QED
    BY <2>1, <2>2, FS_Subset, FS_CardinalityType
<1>3. Cardinality(under) = 0 => AskedFor(requests, "key") = {}
  <2>1. Cardinality(under) = 0 => under = {}
    BY <1>2, FS_EmptySet
  <2> QED
    BY <2>1 DEF AskedFor, Range
<1>4. KeysUnderWay = making + Cardinality(under)
  BY DEF KeysUnderWay
<1> HIDE DEF under
<1>5. Crowds(more) = [history EXCEPT !.crowded = @ \/ KeysUnderWay + more > 1]
  BY DEF Crowds
<1>6. (KeysUnderWay + more > 1) \in BOOLEAN
  OBVIOUS
<1>7. /\ Crowds(more) \in Histories
      /\ Crowds(more).crossed = history.crossed /\ Crowds(more).left = history.left
      /\ Crowds(more).crowded = (history.crowded \/ KeysUnderWay + more > 1)
  BY <1>1, <1>5 DEF Histories
<1>8. ASSUME ~ (KeysUnderWay + more > 1)
      PROVE  more \in {0, 1} /\ (more = 1 => making = 0 /\ Cardinality(under) = 0)
  BY <1>1, <1>2, <1>4, <1>8
<1> QED
  BY <1>3, <1>7, <1>8

LEMMA MakeKeyStep ==
  ASSUME IInv, MakeKey
  PROVE  IInv'
<1>1. /\ MayAddKey /\ making' = making + 1 /\ history' = Crowds(1)
      /\ UNCHANGED <<hosts, keys, requests, secrets, backup, file, unused>>
  BY DEF MakeKey
<1>2. /\ history' \in Histories /\ history'.crossed = history.crossed /\ history'.left = history.left
      /\ ~history'.crowded => ~history.crowded /\ making = 0 /\ AskedFor(requests, "key") = {}
  BY <1>1, Crowding
<1>3. Promised' = Promised /\ Restored' = Restored
  BY <1>1 DEF Promised, Passwords, Restored
<1>4. Types' /\ AllFit(requests') /\ OneByOne' /\ Given'
  BY <1>1, <1>2, <1>3 DEF IInv, Types, OneByOne, Given
<1>5. Held(Promised', Restored', requests', secrets', history')
  BY <1>1, <1>2, <1>3 DEF IInv, Held
<1>6. OneKey(making', requests', keys', history'.crowded)
  <2>1. OneKey(making, requests, keys, history.crowded)
    BY DEF IInv
  <2> QED
    BY <1>1, <1>2, <2>1 DEF OneKey, MayAddKey
<1> QED
  BY <1>4, <1>5, <1>6 DEF IInv

\* A new key is on its way to the vault.
LEMMA StoreKeyStep ==
  ASSUME IInv, NEW key \in KeyIds, key \in unused, unused' = unused \ {key},
         requests' = Store(requests, key, "key"), making' \in Nat, history' \in Histories,
         history'.crossed = history.crossed, history'.left = history.left,
         UNCHANGED <<hosts, keys, secrets, backup, file>>,
         ~history'.crowded =>
            /\ ~history.crowded /\ making' = 0 /\ AskedFor(requests, "key") = {}
            /\ Len(keys) < MaxKeys
  PROVE  IInv'
<1> DEFINE r == Request("create", key, "key")
<1>1. r \in Requests /\ r.op = "create" /\ r.use = "key" /\ r.id = key /\ Fits(r)
  BY SecretIdsAre DEF Request, Requests, Fits
<1>2. requests \in Seq(Requests) /\ requests' = Append(requests, r)
  BY DEF IInv, Types, Store
<1> HIDE DEF r
<1>3. /\ requests' \in Seq(Requests) /\ Range(requests') = Range(requests) \cup {r}
      /\ Dropped(requests') = Dropped(requests)
      /\ \A use : AskedFor(requests', use) = AskedFor(requests, use) \cup IF use = "key" THEN {key} ELSE {}
      /\ Overtaken(requests') \subseteq Overtaken(requests)
      /\ OneFor(requests, {"restore", "export"}) => OneFor(requests', {"restore", "export"})
      /\ OneFor(requests, {"key"}) /\ AskedFor(requests, "key") = {} => OneFor(requests', {"key"})
  <2> DEFINE more == Append(requests, r)
  <2>1. /\ more \in Seq(Requests) /\ Range(more) = Range(requests) \cup {r}
        /\ Dropped(more) = Dropped(requests) \cup IF r.op = "remove" THEN {r.id} ELSE {}
        /\ \A use : AskedFor(more, use) = AskedFor(requests, use) \cup IF r.use = use THEN {r.id} ELSE {}
        /\ Overtaken(more) \subseteq
               Overtaken(requests) \cup IF r.op = "remove" THEN Stored(requests) \cap {r.id} ELSE {}
    BY <1>1, <1>2, Appended
  <2>2. \A uses :
          OneFor(requests, uses) /\ (r.use \in uses => \A use \in uses : AskedFor(requests, use) = {})
          => OneFor(more, uses)
    BY <1>1, <1>2, Appended
  <2> HIDE DEF more
  <2>3. Dropped(more) = Dropped(requests) /\ Overtaken(more) \subseteq Overtaken(requests)
    BY <1>1, <2>1
  <2>4. ASSUME NEW use
        PROVE  AskedFor(more, use) = AskedFor(requests, use) \cup IF use = "key" THEN {key} ELSE {}
    <3>1. CASE use = "key"
      BY <1>1, <2>1, <3>1
    <3>2. CASE use # "key"
      <4>1. r.use # use
        BY <1>1, <3>2
      <4> QED
        BY <2>1, <3>2, <4>1
    <3> QED
      BY <3>1, <3>2
  <2>5. OneFor(requests, {"restore", "export"}) => OneFor(more, {"restore", "export"})
    <3>1. r.use \notin {"restore", "export"}
      BY <1>1
    <3> QED
      BY <2>2, <3>1
  <2>6. OneFor(requests, {"key"}) /\ AskedFor(requests, "key") = {} => OneFor(more, {"key"})
    BY <2>2
  <2> QED
    BY <1>2, <2>1, <2>3, <2>4, <2>5, <2>6 DEF more
<1>4. /\ AskedFor(requests', "key") = AskedFor(requests, "key") \cup {key}
      /\ AskedFor(requests', "restore") = AskedFor(requests, "restore")
      /\ AskedFor(requests', "export") = AskedFor(requests, "export")
  BY <1>3, ZenonT(60)
<1>5. Promised' = Promised /\ Restored' = Restored
  BY DEF Promised, Passwords, Restored
<1>6. Types'
  BY <1>3 DEF IInv, Types
<1>7. AllFit(requests')
  BY <1>1, <1>3 DEF IInv, AllFit
<1>8. OneByOne'
  BY <1>3, <1>4, <1>5 DEF IInv, OneByOne
<1>9. Given'
  BY <1>4 DEF IInv, Given
<1>10. Held(Promised', Restored', requests', secrets', history')
  BY <1>3, <1>4, <1>5 DEF IInv, Held
<1>11. OneKey(making', requests', keys', history'.crowded)
  <2>1. OneKey(making, requests, keys, history.crowded)
    BY DEF IInv
  <2>2. key \notin Range(keys)
    BY DEF IInv, Given
  <2> QED
    BY <1>3, <1>4, <2>1, <2>2 DEF OneKey
<1> QED
  BY <1>6, <1>7, <1>8, <1>9, <1>10, <1>11 DEF IInv

LEMMA KeyMadeStep ==
  ASSUME IInv, KeyMade
  PROVE  IInv'
<1>1. /\ making > 0 /\ making' = making - 1
      /\ StoreKey \/ UNCHANGED <<requests, unused>>
      /\ UNCHANGED <<hosts, keys, secrets, backup, file, history>>
  BY DEF KeyMade
<1>2. making \in Nat /\ history \in Histories /\ OneKey(making, requests, keys, history.crowded)
  BY DEF IInv, Types
<1>3. making' \in Nat /\ history' \in Histories
  BY <1>1, <1>2
<1>4. ~history'.crowded =>
        /\ ~history.crowded /\ making' = 0 /\ AskedFor(requests, "key") = {} /\ Len(keys) < MaxKeys
  BY <1>1, <1>2 DEF OneKey
<1>5. CASE StoreKey
  <2>1. PICK key \in KeyIds :
          Fresh(KeyIds, key) /\ unused' = unused \ {key} /\ requests' = Store(requests, key, "key")
    BY <1>5 DEF StoreKey
  <2>2. key \in unused
    BY <2>1, FreshIs
  <2> QED
    BY <1>1, <1>3, <1>4, <2>1, <2>2, StoreKeyStep
<1>6. CASE UNCHANGED <<requests, unused>>
  <2>1. Promised' = Promised /\ Restored' = Restored
    BY <1>1 DEF Promised, Passwords, Restored
  <2>2. Types' /\ AllFit(requests') /\ OneByOne' /\ Given'
    BY <1>1, <1>3, <1>6, <2>1 DEF IInv, Types, OneByOne, Given
  <2>3. Held(Promised', Restored', requests', secrets', history')
    BY <1>1, <1>6, <2>1 DEF IInv
  <2>4. OneKey(making', requests', keys', history'.crowded)
    BY <1>1, <1>2, <1>4, <1>6 DEF OneKey
  <2> QED
    BY <2>2, <2>3, <2>4 DEF IInv
<1> QED
  BY <1>1, <1>5, <1>6

LEMMA ImportEncryptedKeyStep ==
  ASSUME IInv, ImportEncryptedKey
  PROVE  IInv'
<1>1. /\ MayAddKey /\ StoreKey /\ history' = Crowds(1)
      /\ UNCHANGED <<hosts, keys, making, secrets, backup, file>>
  BY DEF ImportEncryptedKey
<1>2. PICK key \in KeyIds :
        Fresh(KeyIds, key) /\ unused' = unused \ {key} /\ requests' = Store(requests, key, "key")
  BY <1>1 DEF StoreKey
<1>3. key \in unused
  BY <1>2, FreshIs
<1>4. /\ history' \in Histories /\ history'.crossed = history.crossed /\ history'.left = history.left
      /\ ~history'.crowded => ~history.crowded /\ making = 0 /\ AskedFor(requests, "key") = {}
  BY <1>1, Crowding
<1>5. making' \in Nat
  BY <1>1 DEF IInv, Types
<1> QED
  BY <1>1, <1>2, <1>3, <1>4, <1>5, StoreKeyStep DEF MayAddKey

LEMMA RemoveKeyStep ==
  ASSUME IInv, RemoveKey
  PROVE  IInv'
<1>1. PICK key \in Range(keys) :
         /\ keys' = RemoveFirst(keys, key)
         /\ hosts' = Without(key)
         /\ requests' = Append(requests, Request("remove", key, "none"))
         /\ history' = [Crossed(history, requests, {key}) EXCEPT
                !.crossed = @ \cup ({key} \cap Range(keys'))]
  BY DEF RemoveKey
<1>2. UNCHANGED <<making, secrets, backup, file, unused>>
  BY DEF RemoveKey
<1> DEFINE r == Request("remove", key, "none")
<1>3. key \in KeyIds /\ key \in SecretIds
  BY KeysAre, SecretIdsAre
<1>4. r \in Requests /\ r.op = "remove" /\ r.use = "none" /\ r.id = key /\ Fits(r)
  BY <1>3 DEF Request, Requests, Fits
<1>5. requests \in Seq(Requests) /\ history \in Histories /\ keys \in Seq(KeyIds)
  BY DEF IInv, Types
<1>6. requests' = Append(requests, r)
  BY <1>1
<1> HIDE DEF r
<1>7. /\ requests' \in Seq(Requests) /\ Range(requests') = Range(requests) \cup {r}
      /\ Dropped(requests') = Dropped(requests) \cup {key}
      /\ \A use : use # "none" => AskedFor(requests', use) = AskedFor(requests, use)
      /\ Overtaken(requests') \subseteq Overtaken(requests) \cup (Stored(requests) \cap {key})
      /\ \A uses : "none" \notin uses /\ OneFor(requests, uses) => OneFor(requests', uses)
  <2> DEFINE more == Append(requests, r)
  <2>1. /\ more \in Seq(Requests) /\ Range(more) = Range(requests) \cup {r}
        /\ Dropped(more) = Dropped(requests) \cup IF r.op = "remove" THEN {r.id} ELSE {}
        /\ \A use : AskedFor(more, use) = AskedFor(requests, use) \cup IF r.use = use THEN {r.id} ELSE {}
        /\ Overtaken(more) \subseteq
               Overtaken(requests) \cup IF r.op = "remove" THEN Stored(requests) \cap {r.id} ELSE {}
    BY <1>4, <1>5, Appended
  <2>2. \A uses : OneFor(requests, uses) /\ "none" \notin uses => OneFor(more, uses)
    BY <1>4, <1>5, Appended
  <2> HIDE DEF more
  <2>3. /\ Dropped(more) = Dropped(requests) \cup {key}
        /\ Overtaken(more) \subseteq Overtaken(requests) \cup (Stored(requests) \cap {key})
    BY <1>4, <2>1
  <2>4. ASSUME NEW use, use # "none"
        PROVE  AskedFor(more, use) = AskedFor(requests, use)
    <3>1. r.use # use
      BY <1>4, <2>4
    <3> QED
      BY <2>1, <3>1
  <2> QED
    BY <1>6, <2>1, <2>2, <2>3, <2>4 DEF more
<1>8. /\ keys' \in Seq(KeyIds) /\ Len(keys') + 1 = Len(keys)
      /\ Range(keys') \subseteq Range(keys) /\ Range(keys) \subseteq Range(keys') \cup {key}
      /\ (\A i, j \in DOMAIN keys : keys[i] = keys[j] => i = j)
         => \A i, j \in DOMAIN keys' : keys'[i] = keys'[j] => i = j
  BY <1>1, <1>5, Removing, SMTT(60)
<1>9. /\ history' \in Histories /\ history'.left = history.left /\ history'.crowded = history.crowded
      /\ history.crossed \subseteq history'.crossed
      /\ Stored(requests) \cap {key} \subseteq history'.crossed
      /\ {key} \cap Range(keys') \subseteq history'.crossed
  <2> DEFINE noted == Crossed(history, requests, {key})
  <2>1. /\ noted \in Histories /\ noted.left = history.left /\ noted.crowded = history.crowded
        /\ history.crossed \subseteq noted.crossed /\ Stored(requests) \cap {key} \subseteq noted.crossed
    BY <1>3, <1>5, Noting
  <2>2. history' = [noted EXCEPT !.crossed = @ \cup ({key} \cap Range(keys'))]
    BY <1>1
  <2> HIDE DEF noted
  <2>3. /\ history'.crossed = noted.crossed \cup ({key} \cap Range(keys'))
        /\ history'.left = noted.left /\ history'.crowded = noted.crowded
        /\ history' \in Histories
    BY <1>3, <2>1, <2>2 DEF Histories
  <2> QED
    BY <2>1, <2>3
<1>10. /\ DOMAIN hosts' = DOMAIN hosts /\ hosts' \in HostLists
       /\ \A h \in DOMAIN hosts : hosts'[h].hasPassword = hosts[h].hasPassword
  <2>1. hosts \in [DOMAIN hosts -> Hosts] /\ DOMAIN hosts \subseteq HostIds
    BY HostListIs DEF IInv, Types
  <2>2. ASSUME NEW h \in DOMAIN hosts
        PROVE  hosts'[h] \in Hosts /\ hosts'[h].hasPassword = hosts[h].hasPassword
    <3>1. hosts'[h] = IF hosts[h].key = key THEN [hosts[h] EXCEPT !.key = None] ELSE hosts[h]
      BY <1>1 DEF Without
    <3> QED
      BY <2>1, <3>1 DEF Hosts
  <2>3. DOMAIN hosts' = DOMAIN hosts /\ hosts' \in [DOMAIN hosts' -> Hosts]
    BY <1>1, <2>2 DEF Without
  <2> QED
    BY <2>1, <2>2, <2>3, HostListIs
<1>11. Passwords' = Passwords /\ key \notin Passwords
  <2>1. Passwords' = Passwords
    BY <1>10 DEF Passwords
  <2>2. \A h \in DOMAIN hosts : Password(h) # key
    BY <1>3, HostOf, SecretIdsAre
  <2> QED
    BY <2>1, <2>2 DEF Passwords
<1>12. Restored' = Restored /\ key \notin Restored
  <2>1. Restored' = Restored
    BY <1>2 DEF Restored
  <2>2. CASE backup.phase = "storing"
    <3>1. backup.contents \in Contents
      BY <2>2 DEF IInv, Types, Backups, Idle
    <3>2. DOMAIN backup.contents.hosts \subseteq HostIds
      BY <3>1 DEF Contents
    <3>3. key \notin {Password(h) : h \in DOMAIN backup.contents.hosts}
      BY <1>3, <3>2, SecretIdsAre
    <3> QED
      BY <2>1, <3>3 DEF Restored, BackedUp
  <2>3. CASE backup.phase # "storing"
    BY <2>1, <2>3 DEF Restored
  <2> QED
    BY <2>2, <2>3
<1>13. Types'
  BY <1>2, <1>7, <1>8, <1>9, <1>10 DEF IInv, Types
<1>14. AllFit(requests')
  BY <1>4, <1>7 DEF IInv, AllFit
<1>15. OneByOne'
  BY <1>2, <1>7, <1>12 DEF IInv, OneByOne
<1>16. Given'
  BY <1>2, <1>7, <1>8, <1>10 DEF IInv, Given
<1>17. Held(Promised', Restored', requests', secrets', history')
  <2>1. Held(Promised, Restored, requests, secrets, history)
    BY DEF IInv
  <2>2. Promised' \subseteq Promised /\ Promised \subseteq Promised' \cup {key}
        /\ Promised' \cap {key} \subseteq history'.crossed
    BY <1>8, <1>9, <1>11 DEF Promised
  <2>3. AskedFor(requests', "restore") = AskedFor(requests, "restore")
    BY <1>7
  <2> QED
    BY <1>2, <1>7, <1>9, <1>12, <2>1, <2>2, <2>3 DEF Held
<1>18. OneKey(making', requests', keys', history'.crowded)
  <2>1. OneKey(making, requests, keys, history.crowded)
    BY DEF IInv
  <2>2. AskedFor(requests', "key") = AskedFor(requests, "key")
    BY <1>7
  <2>3. OneFor(requests, {"key"}) => OneFor(requests', {"key"})
    BY <1>7
  <2>4. Len(keys) \in Nat /\ Len(keys') \in Nat /\ MaxKeys \in Nat
    BY <1>5, <1>8, SecretsAssumption, LenProperties
  <2>5. /\ Len(keys) < MaxKeys => Len(keys') < MaxKeys
        /\ Len(keys) <= MaxKeys => Len(keys') <= MaxKeys
    BY <1>8, <2>4
  <2>6. AskedFor(requests', "key") \cap Range(keys') \subseteq AskedFor(requests, "key") \cap Range(keys)
    BY <1>8, <2>2
  <2> QED
    BY <1>2, <1>8, <1>9, <2>1, <2>2, <2>3, <2>5, <2>6 DEF OneKey
<1> QED
  BY <1>13, <1>14, <1>15, <1>16, <1>17, <1>18 DEF IInv

---------------------------------------------------------------------------
(* Steps of the backups *)

\* What the types say of a backup under way.
LEMMA BackupIs ==
  ASSUME Types, backup.phase # "idle"
  PROVE  /\ backup \in Backups /\ backup # Idle
         /\ backup.contents \in Contents /\ backup.rest \in SUBSET SecretIds
BY DEF Types, Backups, Idle

LEMMA ContentsAre ==
  ASSUME NEW contents \in Contents
  PROVE  /\ contents.hosts \in HostLists /\ contents.keys \in Seq(KeyIds)
         /\ contents.secrets \in SUBSET SecretIds /\ BackedUp(contents) \subseteq SecretIds
         /\ DOMAIN contents.hosts \subseteq HostIds
BY DEF Contents, HostLists, BackedUp

\* A backup that neither fetches nor stores asks for nothing.
LEMMA AsksNothing ==
  ASSUME OneByOne, backup.phase \notin {"fetching", "storing"}
  PROVE  Restored = {} /\ AskedFor(requests, "restore") = {} /\ AskedFor(requests, "export") = {}
BY DEF OneByOne, Restored

\* An export goes on with what there is to fetch.
LEMMA FetchStep ==
  ASSUME Types, Given, NEW queue \in Seq(Requests), AllFit(queue),
         AskedFor(queue, "restore") = {}, AskedFor(queue, "export") = {},
         OneFor(queue, {"restore", "export"}),
         AskedFor(queue, "key") \subseteq AskedFor(requests, "key"),
         Held(Promised, {}, queue, secrets, history), OneKey(making, queue, keys, history.crowded),
         NEW rest \in SUBSET SecretIds, NEW contents \in Contents, GivenBy(contents) \cap unused = {},
         requests' = FetchNext(queue, rest), Fetching(contents, rest),
         UNCHANGED <<hosts, keys, making, secrets, file, unused, history>>
  PROVE  IInv'
<1>1. backup' = [phase |-> IF rest = {} THEN "sealing" ELSE "fetching", contents |-> contents, rest |-> rest]
  BY DEF Fetching
<1>2. /\ backup' \in Backups /\ backup'.contents = contents /\ backup'.phase \in {"sealing", "fetching"}
      /\ rest # {} => backup'.phase = "fetching"
  BY <1>1 DEF Backups
<1>3. Restored' = {} /\ Promised' = Promised
  BY <1>2 DEF Restored, Promised, Passwords
<1>4. /\ requests' \in Seq(Requests) /\ AllFit(requests')
      /\ AskedFor(requests', "restore") = {} /\ AskedFor(requests', "key") = AskedFor(queue, "key")
      /\ AskedFor(requests', "export") # {} => rest # {}
      /\ Dropped(requests') = Dropped(queue) /\ Overtaken(requests') \subseteq Overtaken(queue)
      /\ OneFor(requests', {"restore", "export"})
      /\ OneFor(queue, {"key"}) => OneFor(requests', {"key"})
  <2>1. CASE rest = {}
    BY <2>1 DEF FetchNext
  <2>2. CASE rest # {}
    <3> DEFINE id == CHOOSE x \in rest : TRUE
               r == Request("fetch", id, "export")
               more == Append(queue, r)
    <3>1. id \in rest
      BY <2>2
    <3>2. r \in Requests /\ r.op = "fetch" /\ r.use = "export" /\ Fits(r)
      <4> HIDE DEF id
      <4> QED
        BY <3>1 DEF Request, Requests, Fits
    <3>3. requests' = more
      BY <2>2 DEF FetchNext
    <3> HIDE DEF r
    <3>4. /\ more \in Seq(Requests) /\ Range(more) = Range(queue) \cup {r}
          /\ Dropped(more) = Dropped(queue) \cup IF r.op = "remove" THEN {r.id} ELSE {}
          /\ \A use : AskedFor(more, use) = AskedFor(queue, use) \cup IF r.use = use THEN {r.id} ELSE {}
          /\ Overtaken(more) \subseteq
                 Overtaken(queue) \cup IF r.op = "remove" THEN Stored(queue) \cap {r.id} ELSE {}
      BY <3>2, Appended
    <3>5. \A uses :
            OneFor(queue, uses) /\ (r.use \in uses => \A use \in uses : AskedFor(queue, use) = {})
            => OneFor(more, uses)
      BY <3>2, Appended
    <3> HIDE DEF more
    <3>6. AllFit(more)
      BY <3>2, <3>4 DEF AllFit
    <3>7. AskedFor(more, "restore") = {} /\ AskedFor(more, "key") = AskedFor(queue, "key")
      BY <3>2, <3>4
    <3>8. Dropped(more) = Dropped(queue) /\ Overtaken(more) \subseteq Overtaken(queue)
      BY <3>2, <3>4
    <3>9. OneFor(more, {"restore", "export"})
      BY <3>5
    <3>10. OneFor(queue, {"key"}) => OneFor(more, {"key"})
      <4>1. r.use \notin {"key"}
        BY <3>2
      <4> QED
        BY <3>5, <4>1
    <3> QED
      BY <2>2, <3>3, <3>4, <3>6, <3>7, <3>8, <3>9, <3>10
  <2> QED
    BY <2>1, <2>2
<1>5. Types'
  BY <1>2, <1>4 DEF Types
<1>6. OneByOne'
  BY <1>2, <1>4 DEF OneByOne
<1>7. Given'
  BY <1>2, <1>4 DEF Given
<1>8. Held(Promised', Restored', requests', secrets', history')
  BY <1>3, <1>4 DEF Held
<1>9. OneKey(making', requests', keys', history'.crowded)
  BY <1>4 DEF OneKey
<1> QED
  BY <1>4, <1>5, <1>6, <1>7, <1>8, <1>9 DEF IInv

LEMMA ExportBackupStep ==
  ASSUME IInv, ExportBackup
  PROVE  IInv'
<1> DEFINE rest == Range(keys) \cup {Password(h) : h \in {g \in DOMAIN hosts : hosts[g].hasPassword}}
           contents == [hosts |-> hosts, keys |-> keys, secrets |-> {}]
<1>1. /\ backup = Idle /\ Fetching(contents, rest) /\ requests' = FetchNext(requests, rest)
      /\ UNCHANGED <<hosts, keys, making, secrets, file, unused, history>>
  BY DEF ExportBackup, NotBusy
<1>2. Types /\ Given /\ OneByOne /\ AllFit(requests) /\ requests \in Seq(Requests)
  BY DEF IInv, Types
<1>3. Restored = {} /\ AskedFor(requests, "restore") = {} /\ AskedFor(requests, "export") = {}
  BY <1>1, <1>2, AsksNothing DEF Idle
<1>4. Held(Promised, {}, requests, secrets, history) /\ OneKey(making, requests, keys, history.crowded)
  BY <1>3 DEF IInv
<1>5. rest \in SUBSET SecretIds
  BY HostOf, KeysAre, SecretIdsAre
<1>6. contents \in Contents
  BY <1>2 DEF Types, Contents, HostLists
<1>7. GivenBy(contents) \cap unused = {}
  BY <1>2 DEF Given, GivenBy
<1>8. OneFor(requests, {"restore", "export"})
  BY <1>2 DEF OneByOne
<1> HIDE DEF rest, contents
<1> QED
  BY <1>1, <1>2, <1>3, <1>4, <1>5, <1>6, <1>7, <1>8, FetchStep

LEMMA SealedStep ==
  ASSUME IInv, Sealed
  PROVE  IInv'
<1>1. /\ backup.phase = "sealing" /\ file' \in {file, backup.contents} /\ backup' = Idle
      /\ UNCHANGED <<hosts, keys, making, requests, secrets, unused, history>>
  BY DEF Sealed
<1>2. Types /\ Given /\ OneByOne
  BY DEF IInv
<1>3. backup # Idle /\ backup.contents \in Contents
  BY <1>1, <1>2, BackupIs
<1>4. Restored = {} /\ AskedFor(requests, "restore") = {} /\ AskedFor(requests, "export") = {}
  BY <1>1, <1>2, AsksNothing
<1>5. Restored' = {} /\ Promised' = Promised
  BY <1>1 DEF Restored, Promised, Passwords, Idle
<1>6. Types'
  BY <1>1, <1>2, <1>3 DEF Types
<1>7. OneByOne'
  BY <1>1, <1>2, <1>4 DEF OneByOne, Idle
<1>8. Given'
  BY <1>1, <1>2, <1>3 DEF Given
<1>9. Held(Promised', Restored', requests', secrets', history')
  BY <1>1, <1>4, <1>5 DEF IInv
<1> QED
  BY <1>1, <1>6, <1>7, <1>8, <1>9 DEF IInv

LEMMA ImportBackupStep ==
  ASSUME IInv, ImportBackup
  PROVE  IInv'
<1>1. /\ backup = Idle /\ file # None /\ backup' = [phase |-> "opening", contents |-> file, rest |-> {}]
      /\ UNCHANGED <<hosts, keys, making, requests, secrets, file, unused, history>>
  BY DEF ImportBackup, NotBusy
<1>2. Types /\ Given /\ OneByOne
  BY DEF IInv
<1>3. backup' \in Backups /\ backup'.phase = "opening" /\ backup'.contents = file
  BY <1>1, <1>2 DEF Types, Backups
<1>4. Restored = {} /\ AskedFor(requests, "restore") = {} /\ AskedFor(requests, "export") = {}
  BY <1>1, <1>2, AsksNothing DEF Idle
<1>5. Restored' = {} /\ Promised' = Promised
  BY <1>1, <1>3 DEF Restored, Promised, Passwords
<1>6. Types'
  BY <1>1, <1>2, <1>3 DEF Types
<1>7. OneByOne'
  BY <1>1, <1>2, <1>3, <1>4 DEF OneByOne
<1>8. Given'
  BY <1>1, <1>2, <1>3 DEF Given
<1>9. Held(Promised', Restored', requests', secrets', history')
  BY <1>1, <1>4, <1>5 DEF IInv
<1> QED
  BY <1>1, <1>6, <1>7, <1>8, <1>9 DEF IInv

\* A restore goes on with the passwords to store, and in the end with the hosts.
LEMMA StoreNextStep ==
  ASSUME Types, Given, NEW contents \in Contents, contents = backup.contents, backup # Idle,
         NEW queue \in Seq(Requests), AllFit(queue),
         AskedFor(queue, "restore") = {}, AskedFor(queue, "export") = {},
         OneFor(queue, {"restore", "export"}), AskedFor(queue, "key") \cap unused = {},
         NEW rest \in SUBSET BackedUp(contents), NEW past \in Histories, secrets' \in SUBSET SecretIds,
         Held(Promised, BackedUp(contents) \ rest, queue, secrets', past),
         OneKey(making, queue, keys, past.crowded),
         StoreNext(queue, rest, contents, past),
         UNCHANGED <<keys, making, file, unused>>
  PROVE  IInv'
<1>1. CASE rest # {}
  <2> DEFINE id == CHOOSE x \in rest : TRUE
             r == Request("create", id, "restore")
             more == Append(queue, r)
  <2>1. /\ requests' = more /\ history' = past /\ hosts' = hosts
        /\ backup' = [phase |-> "storing", contents |-> contents, rest |-> rest \ {id}]
    BY <1>1 DEF StoreNext, Store
  <2>2. id \in rest
    BY <1>1
  <2> HIDE DEF id
  <2>3. id \in SecretIds /\ id \in {Password(h) : h \in HostIds}
    BY <2>2, ContentsAre DEF BackedUp
  <2>4. r \in Requests /\ r.op = "create" /\ r.use = "restore" /\ r.id = id /\ Fits(r)
    BY <2>3 DEF Request, Requests, Fits
  <2> HIDE DEF r
  <2>5. /\ more \in Seq(Requests) /\ Range(more) = Range(queue) \cup {r}
        /\ Dropped(more) = Dropped(queue) \cup IF r.op = "remove" THEN {r.id} ELSE {}
        /\ \A use : AskedFor(more, use) = AskedFor(queue, use) \cup IF r.use = use THEN {r.id} ELSE {}
        /\ Overtaken(more) \subseteq
               Overtaken(queue) \cup IF r.op = "remove" THEN Stored(queue) \cap {r.id} ELSE {}
    BY <2>4, Appended
  <2>6. \A uses :
          OneFor(queue, uses) /\ (r.use \in uses => \A use \in uses : AskedFor(queue, use) = {})
          => OneFor(more, uses)
    BY <2>4, Appended
  <2> HIDE DEF more
  <2>7. AllFit(more)
    BY <2>4, <2>5 DEF AllFit
  <2>8. /\ AskedFor(more, "restore") = {id} /\ AskedFor(more, "export") = {}
        /\ AskedFor(more, "key") = AskedFor(queue, "key")
    BY <2>4, <2>5
  <2>9. Dropped(more) = Dropped(queue) /\ Overtaken(more) \subseteq Overtaken(queue)
    BY <2>4, <2>5
  <2>10. OneFor(more, {"restore", "export"})
    BY <2>6
  <2>11. OneFor(queue, {"key"}) => OneFor(more, {"key"})
    <3>1. r.use \notin {"key"}
      BY <2>4
    <3> QED
      BY <2>6, <3>1
  <2>12. /\ backup' \in Backups /\ backup'.phase = "storing" /\ backup'.contents = contents
         /\ backup'.rest = rest \ {id}
    BY <2>1, ContentsAre DEF Backups
  <2>13. Promised' = Promised /\ Restored' = (BackedUp(contents) \ rest) \cup {id}
    <3>1. Promised' = Promised
      BY <2>1 DEF Promised, Passwords
    <3>2. Restored' = BackedUp(contents) \ (rest \ {id})
      BY <2>12 DEF Restored, BackedUp
    <3> QED
      BY <2>2, <3>1, <3>2
  <2>14. Types'
    BY <2>1, <2>5, <2>12 DEF Types
  <2>15. OneByOne'
    <3>1. (backup.phase = "storing" => backup.rest \subseteq BackedUp(backup.contents))'
      BY <2>12 DEF BackedUp
    <3> QED
      BY <2>1, <2>8, <2>10, <2>13, <3>1 DEF OneByOne
  <2>16. Given'
    BY <2>1, <2>8, <2>12 DEF Given
  <2>17. Held(Promised', Restored', requests', secrets', history')
    BY <2>1, <2>8, <2>9, <2>13 DEF Held
  <2>18. OneKey(making', requests', keys', history'.crowded)
    BY <2>1, <2>8, <2>11 DEF OneKey
  <2> QED
    BY <2>1, <2>7, <2>14, <2>15, <2>16, <2>17, <2>18 DEF IInv
<1>2. CASE rest = {}
  <2> DEFINE given == DOMAIN contents.hosts
             lessened == {g \in given \cap DOMAIN hosts : contents.hosts[g].key # None /\ hosts[g].hasPassword}
             cleared == {Password(h) : h \in lessened}
             more == Drop(queue, cleared)
             noted == Crossed(past, queue, cleared)
             without == {g \in given : ~ (g \in DOMAIN hosts' /\ hosts'[g].hasPassword)}
             lost == {Password(h) : h \in without}
  <2>1. PICK new \in SUBSET (given \ DOMAIN hosts) :
          /\ hosts' = [h \in DOMAIN hosts \cup new |->
                 IF h \notin given THEN hosts[h]
                 ELSE [key |-> contents.hosts[h].key,
                       hasPassword |-> /\ contents.hosts[h].key = None
                                       /\ Password(h) \in contents.secrets]]
          /\ requests' = more
          /\ backup' = Idle
          /\ history' = [noted EXCEPT !.left = @ \cup lost]
    BY <1>2 DEF StoreNext, RestoreHosts
  <2>2. /\ hosts \in [DOMAIN hosts -> Hosts] /\ DOMAIN hosts \subseteq HostIds
        /\ contents.hosts \in [given -> Hosts] /\ given \subseteq HostIds
    BY HostListIs, ContentsAre DEF Types
  <2>3. cleared \in SUBSET SecretIds /\ cleared \cap KeyIds = {}
    BY <2>2, SecretIdsAre
  <2>4. \A h \in HostIds : Password(h) \in cleared => h \in lessened
    BY <2>2, SecretIdsAre
  <2>5. /\ DOMAIN hosts' = DOMAIN hosts \cup new
        /\ \A h \in DOMAIN hosts' : h \notin given => h \in DOMAIN hosts /\ hosts'[h] = hosts[h]
        /\ \A h \in DOMAIN hosts' : h \in given =>
             hosts'[h] = [key |-> contents.hosts[h].key,
                          hasPassword |-> /\ contents.hosts[h].key = None
                                          /\ Password(h) \in contents.secrets]
    BY <2>1
  <2>6. hosts' \in HostLists
    <3>1. ASSUME NEW h \in DOMAIN hosts'
          PROVE  hosts'[h] \in Hosts
      <4>1. CASE h \in given
        <5> DEFINE flag == contents.hosts[h].key = None /\ Password(h) \in contents.secrets
        <5>1. hosts'[h] = [key |-> contents.hosts[h].key, hasPassword |-> flag]
          BY <2>5, <4>1
        <5>2. flag \in BOOLEAN /\ contents.hosts[h].key \in KeyIds \cup {None}
          BY <2>2, <4>1 DEF Hosts
        <5> HIDE DEF flag
        <5> QED
          BY <5>1, <5>2 DEF Hosts
      <4>2. CASE h \notin given
        BY <2>2, <2>5, <4>2
      <4> QED
        BY <4>1, <4>2
    <3>2. hosts' \in [DOMAIN hosts' -> Hosts]
      BY <2>1, <3>1
    <3>3. DOMAIN hosts' \subseteq HostIds
      BY <2>2, <2>5
    <3> QED
      BY <3>2, <3>3, HostListIs
  <2>7. \A h \in DOMAIN hosts' : h \in given =>
          (hosts'[h].hasPassword <=> contents.hosts[h].key = None /\ Password(h) \in contents.secrets)
    <3>1. ASSUME NEW h \in DOMAIN hosts', h \in given
          PROVE  hosts'[h].hasPassword <=> contents.hosts[h].key = None /\ Password(h) \in contents.secrets
      <4> DEFINE flag == contents.hosts[h].key = None /\ Password(h) \in contents.secrets
      <4>1. hosts'[h] = [key |-> contents.hosts[h].key, hasPassword |-> flag]
        BY <2>5, <3>1
      <4>2. hosts'[h].hasPassword = flag
        <5> HIDE DEF flag
        <5> QED
          BY <4>1
      <4> QED
        BY <4>2
    <3> QED
      BY <3>1
  <2>8. Passwords' \subseteq Passwords \cup BackedUp(contents)
    <3>1. ASSUME NEW h \in DOMAIN hosts', hosts'[h].hasPassword
          PROVE  Password(h) \in Passwords \cup BackedUp(contents)
      <4>1. CASE h \in given
        BY <2>7, <3>1, <4>1 DEF BackedUp
      <4>2. CASE h \notin given
        BY <2>5, <3>1, <4>2 DEF Passwords
      <4> QED
        BY <4>1, <4>2
    <3> QED
      BY <3>1 DEF Passwords
  <2>9. Passwords' \cap cleared = {}
    <3>1. ASSUME NEW h \in DOMAIN hosts', hosts'[h].hasPassword, Password(h) \in cleared
          PROVE  FALSE
      <4>1. h \in lessened
        BY <2>2, <2>4, <2>5, <3>1
      <4>2. h \in given /\ contents.hosts[h].key # None
        BY <4>1
      <4> QED
        BY <2>7, <3>1, <4>2
    <3> HIDE DEF cleared
    <3> QED
      BY <3>1 DEF Passwords
  <2>10. Passwords \subseteq Passwords' \cup lost
    <3>1. ASSUME NEW h \in DOMAIN hosts, hosts[h].hasPassword
          PROVE  Password(h) \in Passwords' \cup lost
      <4>1. CASE h \in given
        <5>1. h \in DOMAIN hosts' /\ (h \in without \/ hosts'[h].hasPassword)
          BY <2>5, <4>1
        <5> QED
          BY <5>1 DEF Passwords
      <4>2. CASE h \notin given
        <5>1. h \in DOMAIN hosts' /\ hosts'[h].hasPassword
          BY <2>5, <3>1, <4>2
        <5> QED
          BY <5>1 DEF Passwords
      <4> QED
        BY <4>1, <4>2
    <3> HIDE DEF lost
    <3> QED
      BY <3>1 DEF Passwords
  <2>11. BackedUp(contents) \subseteq Passwords' \cup lost
    <3>1. ASSUME NEW h \in given
          PROVE  Password(h) \in Passwords' \cup lost
      <4>1. h \in without \/ (h \in DOMAIN hosts' /\ hosts'[h].hasPassword)
        OBVIOUS
      <4> QED
        BY <4>1 DEF Passwords
    <3> HIDE DEF lost
    <3> QED
      BY <3>1 DEF BackedUp
  <2>12. lost \subseteq SecretIds
    BY <2>2, SecretIdsAre
  <2> HIDE DEF cleared, lost
  <2>13. Range(keys') = Range(keys) /\ Range(keys) \subseteq KeyIds
    BY RangeOfSeq DEF Types
  <2>14. /\ Promised' \subseteq Promised \cup BackedUp(contents) /\ Promised' \cap cleared = {}
         /\ Promised \subseteq Promised' \cup lost
         /\ BackedUp(contents) \subseteq Promised' \cup lost
    BY <2>3, <2>8, <2>9, <2>10, <2>11, <2>13 DEF Promised
  <2>15. /\ noted \in Histories /\ noted.left = past.left /\ noted.crowded = past.crowded
         /\ past.crossed \subseteq noted.crossed /\ Stored(queue) \cap cleared \subseteq noted.crossed
    BY <2>3, Noting
  <2>16. /\ more \in Seq(Requests)
         /\ \A r \in Range(more) : r \in Range(queue) \/ Fits(r)
         /\ Dropped(more) = Dropped(queue) \cup cleared
         /\ \A use : use # "none" => AskedFor(more, use) = AskedFor(queue, use)
         /\ Overtaken(more) \subseteq Overtaken(queue) \cup (Stored(queue) \cap cleared)
         /\ OneFor(more, {"restore", "export"})
    BY <2>3, Dropping
  <2>17. OneKey(making, more, keys, past.crowded)
    BY <2>3, DropKeeps
  <2> HIDE DEF noted, more
  <2>18. /\ history' \in Histories /\ history'.left = noted.left \cup lost
         /\ history'.crossed = noted.crossed /\ history'.crowded = noted.crowded
    BY <2>1, <2>12, <2>15 DEF Histories
  <2>19. Types'
    BY <2>1, <2>6, <2>16, <2>18 DEF Types
  <2>20. AllFit(requests')
    BY <2>1, <2>16 DEF AllFit
  <2>21. Restored' = {}
    BY <2>1 DEF Restored, Idle
  <2>22. OneByOne'
    BY <2>1, <2>16, <2>21 DEF OneByOne, Idle
  <2>23. Given'
    <3>1. DOMAIN hosts' \cap unused' = {}
      <4>1. DOMAIN hosts \cap unused = {} /\ GivenBy(backup.contents) \cap unused = {}
        BY DEF Given
      <4> QED
        BY <2>5, <4>1 DEF GivenBy
    <3>2. AskedFor(requests', "key") = AskedFor(queue, "key")
      BY <2>1, <2>16
    <3> QED
      BY <2>1, <3>1, <3>2 DEF Given
  <2>24. Held(Promised', Restored', requests', secrets', history')
    BY <1>2, <2>1, <2>14, <2>15, <2>16, <2>18, <2>21 DEF Held
  <2>25. OneKey(making', requests', keys', history'.crowded)
    BY <2>1, <2>15, <2>17, <2>18
  <2> QED
    BY <2>19, <2>20, <2>22, <2>23, <2>24, <2>25 DEF IInv
<1> QED
  BY <1>1, <1>2

LEMMA OpenedStep ==
  ASSUME IInv, Opened
  PROVE  IInv'
<1>1. backup.phase = "opening" /\ UNCHANGED <<keys, making, secrets, file, unused>>
  BY DEF Opened
<1>2. Types /\ Given /\ OneByOne /\ requests \in Seq(Requests) /\ AllFit(requests)
  BY DEF IInv, Types
<1>3. backup # Idle /\ backup.contents \in Contents
  BY <1>1, <1>2, BackupIs
<1>4. Restored = {} /\ AskedFor(requests, "restore") = {} /\ AskedFor(requests, "export") = {}
  BY <1>1, <1>2, AsksNothing
<1>5. CASE backup' = Idle /\ UNCHANGED <<hosts, requests, history>>
  <2>1. Restored' = {} /\ Promised' = Promised
    BY <1>1, <1>5 DEF Restored, Promised, Passwords, Idle
  <2>2. Types' /\ Given'
    BY <1>1, <1>2, <1>5 DEF Types, Given
  <2>3. OneByOne'
    BY <1>2, <1>4, <1>5 DEF OneByOne, Idle
  <2>4. Held(Promised', Restored', requests', secrets', history')
    BY <1>1, <1>4, <1>5, <2>1 DEF IInv
  <2>5. OneKey(making', requests', keys', history'.crowded)
    BY <1>1, <1>5 DEF IInv
  <2> QED
    BY <1>2, <1>5, <2>2, <2>3, <2>4, <2>5 DEF IInv
<1>6. CASE \E restored \in IF MayAddKey THEN InOrder(backup.contents.keys, Lacking) ELSE {<<>>} :
          LET contents == backup.contents
          IN  StoreNext(requests \o [i \in DOMAIN restored |-> Request("create", restored[i], "key")],
                        {Password(h) : h \in DOMAIN contents.hosts} \cap contents.secrets,
                        contents, Crowds(Len(restored)))
  <2> DEFINE contents == backup.contents
             rest == BackedUp(contents)
  <2>1. PICK restored \in IF MayAddKey THEN InOrder(contents.keys, Lacking) ELSE {<<>>} :
          StoreNext(requests \o [i \in DOMAIN restored |-> Request("create", restored[i], "key")],
                    rest, contents, Crowds(Len(restored)))
    BY <1>6 DEF BackedUp
  <2> DEFINE more == [i \in DOMAIN restored |-> Request("create", restored[i], "key")]
             queue == requests \o more
             past == Crowds(Len(restored))
  <2>2. /\ restored \in Seq(KeyIds)
        /\ \A i \in DOMAIN restored : restored[i] \in Range(contents.keys) \ Range(keys)
        /\ restored # <<>> => MayAddKey
    <3>1. CASE MayAddKey
      <4>1. restored \in InOrder(contents.keys, Lacking) /\ contents.keys \in Seq(KeyIds)
        BY <1>3, <2>1, <3>1, ContentsAre
      <4>2. Lacking \in SUBSET DOMAIN contents.keys
        BY DEF Lacking
      <4>3. restored \in Seq(KeyIds) /\ \A i \in DOMAIN restored : \E k \in Lacking : restored[i] = contents.keys[k]
        BY <4>1, <4>2, Selecting
      <4>4. \A k \in Lacking : contents.keys[k] \in Range(contents.keys) \ Range(keys)
        BY DEF Lacking, Range
      <4> QED
        BY <3>1, <4>3, <4>4
    <3>2. CASE ~MayAddKey
      <4>1. restored = <<>>
        BY <2>1, <3>2
      <4> QED
        BY <4>1
    <3> QED
      BY <3>1, <3>2
  <2>3. Len(restored) \in Nat /\ DOMAIN restored = 1..Len(restored) /\ \A i \in DOMAIN restored : restored[i] \in KeyIds
    BY <2>2
  <2>4. /\ \A i \in DOMAIN restored : more[i] \in Requests /\ more[i].op = "create" /\ more[i].use = "key"
                                     /\ more[i].id = restored[i] /\ Fits(more[i])
        /\ DOMAIN more = 1..Len(restored)
    BY <2>3, SecretIdsAre DEF Request, Requests, Fits
  <2>5. more \in Seq(Requests)
    BY <2>3, <2>4
  <2> HIDE DEF more
  <2>6. \A r \in Range(more) :
          r.op = "create" /\ r.use = "key" /\ Fits(r) /\ r.id \in Range(contents.keys) \ Range(keys)
    BY <2>2, <2>3, <2>4 DEF Range
  <2>7. /\ Dropped(more) = {} /\ Overtaken(more) = {}
        /\ \A use : use # "key" => AskedFor(more, use) = {}
        /\ AskedFor(more, "key") \subseteq Range(contents.keys) \ Range(keys)
        /\ OneFor(more, {"restore", "export"})
    <3>1. \A i \in DOMAIN more : more[i].op = "create" /\ more[i].use = "key"
      BY <2>3, <2>4
    <3>2. Overtaken(more) = {} /\ OneFor(more, {"restore", "export"})
      BY <3>1 DEF Overtaken, OneFor
    <3> QED
      BY <2>6, <3>2 DEF Dropped, AskedFor
  <2>8. /\ queue \in Seq(Requests)
        /\ Range(queue) = Range(requests) \cup Range(more)
        /\ Dropped(queue) = Dropped(requests) \cup Dropped(more)
        /\ \A use : AskedFor(queue, use) = AskedFor(requests, use) \cup AskedFor(more, use)
        /\ Overtaken(queue) \subseteq
               Overtaken(requests) \cup Overtaken(more) \cup (Stored(requests) \cap Dropped(more))
    BY <1>2, <2>5, Joined
  <2>9. OneFor(queue, {"restore", "export"})
    <3>1. OneFor(requests, {"restore", "export"})
      BY <1>2 DEF OneByOne
    <3>2. \A use \in {"restore", "export"} : AskedFor(more, use) = {}
      BY <2>7
    <3> QED
      BY <1>2, <2>5, <2>7, <3>1, <3>2, Joined
  <2>10. ASSUME OneFor(requests, {"key"}), AskedFor(requests, "key") = {} \/ Len(restored) = 0, Len(restored) <= 1
         PROVE  OneFor(queue, {"key"})
    <3>1. OneFor(more, {"key"})
      BY <2>3, <2>4, <2>10 DEF OneFor
    <3>2. Len(restored) = 0 => AskedFor(more, "key") = {}
      BY <2>3, <2>4 DEF AskedFor, Range
    <3> QED
      BY <1>2, <2>5, <2>10, <3>1, <3>2, Joined
  <2>11. /\ past \in Histories /\ past.crossed = history.crossed /\ past.left = history.left
         /\ ~past.crowded =>
              /\ ~history.crowded /\ Len(restored) \in {0, 1}
              /\ Len(restored) = 1 => making = 0 /\ AskedFor(requests, "key") = {}
    BY <2>3, Crowding
  <2> HIDE DEF past
  <2>12. /\ AskedFor(queue, "restore") = {} /\ AskedFor(queue, "export") = {}
         /\ AskedFor(queue, "key") \cap unused = {}
    <3>1. AskedFor(requests, "key") \cap unused = {} /\ Range(contents.keys) \cap unused = {}
      BY <1>2, <1>3 DEF Given, GivenBy
    <3> QED
      BY <1>4, <2>7, <2>8, <3>1
  <2>13. AllFit(queue)
    BY <1>2, <2>6, <2>8 DEF AllFit
  <2>14. Held(Promised, rest \ rest, queue, secrets', past)
    <3>1. Held(Promised, {}, requests, secrets, history)
      BY <1>4 DEF IInv
    <3> QED
      BY <1>1, <2>7, <2>8, <2>11, <3>1 DEF Held
  <2>15. OneKey(making, queue, keys, past.crowded)
    <3>1. OneKey(making, requests, keys, history.crowded)
      BY DEF IInv
    <3>2. SUFFICES ASSUME ~past.crowded
                   PROVE  OneKey(making, queue, keys, FALSE)
      BY DEF OneKey
    <3>3. ~history.crowded
      BY <2>11, <3>2
    <3>4. CASE Len(restored) = 0
      <4>1. AskedFor(more, "key") = {}
        BY <2>3, <2>4, <3>4 DEF AskedFor, Range
      <4>2. AskedFor(queue, "key") = AskedFor(requests, "key")
        BY <2>8, <4>1
      <4>3. OneFor(requests, {"key"}) => OneFor(queue, {"key"})
        BY <2>10, <3>4
      <4> QED
        BY <3>1, <3>3, <4>2, <4>3 DEF OneKey
    <3>5. CASE Len(restored) = 1
      <4>1. making = 0 /\ AskedFor(requests, "key") = {} /\ MayAddKey
        BY <2>2, <2>11, <3>2, <3>5
      <4>2. AskedFor(queue, "key") \cap Range(keys) = {}
        BY <2>7, <2>8, <4>1
      <4>3. OneFor(requests, {"key"}) => OneFor(queue, {"key"})
        BY <2>10, <3>5, <4>1
      <4> QED
        BY <3>1, <3>3, <4>1, <4>2, <4>3 DEF OneKey, MayAddKey
    <3> QED
      BY <2>11, <3>2, <3>4, <3>5
  <2>16. secrets' \in SUBSET SecretIds
    BY <1>1, <1>2 DEF Types
  <2>17. StoreNext(queue, rest, contents, past)
    BY <2>1 DEF past, more
  <2> HIDE DEF queue, rest, contents
  <2>18. rest \in SUBSET BackedUp(contents) /\ contents \in Contents /\ contents = backup.contents
         /\ BackedUp(contents) \ rest = rest \ rest
    BY <1>3 DEF rest, contents
  <2> QED
    BY <1>1, <1>2, <1>3, <2>8, <2>9, <2>11, <2>12, <2>13, <2>14, <2>15, <2>16, <2>17, <2>18, StoreNextStep
<1> QED
  BY <1>5, <1>6 DEF Opened

---------------------------------------------------------------------------
(* Steps of the answers *)

\* What holds of the rest of the queue when a store is answered.
LEMMA StoreAnswered ==
  ASSUME IInv, requests # <<>>, Answered.op \in {"create", "store"}, NEW ok \in BOOLEAN,
         secrets' = secrets \cup IF ok THEN {Answered.id} ELSE {}
  PROVE  LET id == Answered.id
             tail == Tail(requests)
         IN  /\ Answered \in Requests /\ Fits(Answered) /\ id \in SecretIds
             /\ tail \in Seq(Requests) /\ AllFit(tail)
             /\ \A use : AskedFor(requests, use) = AskedFor(tail, use) \cup IF Answered.use = use THEN {id} ELSE {}
             /\ \A uses : OneFor(requests, uses) =>
                  /\ OneFor(tail, uses)
                  /\ Answered.use \in uses => \A use \in uses : AskedFor(tail, use) = {}
             /\ OneFor(tail, {"restore", "export"})
             /\ secrets' \in SUBSET SecretIds
             /\ Dropped(tail) = Dropped(requests)
             /\ Overtaken(tail) \subseteq history.crossed
             /\ Promised \subseteq history.crossed \cup (secrets' \ Dropped(tail))
             /\ Restored \subseteq AskedFor(requests, "restore") \cup history.crossed \cup (secrets' \ Dropped(tail))
             /\ ok => id \in history.crossed \cup (secrets' \ Dropped(tail))
             /\ secrets' \subseteq history.left \cup Promised \cup Dropped(tail) \cup Restored
                                 \cup IF ok THEN {id} ELSE {}
<1> DEFINE id == Answered.id
           tail == Tail(requests)
<1>1. requests \in Seq(Requests) /\ secrets \in SUBSET SecretIds /\ AllFit(requests)
  BY DEF IInv, Types
<1>2. /\ Answered \in Requests /\ tail \in Seq(Requests)
      /\ Range(requests) = {Answered} \cup Range(tail)
      /\ Dropped(requests) = Dropped(tail) \cup IF Answered.op = "remove" THEN {id} ELSE {}
      /\ \A use : AskedFor(requests, use) = AskedFor(tail, use) \cup IF Answered.use = use THEN {id} ELSE {}
      /\ Overtaken(tail) \subseteq Overtaken(requests)
      /\ Answered.op \in {"create", "store"} /\ id \in Dropped(tail) => id \in Overtaken(requests)
  BY <1>1, Answering DEF Answered
<1>3. \A uses : OneFor(requests, uses) =>
        /\ OneFor(tail, uses)
        /\ Answered.use \in uses => \A use \in uses : AskedFor(tail, use) = {}
  BY <1>1, Answering DEF Answered
<1>4. id \in SecretIds
  BY <1>2 DEF Requests
<1>5. Fits(Answered) /\ AllFit(tail)
  BY <1>1, <1>2 DEF AllFit
<1>6. Held(Promised, Restored, requests, secrets, history)
  BY DEF IInv
<1> HIDE DEF id, tail
<1>7. Dropped(tail) = Dropped(requests)
  BY <1>2
<1>8. ok => id \in secrets'
  BY DEF id
<1>9. secrets \subseteq secrets' /\ secrets' \subseteq secrets \cup IF ok THEN {id} ELSE {}
  BY DEF id
<1>10. secrets' \in SUBSET SecretIds
  BY <1>1, <1>4, <1>9
<1>11. OneFor(tail, {"restore", "export"})
  BY <1>3 DEF IInv, OneByOne
<1>12. /\ Overtaken(tail) \subseteq history.crossed
       /\ Promised \subseteq history.crossed \cup (secrets' \ Dropped(tail))
       /\ Restored \subseteq AskedFor(requests, "restore") \cup history.crossed \cup (secrets' \ Dropped(tail))
       /\ ok => id \in history.crossed \cup (secrets' \ Dropped(tail))
  BY <1>2, <1>6, <1>7, <1>8, <1>9 DEF Held
<1>13. secrets' \subseteq history.left \cup Promised \cup Dropped(tail) \cup Restored
                           \cup IF ok THEN {id} ELSE {}
  BY <1>6, <1>7, <1>9 DEF Held
<1> QED
  BY <1>2, <1>3, <1>4, <1>5, <1>7, <1>10, <1>11, <1>12, <1>13 DEF id, tail

\* The callback of a password.
LEMMA PasswordStoredStep ==
  ASSUME IInv, requests # <<>>, Answered.op \in {"create", "store"}, NEW ok \in BOOLEAN,
         secrets' = secrets \cup IF ok THEN {Answered.id} ELSE {},
         Answered.use = "host", NEW h \in HostIds, Password(h) = Answered.id, PasswordStored(ok, h),
         UNCHANGED <<making, file, unused>>
  PROVE  IInv'
<1> DEFINE id == Answered.id
           tail == Tail(requests)
           new == IF ok THEN {id} ELSE {}
           old == Promised \cup new
           gone == IF ok /\ h \notin DOMAIN hosts THEN {id} ELSE {}
<1>1. /\ hosts' = IF ok /\ h \in DOMAIN hosts THEN [hosts EXCEPT ![h].hasPassword = TRUE] ELSE hosts
      /\ requests' = Drop(tail, gone)
      /\ history' = Crossed(history, tail, gone)
      /\ UNCHANGED <<keys, backup>>
  BY DEF PasswordStored
<1>2. /\ id \in SecretIds
      /\ tail \in Seq(Requests) /\ AllFit(tail)
      /\ \A use : AskedFor(requests, use) = AskedFor(tail, use) \cup IF Answered.use = use THEN {id} ELSE {}
      /\ OneFor(requests, {"key"}) => OneFor(tail, {"key"})
      /\ OneFor(tail, {"restore", "export"}) /\ secrets' \in SUBSET SecretIds
      /\ Overtaken(tail) \subseteq history.crossed
      /\ Promised \subseteq history.crossed \cup (secrets' \ Dropped(tail))
      /\ Restored \subseteq AskedFor(requests, "restore") \cup history.crossed \cup (secrets' \ Dropped(tail))
      /\ ok => id \in history.crossed \cup (secrets' \ Dropped(tail))
      /\ secrets' \subseteq history.left \cup Promised \cup Dropped(tail) \cup Restored \cup IF ok THEN {id} ELSE {}
  BY StoreAnswered
<1>3. Types /\ OneByOne /\ Given /\ OneKey(making, requests, keys, history.crowded)
  BY DEF IInv
<1>4. hosts \in [DOMAIN hosts -> Hosts] /\ DOMAIN hosts \subseteq HostIds
  BY <1>3, HostListIs DEF Types
<1>5. /\ DOMAIN hosts' = DOMAIN hosts /\ hosts' \in HostLists
      /\ \A g \in DOMAIN hosts : hosts'[g].hasPassword <=> hosts[g].hasPassword \/ (ok /\ g = h)
  <2>1. CASE ok /\ h \in DOMAIN hosts
    <3>1. hosts' = [hosts EXCEPT ![h].hasPassword = TRUE]
      BY <1>1, <2>1
    <3>2. hosts'[h] = [hosts[h] EXCEPT !.hasPassword = TRUE] /\ \A g \in DOMAIN hosts : g # h => hosts'[g] = hosts[g]
      BY <2>1, <3>1
    <3>3. hosts[h] \in Hosts /\ hosts'[h] \in Hosts /\ hosts'[h].hasPassword
      BY <1>4, <2>1, <3>2 DEF Hosts
    <3>4. DOMAIN hosts' = DOMAIN hosts /\ hosts' \in [DOMAIN hosts' -> Hosts]
      BY <1>4, <3>1, <3>2, <3>3
    <3>5. hosts' \in HostLists
      BY <1>4, <3>4, HostListIs
    <3>6. \A g \in DOMAIN hosts : hosts'[g].hasPassword <=> hosts[g].hasPassword \/ (ok /\ g = h)
      BY <2>1, <3>2, <3>3
    <3> QED
      BY <3>4, <3>5, <3>6
  <2>2. CASE ~ (ok /\ h \in DOMAIN hosts)
    <3>1. hosts' = hosts
      BY <1>1, <2>2
    <3>2. \A g \in DOMAIN hosts : ~ (ok /\ g = h)
      BY <2>2
    <3> QED
      BY <1>3, <3>1, <3>2 DEF Types
  <2> QED
    BY <2>1, <2>2
<1>6. \A g \in DOMAIN hosts : Password(g) = id => g = h
  BY <1>4, SecretIdsAre
<1>7. id \notin KeyIds /\ Range(keys') = Range(keys) /\ Range(keys) \subseteq KeyIds
  BY <1>1, KeysAre, SecretIdsAre
<1> DEFINE passwords == Passwords
           next == Passwords'
<1>8. /\ next \subseteq Passwords \cup new /\ Passwords \cup new \subseteq next \cup gone
      /\ next \cap gone = {}
  <2>1. ASSUME NEW g \in DOMAIN hosts', hosts'[g].hasPassword
        PROVE  Password(g) \in (Passwords \cup new) \ gone
    <3>1. g \in DOMAIN hosts /\ (hosts[g].hasPassword \/ (ok /\ g = h))
      BY <1>5, <2>1
    <3>2. Password(g) \in Passwords \cup new
      BY <3>1 DEF Passwords
    <3>3. Password(g) \notin gone
      <4>1. Password(g) \in gone => g = h /\ h \notin DOMAIN hosts
        BY <1>6, <3>1
      <4> QED
        BY <3>1, <4>1
    <3> QED
      BY <3>2, <3>3
  <2>2. ASSUME NEW g \in DOMAIN hosts, hosts[g].hasPassword
        PROVE  Password(g) \in next
    BY <1>5, <2>2 DEF Passwords
  <2>3. new \subseteq next \cup gone
    <3>1. CASE ok /\ h \in DOMAIN hosts
      <4>1. h \in DOMAIN hosts' /\ hosts'[h].hasPassword
        BY <1>5, <3>1
      <4>2. id \in next
        BY <4>1 DEF Passwords
      <4> QED
        BY <4>2
    <3>2. CASE ~ (ok /\ h \in DOMAIN hosts)
      BY <3>2
    <3> QED
      BY <3>1, <3>2
  <2> HIDE DEF new, gone
  <2> QED
    BY <2>1, <2>2, <2>3 DEF Passwords
<1>9. gone \in SUBSET SecretIds /\ gone \cap KeyIds = {}
  BY <1>2, <1>7
<1>10. \A use : use # "host" => AskedFor(tail, use) = AskedFor(requests, use)
  BY <1>2, ZenonT(60)
<1>11. \A use : use # "none" => AskedFor(tail, use) \subseteq AskedFor(requests, use)
  BY <1>2
<1>12. Held(old, Restored, tail, secrets', history)
  <2>1. AskedFor(tail, "restore") = AskedFor(requests, "restore")
    BY <1>10
  <2> HIDE DEF tail, id
  <2> QED
    BY <1>2, <2>1 DEF Held
<1>13. OneKey(making, tail, keys, history.crowded)
  <2>1. AskedFor(tail, "key") = AskedFor(requests, "key")
    BY <1>10
  <2> QED
    BY <1>2, <1>3, <2>1 DEF OneKey
<1>14. unused' \subseteq unused /\ DOMAIN hosts' \cap unused' = {}
  BY <1>3, <1>5 DEF Given
<1> HIDE DEF gone, new, id, tail
<1>15. Promised' \subseteq old /\ old \subseteq Promised' \cup gone /\ Promised' \cap gone = {}
  BY <1>7, <1>8, <1>9 DEF Promised
<1>16. UNCHANGED <<keys, making, backup, file>>
  BY <1>1
<1> HIDE DEF old
<1>17. tail \in Seq(Requests) /\ AllFit(tail) /\ OneFor(tail, {"restore", "export"}) /\ secrets' \in SUBSET SecretIds
  BY <1>2
<1>18. requests' = Drop(tail, gone) /\ history' = Crossed(history, tail, gone) /\ hosts' \in HostLists
       /\ gone \in SUBSET SecretIds
  BY <1>1, <1>5, <1>9
<1> QED
  BY <1>3, <1>11, <1>12, <1>13, <1>14, <1>15, <1>16, <1>17, <1>18, HostsStep

\* The callback of a key.
LEMMA KeyStoredStep ==
  ASSUME IInv, requests # <<>>, Answered.op \in {"create", "store"}, NEW ok \in BOOLEAN,
         secrets' = secrets \cup IF ok THEN {Answered.id} ELSE {},
         Answered.use = "key", KeyStored(ok), UNCHANGED <<making, file, unused>>
  PROVE  IInv'
<1> DEFINE id == Answered.id
           tail == Tail(requests)
           new == IF ok THEN {id} ELSE {}
<1>1. /\ keys' = IF ok THEN Append(keys, id) ELSE keys
      /\ requests' = tail /\ UNCHANGED <<hosts, backup, history, making, file, unused>>
  BY DEF KeyStored
<1>2. /\ Fits(Answered) /\ tail \in Seq(Requests) /\ AllFit(tail)
      /\ \A use : AskedFor(requests, use) = AskedFor(tail, use) \cup IF Answered.use = use THEN {id} ELSE {}
      /\ \A uses : OneFor(requests, uses) =>
            /\ OneFor(tail, uses)
            /\ Answered.use \in uses => \A use \in uses : AskedFor(tail, use) = {}
      /\ OneFor(tail, {"restore", "export"}) /\ secrets' \in SUBSET SecretIds
      /\ Overtaken(tail) \subseteq history.crossed
      /\ Promised \subseteq history.crossed \cup (secrets' \ Dropped(tail))
      /\ Restored \subseteq AskedFor(requests, "restore") \cup history.crossed \cup (secrets' \ Dropped(tail))
      /\ ok => id \in history.crossed \cup (secrets' \ Dropped(tail))
      /\ secrets' \subseteq history.left \cup Promised \cup Dropped(tail) \cup Restored \cup IF ok THEN {id} ELSE {}
  BY StoreAnswered
<1>3. Types /\ OneByOne /\ Given /\ OneKey(making, requests, keys, history.crowded)
  BY DEF IInv
<1>4. keys \in Seq(KeyIds) /\ Len(keys) \in Nat /\ DOMAIN keys = 1..Len(keys) /\ id \in KeyIds
  BY <1>2, <1>3, LenProperties DEF Types, Fits
<1> HIDE DEF id, tail
<1>5. /\ AskedFor(requests, "key") = AskedFor(tail, "key") \cup {id}
      /\ AskedFor(requests, "restore") = AskedFor(tail, "restore")
      /\ AskedFor(requests, "export") = AskedFor(tail, "export")
  <2>1. ASSUME NEW use, use # "key"
        PROVE  AskedFor(requests, use) = AskedFor(tail, use)
    <3>1. Answered.use # use
      BY <2>1
    <3>2. AskedFor(requests, use) = AskedFor(tail, use) \cup IF Answered.use = use THEN {id} ELSE {}
      BY <1>2
    <3> QED
      BY <3>1, <3>2
  <2>2. AskedFor(requests, "key") = AskedFor(tail, "key") \cup {id}
    BY <1>2
  <2> QED
    BY <2>1, <2>2
<1>6. /\ keys' \in Seq(KeyIds) /\ Range(keys') = Range(keys) \cup new
      /\ ~ok => keys' = keys
      /\ ok => /\ Len(keys') = Len(keys) + 1 /\ DOMAIN keys' = 1..Len(keys) + 1
               /\ \A i \in 1..Len(keys) : keys'[i] = keys[i]
               /\ keys'[Len(keys) + 1] = id
  <2>1. CASE ok
    <3>1. keys' = Append(keys, id)
      BY <1>1, <2>1
    <3>2. /\ keys' \in Seq(KeyIds) /\ Len(keys') = Len(keys) + 1 /\ DOMAIN keys' = 1..Len(keys) + 1
          /\ \A i \in 1..Len(keys) : keys'[i] = keys[i]
          /\ keys'[Len(keys) + 1] = id
      BY <1>4, <3>1, AppendProperties, LenProperties
    <3>3. Range(keys') = Range(keys) \cup {id}
      <4>1. ASSUME NEW i \in 1..Len(keys) + 1
            PROVE  i \in 1..Len(keys) \/ i = Len(keys) + 1
        BY <1>4
      <4>2. 1..Len(keys) \subseteq 1..Len(keys) + 1 /\ Len(keys) + 1 \in 1..Len(keys) + 1
        BY <1>4
      <4> QED
        BY <1>4, <3>2, <4>1, <4>2 DEF Range
    <3> QED
      BY <2>1, <3>2, <3>3
  <2>2. CASE ~ok
    BY <1>1, <1>4, <2>2
  <2> QED
    BY <2>1, <2>2
<1>7. Promised' = Promised \cup new /\ Restored' = Restored
  BY <1>1, <1>6 DEF Promised, Passwords, Restored
<1>8. Types'
  BY <1>1, <1>2, <1>3, <1>6 DEF Types
<1>9. OneByOne'
  BY <1>1, <1>2, <1>3, <1>5, <1>7 DEF OneByOne
<1>10. Given'
  BY <1>1, <1>3, <1>5, <1>6 DEF Given
<1>11. Held(Promised', Restored', requests', secrets', history')
  BY <1>1, <1>2, <1>5, <1>7 DEF Held
<1>12. OneKey(making', requests', keys', history'.crowded)
  <2>1. SUFFICES ASSUME ~history.crowded
                 PROVE  OneKey(making, tail, keys', FALSE)
    BY <1>1 DEF OneKey
  <2>2. /\ OneFor(requests, {"key"}) /\ making \in {0, 1} /\ making # 1
        /\ Len(keys) < MaxKeys /\ id \notin Range(keys) /\ Len(keys) <= MaxKeys
        /\ \A i, j \in DOMAIN keys : keys[i] = keys[j] => i = j
    BY <1>3, <1>5, <2>1 DEF OneKey
  <2>3. OneFor(tail, {"key"}) /\ AskedFor(tail, "key") = {}
    BY <1>2, <2>2
  <2>4. Len(keys') <= MaxKeys
    <3>1. CASE ok
      BY <1>4, <1>6, <2>2, <3>1, SecretsAssumption
    <3>2. CASE ~ok
      BY <1>6, <2>2, <3>2
    <3> QED
      BY <3>1, <3>2
  <2>5. ASSUME NEW i \in DOMAIN keys', NEW j \in DOMAIN keys', keys'[i] = keys'[j]
        PROVE  i = j
    <3>1. CASE ok
      <4>1. \A k \in 1..Len(keys) : keys[k] \in Range(keys)
        BY <1>4 DEF Range
      <4>2. \A k \in 1..Len(keys) + 1 : k \in 1..Len(keys) \/ k = Len(keys) + 1
        BY <1>4
      <4> QED
        BY <1>4, <1>6, <2>2, <2>5, <3>1, <4>1, <4>2
    <3>2. CASE ~ok
      BY <1>6, <2>2, <2>5, <3>2
    <3> QED
      BY <3>1, <3>2
  <2> QED
    BY <2>2, <2>3, <2>4, <2>5 DEF OneKey
<1> QED
  BY <1>1, <1>2, <1>8, <1>9, <1>10, <1>11, <1>12 DEF IInv

\* The callback of a restored password.
LEMMA RestoredStoredStep ==
  ASSUME IInv, requests # <<>>, Answered.op \in {"create", "store"}, NEW ok \in BOOLEAN,
         secrets' = secrets \cup IF ok THEN {Answered.id} ELSE {},
         Answered.use = "restore", RestoredStored(ok), UNCHANGED <<making, file, unused>>
  PROVE  IInv'
<1> DEFINE id == Answered.id
           tail == Tail(requests)
           past == [history EXCEPT !.crossed = @ \cup IF ok THEN {} ELSE {id}]
           contents == backup.contents
<1>1. StoreNext(tail, backup.rest, contents, past) /\ UNCHANGED keys
  BY DEF RestoredStored
<1>2. /\ id \in SecretIds
      /\ tail \in Seq(Requests) /\ AllFit(tail)
      /\ \A use : AskedFor(requests, use) = AskedFor(tail, use) \cup IF Answered.use = use THEN {id} ELSE {}
      /\ \A uses : OneFor(requests, uses) =>
            /\ OneFor(tail, uses)
            /\ Answered.use \in uses => \A use \in uses : AskedFor(tail, use) = {}
      /\ OneFor(tail, {"restore", "export"}) /\ secrets' \in SUBSET SecretIds
      /\ Overtaken(tail) \subseteq history.crossed
      /\ Promised \subseteq history.crossed \cup (secrets' \ Dropped(tail))
      /\ Restored \subseteq AskedFor(requests, "restore") \cup history.crossed \cup (secrets' \ Dropped(tail))
      /\ ok => id \in history.crossed \cup (secrets' \ Dropped(tail))
      /\ secrets' \subseteq history.left \cup Promised \cup Dropped(tail) \cup Restored \cup IF ok THEN {id} ELSE {}
  BY StoreAnswered
<1>3. Types /\ OneByOne /\ Given /\ OneKey(making, requests, keys, history.crowded)
  BY DEF IInv
<1> HIDE DEF id, tail
<1>4. AskedFor(requests, "restore") = AskedFor(tail, "restore") \cup {id}
  BY <1>2
<1>5. id \in Restored
  BY <1>3, <1>4 DEF OneByOne
<1>6. backup.phase = "storing" /\ Restored = BackedUp(contents) \ backup.rest
  BY <1>5 DEF Restored
<1>7. backup # Idle /\ contents \in Contents /\ backup.rest \in SUBSET BackedUp(contents)
  BY <1>3, <1>6, BackupIs DEF OneByOne
<1>8. AskedFor(tail, "restore") = {} /\ AskedFor(tail, "export") = {}
  BY <1>2, <1>3 DEF OneByOne
<1>9. /\ past \in Histories /\ past.left = history.left /\ past.crowded = history.crowded
      /\ past.crossed = history.crossed \cup IF ok THEN {} ELSE {id}
  BY <1>2, <1>3 DEF Types, Histories
<1> HIDE DEF past, contents
<1>10. \A use : use # "restore" => AskedFor(tail, use) = AskedFor(requests, use)
  BY <1>2, ZenonT(60)
<1>11. AskedFor(tail, "key") = AskedFor(requests, "key")
  BY <1>10
<1>12. AskedFor(tail, "key") \cap unused = {}
  BY <1>3, <1>11 DEF Given
<1>13. id \in past.crossed \cup (secrets' \ Dropped(tail))
  BY <1>2, <1>9
<1>14. Held(Promised, BackedUp(contents) \ backup.rest, tail, secrets', past)
  <2>1. Restored \subseteq {id} \cup history.crossed \cup (secrets' \ Dropped(tail))
    BY <1>2, <1>4, <1>8
  <2>2. Held(Promised, Restored, tail, secrets', past)
    BY <1>2, <1>5, <1>9, <1>13, <2>1 DEF Held
  <2> QED
    BY <1>6, <2>2
<1>15. OneKey(making, tail, keys, past.crowded)
  BY <1>2, <1>3, <1>9, <1>11 DEF OneKey
<1>16. contents = backup.contents
  BY DEF contents
<1> QED
  BY <1>1, <1>2, <1>3, <1>7, <1>8, <1>9, <1>12, <1>14, <1>15, <1>16, StoreNextStep

LEMMA StoreEndsStep ==
  ASSUME IInv, requests # <<>>, Answered.op \in {"create", "store"}, NEW ok \in BOOLEAN,
         secrets' = secrets \cup IF ok THEN {Answered.id} ELSE {},
         StoreEnds(ok), UNCHANGED <<making, file, unused>>
  PROVE  IInv'
<1>1. CASE Answered.use = "host" /\ \E h \in HostIds : Password(h) = Answered.id /\ PasswordStored(ok, h)
  BY <1>1, PasswordStoredStep
<1>2. CASE Answered.use = "key" /\ KeyStored(ok)
  BY <1>2, KeyStoredStep
<1>3. CASE Answered.use = "restore" /\ RestoredStored(ok)
  BY <1>3, RestoredStoredStep
<1> QED
  BY <1>1, <1>2, <1>3 DEF StoreEnds

LEMMA AnswerStoreStep ==
  ASSUME IInv, AnswerStore
  PROVE  IInv'
BY StoreEndsStep DEF AnswerStore

\* A store goes on with the collection made, or fails at it.
LEMMA AnswerCreateStep ==
  ASSUME IInv, AnswerCreate
  PROVE  IInv'
<1>1. requests # <<>> /\ Answered.op = "create" /\ UNCHANGED <<making, secrets, file, unused>>
  BY DEF AnswerCreate
<1>2. secrets' = secrets \cup IF FALSE THEN {Answered.id} ELSE {}
  BY <1>1
<1>3. CASE StoreEnds(FALSE)
  BY <1>1, <1>2, <1>3, StoreEndsStep
<1>4. CASE /\ requests' = Append(Tail(requests), [Answered EXCEPT !.op = "store"])
           /\ UNCHANGED <<hosts, keys, backup, history>>
  <2> DEFINE tail == Tail(requests)
             r == [Answered EXCEPT !.op = "store"]
             more == Append(tail, r)
  <2>1. /\ Answered \in Requests /\ Fits(Answered)
        /\ tail \in Seq(Requests) /\ AllFit(tail)
        /\ \A use : AskedFor(requests, use) = AskedFor(tail, use) \cup IF Answered.use = use THEN {Answered.id} ELSE {}
        /\ \A uses : OneFor(requests, uses) =>
              /\ OneFor(tail, uses)
              /\ Answered.use \in uses => \A use \in uses : AskedFor(tail, use) = {}
        /\ Dropped(tail) = Dropped(requests)
        /\ Overtaken(tail) \subseteq history.crossed
    BY <1>1, <1>2, StoreAnswered
  <2>2. r \in Requests /\ r.op = "store" /\ r.use = Answered.use /\ r.id = Answered.id
    BY <2>1 DEF Requests
  <2>3. Fits(r)
    BY <1>1, <2>1, <2>2 DEF Fits
  <2>4. requests' = more
    BY <1>4
  <2> HIDE DEF r, tail
  <2>5. /\ more \in Seq(Requests) /\ Range(more) = Range(tail) \cup {r}
        /\ Dropped(more) = Dropped(tail) \cup IF r.op = "remove" THEN {r.id} ELSE {}
        /\ \A use : AskedFor(more, use) = AskedFor(tail, use) \cup IF r.use = use THEN {r.id} ELSE {}
        /\ Overtaken(more) \subseteq
               Overtaken(tail) \cup IF r.op = "remove" THEN Stored(tail) \cap {r.id} ELSE {}
    BY <2>1, <2>2, Appended, ZenonT(60)
  <2>6. \A uses :
          OneFor(tail, uses) /\ (r.use \in uses => \A use \in uses : AskedFor(tail, use) = {})
          => OneFor(more, uses)
    BY <2>1, <2>2, Appended
  <2> HIDE DEF more
  <2>7. \A use : AskedFor(more, use) = AskedFor(requests, use)
    BY <2>1, <2>2, <2>5
  <2>8. \A uses : OneFor(requests, uses) => OneFor(more, uses)
    BY <2>1, <2>2, <2>6
  <2>9. Dropped(more) = Dropped(requests) /\ Overtaken(more) \subseteq history.crossed
    BY <2>1, <2>2, <2>5
  <2>10. AllFit(more)
    BY <2>1, <2>3, <2>5 DEF AllFit
  <2>11. Promised' = Promised /\ Restored' = Restored
    BY <1>4 DEF Promised, Passwords, Restored
  <2>12. Types'
    BY <1>1, <1>4, <2>4, <2>5 DEF IInv, Types
  <2>13. OneByOne'
    BY <1>4, <2>4, <2>7, <2>8, <2>11 DEF IInv, OneByOne
  <2>14. Given'
    BY <1>1, <1>4, <2>4, <2>7 DEF IInv, Given
  <2>15. Held(Promised', Restored', requests', secrets', history')
    BY <1>1, <1>4, <2>4, <2>7, <2>9, <2>11 DEF IInv, Held
  <2>16. OneKey(making', requests', keys', history'.crowded)
    BY <1>1, <1>4, <2>4, <2>7, <2>8 DEF IInv, OneKey
  <2> QED
    BY <2>4, <2>10, <2>12, <2>13, <2>14, <2>15, <2>16 DEF IInv
<1> QED
  BY <1>3, <1>4 DEF AnswerCreate

LEMMA AnswerRemoveStep ==
  ASSUME IInv, AnswerRemove
  PROVE  IInv'
<1> DEFINE id == Answered.id
           tail == Tail(requests)
<1>1. /\ requests # <<>> /\ Answered.op = "remove" /\ requests' = tail
      /\ UNCHANGED <<hosts, keys, making, backup, file, unused>>
      /\ \/ secrets' = secrets \ {id} /\ UNCHANGED history
         \/ UNCHANGED secrets /\ history' = [history EXCEPT !.left = @ \cup {id}]
  BY DEF AnswerRemove
<1>2. Types /\ AllFit(requests) /\ OneByOne /\ Given /\ requests \in Seq(Requests) /\ history \in Histories
  BY DEF IInv, Types
<1>3. /\ Answered \in Requests /\ tail \in Seq(Requests)
      /\ Range(requests) = {Answered} \cup Range(tail)
      /\ Dropped(requests) = Dropped(tail) \cup {id}
      /\ \A use : AskedFor(requests, use) = AskedFor(tail, use) \cup IF Answered.use = use THEN {id} ELSE {}
      /\ Overtaken(tail) \subseteq Overtaken(requests)
  BY <1>1, <1>2, Answering DEF Answered
<1>4. \A uses : OneFor(requests, uses) => OneFor(tail, uses)
  BY <1>1, <1>2, Answering
<1>5. id \in SecretIds /\ Fits(Answered)
  BY <1>2, <1>3 DEF Requests, AllFit
<1>6. AllFit(tail)
  BY <1>2, <1>3 DEF AllFit
<1> HIDE DEF id, tail
<1>7. /\ AskedFor(requests, "restore") = AskedFor(tail, "restore")
      /\ AskedFor(requests, "export") = AskedFor(tail, "export")
      /\ AskedFor(requests, "key") = AskedFor(tail, "key")
  <2>1. Answered.use \notin {"restore", "export", "key"}
    BY <1>1, <1>5 DEF Fits
  <2> QED
    BY <1>3, <2>1
<1>8. /\ history' \in Histories /\ history'.crossed = history.crossed /\ history'.crowded = history.crowded
      /\ secrets' \subseteq secrets /\ secrets \subseteq secrets' \cup {id}
      /\ history.left \subseteq history'.left
      /\ id \in secrets' => id \in history'.left
  BY <1>1, <1>2, <1>5 DEF Histories
<1>9. Promised' = Promised /\ Restored' = Restored
  BY <1>1 DEF Promised, Passwords, Restored
<1>10. Types'
  BY <1>1, <1>2, <1>3, <1>8 DEF Types
<1>11. OneByOne'
  BY <1>1, <1>2, <1>4, <1>7, <1>9 DEF OneByOne
<1>12. Given'
  BY <1>1, <1>2, <1>7 DEF Given
<1>13. Held(Promised', Restored', requests', secrets', history')
  BY <1>1, <1>3, <1>7, <1>8, <1>9 DEF IInv, Held
<1>14. OneKey(making', requests', keys', history'.crowded)
  BY <1>1, <1>4, <1>7, <1>8 DEF IInv, OneKey
<1> QED
  BY <1>1, <1>6, <1>10, <1>11, <1>12, <1>13, <1>14 DEF IInv

LEMMA AnswerFetchStep ==
  ASSUME IInv, AnswerFetch
  PROVE  IInv'
<1> DEFINE id == Answered.id
           tail == Tail(requests)
           rest == backup.rest \ {id}
<1>1. requests # <<>> /\ Answered.op = "fetch" /\ UNCHANGED <<hosts, keys, making, secrets, file, unused, history>>
  BY DEF AnswerFetch
<1>2. PICK read \in {{}, {id} \cap secrets} :
        /\ Fetching([backup.contents EXCEPT !.secrets = @ \cup read], rest)
        /\ requests' = FetchNext(tail, rest)
  BY DEF AnswerFetch
<1> DEFINE contents == [backup.contents EXCEPT !.secrets = @ \cup read]
<1>3. Types /\ AllFit(requests) /\ OneByOne /\ Given /\ requests \in Seq(Requests)
  BY DEF IInv, Types
<1>4. /\ Answered \in Requests /\ tail \in Seq(Requests)
      /\ Range(requests) = {Answered} \cup Range(tail)
      /\ Dropped(requests) = Dropped(tail)
      /\ \A use : AskedFor(requests, use) = AskedFor(tail, use) \cup IF Answered.use = use THEN {id} ELSE {}
      /\ Overtaken(tail) \subseteq Overtaken(requests)
  <2>1. /\ Answered \in Requests /\ tail \in Seq(Requests)
        /\ Range(requests) = {Answered} \cup Range(tail)
        /\ Dropped(requests) = Dropped(tail) \cup IF Answered.op = "remove" THEN {id} ELSE {}
        /\ \A use : AskedFor(requests, use) = AskedFor(tail, use) \cup IF Answered.use = use THEN {id} ELSE {}
        /\ Overtaken(tail) \subseteq Overtaken(requests)
    BY <1>1, <1>3, Answering DEF Answered
  <2> HIDE DEF tail, id
  <2>2. Dropped(requests) = Dropped(tail)
    BY <1>1, <2>1
  <2> QED
    BY <2>1, <2>2
<1>5. \A uses : OneFor(requests, uses) =>
        /\ OneFor(tail, uses)
        /\ Answered.use \in uses => \A use \in uses : AskedFor(tail, use) = {}
  BY <1>1, <1>3, Answering DEF Answered
<1>6. Answered.use = "export" /\ AllFit(tail)
  BY <1>1, <1>3, <1>4 DEF AllFit, Fits
<1>7. backup.phase = "fetching"
  <2>1. AskedFor(requests, "export") # {}
    BY <1>4, <1>6
  <2> QED
    BY <1>3, <2>1 DEF OneByOne
<1>8. backup # Idle /\ backup.contents \in Contents /\ backup.rest \in SUBSET SecretIds /\ Restored = {}
  BY <1>3, <1>7, BackupIs DEF Restored
<1>9. /\ AskedFor(tail, "restore") = {} /\ AskedFor(tail, "export") = {}
      /\ OneFor(tail, {"restore", "export"})
  BY <1>3, <1>5, <1>6 DEF OneByOne
<1>10. AskedFor(tail, "key") = AskedFor(requests, "key")
  BY <1>4, <1>6
<1>11. contents \in Contents /\ GivenBy(contents) = GivenBy(backup.contents)
  <2>1. read \in SUBSET SecretIds
    BY <1>2, <1>3 DEF Types
  <2>2. contents \in Contents /\ contents.hosts = backup.contents.hosts /\ contents.keys = backup.contents.keys
    BY <1>8, <2>1 DEF Contents
  <2> QED
    BY <2>2 DEF GivenBy
<1>12. GivenBy(contents) \cap unused = {}
  BY <1>3, <1>8, <1>11 DEF Given
<1>13. Held(Promised, {}, tail, secrets, history)
  BY <1>4, <1>8, <1>9 DEF IInv, Held
<1>14. OneKey(making, tail, keys, history.crowded)
  BY <1>5, <1>10 DEF IInv, OneKey
<1>15. rest \in SUBSET SecretIds
  BY <1>8
<1>16. Fetching(contents, rest) /\ requests' = FetchNext(tail, rest)
  BY <1>2
<1> HIDE DEF contents, rest, tail
<1> QED
  BY <1>1, <1>3, <1>4, <1>6, <1>9, <1>10, <1>11, <1>12, <1>13, <1>14, <1>15, <1>16, FetchStep

\* A kill, wherever the vault was.
LEMMA RestartStep ==
  ASSUME IInv, Restart
  PROVE  IInv'
<1> DEFINE asks == {requests[i].id : i \in DOMAIN requests}
           restored == IF backup.phase = "storing" THEN backup.contents.secrets ELSE {}
<1>1. PICK n \in 0..Len(requests) : secrets' = Done(n)
  BY DEF Restart
<1>2. /\ keys' \in Loaded /\ making' = 0 /\ requests' = <<>> /\ backup' = Idle
      /\ history' = [history EXCEPT !.left = @ \cup asks \cup restored \cup (Range(keys) \ Range(keys')),
                                   !.crowded = FALSE]
      /\ UNCHANGED <<hosts, file, unused>>
  BY DEF Restart
<1>3. Types /\ AllFit(requests) /\ OneByOne /\ Given /\ Held(Promised, Restored, requests, secrets, history)
  BY DEF IInv
<1>4. /\ requests \in Seq(Requests) /\ keys \in Seq(KeyIds) /\ history \in Histories
      /\ Len(requests) \in Nat /\ DOMAIN requests = 1..Len(requests)
      /\ Len(keys) \in Nat /\ DOMAIN keys = 1..Len(keys)
  BY <1>3, LenProperties DEF Types
<1>5. asks \in SUBSET SecretIds /\ Dropped(requests) \subseteq asks
  <2>0. \A i \in DOMAIN requests : requests[i] \in Requests
    BY <1>4, ElementOfSeq
  <2>1. \A i \in DOMAIN requests : requests[i] \in Requests /\ requests[i].id \in SecretIds
    BY <2>0 DEF Requests
  <2>2. Dropped(requests) \subseteq asks
    <3>1. ASSUME NEW id \in Dropped(requests)
          PROVE  \E i \in DOMAIN requests : requests[i].id = id
      BY DEF Dropped, Range
    <3> QED
      BY <3>1
  <2> QED
    BY <2>1, <2>2
<1>6. secrets' \subseteq secrets \cup asks /\ secrets' \in SUBSET SecretIds
  <2>1. \A i \in 1..n : i \in DOMAIN requests
    BY <1>1, <1>4
  <2> QED
    BY <1>1, <2>1 DEF Done
<1>7. secrets \ Dropped(requests) \subseteq secrets'
  <2>1. ASSUME NEW id \in secrets \ Dropped(requests), NEW i \in 1..n
        PROVE  ~Removes(i, id)
    <3>1. i \in DOMAIN requests
      BY <1>1, <1>4
    <3> QED
      BY <2>1, <3>1 DEF Removes, Dropped, Range
  <2>2. secrets \in SUBSET SecretIds
    BY <1>3 DEF Types
  <2> QED
    BY <1>1, <2>1, <2>2 DEF Done
<1>8. restored \in SUBSET SecretIds /\ Restored \subseteq restored
  <2>1. CASE backup.phase = "storing"
    BY <1>3, <2>1, BackupIs, ContentsAre DEF Restored, BackedUp
  <2>2. CASE backup.phase # "storing"
    BY <2>2 DEF Restored
  <2> QED
    BY <2>1, <2>2
<1>9. /\ keys' \in Seq(KeyIds) /\ Range(keys') \subseteq Range(keys) /\ Len(keys') <= MaxKeys
      /\ \A i, j \in DOMAIN keys' : keys'[i] = keys'[j] => i = j
  <2> DEFINE size == IF Len(keys) < MaxKeys THEN Len(keys) ELSE MaxKeys
             places == {i \in 1..size : \A j \in 1..i - 1 : keys[j] # keys[i]}
  <2>1. keys' \in InOrder(keys, places)
    BY <1>2 DEF Loaded
  <2>2. size \in Nat /\ size <= Len(keys) /\ size <= MaxKeys
    BY <1>4, SecretsAssumption
  <2> HIDE DEF size
  <2>3. places \in SUBSET (1..size) /\ places \in SUBSET DOMAIN keys
    BY <1>4, <2>2
  <2>4. ASSUME NEW p \in places, NEW r \in places, keys[p] = keys[r]
        PROVE  p = r
    <3>1. p \in Nat /\ r \in Nat /\ p \in 1..size /\ r \in 1..size
      BY <2>2, <2>3
    <3>2. ~ (p < r)
      <4>1. ASSUME p < r PROVE p \in 1..r - 1
        BY <3>1, <4>1
      <4> QED
        BY <2>4, <4>1
    <3>3. ~ (r < p)
      <4>1. ASSUME r < p PROVE r \in 1..p - 1
        BY <3>1, <4>1
      <4> QED
        BY <2>4, <4>1
    <3> QED
      BY <3>1, <3>2, <3>3
  <2>5. Cardinality(places) <= size
    <3>1. IsFiniteSet(1..size) /\ Cardinality(1..size) = size
      BY <2>2, FS_Interval
    <3> QED
      BY <2>3, <3>1, FS_Subset
  <2> HIDE DEF places
  <2>6. /\ IsFiniteSet(places) /\ Cardinality(places) \in Nat
        /\ keys' \in Seq(KeyIds) /\ Len(keys') = Cardinality(places)
        /\ \A i \in DOMAIN keys' : \E p \in places : keys'[i] = keys[p]
        /\ (\A p, r \in places : keys[p] = keys[r] => p = r)
           => \A i, j \in DOMAIN keys' : keys'[i] = keys'[j] => i = j
    <3> DEFINE next == keys'
    <3>1. next \in InOrder(keys, places)
      BY <2>1
    <3>0. keys \in Seq(KeyIds) /\ places \in SUBSET DOMAIN keys
      BY <1>4, <2>3
    <3> HIDE DEF next
    <3>2. /\ IsFiniteSet(places) /\ Cardinality(places) \in Nat
          /\ next \in Seq(KeyIds) /\ Len(next) = Cardinality(places)
          /\ \A i \in DOMAIN next : \E p \in places : next[i] = keys[p]
      BY <3>0, <3>1, Selecting
    <3>3. (\A p, r \in places : keys[p] = keys[r] => p = r)
          => \A i, j \in DOMAIN next : next[i] = next[j] => i = j
      BY <3>0, <3>1, Selecting
    <3> QED
      BY <3>2, <3>3 DEF next
  <2>7. Len(keys') <= MaxKeys
    BY <2>2, <2>5, <2>6, SecretsAssumption
  <2>8. Range(keys') \subseteq Range(keys)
    BY <2>3, <2>6 DEF Range
  <2> QED
    BY <2>4, <2>6, <2>7, <2>8
<1>10. Range(keys) \subseteq SecretIds
  BY <1>4, RangeOfSeq, SecretIdsAre
<1> HIDE DEF asks, restored
<1>11. /\ history' \in Histories /\ history'.crossed = history.crossed /\ history'.crowded = FALSE
       /\ history'.left = history.left \cup asks \cup restored \cup (Range(keys) \ Range(keys'))
  BY <1>2, <1>4, <1>5, <1>8, <1>10 DEF Histories
<1>12. /\ requests' \in Seq(Requests) /\ Range(requests') = {} /\ Dropped(requests') = {} /\ Overtaken(requests') = {}
       /\ \A use : AskedFor(requests', use) = {}
       /\ \A uses : OneFor(requests', uses)
  <2>1. requests' \in Seq(Requests) /\ DOMAIN requests' = {}
    BY <1>2
  <2> QED
    BY <2>1 DEF Range, Dropped, Overtaken, AskedFor, OneFor
<1>13. Restored' = {} /\ Passwords' = Passwords
  BY <1>2 DEF Restored, Passwords, Idle
<1>14. Types'
  BY <1>2, <1>3, <1>6, <1>9, <1>11, <1>12 DEF Types
<1>15. AllFit(requests')
  BY <1>12 DEF AllFit
<1>16. OneByOne'
  BY <1>2, <1>12 DEF OneByOne, Idle
<1>17. Given'
  BY <1>2, <1>3, <1>9, <1>12 DEF Given
<1>18. Held(Promised', Restored', requests', secrets', history')
  <2>1. Promised' \subseteq Promised /\ Promised \subseteq Promised' \cup (Range(keys) \ Range(keys'))
    BY <1>9, <1>13 DEF Promised
  <2> QED
    BY <1>3, <1>5, <1>6, <1>7, <1>8, <1>11, <1>12, <1>13, <2>1 DEF Held
<1>19. OneKey(making', requests', keys', history'.crowded)
  BY <1>2, <1>9, <1>12 DEF OneKey
<1> QED
  BY <1>14, <1>15, <1>16, <1>17, <1>18, <1>19 DEF IInv

---------------------------------------------------------------------------
(* The theorems *)

LEMMA Starts == Init => IInv
<1> SUFFICES ASSUME Init
             PROVE  IInv
  OBVIOUS
<1>1. /\ hosts = <<>> /\ keys = <<>> /\ making = 0 /\ requests = <<>> /\ secrets = {}
      /\ backup = Idle /\ file = None
      /\ history = [crossed |-> {}, left |-> {}, crowded |-> FALSE]
  BY DEF Init
<1>2. DOMAIN hosts = {} /\ DOMAIN keys = {} /\ DOMAIN requests = {} /\ Len(keys) = 0
  BY <1>1
<1>3. Range(keys) = {} /\ Range(requests) = {} /\ Passwords = {} /\ Promised = {} /\ Restored = {}
  BY <1>1, <1>2 DEF Range, Promised, Passwords, Restored, Idle
<1>4. /\ Dropped(requests) = {} /\ Overtaken(requests) = {} /\ \A use : AskedFor(requests, use) = {}
      /\ \A uses : OneFor(requests, uses)
  BY <1>2, <1>3 DEF Dropped, Overtaken, AskedFor, OneFor
<1>5. hosts \in HostLists
  <2>1. hosts \in [DOMAIN hosts -> Hosts] /\ DOMAIN hosts \subseteq HostIds
    BY <1>1, <1>2
  <2> QED
    BY <2>1, HostListIs
<1>6. Types
  BY <1>1, <1>5 DEF Types, Histories
<1>7. AllFit(requests) /\ OneByOne /\ Given
  BY <1>1, <1>2, <1>3, <1>4 DEF AllFit, OneByOne, Given, Idle
<1>8. Held(Promised, Restored, requests, secrets, history)
  BY <1>1, <1>3, <1>4 DEF Held
<1>9. OneKey(making, requests, keys, history.crowded)
  BY <1>1, <1>2, <1>4, SecretsAssumption DEF OneKey
<1> QED
  BY <1>6, <1>7, <1>8, <1>9 DEF IInv

LEMMA Steps == IInv /\ [Next]_vars => IInv'
<1> SUFFICES ASSUME IInv, [Next]_vars
             PROVE  IInv'
  OBVIOUS
<1>1. CASE AddHost \/ EditHost \/ SetKey \/ RememberPassword \/ RemoveHost \/ DuplicateHost \/ ImportConfig
  BY <1>1, AddHostStep, EditHostStep, SetKeyStep, RememberPasswordStep, RemoveHostStep, DuplicateHostStep,
     ImportConfigStep
<1>2. CASE MakeKey \/ KeyMade \/ ImportEncryptedKey \/ RemoveKey
  BY <1>2, MakeKeyStep, KeyMadeStep, ImportEncryptedKeyStep, RemoveKeyStep
<1>3. CASE ExportBackup \/ Sealed \/ ImportBackup \/ Opened
  BY <1>3, ExportBackupStep, SealedStep, ImportBackupStep, OpenedStep
<1>4. CASE AnswerCreate \/ AnswerStore \/ AnswerRemove \/ AnswerFetch
  BY <1>4, AnswerCreateStep, AnswerStoreStep, AnswerRemoveStep, AnswerFetchStep
<1>5. CASE Restart
  BY <1>5, RestartStep
<1>6. CASE UNCHANGED vars
  <2>1. UNCHANGED <<hosts, keys, making, requests, secrets, backup, file, unused, history>>
    BY <1>6 DEF vars
  <2>2. Promised' = Promised /\ Restored' = Restored
    BY <2>1 DEF Promised, Passwords, Restored
  <2>3. Types' /\ OneByOne' /\ Given'
    BY <2>1, <2>2 DEF IInv, Types, OneByOne, Given
  <2> QED
    BY <2>1, <2>2, <2>3 DEF IInv
<1> QED
  BY <1>1, <1>2, <1>3, <1>4, <1>5, <1>6 DEF Next

\* Whatever is done to the lists and whenever the app is killed, the sets of ids
\* promised, dropped, on their way and kept stay related as the argument needs.
THEOREM Invariance == Spec => []IInv
BY Starts, Steps, PTL DEF Spec

\* Whoever is said to have a password has one in the vault, and each listed key
\* its private part, however the answers of the vault come in between.
THEOREM PromisesAreKept == Spec => []PromisedIsThere
<1>1. IInv => PromisedIsThere
  <2> SUFFICES ASSUME IInv
               PROVE  PromisedIsThere
    OBVIOUS
  <2>1. Promised \subseteq secrets \cup history.crossed
    BY DEF IInv, Held
  <2> QED
    BY <2>1 DEF Promised, Passwords, PromisedIsThere, Range
<1> QED
  BY <1>1, Invariance, PTL

\* Once the vault has done what it was asked for, it holds nothing that no host
\* and no key in the lists needs, save what is known to be left.
THEOREM NothingStays == Spec => []NothingIsLeftBehind
<1>1. IInv => NothingIsLeftBehind
  <2> SUFFICES ASSUME IInv, requests = <<>>, backup = Idle, NEW id \in secrets \ history.left
               PROVE  id \in Range(keys) \/ \E h \in DOMAIN hosts : id = Password(h) /\ hosts[h].hasPassword
    BY DEF NothingIsLeftBehind
  <2>1. Restored = {}
    BY DEF Restored, Idle
  <2>2. Dropped(requests) = {}
    BY DEF Dropped, Range
  <2>3. id \in Promised
    BY <2>1, <2>2 DEF IInv, Held
  <2> QED
    BY <2>3 DEF Promised, Passwords
<1> QED
  BY <1>1, Invariance, PTL

\* As long as one key is asked for at a time, each is listed once, and no more
\* are listed than there is room for, for every limit.
THEOREM KeysAlwaysFit == Spec => []KeysFit
<1>1. IInv => KeysFit
  <2> SUFFICES ASSUME IInv, ~history.crowded
               PROVE  Len(keys) <= MaxKeys /\ Cardinality(Range(keys)) = Len(keys)
    BY DEF KeysFit
  <2>1. Len(keys) <= MaxKeys /\ \A i, j \in DOMAIN keys : keys[i] = keys[j] => i = j
    BY DEF IInv, OneKey
  <2>2. keys \in Seq(KeyIds) /\ Len(keys) \in Nat /\ DOMAIN keys = 1..Len(keys)
    BY LenProperties DEF IInv, Types
  <2>3. IsFiniteSet(1..Len(keys)) /\ Cardinality(1..Len(keys)) = Len(keys)
    BY <2>2, FS_Interval
  <2>4. keys \in [1..Len(keys) -> Range(keys)] /\ \A x \in Range(keys) : \E i \in 1..Len(keys) : keys[i] = x
    BY <2>2 DEF Range
  <2>5. keys \in Surjection(1..Len(keys), Range(keys)) /\ keys \in Injection(1..Len(keys), Range(keys))
    BY <2>1, <2>2, <2>4 DEF Surjection, Injection, IsInjective
  <2>6. Cardinality(Range(keys)) = Len(keys)
    BY <2>3, <2>5, FS_Surjection
  <2> QED
    BY <2>1, <2>6
<1> QED
  BY <1>1, Invariance, PTL
=============================================================================
