---------------------------- MODULE StorageCodec ----------------------------
(***************************************************************************)
(* The byte formats of the redb store (packages/storage/redb/src/codec.rs, *)
(* backend/read.rs) and of the index keys in it (sdk/indexing/redb/src/    *)
(* keys.rs).  A byte string is a sequence of numbers.  A fixed-width       *)
(* integer (u32, u64, the magic) is one element: only that its width does  *)
(* not depend on its value matters here.                                   *)
(***************************************************************************)
EXTENDS Integers, Sequences, FiniteSets, SequencesExt

CONSTANTS
    None,         \* Option::None
    Corrupt,      \* Error::corrupt_data
    Invalid,      \* Error::invalid_request
    MaxPayload    \* MAX_STORED_PAYLOAD_BYTES

\* Order of byte strings, as redb keeps them and as Ord for Key compares them.
Less(s, t) ==
    \/ IsStrictPrefix(s, t)
    \/ \E i \in 1..Len(s) :
          /\ i <= Len(t)
          /\ SubSeq(s, 1, i - 1) = SubSeq(t, 1, i - 1)
          /\ s[i] < t[i]

\* The members of a set of byte strings, in order.
Sorted(S) == [i \in 1..Cardinality(S) |->
    CHOOSE s \in S : Cardinality({t \in S : Less(t, s)}) = i - 1]

-----------------------------------------------------------------------------
(* Physical keys.                                                          *)

NamespacePrefix(namespace) == <<Len(namespace)>> \o namespace

EncodePhysicalKey(namespace, key) == NamespacePrefix(namespace) \o key

DecodePhysicalKey(physical, namespace) ==
    IF physical = <<>> THEN Corrupt
    ELSE LET offset == 1 + physical[1]
         IN  IF Len(physical) < offset \/ SubSeq(physical, 2, offset) # namespace
             THEN Corrupt
             ELSE SubSeq(physical, offset + 1, Len(physical))

-----------------------------------------------------------------------------
(* Value frames: magic, version, length of the payload, payload.           *)

ValueMagic == 7

EncodeRecord(r) ==
    IF r.version = 0 \/ Len(r.payload) > MaxPayload THEN Invalid
    ELSE <<ValueMagic, r.version, Len(r.payload)>> \o r.payload

DecodeRecord(frame) ==
    IF \/ Len(frame) < 3
       \/ frame[1] # ValueMagic
       \/ frame[3] > MaxPayload
       \/ frame[3] # Len(frame) - 3
       \/ frame[2] = 0
    THEN Corrupt
    ELSE [version |-> frame[2], payload |-> SubSeq(frame, 4, Len(frame))]

-----------------------------------------------------------------------------
(* A prefix scan over the table, a function from physical keys to values.  *)

ScanError(request) ==
    \/ request.limit = 0
    \/ request.after # None /\ ~IsPrefix(request.prefix, request.after)

\* The entries from the start key on, up to the first without the prefix.
InRange(table, request) ==
    LET start == EncodePhysicalKey(request.namespace,
                     IF request.after = None THEN request.prefix ELSE request.after)
        from == Sorted({p \in DOMAIN table : ~Less(p, start)})
        prefix == EncodePhysicalKey(request.namespace, request.prefix)
        foreign == {i \in 1..Len(from) : ~IsPrefix(prefix, from[i])}
    IN  IF foreign = {} THEN from
        ELSE SubSeq(from, 1, (CHOOSE i \in foreign : \A j \in foreign : i <= j) - 1)

\* Entries up to the continuation key were on the page before.
After(key, after) == after = None \/ Less(after, key)

Scan(table, request) ==
    LET range == InRange(table, request)
        keys == [i \in DOMAIN range |-> DecodePhysicalKey(range[i], request.namespace)]
        fresh == SelectSeq(keys, LAMBDA k : After(k, request.after))
        page == SubSeq(fresh, 1, request.limit)
    IN  IF ScanError(request) THEN Invalid
        ELSE IF Len(fresh) > request.limit
        THEN [keys |-> page, next |-> page[request.limit]]
        ELSE [keys |-> fresh, next |-> None]

-----------------------------------------------------------------------------
(* Keys of the index.                                                      *)

\* Variant that writes a component without its length.
BareComponent(value) == value

Component(value) == <<Len(value)>> \o value

ScopePrefix(scope, tag) ==
    <<1, tag>> \o Component(scope.chain) \o Component(scope.network)

CheckpointTag == 1
JournalTag == 2
HistoryTag == 3
OutputTag == 4

CheckpointKey(scope) == ScopePrefix(scope, CheckpointTag)

JournalKey(scope, height) == ScopePrefix(scope, JournalTag) \o <<height>>

HistoryPrefix(scope, address) == ScopePrefix(scope, HistoryTag) \o Component(address)

HistoryKey(scope, address, height, transaction) ==
    HistoryPrefix(scope, address) \o <<height>> \o Component(transaction)

OutputPrefix(scope, address) == ScopePrefix(scope, OutputTag) \o Component(address)

OutputKey(scope, address, transaction, index) ==
    OutputPrefix(scope, address) \o Component(transaction) \o <<index>>

IsHistory(scope, key) == IsPrefix(ScopePrefix(scope, HistoryTag), key)

IsOutput(scope, key) == IsPrefix(ScopePrefix(scope, OutputTag), key)

-----------------------------------------------------------------------------
(***************************************************************************)
(* StorageCodec on every small table, scan, frame and pair of index keys,  *)
(* compared with what the caller means: entries are pairs of a namespace   *)
(* and a key, index rows are tuples.                                       *)
(***************************************************************************)

VARIABLES request, reply

\* Names that are prefixes of each other, and keys that complete them.
Namespaces == {<<1>>, <<1, 2>>}
Keys == {<<>>, <<1>>, <<2>>, <<2, 1>>}
Names == {<<1>>, <<2>>, <<1, 2>>, <<2, 2>>}
Scope == [chain : {<<1>>, <<1, 2>>}, network : {<<2>>}]

Row ==
    [tag : {CheckpointTag}, scope : Scope]
    \cup [tag : {JournalTag}, scope : Scope, height : {1, 2}]
    \cup [tag : {HistoryTag}, scope : Scope, address : Names, height : {1, 2},
          transaction : {<<1>>, <<2>>, <<1, 2>>}]
    \cup [tag : {OutputTag}, scope : Scope, address : Names,
          transaction : {<<1>>, <<2>>, <<1, 2>>}, index : {1, 2}]

RowKey(r) ==
    CASE r.tag = CheckpointTag -> CheckpointKey(r.scope)
      [] r.tag = JournalTag -> JournalKey(r.scope, r.height)
      [] r.tag = HistoryTag -> HistoryKey(r.scope, r.address, r.height, r.transaction)
      [] r.tag = OutputTag -> OutputKey(r.scope, r.address, r.transaction, r.index)

Byte == {0, 1, ValueMagic}
Record == [version : Byte, payload : SeqOf(Byte, 2)]

Entries == Namespaces \X Keys

ScanRequest ==
    [namespace : Namespaces, prefix : {<<>>, <<1>>, <<2>>},
     after : {None} \cup Keys, limit : 0..2]

Init ==
    /\ request \in [what : {"scan"}, entries : SUBSET Entries, scan : ScanRequest]
                   \cup [what : {"frame"}, frame : SeqOf(Byte, 5)]
                   \cup [what : {"rows"}, row : Row, other : Row]
    /\ reply = None

\* The table the commits of the entries leave behind.
Table == [p \in {EncodePhysicalKey(e[1], e[2]) : e \in request.entries} |-> TRUE]

Answer ==
    /\ reply = None
    /\ reply' = CASE request.what = "scan" -> Scan(Table, request.scan)
                  [] request.what = "frame" -> DecodeRecord(request.frame)
                  [] request.what = "rows" -> <<RowKey(request.row), RowKey(request.other)>>
    /\ UNCHANGED request

Done == reply # None /\ UNCHANGED <<request, reply>>

Next == Answer \/ Done

Spec == Init /\ [][Next]_<<request, reply>>

-----------------------------------------------------------------------------

Answered(what) == reply # None /\ request.what = what

\* A page of a scan (backend/read.rs) holds the first keys of the namespace that
\* have the prefix and come after the continuation key, in order and each once,
\* and it names a continuation exactly when keys are left: following the
\* continuations lists every key of the prefix and none of another namespace.
ScanIsExact ==
    Answered("scan") =>
        LET s == request.scan
            mine == {e[2] : e \in {x \in request.entries : x[1] = s.namespace}}
            wanted == {k \in mine : IsPrefix(s.prefix, k) /\ (s.after # None => Less(s.after, k))}
        IN  reply # Invalid =>
              /\ Len(reply.keys) = IF Cardinality(wanted) > s.limit THEN s.limit
                                   ELSE Cardinality(wanted)
              /\ ToSet(reply.keys) \subseteq wanted
              /\ \A i, j \in DOMAIN reply.keys : i < j => Less(reply.keys[i], reply.keys[j])
              /\ \A k \in wanted \ ToSet(reply.keys) :
                    /\ reply.next # None
                    /\ \A i \in DOMAIN reply.keys : Less(reply.keys[i], k)
              /\ reply.next # None => /\ reply.next = Last(reply.keys)
                                      /\ Cardinality(wanted) > s.limit

\* A frame is accepted (codec.rs) exactly when some record encodes to it, and
\* then it decodes to that record: a truncated, extended or foreign frame is
\* reported as corrupt, never read as another value.
FramesAreExact ==
    Answered("frame") =>
        IF reply = Corrupt
        THEN \A r \in Record : request.frame # EncodeRecord(r)
        ELSE EncodeRecord(reply) = request.frame

\* Two index rows (keys.rs) share a key only when they are one row; a row is under
\* an address's prefix, or under a scope's, only when it belongs to it; and an
\* address's history is kept in the order of the heights.
RowsAreApart ==
    Answered("rows") =>
        LET r == request.row
            o == request.other
        IN  /\ reply[1] = reply[2] => r = o
            /\ r.tag = HistoryTag /\ o.tag = HistoryTag =>
                  /\ IsPrefix(HistoryPrefix(r.scope, r.address), reply[2])
                     <=> (r.scope = o.scope /\ r.address = o.address)
                  /\ r.scope = o.scope /\ r.address = o.address /\ r.height < o.height
                     => Less(reply[1], reply[2])
            /\ r.tag = OutputTag =>
                  (IsPrefix(OutputPrefix(r.scope, r.address), reply[2])
                   <=> (o.tag = OutputTag /\ r.scope = o.scope /\ r.address = o.address))
            /\ IsHistory(r.scope, reply[2]) <=> (o.tag = HistoryTag /\ r.scope = o.scope)
            /\ IsOutput(r.scope, reply[2]) <=> (o.tag = OutputTag /\ r.scope = o.scope)
=============================================================================
