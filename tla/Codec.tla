-------------------------------- MODULE Codec --------------------------------
(***************************************************************************)
(* The protocol package as far as the proxy opens broker replies with it:  *)
(* the field types and structs of schema.go, their decoding                *)
(* (real_decoder.go), the two passes of their encoding (prep_encoder.go,   *)
(* real_encoder.go) and the schemas of the Metadata and FindCoordinator    *)
(* replies (responses.go).                                                 *)
(*                                                                         *)
(* A message is a sequence of cells.  A number of any width (a bool, an    *)
(* int16, an int32, a varint, a uuid) is one cell, a string is a length    *)
(* and its characters, a cell each.  Cells carry no type: decoded at the   *)
(* wrong place, they are something else.                                   *)
(***************************************************************************)
EXTENDS Integers, Sequences, SequencesExt

CONSTANTS
    MaxInt16,    \* math.MaxInt16: longest string and compact array of the encoder
    MaxMessage   \* MaxRequestSize and MaxResponseSize, in cells

ASSUME CodecAssumption == MaxInt16 \in Nat \ {0} /\ MaxMessage \in Nat

maxArrayLength == 2 * (2 * MaxInt16 + 1)

Ok(value, off) == [ok |-> TRUE, value |-> value, off |-> off]
Failed == [ok |-> FALSE, value |-> <<>>, off |-> 0]

\* A null string or null bytes.
Null == <<-1>>

------------------------------------------------------------------------------
(* A decoded value is a tree: a number or string has cells, a struct or an   *)
(* array has items.  The deepest values are the partitions of a topic with   *)
(* their tagged fields: seven levels above a leaf.                           *)

Leaf(cells) == [cells |-> cells, items |-> <<>>]
Tree(items) == [cells |-> <<>>, items |-> items]

Leaves == [cells : Seq(Int), items : {<<>>}]
Above(below) == [cells : Seq(Int), items : Seq(below)]
Values == Above(Above(Above(Above(Above(Above(Above(Leaves)))))))

\* The first n of some sequences one after the other, and the sum of n numbers.
JoinedUpTo(n, parts) ==
    LET upTo[k \in 0..n] == IF k = 0 THEN <<>> ELSE upTo[k - 1] \o parts[k] IN upTo
Joined(n, parts) == JoinedUpTo(n, parts)[n]
TotalUpTo(n, numbers) ==
    LET upTo[k \in 0..n] == IF k = 0 THEN 0 ELSE upTo[k - 1] + numbers[k] IN upTo
Total(n, numbers) == TotalUpTo(n, numbers)[n]

------------------------------------------------------------------------------
(* realDecoder: off cells of raw have been read.                             *)

\* A compact length is stored plus one, so that zero can stand for null.
Bias(kind) == IF kind \in {"compactStr", "compactNullableStr", "compactArray"} THEN 1 ELSE 0

getNumber(raw, off) ==
    IF off < Len(raw) THEN Ok(Leaf(<<raw[off + 1]>>), off + 1) ELSE Failed

getBool(raw, off) ==
    IF off < Len(raw) /\ raw[off + 1] \in {0, 1} THEN getNumber(raw, off) ELSE Failed

\* The length before a string or an array: not below what the kind allows, and
\* never more than there is left to read.  (For tagged fields the code does not compare:
\* a count beyond the rest fails all the same, when the fields run out.)
getLength(kind, raw, off) ==
    LET n == raw[off + 1] - Bias(kind)
        lowest == IF kind \in {"compactStr", "compactArray", "taggedFields"} THEN 0 ELSE -1
    IN  IF \/ off >= Len(raw)
           \/ kind # "array" /\ n < lowest
           \/ n > Len(raw) - (off + 1)
           \/ kind = "array" /\ n > maxArrayLength
        THEN Failed
        ELSE Ok(n, off + 1)

\* A null in a plain string is read as the empty string.
getString(kind, raw, off) ==
    LET n == getLength(kind, raw, off) IN
    IF ~n.ok THEN Failed
    ELSE IF n.value = -1 THEN Ok(Leaf(IF kind = "str" THEN <<>> ELSE Null), n.off)
    ELSE Ok(Leaf(SubSeq(raw, n.off + 1, n.off + n.value)), n.off + n.value)

\* schema.decode and decodeArrayElements: one value after the other, until one fails.
DecodeNext(soFar, type, raw) ==
    LET next == type.decode[raw][soFar.off] IN
    IF soFar.ok /\ next.ok THEN Ok(Append(soFar.value, next.value), next.off) ELSE Failed
DecodeUpTo(types, raw, off) ==
    LET upTo[k \in 0..Len(types)] ==
            IF k = 0 THEN Ok(<<>>, off) ELSE DecodeNext(upTo[k - 1], types[k], raw)
    IN  upTo
DecodeEach(types, raw, off) ==
    LET all == DecodeUpTo(types, raw, off)[Len(types)] IN
    IF all.ok THEN Ok(Tree(all.value), all.off) ELSE Failed

------------------------------------------------------------------------------
(* Types.  A type is what schema.go makes of it, an EncoderDecoder: how a    *)
(* value is decoded, which values the encoders take (prepEncoder refuses the *)
(* others), how long prepEncoder measures them and what realEncoder writes.  *)
(* Beside these, the values of the type that a broker may send, and which of *)
(* them the decoder takes.                                                   *)

Field(name, type) == [name |-> name, type |-> type]

Number(numbers, get) ==
    [fields    |-> <<>>,
     values    |-> {v \in Values : v.items = <<>> /\ Len(v.cells) = 1 /\ v.cells[1] \in numbers},
     readable  |-> [v \in Values |-> TRUE],
     decode    |-> get,
     encodable |-> [v \in Values |-> TRUE],
     measure   |-> [v \in Values |-> 1],
     encode    |-> [v \in Values |-> v.cells]]

TypeNumber == Number(Int, [raw \in Seq(Int) |-> [off \in Nat |-> getNumber(raw, off)]])
TypeBool   == Number({0, 1}, [raw \in Seq(Int) |-> [off \in Nat |-> getBool(raw, off)]])

PrepString(s) == IF s = Null THEN 1 ELSE 1 + Len(s)
PutString(kind, s) == IF s = Null THEN <<Bias(kind) - 1>> ELSE <<Len(s) + Bias(kind)>> \o s

Nullable == {"nullableStr", "compactNullableStr", "bytes"}
Unlimited == {"varintBytes", "bytes"}
String(kind) ==
    [fields    |-> <<>>,
     values    |-> {v \in Values : /\ v.items = <<>>
                                   /\ v.cells \in Seq(Nat) \/ (kind \in Nullable /\ v.cells = Null)},
     readable  |-> [v \in Values |-> TRUE],
     decode    |-> [raw \in Seq(Int) |-> [off \in Nat |-> getString(kind, raw, off)]],
     encodable |-> [v \in Values |-> kind \in Unlimited \/ Len(v.cells) <= MaxInt16],
     measure   |-> [v \in Values |-> PrepString(v.cells)],
     encode    |-> [v \in Values |-> PutString(kind, v.cells)]]

TypeStr                == String("str")
TypeNullableStr        == String("nullableStr")
TypeCompactStr         == String("compactStr")
TypeCompactNullableStr == String("compactNullableStr")
TypeBytes              == String("bytes")

ListOf(kind, type) ==
    [fields    |-> <<Field("element", type)>>,
     values    |-> {v \in Values : v.cells = <<>> /\ \A i \in DOMAIN v.items : v.items[i] \in type.values},
     readable  |-> [v \in Values |-> /\ kind = "array" => Len(v.items) <= maxArrayLength
                                     /\ \A i \in DOMAIN v.items : type.readable[v.items[i]]],
     decode    |-> [raw \in Seq(Int) |-> [off \in Nat |->
                      LET n == getLength(kind, raw, off) IN
                      IF n.ok THEN DecodeEach([i \in 1..n.value |-> type], raw, n.off) ELSE Failed]],
     encodable |-> [v \in Values |-> /\ kind = "compactArray" => Len(v.items) <= MaxInt16
                                     /\ \A i \in DOMAIN v.items : type.encodable[v.items[i]]],
     measure   |-> [v \in Values |-> 1 + Total(Len(v.items), [i \in DOMAIN v.items |-> type.measure[v.items[i]]])],
     encode    |-> [v \in Values |-> <<Len(v.items) + Bias(kind)>>
                                     \o Joined(Len(v.items), [i \in DOMAIN v.items |-> type.encode[v.items[i]]])]]

Array(type)        == ListOf("array", type)
CompactArray(type) == ListOf("compactArray", type)

NewSchema(fields) ==
    [fields    |-> fields,
     values    |-> {v \in Values : /\ v.cells = <<>> /\ Len(v.items) = Len(fields)
                                   /\ \A i \in DOMAIN fields : v.items[i] \in fields[i].type.values},
     readable  |-> [v \in Values |-> \A i \in DOMAIN fields : fields[i].type.readable[v.items[i]]],
     decode    |-> [raw \in Seq(Int) |-> [off \in Nat |->
                      DecodeEach([i \in DOMAIN fields |-> fields[i].type], raw, off)]],
     encodable |-> [v \in Values |-> \A i \in DOMAIN fields : fields[i].type.encodable[v.items[i]]],
     measure   |-> [v \in Values |-> Total(Len(fields), [i \in DOMAIN fields |-> fields[i].type.measure[v.items[i]]])],
     encode    |-> [v \in Values |-> Joined(Len(fields), [i \in DOMAIN fields |-> fields[i].type.encode[v.items[i]]])]]

rawTaggedField == NewSchema(<<Field("tag", TypeNumber), Field("data", String("varintBytes"))>>)
SchemaTaggedFields == ListOf("taggedFields", rawTaggedField)

\* The whole buffer, and nothing less.
DecodeSchema(raw, s) ==
    LET r == s.decode[raw][0] IN IF r.ok /\ r.off = Len(raw) THEN r ELSE Failed

\* The buffer has the measured length: what is not written stays zero, and writing
\* past its end panics.
EncodeSchema(v, s) ==
    LET n == s.measure[v]
        cells == s.encode[v]
    IN  IF ~s.encodable[v] \/ n > MaxMessage \/ Len(cells) > n THEN Failed
        ELSE Ok([i \in 1..n |-> IF i <= Len(cells) THEN cells[i] ELSE 0], n)

------------------------------------------------------------------------------
(* The schemas of responses.go, by what each version has.                    *)

Since(version, first, fields) == IF version >= first THEN fields ELSE <<>>
Numbers(names) == [i \in 1..Len(names) |-> Field(names[i], TypeNumber)]
Tags == <<Field("tagged_fields", SchemaTaggedFields)>>

Str(flexible) == IF flexible THEN TypeCompactStr ELSE TypeStr
NullableStr(flexible) == IF flexible THEN TypeCompactNullableStr ELSE TypeNullableStr
ArrayOf(flexible, name, type) ==
    <<Field(name, IF flexible THEN CompactArray(type) ELSE Array(type))>>

metadataBroker(v) ==
    NewSchema(Numbers(<<"node_id">>) \o <<Field("host", Str(v >= 9))>> \o Numbers(<<"port">>)
           \o Since(v, 1, <<Field("rack", NullableStr(v >= 9))>>)
           \o Since(v, 9, Tags))

partitionMetadata(v) ==
    NewSchema(Numbers(<<"error_code", "partition", "leader">>)
           \o Since(v, 7, Numbers(<<"leader_epoch">>))
           \o ArrayOf(v >= 9, "replicas", TypeNumber)
           \o ArrayOf(v >= 9, "isr", TypeNumber)
           \o Since(v, 5, ArrayOf(v >= 9, "offline_replicas", TypeNumber))
           \o Since(v, 9, Tags))

topicMetadata(v) ==
    NewSchema(Numbers(<<"error_code">>)
           \o <<Field("name", IF v >= 12 THEN TypeCompactNullableStr ELSE Str(v >= 9))>>
           \o Since(v, 10, Numbers(<<"topic_id">>))
           \o Since(v, 1, <<Field("is_internal", TypeBool)>>)
           \o ArrayOf(v >= 9, "partition_metadata", partitionMetadata(v))
           \o Since(v, 8, Numbers(<<"topic_authorized_operations">>))
           \o Since(v, 9, Tags))

metadataResponse(v) ==
    NewSchema(Since(v, 3, Numbers(<<"throttle_time_ms">>))
           \o ArrayOf(v >= 9, "brokers", metadataBroker(v))
           \o Since(v, 2, <<Field("cluster_id", NullableStr(v >= 9))>>)
           \o Since(v, 1, Numbers(<<"controller_id">>))
           \o ArrayOf(v >= 9, "topic_metadata", topicMetadata(v))
           \o (IF v \in 8..10 THEN Numbers(<<"cluster_authorized_operations">>) ELSE <<>>)
           \o Since(v, 13, Numbers(<<"error_code">>))
           \o Since(v, 9, Tags))

findCoordinatorBroker(v) ==
    NewSchema(Numbers(<<"node_id">>) \o <<Field("host", Str(v >= 3))>> \o Numbers(<<"port">>))

findCoordinatorCoordinators(v) ==
    NewSchema(<<Field("key", TypeCompactStr), Field("coordinator", findCoordinatorBroker(v)),
             Field("error_code", TypeNumber), Field("error_message", TypeCompactNullableStr)>>
           \o Tags)

findCoordinatorResponse(v) ==
    NewSchema(Since(v, 1, Numbers(<<"throttle_time_ms">>))
           \o (IF v >= 4
               THEN ArrayOf(TRUE, "coordinators", findCoordinatorCoordinators(v))
               ELSE Numbers(<<"error_code">>)
                    \o Since(v, 1, <<Field("error_message", NullableStr(v >= 3))>>)
                    \o <<Field("coordinator", findCoordinatorBroker(v))>>)
           \o Since(v, 3, Tags))

------------------------------------------------------------------------------
(* The replies to the proxy's own SASL requests.                             *)

SaslHandshakeResponseV0orV1 ==
    NewSchema(Numbers(<<"error_code">>) \o ArrayOf(FALSE, "mechanisms", TypeStr))

SaslAuthenticateResponseV1 ==
    NewSchema(Numbers(<<"error_code">>)
           \o <<Field("error_message", TypeNullableStr), Field("auth_bytes", TypeBytes)>>
           \o Numbers(<<"session_lifetime_ms">>))

------------------------------------------------------------------------------
apiKeyMetadata == 3
apiKeyFindCoordinator == 10

\* getResponseSchema's bounds: the versions there is a schema for.
Supported(key, version) ==
    version \in 0..IF key = apiKeyMetadata THEN 13 ELSE 6

metadataResponseSchemaVersions == [v \in 0..13 |-> metadataResponse(v)]
findCoordinatorResponseSchemaVersions == [v \in 0..6 |-> findCoordinatorResponse(v)]

ResponseSchema(key, version) ==
    IF key = apiKeyMetadata THEN metadataResponseSchemaVersions[version]
    ELSE findCoordinatorResponseSchemaVersions[version]
=============================================================================
