------------------------------ MODULE WireFormat ------------------------------
(***************************************************************************)
(* The binary format of the protocol messages (format/binrw.rs).  A        *)
(* datagram is a header of HeaderLen bytes and a payload of objects, each  *)
(* with a type, a 16-bit length and fields.  A field of the model keeps    *)
(* its width in bytes and its value, so every length the code computes,    *)
(* truncates and compares is computed here with the code's numbers, while  *)
(* the bytes inside a field are not represented.  A reader that takes a    *)
(* field of another width than the one written is out of step.             *)
(*                                                                         *)
(* The second pass the code makes over the payload for the data object of  *)
(* a message (store, fetch, error, update) reads in ReadObject as well:    *)
(* each pass skips the objects of the other.  The limits on the number of  *)
(* list entries (u16::MAX) are left out: such a list exceeds the limit on  *)
(* the message.                                                            *)
(***************************************************************************)
EXTENDS Naturals, Sequences, FiniteSets, SequencesExt

CONSTANT None

HeaderLen == 55
IdSize == 14
MaxU8 == 255
MaxU16 == 65535
MaxRouteIndex == 1023

-----------------------------------------------------------------------------
(* Codes.  Reading a code that is none of these gives "Other".             *)

KindCode ==
    [ULNHello |-> 1, ULNDiscReq |-> 3, ULNDiscRsp |-> 4, FindNodeReq |-> 9,
     FindNodeRsp |-> 10, QueryRouteReq |-> 11, QueryRouteRsp |-> 12,
     UpdateRouteReq |-> 17, ProbeReq |-> 33, ProbeRsp |-> 34, Error |-> 112,
     PathSetupReq |-> 129, PathSetupRsp |-> 130, PathTeardownReq |-> 131,
     StoreReq |-> 161, StoreRsp |-> 162, FetchReq |-> 163, FetchRsp |-> 164]

ObjectCode ==
    [SourceRoute |-> 1, NotViaList |-> 2, ContactList |-> 3, RTableRequest |-> 4,
     RTable |-> 5, RTableUpdateInfo |-> 6, ErrorData |-> 7, StoreReqData |-> 128,
     StoreRspData |-> 129, FetchReqData |-> 130, FetchRspData |-> 131]

RequestCode ==
    [None |-> 0, ContactsOnly |-> 1, OverlayNeighbors |-> 2,
     OverlayNeighborsSource |-> 3, ULNVicinity |-> 4]

ActionCode == [Announce |-> 0, WithDraw |-> 1, Change |-> 2, Unreachable |-> 3]

ErrorCode == [DeadEnd |-> 10, SegmentFailure |-> 5, RouteFailureWrongHop |-> 11]

StoreCode == [Created |-> 0, Inserted |-> 1, Updated |-> 2]

FetchCode == [Ok |-> 0, NotFoundErr |-> 1]

Decode(codes, n) ==
    IF \E t \in DOMAIN codes : codes[t] = n
    THEN CHOOSE t \in DOMAIN codes : codes[t] = n
    ELSE "Other"

NoDataKind == {"ProbeReq", "ProbeRsp", "PathSetupReq", "PathTeardownReq"}
NeighborKind == {"ULNDiscReq", "ULNDiscRsp"}
TableKind == {"QueryRouteRsp", "FindNodeRsp"}
RequestKind == {"QueryRouteReq", "FindNodeReq"}
RoutedKind ==
    NoDataKind \cup TableKind \cup RequestKind
        \cup {"UpdateRouteReq", "Error", "StoreReq", "StoreRsp", "FetchReq", "FetchRsp"}

-----------------------------------------------------------------------------
(* Fields                                                                  *)

Field(width, value) == [w |-> width, v |-> value]
Id(n) == Field(IdSize, n)
U8(n) == Field(1, n)
U16(n) == Field(2, n)
U32(n) == Field(4, n)
U64(n) == Field(8, n)

(* What is written where the code has no value to write yet.               *)
Placeholder == "max"

Size(fields) == FoldLeft(LAMBDA n, f : n + f.w, 0, fields)

Ids(nodes) == [i \in DOMAIN nodes |-> Id(nodes[i])]

Total(Length(_), items) == FoldLeft(LAMBDA n, x : n + Length(x), 0, items)

Concat(Entry(_), items) == FlattenSeq([i \in DOMAIN items |-> Entry(items[i])])

(* Links are undirected and stored with their ends in order.               *)
Link(a, b) == IF a < b THEN <<a, b>> ELSE <<b, a>>

-----------------------------------------------------------------------------
(* Writing.  An object's length is computed as the code computes it, apart *)
(* from its fields, and cut to 16 bits.                                    *)

Object(type, length, fields) ==
    <<Field(3, [type |-> ObjectCode[type], length |-> length % (MaxU16 + 1)])>> \o fields

RouteObject(route) ==
    Object("SourceRoute", 2 + Len(route.ids) * IdSize,
           <<U16(route.progress)>> \o Ids(route.ids))

(* The age of an entry is not sent, and an empty list is not sent at all.  *)
NotViaObject(notVia) ==
    LET links == IF notVia = None THEN <<>> ELSE SetToSeq({e.link : e \in notVia})
    IN  IF links = <<>> THEN <<>>
        ELSE Object("NotViaList", Len(links) * (2 * IdSize + 4),
                    Concat(LAMBDA l : <<Id(l[1]), Id(l[2]), U32(0)>>, links))

ContactListObject(contacts) ==
    IF contacts = <<>> THEN <<>>
    ELSE Object("ContactList", Len(contacts) * (IdSize + 4 + 4 + 2),
                Concat(LAMBDA c : <<Id(Last(c.path)), U32(c.ssn),
                                    U32(Placeholder), U16(Placeholder)>>, contacts))

TableEntry(contact) ==
    <<Id(Last(contact.path)), U16(Len(contact.path))>> \o Ids(contact.path)
        \o <<U32(contact.ssn), U32(Placeholder), U16(Placeholder)>>

TableEntryLength(contact) == IdSize + Len(contact.path) * IdSize + 2 + 4 + 4 + 2

RTableObject(contacts) ==
    IF contacts = <<>> THEN <<>>
    ELSE Object("RTable", Total(TableEntryLength, contacts), Concat(TableEntry, contacts))

UpdateObject(actions) ==
    LET items == SetToSeq(actions)
    IN  IF items = <<>> THEN <<>>
        ELSE Object("RTableUpdateInfo",
                    Total(LAMBDA u : TableEntryLength(u.contact) + 1, items),
                    Concat(LAMBDA u : TableEntry(u.contact) \o <<U8(ActionCode[u.action])>>,
                           items))

(* The query carries the node degree of the sender as its radius; larger   *)
(* radii than a byte can hold are sent as the largest.                     *)
RequestObject(message) ==
    LET type == IF message.kind = "QueryRouteReq" THEN "ULNVicinity" ELSE "OverlayNeighbors"
        radius == IF message.kind = "QueryRouteReq"
                  THEN message.header.degree ELSE message.data
    IN  Object("RTableRequest", 2,
               <<U8(RequestCode[type]), U8(IF radius > MaxU8 THEN MaxU8 ELSE radius)>>)

(* Mutant: the source of the error is written behind the link.             *)
ErrorFieldsSourceLast(data) == <<Id(data.link[1]), Id(data.link[2]), Id(data.source)>>

ErrorFields(data) == <<Id(data.source), Id(data.link[1]), Id(data.link[2])>>

ErrorObject(data) ==
    IF data.kind = "DeadEnd"
    THEN Object("ErrorData", 1, <<U8(ErrorCode[data.kind])>>)
    ELSE Object("ErrorData", 1 + 3 * IdSize, <<U8(ErrorCode[data.kind])>> \o ErrorFields(data))

StoreReqObject(data) ==
    Object("StoreReqData", IdSize + 2 + data.value.len + (IF data.age = None THEN 0 ELSE 8),
           <<Id(data.handle), U16(data.value.len), Field(data.value.len, data.value)>>
               \o (IF data.age = None THEN <<>> ELSE <<U64(data.age)>>))

FetchRspObject(values) ==
    IF values = None
    THEN Object("FetchRspData", 1, <<U8(FetchCode.NotFoundErr)>>)
    ELSE Object("FetchRspData", 1 + 2 + Total(LAMBDA v : 2 + v.len, values),
                <<U8(FetchCode.Ok), U16(Len(values))>>
                    \o Concat(LAMBDA v : <<U16(v.len), Field(v.len, v)>>, values))

DataObject(kind, data) ==
    CASE kind = "StoreReq" -> StoreReqObject(data)
      [] kind = "StoreRsp" -> Object("StoreRspData", 1, <<U8(StoreCode[data])>>)
      [] kind = "FetchReq" -> Object("FetchReqData", IdSize, <<Id(data)>>)
      [] kind = "FetchRsp" -> FetchRspObject(data)

Payload(message) ==
    LET kind == message.kind
        route == RouteObject(message.route)
        notVia == NotViaObject(message.notVia)
    IN  CASE kind = "ULNHello" -> <<>>
          [] kind \in NeighborKind -> ContactListObject(message.data)
          [] kind \in NoDataKind -> route \o notVia
          [] kind \in RequestKind -> RequestObject(message) \o route \o notVia
          [] kind \in TableKind -> route \o notVia \o RTableObject(message.data)
          [] kind = "UpdateRouteReq" -> route \o notVia \o UpdateObject(message.data)
          [] kind = "Error" -> notVia \o route \o ErrorObject(message.data)
          [] OTHER -> route \o notVia \o DataObject(kind, message.data)

(* A value or a route whose own limit is exceeded, and a store error, are  *)
(* refused while the objects are written.                                  *)
Unwritable(message) ==
    \/ message.kind \in RoutedKind /\ message.route.progress > MaxRouteIndex
    \/ message.kind = "StoreReq" /\ message.data.value.len > MaxU16
    \/ message.kind = "StoreRsp" /\ message.data \notin DOMAIN StoreCode
    \/ /\ message.kind = "FetchRsp" /\ message.data # None
       /\ 3 + Total(LAMBDA v : 2 + v.len, message.data) > MaxU16

(* Mutant: the length of the whole message is not checked.                 *)
TooLongNever(payload) == FALSE

TooLong(payload) == HeaderLen + Size(payload) > MaxU16

Datagram(message, payload) ==
    [kind |-> KindCode[message.kind], header |-> message.header,
     length |-> (HeaderLen + Size(payload)) % (MaxU16 + 1), payload |-> payload]

-----------------------------------------------------------------------------
(* Reading                                                                 *)

(* The fields an object of the given length holds, which begin behind      *)
(* position at: everything up to the last field that ends there.           *)
ContentEnds(payload, at, length) ==
    {e \in at .. Len(payload) : Size(SubSeq(payload, at + 1, e)) = length}

ContentEnd(payload, at, length) ==
    CHOOSE e \in ContentEnds(payload, at, length) :
        \A d \in ContentEnds(payload, at, length) : d <= e

(* The fields have the widths the reader takes them with.                  *)
InStep(fields, widths) ==
    /\ Len(fields) % Len(widths) = 0
    /\ \A i \in DOMAIN fields : fields[i].w = widths[((i - 1) % Len(widths)) + 1]

Nodes(fields, from, count) == [i \in 1 .. count |-> fields[from + i - 1].v]

(* The entries of a table whose fields begin at position i, each followed  *)
(* by extra fields; <<>> also where the rest is malformed.                 *)
Entries(fields, extra) ==
    LET At[i \in 1 .. Len(fields) + 1] ==
            IF i + 4 > Len(fields) \/ i + fields[i + 1].v + 4 + extra > Len(fields)
            THEN <<>>
            ELSE LET n == fields[i + 1].v
                 IN  <<[id |-> fields[i].v, path |-> Nodes(fields, i + 2, n),
                        ssn |-> fields[i + 2 + n].v, last |-> fields[i + 4 + n + extra].v]>>
                         \o At[i + 5 + n + extra]
    IN  At[1]

EntryLength(entry, extra) == IdSize + Len(entry.path) * IdSize + 2 + 4 + 4 + 2 + extra

Contact(path, ssn) == [path |-> path, ssn |-> ssn]

(* Only the size of the path vector is compared with what is left of the   *)
(* object, not the bytes it takes; the first test asks for one hop.        *)
TableMalformed(fields, length, extra) ==
    LET entries == Entries(fields, extra)
        Left(i) == length - Total(LAMBDA e : EntryLength(e, extra), SubSeq(entries, 1, i - 1))
    IN  \/ Total(LAMBDA e : EntryLength(e, extra), entries) # length
        \/ \E i \in DOMAIN entries :
              \/ Left(i) < 2 * IdSize + 12 + extra
              \/ Left(i) < IdSize + Len(entries[i].path) + 12 + extra
              \/ entries[i].path = <<>>
              \/ entries[i].ssn = 0

FetchMalformed(fields, length) ==
    CASE Decode(FetchCode, fields[1].v) = "NotFoundErr" -> length # 1
      [] Decode(FetchCode, fields[1].v) = "Ok" ->
            \/ length < 3
            \/ Len(fields) # 2 + 2 * fields[2].v
            \/ \E i \in 1 .. fields[2].v : fields[1 + 2 * i].v # fields[2 + 2 * i].w
      [] OTHER -> TRUE

ErrorMalformed(fields, length) ==
    \/ length < 1
    \/ length # (CASE Decode(ErrorCode, fields[1].v) = "DeadEnd" -> 1
                   [] Decode(ErrorCode, fields[1].v) = "Other" -> 0
                   [] OTHER -> 1 + 3 * IdSize)

StoreReqMalformed(fields, length) ==
    length < IdSize + 2 \/ length - (IdSize + 2 + fields[2].v) \notin {0, 8}

StoreRspMalformed(fields, length) ==
    length # 1 \/ Decode(StoreCode, fields[1].v) = "Other"

FetchReqMalformed(length) == length # IdSize

(* The conditions under which an object is refused.                        *)
Malformed(type, length, fields) ==
    CASE type = "SourceRoute" ->
            length < 2 \/ (length - 2) % IdSize # 0 \/ (length - 2) \div IdSize < 2
      [] type = "NotViaList" -> length % (2 * IdSize + 4) # 0
      [] type = "ContactList" ->
            \/ length % (IdSize + 10) # 0
            \/ \E i \in DOMAIN fields : i % 4 = 2 /\ fields[i].v = 0
      [] type = "RTable" -> TableMalformed(fields, length, 0)
      [] type = "RTableUpdateInfo" -> TableMalformed(fields, length, 1)
      [] type = "RTableRequest" -> length # 2
      [] type = "ErrorData" -> ErrorMalformed(fields, length)
      [] type = "StoreReqData" -> StoreReqMalformed(fields, length)
      [] type = "StoreRspData" -> StoreRspMalformed(fields, length)
      [] type = "FetchReqData" -> FetchReqMalformed(length)
      [] type = "FetchRspData" -> length < 1 \/ FetchMalformed(fields, length)
      [] OTHER -> FALSE

(* The reader takes each field with the width it was written with.         *)
Aligned(type, fields) ==
    CASE type = "SourceRoute" -> fields[1].w = 2 /\ InStep(Tail(fields), <<IdSize>>)
      [] type = "NotViaList" -> InStep(fields, <<IdSize, IdSize, 4>>)
      [] type = "ContactList" -> InStep(fields, <<IdSize, 4, 4, 2>>)
      [] type = "RTableRequest" -> InStep(fields, <<1>>)
      [] OTHER -> TRUE

(* A new route stands at 1 and is advanced index - 1 times, never beyond   *)
(* its end.                                                                *)
ReadRoute(fields) ==
    LET ids == [i \in 1 .. Len(fields) - 1 |-> fields[i + 1].v]
        index == fields[1].v
    IN  [ids |-> ids,
         progress |-> CASE index < 1 -> 1
                        [] index >= 1 /\ index > Len(ids) - 1 -> Len(ids) - 1
                        [] OTHER -> index]

ReadNotVia(fields) ==
    {[link |-> Link(fields[3 * i + 1].v, fields[3 * i + 2].v), age |-> fields[3 * i + 3].v] :
        i \in 0 .. (Len(fields) \div 3) - 1}

ReadError(fields) ==
    LET kind == Decode(ErrorCode, fields[1].v)
    IN  IF kind = "DeadEnd" THEN [kind |-> kind]
        ELSE [kind |-> kind, source |-> fields[2].v, link |-> Link(fields[3].v, fields[4].v)]

ReadStoreReq(fields) ==
    [handle |-> fields[1].v, value |-> fields[3].v,
     age |-> IF Len(fields) = 3 THEN None ELSE fields[4].v]

ReadFetchRsp(fields) ==
    IF Decode(FetchCode, fields[1].v) = "NotFoundErr" THEN None
    ELSE [i \in 1 .. fields[2].v |-> fields[2 + 2 * i].v]

(* The two assertions of the reader: a table entry is about the end of its *)
(* path, and the route stands where its index says.                        *)
AssertionFails(type, fields) ==
    CASE type = "RTable" ->
            \E e \in ToSet(Entries(fields, 0)) : e.id # Last(e.path)
      [] type = "RTableUpdateInfo" ->
            \E e \in ToSet(Entries(fields, 1)) : e.id # Last(e.path)
      [] type = "SourceRoute" -> ReadRoute(fields).progress # fields[1].v
      [] OTHER -> FALSE

Parsed ==
    [route |-> None, notVia |-> {}, contacts |-> <<>>, table |-> <<>>,
     request |-> None, data |-> None, hasData |-> FALSE]

WithData(parsed, data) == [parsed EXCEPT !.data = data, !.hasData = TRUE]

ReadObject(parsed, type, fields) ==
    CASE type = "SourceRoute" -> [parsed EXCEPT !.route = ReadRoute(fields)]
      [] type = "NotViaList" -> [parsed EXCEPT !.notVia = @ \cup ReadNotVia(fields)]
      [] type = "ContactList" ->
            [parsed EXCEPT !.contacts = @ \o
                [i \in 1 .. Len(fields) \div 4 |->
                    Contact(<<fields[4 * i - 3].v>>, fields[4 * i - 2].v)]]
      [] type = "RTable" ->
            LET entries == Entries(fields, 0)
            IN  [parsed EXCEPT !.table = @ \o
                    [i \in DOMAIN entries |-> Contact(entries[i].path, entries[i].ssn)]]
      [] type = "RTableRequest" ->
            [parsed EXCEPT !.request = [type |-> Decode(RequestCode, fields[1].v),
                                        radius |-> fields[2].v]]
      [] type = "RTableUpdateInfo" ->
            WithData(parsed, {[contact |-> Contact(e.path, e.ssn),
                               action |-> Decode(ActionCode, e.last)] :
                              e \in ToSet(Entries(fields, 1))})
      [] type = "ErrorData" -> WithData(parsed, ReadError(fields))
      [] type = "StoreReqData" -> WithData(parsed, ReadStoreReq(fields))
      [] type = "StoreRspData" -> WithData(parsed, Decode(StoreCode, fields[1].v))
      [] type = "FetchReqData" -> WithData(parsed, fields[1].v)
      [] type = "FetchRspData" -> WithData(parsed, ReadFetchRsp(fields))
      [] OTHER -> parsed

(* What is missing makes the message unusable, except that an update       *)
(* without entries has no update object.                                   *)
Incomplete(kind, parsed) ==
    \/ kind \in RoutedKind /\ parsed.route = None
    \/ kind \in {"Error", "StoreReq", "StoreRsp", "FetchReq", "FetchRsp"} /\ ~parsed.hasData
    \/ kind \in RequestKind /\ parsed.request = None
    \/ /\ kind = "QueryRouteReq" /\ parsed.request # None
       /\ parsed.request.type # "ULNVicinity"
    \/ kind = "FindNodeReq" /\ parsed.request # None /\ parsed.request.radius = 0
    \/ kind \in {"Other", "PathSetupRsp"}

Assembled(kind, header, parsed) ==
    [kind |-> kind, header |-> header, route |-> parsed.route,
     notVia |-> IF kind \in RoutedKind THEN parsed.notVia ELSE None,
     data |-> CASE kind \in NeighborKind -> parsed.contacts
                [] kind \in TableKind -> parsed.table
                [] kind = "FindNodeReq" -> parsed.request.radius
                [] kind = "UpdateRouteReq" -> IF parsed.hasData THEN parsed.data ELSE {}
                [] OTHER -> parsed.data]

=============================================================================
