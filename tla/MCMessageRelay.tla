---------------------------- MODULE MCMessageRelay ----------------------------
(* Messages of every kind.  The sizes of the stored values reach the limit *)
(* of a message exactly, pass it, and pass it once the route has grown.    *)
EXTENDS MessageRelay

Header(dst) == [src |-> 1, dest |-> dst, ssn |-> 7, degree |-> 300]

Route(ids) == [ids |-> ids, progress |-> 1]

Routes == {Route(<<1, 2>>), Route(<<1, 3, 2>>), Route(<<1, 3, 4, 2>>)}

NotVias == {None, {}, {[link |-> <<2, 3>>, age |-> 5]},
            {[link |-> <<2, 3>>, age |-> 5], [link |-> <<1, 4>>, age |-> 0]}}

TableContacts == {<<>>, <<Contact(<<4>>, 1)>>, <<Contact(<<4, 3>>, 2), Contact(<<4>>, 1)>>,
                  <<Contact(<<4>>, 3), Contact(<<4, 3, 5>>, 1)>>}

Actions == {{}, {[contact |-> Contact(<<4>>, 1), action |-> "WithDraw"]},
            {[contact |-> Contact(<<4, 3>>, 2), action |-> "Unreachable"],
             [contact |-> Contact(<<5>>, 1), action |-> "Announce"]}}

Errors == {[kind |-> "DeadEnd"],
           [kind |-> "SegmentFailure", source |-> 3, link |-> <<3, 4>>],
           [kind |-> "RouteFailureWrongHop", source |-> 3, link |-> <<1, 3>>]}

(* A store over two hops with the largest value that fits has 65428 bytes. *)
Values == {[len |-> n, id |-> "v"] : n \in {0, 8, 65400, 65428, 65429, 65536}}

Stores == {[handle |-> 5, value |-> v, age |-> a] : v \in Values, a \in {None, 9}}

Fetched == {None, <<>>, <<[len |-> 0, id |-> "v"]>>,
            <<[len |-> 3, id |-> "v"], [len |-> 0, id |-> "w"]>>,
            <<[len |-> 65530, id |-> "v"]>>}

Data(kind) ==
    CASE kind \in NoDataKind \cup {"QueryRouteReq"} -> {None}
      [] kind \in TableKind -> TableContacts
      [] kind = "FindNodeReq" -> {1, 255, 300}
      [] kind = "UpdateRouteReq" -> Actions
      [] kind = "Error" -> Errors
      [] kind = "StoreReq" -> Stores
      [] kind = "StoreRsp" -> {"Created", "Inserted", "Updated", "UnexpectedError"}
      [] kind = "FetchReq" -> {5}
      [] kind = "FetchRsp" -> Fetched

RoutedMessages(kind) ==
    [kind : {kind}, header : {Header(2), Header(5)}, route : Routes, notVia : NotVias,
     data : Data(kind)]

NeighborMessages ==
    [kind : NeighborKind, header : {Header(2)}, route : {None}, notVia : {None},
     data : {<<>>, <<Contact(<<4>>, 1)>>, <<Contact(<<4>>, 1), Contact(<<5>>, 2)>>}]
        \cup [kind : {"ULNHello"}, header : {Header(2)}, route : {None}, notVia : {None},
              data : {None}]

AllMessages == NeighborMessages \cup UNION {RoutedMessages(k) : k \in RoutedKind}

AllOverlayPaths == {<<5>>, <<4, 5>>}
=============================================================================
