------------------------------ MODULE Household ------------------------------
(***************************************************************************)
(* The document of the household and the routes that change it              *)
(* (rsswitch_web/api/rooms.py, api/sockets.py), with the checks that every  *)
(* request passes (errors.py, validation.py, model.py) and the checks of    *)
(* the switch routes (api/switch.py), whose effects are in Switching.       *)
(*                                                                          *)
(* A route does all of its work on the document in one Store.mutate(),      *)
(* which is atomic (Store), so a request is one step.  What a failing store *)
(* adds is in Store and Switching.  last_sent is in Switching; the number   *)
(* of an address, which is checked like its group, is left out.             *)
(*                                                                          *)
(* A name is a value of which clean_name() and name_key() are known: Unicode*)
(* is external.                                                             *)
(***************************************************************************)
EXTENDS Integers, Sequences, FiniteSets, SequencesExt

CONSTANTS
  RoomIds, SocketIds,   \* bound: the ids that exist
  Clean,        \* what clean_name() makes of the names that it accepts
  Key,          \* name_key() of every name that can be stored
  Unencodable,  \* the names that cannot be written as UTF-8
  Limit,        \* the number of groups of each type, SOCKET_TYPES
  NotAnInt,     \* a JSON value that is no integer
  Requests,     \* the requests that clients may make
  Documents,    \* the documents that the server may be started with
  NULL

Ids    == RoomIds \cup SocketIds
Names  == DOMAIN Key
Socket == [id : Ids, name : Names, type : STRING, group : {NULL, NotAnInt} \cup Int]
Room   == [id : Ids, name : Names, sockets : Seq(Socket)]

FIELDS == {"name", "type", "group"}   \* of the body of a socket

Routes == {"create_room", "edit_room", "delete_room", "order_rooms", "create_socket",
           "edit_socket", "delete_socket", "order_sockets", "switch", "room_all_off"}

(* The shape of documents and bodies.  A body without a field has no NULL in *)
(* its place, but Get() has.                                                 *)
ASSUME HouseholdAssumption ==
  /\ Clean \in [DOMAIN Clean -> Names]
  /\ Limit \in [DOMAIN Limit -> Nat] /\ DOMAIN Limit \subseteq STRING
  /\ NULL \notin Ids \cup Names \cup DOMAIN Clean \cup FIELDS
  /\ \A d \in Documents : d \in Seq(Room)
  /\ \A q \in Requests :
       /\ q.route \in Routes
       /\ "type" \in DOMAIN q.body => q.body["type"] \in {NULL} \cup STRING
       /\ "group" \in DOMAIN q.body => q.body["group"] \in {NULL, NotAnInt} \cup Int
       /\ "ids" \in DOMAIN q.body => q.body["ids"] \in {NULL} \cup Seq(Ids)

VARIABLE doc    \* the rooms of the document, in their order

-----------------------------------------------------------------------------
(* The ids of a sequence of rooms or sockets; where an id is, 0 if nowhere.  *)
IdsOf(s) == [i \in DOMAIN s |-> s[i].id]
IndexOf(s, id) == LET at == {i \in DOMAIN s : s[i].id = id}
                  IN  IF at = {} THEN 0 ELSE CHOOSE i \in at : TRUE

find_room(d, rid) == IndexOf(d, rid)

(* The room that holds a socket, 0 if none does.                             *)
find_socket(d, sid) ==
  LET at == {i \in DOMAIN d : IndexOf(d[i].sockets, sid) # 0}
  IN  IF at = {} THEN 0 ELSE CHOOSE i \in at : TRUE

SocketOf(d, sid) ==
  LET r == d[find_socket(d, sid)] IN r.sockets[IndexOf(r.sockets, sid)]

SocketsOf(d) == UNION {ToSet(IdsOf(d[i].sockets)) : i \in DOMAIN d}
RoomsOf(d)   == ToSet(IdsOf(d))

(* The ids that new_id() may return.                                         *)
new_id(ids, d) == ids \ (RoomsOf(d) \cup SocketsOf(d))

address_of(s) == <<s.type, s.group>>

address_ok(type, group) ==
  group \notin {NotAnInt, NULL} /\ 0 <= group /\ group < Limit[type]

(* The first problem that check_socket_fields() finds, or NULL.              *)
check_socket_fields(f) ==
  IF f.type \notin DOMAIN Limit THEN "type"
  ELSE IF ~address_ok(f.type, f.group) THEN "group" ELSE NULL

(* _check_id() has seen no id before: not of rooms, not of sockets.          *)
UniqueIds(d) ==
  /\ IsInjective(IdsOf(d))
  /\ \A i, j \in DOMAIN d :
       /\ \A k \in DOMAIN d[i].sockets : d[i].sockets[k].id # d[j].id
       /\ \A k \in DOMAIN d[i].sockets, l \in DOMAIN d[j].sockets :
            d[i].sockets[k].id = d[j].sockets[l].id => i = j /\ k = l

(* check_document(), of a document of the right shape.                       *)
check_document(d) ==
  /\ UniqueIds(d)
  /\ \A i \in DOMAIN d : \A k \in DOMAIN d[i].sockets :
       check_socket_fields(d[i].sockets[k]) = NULL

-----------------------------------------------------------------------------
(* An answer: its status, the field that it names, the document after it and *)
(* the sockets that a warning names.                                         *)
Answer(status, field, d, warn) ==
  [status |-> status, field |-> field, doc |-> d, warn |-> warn]
ApiError(status, field) == Answer(status, field, doc, {})

(* Store.mutate() with what fn made of the document: _write() refuses a      *)
(* changed one that cannot be encoded.                                       *)
Mutated(status, d, warn) ==
  LET names == {d[i].name : i \in DOMAIN d}
                 \cup {SocketOf(d, s).name : s \in SocketsOf(d)}
  IN  IF d # doc /\ names \cap Unencodable # {} THEN ApiError(500, NULL)
      ELSE Answer(status, NULL, d, warn)

(* Whether body has a field that is not allowed (reject_unknown_fields()).   *)
UnknownField(body, allowed) == ~(DOMAIN body \subseteq allowed)

(* body.get(field)                                                           *)
Get(body, field) == IF field \in DOMAIN body THEN body[field] ELSE NULL

clean_name(value) == IF value \in DOMAIN Clean THEN Clean[value] ELSE NULL

(* Another entry of s has the name.                                          *)
NameTaken(s, name, own) ==
  \E i \in DOMAIN s : s[i].id # own /\ Key[s[i].name] = Key[name]

(* check_room_name() and check_socket_name() raise.                          *)
RoomNameTaken(name, own) == NameTaken(doc, name, own)
SocketNameTaken(i, name, own) == NameTaken(doc[i].sockets, name, own)

(* duplicate_warnings()                                                      *)
duplicate_warnings(d, sid) ==
  {t \in SocketsOf(d) \ {sid} : address_of(SocketOf(d, t)) = address_of(SocketOf(d, sid))}

(* remove() of the entry.                                                    *)
Without(s, id) == RemoveAt(s, IndexOf(s, id))

(* The document with another name, or with the sockets ss, in room i.        *)
Renamed(d, i, name) == [d EXCEPT ![i].name = name]
Refill(d, i, ss)    == [d EXCEPT ![i].sockets = ss]

-----------------------------------------------------------------------------
create_room(body, id) ==
  LET name == clean_name(Get(body, "name"))
  IN  IF UnknownField(body, {"name"}) THEN ApiError(422, "unknown")
      ELSE IF name = NULL THEN ApiError(422, "name")
      ELSE IF RoomNameTaken(name, NULL) THEN ApiError(409, "name")
      ELSE Mutated(201, Append(doc, [id |-> id, name |-> name, sockets |-> <<>>]), {})

(* Mutant: a room may take the name of another one when it is renamed.       *)
edit_room_unchecked(rid, body) ==
  LET i == find_room(doc, rid)
      name == clean_name(Get(body, "name"))
  IN  IF i = 0 THEN ApiError(404, NULL)
      ELSE IF UnknownField(body, {"name"}) THEN ApiError(422, "unknown")
      ELSE IF DOMAIN body = {} THEN Mutated(200, doc, {})
      ELSE IF name = NULL THEN ApiError(422, "name")
      ELSE Mutated(200, Renamed(doc, i, name), {})

(* Mutant: the check of the names is put into the function, and its loop     *)
(* variable is the room: the last room is renamed.                           *)
edit_room_loop_variable(rid, body) ==
  LET i == find_room(doc, rid)
      name == clean_name(Get(body, "name"))
  IN  IF i = 0 THEN ApiError(404, NULL)
      ELSE IF UnknownField(body, {"name"}) THEN ApiError(422, "unknown")
      ELSE IF DOMAIN body = {} THEN Mutated(200, doc, {})
      ELSE IF name = NULL THEN ApiError(422, "name")
      ELSE IF RoomNameTaken(name, rid) THEN ApiError(409, "name")
      ELSE Mutated(200, Renamed(doc, Len(doc), name), {})

edit_room(rid, body) ==
  LET i == find_room(doc, rid)
      name == clean_name(Get(body, "name"))
  IN  IF i = 0 THEN ApiError(404, NULL)
      ELSE IF UnknownField(body, {"name"}) THEN ApiError(422, "unknown")
      ELSE IF DOMAIN body = {} THEN Mutated(200, doc, {})
      ELSE IF name = NULL THEN ApiError(422, "name")
      ELSE IF RoomNameTaken(name, rid) THEN ApiError(409, "name")
      ELSE Mutated(200, Renamed(doc, i, name), {})

(* Mutant: a room is deleted with the sockets in it.                         *)
delete_room_with_sockets(rid) ==
  IF find_room(doc, rid) = 0 THEN ApiError(404, NULL)
  ELSE Mutated(204, Without(doc, rid), {})

delete_room(rid) ==
  LET i == find_room(doc, rid)
  IN  IF i = 0 THEN ApiError(404, NULL)
      ELSE IF doc[i].sockets # <<>> THEN ApiError(409, NULL)
      ELSE Mutated(204, Without(doc, rid), {})

(* The entries of s in the order of ids, which check_permutation() accepts   *)
(* only if they are the ids of s.                                            *)
Permutation(ids, s) == IsInjective(ids) /\ ToSet(ids) = ToSet(IdsOf(s))
Reordered(s, ids) == [k \in DOMAIN ids |-> s[IndexOf(s, ids[k])]]

(* id_list() raises.                                                         *)
NoIdList(body) == Get(body, "ids") = NULL

order_rooms(body) ==
  IF UnknownField(body, {"ids"}) THEN ApiError(422, "unknown")
  ELSE IF NoIdList(body) THEN ApiError(422, "ids")
  ELSE IF ~Permutation(body["ids"], doc) THEN ApiError(409, NULL)
  ELSE Mutated(200, Reordered(doc, body["ids"]), {})

-----------------------------------------------------------------------------
create_socket(rid, body, id) ==
  LET i == find_room(doc, rid)
      sock == [id |-> id, name |-> clean_name(Get(body, "name")),
               type |-> Get(body, "type"), group |-> Get(body, "group")]
      new == Refill(doc, i, Append(doc[i].sockets, sock))
  IN  IF i = 0 THEN ApiError(404, NULL)
      ELSE IF UnknownField(body, FIELDS) THEN ApiError(422, "unknown")
      ELSE IF sock.name = NULL THEN ApiError(422, "name")
      ELSE IF check_socket_fields(sock) # NULL THEN ApiError(422, check_socket_fields(sock))
      ELSE IF SocketNameTaken(i, sock.name, NULL) THEN ApiError(409, "name")
      ELSE Mutated(201, new, duplicate_warnings(new, id))

(* Where an edit leaves the socket of room i: target_room(); 0 if the body   *)
(* names no room.                                                            *)
target_room(i, body) ==
  IF "room_id" \in DOMAIN body THEN find_room(doc, body["room_id"]) ELSE i

(* The record that an edit produces.                                         *)
Merged(sock, body) ==
  [sock EXCEPT !.name  = IF "name" \in DOMAIN body THEN clean_name(body["name"]) ELSE @,
               !.type  = IF "type" \in DOMAIN body THEN body["type"] ELSE @,
               !.group = IF "group" \in DOMAIN body THEN body["group"] ELSE @]

(* The document with the record in room t instead of room i.                 *)
Moved(i, t, sock) ==
  IF t = i
  THEN Refill(doc, i, [doc[i].sockets EXCEPT ![IndexOf(doc[i].sockets, sock.id)] = sock])
  ELSE Refill(Refill(doc, i, Without(doc[i].sockets, sock.id)), t, Append(doc[t].sockets, sock))

(* Mutant: the fields of the body are checked, and not the record.           *)
edit_socket_fields_only(sid, body) ==
  LET i == find_socket(doc, sid)
      merged == Merged(SocketOf(doc, sid), body)
      t == target_room(i, body)
      new == Moved(i, t, merged)
  IN  IF i = 0 THEN ApiError(404, NULL)
      ELSE IF UnknownField(body, FIELDS \cup {"room_id"}) THEN ApiError(422, "unknown")
      ELSE IF merged.name = NULL THEN ApiError(422, "name")
      ELSE IF merged.type \notin DOMAIN Limit THEN ApiError(422, "type")
      ELSE IF "group" \in DOMAIN body /\ ~address_ok(merged.type, merged.group)
           THEN ApiError(422, "group")
      ELSE IF t = 0 THEN ApiError(422, "room_id")
      ELSE IF ("name" \in DOMAIN body \/ t # i) /\ SocketNameTaken(t, merged.name, sid)
           THEN ApiError(409, "name")
      ELSE Mutated(200, new, duplicate_warnings(new, sid))

(* Mutant: the warning is left out unless the address is in the body.        *)
edit_socket_warns_less(sid, body) ==
  LET i == find_socket(doc, sid)
      merged == Merged(SocketOf(doc, sid), body)
      t == target_room(i, body)
      new == Moved(i, t, merged)
  IN  IF i = 0 THEN ApiError(404, NULL)
      ELSE IF UnknownField(body, FIELDS \cup {"room_id"}) THEN ApiError(422, "unknown")
      ELSE IF merged.name = NULL THEN ApiError(422, "name")
      ELSE IF check_socket_fields(merged) # NULL THEN ApiError(422, check_socket_fields(merged))
      ELSE IF t = 0 THEN ApiError(422, "room_id")
      ELSE IF ("name" \in DOMAIN body \/ t # i) /\ SocketNameTaken(t, merged.name, sid)
           THEN ApiError(409, "name")
      ELSE Mutated(200, new, IF "group" \in DOMAIN body
                             THEN duplicate_warnings(new, sid) ELSE {})

(* Mutant: the name is looked up in the room before the address is checked.  *)
edit_socket_name_first(sid, body) ==
  LET i == find_socket(doc, sid)
      merged == Merged(SocketOf(doc, sid), body)
      t == target_room(i, body)
      new == Moved(i, t, merged)
  IN  IF i = 0 THEN ApiError(404, NULL)
      ELSE IF UnknownField(body, FIELDS \cup {"room_id"}) THEN ApiError(422, "unknown")
      ELSE IF merged.name = NULL THEN ApiError(422, "name")
      ELSE IF t = 0 THEN ApiError(422, "room_id")
      ELSE IF ("name" \in DOMAIN body \/ t # i) /\ SocketNameTaken(t, merged.name, sid)
           THEN ApiError(409, "name")
      ELSE IF check_socket_fields(merged) # NULL THEN ApiError(422, check_socket_fields(merged))
      ELSE Mutated(200, new, duplicate_warnings(new, sid))

edit_socket(sid, body) ==
  LET i == find_socket(doc, sid)
      merged == Merged(SocketOf(doc, sid), body)
      t == target_room(i, body)
      new == Moved(i, t, merged)
  IN  IF i = 0 THEN ApiError(404, NULL)
      ELSE IF UnknownField(body, FIELDS \cup {"room_id"}) THEN ApiError(422, "unknown")
      ELSE IF merged.name = NULL THEN ApiError(422, "name")
      ELSE IF check_socket_fields(merged) # NULL THEN ApiError(422, check_socket_fields(merged))
      ELSE IF t = 0 THEN ApiError(422, "room_id")
      ELSE IF ("name" \in DOMAIN body \/ t # i) /\ SocketNameTaken(t, merged.name, sid)
           THEN ApiError(409, "name")
      ELSE Mutated(200, new, duplicate_warnings(new, sid))

delete_socket(sid) ==
  LET i == find_socket(doc, sid)
  IN  IF i = 0 THEN ApiError(404, NULL)
      ELSE Mutated(204, Refill(doc, i, Without(doc[i].sockets, sid)), {})

(* Mutant: the body is checked before the room is looked up.                 *)
order_sockets_body_first(rid, body) ==
  LET i == find_room(doc, rid)
  IN  IF UnknownField(body, {"ids"}) THEN ApiError(422, "unknown")
      ELSE IF NoIdList(body) THEN ApiError(422, "ids")
      ELSE IF i = 0 THEN ApiError(404, NULL)
      ELSE IF ~Permutation(body["ids"], doc[i].sockets) THEN ApiError(409, NULL)
      ELSE Mutated(200, Refill(doc, i, Reordered(doc[i].sockets, body["ids"])), {})

order_sockets(rid, body) ==
  LET i == find_room(doc, rid)
  IN  IF i = 0 THEN ApiError(404, NULL)
      ELSE IF UnknownField(body, {"ids"}) THEN ApiError(422, "unknown")
      ELSE IF NoIdList(body) THEN ApiError(422, "ids")
      ELSE IF ~Permutation(body["ids"], doc[i].sockets) THEN ApiError(409, NULL)
      ELSE Mutated(200, Refill(doc, i, Reordered(doc[i].sockets, body["ids"])), {})

(* The checks of switch() and room_all_off().                                *)
switch(sid, body) ==
  IF find_socket(doc, sid) = 0 THEN ApiError(404, NULL)
  ELSE IF UnknownField(body, {"state"}) THEN ApiError(422, "unknown")
  ELSE IF Get(body, "state") \notin {"on", "off"} THEN ApiError(422, "state")
  ELSE Answer(200, NULL, doc, {})

room_all_off(rid, body) ==
  IF find_room(doc, rid) = 0 THEN ApiError(404, NULL)
  ELSE IF UnknownField(body, {}) THEN ApiError(422, "unknown")
  ELSE Answer(200, NULL, doc, {})

-----------------------------------------------------------------------------
(* content_type_gate(), then json_body() of the routes that read one, then   *)
(* the route.  A request has the route, the id in its URL, how its body      *)
(* comes (as a form, as garbage declared JSON, or as JSON) and the body.     *)
NoBody == {"delete_room", "delete_socket"}

Respond(q, id) ==
  IF q.sent = "form" THEN ApiError(415, NULL)
  ELSE IF q.sent = "garbage" /\ q.route \notin NoBody THEN ApiError(400, NULL)
  ELSE CASE q.route = "create_room"   -> create_room(q.body, id)
         [] q.route = "edit_room"     -> edit_room(q.id, q.body)
         [] q.route = "delete_room"   -> delete_room(q.id)
         [] q.route = "order_rooms"   -> order_rooms(q.body)
         [] q.route = "create_socket" -> create_socket(q.id, q.body, id)
         [] q.route = "edit_socket"   -> edit_socket(q.id, q.body)
         [] q.route = "delete_socket" -> delete_socket(q.id)
         [] q.route = "order_sockets" -> order_sockets(q.id, q.body)
         [] q.route = "switch"        -> switch(q.id, q.body)
         [] q.route = "room_all_off"  -> room_all_off(q.id, q.body)

(* The id that a request that creates something gets, if one is left.        *)
IdsFor(q) ==
  CASE q.route = "create_room"   -> new_id(RoomIds, doc)
    [] q.route = "create_socket" -> new_id(SocketIds, doc)
    [] OTHER -> {NULL}

Init == doc \in Documents /\ check_document(doc)   \* Store.check() at start-up

Handle(q) == \E id \in IdsFor(q) : doc' = Respond(q, id).doc

Next == \E q \in Requests : Handle(q)

Spec == Init /\ [][Next]_doc

-----------------------------------------------------------------------------
(* Whatever sequence of requests is made, the document that is stored is one *)
(* that the server would start with: ids are unique across rooms and         *)
(* sockets, every address is valid for the type it is stored with.  A fresh  *)
(* id, a merged edit or a move that broke this would lock the owner out at   *)
(* the next start.                                                           *)
DocumentStaysLoadable == check_document(doc)

(* The names of s that collide, and all collisions with their room.          *)
Colliding(s) ==
  {{s[p[1]].name, s[p[2]].name} :
     p \in {r \in (DOMAIN s) \X (DOMAIN s) : r[1] < r[2] /\ Key[s[r[1]].name] = Key[s[r[2]].name]}}

Collisions(d) ==
  {<<NULL, c>> : c \in Colliding(d)}
  \cup UNION {{<<d[i].id, c>> : c \in Colliding(d[i].sockets)} : i \in DOMAIN d}

(* "Room names are unique in the household and socket names in their room,   *)
(* ignoring case": a collision is never made by a create, a rename or a      *)
(* move; it can only have been there in a file that was edited by hand.      *)
NoNewCollision == [][Collisions(doc') \subseteq Collisions(doc)]_doc

(* The record of a socket with the room that it is in.                       *)
Placed(d, s) == <<d[find_socket(d, s)].id, SocketOf(d, s)>>

(* The order that the page shows: of the rooms, and of the sockets of a room.*)
RoomBefore(d, r, t) == find_room(d, r) < find_room(d, t)
SocketBefore(d, s, t) ==
  LET i == find_socket(d, s)
  IN  /\ find_socket(d, t) = i
      /\ IndexOf(d[i].sockets, s) < IndexOf(d[i].sockets, t)

(* A request touches only what its URL names.  Every other socket keeps its  *)
(* room, its name and its address, and leaves only by its own DELETE; every  *)
(* other room keeps its name, and is deleted only by its own DELETE, when it *)
(* is empty.  Two rooms change places only by order_rooms(), and two sockets *)
(* of a room only by order_sockets() of that room: not by an edit, a move, a *)
(* new entry or a deletion.                                                  *)
OthersAreLeftAlone ==
  [][\E q \in Requests :
       /\ Handle(q)
       /\ \A s \in SocketsOf(doc) \ {q.id} :
            s \in SocketsOf(doc') /\ Placed(doc', s) = Placed(doc, s)
       /\ SocketsOf(doc) \ SocketsOf(doc') # {} => q.route = "delete_socket"
       /\ \A r \in RoomsOf(doc) \ RoomsOf(doc') :
            /\ q.route = "delete_room" /\ q.id = r
            /\ doc[find_room(doc, r)].sockets = <<>>
       /\ \A r \in RoomsOf(doc) \cap RoomsOf(doc') :
            \/ doc'[find_room(doc', r)].name = doc[find_room(doc, r)].name
            \/ q.route = "edit_room" /\ q.id = r
       /\ \A r, t \in RoomsOf(doc) \cap RoomsOf(doc') :
            RoomBefore(doc, r, t) /\ ~RoomBefore(doc', r, t) => q.route = "order_rooms"
       /\ \A s, t \in SocketsOf(doc) \cap SocketsOf(doc') :
            SocketBefore(doc, s, t) /\ SocketBefore(doc', t, s) =>
              q.route = "order_sockets" /\ q.id = Placed(doc, s)[1]]_doc

(* The order that the API documents: 415 for the media type, 400 for a body  *)
(* that is no JSON object, 404 for the id in the URL, 422 for the body, 409  *)
(* for a conflict.                                                           *)
UrlIsGone(q) ==
  CASE q.route \in {"edit_socket", "delete_socket", "switch"} -> q.id \notin SocketsOf(doc)
    [] q.route \in {"create_room", "order_rooms"} -> FALSE
    [] OTHER -> q.id \notin RoomsOf(doc)

(* The fields of the body of a route.                                        *)
FieldsOf(route) ==
  CASE route \in {"create_room", "edit_room"}     -> {"name"}
    [] route \in {"order_rooms", "order_sockets"} -> {"ids"}
    [] route = "create_socket"                    -> FIELDS
    [] route = "edit_socket"                      -> FIELDS \cup {"room_id"}
    [] route = "switch"                           -> {"state"}
    [] OTHER                                      -> {}

(* Some field of the body is unknown, missing or not valid, where a field    *)
(* that an edit leaves out is the stored one.                                *)
BodyIsBad(q) ==
  LET fields == FieldsOf(q.route)
      given  == DOMAIN q.body
      edit   == q.route \in {"edit_room", "edit_socket"}
      Field(f) == IF f \in given \/ ~edit THEN Get(q.body, f) ELSE SocketOf(doc, q.id)[f]
  IN  /\ q.route \notin NoBody
      /\ \/ ~(given \subseteq fields)
         \/ /\ "name" \in fields /\ ("name" \in given \/ ~edit)
            /\ clean_name(Get(q.body, "name")) = NULL
         \/ /\ "type" \in fields
            /\ Field("type") \notin DOMAIN Limit \/ ~address_ok(Field("type"), Field("group"))
         \/ "room_id" \in fields \cap given /\ q.body["room_id"] \notin RoomsOf(doc)
         \/ "ids" \in fields /\ Get(q.body, "ids") = NULL
         \/ "state" \in fields /\ Get(q.body, "state") \notin {"on", "off"}

(* Every route answers a request with the first problem of that order: what  *)
(* is wrong with a body never hides that the id is gone, and a conflict with *)
(* what is stored is told only of a body in which every field is valid.      *)
ProblemsInOrder ==
  \A q \in Requests : \A id \in IdsFor(q) :
    LET a == Respond(q, id)
    IN  /\ q.sent = "form" <=> a.status = 415
        /\ a.status = 400 <=> q.sent = "garbage" /\ q.route \notin NoBody
        /\ a.status = 404 <=> a.status \notin {415, 400} /\ UrlIsGone(q)
        /\ a.status = 422 <=> a.status \notin {415, 400, 404} /\ BodyIsBad(q)
        /\ a.status \in {200, 201, 204} \/ a.doc = doc

(* Two sockets that share an address switch together, which is allowed but   *)
(* never happens unnoticed: whatever request makes two sockets share one,    *)
(* its answer names the other socket.                                        *)
NewSharingIsTold ==
  \A q \in Requests : \A id \in IdsFor(q) :
    LET a == Respond(q, id)
        Shared(d) == {p \in SocketsOf(d) \X SocketsOf(d) :
                        p[1] # p[2] /\ address_of(SocketOf(d, p[1])) = address_of(SocketOf(d, p[2]))}
    IN  \A p \in Shared(a.doc) \ Shared(doc) : p[1] \in a.warn \/ p[2] \in a.warn
=============================================================================
