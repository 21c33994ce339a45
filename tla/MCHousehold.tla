----------------------------- MODULE MCHousehold -----------------------------
(* Two ids of rooms and two of sockets.  Of the names, "lamp" and "LAMP"     *)
(* have one key, " desk " is trimmed, "" is refused, and one that was put    *)
(* into the file by hand cannot be encoded.  A group of 20 is valid for the  *)
(* second type only.  A body has up to two fields, or all that a socket has. *)
EXTENDS Household, TLC

CONSTANTS r1, r2, s1, s2

MCRoomIds   == {r1, r2}
MCSocketIds == {s1, s2}
MCClean == ("lamp" :> "lamp") @@ ("LAMP" :> "LAMP") @@ (" desk " :> "desk")
MCKey   == ("lamp" :> "lamp") @@ ("LAMP" :> "lamp") @@ ("desk" :> "desk")
             @@ ("surrogate" :> "surrogate")
MCLimit == ("rev" :> 4) @@ ("pollin" :> 32)

(* Bodies with one field, and bodies put together.                           *)
Name  == {"name" :> v : v \in {"lamp", "LAMP", " desk ", ""}}
Type  == {"type" :> v : v \in {"rev", "pollin", "other"}}
Group == {"group" :> v : v \in {3, 20, NotAnInt}}
To    == {"room_id" :> v : v \in MCRoomIds \cup {NULL}}
Bogus == {"bogus" :> 3}
No    == {<<>>}

Both(A, B) == {a @@ b : a \in A, b \in B}

IdLists == UNION {[1..n -> ids] : n \in 0..2, ids \in {MCRoomIds, MCSocketIds}}
Orders  == Both({"ids" :> l : l \in IdLists \cup {NULL}} \cup No, No \cup Bogus)

Request(route, ids, bodies) ==
  [route : {route}, id : ids, sent : {"json"}, body : bodies]
  \cup [route : {route}, id : ids, sent : {"form", "garbage"}, body : {<<>>}]

MCRequests ==
  Request("create_room", {NULL}, Both(No \cup Name, No \cup Bogus))
  \cup Request("edit_room", MCRoomIds, Both(No \cup Name, No \cup Bogus))
  \cup Request("delete_room", MCRoomIds, {<<>>})
  \cup Request("order_rooms", {NULL}, Orders)
  \cup Request("create_socket", MCRoomIds,
               Both(Both(Name, Type), Group \cup No) \cup No \cup Bogus)
  \cup Request("edit_socket", MCSocketIds,
               Both(Name \cup No, Type \cup Group \cup To \cup No)
               \cup Both(Type, Group \cup To) \cup Both(Group, To) \cup Bogus)
  \cup Request("delete_socket", MCSocketIds, {<<>>})
  \cup Request("order_sockets", MCRoomIds, Orders)
  \cup Request("switch", MCSocketIds,
               Both({"state" :> "on", "state" :> "up"} \cup No, No \cup Bogus))
  \cup Request("room_all_off", MCRoomIds, No \cup Bogus)

ASock(id, name, type, group) == [id |-> id, name |-> name, type |-> type, group |-> group]
ARoom(id, name, socks) == [id |-> id, name |-> name, sockets |-> socks]

(* No file yet, and two that were edited by hand: names that collide, and    *)
(* one that cannot be encoded; and one that the server refuses.              *)
MCDocuments ==
  {<<>>,
   <<ARoom(r1, "lamp", <<ASock(s1, "LAMP", "rev", 3), ASock(s2, "lamp", "rev", 3)>>),
     ARoom(r2, "LAMP", <<>>)>>,
   <<ARoom(r1, "desk", <<ASock(s1, "surrogate", "pollin", 20)>>)>>,
   <<ARoom(r1, "desk", <<ASock(s1, "lamp", "rev", 20)>>)>>}

Symmetry == Permutations(MCRoomIds) \cup Permutations(MCSocketIds)
=============================================================================
