--------------------------- MODULE MCRoomManager ---------------------------
(* Instances of RoomManager for TLC. *)
EXTENDS RoomManager

CONSTANTS u1, u2, a1, a2, room1, room2

MCUrls == {u1, u2}
MCCallers == {a1, a2}
MCRooms == {room1, room2}
MCPatches == {[url |-> u2, enabled |-> NULL]}

(* Three kinds of behaviours: two rooms that share the semaphore and are   *)
(* left to their workers; one room with calls one after the other; one     *)
(* room with calls that interleave and each end in a reconcile.            *)
Busy(a) == task[a].pc # "idle"
Meeting == {"enable", "disable", "reconcile"}
MCInit ==
    /\ Init
    /\ row[room1] # NULL => row[room1].url = u1
    /\ row[room2] # NULL => row[room2].url = u2 /\ row[room1] # NULL /\ row[room1].enabled

MCNext ==
    /\ Next
    /\ turns' > 0 => calls' = 0 /\ row[room2] = NULL
    /\ calls' > calls =>
         /\ row[room2] = NULL
         /\ \A a \in Callers : task'[a].op = "create" => task'[a].room = room1
         /\ Busy(a2)' => Busy(a1) /\ room1 \in Enabled(row) /\ air = {u1}
         /\ Busy(a2)' => {task'[a].op : a \in Callers} \subseteq Meeting \cup {NULL}
MCSpec == MCInit /\ [][MCNext]_vars /\ Fairness
=============================================================================
