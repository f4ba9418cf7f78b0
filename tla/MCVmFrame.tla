----------------------------- MODULE MCVmFrame -----------------------------
(***************************************************************************)
(* Two objects, object 1 a persistent child of object 0.  Room 0 places    *)
(* one instance of each, room 1 one more.                                  *)
(***************************************************************************)
EXTENDS VmFrame

MCFamily == [o \in Objects |-> 0..o]
MCPlaced == [r \in Rooms |->
              IF r = 0 THEN <<[obj |-> 0, id |-> 1], [obj |-> 1, id |-> 2]>> ELSE <<[obj |-> 0, id |-> 3]>>]
\* In either room, with everyone in place.
MCStarts == [room : Rooms, gone : {{}}]
=============================================================================
