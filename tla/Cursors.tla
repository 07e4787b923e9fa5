------------------------------- MODULE Cursors -------------------------------
(***************************************************************************)
(* What the RFile calls of src/runtime/src/hle/efsrv.c promise: every RFile *)
(* object has a cursor in a file, or none; an operation concerns one        *)
(* object's cursor and no other; opening is refused for want of room only   *)
(* when MaxOpen other objects have a cursor.                                *)
(***************************************************************************)
EXTENDS Naturals, FiniteSets

CONSTANTS Handles,       \* the RFile objects
          Paths,         \* the host files
          Closed,        \* no cursor
          MaxOpen,       \* how many cursors there may be
          KErrNone, KErrNotFound, KErrNoMemory

VARIABLES cursor,        \* by object
          reply          \* what the last call returned

Cursor == [path : Paths, writes : BOOLEAN, pos : Nat]

Init == cursor = [h \in Handles |-> Closed] /\ reply = KErrNone

OpenHandles == {h \in Handles : cursor[h] # Closed}

\* Open or Create: a new cursor at the start of a file.
Bind(h) == /\ reply' = KErrNone
           /\ cursor[h] # Closed \/ Cardinality(OpenHandles) < MaxOpen
           /\ \E p \in Paths, w \in BOOLEAN :
                cursor' = [cursor EXCEPT ![h] =
                             [path |-> p, writes |-> w, pos |-> 0]]

Refuse(h) == /\ reply' = KErrNoMemory /\ UNCHANGED cursor
             /\ cursor[h] = Closed /\ Cardinality(OpenHandles) = MaxOpen

\* Read, Write, Size, Seek: the cursor stays in its file.
Move(h) == /\ reply' = KErrNone
           /\ cursor[h] # Closed
           /\ cursor'[h] \in Cursor
           /\ cursor'[h].path = cursor[h].path
           /\ cursor'[h].writes = cursor[h].writes
           /\ cursor' = [cursor EXCEPT ![h] = cursor'[h]]

Unbind(h) == UNCHANGED reply /\ cursor' = [cursor EXCEPT ![h] = Closed]

NotFound == reply' = KErrNotFound /\ UNCHANGED cursor
Granted == reply' = KErrNone /\ UNCHANGED cursor

Next == \/ NotFound \/ Granted
        \/ \E h \in Handles : Refuse(h) \/ Move(h) \/ Bind(h) \/ Unbind(h)

Spec == Init /\ [][Next]_<<cursor, reply>>
=============================================================================
