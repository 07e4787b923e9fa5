----------------------------- MODULE FileServer -----------------------------
(***************************************************************************)
(* The RFile calls of src/runtime/src/hle/efsrv.c: a table of MaxOpen      *)
(* slots that holds a host stream for each open RFile object, searched by  *)
(* the object's address, and a name lookup with a fallback directory.      *)
(*                                                                         *)
(* A file is its length.  A written byte is in the file at once: the       *)
(* buffer of a host stream is not modelled.  A name stands for the host    *)
(* paths that open_path tries for it, in their order: Open takes the first *)
(* file that exists, Create the first path that can be written.  A file    *)
(* that exists can be read, but it need not be one that can be written.    *)
(***************************************************************************)
EXTENDS Integers, FiniteSetsExt, SequencesExt

CONSTANTS Handles,       \* the RFile objects' addresses
          NoHandle,      \* the key of a slot that was never used
          MaxOpen,       \* 64: the length of g_fh
          Names,         \* file names the game uses
          Paths,         \* paths of host files
          Where,         \* by name: its path below the root, then the fallback
          Creatable,     \* the paths where a file can be written or made anew
          MaxSize,       \* bound on the length of a file
          Closed, NoPath,
          KErrNone, KErrNotFound, KErrNoMemory

ASSUME FileAssumption ==
  /\ MaxOpen \in Nat /\ MaxSize \in Nat
  /\ NoHandle \notin Handles /\ NoPath \notin Paths
  /\ Creatable \subseteq Paths /\ Where \in [Names -> Seq(Paths)]
  /\ KErrNone # KErrNotFound /\ KErrNone # KErrNoMemory /\ KErrNotFound # KErrNoMemory

VARIABLES key,           \* g_fh[i].key
          fp,            \* g_fh[i].fp
          files,         \* the host files that exist
          size,          \* their lengths
          reply,         \* r0 after the last call that sets it
          made           \* history: by name, the path its last Create made

vars == <<key, fp, files, size, reply, made>>

Slots == 1..MaxOpen
Stream == [path : Paths, writes : BOOLEAN, pos : 0..MaxSize]
ASSUME ClosedAssumption == Closed \notin Stream

Init == /\ key = [i \in Slots |-> NoHandle]
        /\ fp = [i \in Slots |-> Closed]
        /\ files \in SUBSET Paths
        /\ size \in [files -> 0..MaxSize]
        /\ reply = KErrNone
        /\ made = [n \in Names |-> NoPath]

-----------------------------------------------------------------------------
\* fh_slot: the slot of an open object, or else the first that is free.
SlotsOf(h) == {i \in Slots : key[i] = h /\ fp[i] # Closed}

\* Slip: a slot that was used once is not used again.
FreeSlots_Unused == {i \in Slots : key[i] = NoHandle}

FreeSlots == {i \in Slots : fp[i] = Closed}

IsOpen(h) == SlotsOf(h) # {}
SlotOf(h) == Min(SlotsOf(h))

\* Slip: an object that is open already gets another slot.
Attach_Again(h, s) ==
  IF FreeSlots # {}
    THEN /\ key' = [key EXCEPT ![Min(FreeSlots)] = h]
         /\ fp' = [fp EXCEPT ![Min(FreeSlots)] = s]
         /\ reply' = KErrNone
    ELSE reply' = KErrNoMemory /\ UNCHANGED <<key, fp>>

\* Open's and Create's last lines.  The stream of an object that is open
\* already is forgotten without fclose.
Attach(h, s) ==
  IF IsOpen(h)
    THEN fp' = [fp EXCEPT ![SlotOf(h)] = s] /\ reply' = KErrNone /\ UNCHANGED key
  ELSE IF FreeSlots # {}
    THEN /\ key' = [key EXCEPT ![Min(FreeSlots)] = h]
         /\ fp' = [fp EXCEPT ![Min(FreeSlots)] = s]
         /\ reply' = KErrNone
    ELSE reply' = KErrNoMemory /\ UNCHANGED <<key, fp>>

\* open_path: which of a name's paths fopen would succeed on, by their order.
Candidates(n, usable) == {i \in 1..Len(Where[n]) : Where[n][i] \in usable}
Found(n, usable) == Where[n][Min(Candidates(n, usable))]

Answer(code) == reply' = code /\ UNCHANGED <<key, fp, files, size, made>>

\* Slip: reading prefers the fallback directory.
Open_Fallback(h, n) ==
  LET found == Candidates(n, files)
  IN IF found = {} THEN Answer(KErrNotFound)
     ELSE /\ Attach(h, [path |-> Where[n][Max(found)], writes |-> FALSE, pos |-> 0])
          /\ UNCHANGED <<files, size, made>>

Open(h, n) ==
  IF Candidates(n, files) = {} THEN Answer(KErrNotFound)
  ELSE /\ Attach(h, [path |-> Found(n, files), writes |-> FALSE, pos |-> 0])
       /\ UNCHANGED <<files, size, made>>

\* The file is created, or cut to nothing, even when no slot is free.
Create(h, n) ==
  LET p == Found(n, Creatable)
  IN IF Candidates(n, Creatable) = {} THEN Answer(KErrNotFound)
     ELSE /\ Attach(h, [path |-> p, writes |-> TRUE, pos |-> 0])
          /\ files' = files \cup {p}
          /\ size' = [q \in files \cup {p} |-> IF q = p THEN 0 ELSE size[q]]
          /\ made' = [made EXCEPT ![n] = p]

MoveTo(h, pos) == /\ fp' = [fp EXCEPT ![SlotOf(h)].pos = pos]
                  /\ reply' = KErrNone

\* Read, with want already cut to the descriptor's maximum length: up to the
\* end of the file, and nothing from a stream that writes.
Read(h, want) ==
  IF ~IsOpen(h) THEN Answer(KErrNotFound)
  ELSE LET s == fp[SlotOf(h)]
           rest == IF s.writes \/ s.pos > size[s.path] THEN 0
                   ELSE size[s.path] - s.pos
       IN MoveTo(h, s.pos + Min({want, rest})) /\ UNCHANGED <<key, files, size, made>>

\* fputc stores nothing in a stream opened for reading; KErrNone all the same.
Write(h, n) ==
  IF ~IsOpen(h) THEN Answer(KErrNotFound)
  ELSE LET s == fp[SlotOf(h)]
           end == s.pos + n
       IN IF s.writes /\ n > 0
            THEN /\ end <= MaxSize
                 /\ MoveTo(h, end)
                 /\ size' = [size EXCEPT ![s.path] = Max({@, end})]
                 /\ UNCHANGED <<key, files, made>>
            ELSE MoveTo(h, s.pos) /\ UNCHANGED <<key, files, size, made>>

Size(h) == Answer(IF IsOpen(h) THEN KErrNone ELSE KErrNotFound)

\* TSeek 0 counts from the start, 1 from the position, all others from the end.
Seek(h, mode, offset) ==
  IF ~IsOpen(h) THEN Answer(KErrNotFound)
  ELSE LET s == fp[SlotOf(h)]
           pos == offset + CASE mode = 0 -> 0 [] mode = 1 -> s.pos
                             [] OTHER -> size[s.path]
       IN /\ pos <= MaxSize
          /\ MoveTo(h, IF pos < 0 THEN s.pos ELSE pos)
          /\ UNCHANGED <<key, files, size, made>>

\* Flush, SetSize, and RFs::Connect, Delete and MkDir change nothing.
Granted == Answer(KErrNone)

\* Slip: the key is cleared and the stream is left.
Close_KeyOnly(h) ==
  /\ IsOpen(h)
  /\ key' = [key EXCEPT ![SlotOf(h)] = NoHandle]
  /\ UNCHANGED <<fp, files, size, reply, made>>

\* RHandleBase::Close; the key stays.
Close(h) == /\ IsOpen(h)
            /\ fp' = [fp EXCEPT ![SlotOf(h)] = Closed]
            /\ UNCHANGED <<key, files, size, reply, made>>

Next == \/ \E h \in Handles :
             \/ \E n \in Names : Open(h, n) \/ Create(h, n)
             \/ \E n \in 0..MaxSize : Read(h, n) \/ Write(h, n)
             \/ \E mode \in 0..2, offset \in -1..MaxSize : Seek(h, mode, offset)
             \/ Size(h) \/ Close(h)
        \/ Granted

Spec == Init /\ [][Next]_vars

-----------------------------------------------------------------------------
TypeOK == /\ key \in [Slots -> Handles \cup {NoHandle}]
          /\ fp \in [Slots -> Stream \cup {Closed}]
          /\ \A i \in Slots : fp[i] # Closed => key[i] # NoHandle
          /\ files \subseteq Paths /\ size \in [files -> 0..MaxSize]
          /\ reply \in {KErrNone, KErrNotFound, KErrNoMemory}
          /\ made \in [Names -> Paths \cup {NoPath}]

\* An object never has two streams, so that Close closes what Read reads, in
\* any order of opening, failing, closing and opening again (efsrv.c:27-32).
OneSlotPerHandle ==
  \A i, j \in Slots : fp[i] # Closed /\ fp[j] # Closed /\ key[i] = key[j] => i = j

CursorOf(h) == IF IsOpen(h) THEN fp[SlotOf(h)] ELSE Closed

\* The table of slots is a map from objects to cursors that is full only when
\* MaxOpen other objects are open.
C == INSTANCE Cursors WITH cursor <- [h \in Handles |-> CursorOf(h)]
ImplementsCursors == C!Spec

\* The files of a name that stand before the one that Create made, where it
\* could not write: they were there before the game.
Ahead(n) == {i \in Candidates(n, files \ Creatable) : i < Min(Candidates(n, {made[n]}))}

\* Open finds what was created under a name last, although it looks for a file
\* to read and Create for a place to write, exactly when no file that can only be
\* read is ahead of it, in any order of calls on several names that share a
\* path (efsrv.c:52-64).
CreatedIsOpened ==
  [][\A h \in Handles, n \in Names :
       made[n] # NoPath /\ reply' = KErrNone /\ Open(h, n)
         => (CursorOf(h)'.path = made[n] <=> Ahead(n) = {})]_vars
=============================================================================
