--------------------------- MODULE ItchFileReader ---------------------------
(***************************************************************************)
(* itch::ItchFileReader (itch/file_reader.cpp): readers that each own the  *)
(* memory mapping of a file, can be moved from one to another, and walk    *)
(* the length-prefixed records.  The constructor is one step per system    *)
(* call, each of which may fail.                                           *)
(*                                                                         *)
(* A file is a stream of Framing whose records have a type; mapped stands  *)
(* for the kernel's table of mappings.                                     *)
(***************************************************************************)
EXTENDS Framing, ItchTypes

CONSTANTS
  Readers,     \* places for ItchFileReader objects
  Files,       \* the files they are opened on
  Addresses,   \* what mmap() can return
  Null         \* nullptr

VARIABLES
  life,        \* "absent", "opened", "sized" (in the constructor) or "alive"
  file,        \* the file a reader was opened on
  fd,          \* the constructor's descriptor is open
  reader,      \* data_, size_ and offset_
  mapped,      \* how many bytes are mapped at an address
  delivered    \* numbers of the records answered by a reader and the ones
               \* it was moved from

vars == <<life, file, fd, reader, mapped, delivered>>

Fresh == [data |-> Null, size |-> 0, offset |-> 0]

ASSUME ReaderAssumption ==
  /\ Null \notin Addresses /\ Files # {}
  /\ \A f \in Files : IsFramed(f)

(* The record whose prefix is at offset. *)
FrameAt(f, offset) ==
  CHOOSE k \in 1 .. Len(f.frames) + 1 : BytesUpTo(f, k - 1) = offset

Init ==
  /\ life = [r \in Readers |-> "absent"]
  /\ file \in [Readers -> {CHOOSE f \in Files : TRUE}]
  /\ fd = [r \in Readers |-> FALSE]
  /\ reader = [r \in Readers |-> Fresh]
  /\ mapped = [a \in Addresses |-> 0]
  /\ delivered = [r \in Readers |-> <<>>]

-----------------------------------------------------------------------------
(* The constructor.  A failed open() throws before anything has changed. *)
Open(r, f) ==
  /\ life[r] = "absent"
  /\ life' = [life EXCEPT ![r] = "opened"]
  /\ file' = [file EXCEPT ![r] = f]
  /\ fd' = [fd EXCEPT ![r] = TRUE]
  /\ UNCHANGED <<reader, mapped, delivered>>

(* fstat() fails and the constructor throws, or it gives the size; a file  *)
(* of no bytes is not mapped.                                              *)
Stat(r) ==
  /\ life[r] = "opened"
  /\ \/ /\ life' = [life EXCEPT ![r] = "absent"]
        /\ fd' = [fd EXCEPT ![r] = FALSE]
        /\ UNCHANGED reader
     \/ /\ reader' = [reader EXCEPT ![r] = [Fresh EXCEPT !.size = file[r].size]]
        /\ life' = [life EXCEPT ![r] = IF file[r].size = 0 THEN "alive" ELSE "sized"]
        /\ fd' = [fd EXCEPT ![r] = file[r].size # 0]
  /\ UNCHANGED <<file, mapped, delivered>>

(* mmap(), then close() whatever it answered; a failure throws. *)
Map(r) ==
  /\ life[r] = "sized"
  /\ fd' = [fd EXCEPT ![r] = FALSE]
  /\ \/ \E a \in Addresses :
          /\ mapped[a] = 0
          /\ mapped' = [mapped EXCEPT ![a] = reader[r].size]
          /\ reader' = [reader EXCEPT ![r].data = a]
          /\ life' = [life EXCEPT ![r] = "alive"]
     \/ /\ life' = [life EXCEPT ![r] = "absent"]
        /\ reader' = [reader EXCEPT ![r] = Fresh]
        /\ UNCHANGED mapped
  /\ UNCHANGED <<file, delivered>>

-----------------------------------------------------------------------------
(* The munmap() of reset(): size_ bytes at data_. *)
Unmapped(rd) ==
  IF rd.data = Null THEN mapped ELSE [mapped EXCEPT ![rd.data] = @ - rd.size]

Destroy(r) ==
  /\ life[r] = "alive"
  /\ mapped' = Unmapped(reader[r])
  /\ reader' = [reader EXCEPT ![r] = Fresh]
  /\ life' = [life EXCEPT ![r] = "absent"]
  /\ delivered' = [delivered EXCEPT ![r] = <<>>]
  /\ UNCHANGED <<file, fd>>

(* Mutant: the position is not moved along. *)
Take_restarts(to, from) ==
  /\ reader' = [reader EXCEPT ![to] = [reader[from] EXCEPT !.offset = 0],
                             ![from] = Fresh]
  /\ file' = [file EXCEPT ![to] = file[from]]
  /\ delivered' = [delivered EXCEPT ![to] = delivered[from], ![from] = <<>>]

(* The three exchanges of the move operations. *)
Take(to, from) ==
  /\ reader' = [reader EXCEPT ![to] = reader[from], ![from] = Fresh]
  /\ file' = [file EXCEPT ![to] = file[from]]
  /\ delivered' = [delivered EXCEPT ![to] = delivered[from], ![from] = <<>>]

MoveConstruct(to, from) ==
  /\ life[to] = "absent" /\ life[from] = "alive"
  /\ life' = [life EXCEPT ![to] = "alive"]
  /\ Take(to, from)
  /\ UNCHANGED <<fd, mapped>>

(* Mutant: what the reader owned is not given back. *)
MoveAssign_no_reset(to, from) ==
  /\ life[to] = "alive" /\ life[from] = "alive"
  /\ to # from
  /\ Take(to, from)
  /\ UNCHANGED <<life, fd, mapped>>

(* Assigning a reader to itself changes nothing. *)
MoveAssign(to, from) ==
  /\ life[to] = "alive" /\ life[from] = "alive"
  /\ \/ to = from /\ UNCHANGED vars
     \/ /\ to # from
        /\ mapped' = Unmapped(reader[to])
        /\ Take(to, from)
        /\ UNCHANGED <<life, fd>>

-----------------------------------------------------------------------------
(* next_raw_message answers a record and not nullopt. *)
HasNext(r) ==
  LET rd == reader[r]
  IN  /\ rd.data # Null
      /\ rd.offset + 2 <= rd.size
      /\ rd.offset + 2 + file[r].frames[FrameAt(file[r], rd.offset)].len <= rd.size

(* A call of next_raw_message, or of next_message where raw is FALSE: the  *)
(* record is passed in both cases, but next_message answers nullopt when   *)
(* decode() refuses it.                                                    *)
NextMessage(r, raw) ==
  LET k == FrameAt(file[r], reader[r].offset)
      f == file[r].frames[k]
  IN  /\ life[r] = "alive"
      /\ HasNext(r)
      /\ reader' = [reader EXCEPT ![r].offset = @ + 2 + f.len]
      /\ delivered' = [delivered EXCEPT ![r] =
                         IF raw \/ accepts(f.type, f.len) THEN Append(@, k) ELSE @]
      /\ UNCHANGED <<life, file, fd, mapped>>

(* Both answer nullopt at the end and leave the reader as it was. *)
AtEnd(r) == life[r] = "alive" /\ ~HasNext(r) /\ UNCHANGED vars

Next ==
  \E r \in Readers :
    \/ \E f \in Files : Open(r, f)
    \/ Stat(r)
    \/ Map(r)
    \/ Destroy(r)
    \/ \E from \in Readers : MoveConstruct(r, from) \/ MoveAssign(r, from)
    \/ \E raw \in BOOLEAN : NextMessage(r, raw)
    \/ AtEnd(r)

Spec == Init /\ [][Next]_vars

-----------------------------------------------------------------------------
(* Every mapping has exactly one owner, which knows its size, and every    *)
(* pointer a reader holds is to a mapping: whatever is constructed, moved, *)
(* assigned, self-assigned and destroyed in whatever order, none is        *)
(* leaked, none unmapped twice, and none used after it is gone.  A file    *)
(* descriptor is open only inside a constructor that is still running: no  *)
(* system call that fails leaves one behind.                               *)
OwnedOnce ==
  /\ \A r \in Readers : fd[r] => life[r] \in {"opened", "sized"}
  /\ \A a \in Addresses : mapped[a] > 0 =>
       \E r \in Readers : life[r] = "alive" /\ reader[r].data = a
  /\ \A r \in Readers : reader[r].data # Null =>
       /\ life[r] = "alive"
       /\ mapped[reader[r].data] = reader[r].size
       /\ \A u \in Readers : reader[u].data = reader[r].data => u = r

(* Records are answered in file order, each at most once, also when the    *)
(* reader moves between two calls; one that is passed but not answered is  *)
(* one that decode() refuses; and none that the end of the file cuts off   *)
(* is answered.                                                            *)
RecordsInOrder ==
  \A r \in Readers : reader[r].data # Null =>
    LET f      == file[r]
        passed == FrameAt(f, reader[r].offset) - 1
        d      == delivered[r]
    IN  /\ BytesUpTo(f, passed) <= f.size
        /\ \A i \in 1 .. Len(d) : d[i] <= passed /\ (i > 1 => d[i - 1] < d[i])
        /\ \A k \in 1 .. passed :
             \/ \E i \in 1 .. Len(d) : d[i] = k
             \/ ~accepts(f.frames[k].type, f.frames[k].len)
=============================================================================
