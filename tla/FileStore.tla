----------------------------- MODULE FileStore -----------------------------
(***************************************************************************)
(* What the file system promises: named files that keep what is written to *)
(* them, and open files that each have a place of their own in one of      *)
(* them.  Bytes below the end that were never written are not specified:   *)
(* they are Unwritten.                                                     *)
(***************************************************************************)
EXTENDS Integers, Sequences

CONSTANTS Names, Fds, Bytes, Unwritten, MaxSize, MaxLen

VARIABLES
  files,    \* files[name]: the bytes of a file, or Missing
  open      \* open[fd]: the file and the place in it, or Closed

Missing == <<"missing">>
Closed == [name |-> "closed", offset |-> 0]

\* The bytes of a file after bytes were written from offset on.
Overwrite(file, offset, bytes) ==
  LET end == offset + Len(bytes)
      size == IF Len(file) < end THEN end ELSE Len(file)
  IN  [i \in 1 .. size |->
         IF offset < i /\ i <= end THEN bytes[i - offset]
         ELSE IF i <= Len(file) THEN file[i] ELSE Unwritten]

\* The place after at most len bytes were read.
After(file, offset, len) ==
  IF offset >= Len(file) THEN offset
  ELSE IF len < Len(file) - offset THEN offset + len ELSE Len(file)

Init == files = [name \in Names |-> Missing] /\ open = [fd \in Fds |-> Closed]

Create(name) ==
  /\ files[name] = Missing
  /\ files' = [files EXCEPT ![name] = << >>]
  /\ UNCHANGED open

\* A file or the root directory is opened, at its beginning.
Open(fd, name) ==
  /\ open[fd] = Closed /\ (name \in Names => files[name] # Missing)
  /\ open' = [open EXCEPT ![fd] = [name |-> name, offset |-> 0]]
  /\ UNCHANGED files

MoveTo(fd, offset) == open' = [open EXCEPT ![fd].offset = offset]

Read(fd, len) ==
  LET file == files[open[fd].name] IN
  /\ open[fd].name \in Names
  /\ MoveTo(fd, After(file, open[fd].offset, len))
  /\ UNCHANGED files

Write(fd, bytes) ==
  LET name == open[fd].name
      offset == open[fd].offset
  IN  /\ name \in Names
      /\ MoveTo(fd, offset + Len(bytes))
      /\ files' = [files EXCEPT ![name] = Overwrite(files[name], offset, bytes)]

Seek(fd, offset) == open[fd] # Closed /\ MoveTo(fd, offset) /\ UNCHANGED files

Close(fd) ==
  /\ open[fd] # Closed
  /\ open' = [open EXCEPT ![fd] = Closed]
  /\ UNCHANGED files

Strings == UNION {[1 .. n -> Bytes] : n \in 0 .. MaxLen}

Next ==
  \/ \E name \in Names : Create(name)
  \/ \E fd \in Fds :
       \/ \E name \in Names \cup {"/"} : Open(fd, name)
       \/ \E len \in 0 .. MaxLen : Read(fd, len)
       \/ \E offset \in 0 .. MaxSize : Seek(fd, offset)
       \/ \E bytes \in Strings : Write(fd, bytes)
       \/ Close(fd)

Spec == Init /\ [][Next]_<<files, open>>
=============================================================================
