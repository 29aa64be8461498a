---------------------------- MODULE RuntimeFiles ----------------------------
(***************************************************************************)
(* The open files of one RuntimeSystemContext (runtime/io/runtime_system): *)
(* the identifier table, the buffered input of partial reads and the       *)
(* positions scripts are told.  A reading builtin takes all remaining      *)
(* input, consumes a part of it and gives the rest back in a second        *)
(* critical section; another session of the same context may open files or *)
(* close all of them in between.  Text mode translates line ends as the    *)
(* Windows build does; elsewhere every file is binary.                     *)
(***************************************************************************)
EXTENDS Integers, SequencesExt

CONSTANTS
  Contents,            \* what a file may hold when it is opened
  Texts,               \* what a script writes in one call
  Modes,               \* the permissions scripts open files with
  MaxIdentifier,       \* the largest int
  MaximumOpenFiles,    \* maximumOpenFiles_
  MaximumReadBytes,    \* maximumFileReadBytes_
  MaxSize              \* bound: no file grows larger

ASSUME FilesAssumption ==
  /\ Contents \subseteq {content \in Seq({"CR", "LF", "x"}) : Len(content) <= MaxSize}
  /\ Texts \subseteq Seq({"w", "LF"}) \ {<<>>}
  /\ Modes \subseteq [readable : BOOLEAN, writable : BOOLEAN, append : BOOLEAN,
                      truncate : BOOLEAN, binary : BOOLEAN]
  /\ MaxIdentifier \in Nat /\ MaximumOpenFiles \in Nat \ {0}
  /\ MaximumOpenFiles < MaxIdentifier - 2  \* an identifier is always free
  /\ MaximumReadBytes \in Nat /\ MaxSize \in Nat

VARIABLES
  openFiles,           \* openFiles_
  nextFileIdentifier,  \* nextFileIdentifier_
  reading,             \* the builtin between its two critical sections
  handedOut            \* history: the identifiers ever returned

fileVars == <<openFiles, nextFileIdentifier, reading, handedOut>>

Identifiers == 3 .. MaxIdentifier
OpenIdentifiers == DOMAIN openFiles
NoRead == [id |-> 0, text |-> <<>>, from |-> 0]

-----------------------------------------------------------------------------
(* Text of a host file: \r\n is one \n, and the logical offset behind it
   stands for one more physical byte.                                       *)

Dropped(raw, binary) ==
  {i \in DOMAIN raw : ~binary /\ i < Len(raw) /\ raw[i] = "CR" /\ raw[i + 1] = "LF"}

Kept(raw, binary) == DOMAIN raw \ Dropped(raw, binary)

(* How many of the characters up to i are kept.                             *)
Rank(raw, binary, i) == Cardinality({k \in Kept(raw, binary) : k <= i})

LogicalText(raw, binary) ==
  [n \in 1 .. Cardinality(Kept(raw, binary)) |->
     raw[CHOOSE i \in Kept(raw, binary) : Rank(raw, binary, i) = n]]

ExtraPhysicalByteOffsets(raw, binary) ==
  {Rank(raw, binary, i + 1) : i \in Dropped(raw, binary)}

Translated(text, binary) ==
  FlattenSeq([i \in DOMAIN text |->
                IF ~binary /\ text[i] = "LF" THEN <<"CR", "LF">> ELSE <<text[i]>>])

PutAt(content, at, bytes) ==
  LET size == IF at + Len(bytes) > Len(content) THEN at + Len(bytes) ELSE Len(content)
  IN IF bytes = <<>> THEN content
     ELSE [i \in 1 .. size |-> CASE i > at /\ i <= at + Len(bytes) -> bytes[i - at]
                                 [] i <= Len(content) /\ ~(i > at /\ i <= at + Len(bytes)) -> content[i]
                                 [] OTHER -> "0"]

(* What follows the position of the stream.                                 *)
RestOfFile(file) == SubSeq(file.content, file.position + 1, Len(file.content))

(* filePosition: the stream is ahead of the script by the unread input.     *)
ToldWithoutExtra(file) == file.position - Len(file.unread)
Told(file) == file.position - Len(file.unread) - Cardinality(file.unreadExtra)

NewFile(mode, content) ==
  [mode |-> mode, content |-> IF mode.truncate THEN <<>> ELSE content,
   position |-> 0, streaming |-> TRUE, unread |-> <<>>, unreadExtra |-> {},
   pendingSize |-> 0, pendingExtra |-> {}, pendingEnd |-> FALSE,
   endOfFile |-> FALSE, failed |-> FALSE, lastOperation |-> "none"]

SetFile(id, file) == openFiles' = [openFiles EXCEPT ![id] = file]
FailFile(id) == SetFile(id, [openFiles[id] EXCEPT !.failed = TRUE])
NotReading == reading = NoRead

FilesInit ==
  /\ openFiles = <<>>
  /\ nextFileIdentifier = 3
  /\ reading = NoRead
  /\ handedOut = {}

-----------------------------------------------------------------------------
(* The table of identifiers.                                                *)

SameIdentifier(id) == id
NextIdentifier(id) == IF id = MaxIdentifier THEN 3 ELSE id + 1

(* The first identifier from the next one on, with wrap, that is not open.  *)
FreeIdentifier ==
  LET free == Identifiers \ OpenIdentifiers
      ahead == {id \in free : id >= nextFileIdentifier}
      candidates == IF ahead = {} THEN free ELSE ahead
  IN CHOOSE id \in candidates : \A other \in candidates : id <= other

(* Identifiers are 31 bits wide: none comes round while one call is active. *)
openFile ==
  /\ Cardinality(OpenIdentifiers) < MaximumOpenFiles
  /\ FreeIdentifier # reading.id
  /\ \E mode \in Modes, content \in Contents :
       openFiles' = [id \in OpenIdentifiers \cup {FreeIdentifier} |->
                       IF id = FreeIdentifier THEN NewFile(mode, content) ELSE openFiles[id]]
  /\ nextFileIdentifier' = NextIdentifier(FreeIdentifier)
  /\ handedOut' = handedOut \cup {FreeIdentifier}
  /\ UNCHANGED reading

(* A file whose close fails stays in the table although its stream is gone. *)
closeFile(id) ==
  /\ NotReading
  /\ \/ /\ openFiles[id].streaming
        /\ openFiles' = [other \in OpenIdentifiers \ {id} |-> openFiles[other]]
     \/ SetFile(id, [openFiles[id] EXCEPT !.streaming = FALSE])
  /\ UNCHANGED <<nextFileIdentifier, reading, handedOut>>

closeAllFiles ==
  /\ OpenIdentifiers # {}
  /\ openFiles' = <<>>
  /\ UNCHANGED <<nextFileIdentifier, reading, handedOut>>

-----------------------------------------------------------------------------
(* Reading: fgetl, fgets, fread and fscanf.                                 *)

Readable(file) ==
  /\ file.mode.readable
  /\ file.lastOperation # "write"
  /\ Len(file.unread) <= MaximumReadBytes
  /\ file.streaming
  /\ Len(LogicalText(RestOfFile(file), file.mode.binary)) <= MaximumReadBytes - Len(file.unread)

(* All the input there is, and the file while a builtin has it.             *)
Input(file) == file.unread \o LogicalText(RestOfFile(file), file.mode.binary)

TakenFrom(file) ==
  [file EXCEPT !.position = IF @ > Len(file.content) THEN @ ELSE Len(file.content),
               !.unread = <<>>, !.unreadExtra = {},
               !.pendingSize = Len(Input(file)),
               !.pendingExtra = file.unreadExtra \cup
                 {Len(file.unread) + o :
                    o \in ExtraPhysicalByteOffsets(RestOfFile(file), file.mode.binary)},
               !.pendingEnd = TRUE, !.endOfFile = FALSE, !.failed = FALSE,
               !.lastOperation = "read"]

readFileRemaining(id) ==
  /\ NotReading
  /\ LET file == openFiles[id]
     IN IF Readable(file)
        THEN /\ SetFile(id, TakenFrom(file))
             /\ reading' = [id |-> id, text |-> Input(file), from |-> Told(file)]
        ELSE FailFile(id) /\ UNCHANGED reading
  /\ UNCHANGED <<nextFileIdentifier, handedOut>>

(* runtimeReadFileLine: up to and with the first line end, which may be two
   different characters, or `limit` characters.                             *)
LineConsumed(text, limit) ==
  LET ends == {i \in DOMAIN text : text[i] \in {"CR", "LF"} /\ i <= limit}
      first == CHOOSE i \in ends : \A j \in ends : i <= j
      paired == first < Len(text) /\ text[first + 1] \in {"CR", "LF"} \ {text[first]}
  IN IF ends = {} THEN IF limit < Len(text) THEN limit ELSE Len(text)
     ELSE IF paired THEN first + 1 ELSE first

(* runtimeDecodeBinaryData: at most `values` of one byte, in blocks with a
   skip behind each full block; what is short of a value is consumed.       *)
BinaryConsumed(text, values, block, skip) ==
  LET blocks == values \div block
      cursor == values + blocks * skip
  IN IF cursor < Len(text) THEN cursor ELSE Len(text)

(* What a builtin may take of the text; a failed scan gives all of it back. *)
Consumptions(text) ==
  {0} \cup {LineConsumed(text, limit) : limit \in {1, Len(text) + 1}}
      \cup {BinaryConsumed(text, values, 2, 1) : values \in {1, 2}}

StillAheadTooFew(pending, taken) == {o - taken : o \in {e \in pending : e >= taken}}
StillAhead(pending, taken) == {o - taken : o \in {e \in pending : e > taken}}

GivenBack(file, text) ==
  [file EXCEPT !.unread = text,
               !.unreadExtra = StillAhead(file.pendingExtra, file.pendingSize - Len(text)),
               !.endOfFile = file.pendingEnd /\ text = <<>>,
               !.pendingSize = 0, !.pendingExtra = {}, !.pendingEnd = FALSE]

restoreUnreadFileData(consumed) ==
  /\ ~NotReading
  /\ LET id == reading.id
         text == SubSeq(reading.text, consumed + 1, Len(reading.text))
     IN IF id \in OpenIdentifiers THEN SetFile(id, GivenBack(openFiles[id], text))
        ELSE UNCHANGED openFiles
  /\ reading' = NoRead
  /\ UNCHANGED <<nextFileIdentifier, handedOut>>

-----------------------------------------------------------------------------
(* Writing: fprintf, and fwrite in blocks of one value with a skip between. *)

MayWriteAnytime(file) == file.mode.writable
MayWrite(file) == file.mode.writable /\ file.lastOperation # "read"

WrittenAt(file) == IF file.mode.append THEN Len(file.content) ELSE file.position

Written(file, bytes) ==
  [file EXCEPT !.content = PutAt(file.content, WrittenAt(file), bytes),
               !.position = WrittenAt(file) + Len(bytes)]

WriteCompleted(file) ==
  [file EXCEPT !.lastOperation = "write", !.endOfFile = FALSE, !.failed = FALSE]

writeFile(id, text) ==
  /\ NotReading
  /\ LET file == openFiles[id]
         bytes == Translated(text, file.mode.binary)
     IN /\ WrittenAt(file) + Len(bytes) <= MaxSize
        /\ IF MayWrite(file) /\ file.streaming
           THEN \/ SetFile(id, WriteCompleted(Written(file, bytes)))
                \/ \E n \in 0 .. Len(bytes) :  \* the host fails after n bytes
                     SetFile(id, [Written(file, SubSeq(bytes, 1, n)) EXCEPT !.failed = TRUE])
           ELSE FailFile(id)
  /\ UNCHANGED <<nextFileIdentifier, reading, handedOut>>

(* A skip writes a zero when appending and moves the position otherwise.    *)
SkippedByte(file) ==
  IF file.mode.append THEN Written(file, <<"0">>) ELSE [file EXCEPT !.position = @ + 1]

writeFileBlocks(id) ==
  /\ NotReading
  /\ LET file == openFiles[id]
         one(f) == Written(f, <<"w">>)
     IN /\ WrittenAt(file) + 3 <= MaxSize
        /\ IF MayWrite(file) /\ file.streaming
           THEN \/ SetFile(id, WriteCompleted(one(SkippedByte(one(file)))))
                \/ \E part \in {file, one(file), SkippedByte(one(file))} :
                     SetFile(id, [part EXCEPT !.failed = TRUE])
           ELSE FailFile(id)
  /\ UNCHANGED <<nextFileIdentifier, reading, handedOut>>

-----------------------------------------------------------------------------

Origins == {"bof", "cof", "eof"}

Sought(file, position) ==
  [file EXCEPT !.position = position, !.unread = <<>>, !.unreadExtra = {},
               !.pendingSize = 0, !.pendingExtra = {}, !.pendingEnd = FALSE,
               !.endOfFile = FALSE, !.failed = FALSE, !.lastOperation = "none"]

seekFile(id, offset, origin) ==
  /\ NotReading
  /\ LET file == openFiles[id]
         base == CASE origin = "bof" -> 0
                   [] origin = "cof" -> Told(file)
                   [] origin = "eof" -> Len(file.content)
     IN /\ base + offset <= MaxSize
        /\ IF base + offset >= 0 /\ file.streaming
           THEN SetFile(id, Sought(file, base + offset))
           ELSE FailFile(id)
  /\ UNCHANGED <<nextFileIdentifier, reading, handedOut>>

fileError(id) ==
  /\ NotReading /\ openFiles[id].failed
  /\ SetFile(id, [openFiles[id] EXCEPT !.failed = FALSE])
  /\ UNCHANGED <<nextFileIdentifier, reading, handedOut>>

FilesNext ==
  \/ openFile
  \/ closeAllFiles
  \/ \E consumed \in Consumptions(reading.text) : restoreUnreadFileData(consumed)
  \/ \E id \in OpenIdentifiers :
       \/ closeFile(id)
       \/ readFileRemaining(id)
       \/ \E text \in Texts : writeFile(id, text)
       \/ writeFileBlocks(id)
       \/ \E offset \in {-1, 0, 1}, origin \in Origins : seekFile(id, offset, origin)
       \/ fileError(id)

FilesSpec == FilesInit /\ [][FilesNext]_fileVars

-----------------------------------------------------------------------------

FilesTypeOK ==
  /\ OpenIdentifiers \subseteq Identifiers /\ Cardinality(OpenIdentifiers) <= MaximumOpenFiles
  /\ nextFileIdentifier \in Identifiers
  /\ handedOut \subseteq Identifiers /\ OpenIdentifiers \subseteq handedOut
  /\ \A id \in OpenIdentifiers :
       LET file == openFiles[id]
       IN /\ file.position \in 0 .. MaxSize
          /\ file.lastOperation \in {"none", "read", "write"}
          /\ file.pendingExtra \subseteq 1 .. file.pendingSize
          /\ file.unreadExtra \subseteq 1 .. Len(file.unread)

Settled(id) == reading.id # id

(* The position a script is told is where its next input starts: what is
   buffered and what is left in the stream are together the text from there
   on, line ends translated, however reads, seeks and failures alternated
   (filePosition, restoreUnreadFileData).                                   *)
NextByteTold ==
  \A id \in OpenIdentifiers :
    LET file == openFiles[id]
        ahead == SubSeq(file.content, Told(file) + 1, Len(file.content))
    IN Settled(id) =>
         /\ Told(file) >= 0
         /\ LogicalText(ahead, file.mode.binary)
              = file.unread \o LogicalText(RestOfFile(file), file.mode.binary)

(* After a read, the end-of-file flag says whether any input is left, and no
   other operation leaves it set (fileEndOfFile).                           *)
EndOfFileTrue ==
  \A id \in OpenIdentifiers :
    Settled(id) =>
      (openFiles[id].endOfFile
         <=> /\ openFiles[id].lastOperation = "read"
             /\ Told(openFiles[id]) >= Len(openFiles[id].content))

FilesConsistent == FilesTypeOK /\ NextByteTold /\ EndOfFileTrue

(* A read moves the told position exactly behind what it returned.          *)
ReadsContinue ==
  \A id \in OpenIdentifiers :
    (reading.id = id /\ reading' = NoRead /\ id \in DOMAIN openFiles') =>
      LET file == openFiles'[id]
          taken == SubSeq(reading.text, 1, Len(reading.text) - Len(file.unread))
      IN LogicalText(SubSeq(file.content, reading.from + 1, Told(file)), file.mode.binary)
           = taken

(* A write changes nothing before the told position, and begins there.      *)
WritesWhereTold ==
  \A id \in OpenIdentifiers \cap DOMAIN openFiles' :
    LET before == openFiles[id]
        after == openFiles'[id]
        start == IF before.mode.append THEN Len(before.content) ELSE Told(before)
    IN before.content # after.content =>
         /\ \A i \in DOMAIN before.content :
              i <= start => after.content[i] = before.content[i]
         /\ after.content[start + 1] \notin {"x", "0"}

(* An identifier comes back only when every identifier has been used.       *)
IdentifiersFresh ==
  \A id \in DOMAIN openFiles' \ OpenIdentifiers :
    id \in handedOut => handedOut = Identifiers

(* A read returns what follows the told position; a write starts exactly    *)
(* there (at the end, when appending): the input an update stream has       *)
(* buffered never displaces what is written next; and a stale identifier    *)
(* does not soon name another file (readFileRemaining, writeFile, openFile  *)
(* of runtime_system.cpp).                                                  *)
TransfersWhereTold ==
  [][ReadsContinue /\ WritesWhereTold /\ IdentifiersFresh]_fileVars

=============================================================================
