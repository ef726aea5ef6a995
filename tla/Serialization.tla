---------------------------- MODULE Serialization ----------------------------
(***************************************************************************)
(* TA_Serializer over TA_BufferWriter and TA_BufferReader: the objects of  *)
(* a program pass, property by property, through a buffer and the stream's *)
(* own buffer into a file, and come back from there, possibly while the    *)
(* writer is still in use.                                                 *)
(*                                                                         *)
(* A byte is the number it belongs to, that number's size, and its place,  *)
(* 0 being the lowest byte; the machine is little-endian.  What is written *)
(* to the stream may reach the file at any time (external: fstream), at    *)
(* the latest when it is closed.                                           *)
(***************************************************************************)
EXTENDS Reflection

CONSTANTS
  Objects,       \* what the program serializes: a class and a value for
                 \* each of its members, the inherited ones included
  MaxObjects,    \* bound on how many
  BufferSizes,   \* the buffer size given to both serializers
  Versions,      \* the version given to the writer
  Pieces,        \* bound on how the stream's bytes reach the file: so many
                 \* at a time, or all
  Garbage        \* bytes of more than one number

(* What the numbers are part of, and of what size they are.  What has a    *)
(* fixed number of them (a number, a pair, an array of C) is "fixed".      *)
Shapes == {"fixed", "enum", "list", "stack"}
Sizes == {1, 2, 4, 8}

ASSUME ShapesAssumption ==
  \A c \in Classes : \A k \in 1 .. Len(Fields[c]) :
    LET f == Fields[c][k] IN f.shape \in Shapes /\ f.size \in Sizes /\ f.blank \in Seq(Nat)
ASSUME ObjectsAssumption ==
  \A o \in Objects :
    /\ o.class \in Classes
    /\ o.members \in [ToSet(Aggregate[o.class]) -> Seq(Nat)]
    /\ \A m \in DOMAIN o.members :
         /\ Field(m).shape = "enum" => Len(o.members[m]) = 1
         /\ Field(m).shape = "fixed" => Len(o.members[m]) = Len(Field(m).blank)
    /\ Len(Bases[o.class]) <= 1   \* or it has no properties, see PropertyInfos
ASSUME BoundAssumption == MaxObjects \in Nat
ASSUME VersionsAssumption == Versions \subseteq Nat
ASSUME PiecesAssumption == Pieces \subseteq Nat
ASSUME GarbageAssumption == Garbage \notin Nat

(* A smaller buffer overflows: write does not check after the flush.       *)
ASSUME BufferAssumption == \A b \in BufferSizes : b \in Nat /\ b >= 8

VARIABLES
  size,          \* m_buffer.size()
  version,       \* the writer's m_version
  written,       \* the objects put so far
  numbers,       \* what is still to be written of the last of them
  buffer,        \* the writer's m_buffer up to m_validSize
  stream,        \* what the writer's fstream holds
  file,
  writer,        \* "open", "closed" or "destroyed"
  early,         \* it was closed with bytes in the buffer
  reader,        \* "none" or "open"
  whole,         \* it was opened after the writer was gone
  known,         \* its m_version
  at,            \* how much of the file its stream has read
  eof,           \* the stream's eofbit
  window,        \* its m_buffer from m_offset to m_validSize
  taking,        \* the object it reads, the properties left, and the
                 \* numbers of the value it is at
  got,           \* the objects read
  failed         \* a read has returned false

writerVars == << version, written, numbers, buffer, stream, writer, early >>
readerVars == << reader, whole, known, at, eof, window, taking, got, failed >>
vars == << size, file, writerVars, readerVars >>

-----------------------------------------------------------------------------
(* Bytes                                                                   *)

Number(n, bytes) == [value |-> n, size |-> bytes]

(* In memory the lowest byte comes first.                                  *)
InMemory(x) == [k \in 1 .. x.size |-> [of |-> x, place |-> k - 1]]

(* swapEndian                                                              *)
Swapped(x) == Reverse(InMemory(x))

(* What bytes of the file, swapped, are as a number of their length.       *)
AsNumber(bytes) ==
  IF bytes = Swapped(bytes[1].of) THEN bytes[1].of.value ELSE Garbage

-----------------------------------------------------------------------------
(* What operator<< writes                                                  *)

Count(n) == Number(n, 8)

(* extractProperty skips what is newer than the file.                      *)
Included(p, ver) == p.since <= ver

Properties(c, ver) ==
  At(PropertyInfos[c], {k \in 1 .. Len(PropertyInfos[c]) : Included(PropertyInfos[c][k], ver)})

Elements(f, items) == [k \in 1 .. Len(items) |-> Number(items[k], f.size)]

(* An enum is cast to uint8_t.                                             *)
Byte(items) == << Number(items[1] % 256, 1) >>

(* Mutant: a stack is written from the bottom. *)
Numbers_BottomFirst(f, items) ==
  CASE f.shape = "fixed" -> Elements(f, items)
    [] f.shape = "enum" -> Byte(items)
    [] f.shape \in {"list", "stack"} -> << Count(Len(items)) >> \o Elements(f, items)

(* A container is its length and its elements, a stack from the top.       *)
Numbers(f, items) ==
  CASE f.shape = "fixed" -> Elements(f, items)
    [] f.shape = "enum" -> Byte(items)
    [] f.shape = "list" -> << Count(Len(items)) >> \o Elements(f, items)
    [] f.shape = "stack" -> << Count(Len(items)) >> \o Reverse(Elements(f, items))

(* extractProperty: some properties of an object, each as the member that  *)
(* invoke finds by its name.                                               *)
InfosNumbers(o, infos) ==
  LET member(k) == FindType(o.class, infos[k].name)
  IN FlattenSeq([k \in 1 .. Len(infos) |-> Numbers(Field(member(k)), o.members[member(k)])])

ObjectNumbers(o, ver) == InfosNumbers(o, Properties(o.class, ver))

(* The version precedes everything and is not swapped.                     *)
Header == InMemory(Number(version, 8))

Nothing == [into |-> << >>, infos |-> << >>, wanted |-> << >>, items |-> << >>]

Init ==
  /\ size \in BufferSizes
  /\ version \in Versions
  /\ written = << >> /\ numbers = << >>
  /\ buffer = Header /\ stream = << >> /\ file = << >>
  /\ writer = "open" /\ early = FALSE
  /\ reader = "none" /\ whole = FALSE /\ known = 0 /\ at = 0 /\ eof = FALSE
  /\ window = << >> /\ taking = Nothing /\ got = << >> /\ failed = FALSE

-----------------------------------------------------------------------------
(* The writer                                                              *)

Put(o) ==
  /\ writer = "open" /\ numbers = << >>
  /\ Len(written) < MaxObjects
  /\ written' = Append(written, o)
  /\ numbers' = ObjectNumbers(o, version)
  /\ UNCHANGED << size, file, version, buffer, stream, writer, early, readerVars >>

(* Mutant: the bytes of the buffer are dropped instead of flushed. *)
Write_Restart ==
  /\ writer = "open" /\ numbers # << >>
  /\ LET bytes == Swapped(Head(numbers)) IN
     IF Len(buffer) + Len(bytes) > size
     THEN buffer' = bytes /\ UNCHANGED stream
     ELSE buffer' = buffer \o bytes /\ UNCHANGED stream
  /\ numbers' = Tail(numbers)
  /\ UNCHANGED << size, file, version, written, writer, early, readerVars >>

(* write: when the number does not fit, the buffer is flushed first.       *)
Write ==
  /\ writer = "open" /\ numbers # << >>
  /\ LET bytes == Swapped(Head(numbers)) IN
     IF Len(buffer) + Len(bytes) > size
     THEN stream' = stream \o buffer /\ buffer' = bytes
     ELSE buffer' = buffer \o bytes /\ UNCHANGED stream
  /\ numbers' = Tail(numbers)
  /\ UNCHANGED << size, file, version, written, writer, early, readerVars >>

(* flush empties the buffer into the stream, not the stream into the file. *)
Flush ==
  /\ writer = "open" /\ numbers = << >>
  /\ stream' = stream \o buffer /\ buffer' = << >>
  /\ UNCHANGED << size, file, version, written, numbers, writer, early, readerVars >>

(* close closes the stream without a flush; what is put after it, and what *)
(* the destructor flushes, is dropped.                                     *)
Close ==
  /\ writer = "open" /\ numbers = << >>
  /\ file' = file \o stream /\ stream' = << >>
  /\ early' = (buffer # << >>) /\ buffer' = << >>
  /\ writer' = "closed"
  /\ UNCHANGED << size, version, written, numbers, readerVars >>

(* The destructor flushes, then closes.                                    *)
Destroy ==
  /\ writer = "open" /\ numbers = << >>
  /\ file' = file \o stream \o buffer
  /\ stream' = << >> /\ buffer' = << >>
  /\ writer' = "destroyed"
  /\ UNCHANGED << size, version, written, numbers, early, readerVars >>

(* The stream's own buffer runs over: some of it reaches the file.         *)
Spill ==
  /\ stream # << >>
  /\ \E n \in (Pieces \intersect 1 .. Len(stream)) \union {Len(stream)} :
       /\ file' = file \o SubSeq(stream, 1, n)
       /\ stream' = SubSeq(stream, n + 1, Len(stream))
  /\ UNCHANGED << size, version, written, numbers, buffer, writer, early, readerVars >>

Writer == (\E o \in Objects : Put(o)) \/ Write \/ Flush \/ Close \/ Destroy \/ Spill

-----------------------------------------------------------------------------
(* The reader                                                              *)

Least(a, b) == IF a <= b THEN a ELSE b

(* fillBuffer, unless the stream has ended before: what is left moves to   *)
(* the front, and the rest of the buffer is read.                          *)
Filled ==
  LET n == Least(size - Len(window), Len(file) - at) IN
  [window |-> window \o SubSeq(file, at + 1, at + n), at |-> at + n,
   eof |-> n < size - Len(window), any |-> n > 0]

(* Mutant: the bytes left in the buffer are given up before it is filled. *)
Read_Dropped(n) ==
  LET m == Least(size, Len(file) - at) IN
  IF Len(window) >= n
  THEN [window |-> window, at |-> at, eof |-> eof, ok |-> TRUE]
  ELSE IF eof
  THEN [window |-> window, at |-> at, eof |-> eof, ok |-> FALSE]
  ELSE [window |-> SubSeq(file, at + 1, at + m), at |-> at + m, eof |-> m < size, ok |-> m >= n]

(* read of a number of n bytes: what the buffer holds then, and whether    *)
(* there were enough.                                                      *)
Read(n) ==
  IF Len(window) >= n
  THEN [window |-> window, at |-> at, eof |-> eof, ok |-> TRUE]
  ELSE IF eof
  THEN [window |-> window, at |-> at, eof |-> eof, ok |-> FALSE]
  ELSE [window |-> Filled.window, at |-> Filled.at, eof |-> Filled.eof,
        ok |-> Filled.any /\ Len(Filled.window) >= n]

Keep(r) == at' = r.at /\ eof' = r.eof

(* The constructor reads the version; without one it keeps its own.        *)
Open ==
  /\ reader = "none"
  /\ reader' = "open"
  /\ whole' = (writer = "destroyed")
  /\ LET r == Read(8) IN
     /\ Keep(r)
     /\ window' = IF r.ok THEN SubSeq(r.window, 9, Len(r.window)) ELSE r.window
     /\ known' = IF r.ok THEN r.window[1].of.value ELSE version
     /\ failed' = ~ r.ok
  /\ UNCHANGED << size, file, writerVars, taking, got >>

(* A new object: numbers are 0, containers empty.                          *)
Blank(c) == [class |-> c, members |-> [m \in ToSet(Aggregate[c]) |-> Field(m).blank]]

(* The sizes operator>> reads: a container's elements follow its count.    *)
Wanted(m) ==
  CASE Field(m).shape = "fixed" -> [k \in 1 .. Len(Field(m).blank) |-> Field(m).size]
    [] Field(m).shape = "enum" -> << 1 >>
    [] Field(m).shape \in {"list", "stack"} -> << 8 >>

(* The member that findType finds for the property at hand.                *)
Target(into, infos) == FindType(into.class, Head(infos).name)

Reading(into, infos) ==
  [into |-> << into >>, infos |-> infos, items |-> << >>,
   wanted |-> IF infos = << >> THEN << >> ELSE Wanted(Target(into, infos))]

(* The program reads the objects in the order it has put them, each into a *)
(* new one of that class.                                                  *)
Take ==
  /\ reader = "open" /\ taking = Nothing
  /\ Len(got) < Len(written)
  /\ LET c == written[Len(got) + 1].class IN
     taking' = Reading(Blank(c), Properties(c, known))
  /\ UNCHANGED << size, file, writerVars, reader, whole, known, at, eof, window, got, failed >>

Member == Target(taking.into[1], taking.infos)

IsCount ==
  Field(Member).shape \in {"list", "stack"} /\ taking.wanted = << 8 >> /\ taking.items = << >>

(* A read that fails leaves the number as it was, 0.                       *)
TakeNumber ==
  /\ reader = "open" /\ taking # Nothing /\ taking.wanted # << >>
  /\ LET n == Head(taking.wanted)
         r == Read(n)
         x == IF r.ok THEN AsNumber(SubSeq(r.window, 1, n)) ELSE 0
     IN
     /\ Keep(r)
     /\ window' = IF r.ok THEN SubSeq(r.window, n + 1, Len(r.window)) ELSE r.window
     /\ failed' = (failed \/ ~ r.ok)
     /\ taking' = IF IsCount
                  THEN [taking EXCEPT !.wanted = [k \in 1 .. x |-> Field(Member).size], !.items = << x >>]
                  ELSE [taking EXCEPT !.wanted = Tail(@), !.items = Append(@, x)]
  /\ UNCHANGED << size, file, writerVars, reader, whole, known, got >>

(* A stack is built from the elements in reverse.                          *)
Restored ==
  CASE Field(Member).shape \in {"fixed", "enum"} -> taking.items
    [] Field(Member).shape = "list" -> Tail(taking.items)
    [] Field(Member).shape = "stack" -> Reverse(Tail(taking.items))

(* update assigns the value to the member.                                 *)
TakeProperty ==
  /\ reader = "open" /\ taking # Nothing /\ taking.wanted = << >> /\ taking.infos # << >>
  /\ taking' = Reading([taking.into[1] EXCEPT !.members[Member] = Restored], Tail(taking.infos))
  /\ UNCHANGED << size, file, writerVars, reader, whole, known, at, eof, window, got, failed >>

Taken ==
  /\ reader = "open" /\ taking # Nothing /\ taking.wanted = << >> /\ taking.infos = << >>
  /\ got' = Append(got, taking.into[1])
  /\ taking' = Nothing
  /\ UNCHANGED << size, file, writerVars, reader, whole, known, at, eof, window, failed >>

Reader == Open \/ Take \/ TakeNumber \/ TakeProperty \/ Taken

-----------------------------------------------------------------------------
Next == Writer \/ Reader

Spec == Init /\ [][Next]_vars

-----------------------------------------------------------------------------
Bytes(xs) == FlattenSeq([k \in 1 .. Len(xs) |-> Swapped(xs[k])])

Encoding ==
  Header \o FlattenSeq([k \in 1 .. Len(written) |-> Bytes(ObjectNumbers(written[k], version))])

(* No byte is lost, doubled or overtaken between buffer, stream and file:  *)
(* together they are what was put so far, and the file alone is, once the  *)
(* writer is destroyed.  Only a close with a filled buffer cuts the end.   *)
NothingLost ==
  CASE writer = "open" ->
         file \o stream \o buffer \o Bytes(numbers) = Encoding
    [] writer = "destroyed" -> file = Encoding
    [] writer = "closed" -> IsPrefix(file, Encoding) /\ (early \/ file = Encoding)

(* As long as no read has failed, a member read is as it was put, or was   *)
(* left as it is in a new object, however buffers and numbers meet, and    *)
(* whenever the reader was opened.  An enum comes back modulo 256.         *)
Comparable(m, items) == Field(m).shape # "enum" \/ items[1] <= 255

ReadsAreOwn ==
  ~ failed =>
    \A k \in 1 .. Len(got) : \A m \in DOMAIN got[k].members :
      Comparable(m, written[k].members[m]) =>
        got[k].members[m] \in {written[k].members[m], Field(m).blank}

(* And none is left out that the version includes (README: "inheritance    *)
(* hierarchies"), but for two: a property of a base's base, and one that a *)
(* property of the class hides by its name.                                *)
Hidden(c, m) == FindType(c, FindName(c, m)) # m

Inherited(c, m) == m[1] # c /\ m[1] \notin ToSet(Bases[c])

ObjectsRestored ==
  ~ failed =>
    \A k \in 1 .. Len(got) : \A m \in DOMAIN got[k].members :
      LET c == got[k].class IN
      /\ Field(m).property /\ Field(m).since <= version
      /\ ~ Hidden(c, m) /\ ~ Inherited(c, m)
      /\ Comparable(m, written[k].members[m])
      => got[k].members[m] = written[k].members[m]

(* A reader opened after the writer was destroyed gets everything: no read *)
(* fails, up to the last byte of the file.                                 *)
CompleteWhenWhole == whole => ~ failed
=============================================================================
