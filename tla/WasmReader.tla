------------------------------ MODULE WasmReader ------------------------------
(***************************************************************************)
(* The two readers of WASM binaries in packages/soroban-utils: wasm-parser *)
(* looks for a custom section, wasm-resource-estimator lists the sections  *)
(* and measures the functions of the code section.  Each walks the file    *)
(* and decodes numbers (LEB128) in its own way; here they read the same    *)
(* files and are compared with each other and with what a number means.    *)
(*                                                                         *)
(* A byte is its continuation bit and the set of its other bits, and a     *)
(* number the set of its bits, so that `|` is a union.  Widths are scaled: *)
(* 32 bits in groups of 7 over at most 5 bytes become Width, GroupBits and *)
(* MaxBytes.  The header of eight bytes has been checked and left out.     *)
(***************************************************************************)
EXTENDS Naturals, Sequences, Functions

CONSTANTS
  GroupBits, Width, MaxBytes,
  MaxSections,   \* MAX_SECTIONS of the parser
  CustomId,      \* the bytes that name the kind of a section
  CodeId,
  SoughtName,    \* the byte that stands for the name looked for
  Byte,          \* the bytes that files are made of
  MaxLength      \* bound on the files

Bit == 0 .. GroupBits - 1

ASSUME ReaderAssumption ==
  /\ GroupBits \in Nat \ {0} /\ MaxBytes \in Nat \ {0} /\ MaxSections \in Nat \ {0}
  /\ Width \in GroupBits * (MaxBytes - 1) + 1 .. GroupBits * MaxBytes
  /\ Byte \subseteq [more : BOOLEAN, low : SUBSET Bit]
  /\ {CustomId, CodeId, SoughtName} \subseteq Byte /\ MaxLength \in Nat

VARIABLES
  binary,   \* the file, or <<>>
  section,  \* what extractWasmCustomSection returns of it
  estimate  \* what estimateWasmResources returns of it

readerVars == <<binary, section, estimate>>

Num(bits) == SumFunction([b \in bits |-> 2^b])
Least(a, b) == IF a < b THEN a ELSE b
Null == [from |-> 0, to |-> 0]

(* How many bytes from offset o on say that another follows. *)
Run(bytes, o) ==
  LET ends == {n \in 0 .. Len(bytes) - o : o + n = Len(bytes) \/ ~ bytes[o + n + 1].more}
  IN CHOOSE n \in ends : \A m \in ends : n <= m

(* The bits of the n bytes from offset o on, each group by its shift. *)
Bits(bytes, o, n, shifts) ==
  (UNION {{b + shifts[i] : b \in bytes[o + i].low} : i \in 1 .. n}) \cap 0 .. Width - 1

(* The state of a loop after n rounds. *)
Rounds(Round(_), start, n) ==
  LET after[i \in 0 .. n] == IF i = 0 THEN start ELSE Round(after[i - 1])
  IN after[n]

-----------------------------------------------------------------------------
(* readVarUint of the parser: a number that does not end in time is 0, and *)
(* the walk goes on behind it.                                             *)
ReadVar(bytes, o) ==
  LET run == Run(bytes, o)
      shifts == [i \in 1 .. MaxBytes |-> GroupBits * (i - 1)]
  IN
  IF run < MaxBytes /\ o + run < Len(bytes)
  THEN [value |-> Num(Bits(bytes, o, run + 1, shifts)), next |-> o + run + 1]
  ELSE [value |-> 0, next |-> Least(o + MaxBytes, Len(bytes))]

(* Mutant: the size of a section is counted from the byte of its kind. *)
SectionEndShort(o, size) == o + size.value + 1

SectionEnd(o, size) == size.next + size.value

(* A round of extractWasmCustomSection.  It ends with what follows the     *)
(* name in the first custom section of that name, or with null, and goes   *)
(* to the end of the file then.  Names longer than MAX_NAME_LENGTH are not *)
(* compared, and are not looked for either.                                *)
NextSection(bytes, walk) ==
  LET size == ReadVar(bytes, walk.at + 1)
      end == SectionEnd(walk.at, size)
      name == ReadVar(bytes, size.next)
      start == name.next + name.value
  IN
  IF walk.at = Len(bytes) THEN walk
  ELSE IF end > Len(bytes) THEN [walk EXCEPT !.at = Len(bytes)]
  ELSE IF bytes[walk.at + 1] = CustomId /\ start <= end /\ name.value = 1
          /\ bytes[name.next + 1] = SoughtName
       THEN [at |-> Len(bytes), found |-> [from |-> start, to |-> end]]
       ELSE [walk EXCEPT !.at = end]

Extract(bytes) ==
  Rounds(LAMBDA walk : NextSection(bytes, walk), [at |-> 0, found |-> Null], MaxSections).found

-----------------------------------------------------------------------------
Thrown == [ok |-> FALSE, value |-> 0, next |-> 0]

(* readVarUint of the estimator: it throws when the file ends, and after   *)
(* one byte more than the parser reads, whose shift wraps around.          *)
ReadStrict(bytes, o) ==
  LET run == IF o > Len(bytes) THEN 0 ELSE Run(bytes, o)
      shifts == [i \in 1 .. MaxBytes + 1 |-> (GroupBits * (i - 1)) % Width]
  IN
  IF run <= MaxBytes /\ o + run < Len(bytes)
  THEN [ok |-> TRUE, value |-> Num(Bits(bytes, o, run + 1, shifts)), next |-> o + run + 1]
  ELSE Thrown

BrokenSection == [id |-> CustomId, start |-> 0, end |-> 0]

(* A round of readSections; the last entry is Broken where it throws.      *)
PushSection(bytes, reader) ==
  LET size == ReadStrict(bytes, reader.at + 1)
      end == size.next + size.value
  IN
  IF reader.at = Len(bytes) THEN reader
  ELSE IF ~ size.ok \/ end > Len(bytes)
       THEN [at |-> Len(bytes), list |-> Append(reader.list, BrokenSection)]
       ELSE [at |-> end,
             list |-> Append(reader.list, [id |-> bytes[reader.at + 1], start |-> size.next,
                                           end |-> end])]

(* Every section is longer than nothing, so that many rounds are enough.   *)
Sections(bytes) ==
  Rounds(LAMBDA reader : PushSection(bytes, reader), [at |-> 0, list |-> <<>>], Len(bytes)).list

Complete(sections) == \A i \in DOMAIN sections : sections[i] # BrokenSection

(* Mutant: the body is not stepped over. *)
NextBodyNear(o, size) == size.next

NextBody(o, size) == size.next + size.value

(* A round of readCodeBodySizes; no size is compared with the end of the   *)
(* section.                                                                *)
NextSize(bytes, sizes) ==
  LET size == ReadStrict(bytes, sizes.next) IN
  IF ~ sizes.ok \/ ~ size.ok THEN Thrown
  ELSE [ok |-> TRUE, value |-> sizes.value + size.value, next |-> NextBody(sizes.next, size)]

(* The sizes, added up, and where their reader ends, from where it begins. *)
BodySizes(bytes, start) ==
  LET count == ReadStrict(bytes, start) IN
  IF count.ok
  THEN Rounds(LAMBDA sizes : NextSize(bytes, sizes), [count EXCEPT !.value = 0], count.value)
  ELSE Thrown

NoCode == [valid |-> TRUE, total |-> 0, read |-> 0]
Invalid == [valid |-> FALSE, total |-> 0, read |-> 0]

(* estimateWasmResources, of the code section alone.                       *)
Estimate(bytes) ==
  LET sections == Sections(bytes)
      code == {i \in DOMAIN sections : sections[i].id = CodeId}
      first == CHOOSE i \in code : \A j \in code : i <= j
      bodies == BodySizes(bytes, sections[first].start)
  IN
  IF ~ Complete(sections) THEN Invalid
  ELSE IF code = {} THEN NoCode
  ELSE IF ~ bodies.ok THEN Invalid
  ELSE [valid |-> TRUE, total |-> bodies.value, read |-> bodies.next - sections[first].start]

-----------------------------------------------------------------------------
ReaderInit == binary = <<>> /\ section = Null /\ estimate = NoCode

(* A file is given to both; each file is read by itself. *)
ReadBinary(bytes) ==
  /\ binary = <<>> /\ binary' = bytes
  /\ section' = Extract(bytes) /\ estimate' = Estimate(bytes)

File == UNION {[1 .. n -> Byte] : n \in 1 .. MaxLength}

ReaderNext == \E bytes \in File : ReadBinary(bytes)

ReaderSpec == ReaderInit /\ [][ReaderNext]_readerVars

-----------------------------------------------------------------------------
ReaderTypeOK ==
  /\ binary \in File \cup {<<>>}
  /\ section.from \in 0 .. Len(binary) /\ section.to \in section.from .. Len(binary)
  /\ estimate.valid \in BOOLEAN /\ {estimate.total, estimate.read} \subseteq Nat

(* No run of continuation bytes is longer than a number may be.            *)
Proper == \A o \in 0 .. Len(binary) : Run(binary, o) < MaxBytes

(* What the sections of a file are, told from the numbers in it: they      *)
(* follow each other from the first byte to the last.                      *)
Value(o, n) ==
  SumFunction([i \in 1 .. n |-> Num(binary[o + i].low) * 2^(GroupBits * (i - 1))]) % 2^Width
IsSection(from, to) ==
  \E n \in 1 .. MaxBytes :
    /\ from + 1 + n <= to /\ Run(binary, from + 1) = n - 1
    /\ from + 1 + n + Value(from + 1, n) = to
Tiled(cuts) ==
  /\ {0, Len(binary)} \subseteq cuts
  /\ \A from \in cuts \ {Len(binary)} :
       \E to \in cuts : IsSection(from, to) /\ cuts \cap from + 1 .. to - 1 = {}

(* On a file whose numbers are not overlong the two readers agree with     *)
(* that, and so with each other: the estimator lists exactly the sections  *)
(* there are, or none, and what the parser finds is the end of one of      *)
(* them, a custom one.                                                     *)
ReadersAgree ==
  Proper /\ binary # <<>> =>
    LET sections == Sections(binary)
        cuts == {0} \cup {sections[i].end : i \in DOMAIN sections}
    IN
    /\ IF Complete(sections) THEN Tiled(cuts)
       ELSE ~ \E c \in SUBSET (1 .. Len(binary) - 1) : Tiled(c \cup {0, Len(binary)})
    /\ section # Null =>
         \E i \in DOMAIN sections : /\ sections[i] # BrokenSection /\ sections[i].id = CustomId
                                    /\ section.to = sections[i].end
                                    /\ section.from \in sections[i].start + 2 .. section.to

(* The functions of a code section are smaller together than what was read *)
(* of it, for their number and sizes take room as well.                    *)
BodiesAreRead == estimate.valid /\ estimate # NoCode => estimate.total < estimate.read

(* Together: both readers take a file apart in the same way.               *)
ReaderInv == ReaderTypeOK /\ ReadersAgree /\ BodiesAreRead
=============================================================================
