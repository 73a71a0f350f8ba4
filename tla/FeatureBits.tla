----------------------------- MODULE FeatureBits ------------------------------
(***************************************************************************)
(* The virtio command (virtio.cpp), which names the features in a word of  *)
(* 64 bits table by table, and the bits command (bits.cpp), which cuts two *)
(* such words into fields.  A word is the set of the numbers of its bits.  *)
(* One step is one table or one word.                                      *)
(***************************************************************************)
EXTENDS Integers, Sequences, FiniteSets, SequencesExt, Ascending

CONSTANT MaxBit   \* highest bit a number on the command line may have

ASSUME FeatureBitsAssumption == MaxBit \in Nat

\* A number in hex as it is given: its bits, two at most, and whether something
\* else follows, which does not depend on how many they are.
BitSets == {{a, b} : a, b \in 0..MaxBit} \cup {{}}
Texts   == [bits : BitSets, rest : {FALSE}] \cup
           [bits : {bits \in BitSets : Cardinality(bits) <= 1}, rest : {TRUE}]

CommonFeatures == <<24, 27, 28, 30, 32, 33, 34, 35, 36, 37, 38, 39, 40, 41>>
NetFeatures    == <<0, 1, 2, 3, 5, 7, 8, 9, 10, 11, 12, 13, 14, 15, 16, 17, 18, 19, 20, 21, 22, 23,
                    51, 52, 53, 54, 55, 56, 57, 59, 60, 61, 62, 63, 51, 6>>
BaloonFeatures == <<0, 1, 2, 3, 4, 5>>

\* Device-specific tables by class; other classes have none.
ClassTable == [class \in {"network", "balloon"} |-> IF class = "network" THEN NetFeatures ELSE BaloonFeatures]

\* A bug: one bit of fro is given to the field after it.
CapsFieldsShifted == <<3, 1, 1, 1, 1, 1, 5, 3, 6, 1, 1, 9, 5, 1, 1, 8, 6, 1, 1, 1, 2, 1, 1, 1, 1, 1>>

\* Widths of the fields from bit 0 up, and which of them are not shown.
CapsFields  == <<3, 1, 1, 1, 1, 1, 5, 3, 6, 1, 1, 10, 4, 1, 1, 8, 6, 1, 1, 1, 2, 1, 1, 1, 1, 1>>
CapsHidden  == {2, 8, 11, 14, 21}
EcapsFields == <<1, 1, 1, 1, 1, 1, 1, 1, 10, 2, 4, 1, 1, 1, 1, 1, 1, 1, 1, 1, 1, 1, 5,
                 1, 1, 1, 1, 1, 1, 1, 1, 1, 1, 1, 1, 1, 1, 4, 1, 5>>
EcapsHidden == {6, 10, 12, 15, 16, 20, 34, 38, 40}

VARIABLES query,    \* the command and its parameters
          words,    \* the numbers as they were taken; virtio clears what it has named
          named,    \* virtio's output: pairs of section and bit
          shown,    \* the fields bits has shown of each word
          bitsAt    \* where the command is

bitsVars == <<query, words, named, shown, bitsAt>>

Queries ==
  [command : {"virtio"}, class : {"network", "balloon", "other"}, texts : {<<t>> : t \in Texts}] \cup
  LET few == {t \in Texts : Cardinality(t.bits) <= 1} IN   \* the two words do not meet
  [command : {"bits"}, class : {"iommu", "other"},
   texts : {<<t>> : t \in few} \cup {tt \in few \X few : {} \in {tt[1].bits, tt[2].bits}}]

\* strtoll: what does not fit into 63 bits becomes the largest such number.
Taken(text) == IF \A b \in text.bits : b < 63 THEN text.bits ELSE 0..62

\* The lines for some entries of a table, in its order.
Report(section, table, rows) ==
  LET known == Ascending(rows) IN [k \in DOMAIN known |-> <<section, table[known[k]]>>]

\* A bug: a bit that has been named stays set.
ParseTableAgain(table, section) ==
  /\ named' = named \o Report(section, table, {i \in DOMAIN table : table[i] \in words[1]})
  /\ UNCHANGED words

\* Names the bits of the word that the table has and clears them, so that a
\* second entry of a bit finds it gone.
ParseTable(table, section) ==
  /\ named' = named \o Report(section, table,
       {i \in DOMAIN table : table[i] \in words[1] /\ \A j \in 1..(i - 1) : table[j] # table[i]})
  /\ words' = <<words[1] \ ToSet(table)>>

\* A field begins where the one before it ends.
Starts(fields) ==
  LET start[k \in DOMAIN fields] == IF k = 1 THEN 0 ELSE start[k - 1] + fields[k - 1]
  IN  start

\* The value of each field that is shown, its bits numbered from 0.
Dump(fields, hidden, word) ==
  LET start == Starts(fields)
  IN  [k \in DOMAIN fields \ hidden |-> {b \in 0..(fields[k] - 1) : start[k] + b \in word}]

-----------------------------------------------------------------------------

BitsInit == /\ query \in Queries
            /\ words = <<>> /\ named = <<>> /\ shown = <<>>
            /\ bitsAt = "begin"

\* A rest that is no digit is warned of, and what comes before it is taken.
TakeFeatures == /\ bitsAt = "begin" /\ query.command = "virtio"
                /\ words' = <<Taken(query.texts[1])>>
                /\ bitsAt' = "common"
                /\ UNCHANGED <<query, named, shown>>

NameCommon == /\ bitsAt = "common"
              /\ ParseTable(CommonFeatures, "common")
              /\ bitsAt' = IF query.class \in DOMAIN ClassTable THEN "specific" ELSE "unknown"
              /\ UNCHANGED <<query, shown>>

NameSpecific == /\ bitsAt = "specific"
                /\ ParseTable(ClassTable[query.class], "specific")
                /\ bitsAt' = "unknown"
                /\ UNCHANGED <<query, shown>>

NameUnknown == /\ bitsAt = "unknown"
               /\ LET rest == Ascending(words[1] \cap 0..63) IN
                  named' = named \o [k \in DOMAIN rest |-> <<"unknown", rest[k]>>]
               /\ bitsAt' = "done"
               /\ UNCHANGED <<query, words, shown>>

\* One parameter is enough for the command, but the second number is used
\* without a look at how many there are.
MissingWord == /\ bitsAt = "begin" /\ query.command = "bits" /\ query.class = "iommu"
               /\ Len(query.texts) = 1
               /\ bitsAt' = "crashed"
               /\ UNCHANGED <<query, words, named, shown>>

OtherDevice == /\ bitsAt = "begin" /\ query.command = "bits" /\ query.class = "other"
               /\ bitsAt' = "failed"
               /\ UNCHANGED <<query, words, named, shown>>

\* The words are converted one after the other, before any is shown.
Convert == /\ bitsAt = "begin" /\ query.command = "bits" /\ query.class = "iommu"
           /\ Len(query.texts) = 2 /\ Len(words) < 2
           /\ LET text == query.texts[Len(words) + 1] IN
              IF text.rest THEN bitsAt' = "failed" /\ UNCHANGED words
                           ELSE words' = Append(words, Taken(text)) /\ UNCHANGED bitsAt
           /\ UNCHANGED <<query, named, shown>>

ParseIommu == /\ bitsAt = "begin" /\ query.command = "bits" /\ Len(words) = 2
              /\ shown' = <<Dump(CapsFields, CapsHidden, words[1]), Dump(EcapsFields, EcapsHidden, words[2])>>
              /\ bitsAt' = "done"
              /\ UNCHANGED <<query, words, named>>

BitsNext == \/ TakeFeatures \/ NameCommon \/ NameSpecific \/ NameUnknown
            \/ MissingWord \/ OtherDevice \/ Convert \/ ParseIommu

BitsSpec == BitsInit /\ [][BitsNext]_bitsVars

-----------------------------------------------------------------------------

\* Parse (virtio.cpp): every bit of the word it took is named once - by the
\* common table, else by that of the device, else as unknown - although one
\* of the tables has an entry twice.
NamedOnce ==
  bitsAt = "done" /\ query.command = "virtio" =>
    LET specific == IF query.class \in DOMAIN ClassTable THEN ToSet(ClassTable[query.class]) ELSE {}
        section(b) == CASE b \in ToSet(CommonFeatures) -> "common"
                        [] b \notin ToSet(CommonFeatures) /\ b \in specific -> "specific"
                        [] OTHER -> "unknown"
        taken == Taken(query.texts[1])
    IN  /\ Len(named) = Cardinality(taken)
        /\ ToSet(named) = {<<section(b), b>> : b \in taken}

\* First bits of the fields, as the comments beside them say.
CapsComments  == <<0, 3, 4, 5, 6, 7, 8, 13, 16, 22, 23, 24, 34, 38, 39, 40, 48, 54, 55, 56, 57, 59, 60, 61, 62, 63>>
EcapsComments == <<0, 1, 2, 3, 4, 5, 6, 7, 8, 18, 20, 24, 25, 26, 27, 28, 29, 30, 31, 32, 33, 34, 35,
                   40, 41, 42, 43, 44, 45, 46, 47, 48, 49, 50, 51, 52, 53, 54, 58, 59>>

\* The comments beside the bit fields (bits.cpp): a bit of the word shows in
\* the field whose range has it, at its place there, and in no other.
ShownAsCommented ==
  bitsAt = "done" /\ query.command = "bits" =>
    \A w \in 1..2 :
      LET first == IF w = 1 THEN CapsComments ELSE EcapsComments
          last(k) == IF k = Len(first) THEN 63 ELSE first[k + 1] - 1
      IN  \A k \in DOMAIN shown[w] : shown[w][k] = {b - first[k] : b \in words[w] \cap first[k]..last(k)}

\* The help, "iommu <64bits caps> <64bits ecaps>": what is shown are the fields
\* of the 64 bits given.
AllBitsShown ==
  bitsAt = "done" /\ query.command = "bits" =>
    LET given(w) == query.texts[w].bits IN
    given(1) \cup given(2) \subseteq 0..63 =>
      shown = <<Dump(CapsFields, CapsHidden, given(1)), Dump(EcapsFields, EcapsHidden, given(2))>>
=============================================================================
