------------------------------- MODULE PatchBin -------------------------------
(***************************************************************************)
(* The patch command (PatchBin.cpp): the file is read, the places of the   *)
(* source pattern are counted up to the target chunk, the last one found   *)
(* is overwritten in memory and the whole image is written back.  One step *)
(* is one call into the file or one turn of the search.                    *)
(***************************************************************************)
EXTENDS Integers, Sequences, FiniteSets

CONSTANTS Bytes,       \* values of a byte
          MaxSize,     \* longest file
          MaxPattern,  \* longest pattern (8 in the code)
          MaxChunk     \* largest target chunk asked for

ASSUME PatchBinAssumption == MaxSize \in Nat /\ MaxPattern \in Nat /\ MaxChunk \in Nat

VARIABLES original,  \* what the file held when the command began
          file,      \* what it holds
          request,   \* the two patterns, as ReadBuf leaves them, and the target
                     \* chunk (0: none given)
          fbuf,      \* the image in memory
          offset, offsetFound, nResults,
          res,       \* what PatchBin returns
          patching   \* "begin", "search", "found", "write", "done" or "crashed"

patchVars == <<original, file, request, fbuf, offset, offsetFound, nResults, res, patching>>

\* A parameter may be the empty string.
Patterns == UNION {[1..n -> Bytes] : n \in 0..MaxPattern}
Requests == [src : Patterns, dest : Patterns, chunk : 0..MaxChunk]
Images   == UNION {[1..n -> Bytes] : n \in 0..MaxSize}

src   == request.src
dest  == request.dest
size  == Len(fbuf)

\* Offsets count from 0.
Holds(image, at, pattern) == SubSeq(image, at + 1, at + Len(pattern)) = pattern

\* image with the bytes from offset at on replaced by bytes.
Overwrite(image, at, bytes) ==
  [i \in DOMAIN image |-> IF i - at \in DOMAIN bytes THEN bytes[i - at] ELSE image[i]]

-----------------------------------------------------------------------------

PatchInit == /\ original \in Images /\ request \in Requests
             /\ file = original /\ fbuf = <<>>
             /\ offset = 0 /\ offsetFound = 0 /\ nResults = 0
             /\ res = 1 /\ patching = "begin"

Fits == Len(src) = Len(dest) /\ Len(original) > Len(src)

\* The command gives up before it reads: always when the patterns or the file
\* do not fit, and whenever fopen, ReadBuf or malloc fails.
Refuse == /\ patching = "begin"
          /\ patching' = "done"
          /\ UNCHANGED <<original, file, request, fbuf, offset, offsetFound, nResults, res>>

\* ReadBuf of an empty string: sscanf returns EOF, which is not 0, the length
\* becomes 255 and the copy runs over both buffers.  The behaviour is
\* undefined; the process is lost, or goes on with patterns that happen to be
\* where it wrote.
Overrun == /\ patching = "begin"
           /\ src = <<>> \/ dest = <<>>
           /\ \/ patching' = "crashed" /\ UNCHANGED request
              \/ \E s, d \in Patterns \ {<<>>} :
                   request' = [request EXCEPT !.src = s, !.dest = d] /\ UNCHANGED patching
           /\ UNCHANGED <<original, file, fbuf, offset, offsetFound, nResults, res>>

\* File2Memory; a short read ends the command, otherwise res is the size.
Load == /\ patching = "begin"
        /\ Fits /\ src # <<>>
        /\ \/ fbuf' = file /\ res' = Len(file) /\ patching' = "search"
           \/ fbuf' = <<>> /\ res' = 1 /\ patching' = "done"
        /\ UNCHANGED <<original, file, request, offset, offsetFound, nResults>>

\* The places Find looks at: i < Size - Pattern.len.
FoundAt(from) == {i \in from..(size - Len(src) - 1) : Holds(fbuf, i, src)}

\* One turn of the loop: the next place, if there is one.
Search == /\ patching = "search"
          /\ \/ /\ FoundAt(offset) = {}
                /\ patching' = "found"
                /\ UNCHANGED <<offset, offsetFound, nResults>>
             \/ \E next \in FoundAt(offset) :
                  /\ \A i \in FoundAt(offset) : next <= i
                  /\ nResults' = nResults + 1
                  /\ offsetFound' = next /\ offset' = next + 1
                  /\ patching' = IF nResults' = request.chunk THEN "found" ELSE "search"
          /\ UNCHANGED <<original, file, request, fbuf, res>>

\* A bug: any match will do when no chunk is asked for.
SelectedAny == nResults >= 1 /\ (request.chunk = 0 \/ nResults = request.chunk)

Selected == nResults = 1 \/ nResults = request.chunk

\* A bug: the place is looked for again, from the start of the file.
PatchOffset == Overwrite(fbuf, offset, dest)

Patched == Overwrite(fbuf, offsetFound, dest)

Patch == /\ patching = "found"
         /\ IF nResults # 0 /\ Selected
              THEN fbuf' = Patched /\ patching' = "write"
              ELSE patching' = "done" /\ UNCHANGED fbuf
         /\ UNCHANGED <<original, file, request, offset, offsetFound, nResults, res>>

\* The write may fail half-way; nobody looks.
Write == /\ patching = "write"
         /\ \E written \in 0..size : file' = Overwrite(file, 0, SubSeq(fbuf, 1, written))
         /\ res' = 0 /\ patching' = "done"
         /\ UNCHANGED <<original, request, fbuf, offset, offsetFound, nResults>>

PatchNext == Refuse \/ Overrun \/ Load \/ Search \/ Patch \/ Write

PatchSpec == PatchInit /\ [][PatchNext]_patchVars

-----------------------------------------------------------------------------

\* The places of the source pattern, and those that leave a byte behind them.
\* Find never looks at a place at the very end of the file (PatchBin.cpp:29).
Places == {i \in 0..(Len(original) - Len(src)) : Holds(original, i, src)}
Seen   == {i \in Places : i < Len(original) - Len(src)}

\* The place to be patched: the chunk asked for, counted from the start of the
\* file, or the only one there is, the one at the very end not counted.
Expected == {at \in Seen : \/ Seen = {at}
                          \/ Cardinality({i \in Seen : i <= at}) = request.chunk}

\* The file is changed in no other place than the expected one, and there to
\* the destination pattern, even when the write fails half-way.
OnlyThePlaceChanges ==
  \/ file = original
  \/ \E at \in Expected : \A i \in DOMAIN file :
       file[i] # original[i] => i - at \in DOMAIN dest /\ file[i] = dest[i - at]

\* Once it has read the file, the command reports success just when there is a
\* place to patch, one at the very end not counted; all failures leave the
\* file as it was.
ReportedTruly ==
  patching = "done" =>
    \/ res = 0 /\ Expected # {} /\ Len(src) = Len(dest)
    \/ res # 0 /\ file = original /\ (fbuf # <<>> => Expected = {})

\* "Source pattern not found" (the log of PatchBin) is true: the file has no
\* place where the pattern lies.
NotFoundIsAbsent == patching = "done" /\ fbuf # <<>> /\ nResults = 0 => Places = {}
=============================================================================
