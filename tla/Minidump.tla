------------------------------ MODULE Minidump ------------------------------
(***************************************************************************)
(* processor/minidump.cc, class Minidump: the header and the directory of  *)
(* a dump file, the streams that are read from it on demand and kept, and  *)
(* the position of the one file stream that everything shares.             *)
(*                                                                         *)
(* A file is [open, sig, version, rva, dir]: whether it can be opened; the *)
(* signature "own", "swapped", "other" or "short" (the header is not all   *)
(* there); whether the version is right; whether the directory can be read *)
(* ("ok" or "short"); and its entries [type, seek, read], read being what  *)
(* reading the stream comes to: "ok", "bad" data, or "eof".                *)
(***************************************************************************)
EXTENDS Integers, Sequences, FiniteSets

CONSTANTS
    Files,           \* the files that may be read
    Types,           \* stream types a caller asks for
    Single,          \* those of which a file has at most one
    CPU,             \* the type of the system information stream
    max_streams_,
    MaxObjects,      \* bound: stream objects made
    MaxReads         \* bound: calls of Read

None == 0

VARIABLES
    file,       \* the file of the last Read
    stream_,    \* "null", "good" or "fail"
    pos,        \* where stream_ stands: "start", "dir", <<"stream", i>>, ...
    valid_, swap_,
    directory_, \* Seq of entries
    stream_map_,\* type -> [index, stream]
    made,       \* objects made so far, each the number of a Read and an entry
    live,       \* those not deleted
    dangling,   \* history: types whose object a copy of the map's entry has deleted
    held,       \* type -> objects GetStream has returned since the last Read
    reads,      \* calls of Read
    last        \* what the last call did

vars == <<file, stream_, pos, valid_, swap_, directory_, stream_map_, made, live, dangling, held, reads, last>>

NoMap == [t \in {} |-> None]
Call(op, result) == [op |-> op, result |-> result]

Init ==
    /\ file \in Files
    /\ stream_ = "null" /\ pos = <<"start">>
    /\ valid_ = FALSE /\ swap_ = FALSE
    /\ directory_ = <<>> /\ stream_map_ = NoMap
    /\ made = <<>> /\ live = {} /\ dangling = {} /\ held = [t \in Types |-> {}]
    /\ reads = 0 /\ last = Call("new", TRUE)

-----------------------------------------------------------------------------
\* ~MinidumpStreamInfo deletes the stream it points to.
Stashed(map) == {map[t].stream : t \in DOMAIN map} \ {None}

\* Mutant: the streams of the last file are not deleted.
NotDeleted(map) == live

Remaining(map) == live \ Stashed(map)

\* Once a read has gone past the end, the stream stays failed.
Opened(f) == stream_ = "good" \/ (stream_ = "null" /\ f.open)

\* What Read finds in file f, up to the directory.
HeaderRead(f) == Opened(f) /\ f.sig # "short"
HeaderGood(f) == HeaderRead(f) /\ f.sig \in {"own", "swapped"} /\ f.version
DirectoryRead(f) == HeaderGood(f) /\ Len(f.dir) <= max_streams_ /\ (f.rva = "ok" \/ f.dir = <<>>)

\* Streams these classes deal with come singly.
NoneTwice(dir) == \A i, j \in DOMAIN dir : dir[i].type = dir[j].type /\ dir[i].type \in Single => i = j

\* Each type has its last entry.
MapOf(dir) ==
    [t \in {dir[i].type : i \in DOMAIN dir} |->
        [index |-> CHOOSE i \in DOMAIN dir : dir[i].type = t /\ \A j \in DOMAIN dir : dir[j].type = t => j <= i,
         stream |-> None]]

\* The map is cleared first, and is left half built when an entry is refused;
\* valid_ keeps anyone from using it.
MapAfterRead(f, good) == IF good THEN MapOf(f.dir) ELSE NoMap

\* A stream that was never opened stays null; one that could not be read to
\* the end of what was asked for has failed.
StreamAfterRead(f) ==
    CASE stream_ = "fail" -> "fail"
      [] stream_ # "fail" /\ ~Opened(f) -> "fail"
      [] OTHER -> IF f.sig = "short" \/ (HeaderGood(f) /\ Len(f.dir) <= max_streams_ /\ ~DirectoryRead(f))
                  THEN "fail" ELSE "good"

Read(f) ==
    /\ reads < MaxReads
    /\ reads' = reads + 1
    /\ LET good == DirectoryRead(f) /\ NoneTwice(f.dir)
       IN  /\ file' = f
           /\ stream_' = StreamAfterRead(f)
           /\ pos' = <<"dir">>
           /\ swap_' = IF HeaderRead(f) /\ f.sig \in {"own", "swapped"} THEN f.sig = "swapped" ELSE swap_
           /\ valid_' = good
           /\ directory_' = IF good THEN f.dir ELSE <<>>
           /\ stream_map_' = MapAfterRead(f, good)
           /\ live' = Remaining(stream_map_)
           /\ dangling' = {}
           /\ held' = [t \in Types |-> {}]
           /\ last' = Call("Read", good)
    /\ UNCHANGED made

-----------------------------------------------------------------------------
\* Seeks to the stream of type t.
CanSeek(t) == stream_ = "good" /\ directory_[stream_map_[t].index].seek

IsCached(t) == stream_map_[t].stream # None

Released(new) == {new}

\* GetStream, of which the nine Get methods are stubs.
Missing(t) == ~valid_ \/ t \notin DOMAIN stream_map_

GetNothing(t) == Missing(t) /\ last' = Call("Get", None)
                 /\ UNCHANGED <<file, stream_, pos, valid_, swap_, directory_, stream_map_, made, live, dangling, held, reads>>

GetCached(t) ==
    /\ ~Missing(t) /\ IsCached(t)
    /\ held' = [held EXCEPT ![t] = @ \cup {stream_map_[t].stream}]
    /\ last' = Call("Get", stream_map_[t].stream)
    /\ UNCHANGED <<file, stream_, pos, valid_, swap_, directory_, stream_map_, made, live, dangling, reads>>

\* The object is made, reads itself, and is deleted again when that fails.
GetRead(t) ==
    /\ ~Missing(t) /\ ~IsCached(t) /\ Len(made) < MaxObjects
    /\ LET entry == directory_[stream_map_[t].index]
           new == Len(made) + 1
           good == CanSeek(t) /\ entry.read = "ok"
       IN  /\ made' = IF CanSeek(t) THEN Append(made, [of |-> reads, type |-> t]) ELSE made
           /\ pos' = IF CanSeek(t) THEN <<"stream", stream_map_[t].index>> ELSE pos
           /\ stream_' = IF ~CanSeek(t) \/ entry.read = "eof" THEN "fail" ELSE stream_
           /\ stream_map_' = IF good THEN [stream_map_ EXCEPT ![t].stream = new] ELSE stream_map_
           /\ live' = IF good THEN live \cup Released(new) ELSE live
           /\ held' = IF good THEN [held EXCEPT ![t] = @ \cup {new}] ELSE held
           /\ last' = Call("Get", IF good THEN new ELSE None)
    /\ UNCHANGED <<file, valid_, swap_, directory_, dangling, reads>>

GetStream(t) == GetNothing(t) \/ GetCached(t) \/ GetRead(t)

-----------------------------------------------------------------------------
\* The copy of a MinidumpStreamInfo that these make is destroyed at their end, and
\* ~MinidumpStreamInfo deletes the stream that the map still points to.
Copied(ts) == dangling' = dangling \cup {t \in ts : stream_map_[t].stream # None}

SeekToStreamType(t) ==
    /\ IF Missing(t) THEN UNCHANGED <<stream_, pos, live, dangling>> /\ last' = Call("Seek", FALSE)
       ELSE /\ live' = live \ {stream_map_[t].stream}
            /\ Copied({t})
            /\ stream_' = IF CanSeek(t) THEN stream_ ELSE "fail"
            /\ pos' = IF CanSeek(t) THEN <<"stream", stream_map_[t].index>> ELSE pos
            /\ last' = Call("Seek", CanSeek(t))
    /\ UNCHANGED <<file, valid_, swap_, directory_, stream_map_, made, held, reads>>

PrintMinidump ==
    /\ valid_ /\ Copied(DOMAIN stream_map_)
    /\ live' = Remaining(stream_map_)
    /\ last' = Call("Print", TRUE)
    /\ UNCHANGED <<file, stream_, pos, valid_, swap_, directory_, stream_map_, made, held, reads>>

Restored(saved, now) == saved

\* The position is saved, the system information is read if it has not been,
\* and the position restored; without a position nothing is done.
GetContextCPUFlagsFromSystemInfo ==
    IF ~valid_ \/ stream_ # "good"
    THEN /\ last' = Call("Flags", TRUE)
         /\ UNCHANGED <<file, stream_, pos, valid_, swap_, directory_, stream_map_, made, live, dangling, held, reads>>
    ELSE /\ Len(made) < MaxObjects
         /\ LET known == ~Missing(CPU)
                fresh == known /\ ~IsCached(CPU)
                entry == directory_[stream_map_[CPU].index]
                good == fresh /\ CanSeek(CPU) /\ entry.read = "ok"
                ends == IF ~fresh THEN "good" ELSE IF ~CanSeek(CPU) \/ entry.read = "eof" THEN "fail" ELSE "good"
            IN  /\ stream_' = ends
                /\ pos' = IF ends = "good" THEN Restored(pos, IF fresh THEN <<"stream", stream_map_[CPU].index>> ELSE pos)
                          ELSE <<"stream", stream_map_[CPU].index>>
                /\ made' = IF fresh /\ CanSeek(CPU) THEN Append(made, [of |-> reads, type |-> CPU]) ELSE made
                /\ stream_map_' = IF good THEN [stream_map_ EXCEPT ![CPU].stream = Len(made) + 1] ELSE stream_map_
                /\ live' = IF good THEN live \cup Released(Len(made) + 1) ELSE live
                /\ last' = Call("Flags", ends = "good")
         /\ UNCHANGED <<file, valid_, swap_, directory_, dangling, held, reads>>

Next ==
    \/ \E f \in Files : Read(f)
    \/ \E t \in Types : GetStream(t) \/ SeekToStreamType(t)
    \/ PrintMinidump
    \/ GetContextCPUFlagsFromSystemInfo

Spec == Init /\ [][Next]_vars

-----------------------------------------------------------------------------
TypeOK ==
    /\ file \in Files /\ stream_ \in {"null", "good", "fail"}
    /\ valid_ \in BOOLEAN /\ swap_ \in BOOLEAN
    /\ live \subseteq DOMAIN made /\ reads \in 0..MaxReads

\* What a valid Minidump leads to is there: every type of the map has an
\* entry of the directory of that type, the only one if it is of the types
\* that come singly, and the byte order is the file's.
MapIsOfDirectory ==
    valid_ => /\ swap_ = (file.sig = "swapped")
              /\ \A t \in DOMAIN stream_map_ :
                    /\ stream_map_[t].index \in DOMAIN directory_
                    /\ directory_[stream_map_[t].index].type = t
                    /\ t \in Single => Cardinality({i \in DOMAIN directory_ : directory_[i].type = t}) = 1

\* A stream object is of the file that was read last, and there is one of a
\* type: whoever asks again is given the same one.
OneStreamPerType ==
    \A t \in Types : /\ Cardinality(held[t]) <= 1
                     /\ \A o \in held[t] : made[o] = [of |-> reads, type |-> t]

\* What the map points to, where no copy of an entry was made.
Owned == {stream_map_[t].stream : t \in DOMAIN stream_map_ \ dangling} \ {None}

\* No stream object is lost: those alive are those the map points to.  None is
\* deleted twice, unless Print or SeekToStreamType was called once it was cached:
\* they copy the entry that owns it (minidump.cc:4400, 4557; minidump.h:970).
LiveIsStashed == live = Owned

\* A stream object, once returned, lives until the dump is read again, or until
\* Print or SeekToStreamType is called.
HeldStreamLives == \A t \in Types \ dangling : held[t] \subseteq live

=============================================================================
