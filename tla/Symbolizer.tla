----------------------------- MODULE Symbolizer -----------------------------
(***************************************************************************)
(* How a stack frame gets its symbols: StackFrameSymbolizer asks a         *)
(* SimpleSymbolSupplier for the symbol file of the frame's module, gives   *)
(* it to a resolver (SourceLineResolverBase, whose basic kind copies what  *)
(* it needs and whose fast kind searches the buffer in place) and          *)
(* remembers the modules that have none.  ModuleSerializer carries modules *)
(* over from the basic resolver to the fast one.  What the model follows   *)
(* is who holds which buffer, and what is cached under which name.         *)
(***************************************************************************)
EXTENDS Integers, FiniteSets, Sequences

CONSTANTS
    CodeModules,  \* the modules of the minidumps processed
    CodeFile,     \* [CodeModules -> code_file()]
    DebugFile,    \* [CodeModules -> debug_file(), without its directory]
    Identifier,   \* [CodeModules -> debug_identifier()]
    NoName,       \* the empty string
    Paths,        \* the supplier's paths_, a sequence of roots
    Symbolizing,  \* the resolver the symbolizer uses: "basic" or "fast"
    Calls,        \* the calls the clients make besides FillSourceLineInfo
    MaxBuffers    \* bound: buffers allocated in a behaviour

VARIABLES
    disk,               \* symbol file path -> "good" or "corrupt"
    modules_,           \* resolver -> code_file -> the module loaded
    corrupt_modules_,   \* resolver -> set of code_files
    memory_buffers_,    \* resolver or "supplier" -> code_file -> buffer
    no_symbol_modules_, \* code_files the symbolizer takes to have no symbols
    live,               \* buffers allocated and not deleted
    allocated,          \* buffers allocated so far, numbered from 1
    freedTwice,         \* some delete[] was given a dead buffer
    last,               \* the last call, its module and its result
    reported            \* code_files reported without symbols since Reset

vars == <<disk, modules_, corrupt_modules_, memory_buffers_, no_symbol_modules_,
          live, allocated, freedTwice, last, reported>>

Resolvers == {"basic", "fast"}
Files == {CodeFile[m] : m \in CodeModules}
SymbolPaths == {<<Paths[i], DebugFile[m], Identifier[m]>> : i \in DOMAIN Paths, m \in CodeModules}
Empty == [f \in {} |-> 0]
ShouldDeleteMemoryBufferAfterLoadModule(r) == r = "basic"

Insert(m, k, v) == IF k \in DOMAIN m THEN m ELSE [x \in DOMAIN m \cup {k} |-> IF x = k THEN v ELSE m[x]]
Erase(m, k) == [x \in DOMAIN m \ {k} |-> m[x]]

Init ==
    /\ disk \in UNION {[S -> {"good", "corrupt"}] : S \in SUBSET SymbolPaths}
    /\ modules_ = [r \in Resolvers |-> Empty]
    /\ corrupt_modules_ = [r \in Resolvers |-> {}]
    /\ memory_buffers_ = [r \in Resolvers \cup {"supplier"} |-> Empty]
    /\ no_symbol_modules_ = {}
    /\ live = {} /\ allocated = 0 /\ freedTwice = FALSE
    /\ last = [call |-> "none"] /\ reported = {}

Called(c, m, res) ==
    /\ last' = [call |-> c, module |-> m, result |-> res]
    /\ reported' = reported \cup IF c = "fill" /\ res = "kError" THEN {CodeFile[m]} ELSE {}

-----------------------------------------------------------------------------
(* SimpleSymbolSupplier *)

\* <root>/<debug file>/<identifier>/<debug file without .pdb>.sym
PathAtRoot(root, m) == <<root, DebugFile[m], Identifier[m]>>

GetSymbolFileAtPathFromRoot(root, m) ==
    IF DebugFile[m] # NoName /\ Identifier[m] # NoName /\ PathAtRoot(root, m) \in DOMAIN disk
    THEN {PathAtRoot(root, m)} ELSE {}

\* The first root that has the file; the empty set is NOT_FOUND.
GetSymbolFile(m) ==
    LET has == {i \in DOMAIN Paths : GetSymbolFileAtPathFromRoot(Paths[i], m) # {}}
    IN  IF has = {} THEN {}
        ELSE GetSymbolFileAtPathFromRoot(Paths[CHOOSE i \in has : \A j \in has : i <= j], m)

\* FreeSymbolData: memory_buffers_ and live after it, from given ones.
FreeSymbolData(m, buffers, alive) ==
    IF CodeFile[m] \in DOMAIN buffers
    THEN [buffers |-> Erase(buffers, CodeFile[m]), live |-> alive \ {buffers[CodeFile[m]]},
          twice |-> buffers[CodeFile[m]] \notin alive]
    ELSE [buffers |-> buffers, live |-> alive, twice |-> FALSE]

-----------------------------------------------------------------------------
(* SourceLineResolverBase *)

\* LoadModuleUsingMemoryBuffer, for a name that is not loaded: the module is
\* kept even when its text is corrupt.
LoadModuleUsingMemoryBuffer(r, file, b, content) ==
    /\ modules_' = [modules_ EXCEPT ![r] = Insert(@, file, [buffer |-> b, content |-> content])]
    /\ corrupt_modules_' = [corrupt_modules_ EXCEPT ![r] = IF content.corrupt THEN @ \cup {file} ELSE @]

IsLoaded(r, file) == file \in DOMAIN modules_[r]

\* What LoadModule and LoadModuleUsingMapBuffer do with their buffer b.
KeepOrDelete(r, file, b) ==
    IF ShouldDeleteMemoryBufferAfterLoadModule(r)
    THEN live' = live /\ UNCHANGED memory_buffers_
    ELSE /\ live' = live \cup {b}
         /\ memory_buffers_' = [memory_buffers_ EXCEPT ![r] = Insert(@, file, b)]

LoadFresh(r, file, content) ==
    LET b == allocated + 1
    IN  /\ allocated < MaxBuffers /\ allocated' = b
        /\ LoadModuleUsingMemoryBuffer(r, file, b, content)
        /\ KeepOrDelete(r, file, b)

Unloaded == UNCHANGED <<modules_, corrupt_modules_, memory_buffers_, live, allocated>>

\* LoadModule reads a symbol file the client names, which may not be readable;
\* LoadModuleUsingMapBuffer copies a string of the client's.
LoadModule(r, m) ==
    /\ "load" \in Calls
    /\ UNCHANGED <<disk, no_symbol_modules_, freedTwice>>
    /\ \/ IsLoaded(r, CodeFile[m]) /\ Unloaded /\ Called("load", m, FALSE)
       \/ ~IsLoaded(r, CodeFile[m]) /\ Unloaded /\ Called("load", m, FALSE)
       \/ /\ ~IsLoaded(r, CodeFile[m])
          /\ \E c \in BOOLEAN : LoadFresh(r, CodeFile[m], [path |-> NoName, corrupt |-> c])
          /\ Called("load", m, TRUE)

DropBuffer(r, file) ==
    /\ live' = live \ {memory_buffers_[r][file]}
    /\ freedTwice' = (freedTwice \/ memory_buffers_[r][file] \notin live)
    /\ memory_buffers_' = [memory_buffers_ EXCEPT ![r] = Erase(@, file)]

UnloadModule(r, m) ==
    /\ "unload" \in Calls
    /\ modules_' = [modules_ EXCEPT ![r] = Erase(@, CodeFile[m])]
    /\ corrupt_modules_' = IF IsLoaded(r, CodeFile[m])
                           THEN [corrupt_modules_ EXCEPT ![r] = @ \ {CodeFile[m]}]
                           ELSE corrupt_modules_
    /\ IF ~ShouldDeleteMemoryBufferAfterLoadModule(r) /\ CodeFile[m] \in DOMAIN memory_buffers_[r]
       THEN DropBuffer(r, CodeFile[m])
       ELSE UNCHANGED <<live, memory_buffers_, freedTwice>>
    /\ UNCHANGED <<disk, no_symbol_modules_, allocated>>
    /\ Called("unload", m, TRUE)

\* ModuleSerializer::ConvertOneModule: the fast resolver loads a copy of what
\* the basic one holds under that name.  ConvertAllModules repeats it.
ConvertOneModule(m) ==
    /\ "convert" \in Calls
    /\ UNCHANGED <<disk, no_symbol_modules_, freedTwice>>
    /\ IF IsLoaded("basic", CodeFile[m]) /\ ~IsLoaded("fast", CodeFile[m])
       THEN /\ LoadFresh("fast", CodeFile[m], modules_["basic"][CodeFile[m]].content)
            /\ Called("convert", m, TRUE)
       ELSE Unloaded /\ Called("convert", m, FALSE)

-----------------------------------------------------------------------------
(* StackFrameSymbolizer *)

\* What FillSourceLineInfo reports for a module that is loaded.
ResultOf(corrupt, file) == IF file \in corrupt THEN "kWarningCorruptSymbols" ELSE "kNoError"

\* Mutant: the buffer goes back to the supplier whatever the resolver.
FreedAfterLoad(m, buffers, alive) == FreeSymbolData(m, buffers, alive)

AfterLoad(m, buffers, alive) ==
    IF ShouldDeleteMemoryBufferAfterLoadModule(Symbolizing)
    THEN FreeSymbolData(m, buffers, alive)
    ELSE [buffers |-> buffers, live |-> alive, twice |-> FALSE]

\* FOUND: the supplier's copy b of the file goes to the resolver.
FetchFound(m, path) ==
    LET b == allocated + 1
        file == CodeFile[m]
        after == AfterLoad(m, Insert(memory_buffers_["supplier"], file, b), live \cup {b})
    IN  /\ allocated < MaxBuffers /\ allocated' = b
        /\ LoadModuleUsingMemoryBuffer(Symbolizing, file, b,
                                       [path |-> path, corrupt |-> disk[path] = "corrupt"])
        /\ memory_buffers_' = [memory_buffers_ EXCEPT !["supplier"] = after.buffers]
        /\ live' = after.live
        /\ freedTwice' = (freedTwice \/ after.twice)
        /\ Called("fill", m, ResultOf(corrupt_modules_'[Symbolizing], file))
        /\ UNCHANGED no_symbol_modules_

\* INTERRUPT (no memory for the copy) is not remembered.
Interrupted(m) == UNCHANGED no_symbol_modules_

RememberMissing(m) == no_symbol_modules_' = no_symbol_modules_ \cup {CodeFile[m]}

\* FillSourceLineInfo for a frame in module m.
FillSourceLineInfo(m) ==
    LET file == CodeFile[m]
    IN  /\ UNCHANGED disk
        /\ \/ /\ file \in no_symbol_modules_
              /\ Unloaded /\ Called("fill", m, "kError")
              /\ UNCHANGED <<no_symbol_modules_, freedTwice>>
           \/ /\ file \notin no_symbol_modules_ /\ IsLoaded(Symbolizing, file)
              /\ Unloaded /\ Called("fill", m, ResultOf(corrupt_modules_[Symbolizing], file))
              /\ UNCHANGED <<no_symbol_modules_, freedTwice>>
           \/ /\ file \notin no_symbol_modules_ /\ ~IsLoaded(Symbolizing, file)
              /\ \/ \E path \in GetSymbolFile(m) : FetchFound(m, path)
                 \/ /\ GetSymbolFile(m) = {} /\ RememberMissing(m)
                    /\ Unloaded /\ Called("fill", m, "kError") /\ UNCHANGED freedTwice
                 \/ /\ GetSymbolFile(m) # {} /\ Interrupted(m)
                    /\ Unloaded /\ Called("fill", m, "kInterrupt") /\ UNCHANGED freedTwice

Reset ==
    /\ "reset" \in Calls
    /\ no_symbol_modules_' = {}
    /\ UNCHANGED <<disk, freedTwice>> /\ Unloaded
    /\ last' = [call |-> "reset"] /\ reported' = {}

\* Environment: a symbol file is added to the store while dumps are processed.
FileAdded(path) ==
    /\ "file" \in Calls
    /\ path \notin DOMAIN disk
    /\ \E c \in {"good", "corrupt"} : disk' = Insert(disk, path, c)
    /\ Unloaded /\ last' = [call |-> "file"] /\ UNCHANGED reported
    /\ UNCHANGED <<no_symbol_modules_, freedTwice>>

Next ==
    \/ \E m \in CodeModules : FillSourceLineInfo(m) \/ ConvertOneModule(m)
    \/ \E m \in CodeModules, r \in Resolvers : LoadModule(r, m) \/ UnloadModule(r, m)
    \/ Reset
    \/ \E path \in SymbolPaths : FileAdded(path)

Spec == Init /\ [][Next]_vars

-----------------------------------------------------------------------------
\* The fast resolver searches the symbols in the buffer itself, so the buffer
\* of each of its modules is alive as long as the module is, whoever holds it:
\* the resolver for what a client or the serializer loaded, the supplier for
\* what the symbolizer fetched (LoadModule's "memory_buffer has to stay alive
\* as long as the module", ShouldDeleteMemoryBufferAfterLoadModule).
SearchedBufferAlive == \A f \in DOMAIN modules_["fast"] : modules_["fast"][f].buffer \in live

\* No buffer is deleted twice, whatever the order of loads, conversions,
\* fetches and unloads under the same name.
NoDoubleDelete == ~freedTwice

\* The resolver deletes or holds every buffer it allocates itself; the supplier's
\* may be in the supplier's map only.  Without unloading, nothing is lost.
EveryBufferHeld ==
    live = UNION {{memory_buffers_[h][f] : f \in DOMAIN memory_buffers_[h]} :
                     h \in DOMAIN memory_buffers_}

\* A name is in corrupt_modules_ exactly when the module loaded under it had
\* errors: after an unload and a load of a good file it is no longer reported.
CorruptExactly ==
    \A r \in Resolvers : \A f \in Files :
        f \in corrupt_modules_[r] <=> (IsLoaded(r, f) /\ modules_[r][f].content.corrupt)

\* The modules that have the code_file of m, under which all is kept.
SameName(m) == {n \in CodeModules : CodeFile[n] = CodeFile[m]}

\* FillSourceLineInfo says kNoError or kWarningCorruptSymbols only with symbols in
\* the resolver that are those of the module, or of another one with the same
\* code_file, which is all that modules_ tells apart
\* (source_line_resolver_base.cc:157, 230), unless a client loaded others.
OwnSymbols ==
    last.call = "fill" /\ last.result \in {"kNoError", "kWarningCorruptSymbols"} =>
        LET file == CodeFile[last.module]
        IN  /\ IsLoaded(Symbolizing, file)
            /\ LET p == modules_[Symbolizing][file].content.path
               IN  p = NoName \/ \E m \in SameName(last.module) : p[2] = DebugFile[m] /\ p[3] = Identifier[m]

\* After kInterrupt the walk is to be "retried in future": an interrupted fetch
\* never turns a module whose symbol file is there into one that has none. Only
\* another one of its code_file, which has none, does (stack_frame_symbolizer.cc:69).
ErrorMeansMissing ==
    last.call = "fill" /\ last.result = "kError" /\ "file" \notin Calls =>
        \E m \in SameName(last.module) : GetSymbolFile(m) = {}

\* "This helps avoid repeated lookups": once a module of a dump has no symbols
\* it is reported so, even if its file appears meanwhile, until Reset.
MissingUntilReset ==
    last.call = "fill" /\ CodeFile[last.module] \in reported => last.result = "kError"
=============================================================================
